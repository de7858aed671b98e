-------------------------------- MODULE MaApi --------------------------------
(***************************************************************************)
(* The upper layer of libma (ma_api.c): the functions a game calls, and    *)
(* the tasks that carry a call out.  A call that is accepted sets APIWAIT  *)
(* and a task; MAAPI_Main, run by the timer interrupt whenever the bios is *)
(* not busy, advances the task by one step, which usually sends one        *)
(* command.  The steps 249 to 252 are the error paths 0xf9 to 0xfc of the  *)
(* code.  Modelled here: the life of the library, the three ways into a    *)
(* session (ISP, call, wait for a call), the peer-to-peer exchange, the    *)
(* status check, reading the EEPROM, the two ways out of a session.        *)
(***************************************************************************)
EXTENDS MaBios

ValidIn(task) ==
  CASE task \in {"TELSERVER", "TEL", "RECEIVE", "EEPROM_READ"} -> {"OFFLINE"}
    [] task \in {"SDATA", "GDATA"} -> {"P2P_SEND", "P2P_RECV"}
    [] task = "OFFLINE" -> {"PPP", "P2P_SEND", "P2P_RECV"}
    [] OTHER -> ConnModes

ApiValisStatusCheck(m, task) == m.connMode \in ValidIn(task)

MA_SetApiError(m, error) == MA_SetError(m, error)

\* Mistake: an unread error is no reason to refuse a call.
CallAllowedAfterError(m, task) ==
  m.apiMagic /\ m.task = "NONE" /\ ApiValisStatusCheck(m, task)

\* MA_ApiPreExe returns TRUE here.  The flags INTR_TIMER and INTR_SIO it also
\* tests are never seen by a call: the handlers run to completion.
CallAllowed(m, task) ==
  /\ m.apiMagic
  /\ "ERROR" \notin m.condition
  /\ m.task = "NONE"
  /\ ApiValisStatusCheck(m, task)

MA_ApiPreExe(m) ==
  [m EXCEPT !.error = None, !.taskError = None,
            !.condition = (@ \ {"TCPCLOSED"}) \cup {"APIWAIT"}]

Refuse(m) == MA_SetApiError(m, "CANNOT_EXECUTE")

----------------------------------------------------------------------------
(* Parts the tasks share.                                                  *)

NextStep(m)   == [m EXCEPT !.taskStep = (@ + 1) % 256]
GoTo(m, step) == [m EXCEPT !.taskStep = step]
TaskDone(m)   == MA_TaskSet(m, "NONE", 0)
Refused(m)    == m.recvCmd = "ERROR"

Fail(m, error, step) == [m EXCEPT !.taskError = error, !.taskStep = step]

DefaultFail(m, step) == GoTo(MA_DefaultNegaResProc(m), step)

\* Mistake: the error is reported but the session is kept.
ReportOnly(m) == TaskDone(MA_SetApiError(m, m.taskError))

\* Step 0xfb of every task: the error is reported and the session is gone.
ReportAndReset(m) == TaskDone(MA_SetApiError(MA_Reset(m), m.taskError))

----------------------------------------------------------------------------
(* The tasks.                                                              *)

MATASK_InitLibrary(m) ==
  LET n == IF Refused(m) /\ m.negaResCmd # "END" THEN DefaultFail(m, 251) ELSE m
  IN CASE n.taskStep = 0 -> NextStep(MABIOS_Start(n))
       [] n.taskStep \in {1, 2} -> GoTo(MABIOS_End(n), 3)
       [] n.taskStep = 3 -> TaskDone(MA_Reset(n))
       [] n.taskStep = 250 -> NextStep(MABIOS_End(n))
       [] n.taskStep = 251 -> ReportAndReset(n)
       [] OTHER -> n

TelServerNega(m) ==
  CASE m.negaResCmd \in {"END", "OFFLINE"} -> m
    [] m.negaResCmd \in {"TEL", "CHECK_STATUS", "CHANGE_CLOCK"} ->
         DefaultFail(m, 250)
    [] m.negaResCmd = "EEPROM_READ" -> Fail(m, "EEPROM_SUM", 250)
    [] m.negaResCmd = "PPP_CONNECT" -> Fail(m, "PPP_CONNECT", 249)
    [] OTHER -> DefaultFail(m, 251)

\* The settings read from the EEPROM are kept for the next call.
MATASK_TelServer(m) ==
  LET n == IF Refused(m) THEN TelServerNega(m) ELSE m
  IN CASE n.taskStep = 0 -> NextStep(MABIOS_Start(n))
       [] n.taskStep = 1 -> MABIOS_ChangeClock(NextStep(n))
       [] n.taskStep = 2 -> NextStep(MABIOS_CheckStatus(n))
       [] n.taskStep = 3 ->
            IF n.answer = "lost" THEN Fail(n, "CALL_FAILED", 250)
            ELSE IF n.eepromCached THEN GoTo(n, 6)
            ELSE NextStep(MABIOS_EEPROM_Read(n))
       [] n.taskStep = 4 ->
            IF n.answer = "unregistered" THEN Fail(n, "REGISTRATION", 250)
            ELSE NextStep(MABIOS_EEPROM_Read(n))
       [] n.taskStep = 5 ->
            IF n.answer = "badsum" THEN Fail(n, "EEPROM_SUM", 250)
            ELSE NextStep([n EXCEPT !.eepromCached = TRUE])
       [] n.taskStep = 6 -> NextStep(n)
       [] n.taskStep = 7 -> NextStep(MABIOS_Tel(n))
       [] n.taskStep = 8 -> NextStep(MABIOS_PPPConnect(n))
       [] n.taskStep = 9 ->
            TaskDone(MA_SetCondition([n EXCEPT !.connMode = "PPP"], "PPP"))
       [] n.taskStep = 249 -> NextStep(MABIOS_Offline(n))
       [] n.taskStep = 250 -> NextStep(MABIOS_End(n))
       [] n.taskStep = 251 -> ReportAndReset(n)
       [] OTHER -> n

\* Mistake: the api is not told of the connection.
EnterP2PUnnoticed(m, mode) ==
  TaskDone([m EXCEPT !.status = @ \cup {"CONN_PTP"}, !.bufSize = 0])

\* InitPrevBuf: the peer's data and the cached EEPROM contents share prevBuf.
EnterP2P(m, mode) ==
  TaskDone(MA_SetCondition(
    [m EXCEPT !.status = @ \cup {"CONN_PTP"}, !.connMode = mode,
              !.bufSize = 0, !.eepromCached = FALSE], mode))

MATASK_Tel(m) ==
  LET n == IF ~Refused(m) \/ m.negaResCmd = "END" THEN m
           ELSE IF m.negaResCmd \in {"TEL", "CHECK_STATUS", "CHANGE_CLOCK",
                                     "EEPROM_READ"}
           THEN DefaultFail(m, 250) ELSE DefaultFail(m, 251)
  IN CASE n.taskStep = 0 -> NextStep(MABIOS_Start(n))
       [] n.taskStep = 1 -> MABIOS_ChangeClock(NextStep(n))
       [] n.taskStep = 2 -> NextStep(MABIOS_CheckStatus(n))
       [] n.taskStep = 3 -> IF n.answer = "lost" THEN Fail(n, "CALL_FAILED", 250)
                            ELSE NextStep(MABIOS_Tel(n))
       [] n.taskStep = 4 -> EnterP2P(n, "P2P_SEND")
       [] n.taskStep = 250 -> NextStep(MABIOS_End(n))
       [] n.taskStep = 251 -> ReportAndReset(n)
       [] OTHER -> n

ReceiveNega(m) ==
  CASE m.negaResCmd = "END" -> m
    [] m.negaResCmd = "WAIT_CALL" ->
         IF m.negaResErr = "0" THEN m ELSE DefaultFail(m, 250)
    [] m.negaResCmd \in {"CHANGE_CLOCK", "EEPROM_READ"} -> DefaultFail(m, 250)
    [] OTHER -> DefaultFail(m, 251)

\* Nobody has called yet: WAIT_CALL is refused with error 0 and sent again.
MATASK_Receive(m) ==
  LET n == IF Refused(m) THEN ReceiveNega(m) ELSE m
  IN CASE n.taskStep = 0 -> NextStep(MABIOS_Start(n))
       [] n.taskStep = 1 -> MABIOS_ChangeClock(NextStep(n))
       [] n.taskStep = 2 -> NextStep(MABIOS_WaitCall(n))
       [] n.taskStep = 3 -> GoTo(n, IF n.recvCmd = "WAIT_CALL" THEN 4 ELSE 2)
       [] n.taskStep = 4 -> EnterP2P(n, "P2P_RECV")
       [] n.taskStep = 250 -> NextStep(MABIOS_End(n))
       [] n.taskStep = 251 -> ReportAndReset(n)
       [] OTHER -> n

ConditionNega(m) ==
  CASE m.negaResCmd = "END" -> m
    [] m.negaResCmd = "CHECK_STATUS" ->
         DefaultFail(m, IF m.offline THEN 250 ELSE 252)
    [] OTHER -> DefaultFail(m, 251)

MATASK_Condition(m) ==
  LET n == IF Refused(m) THEN ConditionNega(m) ELSE m
  IN CASE n.taskStep = 0 -> NextStep(MABIOS_Start(n))
       [] n.taskStep = 1 -> NextStep(MABIOS_CheckStatus(n))
       [] n.taskStep = 2 ->
            LET c == MA_ProcessCheckStatusResponse(n, n.answer)
            IN IF n.offline THEN GoTo(c, 3) ELSE TaskDone(c)
       [] n.taskStep = 3 -> NextStep(MABIOS_End(n))
       [] n.taskStep = 4 -> TaskDone(MA_Reset(n))
       [] n.taskStep = 250 -> NextStep(MABIOS_End(n))
       [] n.taskStep = 251 -> ReportAndReset(n)
       [] n.taskStep = 252 -> TaskDone(MA_SetApiError(n, n.taskError))
       [] OTHER -> n

MATASK_Offline(m) ==
  LET n == IF Refused(m) /\ m.negaResCmd = "DATA" THEN GoTo(m, 0) ELSE m
  IN CASE n.taskStep = 0 ->
            NextStep(IF n.connMode \in {"P2P_SEND", "P2P_RECV"} THEN n
                     ELSE MABIOS_PPPDisconnect(n))
       [] n.taskStep = 1 -> NextStep(MABIOS_Offline(n))
       [] n.taskStep = 2 -> NextStep(MABIOS_End(n))
       [] n.taskStep = 3 -> TaskDone(MA_Reset(n))
       [] OTHER -> n

MATASK_EEPROM_Read(m) ==
  LET n == IF ~Refused(m) \/ m.negaResCmd = "END" THEN m
           ELSE IF m.negaResCmd \in {"CHANGE_CLOCK", "EEPROM_READ"}
           THEN DefaultFail(m, 250) ELSE DefaultFail(m, 251)
  IN CASE n.taskStep = 0 -> NextStep(MABIOS_Start(n))
       [] n.taskStep = 1 -> MABIOS_ChangeClock(NextStep(n))
       [] n.taskStep \in {2, 3} -> NextStep(MABIOS_EEPROM_Read(n))
       [] n.taskStep \in {4, 250} -> NextStep(MABIOS_End(n))
       [] n.taskStep = 5 -> TaskDone(MA_Reset(n))
       [] n.taskStep = 251 -> ReportAndReset(n)
       [] OTHER -> n

\* Mistake: the session is not reset when it has been stopped.
StopWithoutReset(m) ==
  IF m.taskStep \in {0, 1} THEN GoTo(MA_BiosStop(m), 2)
  ELSE TaskDone([m EXCEPT !.recvCmd = None])

MATASK_Stop(m) ==
  CASE m.taskStep \in {0, 1} -> GoTo(MA_BiosStop(m), 2)
    [] m.taskStep = 2 -> TaskDone([MA_Reset(m) EXCEPT !.recvCmd = None])
    [] OTHER -> m

\* Mistake: nobody is told that the data has been sent.
P2PNeverSent(m) ==
  IF Refused(m) /\ m.negaResCmd = "DATA"
  THEN TaskDone(MA_SetApiError(MA_Reset(m), "OFFLINE"))
  ELSE [m EXCEPT !.status = @ \ {"PTP_SEND_DONE", "PTP_SEND"}, !.bufSize = 0]

\* What arrived from the peer is appended to prevBuf; PTP_GET says that its
\* first message is there in full.  A call of MA_SData is over when the data
\* has been handed to the bios.
MATASK_P2P(m) ==
  LET s == IF "PTP_SEND_DONE" \in m.status
           THEN [m EXCEPT !.status = @ \ {"PTP_SEND_DONE", "PTP_SEND"},
                          !.condition = @ \ {"APIWAIT"}]
           ELSE m
  IN CASE Refused(s) /\ s.negaResCmd = "DATA" ->
            TaskDone(MA_SetApiError(MA_Reset(s), "OFFLINE"))
       [] ~(Refused(s) /\ s.negaResCmd = "DATA") /\ s.bufSize > 1 ->
            [s EXCEPT !.bufSize = 0,
                      !.condition = IF s.answer = "whole" THEN @ \cup {"PTP_GET"}
                                                          ELSE @]
       [] OTHER -> s

RunTask(m) ==
  CASE m.task \in {"INITLIBRARY", "INITLIBRARY2"} -> MATASK_InitLibrary(m)
    [] m.task = "TELSERVER" -> MATASK_TelServer(m)
    [] m.task = "TEL" -> MATASK_Tel(m)
    [] m.task = "RECEIVE" -> MATASK_Receive(m)
    [] m.task \in {"CONDITION", "CONDITION2"} -> MATASK_Condition(m)
    [] m.task = "OFFLINE" -> MATASK_Offline(m)
    [] m.task = "EEPROM_READ" -> MATASK_EEPROM_Read(m)
    [] m.task = "STOP" -> MATASK_Stop(m)
    [] OTHER -> m

\* Tasks that run before the session is open.
Disconnected ==
  {"INITLIBRARY", "INITLIBRARY2", "TELSERVER", "TEL", "RECEIVE", "CONDITION",
   "CONDITION2", "EEPROM_READ", "STOP"}

MAAPI_Main(m) ==
  IF \/ m.task \notin Disconnected /\ "CONNECTED" \notin m.status
     \/ "CONNTEST" \in m.status
     \/ {"ERROR", "BIOS_BUSY"} \cap m.condition # {}
  THEN m
  ELSE RunTask(IF "CONN_PTP" \in m.status /\ m.sendCmd = "DATA"
               THEN MATASK_P2P(m) ELSE m)

----------------------------------------------------------------------------
(* The calls.  legal says whether the call's parameters pass its checks.   *)

\* A call that opens the session stops the timer, sets its task, and runs the
\* first step itself: it is the START command that starts the timer.
StartTask(m, task) ==
  MAAPI_Main(MA_TaskSet([MA_ApiPreExe(m) EXCEPT !.tm3 = FALSE], task, 0))

MA_InitLibraryMain(task) ==
  LET m == MABIOS_Init([MA_Reset(Zero) EXCEPT !.apiMagic = TRUE])
  IN MAAPI_Main([MA_TaskSet(m, task, 0) EXCEPT !.condition = @ \cup {"APIWAIT"}])

OpenSession(m, task, legal) ==
  CASE ~CallAllowed(m, task) -> Refuse(m)
    [] CallAllowed(m, task) /\ ~legal ->
         MA_SetApiError(MA_ApiPreExe(m), "ILLEGAL_PARAMETER")
    [] OTHER -> StartTask(m, task)

MA_TelServer(m, legal) == OpenSession(m, "TELSERVER", legal)
MA_Tel(m, legal)       == OpenSession(m, "TEL", legal)
MA_Receive(m)          == OpenSession(m, "RECEIVE", TRUE)
MA_EEPROMRead(m)       == OpenSession(m, "EEPROM_READ", TRUE)

MA_ConditionMain(m, task) ==
  CASE ~CallAllowed(m, task) -> Refuse(m)
    [] CallAllowed(m, task) /\ m.connMode = "OFFLINE" ->
         StartTask([m EXCEPT !.offline = TRUE], task)
    [] OTHER -> MA_TaskSet([MA_ApiPreExe(m) EXCEPT !.offline = FALSE], task, 1)

MA_Offline(m) ==
  CASE m.connMode = "OFFLINE" -> m
    [] m.connMode # "OFFLINE" /\ ~CallAllowed(m, "OFFLINE") -> Refuse(m)
    [] OTHER -> MA_TaskSet(MA_ApiPreExe(m), "OFFLINE",
                           IF m.connMode = "PPP" THEN 0 ELSE 1)

\* No task is set: the next poll of the peer carries the data.
MA_SData(m, legal) ==
  CASE ~CallAllowed(m, "SDATA") -> Refuse(m)
    [] CallAllowed(m, "SDATA") /\ ~legal ->
         MA_SetApiError(MA_ApiPreExe(m), "ILLEGAL_PARAMETER")
    [] CallAllowed(m, "SDATA") /\ legal /\ "PTP_GET" \in m.condition ->
         [MA_ApiPreExe(m) EXCEPT !.condition = @ \ {"APIWAIT"}]
    [] OTHER -> [MA_ApiPreExe(m) EXCEPT !.status = @ \cup {"PTP_SEND"}]

\* more: what is left in prevBuf begins with another whole message.
MA_GData(m, more) ==
  CASE ~CallAllowed(m, "GDATA") -> Refuse(m)
    [] CallAllowed(m, "GDATA") /\ "PTP_GET" \notin m.condition ->
         Refuse(MA_ApiPreExe(m))
    [] OTHER ->
         [MA_ApiPreExe(m) EXCEPT
            !.condition = @ \ (IF more THEN {"APIWAIT"}
                                       ELSE {"APIWAIT", "PTP_GET"})]

\* Mistake: the call is not marked as pending.
StopUnawaited(m) ==
  IF m.connMode = "OFFLINE" /\ "APIWAIT" \notin m.condition THEN m
  ELSE MA_TaskSet([m EXCEPT !.condition = @ \ {"BUFFER_FULL"}], "STOP", 1)

\* A call being dialled is cancelled at once, anything else when its command
\* has been answered.
MA_Stop(m) ==
  LET w == [m EXCEPT !.condition = (@ \ {"BUFFER_FULL"}) \cup {"APIWAIT"}]
  IN CASE ~m.apiMagic \/ "ERROR" \in m.condition -> Refuse(m)
       [] /\ m.apiMagic /\ "ERROR" \notin m.condition
          /\ \/ m.task = "STOP"
             \/ m.connMode = "OFFLINE" /\ "APIWAIT" \notin m.condition -> m
       [] OTHER ->
            IF "BIOS_BUSY" \in m.condition /\ m.sendCmd = "TEL"
            THEN MA_CancelRequest(MA_TaskSet(w, "STOP", 0))
            ELSE MA_TaskSet(w, "STOP", 1)

MA_End(m) == IF m.connMode # "OFFLINE" THEN Refuse(m) ELSE Zero

MAAPI_ErrorCheck(m) ==
  IF "ERROR" \notin m.condition THEN m
  ELSE LET e == [m EXCEPT
                   !.error = IF @ \in {"PROT_ILLEGAL_CMD", "PROT_CHECKSUM",
                                       "PROT_INTERNAL"} THEN "SYSTEM" ELSE @,
                   !.condition = @ \ {"ERROR"}]
       IN IF "BIOS_BUSY" \in m.condition THEN e
          ELSE [e EXCEPT !.sendCmd = None, !.recvCmd = None]

=============================================================================
