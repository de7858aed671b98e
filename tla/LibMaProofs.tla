----------------------------- MODULE LibMaProofs -----------------------------
(***************************************************************************)
(* Theorems of the whole library, for every set of calls and whatever the  *)
(* adapter answers: first those that hold however a game misuses the api,  *)
(* then, from the invariant Inv, those of a game that makes no refused     *)
(* calls; last, from Ready, that no call is left waiting and that the      *)
(* library implements ApiRequest.                                          *)
(***************************************************************************)
EXTENDS LibMaProps, MaApiProofs

\* TypeOK and ErrorEndsCall, and what a body being received needs for
\* readCnt to stay a natural number.
IInv == GoodMa(gMA) /\ rx \in 0..3

LEMMA LibMaInit == Init => IInv
  BY ZeroGood DEF Init, IInv

----------------------------------------------------------------------------

LEMMA GameStep == IInv /\ Game => IInv'
<1> SUFFICES ASSUME IInv, Game PROVE IInv'
  OBVIOUS
<1>1. GoodMa(gMA) /\ rx \in 0..3
  BY DEF IInv
<1>2. ASSUME NEW m, GoodMa(m), Returns(m) PROVE IInv'
  BY <1>1, <1>2 DEF Returns, IInv
<1>3. CASE \E task \in {"INITLIBRARY", "INITLIBRARY2"} : InitLibrary(task)
  BY <1>2, <1>3, InitLibraryGood DEF InitLibrary, Tasks
<1>4. CASE \E task \in {"CONDITION", "CONDITION2"} : Condition(task)
  BY <1>1, <1>2, <1>4, ConditionGood DEF Condition, Tasks
<1>5. CASE End
  BY <1>1, <1>2, <1>5, EndGood DEF End
<1>6. \A legal : \A task \in Tasks : GoodMa(OpenSession(gMA, task, legal))
  BY <1>1, OpenSessionGood
<1>7. {"TELSERVER", "TEL", "RECEIVE", "EEPROM_READ"} \subseteq Tasks
  BY DEF Tasks
<1>8. CASE TelServer
  BY <1>2, <1>6, <1>7, <1>8 DEF TelServer, MA_TelServer
<1>9. CASE Tel
  BY <1>2, <1>6, <1>7, <1>9 DEF Tel, MA_Tel
<1>10. CASE Receive
  BY <1>2, <1>6, <1>7, <1>10 DEF Receive, MA_Receive
<1>11. CASE EEPROMRead
  BY <1>2, <1>6, <1>7, <1>11 DEF EEPROMRead, MA_EEPROMRead
<1>12. CASE Offline
  BY <1>1, <1>2, <1>12, OfflineGood DEF Offline
<1>13. CASE SData
  BY <1>1, <1>2, <1>13, SDataGood DEF SData
<1>14. CASE GData
  BY <1>1, <1>2, <1>14, GDataGood DEF GData
<1>15. CASE Stop
  BY <1>1, <1>2, <1>15, StopGood DEF Stop
<1>16. CASE ErrorCheck
  BY <1>1, <1>2, <1>16, ErrorCheckGood DEF ErrorCheck
<1> QED
  BY <1>3, <1>4, <1>5, <1>8, <1>9, <1>10, <1>11, <1>12, <1>13, <1>14, <1>15,
     <1>16 DEF Game

LEMMA TimerStep == IInv /\ Timer => IInv'
<1> SUFFICES ASSUME IInv, Timer PROVE IInv'
  OBVIOUS
<1>1. GoodMa(AfterApi) /\ rx \in 0..3
  BY MainGood DEF IInv, AfterApi
<1>2. ASSUME NEW m, GoodMa(m), Restarted(m) PROVE IInv'
  <2>1. GoodMa([m EXCEPT !.tm3 = TRUE])
    BY <1>2, SetTimerGood
  <2> QED
    BY <1>1, <1>2, <2>1 DEF Restarted, IInv
<1>3. CASE TimerTask
  BY <1>1, <1>2, <1>3 DEF TimerTask
<1>4. CASE TimerPacket
  BY <1>1, <1>2, <1>4, ProcessRecvPacketGood DEF TimerPacket
<1>5. CASE TimerIdle
  BY <1>1, <1>2, <1>5, SIOIdleGood DEF TimerIdle
<1>6. CASE TimerWait
  BY <1>1, <1>2, <1>6, SIOWaitTimeGood DEF TimerWait
<1>7. CASE TimerSend
  BY <1>1, <1>2, <1>7, SIOSendGood DEF TimerSend
<1>8. CASE TimerRecv
  BY <1>1, <1>2, <1>8, SIORecvGood DEF TimerRecv
<1> QED
  BY <1>3, <1>4, <1>5, <1>6, <1>7, <1>8 DEF Timer

----------------------------------------------------------------------------

LEMMA HandlerEndsGood == ASSUME NEW m, GoodMa(m) PROVE GoodMa(HandlerEnds(m))
  BY SMT DEF GoodMa, CallOver, BodyPending, MaType, HandlerEnds, StatusFlags

\* A header begins with a reply to the command and ends with an answer.
LEMMA ReceivedType ==
  ASSUME NEW m, GoodMa(m), m.recvState = "HEADER", NEW byte,
         NEW what \in Received(m, byte)
  PROVE  /\ m.readCnt = 0 => what \in Replies \cup {None}
         /\ m.readCnt \notin 0..2 => what \in Answers
<1>1. m.readCnt \in Nat /\ m.sendCmd \in Commands \cup {None}
  BY DEF GoodMa, MaType
<1>2. CASE m.readCnt = 0
  <2>1. what \in RepliesTo(m.sendCmd)
    BY <1>2 DEF Received
  <2> QED
    BY <1>1, <1>2, <2>1 DEF RepliesTo, Replies
<1>3. CASE m.readCnt = 3
  <2>1. what \in AnswersOf(m.recvCmd)
    BY <1>3 DEF Received
  <2> QED
    BY <1>3, <2>1, LibMaAssumption DEF AnswersOf, Answers, NegaErrs, None
<1>4. CASE m.readCnt \notin {0, 3}
  <2>1. what = None
    BY <1>4 DEF Received
  <2> QED
    BY <1>4, <2>1 DEF Answers
<1> QED
  BY <1>2, <1>3, <1>4

LEMMA ReceiveByteStep ==
  ASSUME IInv, NEW byte \in 0..3, NEW size \in {1, 4}, byte < size,
         ReceiveByte(byte, size)
  PROVE  IInv'
<1>1. GoodMa(gMA)
  BY DEF IInv
<1> DEFINE next(what) == MA_IntrSio_Recv(gMA, byte, what)
<1>2. PICK what \in Received(gMA, byte) :
        IF byte + 1 = size \/ (size = 4 /\ "ERROR" \in next(what).condition)
        THEN gMA' = HandlerEnds(next(what)) /\ rx' = 0
        ELSE gMA' = [next(what) EXCEPT !.sio = FALSE] /\ rx' = byte + 1
  BY DEF ReceiveByte
<1>3. GoodMa(next(what))
  BY <1>1, <1>2, ReceivedType, IntrSioRecvGood
<1> HIDE DEF next
<1>4. GoodMa(HandlerEnds(next(what)))
  BY <1>3, HandlerEndsGood
<1>5. GoodMa([next(what) EXCEPT !.sio = FALSE])
  BY <1>3, SMT DEF GoodMa, CallOver, BodyPending, MaType
<1>6. CASE gMA' = HandlerEnds(next(what)) /\ rx' = 0
  BY <1>4, <1>6 DEF IInv
<1>7. CASE gMA' = [next(what) EXCEPT !.sio = FALSE] /\ rx' = byte + 1
            /\ byte + 1 # size
  <2>1. byte + 1 \in 0..3
    BY <1>7
  <2> QED
    BY <1>5, <1>7, <2>1 DEF IInv
<1> QED
  BY <1>2, <1>6, <1>7

LEMMA SerialStep == IInv /\ Serial => IInv'
<1> SUFFICES ASSUME IInv, Serial PROVE IInv'
  OBVIOUS
<1>1. GoodMa(gMA) /\ rx \in 0..3 /\ GoodMa(HandlerEnds(gMA))
  BY HandlerEndsGood DEF IInv
<1>2. CASE SioSend
  BY <1>1, <1>2, IntrSioSendGood, HandlerEndsGood DEF SioSend, IInv
<1>3. CASE SioIgnored
  BY <1>1, <1>3 DEF SioIgnored, IInv
<1>4. CASE SioRecvByte
  BY <1>4, ReceiveByteStep DEF SioRecvByte
<1>5. CASE SioRecvWord
  <2>1. CASE "ERROR" \in gMA.condition
    BY <1>1, <1>5, <2>1 DEF SioRecvWord, IInv
  <2>2. CASE "ERROR" \notin gMA.condition
    BY <1>5, <2>2, ReceiveByteStep DEF SioRecvWord
  <2> QED
    BY <2>1, <2>2
<1>6. CASE SioRecvRest
  BY <1>1, <1>6, ReceiveByteStep DEF SioRecvRest
<1> QED
  BY <1>2, <1>3, <1>4, <1>5, <1>6 DEF Serial

LEMMA LibMaStep == IInv /\ [Next]_vars => IInv'
<1>1. IInv /\ UNCHANGED vars => IInv'
  BY DEF IInv, vars
<1> QED
  BY <1>1, GameStep, TimerStep, SerialStep DEF Next

----------------------------------------------------------------------------

\* gMA keeps its type: no counter of a reply goes below zero, no task step
\* leaves its byte, no reply that is not one is taken for one.
THEOREM LibMaTypeOK == Spec => []TypeOK
<1>1. IInv => TypeOK
  BY DEF IInv, GoodMa, TypeOK
<1> QED
  BY <1>1, LibMaInit, LibMaStep, PTL DEF Spec

\* An unread error and a pending call exclude each other, in every mode of the
\* bios and after any misuse: MA_SetError (ma_bios.c:414) ends the call, and no
\* function accepts another before MAAPI_ErrorCheck.
THEOREM LibMaErrorEndsCall == Spec => []ErrorEndsCall
<1>1. IInv => ErrorEndsCall
  BY DEF IInv, GoodMa, CallOver, ErrorEndsCall, Settled
<1> QED
  BY <1>1, LibMaInit, LibMaStep, PTL DEF Spec

----------------------------------------------------------------------------
(* The invariant of a game that makes no refused calls.                    *)

\* A reply of which the command has been read.
Past(m) == \/ m.recvState \in {"DATA", "CHECKSUM", "FOOTER"}
           \/ m.recvState = "HEADER" /\ m.readCnt # 0

\* BIOS_BUSY, the interrupt mode and SIO_RECV_DONE agree; a reply, in part or
\* complete, answers the command sent last, and nothing of a refused footer
\* is left when it comes.
Exchange(m) ==
  /\ "BIOS_BUSY" \in m.condition
       <=> (m.intrMode # "IDLE" \/ "SIO_RECV_DONE" \in m.status)
  /\ m.intrMode \in {"SEND", "RECV"} => "SIO_RECV_DONE" \notin m.status
  /\ m.intrMode = "RECV" \/ "SIO_RECV_DONE" \in m.status => "SIO_RETRY" \notin m.status
  /\ "SIO_RECV_DONE" \in m.status \/ (m.intrMode = "RECV" /\ Past(m))
       => m.recvCmd \in RepliesTo(m.sendCmd)

\* A retry that has been used up is not taken up again: what is left of it
\* lasts only while there is no session.
Retry(m) ==
  /\ m.retryCount <= 2
  /\ "SIO_RETRY" \in m.status /\ m.retryCount = 0 =>
       /\ "CONNECTED" \notin m.status /\ m.intrMode \notin {"SEND", "RECV"}
       /\ (m.intrMode = "WAIT" =>
             "BIOS_STOP" \in m.status \/ "BIOS_RESTART" \in m.status)

\* MA_Stop came between MA_SData and the poll that carried its data: the poll
\* ends the wait, the task goes on to stop the session.
Stopping(m) ==
  /\ m.task = "STOP" /\ m.connMode # "OFFLINE" /\ "SDATA" \in Calls
  /\ "BIOS_BUSY" \in m.condition =>
       /\ m.intrMode = "WAIT" /\ "BIOS_STOP" \in m.status
       /\ "BIOS_RESTART" \notin m.status /\ "SIO_RECV_DONE" \notin m.status

\* MA_Condition in a session, which sends no START.
InSession(m) == m.task \in {"CONDITION", "CONDITION2"} /\ ~m.offline

\* Tasks that open a session of their own.
Opening ==
  {"INITLIBRARY", "INITLIBRARY2", "TELSERVER", "TEL", "RECEIVE", "CONDITION",
   "CONDITION2", "EEPROM_READ"}

\* An exchange whose reply will be handed to a task.
Live(m) ==
  \/ m.intrMode \in {"SEND", "RECV"} \/ "SIO_RECV_DONE" \in m.status
  \/ /\ m.intrMode = "WAIT"
     /\ "BIOS_STOP" \notin m.status /\ "BIOS_RESTART" \notin m.status

TaskAwaited(m) ==
  /\ m.task # "NONE" => "APIWAIT" \in m.condition \/ Stopping(m)
  /\ m.task = "STOP" => "STOP" \in Calls

QuietOffline(m) ==
  m.task = "NONE" /\ m.connMode = "OFFLINE" =>
    "BIOS_BUSY" \notin m.condition /\ "CONNECTED" \notin m.status

\* Step 252 is the failure of a MA_Condition in a session.
LostInSession(m) ==
  m.task \in {"CONDITION", "CONDITION2"} =>
    IF m.offline THEN m.taskStep # 252
    ELSE m.taskStep # 0 /\ (m.connMode = "OFFLINE" => "CONNECTED" \notin m.status)

StartOpens(m) ==
  /\ "BIOS_BUSY" \in m.condition /\ Live(m) /\ m.sendCmd = "START"
  /\ "BIOS_RESTART" \notin m.status
  => m.task # "NONE" /\ m.connMode = "OFFLINE" /\ ~InSession(m)

OpeningOffline(m) == m.task \in Opening /\ ~InSession(m) => m.connMode = "OFFLINE"

\* The data of MA_SData: the call waits until a poll has carried it.
SendAwaited(m) ==
  /\ "PTP_SEND" \in m.status /\ "CONNECTED" \in m.status =>
       "APIWAIT" \in m.condition /\ m.task \in {"NONE", "STOP"}
  /\ "PTP_SEND_DONE" \in m.status /\ m.sendCmd = "DATA" /\ "ERROR" \notin m.condition =>
       "APIWAIT" \in m.condition /\ m.task \in {"NONE", "STOP"}
  /\ "PTP_SEND_DONE" \in m.status => "PTP_SEND" \in m.status
  /\ "CONN_PTP" \in m.status \/ "PTP_SEND" \in m.status => m.connMode # "OFFLINE"
  /\ "PTP_SEND" \in m.status => "SDATA" \in Calls

\* Beside an unread error only the keep-alive runs.
UnreadKeepAlive(m) ==
  "ERROR" \in m.condition /\ "BIOS_BUSY" \in m.condition => m.sendCmd = "CHECK_STATUS"

Calling(m) ==
  /\ TaskAwaited(m) /\ QuietOffline(m) /\ LostInSession(m) /\ StartOpens(m)
  /\ OpeningOffline(m) /\ SendAwaited(m) /\ UnreadKeepAlive(m)

\* What is left of a request that was given up: the timeout will be reported,
\* the stop waits for its turn, and a pause follows END or CHANGE_CLOCK.
Retreat(m) ==
  /\ "SIO_SEND_TIMEOUT" \in m.status =>
       "BIOS_RESTART" \in m.status \/ "BIOS_STOP" \in m.status
  /\ "BIOS_STOP" \in m.status /\ "BIOS_RESTART" \notin m.status =>
       m.intrMode = "WAIT" /\ "SIO_RECV_DONE" \notin m.status
  /\ /\ m.intrMode = "WAIT" /\ "BIOS_RESTART" \notin m.status
     /\ "BIOS_STOP" \notin m.status /\ "SIO_RETRY" \notin m.status
     => m.sendCmd \in {"END", "CHANGE_CLOCK"}

\* A keep-alive has an exchange, and is given up only with a timeout; an error
\* ends the session; no restart is left over in a session.
Checked(m) ==
  /\ "ERROR" \in m.condition =>
       "CONNECTED" \notin m.status /\ "BIOS_BUSY" \notin m.condition
  /\ "CONNTEST" \in m.status =>
       /\ "CONNECTED" \in m.status /\ "BIOS_BUSY" \in m.condition
       /\ m.sendCmd = "CHECK_STATUS" \/ "SIO_SEND_TIMEOUT" \in m.status
       /\ "BIOS_RESTART" \in m.status \/ "BIOS_STOP" \in m.status =>
            "SIO_SEND_TIMEOUT" \in m.status
  /\ "BIOS_RESTART" \in m.status /\ "CONNECTED" \in m.status =>
       m.intrMode # "IDLE" \/ "SIO_RECV_DONE" \in m.status
  /\ m.negaResCmd # "CHECK_STATUS"
  /\ m.task \in {"CONDITION", "CONDITION2"} => m.taskStep # 252

\* The adapter never refuses to tell the state of the line.
LineKnown == "CHECK_STATUS" \notin Refusable

Quiet(m) == Retreat(m) /\ (LineKnown => Checked(m))

Sound(m) == GoodMa(m) /\ Exchange(m) /\ Calling(m) /\ Quiet(m)

\* The next state is sound, too, and keeps to its retries.
Kept(m, n) == Sound(n) /\ (Retry(m) => Retry(n))

LEMMA SameKept == ASSUME NEW m, Sound(m), NEW n, GoodMa(n), Same(m, n) PROVE Kept(m, n)
<1> USE DEF Same, SameFlags, SameLine, SameCall, Sound
<1>1. Exchange(n) /\ (Retry(m) => Retry(n))
  BY DEF Exchange, Past, Retry
<1>2. TaskAwaited(n) /\ QuietOffline(n) /\ LostInSession(n) /\ OpeningOffline(n)
  BY DEF Calling, TaskAwaited, Stopping, QuietOffline, LostInSession, InSession,
     OpeningOffline
<1>3. StartOpens(n)
  BY DEF Calling, StartOpens, Live, InSession
<1>4. SendAwaited(n) /\ UnreadKeepAlive(n)
  BY DEF Calling, SendAwaited, UnreadKeepAlive
<1>5. Quiet(n)
  BY DEF Quiet, Retreat, Checked
<1> QED
  BY <1>1, <1>2, <1>3, <1>4, <1>5 DEF Kept, Calling

LEMMA KeptTrans ==
  ASSUME NEW m, NEW n, NEW k, Kept(m, n), Kept(n, k) PROVE Kept(m, k)
  BY DEF Kept

\* A failed call leaves nothing under way.
LEMMA FailsKept ==
  ASSUME NEW m, Sound(m), NEW n, GoodMa(n), Fails(m, n), "SIO_RECV_DONE" \notin m.status,
         m.intrMode = "WAIT" => "BIOS_STOP" \notin n.status \/ "BIOS_RESTART" \in n.status,
         "CONNECTED" \in n.status =>
           m.connMode # "OFFLINE" /\ "PTP_SEND" \notin m.status /\ ~LineKnown
  PROVE  Kept(m, n)
<1> USE DEF Fails, PeerFlags
<1>1. Exchange(n)
  BY DEF Exchange
<1>2. TaskAwaited(n) /\ QuietOffline(n) /\ LostInSession(n) /\ StartOpens(n)
      /\ OpeningOffline(n) /\ UnreadKeepAlive(n)
  BY DEF TaskAwaited, QuietOffline, LostInSession, InSession, StartOpens,
     OpeningOffline, Opening, UnreadKeepAlive
<1>3. SendAwaited(n)
  BY DEF SendAwaited, Sound, Calling
<1>4. Retry(m) => Retry(n)
  BY DEF Retry
<1>5. Retreat(n)
  BY DEF Sound, Quiet, Retreat
<1>6. LineKnown => Checked(n)
  BY DEF Sound, Quiet, Checked
<1> QED
  BY <1>1, <1>2, <1>3, <1>4, <1>5, <1>6 DEF Kept, Sound, Calling, Quiet

\* MAAPI_Main runs a task when the bios is free and no error is unread.
Free(m) == Sound(m) /\ "BIOS_BUSY" \notin m.condition /\ "ERROR" \notin m.condition

LEMMA FreeIdle ==
  ASSUME NEW m, Free(m)
  PROVE  CanSend(m) /\ m.intrMode = "IDLE" /\ "SIO_RECV_DONE" \notin m.status
  BY DEF Free, Sound, Exchange, CanSend, GoodMa, MaType

\* A request of a task.
LEMMA SendsKept ==
  ASSUME NEW m, Free(m), m.task \notin {"NONE", "STOP"}, NEW cmd, cmd # "DATA",
         cmd = "START" => m.task \in Opening /\ ~InSession(m),
         NEW n, GoodMa(n), Sends(m, n, cmd)
  PROVE  Kept(m, n)
<1> USE DEF Sends, SameCall
<1>1. m.intrMode = "IDLE" /\ "SIO_RECV_DONE" \notin m.status
  BY FreeIdle
<1>2. Exchange(n) /\ Retry(n)
  BY <1>1 DEF Exchange, Retry, Past
<1>3. TaskAwaited(n) /\ QuietOffline(n) /\ LostInSession(n) /\ OpeningOffline(n)
  BY DEF Free, Sound, Calling, TaskAwaited, Stopping, QuietOffline, LostInSession,
     OpeningOffline, InSession
<1>4. StartOpens(n)
  BY DEF Free, Sound, Calling, StartOpens, OpeningOffline, InSession
<1>5. SendAwaited(n) /\ UnreadKeepAlive(n)
  BY DEF Free, Sound, Calling, SendAwaited, UnreadKeepAlive
<1>6. Quiet(n)
  BY <1>1 DEF Free, Sound, Quiet, Retreat, Checked
<1> QED
  BY <1>2, <1>3, <1>4, <1>5, <1>6 DEF Kept, Sound, Calling

LEMMA OtherStepKept ==
  ASSUME NEW m, Sound(m), NEW n, GoodMa(n), OtherStep(m, n), LostInSession(n),
         LineKnown /\ n.task \in {"CONDITION", "CONDITION2"} => n.taskStep # 252
  PROVE  Kept(m, n)
<1> USE DEF OtherStep, SameLine
<1>1. Exchange(n) /\ (Retry(m) => Retry(n))
  BY DEF Sound, Exchange, Past, Retry
<1>2. TaskAwaited(n) /\ QuietOffline(n) /\ OpeningOffline(n) /\ StartOpens(n)
  BY DEF Sound, Calling, TaskAwaited, Stopping, QuietOffline, OpeningOffline,
     StartOpens, InSession, Live
<1>3. SendAwaited(n) /\ UnreadKeepAlive(n)
  BY DEF Sound, Calling, SendAwaited, UnreadKeepAlive
<1>4. Quiet(n)
  BY DEF Sound, Quiet, Retreat, Checked
<1> QED
  BY <1>1, <1>2, <1>3, <1>4 DEF Kept, Sound, Calling

\* The task is over and the session is gone.
LEMMA ResetDoneKept ==
  ASSUME NEW m, Free(m), NEW n, GoodMa(n),
         n.task = "NONE", n.connMode = "OFFLINE", n.intrMode = "IDLE",
         n.condition = m.condition \ {"PTP_GET", "CONNECT", "APIWAIT"},
         n.status = m.status \ {"CONNECTED", "CONN_PTP", "PTP_SEND_DONE",
                                "PTP_SEND", "CONNTEST"},
         n.retryCount = m.retryCount, n.negaResCmd = m.negaResCmd
  PROVE  Kept(m, n)
<1>1. "SIO_RECV_DONE" \notin m.status
  BY FreeIdle
<1>2. Exchange(n) /\ (Retry(m) => Retry(n))
  BY <1>1 DEF Free, Exchange, Retry
<1>3. Calling(n)
  BY DEF Free, Calling, TaskAwaited, QuietOffline, LostInSession, StartOpens,
     OpeningOffline, Opening, SendAwaited, UnreadKeepAlive
<1>4. Quiet(n)
  BY <1>1, FreeIdle DEF Free, Sound, Quiet, Retreat, Checked
<1> QED
  BY <1>2, <1>3, <1>4 DEF Kept, Sound

----------------------------------------------------------------------------
(* The tasks.                                                              *)

\* Steps a task may be sent to.
MayGo(m, step) ==
  m.task \in {"CONDITION", "CONDITION2"} =>
    /\ IF m.offline THEN step # 252 ELSE step # 0
    /\ LineKnown => step # 252

\* The task is free to go on.
On(m, n) ==
  /\ Free(n) /\ Kept(m, n)
  /\ n.task = m.task /\ n.offline = m.offline /\ n.connMode = m.connMode

LEMMA OtherStepOn ==
  ASSUME NEW m, Sound(m), NEW n, GoodMa(n), OtherStep(m, n), MayGo(m, n.taskStep)
  PROVE  Kept(m, n) /\ (Free(m) => On(m, n))
<1>1. LostInSession(n)
  BY DEF Sound, Calling, LostInSession, OtherStep, MayGo
<1>2. Kept(m, n)
  BY <1>1, OtherStepKept DEF OtherStep, MayGo
<1>3. Free(m) => On(m, n)
  BY <1>2 DEF On, Free, Kept, OtherStep
<1> QED
  BY <1>2, <1>3

LEMMA StepsOn ==
  ASSUME NEW m, Free(m), NEW step \in 0..255, MayGo(m, step)
  PROVE  /\ On(m, GoTo(m, step)) /\ GoTo(m, step).taskStep = step
         /\ On(m, DefaultFail(m, step)) /\ DefaultFail(m, step).taskStep = step
         /\ \A error \in Errors : On(m, Fail(m, error, step))
<1>1. Sound(m) /\ GoodMa(m)
  BY DEF Free, Sound
<1>2. GoodMa(GoTo(m, step)) /\ GoodMa(DefaultFail(m, step))
  BY <1>1, StepsGood, DefaultFailGood
<1>3. OtherStep(m, GoTo(m, step)) /\ GoTo(m, step).taskStep = step
  BY <1>1, GoToEffect
<1>4. OtherStep(m, DefaultFail(m, step)) /\ DefaultFail(m, step).taskStep = step
  BY <1>1, DefaultFailEffect
<1>5. ASSUME NEW error \in Errors PROVE On(m, Fail(m, error, step))
  <2>1. GoodMa(Fail(m, error, step))
    BY <1>1, FailGood
  <2>2. OtherStep(m, Fail(m, error, step)) /\ Fail(m, error, step).taskStep = step
    BY <1>1, FailEffect
  <2>3. MayGo(m, Fail(m, error, step).taskStep)
    BY <2>2
  <2> QED
    BY <1>1, <2>1, <2>2, <2>3, OtherStepOn
<1>6. MayGo(m, GoTo(m, step).taskStep) /\ MayGo(m, DefaultFail(m, step).taskStep)
  BY <1>3, <1>4
<1> QED
  BY <1>1, <1>2, <1>3, <1>4, <1>5, <1>6, OtherStepOn

LEMMA NextStepKept ==
  ASSUME NEW m, Sound(m), m.taskStep \notin {251, 255}
  PROVE  Kept(m, NextStep(m)) /\ (Free(m) => On(m, NextStep(m)))
<1> DEFINE n == NextStep(m)
<1>1. GoodMa(m) /\ GoodMa(n)
  BY StepsGood DEF Sound
<1>2. OtherStep(m, n) /\ n.taskStep = (m.taskStep + 1) % 256
  BY <1>1, NextStepEffect
<1>3. m.taskStep \in 0..255
  BY <1>1 DEF GoodMa, MaType
<1>4. (m.taskStep + 1) % 256 \notin {0, 252}
  BY <1>3
<1>5. MayGo(m, n.taskStep)
  BY <1>2, <1>4 DEF MayGo
<1> QED
  BY <1>1, <1>2, <1>5, OtherStepOn

LEMMA RequestKept ==
  ASSUME NEW m, Free(m), m.task \notin {"NONE", "STOP"},
         NEW cmd \in Commands \ {"START", "DATA"}, NEW timeout \in Timeouts
  PROVE  LET n == Request(m, cmd, timeout)
         IN Kept(m, n) /\ n.taskStep = m.taskStep /\ n.task = m.task
<1> DEFINE n == Request(m, cmd, timeout)
<1>1. GoodMa(m) /\ GoodMa(n)
  BY RequestGood DEF Free, Sound
<1>2. Sends(m, n, cmd)
  BY <1>1, FreeIdle, RequestEffect
<1> HIDE DEF n
<1>3. Kept(m, n)
  BY <1>1, <1>2, SendsKept
<1>4. n.taskStep = m.taskStep /\ n.task = m.task
  BY <1>2 DEF Sends, SameCall
<1> QED
  BY <1>3, <1>4 DEF n

LEMMA RequestNextKept ==
  ASSUME NEW m, Free(m), m.task \notin {"NONE", "STOP"}, m.taskStep \notin {251, 255},
         NEW cmd \in Commands \ {"START", "DATA"}, NEW timeout \in Timeouts
  PROVE  Kept(m, NextStep(Request(m, cmd, timeout)))
<1> DEFINE n == Request(m, cmd, timeout)
<1>1. Kept(m, n) /\ n.taskStep = m.taskStep
  BY RequestKept
<1> HIDE DEF n
<1>2. Kept(n, NextStep(n))
  BY <1>1, NextStepKept DEF Kept
<1>3. Kept(m, NextStep(n))
  BY <1>1, <1>2, KeptTrans
<1> QED
  BY <1>3 DEF n

LEMMA SendStepsKept ==
  ASSUME NEW m, Free(m), m.task \notin {"NONE", "STOP"}, m.taskStep \notin {251, 255}
  PROVE  /\ Kept(m, MABIOS_ChangeClock(NextStep(m)))
         /\ Kept(m, NextStep(MABIOS_CheckStatus(m)))
         /\ Kept(m, NextStep(MABIOS_EEPROM_Read(m)))
         /\ Kept(m, NextStep(MABIOS_Tel(m)))
         /\ Kept(m, NextStep(MABIOS_PPPConnect(m)))
         /\ Kept(m, NextStep(MABIOS_PPPDisconnect(m)))
         /\ Kept(m, NextStep(MABIOS_WaitCall(m)))
         /\ Kept(m, NextStep(MABIOS_Offline(m)))
         /\ Kept(m, NextStep(MABIOS_End(m)))
         /\ Kept(m, GoTo(MABIOS_End(m), 3))
<1>1. "30" \in Timeouts /\ "90" \in Timeouts
  BY DEF Timeouts
<1>2. {"CHANGE_CLOCK", "CHECK_STATUS", "EEPROM_READ", "TEL", "PPP_CONNECT",
       "PPP_DISCONNECT", "WAIT_CALL", "OFFLINE", "END"} \subseteq Commands \ {"START", "DATA"}
  BY DEF Commands
<1>3. \A cmd \in Commands \ {"START", "DATA"}, timeout \in Timeouts :
        Kept(m, NextStep(Request(m, cmd, timeout)))
  BY RequestNextKept
<1>4. Kept(m, MABIOS_ChangeClock(NextStep(m)))
  <2> DEFINE n == NextStep(m)
  <2>1. On(m, n)
    BY NextStepKept DEF Free
  <2> HIDE DEF n
  <2>2. Kept(n, Request(n, "CHANGE_CLOCK", "30"))
    BY <1>1, <1>2, <2>1, RequestKept DEF On
  <2>3. Kept(m, Request(n, "CHANGE_CLOCK", "30"))
    BY <2>1, <2>2, KeptTrans DEF On
  <2> QED
    BY <2>3 DEF MABIOS_ChangeClock, n
<1>5. Kept(m, GoTo(MABIOS_End(m), 3))
  <2> DEFINE n == Request(m, "END", "30")
             k == GoTo(n, 3)
  <2>1. Kept(m, n)
    BY <1>1, <1>2, RequestKept
  <2> HIDE DEF n
  <2>2. 3 \in 0..255
    OBVIOUS
  <2>3. GoodMa(n)
    BY <2>1 DEF Kept, Sound
  <2>4. GoodMa(k) /\ OtherStep(n, k) /\ k.taskStep = 3
    BY <2>2, <2>3, StepsGood, GoToEffect
  <2>5. MayGo(n, k.taskStep)
    BY <2>4 DEF MayGo
  <2>6. Kept(n, k)
    BY <2>1, <2>4, <2>5, OtherStepOn DEF Kept
  <2>7. Kept(m, k)
    BY <2>1, <2>6, KeptTrans
  <2> QED
    BY <2>7 DEF n, MABIOS_End
<1> QED
  BY <1>1, <1>2, <1>3, <1>4, <1>5 DEF MABIOS_CheckStatus, MABIOS_EEPROM_Read,
     MABIOS_Tel, MABIOS_PPPConnect, MABIOS_PPPDisconnect, MABIOS_WaitCall,
     MABIOS_Offline, MABIOS_End

LEMMA StartStepKept ==
  ASSUME NEW m, Free(m), m.task \in Opening, ~InSession(m), m.taskStep = 0
  PROVE  Kept(m, NextStep(MABIOS_Start(m)))
<1> DEFINE n == MABIOS_Start(m)
<1>1. GoodMa(m) /\ GoodMa(n)
  BY StartGood DEF Free, Sound
<1>2. Sends(m, n, "START")
  BY <1>1, FreeIdle, StartEffect
<1> HIDE DEF n
<1>3. m.task \notin {"NONE", "STOP"}
  BY DEF Opening
<1>4. Kept(m, n)
  BY <1>1, <1>2, <1>3, SendsKept
<1>5. n.taskStep = 0
  BY <1>2 DEF Sends, SameCall
<1>6. Kept(n, NextStep(n))
  BY <1>4, <1>5, NextStepKept DEF Kept
<1>7. Kept(m, NextStep(n))
  BY <1>4, <1>6, KeptTrans
<1> QED
  BY <1>7 DEF n

\* The ways a task ends.
LEMMA EndsKept ==
  ASSUME NEW m, Free(m)
  PROVE  Kept(m, TaskDone(MA_Reset(m))) /\ Kept(m, ReportAndReset(m))
<1>1. GoodMa(m) /\ Sound(m) /\ "SIO_RECV_DONE" \notin m.status /\ m.intrMode = "IDLE"
  BY FreeIdle DEF Free, Sound
<1>2. GoodMa(TaskDone(MA_Reset(m)))
  BY <1>1, ResetGood, StepsGood
<1>3. GoodMa(ReportAndReset(m)) /\ m.taskError \in Errors
  BY <1>1, ReportAndResetGood DEF GoodMa, MaType
<1>4. Fails(m, ReportAndReset(m)) /\ "CONNECTED" \notin ReportAndReset(m).status
  BY <1>1, <1>3, ResetReportFails DEF ReportAndReset
<1>5. Kept(m, TaskDone(MA_Reset(m)))
  <2> DEFINE n == TaskDone(MA_Reset(m))
  <2>1. /\ n.task = "NONE" /\ n.connMode = "OFFLINE" /\ n.intrMode = "IDLE"
        /\ n.condition = m.condition \ {"PTP_GET", "CONNECT", "APIWAIT"}
        /\ n.status = m.status \ {"CONNECTED", "CONN_PTP", "PTP_SEND_DONE",
                                  "PTP_SEND", "CONNTEST"}
        /\ n.retryCount = m.retryCount /\ n.negaResCmd = m.negaResCmd
    BY <1>1, DoneAfterReset
  <2> HIDE DEF n
  <2>2. Kept(m, n)
    BY <1>2, <2>1, ResetDoneKept DEF n
  <2> QED
    BY <2>2 DEF n
<1> QED
  BY <1>1, <1>3, <1>4, <1>5, FailsKept

\* A task that has connected is done.
LEMMA ConnectedKept ==
  ASSUME NEW m, Free(m), m.task \in {"TELSERVER", "TEL", "RECEIVE"}, NEW n, GoodMa(n),
         n.task = "NONE", n.connMode # "OFFLINE",
         n.condition = m.condition \ {"APIWAIT"},
         \A f \in StatusFlags \ {"CONN_PTP"} : f \in n.status <=> f \in m.status,
         n.intrMode = m.intrMode, n.retryCount = m.retryCount, SameLine(m, n)
  PROVE  Kept(m, n)
<1> USE DEF SameLine
<1>1. m.intrMode = "IDLE" /\ "SIO_RECV_DONE" \notin m.status
  BY FreeIdle
<1>2. \A f \in {"CONNECTED", "SIO_RETRY", "SIO_RECV_DONE", "PTP_SEND", "PTP_SEND_DONE"} :
        f \in n.status <=> f \in m.status
  BY DEF StatusFlags
<1>3. Exchange(n) /\ (Retry(m) => Retry(n))
  BY <1>1, <1>2 DEF Free, Exchange, Retry
<1>4. Calling(n)
  BY <1>1, <1>2 DEF Free, Sound, Calling, TaskAwaited, QuietOffline, LostInSession,
     StartOpens, OpeningOffline, Opening, SendAwaited, UnreadKeepAlive
<1>5. \A f \in {"BIOS_STOP", "BIOS_RESTART", "CONNTEST", "SIO_SEND_TIMEOUT"} :
        f \in n.status <=> f \in m.status
  BY DEF StatusFlags
<1>6. Quiet(n)
  BY <1>1, <1>2, <1>5 DEF Free, Sound, Quiet, Retreat, Checked
<1> QED
  BY <1>3, <1>4, <1>6 DEF Kept, Sound

LEMMA EnterKept ==
  ASSUME NEW m, Free(m)
  PROVE  /\ m.task = "TELSERVER" =>
              Kept(m, TaskDone(MA_SetCondition([m EXCEPT !.connMode = "PPP"], "PPP")))
         /\ m.task \in {"TEL", "RECEIVE"} =>
              \A mode \in {"P2P_SEND", "P2P_RECV"} : Kept(m, EnterP2P(m, mode))
<1>1. GoodMa(m)
  BY DEF Free, Sound
<1>2. ASSUME NEW e, GoodMa(e), NEW mode \in ConnModes \ {"OFFLINE"}, e.connMode = mode,
             m.task \in {"TELSERVER", "TEL", "RECEIVE"}, e.condition = m.condition,
             \A f \in StatusFlags \ {"CONN_PTP"} : f \in e.status <=> f \in m.status,
             e.intrMode = m.intrMode, e.retryCount = m.retryCount, SameLine(m, e)
      PROVE  Kept(m, TaskDone(MA_SetCondition(e, mode)))
  <2> DEFINE c == MA_SetCondition(e, mode)
             n == TaskDone(c)
  <2>1. mode \in Lines
    BY DEF ConnModes, Lines
  <2>2. GoodMa(c)
    BY <1>2, <2>1, SetConditionGood
  <2>3. /\ c.condition = e.condition /\ c.status = e.status /\ c.connMode = e.connMode
        /\ c.intrMode = e.intrMode /\ c.retryCount = e.retryCount /\ SameLine(e, c)
    BY <1>2, SMT DEF GoodMa, MaType, MaFields, MA_SetCondition, SameLine
  <2> HIDE DEF c
  <2>4. GoodMa(n)
    BY <2>2, StepsGood
  <2>5. /\ n.task = "NONE" /\ n.connMode = c.connMode
        /\ n.condition = c.condition \ {"APIWAIT"} /\ n.status = c.status
        /\ n.intrMode = c.intrMode /\ n.retryCount = c.retryCount /\ SameLine(c, n)
    BY <2>2, TaskDoneEffect
  <2> HIDE DEF n
  <2>6. /\ n.task = "NONE" /\ n.connMode # "OFFLINE"
        /\ n.condition = m.condition \ {"APIWAIT"} /\ n.intrMode = m.intrMode
        /\ n.retryCount = m.retryCount /\ SameLine(m, n)
    BY <1>2, <2>3, <2>5 DEF SameLine
  <2>7. \A f \in StatusFlags \ {"CONN_PTP"} : f \in n.status <=> f \in m.status
    BY <1>2, <2>3, <2>5
  <2>8. Kept(m, n)
    BY <1>2, <2>4, <2>6, <2>7, ConnectedKept
  <2> QED
    BY <2>8 DEF n, c
<1>3. ASSUME m.task = "TELSERVER"
      PROVE  Kept(m, TaskDone(MA_SetCondition([m EXCEPT !.connMode = "PPP"], "PPP")))
  <2> DEFINE e == [m EXCEPT !.connMode = "PPP"]
  <2>1. GoodMa(e)
    BY <1>1, SMT DEF GoodMa, CallOver, BodyPending, MaType, ConnModes
  <2>2. /\ e.condition = m.condition /\ e.status = m.status /\ e.connMode = "PPP"
        /\ e.intrMode = m.intrMode /\ e.retryCount = m.retryCount /\ SameLine(m, e)
    BY <1>1, SMT DEF GoodMa, MaType, MaFields, SameLine
  <2> HIDE DEF e
  <2>3. "PPP" \in ConnModes \ {"OFFLINE"}
    BY DEF ConnModes
  <2> QED
    BY <1>2, <1>3, <2>1, <2>2, <2>3 DEF e
<1>4. ASSUME m.task \in {"TEL", "RECEIVE"}, NEW mode \in {"P2P_SEND", "P2P_RECV"}
      PROVE  Kept(m, EnterP2P(m, mode))
  <2> DEFINE e == [m EXCEPT !.status = @ \cup {"CONN_PTP"}, !.connMode = mode,
                            !.bufSize = 0, !.eepromCached = FALSE]
  <2>1. GoodMa(e)
    BY <1>1, SMT DEF GoodMa, CallOver, BodyPending, MaType, StatusFlags, ConnModes
  <2>2. /\ e.condition = m.condition /\ e.status = m.status \cup {"CONN_PTP"}
        /\ e.connMode = mode /\ e.intrMode = m.intrMode
        /\ e.retryCount = m.retryCount /\ SameLine(m, e)
    BY <1>1, SMT DEF GoodMa, MaType, MaFields, SameLine
  <2>3. EnterP2P(m, mode) = TaskDone(MA_SetCondition(e, mode))
    BY DEF EnterP2P
  <2> HIDE DEF e
  <2>4. mode \in ConnModes \ {"OFFLINE"}
    BY DEF ConnModes
  <2>5. \A f \in StatusFlags \ {"CONN_PTP"} : f \in e.status <=> f \in m.status
    BY <2>2
  <2> QED
    BY <1>2, <1>4, <2>1, <2>2, <2>3, <2>4, <2>5
<1> QED
  BY <1>3, <1>4

LEMMA InitLibraryTaskKept ==
  ASSUME NEW m, Free(m), m.task \in {"INITLIBRARY", "INITLIBRARY2"}
  PROVE  Kept(m, MATASK_InitLibrary(m))
<1> DEFINE n == IF Refused(m) /\ m.negaResCmd # "END" THEN DefaultFail(m, 251) ELSE m
<1>1. On(m, m)
  BY DEF On, Free, Kept
<1>2. On(m, DefaultFail(m, 251))
  <2>1. 251 \in 0..255 /\ MayGo(m, 251)
    BY DEF MayGo
  <2> QED
    BY <2>1, StepsOn
<1>3. On(m, n)
  BY <1>1, <1>2
<1> HIDE DEF n
<1>4. Free(n) /\ Kept(m, n) /\ Kept(n, n) /\ n.task \in {"INITLIBRARY", "INITLIBRARY2"}
      /\ n.task \in Opening /\ ~InSession(n)
  BY <1>3 DEF On, Free, Kept, Opening, InSession
<1>5. Kept(n, MATASK_InitLibrary(m))
  BY <1>4, StartStepKept, SendStepsKept, EndsKept DEF MATASK_InitLibrary, n
<1> QED
  BY <1>4, <1>5, KeptTrans

\* A task outside MA_Condition may be sent to any step.
LEMMA FailsOn ==
  ASSUME NEW m, Free(m), m.task \notin {"CONDITION", "CONDITION2"}
  PROVE  /\ On(m, m)
         /\ \A step \in {0, 2, 4, 6, 249, 250, 251} :
              /\ On(m, GoTo(m, step)) /\ On(m, DefaultFail(m, step))
              /\ \A error \in Errors : On(m, Fail(m, error, step))
<1>1. On(m, m)
  BY DEF On, Free, Kept
<1>2. ASSUME NEW step \in {0, 2, 4, 6, 249, 250, 251}
      PROVE  /\ On(m, GoTo(m, step)) /\ On(m, DefaultFail(m, step))
             /\ \A error \in Errors : On(m, Fail(m, error, step))
  <2>1. step \in 0..255 /\ MayGo(m, step)
    BY DEF MayGo
  <2> QED
    BY <2>1, StepsOn
<1> QED
  BY <1>1, <1>2

LEMMA TelServerTaskKept ==
  ASSUME NEW m, Free(m), m.task = "TELSERVER"
  PROVE  Kept(m, MATASK_TelServer(m))
<1> DEFINE n == IF Refused(m) THEN TelServerNega(m) ELSE m
<1>0. {"CALL_FAILED", "EEPROM_SUM", "PPP_CONNECT", "REGISTRATION"} \subseteq Errors
  BY DEF Errors
<1>1. On(m, n)
  BY <1>0, FailsOn DEF TelServerNega
<1> HIDE DEF n
<1>2. Free(n) /\ Kept(m, n) /\ Kept(n, n) /\ n.task = "TELSERVER" /\ n.task \in Opening
      /\ ~InSession(n)
  BY <1>1 DEF On, Free, Kept, Opening, InSession
<1>3. /\ Kept(n, GoTo(n, 6))
      /\ \A error \in {"CALL_FAILED", "EEPROM_SUM", "REGISTRATION"} :
           Kept(n, Fail(n, error, 250))
  BY <1>0, <1>2, FailsOn DEF On
<1>4. n.taskStep \in {0, 1, 2, 3, 4, 5, 6, 7, 8, 9, 249, 250}
        => n.taskStep \notin {251, 255}
  OBVIOUS
<1>5. n.taskStep = 6 => Kept(n, NextStep(n))
  BY <1>2, NextStepKept DEF Free
<1>6. n.taskStep = 5 => Kept(n, NextStep([n EXCEPT !.eepromCached = TRUE]))
  <2> SUFFICES ASSUME n.taskStep = 5
               PROVE  Kept(n, NextStep([n EXCEPT !.eepromCached = TRUE]))
    OBVIOUS
  <2> DEFINE e == [n EXCEPT !.eepromCached = TRUE]
  <2>1. GoodMa(n)
    BY <1>2 DEF Free, Sound
  <2>2. GoodMa(e)
    BY <2>1, SMT DEF GoodMa, CallOver, BodyPending, MaType
  <2>3. Same(n, e)
    BY <2>1, SMT DEF GoodMa, MaType, MaFields, Same, SameFlags, SameLine, SameCall
  <2> HIDE DEF e
  <2>4. Kept(n, e) /\ e.taskStep = 5
    BY <1>2, <2>2, <2>3, SameKept DEF Free, Same, SameCall
  <2>5. Kept(e, NextStep(e))
    BY <2>4, NextStepKept DEF Kept
  <2> QED
    BY <2>4, <2>5, KeptTrans DEF e
<1>7. n.taskStep \notin {251, 255} =>
        /\ Kept(n, MABIOS_ChangeClock(NextStep(n))) /\ Kept(n, NextStep(MABIOS_CheckStatus(n)))
        /\ Kept(n, NextStep(MABIOS_EEPROM_Read(n))) /\ Kept(n, NextStep(MABIOS_Tel(n)))
        /\ Kept(n, NextStep(MABIOS_PPPConnect(n))) /\ Kept(n, NextStep(MABIOS_Offline(n)))
        /\ Kept(n, NextStep(MABIOS_End(n)))
  BY <1>2, SendStepsKept
<1>8. n.taskStep = 0 => Kept(n, NextStep(MABIOS_Start(n)))
  BY <1>2, StartStepKept
<1>9. /\ Kept(n, ReportAndReset(n))
      /\ Kept(n, TaskDone(MA_SetCondition([n EXCEPT !.connMode = "PPP"], "PPP")))
  BY <1>2, EndsKept, EnterKept
<1>10. Kept(n, MATASK_TelServer(m))
  BY <1>2, <1>3, <1>4, <1>5, <1>6, <1>7, <1>8, <1>9 DEF MATASK_TelServer, n
<1> QED
  BY <1>2, <1>10, KeptTrans

LEMMA TelTaskKept ==
  ASSUME NEW m, Free(m), m.task = "TEL" PROVE Kept(m, MATASK_Tel(m))
<1> DEFINE n == IF ~Refused(m) \/ m.negaResCmd = "END" THEN m
                ELSE IF m.negaResCmd \in {"TEL", "CHECK_STATUS", "CHANGE_CLOCK",
                                          "EEPROM_READ"}
                THEN DefaultFail(m, 250) ELSE DefaultFail(m, 251)
<1>1. On(m, n)
  BY FailsOn
<1> HIDE DEF n
<1>2. Free(n) /\ Kept(m, n) /\ Kept(n, n) /\ n.task = "TEL" /\ n.task \in Opening
      /\ ~InSession(n)
  BY <1>1 DEF On, Free, Kept, Opening, InSession
<1>3. "CALL_FAILED" \in Errors
  BY DEF Errors
<1>4. Kept(n, Fail(n, "CALL_FAILED", 250))
  BY <1>2, <1>3, FailsOn DEF On
<1>5. Kept(n, EnterP2P(n, "P2P_SEND"))
  BY <1>2, EnterKept
<1>6. Kept(n, MATASK_Tel(m))
  BY <1>2, <1>4, <1>5, StartStepKept, SendStepsKept, EndsKept DEF MATASK_Tel, n
<1> QED
  BY <1>2, <1>6, KeptTrans

LEMMA ReceiveTaskKept ==
  ASSUME NEW m, Free(m), m.task = "RECEIVE" PROVE Kept(m, MATASK_Receive(m))
<1> DEFINE n == IF Refused(m) THEN ReceiveNega(m) ELSE m
<1>1. On(m, n)
  BY FailsOn DEF ReceiveNega
<1> HIDE DEF n
<1>2. Free(n) /\ Kept(m, n) /\ Kept(n, n) /\ n.task = "RECEIVE" /\ n.task \in Opening
      /\ ~InSession(n)
  BY <1>1 DEF On, Free, Kept, Opening, InSession
<1>3. Kept(n, GoTo(n, IF n.recvCmd = "WAIT_CALL" THEN 4 ELSE 2))
  BY <1>2, FailsOn DEF On
<1>4. Kept(n, EnterP2P(n, "P2P_RECV"))
  BY <1>2, EnterKept
<1>5. Kept(n, MATASK_Receive(m))
  BY <1>2, <1>3, <1>4, StartStepKept, SendStepsKept, EndsKept DEF MATASK_Receive, n
<1> QED
  BY <1>2, <1>5, KeptTrans

LEMMA EEPROMReadTaskKept ==
  ASSUME NEW m, Free(m), m.task = "EEPROM_READ" PROVE Kept(m, MATASK_EEPROM_Read(m))
<1> DEFINE n == IF ~Refused(m) \/ m.negaResCmd = "END" THEN m
                ELSE IF m.negaResCmd \in {"CHANGE_CLOCK", "EEPROM_READ"}
                THEN DefaultFail(m, 250) ELSE DefaultFail(m, 251)
<1>1. On(m, n)
  BY FailsOn
<1> HIDE DEF n
<1>2. Free(n) /\ Kept(m, n) /\ Kept(n, n) /\ n.task = "EEPROM_READ" /\ n.task \in Opening
      /\ ~InSession(n)
  BY <1>1 DEF On, Free, Kept, Opening, InSession
<1>3. Kept(n, MATASK_EEPROM_Read(m))
  BY <1>2, StartStepKept, SendStepsKept, EndsKept DEF MATASK_EEPROM_Read, n
<1> QED
  BY <1>2, <1>3, KeptTrans

LEMMA OfflineTaskKept ==
  ASSUME NEW m, Free(m), m.task = "OFFLINE" PROVE Kept(m, MATASK_Offline(m))
<1> DEFINE n == IF Refused(m) /\ m.negaResCmd = "DATA" THEN GoTo(m, 0) ELSE m
<1>1. On(m, n)
  BY FailsOn
<1> HIDE DEF n
<1>2. Free(n) /\ Kept(m, n) /\ Kept(n, n) /\ n.task = "OFFLINE"
  BY <1>1 DEF On, Free, Kept
<1>3. n.taskStep = 0 => Kept(n, NextStep(n))
  BY <1>2, NextStepKept DEF Free
<1>4. n.taskStep = 0 =>
        Kept(n, NextStep(IF n.connMode \in {"P2P_SEND", "P2P_RECV"} THEN n
                         ELSE MABIOS_PPPDisconnect(n)))
  BY <1>2, <1>3, SendStepsKept
<1>5. Kept(n, MATASK_Offline(m))
  BY <1>2, <1>4, SendStepsKept, EndsKept DEF MATASK_Offline, n
<1> QED
  BY <1>2, <1>5, KeptTrans

LEMMA StopTaskKept ==
  ASSUME NEW m, Free(m), m.task = "STOP" PROVE Kept(m, MATASK_Stop(m))
<1>1. GoodMa(m) /\ m.intrMode = "IDLE" /\ "SIO_RECV_DONE" \notin m.status
  BY FreeIdle DEF Free, Sound
<1>2. Kept(m, GoTo(MA_BiosStop(m), 2))
  <2> DEFINE b == MA_BiosStop(m)
             n == GoTo(b, 2)
  <2>1. GoodMa(b)
    BY <1>1, BiosStopGood
  <2>2. Waits(m, b) /\ b.status = (m.status \cup {"BIOS_STOP"}) \ {"BIOS_RESTART"}
    BY <1>1, BiosStopEffect
  <2> HIDE DEF b
  <2> USE DEF Waits, SameCall, SameLine
  <2>3. Exchange(b) /\ (Retry(m) => Retry(b))
    BY <1>1, <2>2 DEF Exchange, Retry
  <2>4. TaskAwaited(b) /\ SendAwaited(b)
    BY <1>1, <2>2 DEF Free, Sound, Calling, TaskAwaited, Stopping, SendAwaited
  <2>5. QuietOffline(b) /\ LostInSession(b) /\ StartOpens(b) /\ OpeningOffline(b)
        /\ UnreadKeepAlive(b)
    BY <1>1, <2>2 DEF Free, QuietOffline, LostInSession, StartOpens, Live,
       OpeningOffline, Opening, UnreadKeepAlive
  <2>9. Quiet(b)
    BY <1>1, <2>2 DEF Free, Sound, Quiet, Retreat, Checked
  <2>6. Kept(m, b)
    BY <2>1, <2>3, <2>4, <2>5, <2>9 DEF Kept, Sound, Calling
  <2>7. GoodMa(n) /\ OtherStep(b, n) /\ MayGo(b, n.taskStep)
    <3>1. 2 \in 0..255
      OBVIOUS
    <3>2. GoodMa(n) /\ OtherStep(b, n)
      BY <2>1, <3>1, StepsGood, GoToEffect
    <3>3. b.task = "STOP"
      BY <2>2
    <3> HIDE DEF n
    <3> QED
      BY <3>2, <3>3 DEF MayGo
  <2> HIDE DEF n
  <2>8. Kept(b, n)
    BY <2>6, <2>7, OtherStepOn DEF Kept
  <2> QED
    BY <2>6, <2>8, KeptTrans DEF n, b
<1>3. Kept(m, TaskDone([MA_Reset(m) EXCEPT !.recvCmd = None]))
  <2> DEFINE r == MA_Reset(m)
             e == [r EXCEPT !.recvCmd = None]
             n == TaskDone(e)
  <2>1. GoodMa(r)
    BY <1>1, ResetGood
  <2>2. /\ r.intrMode = "IDLE" /\ r.connMode = "OFFLINE"
        /\ r.condition = m.condition \ {"PTP_GET", "CONNECT"}
        /\ r.status = m.status \ {"CONNECTED", "CONN_PTP", "PTP_SEND_DONE",
                                  "PTP_SEND", "CONNTEST"}
        /\ r.retryCount = m.retryCount /\ r.negaResCmd = m.negaResCmd
    BY <1>1, ResetEffect
  <2> HIDE DEF r
  <2>3. GoodMa(e)
    BY <2>1, SMT DEF GoodMa, CallOver, BodyPending, MaType
  <2>4. /\ e.intrMode = r.intrMode /\ e.connMode = r.connMode /\ e.condition = r.condition
        /\ e.status = r.status /\ e.retryCount = r.retryCount
        /\ e.negaResCmd = r.negaResCmd
    BY <2>1, SMT DEF GoodMa, MaType, MaFields
  <2> HIDE DEF e
  <2>5. GoodMa(n)
    BY <2>3, StepsGood
  <2>6. /\ n.task = "NONE" /\ n.connMode = e.connMode
        /\ n.condition = e.condition \ {"APIWAIT"} /\ n.status = e.status
        /\ n.intrMode = e.intrMode /\ n.retryCount = e.retryCount
        /\ n.negaResCmd = e.negaResCmd
    BY <2>3, TaskDoneEffect DEF SameLine
  <2> HIDE DEF n
  <2>7. Kept(m, n)
    BY <2>2, <2>4, <2>5, <2>6, ResetDoneKept
  <2> QED
    BY <2>7 DEF n, e, r
<1>4. Kept(m, m)
  BY DEF Free, Kept
<1> QED
  BY <1>2, <1>3, <1>4 DEF MATASK_Stop

\* The line has been checked by a task.
LEMMA CheckStatusKept ==
  ASSUME NEW m, Free(m), m.task \in {"CONDITION", "CONDITION2"}, NEW answer \in Answers,
         NEW n, n = MA_ProcessCheckStatusResponse(m, answer)
  PROVE  /\ Kept(m, n) /\ "BIOS_BUSY" \notin n.condition
         /\ \/ n.task = "NONE" /\ "APIWAIT" \notin n.condition
            \/ n.task = m.task /\ n.offline = m.offline
<1>1. GoodMa(m) /\ GoodMa(n) /\ "SIO_RECV_DONE" \notin m.status
  BY FreeIdle, CheckStatusResponseGood DEF Free, Sound
<1>2. /\ n.intrMode = "IDLE"
      /\ \/ /\ n.condition = m.condition /\ n.status = m.status \ {"CONNTEST"}
            /\ n.retryCount = m.retryCount /\ n.sendCmd = m.sendCmd
            /\ SameCall(m, n) /\ n.negaResCmd = m.negaResCmd
         \/ /\ n.condition = m.condition \ {"PTP_GET", "CONNECT"}
            /\ n.status = {} /\ n.connMode = "OFFLINE" /\ n.task = m.task
            /\ n.taskStep = m.taskStep /\ n.offline = m.offline
            /\ n.retryCount = m.retryCount /\ n.sendCmd = m.sendCmd
            /\ n.negaResCmd = m.negaResCmd
         \/ Fails(m, n) /\ n.status = {}
  BY <1>1, CheckStatusEffect
<1>3. CASE /\ n.condition = m.condition /\ n.status = m.status \ {"CONNTEST"}
           /\ n.retryCount = m.retryCount /\ n.sendCmd = m.sendCmd
           /\ SameCall(m, n) /\ n.negaResCmd = m.negaResCmd
  <2> USE <1>1, <1>2, <1>3 DEF SameCall
  <2>1. Exchange(n) /\ (Retry(m) => Retry(n))
    BY DEF Free, Exchange, Retry
  <2>2. TaskAwaited(n) /\ QuietOffline(n) /\ LostInSession(n) /\ OpeningOffline(n)
    BY DEF Free, Sound, Calling, TaskAwaited, Stopping, QuietOffline, LostInSession,
       OpeningOffline, InSession
  <2>3. StartOpens(n) /\ SendAwaited(n) /\ UnreadKeepAlive(n)
    BY DEF Free, Sound, Calling, StartOpens, SendAwaited, UnreadKeepAlive
  <2>4. Quiet(n)
    BY FreeIdle DEF Free, Sound, Quiet, Retreat, Checked
  <2> QED
    BY <2>1, <2>2, <2>3, <2>4 DEF Kept, Sound, Calling, Free
<1>4. CASE /\ n.condition = m.condition \ {"PTP_GET", "CONNECT"}
           /\ n.status = {} /\ n.connMode = "OFFLINE" /\ n.task = m.task
           /\ n.taskStep = m.taskStep /\ n.offline = m.offline
           /\ n.retryCount = m.retryCount /\ n.sendCmd = m.sendCmd
           /\ n.negaResCmd = m.negaResCmd
  <2> USE <1>1, <1>2, <1>4
  <2>1. Exchange(n) /\ (Retry(m) => Retry(n))
    BY DEF Free, Exchange, Retry
  <2>2. TaskAwaited(n) /\ QuietOffline(n) /\ LostInSession(n) /\ OpeningOffline(n)
    BY DEF Free, Sound, Calling, TaskAwaited, Stopping, QuietOffline, LostInSession,
       OpeningOffline, InSession
  <2>3. StartOpens(n) /\ SendAwaited(n) /\ UnreadKeepAlive(n)
    BY DEF Free, Sound, Calling, StartOpens, SendAwaited, UnreadKeepAlive
  <2>4. Quiet(n)
    BY FreeIdle DEF Free, Sound, Quiet, Retreat, Checked
  <2> QED
    BY <2>1, <2>2, <2>3, <2>4 DEF Kept, Sound, Calling, Free
<1>5. CASE Fails(m, n) /\ n.status = {}
  <2>1. Kept(m, n)
    BY <1>1, <1>5, FreeIdle, FailsKept DEF Free
  <2> QED
    BY <1>5, <2>1 DEF Fails
<1> QED
  BY <1>2, <1>3, <1>4, <1>5

\* A call that is over leaves no task.
LEMMA TaskDoneKept ==
  ASSUME NEW m, Sound(m), "BIOS_BUSY" \notin m.condition,
         InSession(m) \/ (m.task = "NONE" /\ "APIWAIT" \notin m.condition)
  PROVE  Kept(m, TaskDone(m))
<1> DEFINE n == TaskDone(m)
<1>1. GoodMa(m) /\ GoodMa(n)
  BY StepsGood DEF Sound
<1>2. /\ n.task = "NONE" /\ n.connMode = m.connMode
      /\ n.condition = m.condition \ {"APIWAIT"} /\ n.status = m.status
      /\ n.intrMode = m.intrMode /\ n.retryCount = m.retryCount /\ SameLine(m, n)
  BY <1>1, TaskDoneEffect
<1> HIDE DEF n
<1> USE DEF SameLine
<1>3. Exchange(n) /\ (Retry(m) => Retry(n))
  BY <1>2 DEF Sound, Exchange, Past, Retry
<1>4. TaskAwaited(n) /\ LostInSession(n) /\ StartOpens(n) /\ OpeningOffline(n)
      /\ UnreadKeepAlive(n)
  BY <1>2 DEF TaskAwaited, LostInSession, StartOpens, OpeningOffline, Opening,
     UnreadKeepAlive
<1>5. QuietOffline(n) /\ SendAwaited(n)
  BY <1>2 DEF Sound, Calling, QuietOffline, SendAwaited, LostInSession, InSession
<1>7. Quiet(n)
  BY <1>2 DEF Sound, Quiet, Retreat, Checked
<1>6. Kept(m, n)
  BY <1>1, <1>3, <1>4, <1>5, <1>7 DEF Kept, Sound, Calling
<1> QED
  BY <1>6 DEF n

LEMMA ConditionTaskKept ==
  ASSUME NEW m, Free(m), m.task \in {"CONDITION", "CONDITION2"}
  PROVE  Kept(m, MATASK_Condition(m))
<1> DEFINE n == IF Refused(m) THEN ConditionNega(m) ELSE m
<1>1. On(m, n)
  <2>1. On(m, m)
    BY DEF On, Free, Kept
  <2>2. /\ 250 \in 0..255 /\ 251 \in 0..255 /\ 252 \in 0..255 /\ MayGo(m, 251)
        /\ IF m.offline THEN MayGo(m, 250) ELSE ~LineKnown => MayGo(m, 252)
    BY DEF MayGo
  <2>3. On(m, DefaultFail(m, 251))
    BY <2>2, StepsOn
  <2>4. ASSUME m.negaResCmd = "CHECK_STATUS"
        PROVE  On(m, DefaultFail(m, IF m.offline THEN 250 ELSE 252))
    <3>1. ~LineKnown
      BY <2>4 DEF Free, Sound, Quiet, Checked
    <3> QED
      BY <2>2, <3>1, StepsOn
  <2> QED
    BY <2>1, <2>3, <2>4 DEF ConditionNega
<1> HIDE DEF n
<1>2. Free(n) /\ Kept(m, n) /\ Kept(n, n) /\ n.task \in {"CONDITION", "CONDITION2"}
      /\ n.task \in Opening /\ n.task \notin {"NONE", "STOP"}
  BY <1>1 DEF On, Free, Kept, Opening
<1>3. GoodMa(n) /\ n.answer \in Answers /\ n.taskError \in Errors /\ n.offline \in BOOLEAN
  BY <1>2 DEF Free, Sound, GoodMa, MaType
<1>4. /\ n.taskStep = 0 => ~InSession(n)
      /\ n.taskStep = 252 => ~n.offline
  BY <1>2, <1>3 DEF Free, Sound, Calling, LostInSession, InSession
<1>5. n.taskStep = 2 => LET c == MA_ProcessCheckStatusResponse(n, n.answer)
                        IN Kept(n, IF n.offline THEN GoTo(c, 3) ELSE TaskDone(c))
  <2> DEFINE c == MA_ProcessCheckStatusResponse(n, n.answer)
  <2>1. /\ Kept(n, c) /\ "BIOS_BUSY" \notin c.condition
        /\ \/ c.task = "NONE" /\ "APIWAIT" \notin c.condition
           \/ c.task = n.task /\ c.offline = n.offline
    BY <1>2, <1>3, CheckStatusKept
  <2> HIDE DEF c
  <2>2. Kept(n, GoTo(c, 3))
    <3>1. 3 \in 0..255 /\ GoodMa(c)
      BY <2>1 DEF Kept, Sound
    <3>2. GoodMa(GoTo(c, 3)) /\ OtherStep(c, GoTo(c, 3)) /\ GoTo(c, 3).taskStep = 3
      BY <3>1, StepsGood, GoToEffect
    <3>3. MayGo(c, GoTo(c, 3).taskStep)
      BY <3>2 DEF MayGo
    <3>4. Kept(c, GoTo(c, 3))
      BY <2>1, <3>2, <3>3, OtherStepOn DEF Kept
    <3> QED
      BY <2>1, <3>4, KeptTrans
  <2>3. ~n.offline => Kept(n, TaskDone(c))
    <3> SUFFICES ASSUME ~n.offline PROVE Kept(n, TaskDone(c))
      OBVIOUS
    <3>1. Kept(c, TaskDone(c))
      BY <1>2, <2>1, TaskDoneKept DEF Kept, InSession
    <3> QED
      BY <2>1, <3>1, KeptTrans
  <2> QED
    BY <2>2, <2>3 DEF c
<1>6. n.taskStep = 252 => Kept(n, TaskDone(MA_SetApiError(n, n.taskError)))
  <2> SUFFICES ASSUME n.taskStep = 252
               PROVE  Kept(n, TaskDone(MA_SetApiError(n, n.taskError)))
    OBVIOUS
  <2> DEFINE k == TaskDone(MA_SetApiError(n, n.taskError))
  <2>1. GoodMa(k) /\ Fails(n, k)
    BY <1>3, ReportFails, ReportGood
  <2> HIDE DEF k
  <2>2. "SIO_RECV_DONE" \notin n.status
    BY <1>2, FreeIdle
  <2>3. "CONNECTED" \in n.status => n.connMode # "OFFLINE" /\ "PTP_SEND" \notin n.status
    BY <1>2, <1>4 DEF Free, Sound, Calling, LostInSession, SendAwaited
  <2>5. ~LineKnown
    BY <1>2 DEF Free, Sound, Quiet, Checked
  <2>4. Kept(n, k)
    BY <1>2, <2>1, <2>2, <2>3, <2>5, FailsKept, FreeIdle DEF Free, Fails
  <2> QED
    BY <2>4 DEF k
<1>7. n.taskStep \notin {251, 255} =>
        Kept(n, NextStep(MABIOS_CheckStatus(n))) /\ Kept(n, NextStep(MABIOS_End(n)))
  BY <1>2, SendStepsKept
<1>8. n.taskStep = 0 => Kept(n, NextStep(MABIOS_Start(n)))
  BY <1>2, <1>4, StartStepKept
<1>9. Kept(n, TaskDone(MA_Reset(n))) /\ Kept(n, ReportAndReset(n))
  BY <1>2, EndsKept
<1>10. Kept(n, MATASK_Condition(m))
  BY <1>2, <1>5, <1>6, <1>7, <1>8, <1>9 DEF MATASK_Condition, n
<1> QED
  BY <1>2, <1>10, KeptTrans

\* MAAPI_Main has a task to run or none.
LEMMA RunTaskKept ==
  ASSUME NEW m, Sound(m), Free(m) \/ m.task = "NONE" PROVE Kept(m, RunTask(m))
<1>1. Kept(m, m)
  BY DEF Kept
<1>2. CASE m.task = "NONE"
  BY <1>1, <1>2 DEF RunTask
<1>3. CASE Free(m)
  BY <1>1, <1>3, InitLibraryTaskKept, TelServerTaskKept, TelTaskKept, ReceiveTaskKept,
     ConditionTaskKept, OfflineTaskKept, EEPROMReadTaskKept, StopTaskKept DEF RunTask
<1> QED
  BY <1>2, <1>3

LEMMA P2PTaskKept ==
  ASSUME NEW m, Free(m), "CONN_PTP" \in m.status, m.sendCmd = "DATA",
         NEW n, n = MATASK_P2P(m)
  PROVE  Kept(m, n) /\ (Free(n) \/ n.task = "NONE")
<1> DEFINE s == IF "PTP_SEND_DONE" \in m.status
                THEN [m EXCEPT !.status = @ \ {"PTP_SEND_DONE", "PTP_SEND"},
                               !.condition = @ \ {"APIWAIT"}]
                ELSE m
           c == IF s.answer = "whole" THEN s.condition \cup {"PTP_GET"} ELSE s.condition
           e == [s EXCEPT !.bufSize = 0, !.condition = c]
           k == TaskDone(MA_SetApiError(MA_Reset(s), "OFFLINE"))
<1>1. GoodMa(m) /\ "SIO_RECV_DONE" \notin m.status
  BY FreeIdle DEF Free, Sound
<1>2. GoodMa(s)
  BY <1>1, SMT DEF GoodMa, CallOver, BodyPending, MaType
<1>3. Kept(m, s) /\ Free(s)
  <2>1. CASE "PTP_SEND_DONE" \notin m.status
    BY <2>1 DEF Kept, Free
  <2>2. CASE "PTP_SEND_DONE" \in m.status
    <3>1. /\ s.status = m.status \ {"PTP_SEND_DONE", "PTP_SEND"}
          /\ s.condition = m.condition \ {"APIWAIT"} /\ s.intrMode = m.intrMode
          /\ s.retryCount = m.retryCount /\ SameLine(m, s) /\ SameCall(m, s)
      BY <1>1, <2>2, SMT DEF GoodMa, MaType, MaFields, SameLine, SameCall
    <3> HIDE DEF s
    <3> USE DEF SameLine, SameCall
    <3>2. /\ m.task \in {"NONE", "STOP"} /\ m.connMode # "OFFLINE"
          /\ "SDATA" \in Calls /\ (m.task = "STOP" => "STOP" \in Calls)
      BY <2>2 DEF Free, Sound, Calling, SendAwaited, TaskAwaited
    <3>3. Exchange(s) /\ (Retry(m) => Retry(s))
      BY <1>1, <3>1 DEF Free, Sound, Exchange, Past, Retry
    <3>4. TaskAwaited(s) /\ QuietOffline(s) /\ LostInSession(s) /\ OpeningOffline(s)
      BY <3>1, <3>2 DEF Free, TaskAwaited, Stopping, QuietOffline, LostInSession,
         OpeningOffline, Opening
    <3>5. StartOpens(s) /\ SendAwaited(s) /\ UnreadKeepAlive(s)
      BY <3>1, <3>2 DEF Free, StartOpens, SendAwaited, UnreadKeepAlive
    <3>7. Quiet(s)
      BY <1>1, <3>1, <3>2 DEF Free, Sound, Quiet, Retreat, Checked
    <3>6. Kept(m, s)
      BY <1>2, <3>3, <3>4, <3>5, <3>7 DEF Kept, Sound, Calling
    <3> QED
      BY <3>1, <3>6 DEF Kept, Free
  <2> QED
    BY <2>1, <2>2
<1> HIDE DEF s
<1>4. GoodMa(k) /\ Fails(s, k) /\ "CONNECTED" \notin k.status
  <2>1. "OFFLINE" \in Errors
    BY DEF Errors
  <2> QED
    BY <1>2, <2>1, OfflineErrorGood, ResetReportFails
<1>5. Kept(s, k) /\ k.task = "NONE"
  <2> HIDE DEF k
  <2>1. "SIO_RECV_DONE" \notin s.status /\ s.intrMode = "IDLE"
    BY <1>3, FreeIdle
  <2> QED
    BY <1>3, <1>4, <2>1, FailsKept DEF Free, Fails
<1>6. Kept(s, e) /\ Free(e)
  <2>1. c \in SUBSET ConditionFlags /\ (\A f \in {"ERROR", "APIWAIT", "BIOS_BUSY"} :
          f \in c <=> f \in s.condition)
    BY <1>2 DEF GoodMa, MaType, ConditionFlags
  <2> HIDE DEF c
  <2>2. GoodMa(e)
    BY <1>2, <2>1, SMT DEF GoodMa, CallOver, BodyPending, MaType
  <2>3. e.condition = c /\ e.status = s.status /\ e.intrMode = s.intrMode
        /\ e.retryCount = s.retryCount /\ SameLine(s, e) /\ SameCall(s, e)
    BY <1>2, SMT DEF GoodMa, MaType, MaFields, SameLine, SameCall
  <2> HIDE DEF e
  <2>4. Same(s, e)
    BY <2>1, <2>3 DEF Same, SameFlags
  <2>5. Kept(s, e)
    BY <1>3, <2>2, <2>4, SameKept DEF Free
  <2> QED
    BY <1>3, <2>1, <2>3, <2>5 DEF Free, Kept
<1>7. n \in {s, e, k}
  BY DEF MATASK_P2P, s, e, k, c
<1> HIDE DEF e, k
<1> QED
  BY <1>3, <1>5, <1>6, <1>7, KeptTrans

\* MAAPI_Main keeps the invariant, whatever the task.
LEMMA MainKept == ASSUME NEW m, Sound(m) PROVE Kept(m, MAAPI_Main(m))
<1>1. Kept(m, m)
  BY DEF Kept
<1>2. CASE {"ERROR", "BIOS_BUSY"} \cap m.condition = {}
  <2> DEFINE p == IF "CONN_PTP" \in m.status /\ m.sendCmd = "DATA"
                  THEN MATASK_P2P(m) ELSE m
  <2>1. Free(m)
    BY <1>2 DEF Free
  <2>2. Kept(m, p) /\ (Free(p) \/ p.task = "NONE")
    BY <1>1, <2>1, P2PTaskKept
  <2> HIDE DEF p
  <2>3. Kept(p, RunTask(p))
    BY <2>2, RunTaskKept DEF Kept
  <2>4. Kept(m, RunTask(p))
    BY <2>2, <2>3, KeptTrans
  <2> QED
    BY <1>1, <2>4 DEF MAAPI_Main, p
<1> QED
  BY <1>1, <1>2 DEF MAAPI_Main

----------------------------------------------------------------------------
(* The timer interrupt.                                                    *)

LEMMA SetTimerKept ==
  ASSUME NEW m, Sound(m) PROVE Kept(m, [m EXCEPT !.tm3 = TRUE])
<1> DEFINE n == [m EXCEPT !.tm3 = TRUE]
<1>1. GoodMa(m) /\ GoodMa(n)
  BY SetTimerGood DEF Sound
<1>2. Same(m, n)
  BY <1>1, SMT DEF GoodMa, MaType, MaFields, Same, SameFlags, SameLine, SameCall
<1> HIDE DEF n
<1> QED
  BY <1>1, <1>2, SameKept DEF n

\* A reply that is handed on ends the exchange, or begins a pause.
LEMMA ReplyDoneKept ==
  ASSUME NEW m, Sound(m), "SIO_RECV_DONE" \in m.status, "BIOS_RESTART" \notin m.status,
         m.recvCmd # "CHECK_STATUS", NEW n, n = MA_ProcessRecvPacket(m)
  PROVE  Kept(m, n)
<1> DEFINE r == RecvPacketDone(m)
<1>1. GoodMa(m) /\ GoodMa(n)
  BY ProcessRecvPacketGood DEF Sound
<1>2. /\ \A f \in {"BIOS_BUSY", "APIWAIT", "ERROR"} : f \in r.condition <=> f \in m.condition
      /\ r.status = CASE m.recvCmd = "START" -> m.status \cup {"CONNECTED"}
                      [] m.recvCmd = "END" ->
                           m.status \ {"CONNTEST", "CONN_PTP", "PTP_SEND_DONE", "PTP_SEND"}
                      [] OTHER -> m.status
      /\ r.retryCount = m.retryCount /\ r.sendCmd = m.sendCmd /\ SameCall(m, r)
      /\ r.negaResCmd = IF m.recvCmd = "ERROR" THEN m.sendCmd ELSE m.negaResCmd
  BY <1>1, RecvPacketDoneEffect
<1>3. /\ n.status = r.status \ {"SIO_RECV_DONE"}
      /\ n.retryCount = r.retryCount /\ n.sendCmd = r.sendCmd /\ SameCall(r, n)
      /\ n.negaResCmd = r.negaResCmd
      /\ \/ /\ n.intrMode = "WAIT" /\ n.condition = r.condition
            /\ m.recvCmd \in {"END", "CHANGE_CLOCK"}
         \/ n.intrMode = "IDLE" /\ n.condition = r.condition \ {"BIOS_BUSY"}
  BY <1>1, ProcessRecvPacketEffect
<1> HIDE DEF r
<1> USE DEF SameCall
<1>4. "BIOS_BUSY" \in m.condition /\ "SIO_RETRY" \notin m.status
      /\ m.recvCmd \in RepliesTo(m.sendCmd) /\ Live(m)
  BY DEF Sound, Exchange, Live
<1>5. /\ m.recvCmd \in {"START", "END", "CHANGE_CLOCK"} => m.sendCmd = m.recvCmd
      /\ m.recvCmd = "START" =>
           m.task # "NONE" /\ m.connMode = "OFFLINE" /\ ~InSession(m)
  BY <1>4 DEF RepliesTo, Sound, Calling, StartOpens
<1>6. Exchange(n) /\ (Retry(m) => Retry(n))
  BY <1>2, <1>3, <1>4 DEF Exchange, Retry
<1>7. TaskAwaited(n) /\ QuietOffline(n) /\ OpeningOffline(n)
  BY <1>2, <1>3, <1>4 DEF Sound, Calling, TaskAwaited, Stopping, QuietOffline,
     OpeningOffline, InSession
<1>8. LostInSession(n)
  BY <1>2, <1>3, <1>4, <1>5 DEF Sound, Calling, LostInSession, InSession
<1>9. StartOpens(n) /\ UnreadKeepAlive(n)
  BY <1>2, <1>3, <1>4, <1>5 DEF Sound, Calling, StartOpens, UnreadKeepAlive
<1>10. SendAwaited(n)
  BY <1>2, <1>3, <1>4, <1>5 DEF Sound, Calling, SendAwaited
<1>11. /\ {"BIOS_STOP", "SIO_SEND_TIMEOUT"} \cap m.status = {}
       /\ LineKnown => "ERROR" \notin m.condition /\ "CONNTEST" \notin m.status
                       /\ (m.recvCmd = "ERROR" => m.sendCmd # "CHECK_STATUS")
  <2>1. {"BIOS_STOP", "SIO_SEND_TIMEOUT"} \cap m.status = {}
    BY DEF Sound, Quiet, Retreat
  <2>2. LineKnown => m.sendCmd # "CHECK_STATUS"
    BY <1>4 DEF RepliesTo, LineKnown
  <2> QED
    BY <1>4, <2>1, <2>2 DEF Sound, Quiet, Checked
<1>12. Retreat(n)
  BY <1>2, <1>3, <1>5, <1>11 DEF Retreat
<1>13. LineKnown => Checked(n)
  BY <1>2, <1>3, <1>4, <1>11 DEF Sound, Quiet, Checked
<1> QED
  BY <1>1, <1>6, <1>7, <1>8, <1>9, <1>10, <1>12, <1>13 DEF Kept, Sound, Calling, Quiet

LEMMA StatusReplyKept ==
  ASSUME NEW m, Sound(m), "SIO_RECV_DONE" \in m.status, "BIOS_RESTART" \notin m.status,
         m.recvCmd = "CHECK_STATUS", NEW n, n = MA_ProcessRecvPacket(m)
  PROVE  Kept(m, n)
<1> DEFINE r == MA_ProcessCheckStatusResponse(m, m.answer)
<1>1. GoodMa(m) /\ GoodMa(n)
  BY ProcessRecvPacketGood DEF Sound
<1>2. RecvPacketDone(m) = r
  BY DEF RecvPacketDone
<1>3. /\ n.status = r.status \ {"SIO_RECV_DONE"} /\ n.intrMode = "IDLE"
      /\ n.condition = r.condition \ {"BIOS_BUSY"}
      /\ n.retryCount = r.retryCount /\ n.sendCmd = r.sendCmd /\ SameCall(r, n)
      /\ n.negaResCmd = r.negaResCmd
  BY <1>1, <1>2, ProcessRecvPacketEffect
<1>4. \/ /\ r.condition = m.condition /\ r.status = m.status \ {"CONNTEST"}
         /\ r.retryCount = m.retryCount /\ r.sendCmd = m.sendCmd
         /\ SameCall(m, r) /\ r.negaResCmd = m.negaResCmd
      \/ /\ r.condition = m.condition \ {"PTP_GET", "CONNECT"}
         /\ r.status = {} /\ r.connMode = "OFFLINE" /\ r.task = m.task
         /\ r.taskStep = m.taskStep /\ r.offline = m.offline
         /\ r.retryCount = m.retryCount /\ r.sendCmd = m.sendCmd
         /\ r.negaResCmd = m.negaResCmd
      \/ Fails(m, r) /\ r.status = {}
  BY <1>1, CheckStatusEffect
<1> HIDE DEF r
<1> USE DEF SameCall
<1>5. "BIOS_BUSY" \in m.condition /\ "SIO_RETRY" \notin m.status
  BY DEF Sound, Exchange
<1>6. Exchange(n) /\ (Retry(m) => Retry(n))
  BY <1>3, <1>4, <1>5 DEF Exchange, Retry, Fails
<1>7. StartOpens(n) /\ UnreadKeepAlive(n)
  BY <1>3 DEF StartOpens, UnreadKeepAlive
<1>8. CASE /\ r.condition = m.condition /\ r.status = m.status \ {"CONNTEST"}
           /\ r.retryCount = m.retryCount /\ r.sendCmd = m.sendCmd
           /\ SameCall(m, r) /\ r.negaResCmd = m.negaResCmd
  <2>1. TaskAwaited(n) /\ QuietOffline(n) /\ LostInSession(n) /\ OpeningOffline(n)
        /\ SendAwaited(n)
    BY <1>3, <1>5, <1>8 DEF Sound, Calling, TaskAwaited, Stopping, QuietOffline,
       LostInSession, OpeningOffline, InSession, SendAwaited
  <2>3. Quiet(n)
    BY <1>3, <1>5, <1>8 DEF Fails, Sound, Quiet, Retreat, Checked
  <2> QED
    BY <1>1, <1>6, <1>7, <2>1, <2>3 DEF Kept, Sound, Calling
<1>9. CASE /\ r.condition = m.condition \ {"PTP_GET", "CONNECT"}
           /\ r.status = {} /\ r.connMode = "OFFLINE" /\ r.task = m.task
           /\ r.taskStep = m.taskStep /\ r.offline = m.offline
           /\ r.retryCount = m.retryCount /\ r.sendCmd = m.sendCmd
           /\ r.negaResCmd = m.negaResCmd
  <2>1. TaskAwaited(n) /\ QuietOffline(n) /\ LostInSession(n) /\ OpeningOffline(n)
        /\ SendAwaited(n)
    BY <1>3, <1>5, <1>9 DEF Sound, Calling, TaskAwaited, Stopping, QuietOffline,
       LostInSession, OpeningOffline, InSession, SendAwaited
  <2>3. Quiet(n)
    BY <1>3, <1>5, <1>9 DEF Fails, Sound, Quiet, Retreat, Checked
  <2> QED
    BY <1>1, <1>6, <1>7, <2>1, <2>3 DEF Kept, Sound, Calling
<1>10. CASE Fails(m, r) /\ r.status = {}
  <2>1. /\ n.task = "NONE" /\ n.status = {} /\ "BIOS_BUSY" \notin n.condition
    BY <1>3, <1>10 DEF Fails
  <2>2. TaskAwaited(n) /\ QuietOffline(n) /\ LostInSession(n) /\ OpeningOffline(n)
        /\ SendAwaited(n)
    BY <2>1 DEF TaskAwaited, QuietOffline, LostInSession, OpeningOffline, Opening,
       SendAwaited
  <2>3. Quiet(n)
    BY <1>3, <1>5, <1>10 DEF Fails, Sound, Quiet, Retreat, Checked
  <2> QED
    BY <1>1, <1>6, <1>7, <2>2, <2>3 DEF Kept, Sound, Calling
<1> QED
  BY <1>4, <1>8, <1>9, <1>10

LEMMA ProcessRecvPacketKept ==
  ASSUME NEW m, Sound(m), "SIO_RECV_DONE" \in m.status, NEW n, n = MA_ProcessRecvPacket(m)
  PROVE  Kept(m, n)
<1>1. GoodMa(m) /\ GoodMa(n)
  BY ProcessRecvPacketGood DEF Sound
<1>2. CASE "BIOS_RESTART" \in m.status
  <2>1. /\ Waits(m, n)
        /\ n.status = (m.status \cup {"BIOS_STOP"}) \ {"BIOS_RESTART", "SIO_RECV_DONE"}
    BY <1>1, <1>2, ProcessRecvPacketEffect
  <2> USE DEF Waits, SameCall, SameLine
  <2>2. "BIOS_BUSY" \in m.condition /\ "SIO_RETRY" \notin m.status
    BY DEF Sound, Exchange
  <2>3. Exchange(n) /\ (Retry(m) => Retry(n))
    BY <2>1, <2>2 DEF Exchange, Retry
  <2>4. TaskAwaited(n) /\ QuietOffline(n) /\ LostInSession(n) /\ OpeningOffline(n)
    BY <2>1, <2>2 DEF Sound, Calling, TaskAwaited, Stopping, QuietOffline,
       LostInSession, OpeningOffline, InSession
  <2>5. StartOpens(n) /\ SendAwaited(n) /\ UnreadKeepAlive(n)
    BY <2>1, <2>2 DEF Sound, Calling, StartOpens, Live, SendAwaited, UnreadKeepAlive
  <2>6. Quiet(n)
    BY <1>2, <2>1, <2>2 DEF Sound, Quiet, Retreat, Checked
  <2> QED
    BY <1>1, <2>3, <2>4, <2>5, <2>6 DEF Kept, Sound, Calling
<1> QED
  BY <1>2, ReplyDoneKept, StatusReplyKept

\* The poll of the peer carries the data of MA_SData.
LEMMA P2PPollKept ==
  ASSUME NEW m, Sound(m), m.intrMode = "IDLE", "SIO_RECV_DONE" \notin m.status,
         m.task = "NONE", "CONNECTED" \in m.status, "CONN_PTP" \in m.status,
         NEW n, n = P2PPoll(m)
  PROVE  Kept(m, n)
<1> DEFINE b == [m EXCEPT !.bufSize = 0]
           d == Request(b, "DATA", "30")
<1>1. GoodMa(m) /\ GoodMa(n)
  BY P2PPollGood DEF Sound
<1>2. GoodMa(b)
  BY <1>1, SMT DEF GoodMa, CallOver, BodyPending, MaType
<1>3. /\ b.condition = m.condition /\ b.status = m.status /\ SameCall(m, b)
      /\ b.retryCount = m.retryCount /\ Same(m, b)
  BY <1>1, SMT DEF GoodMa, MaType, MaFields, Same, SameFlags, SameLine, SameCall
<1> HIDE DEF b
<1>4. IF CanSend(b) THEN Sends(b, d, "DATA") ELSE d = MA_SetError(b, "CANNOT_EXECUTE")
  BY <1>2, RequestEffect
<1>5. GoodMa(d)
  <2>1. "DATA" \in Commands /\ "30" \in Timeouts
    BY DEF Commands, Timeouts
  <2> QED
    BY <1>2, <2>1, RequestGood
<1>6. n = IF "PTP_SEND" \in m.status THEN [d EXCEPT !.status = @ \cup {"PTP_SEND_DONE"}]
          ELSE d
  BY DEF P2PPoll, MABIOS_Data, b, d
<1> HIDE DEF d
<1>7. /\ n.condition = d.condition /\ n.intrMode = d.intrMode /\ n.sendCmd = d.sendCmd
      /\ n.retryCount = d.retryCount /\ n.negaResCmd = d.negaResCmd /\ SameCall(d, n)
      /\ n.status = IF "PTP_SEND" \in m.status THEN d.status \cup {"PTP_SEND_DONE"}
                    ELSE d.status
  BY <1>5, <1>6, SMT DEF GoodMa, MaType, MaFields, SameCall
<1>8. m.connMode # "OFFLINE" /\ "BIOS_BUSY" \notin m.condition
      /\ ("PTP_SEND" \in m.status => "APIWAIT" \in m.condition)
  BY DEF Sound, Exchange, Calling, SendAwaited
<1>9. CASE CanSend(b)
  <2>1. Sends(b, d, "DATA")
    BY <1>4, <1>9
  <2> USE DEF Sends, SameCall
  <2>2. Exchange(n) /\ Retry(n)
    BY <1>3, <1>7, <2>1 DEF Exchange, Retry
  <2>3. TaskAwaited(n) /\ QuietOffline(n) /\ LostInSession(n) /\ OpeningOffline(n)
    BY <1>3, <1>7, <1>8, <2>1 DEF TaskAwaited, QuietOffline, LostInSession,
       OpeningOffline, Opening
  <2>4. StartOpens(n) /\ SendAwaited(n)
    BY <1>3, <1>7, <1>8, <2>1 DEF Sound, Calling, StartOpens, SendAwaited
  <2>5. UnreadKeepAlive(n)
    BY <1>3, <1>7, <1>9, <2>1 DEF UnreadKeepAlive, CanSend
  <2>6. b.negaResCmd = m.negaResCmd /\ "ERROR" \notin m.condition
    BY <1>3, <1>9 DEF Same, SameLine, CanSend
  <2>7. Quiet(n)
    BY <1>3, <1>7, <1>8, <2>1, <2>6 DEF Sound, Quiet, Retreat, Checked
  <2> QED
    BY <1>1, <2>2, <2>3, <2>4, <2>5, <2>7 DEF Kept, Sound, Calling
<1>10. CASE ~CanSend(b)
  <2>1. "ERROR" \in m.condition
    BY <1>3, <1>8, <1>10 DEF CanSend
  <2>2. "PTP_SEND" \notin m.status
    BY <1>1, <1>8, <2>1 DEF GoodMa, CallOver
  <2>3. Fails(b, n)
    BY <1>2, <1>4, <1>6, <1>10, <2>2, SetErrorFails
  <2>4. Kept(m, b)
    BY <1>2, <1>3, SameKept
  <2>6. ~LineKnown
    BY <2>1 DEF Sound, Quiet, Checked
  <2>7. b.intrMode = "IDLE"
    BY <1>3 DEF Same
  <2>5. Kept(b, n)
    BY <1>1, <1>3, <1>8, <2>2, <2>3, <2>4, <2>6, <2>7, FailsKept DEF Kept, SameCall
  <2> QED
    BY <2>4, <2>5, KeptTrans
<1> QED
  BY <1>9, <1>10

LEMMA KeepAliveKept ==
  ASSUME NEW m, Sound(m), m.intrMode = "IDLE", "SIO_RECV_DONE" \notin m.status,
         m.task = "NONE", "CONNECTED" \in m.status, NEW n, n = MABIOS_CheckStatus2(m)
  PROVE  Kept(m, n)
<1>1. GoodMa(m) /\ GoodMa(n)
  BY CheckStatus2Good DEF Sound
<1>2. \/ n = m
      \/ /\ n.condition = m.condition \cup {"BIOS_BUSY"}
         /\ n.status = m.status \cup {"TIMER_ENABLED", "CONNTEST"}
         /\ n.intrMode = "SEND" /\ n.sendCmd = "CHECK_STATUS"
         /\ n.retryCount = m.retryCount /\ SameCall(m, n)
         /\ n.negaResCmd = m.negaResCmd
  BY <1>1, CheckStatus2Effect
<1>3. CASE n = m
  BY <1>3 DEF Kept
<1>4. CASE /\ n.condition = m.condition \cup {"BIOS_BUSY"}
           /\ n.status = m.status \cup {"TIMER_ENABLED", "CONNTEST"}
           /\ n.intrMode = "SEND" /\ n.sendCmd = "CHECK_STATUS"
           /\ n.retryCount = m.retryCount /\ SameCall(m, n)
           /\ n.negaResCmd = m.negaResCmd
  <2> USE DEF SameCall
  <2>1. Exchange(n) /\ (Retry(m) => Retry(n))
    BY <1>4 DEF Exchange, Retry
  <2>2. TaskAwaited(n) /\ QuietOffline(n) /\ LostInSession(n) /\ OpeningOffline(n)
    BY <1>4 DEF Sound, Calling, TaskAwaited, QuietOffline, LostInSession,
       OpeningOffline, Opening
  <2>3. StartOpens(n) /\ SendAwaited(n) /\ UnreadKeepAlive(n)
    BY <1>4 DEF Sound, Calling, StartOpens, SendAwaited, UnreadKeepAlive
  <2>4. Retreat(n)
    BY <1>4 DEF Sound, Quiet, Retreat
  <2>5. LineKnown => {"BIOS_STOP", "BIOS_RESTART"} \cap m.status = {}
    BY DEF Sound, Quiet, Retreat, Checked
  <2>6. LineKnown => Checked(n)
    BY <1>4, <2>5 DEF Sound, Quiet, Checked
  <2> QED
    BY <1>1, <2>1, <2>2, <2>3, <2>4, <2>6 DEF Kept, Sound, Calling, Quiet
<1> QED
  BY <1>2, <1>3, <1>4

LEMMA SIOIdleKept ==
  ASSUME NEW m, Sound(m), m.intrMode = "IDLE", "SIO_RECV_DONE" \notin m.status,
         NEW n, n = MA_IntrTimer_SIOIdle(m)
  PROVE  Kept(m, n)
<1> DEFINE c == [m EXCEPT !.counter = @ + 1]
           z == [m EXCEPT !.counter = 0]
<1>1. GoodMa(m)
  BY DEF Sound
<1>2. GoodMa(c) /\ GoodMa(z)
  BY <1>1, SMT DEF GoodMa, CallOver, BodyPending, MaType
<1>3. Same(m, c) /\ Same(m, z)
  BY <1>1, SMT DEF GoodMa, MaType, MaFields, Same, SameFlags, SameLine, SameCall
<1>4. Kept(m, c) /\ Kept(m, z) /\ Kept(m, m)
  BY <1>2, <1>3, SameKept DEF Kept
<1>5. n = m \/ n = c
      \/ /\ m.task = "NONE" /\ "CONNECTED" \in m.status
         /\ \/ "CONN_PTP" \in m.status /\ n = P2PPoll(z)
            \/ n = MABIOS_CheckStatus2(z)
  BY DEF MA_IntrTimer_SIOIdle
<1> HIDE DEF c, z
<1>6. z.intrMode = "IDLE" /\ z.task = m.task
      /\ \A f \in {"SIO_RECV_DONE", "CONNECTED", "CONN_PTP"} :
           f \in z.status <=> f \in m.status
  BY <1>3 DEF Same, SameFlags, SameCall
<1>7. ASSUME m.task = "NONE", "CONNECTED" \in m.status, "CONN_PTP" \in m.status,
             n = P2PPoll(z)
      PROVE  Kept(z, n)
  BY <1>4, <1>6, <1>7, P2PPollKept DEF Kept
<1>8. ASSUME m.task = "NONE", "CONNECTED" \in m.status, n = MABIOS_CheckStatus2(z)
      PROVE  Kept(z, n)
  BY <1>4, <1>6, <1>8, KeepAliveKept DEF Kept
<1> QED
  BY <1>4, <1>5, <1>7, <1>8, KeptTrans

\* The end of a pause, and of a cancelled request.
LEMMA PauseEndsKept ==
  ASSUME NEW m, Sound(m), m.intrMode = "WAIT", "SIO_RECV_DONE" \notin m.status,
         {"BIOS_RESTART", "SIO_SEND_TIMEOUT"} \cap m.status = {},
         "BIOS_STOP" \in m.status \/ "SIO_RETRY" \notin m.status, NEW n, GoodMa(n),
         n.condition = m.condition \ {"BIOS_BUSY"}, n.intrMode = "IDLE",
         n.status = m.status \ {"BIOS_STOP"},
         n.retryCount = m.retryCount, SameLine(m, n), SameCall(m, n)
  PROVE  Kept(m, n)
<1> USE DEF SameLine, SameCall
<1>1. "BIOS_BUSY" \in m.condition
  BY DEF Sound, Exchange
<1>2. Exchange(n) /\ (Retry(m) => Retry(n))
  BY DEF Exchange, Retry
<1>3. TaskAwaited(n) /\ QuietOffline(n) /\ LostInSession(n) /\ OpeningOffline(n)
  BY <1>1 DEF Sound, Calling, TaskAwaited, Stopping, QuietOffline, LostInSession,
     OpeningOffline, InSession
<1>4. StartOpens(n) /\ SendAwaited(n) /\ UnreadKeepAlive(n)
  BY DEF Sound, Calling, StartOpens, SendAwaited, UnreadKeepAlive
<1>5. LineKnown => "CONNTEST" \notin m.status
  BY DEF Sound, Quiet, Retreat, Checked
<1>6. Quiet(n)
  BY <1>5 DEF Sound, Quiet, Retreat, Checked
<1> QED
  BY <1>2, <1>3, <1>4, <1>6 DEF Kept, Sound, Calling

\* MABIOS_Start2 restarts a session that was cancelled.
LEMMA RestartKept ==
  ASSUME NEW m, Sound(m), m.intrMode = "WAIT", "SIO_RECV_DONE" \notin m.status,
         "BIOS_RESTART" \in m.status, NEW n, n = MABIOS_Start2(m)
  PROVE  Kept(m, n)
<1>1. GoodMa(m) /\ GoodMa(n)
  BY Start2Good DEF Sound
<1>2. IF "ERROR" \notin m.condition THEN Sends(m, n, "START") ELSE Fails(m, n)
  BY <1>1, Start2Effect
<1>3. "BIOS_BUSY" \in m.condition
  BY DEF Sound, Exchange
<1>4. CASE Sends(m, n, "START") /\ "ERROR" \notin m.condition
  <2> USE DEF Sends, SameCall
  <2>1. Exchange(n) /\ Retry(n)
    BY <1>4 DEF Exchange, Retry
  <2>2. TaskAwaited(n) /\ QuietOffline(n) /\ LostInSession(n) /\ OpeningOffline(n)
    BY <1>3, <1>4 DEF Sound, Calling, TaskAwaited, Stopping, QuietOffline,
       LostInSession, OpeningOffline, InSession
  <2>3. StartOpens(n) /\ SendAwaited(n) /\ UnreadKeepAlive(n)
    BY <1>3, <1>4 DEF Sound, Calling, StartOpens, SendAwaited, UnreadKeepAlive
  <2>4. Quiet(n)
    BY <1>3, <1>4 DEF Sound, Quiet, Retreat, Checked
  <2> QED
    BY <1>1, <2>1, <2>2, <2>3, <2>4 DEF Kept, Sound, Calling
<1>5. CASE Fails(m, n) /\ "ERROR" \in m.condition
  <2>1. m.task = "NONE" /\ "APIWAIT" \notin m.condition
    BY <1>1, <1>5 DEF GoodMa, CallOver
  <2>2. "CONNECTED" \in n.status => m.connMode # "OFFLINE" /\ "PTP_SEND" \notin m.status
    BY <1>3, <1>5, <2>1 DEF Fails, Sound, Calling, QuietOffline, SendAwaited
  <2>3. ~LineKnown /\ ("BIOS_STOP" \notin n.status \/ "BIOS_RESTART" \in n.status)
    BY <1>3, <1>5 DEF Fails, Sound, Quiet, Checked
  <2> QED
    BY <1>1, <1>5, <2>2, <2>3, FailsKept
<1> QED
  BY <1>2, <1>4, <1>5

LEMMA SIOWaitTimeKept ==
  ASSUME NEW m, Sound(m), m.intrMode = "WAIT", "SIO_RECV_DONE" \notin m.status,
         NEW n, n = MA_IntrTimer_SIOWaitTime(m)
  PROVE  Kept(m, n)
<1>1. GoodMa(m) /\ GoodMa(n)
  BY SIOWaitTimeGood DEF Sound
<1>2. CASE "BIOS_RESTART" \in m.status
  BY <1>2, RestartKept DEF MA_IntrTimer_SIOWaitTime
<1>3. CASE "BIOS_RESTART" \notin m.status /\ "BIOS_STOP" \in m.status
  <2>1. n = StopWait(m)
    BY <1>3 DEF MA_IntrTimer_SIOWaitTime
  <2>2. \/ /\ n.condition = m.condition \ {"BIOS_BUSY"}
           /\ n.status = m.status \ {"BIOS_STOP"} /\ n.intrMode = "IDLE"
           /\ n.retryCount = m.retryCount /\ SameLine(m, n) /\ SameCall(m, n)
           /\ "SIO_SEND_TIMEOUT" \notin m.status
        \/ Fails(m, n) /\ {"CONNECTED", "BIOS_STOP"} \cap n.status = {}
    BY <1>1, <2>1, StopWaitEffect
  <2> QED
    BY <1>1, <1>3, <2>2, PauseEndsKept, FailsKept
<1>4. CASE {"BIOS_RESTART", "BIOS_STOP"} \cap m.status = {} /\ "SIO_RETRY" \in m.status
  <2>1. n = MA_SendRetry([m EXCEPT !.intrMode = "SEND"])
    BY <1>4 DEF MA_IntrTimer_SIOWaitTime
  <2>2. /\ n.condition = m.condition /\ n.status = m.status /\ n.intrMode = "SEND"
        /\ n.retryCount = m.retryCount /\ SameLine(m, n) /\ SameCall(m, n)
    BY <1>1, <2>1, SMT DEF GoodMa, MaType, MaFields, MA_SendRetry, SameLine, SameCall
  <2> USE DEF SameLine, SameCall
  <2>3. Exchange(n) /\ (Retry(m) => Retry(n))
    BY <1>4, <2>2 DEF Sound, Exchange, Retry
  <2>4. TaskAwaited(n) /\ QuietOffline(n) /\ LostInSession(n) /\ OpeningOffline(n)
    BY <1>4, <2>2 DEF Sound, Exchange, Calling, TaskAwaited, Stopping, QuietOffline,
       LostInSession, OpeningOffline, InSession
  <2>5. StartOpens(n) /\ SendAwaited(n) /\ UnreadKeepAlive(n)
    BY <1>4, <2>2 DEF Sound, Calling, StartOpens, Live, InSession, SendAwaited,
       UnreadKeepAlive
  <2>6. Quiet(n)
    BY <1>4, <2>2 DEF Sound, Quiet, Retreat, Checked
  <2> QED
    BY <1>1, <2>3, <2>4, <2>5, <2>6 DEF Kept, Sound, Calling
<1>5. CASE {"BIOS_RESTART", "BIOS_STOP"} \cap m.status = {} /\ "SIO_RETRY" \notin m.status
  <2>1. n = [m EXCEPT !.intrMode = "IDLE", !.counter = 0,
                      !.condition = @ \ {"BIOS_BUSY"}]
    BY <1>5 DEF MA_IntrTimer_SIOWaitTime
  <2>2. /\ n.condition = m.condition \ {"BIOS_BUSY"} /\ n.status = m.status
        /\ n.intrMode = "IDLE" /\ n.retryCount = m.retryCount
        /\ SameLine(m, n) /\ SameCall(m, n)
    BY <1>1, <2>1, SMT DEF GoodMa, MaType, MaFields, SameLine, SameCall
  <2>3. n.status = m.status \ {"BIOS_STOP"}
    BY <1>5, <2>2
  <2>4. "SIO_SEND_TIMEOUT" \notin m.status
    BY <1>5 DEF Sound, Quiet, Retreat
  <2> QED
    BY <1>1, <1>5, <2>2, <2>3, <2>4, PauseEndsKept
<1> QED
  BY <1>2, <1>3, <1>4, <1>5

LEMMA TimerKept == ASSUME Sound(gMA), Timer PROVE Kept(gMA, gMA') /\ rx = 0 /\ rx' = 0
<1>1. Kept(gMA, AfterApi) /\ Sound(AfterApi)
  BY MainKept DEF AfterApi, Kept
<1>2. ASSUME NEW m, Kept(AfterApi, m), TimerDue, Restarted(m)
      PROVE  Kept(gMA, gMA') /\ rx = 0 /\ rx' = 0
  <2>1. Kept(m, [m EXCEPT !.tm3 = TRUE])
    BY <1>2, SetTimerKept DEF Kept
  <2> QED
    BY <1>1, <1>2, <2>1, KeptTrans DEF Restarted, TimerDue
<1>3. CASE TimerTask
  <2>1. Kept(AfterApi, AfterApi)
    BY <1>1 DEF Kept
  <2> QED
    BY <1>2, <1>3, <2>1 DEF TimerTask
<1>4. CASE TimerPacket
  <2>1. Kept(AfterApi, MA_ProcessRecvPacket(AfterApi))
    BY <1>1, <1>4, ProcessRecvPacketKept DEF TimerPacket, PacketReady
  <2> QED
    BY <1>2, <1>4, <2>1 DEF TimerPacket, BiosTurn
<1>5. CASE TimerIdle
  <2>1. Kept(AfterApi, MA_IntrTimer_SIOIdle(AfterApi))
    BY <1>1, <1>5, SIOIdleKept DEF TimerIdle, BiosTurn, PacketReady
  <2> QED
    BY <1>2, <1>5, <2>1 DEF TimerIdle, BiosTurn
<1>6. CASE TimerWait
  <2>1. Kept(AfterApi, MA_IntrTimer_SIOWaitTime(AfterApi))
    BY <1>1, <1>6, SIOWaitTimeKept DEF TimerWait, BiosTurn, PacketReady
  <2> QED
    BY <1>2, <1>6, <2>1 DEF TimerWait, BiosTurn
<1>7. Kept(AfterApi, MA_IntrTimer_SIOSend(AfterApi))
      /\ Kept(AfterApi, MA_IntrTimer_SIORecv(AfterApi))
  <2>1. GoodMa(AfterApi)
    BY <1>1 DEF Sound
  <2> QED
    BY <1>1, <2>1, SendingSame, SIOSendGood, SIORecvGood, SameKept
<1>8. CASE TimerSend
  BY <1>2, <1>7, <1>8 DEF TimerSend, BiosTurn
<1>9. CASE TimerRecv
  BY <1>2, <1>7, <1>9 DEF TimerRecv, BiosTurn
<1> QED
  BY <1>3, <1>4, <1>5, <1>6, <1>8, <1>9 DEF Timer

----------------------------------------------------------------------------
(* The serial interrupt while a request is sent.                           *)

\* An exchange is under way and its task, if it has one, is waited for.
Underway(m) ==
  "BIOS_BUSY" \in m.condition /\ (m.task # "NONE" => "APIWAIT" \in m.condition)

LEMMA TransferUnderway ==
  ASSUME NEW m, Sound(m), m.intrMode \in {"SEND", "RECV"}
  PROVE  /\ Underway(m) /\ "SIO_RECV_DONE" \notin m.status
         /\ Retry(m) => ~("SIO_RETRY" \in m.status /\ m.retryCount = 0)
         /\ m.intrMode = "RECV" => "SIO_RETRY" \notin m.status
  BY DEF Underway, Sound, Exchange, Calling, TaskAwaited, Stopping, Retry

LEMMA TimeoutKept ==
  ASSUME NEW m, Sound(m), Underway(m), "SIO_RECV_DONE" \notin m.status,
         Retry(m) => ~("SIO_RETRY" \in m.status /\ m.retryCount = 0),
         NEW n, n = MA_IntrSio_Timeout(m)
  PROVE  Kept(m, n)
<1>1. GoodMa(m) /\ GoodMa(n)
  BY TimeoutGood DEF Sound
<1>2. IF TimedOut(m)
      THEN /\ Waits(m, n)
           /\ n.status = IF "BIOS_RESTART" \in m.status
                         THEN (m.status \cup {"BIOS_STOP"}) \ {"BIOS_RESTART"}
                         ELSE m.status \cup {"BIOS_RESTART", "SIO_SEND_TIMEOUT"}
      ELSE Same(m, n)
  BY <1>1, TimeoutEffect
<1>3. CASE ~TimedOut(m)
  BY <1>1, <1>2, <1>3, SameKept
<1>4. CASE TimedOut(m)
  <2>1. /\ Waits(m, n)
        /\ \A f \in StatusFlags \ {"BIOS_STOP", "BIOS_RESTART", "SIO_SEND_TIMEOUT"} :
             f \in n.status <=> f \in m.status
        /\ "BIOS_RESTART" \in n.status \/ "BIOS_STOP" \in n.status
    BY <1>2, <1>4
  <2>2. \A f \in {"CONNECTED", "SIO_RETRY", "SIO_RECV_DONE", "CONN_PTP", "PTP_SEND",
                  "PTP_SEND_DONE"} : f \in n.status <=> f \in m.status
    BY <2>1 DEF StatusFlags
  <2> USE DEF Waits, SameCall, SameLine
  <2>3. Exchange(n) /\ (Retry(m) => Retry(n))
    BY <2>1, <2>2 DEF Exchange, Retry
  <2>4. TaskAwaited(n) /\ QuietOffline(n) /\ LostInSession(n) /\ OpeningOffline(n)
    BY <2>1, <2>2 DEF Underway, Sound, Calling, TaskAwaited, QuietOffline,
       LostInSession, OpeningOffline, InSession
  <2>5. StartOpens(n) /\ SendAwaited(n) /\ UnreadKeepAlive(n)
    BY <2>1, <2>2 DEF Underway, Sound, Calling, StartOpens, Live, SendAwaited,
       UnreadKeepAlive
  <2>6. Quiet(n)
    BY <1>2, <1>4 DEF Underway, Sound, Quiet, Retreat, Checked
  <2> QED
    BY <1>1, <2>3, <2>4, <2>5, <2>6 DEF Kept, Sound, Calling
<1> QED
  BY <1>3, <1>4

LEMMA AcceptFooterKept ==
  ASSUME NEW m, Sound(m), m.intrMode = "SEND", NEW n, n = AcceptFooter(m)
  PROVE  Kept(m, n)
<1> DEFINE a == AwaitReply(m)
<1>1. GoodMa(m)
  BY DEF Sound
<1>2. GoodMa(a)
  BY <1>1, AwaitReplyGood
<1>3. /\ a.condition = m.condition /\ a.status = m.status \ {"SIO_RETRY"}
      /\ a.intrMode = "RECV" /\ a.recvState = "START" /\ a.readCnt = 0
      /\ a.sendCmd = m.sendCmd /\ a.retryCount = m.retryCount /\ SameCall(m, a)
      /\ a.negaResCmd = None
  BY <1>1, AwaitReplyEffect
<1> HIDE DEF a
<1>4. n = [a EXCEPT !.counter = 0]
  BY DEF AcceptFooter, a
<1>5. GoodMa(n)
  BY <1>2, <1>4, SMT DEF GoodMa, CallOver, BodyPending, MaType
<1>6. Same(a, n)
  BY <1>2, <1>4, SMT DEF GoodMa, MaType, MaFields, Same, SameFlags, SameLine, SameCall
<1> USE DEF SameCall
<1>7. Exchange(a) /\ (Retry(m) => Retry(a))
  BY <1>3 DEF Sound, Exchange, Past, Retry
<1>8. TaskAwaited(a) /\ QuietOffline(a) /\ LostInSession(a) /\ OpeningOffline(a)
  BY <1>3, TransferUnderway DEF Underway, Sound, Calling, TaskAwaited, QuietOffline,
     LostInSession, OpeningOffline, InSession
<1>9. StartOpens(a) /\ SendAwaited(a) /\ UnreadKeepAlive(a)
  BY <1>3 DEF Sound, Calling, StartOpens, Live, InSession, SendAwaited, UnreadKeepAlive
<1>12. Quiet(a)
  BY <1>3 DEF Sound, Quiet, Retreat, Checked, None
<1>10. Kept(m, a)
  BY <1>2, <1>7, <1>8, <1>9, <1>12 DEF Kept, Sound, Calling
<1>11. Kept(a, n)
  BY <1>5, <1>6, <1>10, SameKept DEF Kept
<1> QED
  BY <1>10, <1>11, KeptTrans

LEMMA FooterRetryKept ==
  ASSUME NEW m, Sound(m), m.intrMode = "SEND", NEW tries \in Nat, NEW giveUp,
         GoodMa(giveUp), Fails(m, giveUp), "CONNECTED" \notin giveUp.status,
         NEW n, n = FooterRetry(m, tries, giveUp)
  PROVE  Sound(n) /\ (tries = 2 => Kept(m, n))
<1>1. GoodMa(m) /\ GoodMa(n)
  BY FooterRetryGood DEF Sound
<1>2. \/ Fails(m, n) /\ "CONNECTED" \notin n.status
      \/ /\ n.condition = m.condition /\ n.status = m.status \cup {"SIO_RETRY"}
         /\ n.intrMode = "WAIT" /\ SameLine(m, n) /\ SameCall(m, n)
         /\ IF "SIO_RETRY" \in m.status
            THEN n.retryCount = (m.retryCount + U16 - 1) % U16 /\ n.retryCount # 0
            ELSE n.retryCount = tries
  BY <1>1, FooterRetryEffect
<1>3. Underway(m) /\ "SIO_RECV_DONE" \notin m.status
      /\ (Retry(m) => ~("SIO_RETRY" \in m.status /\ m.retryCount = 0))
  BY TransferUnderway
<1>4. CASE Fails(m, n) /\ "CONNECTED" \notin n.status
  BY <1>1, <1>3, <1>4, FailsKept DEF Kept
<1>5. CASE /\ n.condition = m.condition /\ n.status = m.status \cup {"SIO_RETRY"}
           /\ n.intrMode = "WAIT" /\ SameLine(m, n) /\ SameCall(m, n)
           /\ IF "SIO_RETRY" \in m.status
              THEN n.retryCount = (m.retryCount + U16 - 1) % U16 /\ n.retryCount # 0
              ELSE n.retryCount = tries
  <2> USE DEF SameLine, SameCall
  <2>1. Exchange(n)
    BY <1>3, <1>5 DEF Sound, Exchange
  <2>2. TaskAwaited(n) /\ QuietOffline(n) /\ LostInSession(n) /\ OpeningOffline(n)
    BY <1>3, <1>5 DEF Underway, Sound, Calling, TaskAwaited, QuietOffline,
       LostInSession, OpeningOffline, InSession
  <2>3. StartOpens(n) /\ SendAwaited(n) /\ UnreadKeepAlive(n)
    BY <1>5 DEF Sound, Calling, StartOpens, Live, InSession, SendAwaited,
       UnreadKeepAlive
  <2>4. ASSUME Retry(m), tries = 2 PROVE Retry(n)
    <3>1. n.retryCount \in {1, 2}
      <4>1. CASE "SIO_RETRY" \in m.status
        <5>1. m.retryCount \in {1, 2}
          BY <1>1, <1>3, <2>4, <4>1 DEF Retry, GoodMa, MaType
        <5>2. (m.retryCount + U16 - 1) % U16 = m.retryCount - 1
          <6>1. ASSUME NEW k \in {1, 2} PROVE (k + U16 - 1) % U16 = k - 1
            BY <6>1, MaBiosAssumption
          <6> QED
            BY <5>1, <6>1
        <5> QED
          BY <1>5, <4>1, <5>1, <5>2
      <4>2. CASE "SIO_RETRY" \notin m.status
        BY <1>5, <2>4, <4>2
      <4> QED
        BY <4>1, <4>2
    <3> QED
      BY <3>1 DEF Retry
  <2>5. Quiet(n)
    BY <1>5 DEF Sound, Quiet, Retreat, Checked
  <2> QED
    BY <1>1, <2>1, <2>2, <2>3, <2>4, <2>5 DEF Kept, Sound, Calling
<1> QED
  BY <1>2, <1>4, <1>5

\* A footer is accepted, refused, or ends the session.  Only an internal error
\* of the adapter is answered by more than two retries.
LEMMA SendFooterKept ==
  ASSUME NEW m, Sound(m), m.intrMode = "SEND", NEW footer, NEW n, n = SendFooter(m, footer)
  PROVE  Sound(n) /\ (footer # "internal" => Kept(m, n))
<1>1. GoodMa(m) /\ "SIO_RECV_DONE" \notin m.status
  BY TransferUnderway DEF Sound
<1>2. ASSUME NEW error \in Errors
      PROVE  /\ GoodMa(DropSession(m, error)) /\ Fails(m, DropSession(m, error))
             /\ "CONNECTED" \notin DropSession(m, error).status
  BY <1>1, DropSessionGood, DropSessionFails
<1>3. /\ GoodMa(MA_Bios_disconnect(m)) /\ Fails(m, MA_Bios_disconnect(m))
      /\ "CONNECTED" \notin MA_Bios_disconnect(m).status
  BY <1>1, DisconnectGood, DisconnectFails
<1>4. {"MA_NOT_FOUND", "PROT_INTERNAL", "PROT_ILLEGAL_CMD", "PROT_CHECKSUM"}
        \subseteq Errors /\ 2 \in Nat /\ U16 - 2 \in Nat
  BY MaBiosAssumption DEF Errors
<1>5. Kept(m, DropSession(m, "MA_NOT_FOUND"))
  <2> DEFINE d == DropSession(m, "MA_NOT_FOUND")
  <2>1. GoodMa(d) /\ Fails(m, d) /\ "CONNECTED" \notin d.status
    BY <1>2, <1>4
  <2> HIDE DEF d
  <2>2. Kept(m, d)
    BY <1>1, <2>1, FailsKept
  <2> QED
    BY <2>2 DEF d
<1>6. Kept(m, AcceptFooter(m))
  BY AcceptFooterKept
<1>7. ASSUME NEW tries \in Nat, NEW giveUp, GoodMa(giveUp), Fails(m, giveUp),
             "CONNECTED" \notin giveUp.status
      PROVE  /\ Sound(FooterRetry(m, tries, giveUp))
             /\ tries = 2 => Kept(m, FooterRetry(m, tries, giveUp))
  BY <1>7, FooterRetryKept
<1>8. \A error \in Errors :
        /\ Kept(m, FooterRetry(m, 2, DropSession(m, error)))
        /\ Sound(FooterRetry(m, U16 - 2, DropSession(m, error)))
  BY <1>2, <1>4, <1>7
<1>9. Kept(m, FooterRetry(m, 2, MA_Bios_disconnect(m)))
  BY <1>3, <1>4, <1>7
<1>10. /\ Sound(RefuseFooter(m, footer))
       /\ footer # "internal" => Kept(m, RefuseFooter(m, footer))
  BY <1>4, <1>8, <1>9 DEF RefuseFooter, Kept
<1> QED
  BY <1>5, <1>6, <1>10 DEF SendFooter, Kept

LEMMA IntrSioSendKept ==
  ASSUME NEW m, Sound(m), m.intrMode = "SEND", NEW footer
  PROVE  /\ Sound(MA_IntrSio_Send(m, footer))
         /\ footer # "internal" => Kept(m, MA_IntrSio_Send(m, footer))
<1> DEFINE t == MA_IntrSio_Timeout(m)
<1>1. Kept(m, t) /\ Kept(m, m)
  BY TransferUnderway, TimeoutKept DEF Kept
<1>2. ASSUME FooterDue(m)
      PROVE  /\ Sound(SendFooter(t, footer))
             /\ footer # "internal" => Kept(m, SendFooter(t, footer))
  <2>1. t.intrMode = "SEND"
    BY <1>2, TimeoutEffect DEF FooterDue, Same, Sound
  <2> HIDE DEF t
  <2>2. Sound(SendFooter(t, footer)) /\ (footer # "internal" => Kept(t, SendFooter(t, footer)))
    BY <1>1, <2>1, SendFooterKept DEF Kept
  <2> QED
    BY <1>1, <2>2, KeptTrans
<1> QED
  BY <1>1, <1>2 DEF MA_IntrSio_Send, Kept

LEMMA HandlerEndsKept == ASSUME NEW m, Sound(m) PROVE Kept(m, HandlerEnds(m))
<1> DEFINE n == HandlerEnds(m)
<1>1. GoodMa(m) /\ GoodMa(n)
  BY HandlerEndsGood DEF Sound
<1>2. Same(m, n)
  BY <1>1, SMT DEF GoodMa, MaType, MaFields, HandlerEnds, Same, SameFlags, SameLine,
     SameCall
<1> HIDE DEF n
<1> QED
  BY <1>1, <1>2, SameKept DEF n

----------------------------------------------------------------------------
(* The serial interrupt while a reply is received.                         *)

Receiving(m) == Underway(m) /\ "SIO_RETRY" \notin m.status

\* What the rest of a WORD transfer is interpreted in: the reply is received,
\* its request has been given up, or it is complete.
Wire(m) ==
  /\ m.sioMode = "WORD" /\ Receiving(m)
  /\ \/ m.intrMode = "RECV"
     \/ /\ m.intrMode = "WAIT" /\ "SIO_RECV_DONE" \notin m.status
        /\ \/ m.recvState = "START" /\ m.readCnt = 0
           \/ m.recvState = "DATA" /\ m.counter > TimeoutCounter[m.timeout]
     \/ /\ m.intrMode = "IDLE" /\ "SIO_RECV_DONE" \in m.status
        /\ m.recvState = "FOOTER" /\ m.readCnt >= 4

\* The next byte may be interpreted.
OnWire(m, n) == m.sioMode = "WORD" => "ERROR" \in n.condition \/ Wire(n)

Read(m, n) == Kept(m, n) /\ OnWire(m, n)

LEMMA WireReceiving ==
  ASSUME NEW m, Sound(m), NEW byte,
         (byte = 0 /\ m.intrMode = "RECV") \/ (byte # 0 /\ Wire(m))
  PROVE  Receiving(m)
  BY TransferUnderway DEF Receiving, Wire

\* The reply goes on.
LEMMA ReceivingRead ==
  ASSUME NEW m, Sound(m), m.intrMode = "RECV", NEW n, GoodMa(n), SameFlags(m, n),
         n.intrMode = "RECV", n.retryCount = m.retryCount, n.sioMode = m.sioMode,
         n.sendCmd = m.sendCmd, SameCall(m, n), n.negaResCmd \in {m.negaResCmd, None},
         Past(n) => n.recvCmd \in RepliesTo(n.sendCmd)
  PROVE  Read(m, n)
<1> USE DEF SameFlags, SameCall
<1>1. Receiving(m)
  BY TransferUnderway DEF Receiving
<1>2. Exchange(n) /\ (Retry(m) => Retry(n))
  BY DEF Sound, Exchange, Retry
<1>3. TaskAwaited(n) /\ QuietOffline(n) /\ LostInSession(n) /\ OpeningOffline(n)
  BY <1>1 DEF Receiving, Underway, Sound, Calling, TaskAwaited, QuietOffline,
     LostInSession, OpeningOffline, InSession
<1>4. StartOpens(n) /\ SendAwaited(n) /\ UnreadKeepAlive(n)
  BY DEF Sound, Calling, StartOpens, Live, InSession, SendAwaited, UnreadKeepAlive
<1>5. Receiving(n)
  BY <1>1 DEF Receiving, Underway
<1>6. Quiet(n)
  BY DEF Sound, Quiet, Retreat, Checked, None
<1> QED
  BY <1>2, <1>3, <1>4, <1>5, <1>6 DEF Kept, Sound, Calling, Read, OnWire, Wire

\* Nothing of an adapter is found on the line.
LEMMA NotFoundRead ==
  ASSUME NEW m, Sound(m), m.intrMode = "RECV", "SIO_RECV_DONE" \notin m.status, NEW n,
         n = [MA_SetError(m, "MA_NOT_FOUND") EXCEPT !.rubbish = 0]
  PROVE  Read(m, n)
<1> DEFINE e == MA_SetError(m, "MA_NOT_FOUND")
<1>1. GoodMa(m) /\ GoodMa(n)
  BY NotFoundGood DEF Sound
<1>2. GoodMa(e)
  BY <1>1, SetErrorGood DEF Errors
<1>3. Fails(m, e) /\ "CONNECTED" \notin e.status
  BY <1>1, SetErrorFails, SetErrorEffect
<1> HIDE DEF e
<1>4. n = [e EXCEPT !.rubbish = 0]
  BY DEF e
<1>5. Same(e, n) /\ n.condition = e.condition
  BY <1>2, <1>4, SMT DEF GoodMa, MaType, MaFields, Same, SameFlags, SameLine, SameCall
<1>6. Kept(m, e)
  BY <1>2, <1>3, FailsKept
<1>7. Kept(e, n)
  BY <1>1, <1>5, <1>6, SameKept DEF Kept
<1>8. Kept(m, n)
  BY <1>6, <1>7, KeptTrans
<1> QED
  BY <1>3, <1>5, <1>8 DEF Read, OnWire, Fails

\* The request is given up, or nothing has changed.
LEMMA TransferTimes ==
  ASSUME NEW m, GoodMa(m), "SIO_RECV_DONE" \notin m.status, "SIO_RETRY" \notin m.status,
         NEW n, n = MA_IntrSio_Timeout(m)
  PROVE  /\ n.counter = m.counter + 1 /\ n.timeout = m.timeout
         /\ TimedOut(m) => /\ Waits(m, n) /\ "SIO_RECV_DONE" \notin n.status
                           /\ "SIO_RETRY" \notin n.status
         /\ ~TimedOut(m) => Same(m, n)
<1>1. /\ n.counter = m.counter + 1 /\ n.timeout = m.timeout
      /\ IF TimedOut(m)
         THEN /\ Waits(m, n)
              /\ n.status = IF "BIOS_RESTART" \in m.status
                            THEN (m.status \cup {"BIOS_STOP"}) \ {"BIOS_RESTART"}
                            ELSE m.status \cup {"BIOS_RESTART", "SIO_SEND_TIMEOUT"}
         ELSE Same(m, n)
  BY TimeoutEffect
<1> QED
  BY <1>1

LEMMA RecvStart0Read ==
  ASSUME NEW m, Sound(m), m.recvState = "START", m.readCnt = 0, NEW byte, NEW what,
         (byte = 0 /\ m.intrMode = "RECV") \/ (byte # 0 /\ Wire(m))
  PROVE  Read(m, RecvStart0(m, byte, what))
<1> DEFINE t == MA_IntrSio_Timeout(m)
<1>1. Receiving(m) /\ "SIO_RECV_DONE" \notin m.status
  BY WireReceiving, TransferUnderway DEF Wire
<1>2. GoodMa(m) /\ GoodMa(t) /\ t.recvState = "START" /\ t.readCnt = 0
      /\ t.rubbish = m.rubbish
  BY TimeoutGood DEF Sound
<1>3. CASE byte # 0
  BY <1>3 DEF RecvStart0, Read, OnWire, Kept
<1>4. Kept(m, t)
  BY <1>1, TimeoutKept DEF Receiving
<1>5. /\ TimedOut(m) => /\ Waits(m, t) /\ "SIO_RECV_DONE" \notin t.status
                        /\ "SIO_RETRY" \notin t.status
      /\ ~TimedOut(m) => Same(m, t)
  BY <1>1, <1>2, TransferTimes DEF Receiving
<1> HIDE DEF t
<1>6. CASE byte = 0 /\ TimedOut(m)
  <2>1. OnWire(m, t)
    BY <1>1, <1>2, <1>5, <1>6 DEF OnWire, Wire, Receiving, Underway, Waits, SameLine,
       SameCall
  <2> QED
    BY <1>4, <1>6, <2>1 DEF RecvStart0, Read, t
<1>7. CASE byte = 0 /\ ~TimedOut(m)
  <2>1. Same(m, t) /\ Sound(t) /\ t.intrMode = "RECV" /\ "SIO_RECV_DONE" \notin t.status
    BY <1>1, <1>4, <1>5, <1>7 DEF Same, SameFlags, Kept
  <2>2. ASSUME NEW n, Read(t, n) PROVE Read(m, n)
    BY <1>4, <2>1, <2>2, KeptTrans DEF Read, OnWire, Same, SameLine
  <2>3. Read(t, [MA_SetError(t, "MA_NOT_FOUND") EXCEPT !.rubbish = 0])
    BY <2>1, NotFoundRead
  <2>4. ASSUME NEW n, n \in {t, [t EXCEPT !.readCnt = 1], [t EXCEPT !.rubbish = @ + 1]}
        PROVE  Read(t, n)
    <3>1. GoodMa(n)
      <4>1. GoodMa([t EXCEPT !.readCnt = 1]) /\ GoodMa([t EXCEPT !.rubbish = @ + 1])
        BY <1>2, SMT DEF GoodMa, CallOver, BodyPending, MaType
      <4> QED
        BY <1>2, <2>4, <4>1
    <3>2. /\ n.status = t.status /\ n.condition = t.condition /\ n.intrMode = t.intrMode
          /\ n.retryCount = t.retryCount /\ n.sioMode = t.sioMode
          /\ n.sendCmd = t.sendCmd /\ SameCall(t, n) /\ n.recvState = t.recvState
          /\ n.negaResCmd = t.negaResCmd
      BY <1>2, <2>4, SMT DEF GoodMa, MaType, MaFields, SameCall
    <3>3. SameFlags(t, n) /\ ~Past(n)
      BY <1>2, <3>2 DEF SameFlags, Past
    <3> QED
      BY <2>1, <3>1, <3>2, <3>3, ReceivingRead
  <2>5. Read(t, RecvStart0(m, byte, what))
    BY <1>7, <2>3, <2>4 DEF RecvStart0, t
  <2> QED
    BY <2>2, <2>5
<1> QED
  BY <1>3, <1>6, <1>7

LEMMA RecvStart1Read ==
  ASSUME NEW m, Sound(m), m.intrMode = "RECV", NEW what PROVE Read(m, RecvStart1(m, what))
<1> DEFINE h == [m EXCEPT !.recvState = "HEADER", !.readCnt = 0, !.rubbish = 0]
<1>1. GoodMa(m) /\ "SIO_RECV_DONE" \notin m.status
  BY TransferUnderway DEF Sound
<1>2. GoodMa(h)
  BY <1>1, SMT DEF GoodMa, CallOver, BodyPending, MaType, RecvStates
<1>3. /\ h.status = m.status /\ h.condition = m.condition /\ h.intrMode = m.intrMode
      /\ h.retryCount = m.retryCount /\ h.sioMode = m.sioMode
      /\ h.sendCmd = m.sendCmd /\ SameCall(m, h) /\ h.recvState = "HEADER"
      /\ h.readCnt = 0 /\ h.negaResCmd = m.negaResCmd
  BY <1>1, SMT DEF GoodMa, MaType, MaFields, SameCall
<1> HIDE DEF h
<1>4. SameFlags(m, h) /\ ~Past(h)
  BY <1>3 DEF SameFlags, Past
<1>5. Read(m, h)
  BY <1>2, <1>3, <1>4, ReceivingRead
<1>6. Read(m, [MA_SetError(m, "MA_NOT_FOUND") EXCEPT !.rubbish = 0])
  BY <1>1, NotFoundRead
<1> QED
  BY <1>5, <1>6 DEF RecvStart1, h

LEMMA RecvHeaderRead ==
  ASSUME NEW m, Sound(m), m.intrMode = "RECV", m.recvState = "HEADER", NEW what,
         m.readCnt = 0 => what \in RepliesTo(m.sendCmd),
         NEW n, GoodMa(n), n = RecvHeader(m, what)
  PROVE  Read(m, n)
<1> DEFINE size == BodySize(m.recvCmd, what)
           pad == Padded(size, m.sioMode)
           next == IF size = 0 THEN "CHECKSUM" ELSE "DATA"
<1>1. GoodMa(m)
  BY DEF Sound
<1>2. n = CASE m.readCnt = 0 -> [m EXCEPT !.recvCmd = what, !.readCnt = 1]
            [] m.readCnt \in {1, 2} -> [m EXCEPT !.readCnt = @ + 1]
            [] OTHER -> [m EXCEPT !.answer = what, !.recvSize = size,
                                  !.recvState = next, !.readCnt = pad]
  BY DEF RecvHeader
<1> HIDE DEF size, pad, next
<1>3. /\ n.status = m.status /\ n.condition = m.condition /\ n.intrMode = m.intrMode
      /\ n.retryCount = m.retryCount /\ n.sioMode = m.sioMode
      /\ n.sendCmd = m.sendCmd /\ SameCall(m, n) /\ n.negaResCmd = m.negaResCmd
      /\ n.recvCmd = IF m.readCnt = 0 THEN what ELSE m.recvCmd
  BY <1>1, <1>2, SMT DEF GoodMa, MaType, MaFields, SameCall
<1>4. n.recvCmd \in RepliesTo(n.sendCmd)
  BY <1>3 DEF Sound, Exchange, Past
<1>5. SameFlags(m, n)
  BY <1>3 DEF SameFlags
<1> QED
  BY <1>3, <1>4, <1>5, ReceivingRead

LEMMA RecvDataRead ==
  ASSUME NEW m, Sound(m), m.recvState = "DATA", NEW byte,
         (byte = 0 /\ m.intrMode = "RECV") \/ (byte # 0 /\ Wire(m))
  PROVE  Read(m, RecvData(m))
<1> DEFINE t == MA_IntrSio_Timeout(m)
           next == IF m.readCnt = 1 THEN "CHECKSUM" ELSE "DATA"
           n == [t EXCEPT !.readCnt = @ - 1, !.recvState = next]
<1>1. Receiving(m) /\ "SIO_RECV_DONE" \notin m.status
  BY WireReceiving, TransferUnderway DEF Wire
<1>2. GoodMa(m) /\ GoodMa(t) /\ t.recvState = "DATA"
  BY TimeoutGood DEF Sound
<1>3. Kept(m, t)
  BY <1>1, TimeoutKept DEF Receiving
<1>4. /\ t.counter = m.counter + 1 /\ t.timeout = m.timeout
      /\ TimedOut(m) => /\ Waits(m, t) /\ "SIO_RECV_DONE" \notin t.status
                        /\ "SIO_RETRY" \notin t.status
      /\ ~TimedOut(m) => Same(m, t)
  BY <1>1, <1>2, TransferTimes DEF Receiving
<1> HIDE DEF t
<1>5. CASE TimedOut(m)
  <2>1. t.counter > TimeoutCounter[t.timeout]
    BY <1>4, <1>5 DEF TimedOut
  <2>2. OnWire(m, t)
    BY <1>1, <1>2, <1>4, <1>5, <2>1 DEF OnWire, Wire, Receiving, Underway, Waits,
       SameLine, SameCall
  <2> QED
    BY <1>3, <1>5, <2>2 DEF RecvData, Read, t
<1>6. CASE ~TimedOut(m)
  <2>1. m.intrMode = "RECV"
    <3>1. m.counter \in Nat /\ TimeoutCounter[m.timeout] \in Nat
      BY <1>2, MaBiosAssumption DEF GoodMa, MaType
    <3>2. ~(m.counter > TimeoutCounter[m.timeout])
      BY <1>6, <3>1 DEF TimedOut
    <3> QED
      BY <3>2 DEF Wire
  <2>2. Same(m, t) /\ Sound(t) /\ t.intrMode = "RECV"
    BY <1>3, <1>4, <1>6, <2>1 DEF Same, Kept
  <2>3. RecvData(m) = n
    BY <1>6 DEF RecvData, t
  <2>4. GoodMa(n)
    BY <1>2, <2>3, RecvDataGood
  <2>5. /\ n.status = t.status /\ n.condition = t.condition /\ n.intrMode = t.intrMode
        /\ n.retryCount = t.retryCount /\ n.sioMode = t.sioMode
        /\ n.sendCmd = t.sendCmd /\ SameCall(t, n) /\ n.recvCmd = t.recvCmd
        /\ n.negaResCmd = t.negaResCmd
    BY <1>2, SMT DEF GoodMa, MaType, MaFields, SameCall
  <2> HIDE DEF n
  <2>6. SameFlags(t, n) /\ n.recvCmd \in RepliesTo(n.sendCmd)
    BY <1>2, <2>2, <2>5 DEF SameFlags, Sound, Exchange, Past
  <2>7. Read(t, n)
    BY <2>2, <2>4, <2>5, <2>6, ReceivingRead
  <2>8. Read(m, n)
    BY <1>3, <2>2, <2>7, KeptTrans DEF Read, OnWire, Same, SameLine
  <2> QED
    BY <2>3, <2>8
<1> QED
  BY <1>5, <1>6

LEMMA RecvChecksumRead ==
  ASSUME NEW m, Sound(m), m.intrMode = "RECV", m.recvState = "CHECKSUM", NEW what
  PROVE  Read(m, RecvChecksum(m, what))
<1> DEFINE s == IF what = "bad" /\ "BIOS_RESTART" \notin m.status
                THEN m.status \cup {"SIO_ERR_CHECKSUM"} ELSE m.status
           n == RecvChecksum(m, what)
<1>1. GoodMa(m) /\ GoodMa(n)
  BY RecvChecksumGood DEF Sound
<1>2. n = IF m.readCnt = 0 THEN [m EXCEPT !.readCnt = 1]
          ELSE [m EXCEPT !.recvState = "FOOTER", !.readCnt = 0, !.status = s]
  BY DEF RecvChecksum
<1>3. \A f : f # "SIO_ERR_CHECKSUM" => (f \in s <=> f \in m.status)
  OBVIOUS
<1> HIDE DEF s, n
<1>4. /\ n.status \in {m.status, s} /\ n.condition = m.condition
      /\ n.intrMode = m.intrMode /\ n.retryCount = m.retryCount
      /\ n.sioMode = m.sioMode /\ n.sendCmd = m.sendCmd /\ SameCall(m, n)
      /\ n.recvCmd = m.recvCmd /\ n.negaResCmd = m.negaResCmd
  BY <1>1, <1>2, SMT DEF GoodMa, MaType, MaFields, SameCall
<1>5. SameFlags(m, n)
  BY <1>3, <1>4 DEF SameFlags
<1>6. n.recvCmd \in RepliesTo(n.sendCmd)
  BY <1>4 DEF Sound, Exchange, Past
<1>7. Read(m, n)
  BY <1>1, <1>4, <1>5, <1>6, ReceivingRead
<1> QED
  BY <1>7 DEF n

\* The last byte of a reply hands it on, or has it sent again.
LEMMA RecvFooterRead ==
  ASSUME NEW m, Sound(m), m.recvState = "FOOTER", NEW byte,
         (byte = 0 /\ m.intrMode = "RECV") \/ (byte # 0 /\ Wire(m)),
         NEW n, n = RecvFooter(m)
  PROVE  Read(m, n)
<1>1. GoodMa(m) /\ GoodMa(n) /\ Receiving(m) /\ m.readCnt \in Nat
  BY RecvFooterGood, WireReceiving DEF Sound, GoodMa, MaType
<1>2. CASE m.readCnt + 1 # FooterSize(m.sioMode)
  <2>1. n = [m EXCEPT !.readCnt = @ + 1]
    BY <1>2 DEF RecvFooter
  <2>2. /\ n.status = m.status /\ n.condition = m.condition /\ n.intrMode = m.intrMode
        /\ n.retryCount = m.retryCount /\ n.sioMode = m.sioMode
        /\ n.sendCmd = m.sendCmd /\ SameCall(m, n) /\ n.recvCmd = m.recvCmd
        /\ n.recvState = m.recvState /\ n.readCnt = m.readCnt + 1
        /\ n.negaResCmd = m.negaResCmd
    BY <1>1, <2>1, SMT DEF GoodMa, MaType, MaFields, SameCall
  <2>3. SameFlags(m, n)
    BY <2>2 DEF SameFlags
  <2>4. CASE m.intrMode = "RECV"
    <3>1. n.recvCmd \in RepliesTo(n.sendCmd)
      BY <2>2, <2>4 DEF Sound, Exchange, Past
    <3> QED
      BY <1>1, <2>2, <2>3, <2>4, <3>1, ReceivingRead
  <2>5. CASE m.intrMode # "RECV"
    <3>1. Wire(m) /\ m.intrMode = "IDLE" /\ "SIO_RECV_DONE" \in m.status
          /\ m.readCnt >= 4
      BY <2>5 DEF Wire
    <3> USE DEF SameCall, SameFlags
    <3>2. Exchange(n) /\ (Retry(m) => Retry(n))
      BY <2>2, <3>1 DEF Sound, Exchange, Retry
    <3>3. TaskAwaited(n) /\ QuietOffline(n) /\ LostInSession(n) /\ OpeningOffline(n)
      BY <1>1, <2>2 DEF Receiving, Underway, Sound, Calling, TaskAwaited, QuietOffline,
         LostInSession, OpeningOffline, InSession
    <3>4. StartOpens(n) /\ SendAwaited(n) /\ UnreadKeepAlive(n)
      BY <2>2 DEF Sound, Calling, StartOpens, Live, InSession, SendAwaited,
         UnreadKeepAlive
    <3>5. Wire(n)
      BY <1>1, <2>2, <3>1 DEF Wire, Receiving, Underway
    <3>6. Quiet(n)
      BY <2>2 DEF Sound, Quiet, Retreat, Checked
    <3> QED
      BY <1>1, <3>2, <3>3, <3>4, <3>5, <3>6 DEF Kept, Sound, Calling, Read, OnWire
  <2> QED
    BY <2>4, <2>5
<1>3. ASSUME m.readCnt + 1 = FooterSize(m.sioMode)
      PROVE  m.intrMode = "RECV" /\ m.recvCmd \in RepliesTo(m.sendCmd)
  <2>1. m.intrMode = "RECV"
    BY <1>1, <1>3 DEF Wire, FooterSize
  <2> QED
    BY <2>1 DEF Sound, Exchange, Past
<1>4. CASE m.readCnt + 1 = FooterSize(m.sioMode) /\ "SIO_ERR_CHECKSUM" \in m.status
  <2> DEFINE c == [m EXCEPT !.status = @ \ {"SIO_ERR_CHECKSUM"}]
  <2>1. n = AwaitReply(c)
    BY <1>4 DEF RecvFooter, MA_RecvRetry
  <2>2. GoodMa(c)
    BY <1>1, SMT DEF GoodMa, CallOver, BodyPending, MaType
  <2>3. /\ c.condition = m.condition /\ c.status = m.status \ {"SIO_ERR_CHECKSUM"}
        /\ c.sendCmd = m.sendCmd /\ c.retryCount = m.retryCount
        /\ c.sioMode = m.sioMode /\ SameCall(m, c)
    BY <1>1, SMT DEF GoodMa, MaType, MaFields, SameCall
  <2> HIDE DEF c
  <2>4. /\ n.condition = c.condition /\ n.status = c.status \ {"SIO_RETRY"}
        /\ n.intrMode = "RECV" /\ n.recvState = "START" /\ n.readCnt = 0
        /\ n.sendCmd = c.sendCmd /\ n.retryCount = c.retryCount
        /\ n.sioMode = c.sioMode /\ SameCall(c, n) /\ n.negaResCmd = None
    BY <2>1, <2>2, AwaitReplyEffect
  <2>5. SameFlags(m, n) /\ SameCall(m, n) /\ ~Past(n)
    BY <1>1, <2>3, <2>4 DEF SameFlags, SameCall, Past, Receiving
  <2> QED
    BY <1>1, <1>3, <1>4, <2>3, <2>4, <2>5, ReceivingRead
<1>5. CASE m.readCnt + 1 = FooterSize(m.sioMode) /\ "SIO_ERR_CHECKSUM" \notin m.status
  <2>1. n = [m EXCEPT !.readCnt = @ + 1, !.intrMode = "IDLE",
                      !.status = @ \cup {"SIO_RECV_DONE"}]
    BY <1>5 DEF RecvFooter
  <2>2. /\ n.status = m.status \cup {"SIO_RECV_DONE"} /\ n.condition = m.condition
        /\ n.intrMode = "IDLE" /\ n.retryCount = m.retryCount
        /\ n.sioMode = m.sioMode /\ n.sendCmd = m.sendCmd /\ SameCall(m, n)
        /\ n.recvCmd = m.recvCmd /\ n.recvState = "FOOTER"
        /\ n.readCnt = m.readCnt + 1 /\ n.negaResCmd = m.negaResCmd
    BY <1>1, <2>1, SMT DEF GoodMa, MaType, MaFields, SameCall
  <2> USE DEF SameCall
  <2>3. Exchange(n) /\ (Retry(m) => Retry(n))
    BY <1>1, <1>3, <1>5, <2>2 DEF Exchange, Retry, Receiving, Underway
  <2>4. TaskAwaited(n) /\ QuietOffline(n) /\ LostInSession(n) /\ OpeningOffline(n)
    BY <1>1, <2>2 DEF Receiving, Underway, Sound, Calling, TaskAwaited, QuietOffline,
       LostInSession, OpeningOffline, InSession
  <2>5. StartOpens(n) /\ SendAwaited(n) /\ UnreadKeepAlive(n)
    BY <1>3, <1>5, <2>2 DEF Sound, Calling, StartOpens, Live, InSession, SendAwaited,
       UnreadKeepAlive
  <2>6. OnWire(m, n)
    BY <1>1, <1>5, <2>2 DEF OnWire, Wire, Receiving, Underway, FooterSize
  <2>7. Quiet(n)
    BY <1>3, <1>5, <2>2 DEF Sound, Quiet, Retreat, Checked
  <2> QED
    BY <1>1, <2>3, <2>4, <2>5, <2>6, <2>7 DEF Kept, Sound, Calling, Read
<1> QED
  BY <1>2, <1>4, <1>5

\* A byte of a reply, and of the rest of its transfer.
LEMMA IntrSioRecvRead ==
  ASSUME NEW m, Sound(m), NEW byte, NEW what \in Received(m, byte),
         (byte = 0 /\ m.intrMode = "RECV") \/ (byte # 0 /\ Wire(m))
  PROVE  Read(m, MA_IntrSio_Recv(m, byte, what))
<1> DEFINE n == MA_IntrSio_Recv(m, byte, what)
<1>1. GoodMa(m) /\ GoodMa(n) /\ m.recvState \in RecvStates
  BY ReceivedType, IntrSioRecvGood DEF Sound, GoodMa, MaType
<1>2. CASE m.recvState = "START" /\ m.readCnt = 0
  BY <1>2, RecvStart0Read DEF MA_IntrSio_Recv
<1>3. CASE m.recvState = "START" /\ m.readCnt # 0
  <2>1. m.intrMode = "RECV"
    BY <1>3 DEF Wire
  <2> QED
    BY <1>3, <2>1, RecvStart1Read DEF MA_IntrSio_Recv
<1>4. CASE m.recvState = "HEADER"
  <2>1. m.intrMode = "RECV"
    BY <1>4 DEF Wire
  <2>2. m.readCnt = 0 => what \in RepliesTo(m.sendCmd)
    BY <1>4 DEF Received
  <2>3. n = RecvHeader(m, what)
    BY <1>4 DEF MA_IntrSio_Recv
  <2> HIDE DEF n
  <2>4. Read(m, n)
    BY <1>1, <1>4, <2>1, <2>2, <2>3, RecvHeaderRead
  <2> QED
    BY <2>4 DEF n
<1>5. CASE m.recvState = "DATA"
  BY <1>5, RecvDataRead DEF MA_IntrSio_Recv
<1>6. CASE m.recvState = "CHECKSUM"
  <2>1. m.intrMode = "RECV"
    BY <1>6 DEF Wire
  <2> QED
    BY <1>6, <2>1, RecvChecksumRead DEF MA_IntrSio_Recv
<1>7. CASE m.recvState = "FOOTER"
  BY <1>7, RecvFooterRead DEF MA_IntrSio_Recv
<1>8. CASE m.recvState = "IDLE"
  <2>1. Receiving(m) /\ m.intrMode = "RECV"
    BY <1>8, WireReceiving DEF Wire
  <2>2. n = m
    BY <1>8 DEF MA_IntrSio_Recv
  <2> QED
    BY <2>1, <2>2 DEF Read, OnWire, Wire, Kept
<1> QED
  BY <1>1, <1>2, <1>3, <1>4, <1>5, <1>6, <1>7, <1>8 DEF RecvStates

----------------------------------------------------------------------------
(* The calls of a game that makes no refused ones.                         *)

\* A call that is accepted.
Accepted(m) ==
  Sound(m) /\ m.task = "NONE" /\ {"ERROR", "APIWAIT"} \cap m.condition = {}

\* The state in which a call has set its task.
Begun(m, n, task, step) ==
  /\ n.task = task /\ n.taskStep = step /\ n.connMode = m.connMode
  /\ n.condition = (m.condition \ {"TCPCLOSED"}) \cup {"APIWAIT"}
  /\ n.status = m.status /\ n.intrMode = m.intrMode
  /\ n.retryCount = m.retryCount /\ SameLine(m, n)

LEMMA BegunKept ==
  ASSUME NEW m, Accepted(m), NEW n, GoodMa(n), NEW task, NEW step,
         Begun(m, n, task, step),
         \/ m.connMode = "OFFLINE" /\ task \in Opening /\ ~InSession(n) /\ step = 0
         \/ m.connMode # "OFFLINE" /\ (task = "OFFLINE" \/ (InSession(n) /\ step = 1))
  PROVE  Kept(m, n)
<1> USE DEF Begun, SameLine
<1>1. Exchange(n) /\ (Retry(m) => Retry(n))
  BY DEF Accepted, Sound, Exchange, Past, Retry
<1>2. TaskAwaited(n) /\ QuietOffline(n) /\ LostInSession(n) /\ OpeningOffline(n)
      /\ UnreadKeepAlive(n)
  BY DEF Accepted, TaskAwaited, QuietOffline, LostInSession, OpeningOffline, InSession,
     Opening, UnreadKeepAlive
<1>3. StartOpens(n) /\ SendAwaited(n)
  BY DEF Accepted, Sound, Calling, StartOpens, Live, SendAwaited
<1>4. Quiet(n)
  BY DEF Accepted, Sound, Quiet, Retreat, Checked, Opening
<1> QED
  BY <1>1, <1>2, <1>3, <1>4 DEF Kept, Sound, Calling

\* A call that opens a session runs its first step itself.
LEMMA StartTaskKept ==
  ASSUME NEW m, Accepted(m), m.connMode = "OFFLINE", NEW task \in Opening,
         task \in {"CONDITION", "CONDITION2"} => m.offline
  PROVE  Kept(m, StartTask(m, task))
<1> DEFINE e == MA_ApiPreExe(m)
           s == [e EXCEPT !.tm3 = FALSE]
           n == MA_TaskSet(s, task, 0)
<1>1. GoodMa(m) /\ "ERROR" \notin m.condition
  BY DEF Accepted, Sound
<1>2. GoodMa(e) /\ "ERROR" \notin e.condition
  BY <1>1, PreExeGood
<1>3. /\ e.condition = (m.condition \ {"TCPCLOSED"}) \cup {"APIWAIT"}
      /\ e.status = m.status /\ e.intrMode = m.intrMode
      /\ e.retryCount = m.retryCount /\ SameLine(m, e) /\ SameCall(m, e)
  BY <1>1, ApiPreExeEffect
<1> HIDE DEF e
<1>4. GoodMa(s)
  BY <1>2, SetTimerGood
<1>5. /\ s.condition = e.condition /\ s.status = e.status /\ s.intrMode = e.intrMode
      /\ s.retryCount = e.retryCount /\ SameLine(e, s) /\ SameCall(e, s)
  BY <1>2, SMT DEF GoodMa, MaType, MaFields, SameLine, SameCall
<1> HIDE DEF s
<1>6. GoodMa(n)
  <2>1. task \in Tasks /\ 0 \in 0..255 /\ "ERROR" \notin s.condition
    BY <1>2, <1>5 DEF Opening, Tasks
  <2> QED
    BY <1>4, <2>1, TaskSetGood
<1>7. /\ n.task = task /\ n.taskStep = 0 /\ n.connMode = s.connMode
      /\ n.offline = s.offline
      /\ n.condition = IF task = "NONE" THEN s.condition \ {"APIWAIT"} ELSE s.condition
      /\ n.status = s.status /\ n.intrMode = s.intrMode
      /\ n.retryCount = s.retryCount /\ SameLine(s, n)
  BY <1>4, TaskSetEffect
<1> HIDE DEF n
<1>8. Begun(m, n, task, 0) /\ n.offline = m.offline
  BY <1>3, <1>5, <1>7 DEF Begun, SameLine, SameCall, Opening
<1>9. ~InSession(n)
  BY <1>7, <1>8 DEF InSession
<1>10. Kept(m, n)
  BY <1>6, <1>8, <1>9, BegunKept
<1>11. Kept(n, MAAPI_Main(n))
  BY <1>10, MainKept DEF Kept
<1> QED
  BY <1>10, <1>11, KeptTrans DEF StartTask, n, s, e

LEMMA OpenSessionKept ==
  ASSUME NEW m, Sound(m), "APIWAIT" \notin m.condition,
         NEW task \in {"TELSERVER", "TEL", "RECEIVE", "EEPROM_READ"}, CallAllowed(m, task)
  PROVE  Kept(m, OpenSession(m, task, TRUE))
<1>1. Accepted(m) /\ m.connMode = "OFFLINE"
  BY DEF Accepted, CallAllowed, ApiValisStatusCheck, ValidIn
<1>2. Kept(m, StartTask(m, task))
  BY <1>1, StartTaskKept DEF Opening
<1> QED
  BY <1>2 DEF OpenSession

LEMMA ConditionKept ==
  ASSUME NEW m, Sound(m), "APIWAIT" \notin m.condition,
         NEW task \in {"CONDITION", "CONDITION2"}, CallAllowed(m, task)
  PROVE  Kept(m, MA_ConditionMain(m, task))
<1>1. Accepted(m) /\ GoodMa(m)
  BY DEF Accepted, CallAllowed, Sound
<1>2. ASSUME m.connMode = "OFFLINE"
      PROVE  Kept(m, StartTask([m EXCEPT !.offline = TRUE], task))
  <2> DEFINE o == [m EXCEPT !.offline = TRUE]
  <2>1. GoodMa(o)
    BY <1>1, SMT DEF GoodMa, CallOver, BodyPending, MaType
  <2>2. /\ o.condition = m.condition /\ o.status = m.status /\ o.intrMode = m.intrMode
        /\ o.retryCount = m.retryCount /\ o.connMode = m.connMode
        /\ o.task = m.task /\ o.taskStep = m.taskStep /\ SameLine(m, o)
    BY <1>1, SMT DEF GoodMa, MaType, MaFields, SameLine
  <2>3. o.offline
    BY <1>1, SMT DEF GoodMa, MaType, MaFields
  <2> HIDE DEF o
  <2> USE DEF SameLine
  <2>4. Exchange(o) /\ (Retry(m) => Retry(o))
    BY <1>1, <2>2 DEF Accepted, Sound, Exchange, Past, Retry
  <2>5. TaskAwaited(o) /\ QuietOffline(o) /\ LostInSession(o) /\ OpeningOffline(o)
        /\ UnreadKeepAlive(o)
    BY <1>1, <2>2 DEF Accepted, Sound, Calling, TaskAwaited, QuietOffline,
       LostInSession, OpeningOffline, Opening, UnreadKeepAlive
  <2>6. StartOpens(o) /\ SendAwaited(o)
    BY <1>1, <2>2 DEF Accepted, Sound, Calling, StartOpens, Live, SendAwaited
  <2>9. Quiet(o)
    BY <1>1, <2>2 DEF Sound, Quiet, Retreat, Checked
  <2>7. Kept(m, o) /\ Accepted(o)
    BY <1>1, <2>1, <2>2, <2>4, <2>5, <2>6, <2>9 DEF Kept, Sound, Calling, Accepted
  <2>8. Kept(o, StartTask(o, task))
    BY <1>2, <2>2, <2>3, <2>7, StartTaskKept DEF Opening
  <2> QED
    BY <2>7, <2>8, KeptTrans DEF o
<1>3. ASSUME m.connMode # "OFFLINE"
      PROVE  Kept(m, MA_TaskSet([MA_ApiPreExe(m) EXCEPT !.offline = FALSE], task, 1))
  <2> DEFINE e == MA_ApiPreExe(m)
             s == [e EXCEPT !.offline = FALSE]
             n == MA_TaskSet(s, task, 1)
  <2>1. GoodMa(e) /\ "ERROR" \notin e.condition
    BY <1>1, PreExeGood DEF Accepted
  <2>2. /\ e.condition = (m.condition \ {"TCPCLOSED"}) \cup {"APIWAIT"}
        /\ e.status = m.status /\ e.intrMode = m.intrMode
        /\ e.retryCount = m.retryCount /\ SameLine(m, e) /\ SameCall(m, e)
    BY <1>1, ApiPreExeEffect
  <2> HIDE DEF e
  <2>3. GoodMa(s)
    BY <2>1, SMT DEF GoodMa, CallOver, BodyPending, MaType
  <2>4. /\ s.condition = e.condition /\ s.status = e.status /\ s.intrMode = e.intrMode
        /\ s.retryCount = e.retryCount /\ s.connMode = e.connMode /\ SameLine(e, s)
    BY <2>1, SMT DEF GoodMa, MaType, MaFields, SameLine
  <2>5. ~s.offline
    BY <2>1, SMT DEF GoodMa, MaType, MaFields
  <2> HIDE DEF s
  <2>6. GoodMa(n)
    <3>1. task \in Tasks /\ 1 \in 0..255 /\ "ERROR" \notin s.condition
      BY <2>1, <2>4 DEF Tasks
    <3> QED
      BY <2>3, <3>1, TaskSetGood
  <2>7. /\ n.task = task /\ n.taskStep = 1 /\ n.connMode = s.connMode
        /\ n.offline = s.offline
        /\ n.condition = IF task = "NONE" THEN s.condition \ {"APIWAIT"} ELSE s.condition
        /\ n.status = s.status /\ n.intrMode = s.intrMode
        /\ n.retryCount = s.retryCount /\ SameLine(s, n)
    BY <2>3, TaskSetEffect
  <2> HIDE DEF n
  <2>8. Begun(m, n, task, 1)
    BY <2>2, <2>4, <2>7 DEF Begun, SameLine, SameCall
  <2>9. InSession(n)
    BY <2>5, <2>7 DEF InSession
  <2>10. Kept(m, n)
    BY <1>1, <1>3, <2>6, <2>8, <2>9, BegunKept
  <2> QED
    BY <2>10 DEF n, s, e
<1> QED
  BY <1>2, <1>3 DEF MA_ConditionMain

LEMMA OfflineKept ==
  ASSUME NEW m, Sound(m), "APIWAIT" \notin m.condition, CallAllowed(m, "OFFLINE")
  PROVE  Kept(m, MA_Offline(m))
<1> DEFINE e == MA_ApiPreExe(m)
           step == IF m.connMode = "PPP" THEN 0 ELSE 1
           n == MA_TaskSet(e, "OFFLINE", step)
<1>1. Accepted(m) /\ GoodMa(m) /\ m.connMode # "OFFLINE"
  BY DEF Accepted, CallAllowed, Sound, ApiValisStatusCheck, ValidIn
<1>2. GoodMa(e) /\ "ERROR" \notin e.condition
  BY <1>1, PreExeGood DEF Accepted
<1>3. /\ e.condition = (m.condition \ {"TCPCLOSED"}) \cup {"APIWAIT"}
      /\ e.status = m.status /\ e.intrMode = m.intrMode
      /\ e.retryCount = m.retryCount /\ SameLine(m, e) /\ SameCall(m, e)
  BY <1>1, ApiPreExeEffect
<1>4. n = MA_Offline(m)
  BY <1>1 DEF MA_Offline
<1>5. "OFFLINE" \in Tasks /\ step \in 0..255
  BY DEF Tasks
<1> HIDE DEF e, step
<1>6. GoodMa(n)
  BY <1>2, <1>5, TaskSetGood
<1>7. /\ n.task = "OFFLINE" /\ n.taskStep = step /\ n.connMode = e.connMode
      /\ n.offline = e.offline
      /\ n.condition = IF "OFFLINE" = "NONE" THEN e.condition \ {"APIWAIT"} ELSE e.condition
      /\ n.status = e.status /\ n.intrMode = e.intrMode
      /\ n.retryCount = e.retryCount /\ SameLine(e, n)
  BY <1>2, TaskSetEffect
<1> HIDE DEF n
<1>8. Begun(m, n, "OFFLINE", step)
  BY <1>3, <1>7 DEF Begun, SameLine, SameCall
<1>9. Kept(m, n)
  BY <1>1, <1>6, <1>8, BegunKept
<1> QED
  BY <1>4, <1>9

LEMMA SDataKept ==
  ASSUME NEW m, Sound(m), "APIWAIT" \notin m.condition, CallAllowed(m, "SDATA"),
         "SDATA" \in Calls
  PROVE  Kept(m, MA_SData(m, TRUE))
<1> DEFINE e == MA_ApiPreExe(m)
           r == [e EXCEPT !.condition = @ \ {"APIWAIT"}]
           s == [e EXCEPT !.status = @ \cup {"PTP_SEND"}]
<1>1. Accepted(m) /\ GoodMa(m) /\ m.connMode # "OFFLINE"
  BY DEF Accepted, CallAllowed, Sound, ApiValisStatusCheck, ValidIn
<1>2. GoodMa(e)
  BY <1>1, PreExeGood DEF Accepted
<1>3. /\ e.condition = (m.condition \ {"TCPCLOSED"}) \cup {"APIWAIT"}
      /\ e.status = m.status /\ e.intrMode = m.intrMode
      /\ e.retryCount = m.retryCount /\ SameLine(m, e) /\ SameCall(m, e)
  BY <1>1, ApiPreExeEffect
<1>4. MA_SData(m, TRUE) \in {r, s}
  BY DEF MA_SData
<1> HIDE DEF e
<1>5. Kept(m, r)
  <2>1. GoodMa(r)
    BY <1>2, SMT DEF GoodMa, CallOver, BodyPending, MaType
  <2>2. /\ r.condition = e.condition \ {"APIWAIT"} /\ r.status = e.status
        /\ r.intrMode = e.intrMode /\ r.retryCount = e.retryCount
        /\ SameLine(e, r) /\ SameCall(e, r)
    BY <1>2, SMT DEF GoodMa, MaType, MaFields, SameLine, SameCall
  <2> HIDE DEF r
  <2>3. Same(m, r)
    BY <1>3, <2>2 DEF Same, SameFlags, SameLine, SameCall
  <2> QED
    BY <2>1, <2>3, SameKept
<1>6. Kept(m, s)
  <2>1. GoodMa(s)
    BY <1>2, SMT DEF GoodMa, CallOver, BodyPending, MaType, StatusFlags
  <2>2. /\ s.condition = e.condition /\ s.status = e.status \cup {"PTP_SEND"}
        /\ s.intrMode = e.intrMode /\ s.retryCount = e.retryCount
        /\ SameLine(e, s) /\ SameCall(e, s)
    BY <1>2, SMT DEF GoodMa, MaType, MaFields, SameLine, SameCall
  <2> HIDE DEF s
  <2> USE DEF SameLine, SameCall
  <2>3. Exchange(s) /\ (Retry(m) => Retry(s))
    BY <1>1, <1>3, <2>2 DEF Sound, Exchange, Past, Retry
  <2>4. TaskAwaited(s) /\ QuietOffline(s) /\ LostInSession(s) /\ OpeningOffline(s)
        /\ UnreadKeepAlive(s)
    BY <1>1, <1>3, <2>2 DEF Accepted, TaskAwaited, QuietOffline, LostInSession,
       OpeningOffline, Opening, UnreadKeepAlive
  <2>5. StartOpens(s) /\ SendAwaited(s)
    BY <1>1, <1>3, <2>2 DEF Accepted, Sound, Calling, StartOpens, Live, InSession,
       SendAwaited
  <2>6. Quiet(s)
    BY <1>3, <2>2 DEF Sound, Quiet, Retreat, Checked
  <2> QED
    BY <2>1, <2>3, <2>4, <2>5, <2>6 DEF Kept, Sound, Calling
<1> QED
  BY <1>4, <1>5, <1>6

LEMMA GDataKept ==
  ASSUME NEW m, Sound(m), "APIWAIT" \notin m.condition, CallAllowed(m, "GDATA"),
         "PTP_GET" \in m.condition, NEW more
  PROVE  Kept(m, MA_GData(m, more))
<1> DEFINE e == MA_ApiPreExe(m)
           taken == IF more THEN {"APIWAIT"} ELSE {"APIWAIT", "PTP_GET"}
           n == [e EXCEPT !.condition = @ \ taken]
<1>1. Accepted(m) /\ GoodMa(m)
  BY DEF Accepted, CallAllowed, Sound
<1>2. GoodMa(e)
  BY <1>1, PreExeGood DEF Accepted
<1>3. /\ e.condition = (m.condition \ {"TCPCLOSED"}) \cup {"APIWAIT"}
      /\ e.status = m.status /\ e.intrMode = m.intrMode
      /\ e.retryCount = m.retryCount /\ SameLine(m, e) /\ SameCall(m, e)
  BY <1>1, ApiPreExeEffect
<1>4. MA_GData(m, more) = n
  BY DEF MA_GData
<1>5. "APIWAIT" \in taken /\ taken \subseteq {"APIWAIT", "PTP_GET"}
  OBVIOUS
<1> HIDE DEF e, taken
<1>6. GoodMa(n)
  BY <1>2, SMT DEF GoodMa, CallOver, BodyPending, MaType
<1>7. /\ n.condition = e.condition \ taken /\ n.status = e.status
      /\ n.intrMode = e.intrMode /\ n.retryCount = e.retryCount
      /\ SameLine(e, n) /\ SameCall(e, n)
  BY <1>2, SMT DEF GoodMa, MaType, MaFields, SameLine, SameCall
<1> HIDE DEF n
<1>8. Same(m, n)
  BY <1>3, <1>5, <1>7 DEF Same, SameFlags, SameLine, SameCall
<1> QED
  BY <1>4, <1>6, <1>8, SameKept

\* MA_Stop is the one call that may replace a task.
LEMMA StopKept ==
  ASSUME NEW m, Sound(m), "ERROR" \notin m.condition, "STOP" \in Calls
  PROVE  m.apiMagic => Kept(m, MA_Stop(m))
<1> DEFINE w == [m EXCEPT !.condition = (@ \ {"BUFFER_FULL"}) \cup {"APIWAIT"}]
           c == MA_TaskSet(w, "STOP", 0)
           s == MA_TaskSet(w, "STOP", 1)
           x == MA_CancelRequest(c)
<1>1. GoodMa(m) /\ Kept(m, m)
  BY DEF Sound, Kept
<1>2. m.apiMagic =>
        \/ MA_Stop(m) = m
        \/ "BIOS_BUSY" \in m.condition /\ m.sendCmd = "TEL" /\ MA_Stop(m) = x
        \/ MA_Stop(m) = s
  BY DEF MA_Stop
<1>3. GoodMa(w)
  BY <1>1, SMT DEF GoodMa, CallOver, BodyPending, MaType, ConditionFlags
<1>4. /\ w.condition = (m.condition \ {"BUFFER_FULL"}) \cup {"APIWAIT"}
      /\ w.status = m.status /\ w.intrMode = m.intrMode
      /\ w.retryCount = m.retryCount /\ SameLine(m, w) /\ SameCall(m, w)
  BY <1>1, SMT DEF GoodMa, MaType, MaFields, SameLine, SameCall
<1> HIDE DEF w
<1>5. "STOP" \in Tasks /\ "ERROR" \notin w.condition
  BY <1>4 DEF Tasks
<1>6. ASSUME NEW step, GoodMa(MA_TaskSet(w, "STOP", step))
      PROVE  LET n == MA_TaskSet(w, "STOP", step)
             IN /\ Kept(m, n) /\ n.task = "STOP" /\ n.sendCmd = m.sendCmd
                /\ "APIWAIT" \in n.condition
                /\ "BIOS_BUSY" \in n.condition <=> "BIOS_BUSY" \in m.condition
  <2> DEFINE n == MA_TaskSet(w, "STOP", step)
  <2>1. /\ n.task = "STOP" /\ n.taskStep = step /\ n.connMode = w.connMode
        /\ n.offline = w.offline
        /\ n.condition = IF "STOP" = "NONE" THEN w.condition \ {"APIWAIT"} ELSE w.condition
        /\ n.status = w.status /\ n.intrMode = w.intrMode
        /\ n.retryCount = w.retryCount /\ SameLine(w, n)
    BY <1>3, TaskSetEffect
  <2> HIDE DEF n
  <2>2. /\ n.task = "STOP" /\ n.connMode = w.connMode /\ n.condition = w.condition
        /\ n.status = w.status /\ n.intrMode = w.intrMode
        /\ n.retryCount = w.retryCount /\ SameLine(w, n)
    BY <2>1
  <2> USE DEF SameLine, SameCall
  <2>3. Exchange(n) /\ (Retry(m) => Retry(n))
    BY <1>4, <2>2 DEF Sound, Exchange, Past, Retry
  <2>4. TaskAwaited(n) /\ QuietOffline(n) /\ LostInSession(n) /\ OpeningOffline(n)
        /\ UnreadKeepAlive(n)
    BY <1>4, <2>2 DEF TaskAwaited, QuietOffline, LostInSession, OpeningOffline, Opening,
       UnreadKeepAlive
  <2>5. StartOpens(n) /\ SendAwaited(n)
    BY <1>4, <2>2 DEF Sound, Calling, StartOpens, Live, InSession, SendAwaited
  <2>7. Quiet(n)
    BY <1>4, <2>2 DEF Sound, Quiet, Retreat, Checked
  <2>6. Kept(m, n)
    BY <1>6, <2>3, <2>4, <2>5, <2>7 DEF Kept, Sound, Calling, n
  <2> QED
    <3>1. /\ "APIWAIT" \in n.condition /\ n.sendCmd = m.sendCmd
          /\ "BIOS_BUSY" \in n.condition <=> "BIOS_BUSY" \in m.condition
      BY <1>4, <2>2
    <3> QED
      BY <2>2, <2>6, <3>1 DEF n
<1>7. GoodMa(c) /\ GoodMa(s)
  <2>1. 0 \in 0..255 /\ 1 \in 0..255
    OBVIOUS
  <2> QED
    BY <1>3, <1>5, <2>1, TaskSetGood
<1>9. Kept(m, s)
  BY <1>6, <1>7
<1>8. ASSUME "BIOS_BUSY" \in m.condition, m.sendCmd = "TEL" PROVE Kept(m, x)
  <2>2. /\ Kept(m, c) /\ GoodMa(c) /\ c.task = "STOP" /\ c.sendCmd = m.sendCmd
        /\ "APIWAIT" \in c.condition /\ "BIOS_BUSY" \in c.condition
    BY <1>6, <1>7, <1>8
  <2> HIDE DEF c
  <2>3. Waits(c, x) /\ x.status = c.status \cup {"BIOS_RESTART"} /\ GoodMa(x)
    BY <2>2, CancelRequestEffect, CancelRequestGood
  <2> HIDE DEF x
  <2> USE DEF Waits, SameLine, SameCall
  <2>4. Exchange(x) /\ (Retry(c) => Retry(x))
    BY <2>2, <2>3 DEF Kept, Sound, Exchange, Retry
  <2>5. TaskAwaited(x) /\ QuietOffline(x) /\ LostInSession(x) /\ OpeningOffline(x)
        /\ UnreadKeepAlive(x)
    BY <2>2, <2>3 DEF TaskAwaited, QuietOffline, LostInSession, OpeningOffline, Opening,
       Kept, Sound, Calling, UnreadKeepAlive
  <2>6. StartOpens(x) /\ SendAwaited(x)
    BY <1>8, <2>2, <2>3 DEF Kept, Sound, Calling, StartOpens, SendAwaited
  <2>7. Quiet(x)
    BY <1>8, <2>2, <2>3 DEF Kept, Sound, Quiet, Retreat, Checked
  <2> QED
    BY <2>2, <2>3, <2>4, <2>5, <2>6, <2>7 DEF Kept, Sound, Calling
<1> QED
  BY <1>1, <1>2, <1>8, <1>9

\* The error is read, and the last exchange forgotten unless it still runs.
LEMMA ErrorCheckKept ==
  ASSUME NEW m, Sound(m), "ERROR" \in m.condition PROVE Kept(m, MAAPI_ErrorCheck(m))
<1> DEFINE error == IF m.error \in {"PROT_ILLEGAL_CMD", "PROT_CHECKSUM",
                                    "PROT_INTERNAL"} THEN "SYSTEM" ELSE m.error
           e == [m EXCEPT !.error = error, !.condition = @ \ {"ERROR"}]
           f == [e EXCEPT !.sendCmd = None, !.recvCmd = None]
           n == MAAPI_ErrorCheck(m)
<1>1. GoodMa(m) /\ GoodMa(n)
  BY ErrorCheckGood DEF Sound
<1>2. n = IF "BIOS_BUSY" \in m.condition THEN e ELSE f
  BY DEF MAAPI_ErrorCheck
<1> HIDE DEF error, n
<1>3. /\ e.condition = m.condition \ {"ERROR"} /\ e.status = m.status
      /\ e.intrMode = m.intrMode /\ e.retryCount = m.retryCount
      /\ SameLine(m, e) /\ SameCall(m, e) /\ DOMAIN e = MaFields
  BY <1>1, SMT DEF GoodMa, MaType, MaFields, SameLine, SameCall
<1> HIDE DEF e
<1>4. /\ f.condition = e.condition /\ f.status = e.status /\ f.intrMode = e.intrMode
      /\ f.retryCount = e.retryCount /\ f.sendCmd = None /\ SameCall(e, f)
      /\ f.negaResCmd = e.negaResCmd
  BY <1>3, SMT DEF MaFields, SameCall
<1> HIDE DEF f
<1> USE DEF SameLine, SameCall
<1>5. /\ n.condition = m.condition \ {"ERROR"} /\ n.status = m.status
      /\ n.intrMode = m.intrMode /\ n.retryCount = m.retryCount /\ SameCall(m, n)
      /\ n.negaResCmd = m.negaResCmd
      /\ IF "BIOS_BUSY" \in m.condition THEN SameLine(m, n) ELSE n.sendCmd = None
  BY <1>2, <1>3, <1>4
<1>6. m.task = "NONE" /\ "APIWAIT" \notin m.condition
      /\ ("BIOS_BUSY" \in m.condition => m.sendCmd = "CHECK_STATUS")
  BY <1>1 DEF GoodMa, CallOver, Sound, Calling, UnreadKeepAlive
<1>7. Exchange(n) /\ (Retry(m) => Retry(n))
  BY <1>5 DEF Sound, Exchange, Past, Retry
<1>8. TaskAwaited(n) /\ QuietOffline(n) /\ LostInSession(n) /\ OpeningOffline(n)
      /\ UnreadKeepAlive(n)
  BY <1>5, <1>6 DEF Sound, Calling, TaskAwaited, QuietOffline, LostInSession,
     OpeningOffline, Opening, UnreadKeepAlive
<1>9. StartOpens(n) /\ SendAwaited(n)
  BY <1>5, <1>6 DEF Sound, Calling, StartOpens, SendAwaited, None
<1>11. Quiet(n)
  BY <1>5, <1>6 DEF Sound, Exchange, Quiet, Retreat, Checked
<1>10. Kept(m, n)
  BY <1>1, <1>7, <1>8, <1>9, <1>11 DEF Kept, Sound, Calling
<1> QED
  BY <1>10 DEF n

\* gMA with its every byte zero, and with its first task.
LEMMA FreshSound ==
  ASSUME NEW m, GoodMa(m), m.condition \subseteq {"APIWAIT"}, m.status = {},
         m.intrMode = "IDLE", m.retryCount = 0, m.connMode = "OFFLINE",
         m.task = "NONE" \/ (m.task \in {"INITLIBRARY", "INITLIBRARY2"}
                             /\ "APIWAIT" \in m.condition),
         m.negaResCmd = None
  PROVE  Sound(m) /\ Retry(m)
<1>1. Exchange(m) /\ Retry(m)
  BY DEF Exchange, Retry
<1>2. Calling(m)
  BY DEF Calling, TaskAwaited, QuietOffline, LostInSession, StartOpens, OpeningOffline,
     SendAwaited, UnreadKeepAlive
<1>3. Quiet(m)
  BY DEF Quiet, Retreat, Checked, None
<1> QED
  BY <1>1, <1>2, <1>3 DEF Sound

LEMMA ZeroSound == Sound(Zero) /\ Retry(Zero)
<1>1. /\ Zero.condition = {} /\ Zero.status = {} /\ Zero.intrMode = "IDLE"
      /\ Zero.retryCount = 0 /\ Zero.connMode = "OFFLINE" /\ Zero.task = "NONE"
      /\ Zero.negaResCmd = None
  BY DEF Zero
<1> QED
  BY <1>1, ZeroGood, FreshSound

\* What MA_InitLibrary runs its first step in.
LEMMA InitLibraryBegun ==
  ASSUME NEW task \in {"INITLIBRARY", "INITLIBRARY2"}
  PROVE  \E w : /\ MA_InitLibraryMain(task) = MAAPI_Main(w) /\ GoodMa(w)
                /\ w.condition = {"APIWAIT"} /\ w.status = {} /\ w.intrMode = "IDLE"
                /\ w.retryCount = 0 /\ w.connMode = "OFFLINE" /\ w.task = task
                /\ w.taskStep = 0 /\ w.recvCmd = None /\ w.negaResCmd = None
                /\ w.answer = None
<1> DEFINE r == MA_Reset(Zero)
           a == [r EXCEPT !.apiMagic = TRUE]
           i == MABIOS_Init(a)
           t == MA_TaskSet(i, task, 0)
           w == [t EXCEPT !.condition = @ \cup {"APIWAIT"}]
<1>1. GoodMa(r) /\ r.connMode = "OFFLINE" /\ r.negaResCmd = None /\ r.answer = None
  <2>1. Zero.negaResCmd = None /\ Zero.answer = None
    BY DEF Zero
  <2>2. GoodMa(r) /\ r.connMode = "OFFLINE" /\ r.negaResCmd = None
    BY <2>1, ZeroGood, ResetGood, ResetEffect
  <2>3. r.answer = Zero.answer
    BY ZeroGood, SMT DEF MA_Reset, GoodMa, MaType, MaFields
  <2> QED
    BY <2>1, <2>2, <2>3
<1> HIDE DEF r
<1>2. GoodMa(a)
  BY <1>1, SMT DEF GoodMa, CallOver, BodyPending, MaType
<1>3. a.connMode = r.connMode /\ a.negaResCmd = r.negaResCmd /\ a.answer = r.answer
  BY <1>1, SMT DEF GoodMa, MaType, MaFields
<1> HIDE DEF a
<1>4. GoodMa(i)
  BY <1>2, InitGood
<1>5. /\ i.condition = {} /\ i.status = {} /\ i.intrMode = "IDLE" /\ i.retryCount = 0
      /\ i.connMode = a.connMode /\ i.negaResCmd = a.negaResCmd /\ i.recvCmd = None
      /\ i.answer = a.answer
  BY <1>2, SMT DEF MABIOS_Init, GoodMa, MaType, MaFields
<1> HIDE DEF i
<1>6. GoodMa(t) /\ t.answer = i.answer
  <2>1. task \in Tasks /\ 0 \in 0..255
    BY DEF Tasks
  <2>2. t.answer = i.answer
    BY <1>4, SMT DEF MA_TaskSet, GoodMa, MaType, MaFields
  <2> QED
    BY <1>4, <1>5, <2>1, <2>2, TaskSetGood
<1>7. /\ t.task = task /\ t.taskStep = 0 /\ t.connMode = i.connMode
      /\ t.offline = i.offline
      /\ t.condition = IF task = "NONE" THEN i.condition \ {"APIWAIT"} ELSE i.condition
      /\ t.status = i.status /\ t.intrMode = i.intrMode
      /\ t.retryCount = i.retryCount /\ SameLine(i, t)
  BY <1>4, TaskSetEffect
<1> HIDE DEF t
<1>8. GoodMa(w)
  BY <1>5, <1>6, <1>7, SMT DEF GoodMa, CallOver, BodyPending, MaType, ConditionFlags
<1>9. /\ w.task = t.task /\ w.connMode = t.connMode
      /\ w.condition = t.condition \cup {"APIWAIT"}
      /\ w.status = t.status /\ w.intrMode = t.intrMode /\ w.retryCount = t.retryCount
      /\ w.negaResCmd = t.negaResCmd /\ w.recvCmd = t.recvCmd
      /\ w.taskStep = t.taskStep /\ w.answer = t.answer
  BY <1>6, SMT DEF GoodMa, MaType, MaFields
<1>10. MA_InitLibraryMain(task) = MAAPI_Main(w)
  BY DEF MA_InitLibraryMain, w, t, i, a, r
<1> HIDE DEF w
<1>11. /\ w.task = task /\ w.connMode = "OFFLINE" /\ w.condition = {"APIWAIT"}
       /\ w.status = {} /\ w.intrMode = "IDLE" /\ w.retryCount = 0
       /\ w.negaResCmd = None /\ w.recvCmd = None /\ w.taskStep = 0 /\ w.answer = None
  BY <1>1, <1>3, <1>5, <1>6, <1>7, <1>9 DEF SameLine
<1> QED
  BY <1>8, <1>10, <1>11

LEMMA InitLibrarySound ==
  ASSUME NEW task \in {"INITLIBRARY", "INITLIBRARY2"}
  PROVE  /\ Sound(MA_InitLibraryMain(task)) /\ Retry(MA_InitLibraryMain(task))
         /\ "ERROR" \notin MA_InitLibraryMain(task).condition
<1>1. PICK w : /\ MA_InitLibraryMain(task) = MAAPI_Main(w) /\ GoodMa(w)
               /\ w.condition = {"APIWAIT"} /\ w.status = {} /\ w.intrMode = "IDLE"
               /\ w.retryCount = 0 /\ w.connMode = "OFFLINE" /\ w.task = task
               /\ w.taskStep = 0 /\ w.recvCmd = None /\ w.negaResCmd = None
               /\ w.answer = None
  BY InitLibraryBegun
<1>2. Sound(w) /\ Retry(w)
  BY <1>1, FreshSound
<1>3. Kept(w, MAAPI_Main(w))
  BY <1>2, MainKept
<1>4. "ERROR" \notin MAAPI_Main(w).condition
  <2> DEFINE s == MABIOS_Start(w)
  <2>1. MAAPI_Main(w) \in {w, NextStep(s)}
    BY <1>1 DEF MAAPI_Main, RunTask, MATASK_InitLibrary, Refused, None
  <2>2. CanSend(w)
    BY <1>1 DEF CanSend
  <2>3. GoodMa(s) /\ Sends(w, s, "START")
    BY <1>1, <2>2, StartGood, StartEffect
  <2> HIDE DEF s
  <2>4. NextStep(s).condition = s.condition
    BY <2>3, SMT DEF NextStep, GoodMa, MaType, MaFields
  <2> QED
    BY <1>1, <2>1, <2>3, <2>4 DEF Sends
<1> QED
  BY <1>1, <1>2, <1>3, <1>4 DEF Kept

LEMMA GameKept ==
  ASSUME ~Misuse, Sound(gMA), Game PROVE Kept(gMA, gMA') /\ rx = 0 /\ rx' = 0
<1> USE DEF Returns, MayCall, Legal, Settled
<1>1. CASE \E task \in {"INITLIBRARY", "INITLIBRARY2"} : InitLibrary(task)
  BY <1>1, InitLibrarySound DEF InitLibrary, Kept
<1>2. CASE \E task \in {"CONDITION", "CONDITION2"} : Condition(task)
  BY <1>2, ConditionKept DEF Condition
<1>3. CASE End
  BY <1>3, ZeroSound DEF End, MA_End, Kept
<1>4. CASE TelServer
  BY <1>4, OpenSessionKept DEF TelServer, MA_TelServer
<1>5. CASE Tel
  BY <1>5, OpenSessionKept DEF Tel, MA_Tel
<1>6. CASE Receive
  BY <1>6, OpenSessionKept DEF Receive, MA_Receive
<1>7. CASE EEPROMRead
  BY <1>7, OpenSessionKept DEF EEPROMRead, MA_EEPROMRead
<1>8. CASE Offline
  BY <1>8, OfflineKept DEF Offline
<1>9. CASE SData
  BY <1>9, SDataKept DEF SData
<1>10. CASE GData
  BY <1>10, GDataKept DEF GData
<1>11. CASE Stop
  BY <1>11, StopKept DEF Stop
<1>12. CASE ErrorCheck
  BY <1>12, ErrorCheckKept DEF ErrorCheck
<1> QED
  BY <1>1, <1>2, <1>3, <1>4, <1>5, <1>6, <1>7, <1>8, <1>9, <1>10, <1>11, <1>12
     DEF Game

----------------------------------------------------------------------------
(* The bytes of a transfer, and the invariant of the whole.                *)

Inv == Sound(gMA) /\ rx \in 0..3 /\ (rx # 0 => Wire(gMA))

LEMMA WireEnds ==
  ASSUME NEW m, GoodMa(m), Wire(m)
  PROVE  Wire(HandlerEnds(m)) /\ Wire([m EXCEPT !.sio = FALSE])
<1>1. ASSUME NEW n, n.condition = m.condition, n.intrMode = m.intrMode,
             n.sioMode = m.sioMode, n.recvState = m.recvState, n.readCnt = m.readCnt,
             n.task = m.task, n.counter = m.counter, n.timeout = m.timeout,
             \A f \in {"SIO_RETRY", "SIO_RECV_DONE"} : f \in n.status <=> f \in m.status
      PROVE  Wire(n)
  BY <1>1 DEF Wire, Receiving, Underway
<1>2. Wire(HandlerEnds(m))
  <2> DEFINE n == HandlerEnds(m)
  <2>1. /\ n.condition = m.condition /\ n.intrMode = m.intrMode
        /\ n.sioMode = m.sioMode /\ n.recvState = m.recvState /\ n.readCnt = m.readCnt
        /\ n.task = m.task /\ n.counter = m.counter /\ n.timeout = m.timeout
        /\ n.status = m.status \cup {"TIMER_ENABLED"}
    BY SMT DEF GoodMa, MaType, MaFields, HandlerEnds
  <2> HIDE DEF n
  <2>2. \A f \in {"SIO_RETRY", "SIO_RECV_DONE"} : f \in n.status <=> f \in m.status
    BY <2>1
  <2>3. Wire(n)
    BY <1>1, <2>1, <2>2
  <2> QED
    BY <2>3 DEF n
<1>3. Wire([m EXCEPT !.sio = FALSE])
  <2> DEFINE n == [m EXCEPT !.sio = FALSE]
  <2>1. /\ n.condition = m.condition /\ n.intrMode = m.intrMode
        /\ n.sioMode = m.sioMode /\ n.recvState = m.recvState /\ n.readCnt = m.readCnt
        /\ n.task = m.task /\ n.counter = m.counter /\ n.timeout = m.timeout
        /\ n.status = m.status
    BY SMT DEF GoodMa, MaType, MaFields
  <2> HIDE DEF n
  <2>2. Wire(n)
    BY <1>1, <2>1
  <2> QED
    BY <2>2 DEF n
<1> QED
  BY <1>2, <1>3

LEMMA ByteEndsKept == ASSUME NEW m, Sound(m) PROVE Kept(m, [m EXCEPT !.sio = FALSE])
<1> DEFINE n == [m EXCEPT !.sio = FALSE]
<1>1. GoodMa(m)
  BY DEF Sound
<1>2. GoodMa(n)
  BY <1>1, SMT DEF GoodMa, CallOver, BodyPending, MaType
<1>3. Same(m, n)
  BY <1>1, SMT DEF GoodMa, MaType, MaFields, Same, SameFlags, SameLine, SameCall
<1> HIDE DEF n
<1> QED
  BY <1>2, <1>3, SameKept DEF n

LEMMA ReceiveByteKept ==
  ASSUME Inv, NEW byte \in 0..3, NEW size \in {1, 4}, byte < size,
         size = 4 => gMA.sioMode = "WORD",
         (byte = 0 /\ gMA.intrMode = "RECV") \/ (byte # 0 /\ Wire(gMA)),
         ReceiveByte(byte, size)
  PROVE  Inv' /\ Kept(gMA, gMA')
<1> DEFINE next(what) == MA_IntrSio_Recv(gMA, byte, what)
<1>1. PICK what \in Received(gMA, byte) :
        IF byte + 1 = size \/ (size = 4 /\ "ERROR" \in next(what).condition)
        THEN gMA' = HandlerEnds(next(what)) /\ rx' = 0
        ELSE gMA' = [next(what) EXCEPT !.sio = FALSE] /\ rx' = byte + 1
  BY DEF ReceiveByte
<1>2. Read(gMA, next(what))
  BY IntrSioRecvRead DEF Inv
<1> HIDE DEF next
<1>3. Kept(gMA, next(what)) /\ Sound(next(what)) /\ GoodMa(next(what))
  BY <1>2 DEF Read, Kept, Sound
<1>4. CASE gMA' = HandlerEnds(next(what)) /\ rx' = 0
  <2>1. Kept(next(what), HandlerEnds(next(what)))
    BY <1>3, HandlerEndsKept
  <2>2. Kept(gMA, gMA')
    BY <1>3, <1>4, <2>1, KeptTrans
  <2> QED
    BY <1>4, <2>2 DEF Inv, Kept
<1>5. CASE /\ gMA' = [next(what) EXCEPT !.sio = FALSE] /\ rx' = byte + 1
           /\ byte + 1 # size /\ ~(size = 4 /\ "ERROR" \in next(what).condition)
  <2>1. size = 4 /\ byte + 1 \in 1..3
    BY <1>5
  <2>2. Wire(next(what))
    BY <1>2, <1>5, <2>1 DEF Read, OnWire
  <2>3. Wire(gMA')
    BY <1>3, <1>5, <2>2, WireEnds
  <2>4. Kept(next(what), gMA')
    BY <1>3, <1>5, ByteEndsKept
  <2>5. Kept(gMA, gMA')
    BY <1>3, <2>4, KeptTrans
  <2>6. rx' \in 0..3
    BY <1>5, <2>1
  <2> QED
    BY <2>3, <2>5, <2>6 DEF Inv, Kept
<1> QED
  BY <1>1, <1>4, <1>5

LEMMA SerialKept ==
  ASSUME Inv, Serial PROVE Inv' /\ ("internal" \notin Footers => Kept(gMA, gMA'))
<1>1. Sound(gMA) /\ GoodMa(gMA) /\ rx \in 0..3
  BY DEF Inv, Sound
<1>2. ASSUME gMA' = HandlerEnds(gMA), rx' = rx PROVE Inv' /\ Kept(gMA, gMA')
  <2>1. Kept(gMA, gMA')
    BY <1>1, <1>2, HandlerEndsKept
  <2>2. rx' # 0 => Wire(gMA')
    BY <1>1, <1>2, WireEnds DEF Inv
  <2> QED
    BY <1>1, <1>2, <2>1, <2>2 DEF Inv, Kept
<1>3. CASE SioSend
  <2>1. PICK footer : /\ footer \in Footers \cup {"ok"}
                      /\ gMA' = HandlerEnds(MA_IntrSio_Send(gMA, footer))
    BY <1>3 DEF SioSend
  <2>2. gMA.intrMode = "SEND" /\ rx' = rx
    BY <1>3 DEF SioSend
  <2> DEFINE m == MA_IntrSio_Send(gMA, footer)
  <2>3. Sound(m) /\ (footer # "internal" => Kept(gMA, m))
    BY <1>1, <2>2, IntrSioSendKept
  <2> HIDE DEF m
  <2>4. Kept(m, HandlerEnds(m))
    BY <2>3, HandlerEndsKept
  <2>5. Sound(gMA') /\ (footer # "internal" => Kept(gMA, gMA'))
    BY <2>1, <2>3, <2>4, KeptTrans DEF Kept, m
  <2>6. rx = 0
    BY <2>2 DEF Inv, Wire
  <2> QED
    BY <2>1, <2>2, <2>5, <2>6 DEF Inv
<1>4. CASE SioIgnored
  BY <1>2, <1>4 DEF SioIgnored
<1>5. CASE SioRecvByte
  BY <1>5, ReceiveByteKept DEF SioRecvByte
<1>6. CASE SioRecvWord
  <2>1. CASE "ERROR" \in gMA.condition
    BY <1>2, <1>6, <2>1 DEF SioRecvWord
  <2>2. CASE "ERROR" \notin gMA.condition
    BY <1>6, <2>2, ReceiveByteKept DEF SioRecvWord
  <2> QED
    BY <2>1, <2>2
<1>7. CASE SioRecvRest
  <2>1. Wire(gMA) /\ gMA.sioMode = "WORD" /\ rx # 0 /\ ReceiveByte(rx, 4)
    BY <1>7 DEF SioRecvRest, Inv, Wire
  <2> QED
    BY <1>1, <2>1, ReceiveByteKept
<1> QED
  BY <1>3, <1>4, <1>5, <1>6, <1>7 DEF Serial

LEMMA SoundInit == Init => Inv /\ Retry(gMA)
  BY ZeroSound DEF Init, Inv

LEMMA SoundStep ==
  ASSUME ~Misuse PROVE Inv /\ [Next]_vars => Inv'
<1> SUFFICES ASSUME Inv, [Next]_vars PROVE Inv'
  OBVIOUS
<1>1. CASE UNCHANGED vars
  BY <1>1 DEF Inv, vars
<1>2. CASE Game
  BY <1>2, GameKept DEF Inv, Kept
<1>3. CASE Timer
  BY <1>3, TimerKept DEF Inv, Kept
<1>4. CASE Serial
  BY <1>4, SerialKept
<1> QED
  BY <1>1, <1>2, <1>3, <1>4 DEF Next

LEMMA RetryStep ==
  ASSUME ~Misuse, "internal" \notin Footers
  PROVE  Inv /\ Retry(gMA) /\ [Next]_vars => Retry(gMA)'
<1> SUFFICES ASSUME Inv, Retry(gMA), [Next]_vars PROVE Retry(gMA)'
  OBVIOUS
<1>1. CASE UNCHANGED vars
  BY <1>1 DEF vars
<1>2. CASE Game
  BY <1>2, GameKept DEF Inv, Kept
<1>3. CASE Timer
  BY <1>3, TimerKept DEF Inv, Kept
<1>4. CASE Serial
  BY <1>4, SerialKept DEF Kept
<1> QED
  BY <1>1, <1>2, <1>3, <1>4 DEF Next

LEMMA SoundAlways == ASSUME ~Misuse PROVE Spec => []Inv
  BY SoundInit, SoundStep, PTL DEF Spec

\* No second request is sent while one is unanswered, and no exchange is left
\* without an end: BIOS_BUSY, which MA_PreSend and MAAPI_Main test, is set
\* exactly while the interrupt mode or SIO_RECV_DONE say that one runs.
THEOREM LibMaBusyOwned == ASSUME ~Misuse PROVE Spec => []BusyOwned
<1>1. Inv => BusyOwned
  BY DEF Inv, Sound, Exchange, BusyOwned
<1> QED
  BY <1>1, SoundAlways, PTL

\* MA_ProcessRecvPacket is never given the reply to an earlier command, however
\* the request was retried, restarted or given up in between.
THEOREM LibMaReplyMatches == ASSUME ~Misuse PROVE Spec => []ReplyMatches
<1>1. Inv => ReplyMatches
  BY DEF Inv, Sound, Exchange, ReplyMatches
<1> QED
  BY <1>1, SoundAlways, PTL

\* retryCount, decremented before it is tested, does not wrap: a refused
\* request is sent at most twice more.  Only `retryCount = -2', the answer to
\* an adapter's internal error, is another matter.
THEOREM LibMaRetryBounded ==
  ASSUME ~Misuse, "internal" \notin Footers PROVE Spec => []RetryBounded
<1>1. Inv /\ Retry(gMA) => RetryBounded
  BY DEF Retry, RetryBounded
<1> QED
  BY <1>1, SoundInit, RetryStep, SoundAlways, PTL DEF Spec

\* The game is never told that a call is over while its task still runs; only
\* MA_Stop between MA_SData and the poll with its data gives such a task.
THEOREM LibMaTaskOwned ==
  ASSUME ~Misuse, ~({"STOP", "SDATA"} \subseteq Calls) PROVE Spec => []TaskOwned
<1>1. Inv => TaskOwned
  BY DEF Inv, Sound, Calling, TaskAwaited, Stopping, TaskOwned
<1> QED
  BY <1>1, SoundAlways, PTL

\* The flag of the keep-alive is cleared with its exchange, also when that is
\* restarted, times out or ends the session: MAAPI_Main, which runs no task
\* while it is set, is not blocked.  A keep-alive that the adapter refuses
\* keeps the flag.
THEOREM LibMaKeepAliveEnds ==
  ASSUME ~Misuse, "CHECK_STATUS" \notin Refusable PROVE Spec => []KeepAliveEnds
<1>1. Inv => KeepAliveEnds
  BY DEF Inv, Sound, Quiet, LineKnown, Checked, KeepAliveEnds
<1> QED
  BY <1>1, SoundAlways, PTL

\* MA_IntrSerialIO (ma_bios.c:2543) never drops a byte of a reply: no exchange
\* is under way beside an unread error.
THEOREM LibMaNoByteDropped ==
  ASSUME ~Misuse, "CHECK_STATUS" \notin Refusable PROVE Spec => []NoByteDropped
<1>1. Inv => NoByteDropped
  BY DEF Inv, Sound, Exchange, Quiet, LineKnown, Checked, NoByteDropped
<1> QED
  BY <1>1, SoundAlways, PTL

----------------------------------------------------------------------------
(* What may change the command of an exchange.                             *)

LEMMA TimeoutCommand ==
  ASSUME NEW m, GoodMa(m)
  PROVE  GoodMa(MA_IntrSio_Timeout(m)) /\ MA_IntrSio_Timeout(m).sendCmd = m.sendCmd
<1> DEFINE n == MA_IntrSio_Timeout(m)
<1>1. Waits(m, n) \/ Same(m, n)
  BY TimeoutEffect
<1>2. n.sendCmd = m.sendCmd
  BY <1>1 DEF Waits, Same, SameLine
<1> QED
  BY <1>2, TimeoutGood

LEMMA SendFooterCommand ==
  ASSUME NEW m, GoodMa(m), NEW footer PROVE SendFooter(m, footer).sendCmd = m.sendCmd
<1>1. \A error \in Errors : /\ GoodMa(DropSession(m, error))
                            /\ Fails(m, DropSession(m, error))
                            /\ "CONNECTED" \notin DropSession(m, error).status
  BY DropSessionGood, DropSessionFails
<1>2. /\ GoodMa(MA_Bios_disconnect(m)) /\ Fails(m, MA_Bios_disconnect(m))
      /\ "CONNECTED" \notin MA_Bios_disconnect(m).status
  BY DisconnectGood, DisconnectFails
<1>3. {"MA_NOT_FOUND", "PROT_INTERNAL", "PROT_ILLEGAL_CMD", "PROT_CHECKSUM"}
        \subseteq Errors
  BY DEF Errors
<1>4. ASSUME NEW tries, NEW giveUp, GoodMa(giveUp), Fails(m, giveUp),
             "CONNECTED" \notin giveUp.status
      PROVE  FooterRetry(m, tries, giveUp).sendCmd = m.sendCmd
  <2> DEFINE n == FooterRetry(m, tries, giveUp)
  <2>1. Fails(m, n) \/ SameLine(m, n)
    BY <1>4, FooterRetryEffect
  <2> QED
    BY <2>1 DEF Fails, SameLine
<1>5. \A error \in Errors : \A tries :
        FooterRetry(m, tries, DropSession(m, error)).sendCmd = m.sendCmd
  BY <1>1, <1>4
<1>6. \A tries : FooterRetry(m, tries, MA_Bios_disconnect(m)).sendCmd = m.sendCmd
  BY <1>2, <1>4
<1>7. RefuseFooter(m, footer).sendCmd = m.sendCmd
  BY <1>3, <1>5, <1>6 DEF RefuseFooter
<1>8. DropSession(m, "MA_NOT_FOUND").sendCmd = m.sendCmd
  BY <1>1, <1>3 DEF Fails
<1>9. AcceptFooter(m).sendCmd = m.sendCmd
  <2> DEFINE a == AwaitReply(m)
  <2>1. GoodMa(a) /\ a.sendCmd = m.sendCmd
    BY AwaitReplyGood, AwaitReplyEffect
  <2> HIDE DEF a
  <2>2. [a EXCEPT !.counter = 0].sendCmd = a.sendCmd
    BY <2>1, SMT DEF GoodMa, MaType, MaFields
  <2> QED
    BY <2>1, <2>2 DEF AcceptFooter, a
<1> QED
  BY <1>7, <1>8, <1>9 DEF SendFooter

LEMMA IntrSioSendCommand ==
  ASSUME NEW m, GoodMa(m), NEW footer PROVE MA_IntrSio_Send(m, footer).sendCmd = m.sendCmd
<1> DEFINE t == MA_IntrSio_Timeout(m)
<1>1. GoodMa(t) /\ t.sendCmd = m.sendCmd
  BY TimeoutCommand
<1> HIDE DEF t
<1>2. SendFooter(t, footer).sendCmd = m.sendCmd
  BY <1>1, SendFooterCommand
<1> QED
  BY <1>1, <1>2 DEF MA_IntrSio_Send, t

LEMMA IntrSioRecvCommand ==
  ASSUME NEW m, GoodMa(m), NEW byte, NEW what
  PROVE  MA_IntrSio_Recv(m, byte, what).sendCmd = m.sendCmd
<1> DEFINE t == MA_IntrSio_Timeout(m)
           c == [m EXCEPT !.status = @ \ {"SIO_ERR_CHECKSUM"}]
           a == AwaitReply(c)
<1>1. GoodMa(t) /\ t.sendCmd = m.sendCmd
  BY TimeoutCommand
<1>2. ASSUME NEW k, GoodMa(k)
      PROVE  /\ [k EXCEPT !.readCnt = 1].sendCmd = k.sendCmd
             /\ [k EXCEPT !.rubbish = @ + 1].sendCmd = k.sendCmd
             /\ [MA_SetError(k, "MA_NOT_FOUND") EXCEPT !.rubbish = 0].sendCmd = k.sendCmd
  <2> DEFINE e == MA_SetError(k, "MA_NOT_FOUND")
  <2>1. GoodMa(e) /\ e.sendCmd = k.sendCmd
    <3>1. "MA_NOT_FOUND" \in Errors
      BY DEF Errors
    <3> QED
      BY <1>2, <3>1, SetErrorGood, SetErrorEffect
  <2> HIDE DEF e
  <2>2. [e EXCEPT !.rubbish = 0].sendCmd = e.sendCmd
    BY <2>1, SMT DEF GoodMa, MaType, MaFields
  <2>3. /\ [k EXCEPT !.readCnt = 1].sendCmd = k.sendCmd
        /\ [k EXCEPT !.rubbish = @ + 1].sendCmd = k.sendCmd
    BY <1>2, SMT DEF GoodMa, MaType, MaFields
  <2> QED
    BY <2>1, <2>2, <2>3 DEF e
<1>3. RecvStart0(m, byte, what).sendCmd = m.sendCmd
  <2>1. /\ [t EXCEPT !.readCnt = 1].sendCmd = m.sendCmd
        /\ [t EXCEPT !.rubbish = @ + 1].sendCmd = m.sendCmd
        /\ [MA_SetError(t, "MA_NOT_FOUND") EXCEPT !.rubbish = 0].sendCmd = m.sendCmd
    BY <1>1, <1>2
  <2> HIDE DEF t
  <2> QED
    BY <1>1, <2>1 DEF RecvStart0, t
<1>4. RecvStart1(m, what).sendCmd = m.sendCmd
  <2>1. [MA_SetError(m, "MA_NOT_FOUND") EXCEPT !.rubbish = 0].sendCmd = m.sendCmd
    BY <1>2
  <2>2. [m EXCEPT !.recvState = "HEADER", !.readCnt = 0, !.rubbish = 0].sendCmd = m.sendCmd
    BY SMT DEF GoodMa, MaType, MaFields
  <2> QED
    BY <2>1, <2>2 DEF RecvStart1
<1>5. RecvHeader(m, what).sendCmd = m.sendCmd
  BY SMT DEF RecvHeader, GoodMa, MaType, MaFields
<1>6. RecvData(m).sendCmd = m.sendCmd
  <2> HIDE DEF t
  <2>1. \A state : [t EXCEPT !.readCnt = @ - 1, !.recvState = state].sendCmd = t.sendCmd
    BY <1>1, SMT DEF GoodMa, MaType, MaFields
  <2> QED
    BY <1>1, <2>1 DEF RecvData, t
<1>7. RecvChecksum(m, what).sendCmd = m.sendCmd
  BY SMT DEF RecvChecksum, GoodMa, MaType, MaFields
<1>8. RecvFooter(m).sendCmd = m.sendCmd
  <2>1. GoodMa(c)
    BY SMT DEF GoodMa, CallOver, BodyPending, MaType
  <2>2. c.sendCmd = m.sendCmd
    BY SMT DEF GoodMa, MaType, MaFields
  <2> HIDE DEF c
  <2>3. a.sendCmd = m.sendCmd
    BY <2>1, <2>2, AwaitReplyEffect
  <2>4. /\ [m EXCEPT !.readCnt = @ + 1].sendCmd = m.sendCmd
        /\ [m EXCEPT !.readCnt = @ + 1, !.intrMode = "IDLE",
                     !.status = @ \cup {"SIO_RECV_DONE"}].sendCmd = m.sendCmd
    BY SMT DEF GoodMa, MaType, MaFields
  <2> HIDE DEF a
  <2> QED
    BY <2>3, <2>4 DEF RecvFooter, MA_RecvRetry, a, c
<1> QED
  BY <1>3, <1>4, <1>5, <1>6, <1>7, <1>8 DEF MA_IntrSio_Recv

LEMMA EndsCommand ==
  ASSUME NEW m, GoodMa(m)
  PROVE  /\ HandlerEnds(m).sendCmd = m.sendCmd
         /\ [m EXCEPT !.sio = FALSE].sendCmd = m.sendCmd
         /\ [m EXCEPT !.tm3 = TRUE].sendCmd = m.sendCmd
  BY SMT DEF HandlerEnds, GoodMa, MaType, MaFields

\* No interrupt of the serial port changes it.
LEMMA SerialCommand == ASSUME Inv, Serial PROVE gMA'.sendCmd = gMA.sendCmd
<1>1. GoodMa(gMA) /\ rx \in 0..3
  BY DEF Inv, Sound
<1>2. HandlerEnds(gMA).sendCmd = gMA.sendCmd
  BY <1>1, EndsCommand
<1>3. CASE SioSend
  <2>1. PICK footer : /\ footer \in Footers \cup {"ok"}
                      /\ gMA' = HandlerEnds(MA_IntrSio_Send(gMA, footer))
    BY <1>3 DEF SioSend
  <2> DEFINE n == MA_IntrSio_Send(gMA, footer)
  <2>2. GoodMa(n) /\ n.sendCmd = gMA.sendCmd
    <3>1. Sound(n)
      BY <1>3, IntrSioSendKept DEF SioSend, Inv
    <3> QED
      BY <1>1, <3>1, IntrSioSendCommand DEF Sound
  <2> HIDE DEF n
  <2>3. HandlerEnds(n).sendCmd = n.sendCmd
    BY <2>2, EndsCommand
  <2> QED
    BY <2>1, <2>2, <2>3 DEF n
<1>4. ASSUME NEW byte \in 0..3, NEW size, ReceiveByte(byte, size),
             (byte = 0 /\ gMA.intrMode = "RECV") \/ (byte # 0 /\ Wire(gMA))
      PROVE  gMA'.sendCmd = gMA.sendCmd
  <2>1. PICK what \in Received(gMA, byte) :
          \/ gMA' = HandlerEnds(MA_IntrSio_Recv(gMA, byte, what))
          \/ gMA' = [MA_IntrSio_Recv(gMA, byte, what) EXCEPT !.sio = FALSE]
    BY <1>4 DEF ReceiveByte
  <2> DEFINE n == MA_IntrSio_Recv(gMA, byte, what)
  <2>2. GoodMa(n) /\ n.sendCmd = gMA.sendCmd
    <3>1. Read(gMA, n)
      BY <1>4, IntrSioRecvRead DEF Inv
    <3> QED
      BY <1>1, <3>1, IntrSioRecvCommand DEF Read, Kept, Sound
  <2> HIDE DEF n
  <2>3. HandlerEnds(n).sendCmd = n.sendCmd /\ [n EXCEPT !.sio = FALSE].sendCmd = n.sendCmd
    BY <2>2, EndsCommand
  <2> QED
    BY <2>1, <2>2, <2>3 DEF n
<1>5. CASE SioIgnored
  BY <1>2, <1>5 DEF SioIgnored
<1>6. CASE SioRecvByte
  BY <1>4, <1>6 DEF SioRecvByte
<1>7. CASE SioRecvWord
  BY <1>2, <1>4, <1>7 DEF SioRecvWord
<1>8. CASE SioRecvRest
  BY <1>4, <1>8 DEF SioRecvRest, Inv
<1> QED
  BY <1>3, <1>5, <1>6, <1>7, <1>8 DEF Serial

\* The timer handler replaces it by the START of a restart.
Undisturbed(m, n) ==
  "BIOS_BUSY" \in m.condition /\ n.sendCmd # m.sendCmd =>
    n.sendCmd = "START" /\ "BIOS_RESTART" \in m.status

LEMMA ProcessCommand ==
  ASSUME NEW m, GoodMa(m) PROVE MA_ProcessRecvPacket(m).sendCmd = m.sendCmd
<1> DEFINE n == MA_ProcessRecvPacket(m)
           r == RecvPacketDone(m)
<1>1. CASE "BIOS_RESTART" \in m.status
  BY <1>1, ProcessRecvPacketEffect DEF Waits, SameLine
<1>2. CASE "BIOS_RESTART" \notin m.status
  <2>1. n.sendCmd = r.sendCmd
    BY <1>2, ProcessRecvPacketEffect
  <2>2. CASE m.recvCmd # "CHECK_STATUS"
    BY <2>1, <2>2, RecvPacketDoneEffect
  <2>3. CASE m.recvCmd = "CHECK_STATUS"
    <3>1. r = MA_ProcessCheckStatusResponse(m, m.answer)
      BY <2>3 DEF RecvPacketDone
    <3>2. r.sendCmd = m.sendCmd
      BY <3>1, CheckStatusEffect DEF Fails
    <3> QED
      BY <2>1, <3>2
  <2> QED
    BY <2>2, <2>3
<1> QED
  BY <1>1, <1>2

LEMMA WaitTimeCommand ==
  ASSUME NEW m, GoodMa(m) PROVE Undisturbed(m, MA_IntrTimer_SIOWaitTime(m))
<1> DEFINE s == MABIOS_Start2(m)
           r == [m EXCEPT !.intrMode = "SEND"]
           i == [m EXCEPT !.intrMode = "IDLE", !.counter = 0,
                          !.condition = @ \ {"BIOS_BUSY"}]
<1>1. s.sendCmd \in {m.sendCmd, "START"}
  BY Start2Effect DEF Sends, Fails
<1>2. StopWait(m).sendCmd = m.sendCmd
  BY StopWaitEffect DEF SameLine, Fails
<1>3. GoodMa(r) /\ r.sendCmd = m.sendCmd /\ i.sendCmd = m.sendCmd
  <2>1. GoodMa(r)
    BY SMT DEF GoodMa, CallOver, BodyPending, MaType, IntrModes
  <2>2. r.sendCmd = m.sendCmd /\ i.sendCmd = m.sendCmd
    BY SMT DEF GoodMa, MaType, MaFields
  <2> QED
    BY <2>1, <2>2
<1> HIDE DEF s, r, i
<1>4. MA_SendRetry(r).sendCmd = r.sendCmd
  BY <1>3, SMT DEF MA_SendRetry, GoodMa, MaType, MaFields
<1> QED
  BY <1>1, <1>2, <1>3, <1>4 DEF MA_IntrTimer_SIOWaitTime, Undisturbed, s, r, i

LEMMA TimerCommand == ASSUME Inv, Timer PROVE Undisturbed(gMA, gMA')
<1>1. SUFFICES ASSUME "BIOS_BUSY" \in gMA.condition PROVE Undisturbed(gMA, gMA')
  BY DEF Undisturbed
<1>2. GoodMa(gMA) /\ AfterApi = gMA
  BY <1>1 DEF Inv, Sound, AfterApi, MAAPI_Main
<1>3. ASSUME NEW m, GoodMa(m), Undisturbed(gMA, m), Restarted(m)
      PROVE  Undisturbed(gMA, gMA')
  <2>1. [m EXCEPT !.tm3 = TRUE].sendCmd = m.sendCmd
    BY <1>3, EndsCommand
  <2> QED
    BY <1>3, <2>1 DEF Restarted, Undisturbed
<1>4. ~TimerTask
  BY <1>2 DEF TimerTask
<1>5. ~TimerIdle
  BY <1>1, <1>2 DEF TimerIdle, PacketReady, Inv, Sound, Exchange
<1>6. CASE TimerPacket
  <2>1. GoodMa(MA_ProcessRecvPacket(gMA))
    BY <1>2, ProcessRecvPacketGood
  <2>2. Undisturbed(gMA, MA_ProcessRecvPacket(gMA))
    BY <1>2, ProcessCommand DEF Undisturbed
  <2> QED
    BY <1>2, <1>3, <1>6, <2>1, <2>2 DEF TimerPacket
<1>7. CASE TimerWait
  <2>1. GoodMa(MA_IntrTimer_SIOWaitTime(gMA))
    BY <1>2, SIOWaitTimeGood
  <2> QED
    BY <1>2, <1>3, <1>7, <2>1, WaitTimeCommand DEF TimerWait
<1>8. /\ GoodMa(MA_IntrTimer_SIOSend(gMA)) /\ GoodMa(MA_IntrTimer_SIORecv(gMA))
      /\ Undisturbed(gMA, MA_IntrTimer_SIOSend(gMA))
      /\ Undisturbed(gMA, MA_IntrTimer_SIORecv(gMA))
  BY <1>2, SendingSame, SIOSendGood, SIORecvGood DEF Same, SameLine, Undisturbed
<1>9. CASE TimerSend
  BY <1>2, <1>3, <1>8, <1>9 DEF TimerSend
<1>10. CASE TimerRecv
  BY <1>2, <1>3, <1>8, <1>10 DEF TimerRecv
<1> QED
  BY <1>4, <1>5, <1>6, <1>7, <1>9, <1>10 DEF Timer

\* A game calls nothing beside a command of a task but MA_Stop, which keeps it;
\* beside a keep-alive or a poll it has a session, and no call sends at once.
LEMMA OpensQuiet ==
  ASSUME NEW m, Accepted(m), m.connMode = "OFFLINE" PROVE "BIOS_BUSY" \notin m.condition
  BY DEF Accepted, Sound, Calling, QuietOffline

LEMMA TaskSetCommand ==
  ASSUME NEW m, GoodMa(m), NEW task, NEW step
  PROVE  MA_TaskSet(m, task, step).sendCmd = m.sendCmd
<1> DEFINE n == MA_TaskSet(m, task, step)
<1>1. /\ n.task = task /\ n.taskStep = step /\ n.connMode = m.connMode
      /\ n.offline = m.offline
      /\ n.condition = IF task = "NONE" THEN m.condition \ {"APIWAIT"} ELSE m.condition
      /\ n.status = m.status /\ n.intrMode = m.intrMode
      /\ n.retryCount = m.retryCount /\ SameLine(m, n)
  BY TaskSetEffect
<1> QED
  BY <1>1 DEF SameLine

LEMMA PreExeCommand ==
  ASSUME NEW m, Accepted(m)
  PROVE  GoodMa(MA_ApiPreExe(m)) /\ MA_ApiPreExe(m).sendCmd = m.sendCmd
  BY PreExeGood, ApiPreExeEffect DEF Accepted, Sound, SameLine

LEMMA StopCommand ==
  ASSUME NEW m, GoodMa(m), "ERROR" \notin m.condition
  PROVE  m.apiMagic => MA_Stop(m).sendCmd = m.sendCmd
<1> DEFINE w == [m EXCEPT !.condition = (@ \ {"BUFFER_FULL"}) \cup {"APIWAIT"}]
           c == MA_TaskSet(w, "STOP", 0)
           s == MA_TaskSet(w, "STOP", 1)
           x == MA_CancelRequest(c)
<1>1. m.apiMagic => MA_Stop(m) \in {m, x, s}
  BY DEF MA_Stop
<1>2. GoodMa(w)
  BY SMT DEF GoodMa, CallOver, BodyPending, MaType, ConditionFlags
<1>3. w.sendCmd = m.sendCmd /\ w.condition = (m.condition \ {"BUFFER_FULL"}) \cup {"APIWAIT"}
  BY SMT DEF GoodMa, MaType, MaFields
<1> HIDE DEF w
<1>4. c.sendCmd = m.sendCmd /\ s.sendCmd = m.sendCmd
  BY <1>2, <1>3, TaskSetCommand
<1>5. GoodMa(c)
  <2>1. "STOP" \in Tasks /\ 0 \in 0..255 /\ "ERROR" \notin w.condition
    BY <1>3 DEF Tasks
  <2> QED
    BY <1>2, <2>1, TaskSetGood
<1> HIDE DEF c, s
<1>6. x.sendCmd = c.sendCmd
  BY <1>5, CancelRequestEffect DEF Waits, SameLine
<1> QED
  BY <1>1, <1>4, <1>6

LEMMA GameCommand ==
  ASSUME ~Misuse, Inv, Game, "BIOS_BUSY" \in gMA.condition
  PROVE  gMA'.sendCmd = gMA.sendCmd
<1>1. Sound(gMA) /\ GoodMa(gMA)
  BY DEF Inv, Sound
<1>2. ASSUME NEW task, task \in {"INITLIBRARY", "INITLIBRARY2"} PROVE ~InitLibrary(task)
  BY <1>1 DEF InitLibrary, Settled, Sound, Calling, TaskAwaited, Stopping, QuietOffline
<1>3. ~End
  BY <1>1 DEF End, Settled, Sound, Calling, TaskAwaited, Stopping, QuietOffline
<1>4. ASSUME NEW call, MayCall(call)
      PROVE  Accepted(gMA) /\ gMA.connMode # "OFFLINE" /\ CallAllowed(gMA, call)
  <2>1. Accepted(gMA) /\ CallAllowed(gMA, call)
    BY <1>1, <1>4 DEF MayCall, Settled, CallAllowed, Accepted
  <2> QED
    BY <2>1, OpensQuiet
<1>5. ~TelServer /\ ~Tel /\ ~Receive /\ ~EEPROMRead
  BY <1>4 DEF TelServer, Tel, Receive, EEPROMRead, CallAllowed, ApiValisStatusCheck,
     ValidIn
<1> DEFINE e == MA_ApiPreExe(gMA)
<1>6. ASSUME Accepted(gMA) PROVE GoodMa(e) /\ e.sendCmd = gMA.sendCmd
  BY <1>6, PreExeCommand
<1>7. CASE \E task \in {"CONDITION", "CONDITION2"} : Condition(task)
  <2>1. PICK task : MayCall(task) /\ Returns(MA_ConditionMain(gMA, task))
    BY <1>7 DEF Condition
  <2> DEFINE s == [e EXCEPT !.offline = FALSE]
  <2>2. /\ Accepted(gMA) /\ gMA.connMode # "OFFLINE" /\ CallAllowed(gMA, task)
        /\ GoodMa(e) /\ e.sendCmd = gMA.sendCmd
    BY <1>4, <1>6, <2>1
  <2>3. gMA' = MA_TaskSet(s, task, 1)
    BY <2>1, <2>2 DEF MA_ConditionMain, Returns
  <2> HIDE DEF e
  <2>4. GoodMa(s)
    BY <2>2, SMT DEF GoodMa, CallOver, BodyPending, MaType
  <2>5. s.sendCmd = e.sendCmd
    BY <2>2, SMT DEF GoodMa, MaType, MaFields
  <2> HIDE DEF s
  <2> QED
    BY <2>2, <2>3, <2>4, <2>5, TaskSetCommand
<1>8. CASE Offline
  <2>1. PICK step : Accepted(gMA) /\ gMA' = MA_TaskSet(e, "OFFLINE", step)
    <3>1. /\ Accepted(gMA) /\ gMA.connMode # "OFFLINE" /\ CallAllowed(gMA, "OFFLINE")
          /\ Returns(MA_Offline(gMA))
      BY <1>4, <1>8 DEF Offline
    <3> QED
      BY <3>1 DEF MA_Offline, Returns
  <2> HIDE DEF e
  <2> QED
    BY <1>6, <2>1, TaskSetCommand
<1>9. ASSUME Accepted(gMA), NEW flags,
             \/ gMA' = [e EXCEPT !.condition = @ \ flags]
             \/ gMA' = [e EXCEPT !.status = @ \cup flags]
      PROVE  gMA'.sendCmd = gMA.sendCmd
  <2> HIDE DEF e
  <2>1. /\ [e EXCEPT !.condition = @ \ flags].sendCmd = e.sendCmd
        /\ [e EXCEPT !.status = @ \cup flags].sendCmd = e.sendCmd
    BY <1>6, <1>9, SMT DEF GoodMa, MaType, MaFields
  <2> QED
    BY <1>6, <1>9, <2>1
<1>10. CASE SData
  <2>1. Accepted(gMA) /\ CallAllowed(gMA, "SDATA") /\ Returns(MA_SData(gMA, TRUE))
    BY <1>4, <1>10 DEF SData, Legal
  <2>2. \/ gMA' = [e EXCEPT !.condition = @ \ {"APIWAIT"}]
        \/ gMA' = [e EXCEPT !.status = @ \cup {"PTP_SEND"}]
    BY <2>1 DEF MA_SData, Returns
  <2> HIDE DEF e
  <2> QED
    BY <1>9, <2>1, <2>2
<1>11. CASE GData
  <2>1. PICK more : /\ Accepted(gMA) /\ CallAllowed(gMA, "GDATA")
                    /\ "PTP_GET" \in gMA.condition /\ Returns(MA_GData(gMA, more))
    BY <1>4, <1>11 DEF GData
  <2>2. gMA' = [e EXCEPT !.condition = @ \ (IF more THEN {"APIWAIT"}
                                                    ELSE {"APIWAIT", "PTP_GET"})]
    BY <2>1 DEF MA_GData, Returns
  <2> HIDE DEF e
  <2> QED
    BY <1>9, <2>1, <2>2
<1>12. CASE Stop
  BY <1>1, <1>12, StopCommand DEF Stop, Returns
<1>13. CASE ErrorCheck
  <2>1. \A error : [gMA EXCEPT !.error = error,
                               !.condition = @ \ {"ERROR"}].sendCmd = gMA.sendCmd
    BY <1>1, SMT DEF GoodMa, MaType, MaFields
  <2> QED
    BY <1>13, <2>1 DEF ErrorCheck, Returns, MAAPI_ErrorCheck
<1> QED
  BY <1>2, <1>3, <1>5, <1>7, <1>8, <1>10, <1>11, <1>12, <1>13 DEF Game

LEMMA CommandStep ==
  ASSUME ~Misuse PROVE Inv /\ [Next]_vars => Undisturbed(gMA, gMA')
<1>1. UNCHANGED vars => Undisturbed(gMA, gMA')
  BY DEF vars, Undisturbed
<1>2. ASSUME Inv, Game PROVE Undisturbed(gMA, gMA')
  BY <1>2, GameCommand DEF Undisturbed
<1>3. ASSUME Inv, Serial PROVE Undisturbed(gMA, gMA')
  BY <1>3, SerialCommand DEF Undisturbed
<1> QED
  BY <1>1, <1>2, <1>3, TimerCommand DEF Next

\* While a command is in flight no other is sent, but for the START by which a
\* restart gives it up: of all that a game may call and all the interrupts do,
\* MA_IntrTimer_SIOWaitTime (ma_bios.c:1813) alone replaces it.
THEOREM LibMaOneCommandAtATime == ASSUME ~Misuse PROVE Spec => OneCommandAtATime
<1> DEFINE Step == "BIOS_BUSY" \in gMA.condition /\ gMA.sendCmd' # gMA.sendCmd
                     => gMA.sendCmd' = "START" /\ "BIOS_RESTART" \in gMA.status
<1>1. Inv /\ [Next]_vars => [Step]_vars
  BY CommandStep DEF Undisturbed
<1> QED
  BY <1>1, SoundAlways, PTL DEF Spec, OneCommandAtATime

----------------------------------------------------------------------------
(* What may change the code of an error.                                   *)

\* Beside an unread error nothing is under way and nobody has a session.
LEMMA UnreadStill ==
  ASSUME "CHECK_STATUS" \notin Refusable, Inv, "ERROR" \in gMA.condition
  PROVE  /\ gMA.intrMode = "IDLE" /\ {"SIO_RECV_DONE", "CONNECTED"} \cap gMA.status = {}
         /\ rx = 0 /\ gMA.task = "NONE" /\ GoodMa(gMA)
<1>1. GoodMa(gMA) /\ gMA.task = "NONE"
  BY DEF Inv, Sound, GoodMa, CallOver
<1>2. "BIOS_BUSY" \notin gMA.condition /\ "CONNECTED" \notin gMA.status
  BY DEF Inv, Sound, Quiet, LineKnown, Checked
<1>3. rx = 0
  BY <1>2 DEF Inv, Wire, Receiving, Underway
<1> QED
  BY <1>1, <1>2, <1>3 DEF Inv, Sound, Exchange

\* The handlers' last assignments leave the error alone.
LEMMA EndsError ==
  ASSUME NEW m, GoodMa(m)
  PROVE  HandlerEnds(m).error = m.error /\ [m EXCEPT !.tm3 = TRUE].error = m.error
  BY SMT DEF HandlerEnds, GoodMa, MaType, MaFields

LEMMA ErrorStep ==
  ASSUME ~Misuse, "CHECK_STATUS" \notin Refusable, Inv, Next,
         "ERROR" \in gMA.condition, "ERROR" \in gMA'.condition
  PROVE  gMA'.error = gMA.error
<1>1. /\ gMA.intrMode = "IDLE" /\ {"SIO_RECV_DONE", "CONNECTED"} \cap gMA.status = {}
      /\ rx = 0 /\ gMA.task = "NONE" /\ GoodMa(gMA)
  BY UnreadStill
<1>2. ~Game
  <2>1. ASSUME NEW task PROVE ~MayCall(task)
    BY DEF MayCall, CallAllowed
  <2>2. ASSUME NEW task \in {"INITLIBRARY", "INITLIBRARY2"} PROVE ~InitLibrary(task)
    BY InitLibrarySound DEF InitLibrary, Returns
  <2>3. ~End
    BY DEF End, Returns, MA_End, Zero
  <2>4. ~ErrorCheck
    <3>1. "ERROR" \notin MAAPI_ErrorCheck(gMA).condition
      BY <1>1, SMT DEF MAAPI_ErrorCheck, GoodMa, MaType, MaFields
    <3> QED
      BY <3>1 DEF ErrorCheck, Returns
  <2> QED
    BY <2>1, <2>2, <2>3, <2>4 DEF Game, Condition, TelServer, Tel, Receive, EEPROMRead,
       Offline, SData, GData, Stop
<1>3. CASE Timer
  <2>1. AfterApi = gMA
    BY DEF AfterApi, MAAPI_Main
  <2>2. MA_IntrTimer_SIOIdle(gMA) = gMA
    BY <1>1 DEF MA_IntrTimer_SIOIdle
  <2>3. gMA' = [gMA EXCEPT !.tm3 = TRUE]
    BY <1>1, <1>3, <2>1, <2>2 DEF Timer, TimerTask, BiosTurn, PacketReady, TimerPacket,
       TimerIdle, TimerWait, TimerSend, TimerRecv, Restarted
  <2> QED
    BY <1>1, <2>3, EndsError
<1>4. CASE Serial
  <2>1. gMA' = HandlerEnds(gMA)
    BY <1>1, <1>4 DEF Serial, SioSend, SioIgnored, SioRecvByte, SioRecvWord, SioRecvRest
  <2> QED
    BY <1>1, <2>1, EndsError
<1> QED
  BY <1>2, <1>3, <1>4 DEF Next

\* The game reads the error that ended its call: until MAAPI_ErrorCheck no
\* interrupt puts the code of a later one in its place.
THEOREM LibMaErrorKept ==
  ASSUME ~Misuse, "CHECK_STATUS" \notin Refusable PROVE Spec => ErrorKept
<1> DEFINE Step == {"ERROR"} \subseteq gMA.condition \cap gMA'.condition
                     => gMA'.error = gMA.error
<1>1. Inv /\ [Next]_vars => [Step]_vars
  BY ErrorStep
<1> QED
  BY <1>1, SoundAlways, PTL DEF Spec, ErrorKept


----------------------------------------------------------------------------
(* What the parts of a task leave alone.                                   *)

\* The timer goes on, no transfer is started, and no reply comes in.
Calm(m, n) ==
  /\ n.tm3 = m.tm3 \/ n.tm3 = TRUE
  /\ n.sio = m.sio /\ n.answer = m.answer
  /\ n.recvCmd = m.recvCmd \/ n.recvCmd = None
  /\ "TIMER_ENABLED" \in m.status => "TIMER_ENABLED" \in n.status
  /\ "SIO_RECV_DONE" \in n.status => "SIO_RECV_DONE" \in m.status

LEMMA CalmTrans ==
  ASSUME NEW m, NEW n, NEW k, Calm(m, n), Calm(n, k) PROVE Calm(m, k)
  BY DEF Calm

LEMMA SetErrorCalm ==
  ASSUME NEW m, GoodMa(m), NEW error, NEW n, n = MA_SetError(m, error)
  PROVE  Calm(m, n)
<1> DEFINE r == IF error = "MA_NOT_FOUND" THEN MA_Reset(m) ELSE m
           c == (r.condition \cup {"ERROR"}) \ {"BIOS_BUSY", "APIWAIT", "BUFFER_FULL"}
<1>1. GoodMa(r) /\ Calm(m, r)
  <2>1. Calm(m, m)
    BY DEF Calm
  <2>2. Calm(m, MA_Reset(m))
    BY SMT DEF Calm, MA_Reset, GoodMa, MaType, MaFields
  <2> QED
    BY <2>1, <2>2, ResetGood
<1>2. n = [r EXCEPT !.error = error, !.intrMode = "IDLE",
                    !.sendState = "IDLE", !.recvState = "IDLE", !.task = "NONE",
                    !.condition = c]
  BY DEF MA_SetError
<1> HIDE DEF r, c
<1>3. Calm(r, n)
  BY <1>1, <1>2, SMT DEF Calm, GoodMa, MaType, MaFields
<1> QED
  BY <1>1, <1>3, CalmTrans

LEMMA PartsCalm ==
  ASSUME NEW m, GoodMa(m)
  PROVE  /\ Calm(m, MA_Reset(m)) /\ Calm(m, NextStep(m)) /\ Calm(m, TaskDone(m))
         /\ \A step : Calm(m, GoTo(m, step)) /\ Calm(m, DefaultFail(m, step))
         /\ \A error, step : Calm(m, Fail(m, error, step))
         /\ \A task, step : Calm(m, MA_TaskSet(m, task, step))
<1> USE DEF GoodMa, MaType, MaFields, Calm
<1>1. Calm(m, MA_Reset(m))
  BY SMT DEF MA_Reset
<1>2. Calm(m, NextStep(m))
  BY SMT DEF NextStep
<1>3. ASSUME NEW task, NEW step PROVE Calm(m, MA_TaskSet(m, task, step))
  BY SMT DEF MA_TaskSet
<1>4. ASSUME NEW step PROVE Calm(m, GoTo(m, step))
  BY SMT DEF GoTo
<1>5. ASSUME NEW step, NEW error PROVE Calm(m, Fail(m, error, step))
  BY SMT DEF Fail
<1>6. ASSUME NEW step PROVE Calm(m, DefaultFail(m, step))
  <2>1. PICK e : MA_DefaultNegaResProc(m) = [m EXCEPT !.taskError = e]
    BY DEF MA_DefaultNegaResProc
  <2>2. DefaultFail(m, step) = [[m EXCEPT !.taskError = e] EXCEPT !.taskStep = step]
    BY <2>1 DEF DefaultFail, GoTo
  <2> QED
    BY <2>2, SMT
<1> HIDE DEF Calm
<1> QED
  BY <1>1, <1>2, <1>3, <1>4, <1>5, <1>6 DEF TaskDone

LEMMA RequestCalm ==
  ASSUME NEW m, GoodMa(m), NEW cmd \in Commands, NEW timeout \in Timeouts,
         NEW n, n = Request(m, cmd, timeout)
  PROVE  Calm(m, n) /\ (CanSend(m) => n.recvCmd = None /\ "TIMER_ENABLED" \in n.status)
<1> DEFINE p == MA_PreSend(m)
<1>1. GoodMa(p) /\ Calm(m, p) /\ p.recvCmd = None
  <2>1. Calm(m, p) /\ p.recvCmd = None
    BY SMT DEF Calm, MA_PreSend, GoodMa, MaType, MaFields
  <2> QED
    BY <2>1, PreSendGood
<1> HIDE DEF p
<1>2. Calm(p, StartSend(p, cmd, timeout)) /\ StartSend(p, cmd, timeout).recvCmd = None
      /\ "TIMER_ENABLED" \in StartSend(p, cmd, timeout).status
  BY <1>1, SMT DEF Calm, StartSend, GoodMa, MaType, MaFields
<1>3. CASE CanSend(m)
  <2>1. n = StartSend(p, cmd, timeout)
    BY <1>3 DEF Request, p
  <2> QED
    BY <1>1, <1>2, <2>1, CalmTrans
<1>4. CASE ~CanSend(m)
  BY <1>4, SetErrorCalm DEF Request
<1> QED
  BY <1>3, <1>4

LEMMA StartCalm ==
  ASSUME NEW m, GoodMa(m), CanSend(m), NEW n, n = MABIOS_Start(m)
  PROVE  Calm(m, n) /\ n.recvCmd = None /\ n.tm3 = TRUE /\ "TIMER_ENABLED" \in n.status
<1> DEFINE s == StartSend(MA_PreSend(m), "START", "30")
<1>1. s = Request(m, "START", "30") /\ "START" \in Commands /\ "30" \in Timeouts
  BY DEF Request, Commands, Timeouts
<1>2. GoodMa(s)
  BY <1>1, PreSendGood, StartSendGood
<1>3. Calm(m, s) /\ s.recvCmd = None /\ "TIMER_ENABLED" \in s.status
  BY <1>1, RequestCalm
<1>4. n = [s EXCEPT !.sendState = "PRESTART", !.sendLeft = 1, !.tm3 = TRUE]
  BY DEF MABIOS_Start
<1> HIDE DEF s
<1>5. Calm(s, n) /\ n.recvCmd = s.recvCmd /\ n.tm3 = TRUE /\ n.status = s.status
  BY <1>2, <1>4, SMT DEF Calm, GoodMa, MaType, MaFields
<1> QED
  BY <1>3, <1>5, CalmTrans

----------------------------------------------------------------------------
(* What the library can say of a call.                                     *)

Asks == {"CONDITION", "CONDITION2"}
Hangs == {"lost", "hungup"}

\* Only the keep-alive asks for the line in a session, unless the game does;
\* the line is never lost if the adapter does not say so.
Asked(m) ==
  /\ m.task \in Asks => m.task \in Calls
  /\ /\ Calls \cap Asks = {} /\ m.connMode # "OFFLINE"
     /\ Live(m) /\ m.sendCmd = "CHECK_STATUS"
     => "CONNTEST" \in m.status
  /\ LineAnswers \cap Hangs = {} => m.answer \notin Hangs

\* MA_Offline has sent its END and ends when that is answered, or times out.
Leaving(m) ==
  m.task = "OFFLINE" /\ m.taskStep = 3 /\ "SIO_SEND_TIMEOUT" \notin m.status =>
    /\ {"BIOS_RESTART", "BIOS_STOP"} \cap m.status = {} /\ m.sendCmd = "END"
    /\ m.recvCmd = "ERROR" =>
         m.negaResCmd = "END" \/ m.intrMode = "RECV" \/ "SIO_RECV_DONE" \in m.status

\* No refusal is left that the next call would take for an answer to it.
Answered(m) ==
  /\ m.task = "NONE" /\ m.connMode = "OFFLINE" /\ "ERROR" \notin m.condition
  /\ m.recvCmd = "ERROR"
  => m.negaResCmd = "END"

Told(m) == Asked(m) /\ Leaving(m) /\ Answered(m)

\* A call is pending, or there is a session.
Engaged(m) == "APIWAIT" \in m.condition \/ m.connMode # "OFFLINE"

\* A task goes on.
Goes(m, n) ==
  /\ "ERROR" \notin n.condition /\ ("APIWAIT" \in n.condition <=> "APIWAIT" \in m.condition)
  /\ n.task = m.task /\ n.connMode = m.connMode
  /\ Live(n) /\ n.sendCmd = "CHECK_STATUS" => m.connMode = "OFFLINE" \/ m.task \in Asks
  /\ Leaving(n)

\* What is under way fails, with or without the end of the session.
Breaks(m, n) ==
  /\ "ERROR" \notin m.condition /\ "ERROR" \in n.condition /\ "APIWAIT" \notin n.condition
  /\ Engaged(m) /\ n.task = "NONE" /\ n.connMode \in {m.connMode, "OFFLINE"}

\* The task of a call is over.
Completes(m, n) ==
  /\ "ERROR" \notin m.condition /\ "ERROR" \notin n.condition
  /\ Engaged(m) /\ "APIWAIT" \notin n.condition /\ n.task = "NONE"
  /\ m.task \in {"TELSERVER", "TEL", "RECEIVE"} => n.connMode # "OFFLINE"
  /\ m.task \in {"INITLIBRARY", "INITLIBRARY2", "EEPROM_READ", "OFFLINE", "STOP"} =>
       n.connMode = "OFFLINE"
  /\ m.task \in Asks => n.connMode \in {m.connMode, "OFFLINE"}
  /\ m.task = "NONE" => n.connMode = m.connMode

Turn(m, n) ==
  /\ Calm(m, n)
  /\ \/ Goes(m, n) \/ Breaks(m, n)
     \/ Completes(m, n) /\ ~Live(n) /\ Answered(n)

\* A task that runs, for a call or to stop a session.
Runs(m) == Free(m) /\ m.task # "NONE"

LEMMA RunsEngaged ==
  ASSUME NEW m, Runs(m)
  PROVE  /\ Engaged(m) /\ "ERROR" \notin m.condition /\ ~Live(m) /\ GoodMa(m) /\ CanSend(m)
         /\ m.intrMode = "IDLE" /\ "SIO_RECV_DONE" \notin m.status
<1>1. CanSend(m) /\ m.intrMode = "IDLE" /\ "SIO_RECV_DONE" \notin m.status
  BY FreeIdle DEF Runs
<1> QED
  BY <1>1 DEF Runs, Free, Sound, Calling, TaskAwaited, Stopping, Engaged, Live

LEMMA StepTurn ==
  ASSUME NEW m, Runs(m), NEW n, OtherStep(m, n), Calm(m, n), Leaving(n)
  PROVE  Turn(m, n)
<1>1. "ERROR" \notin m.condition /\ ~Live(m)
  BY RunsEngaged
<1> QED
  BY <1>1 DEF Turn, Goes, OtherStep, Live

LEMMA SentTurn ==
  ASSUME NEW m, Runs(m), NEW n, Calm(m, n),
         n.condition = (m.condition \ {"TCPCLOSED"}) \cup {"BIOS_BUSY"},
         n.task = m.task, n.connMode = m.connMode, Leaving(n),
         n.sendCmd = "CHECK_STATUS" => m.connMode = "OFFLINE" \/ m.task \in Asks
  PROVE  Turn(m, n)
<1>1. "ERROR" \notin m.condition
  BY RunsEngaged
<1> QED
  BY <1>1 DEF Turn, Goes

LEMMA FailsTurn ==
  ASSUME NEW m, Runs(m), NEW n, Calm(m, n), Fails(m, n) PROVE Turn(m, n)
<1>1. "ERROR" \notin m.condition /\ Engaged(m)
  BY RunsEngaged
<1> QED
  BY <1>1 DEF Turn, Breaks, Fails

\* A turn of a task that has been sent to another step first.
LEMMA TurnTrans ==
  ASSUME NEW m, NEW n, NEW k, Calm(m, n), n.task = m.task, n.connMode = m.connMode,
         \A f \in {"ERROR", "APIWAIT"} : f \in n.condition <=> f \in m.condition,
         Turn(n, k)
  PROVE  Turn(m, k)
<1>1. Calm(n, k)
  BY DEF Turn
<1>2. Calm(m, k)
  BY <1>1, CalmTrans
<1>3. /\ Goes(n, k) => Goes(m, k)
      /\ Breaks(n, k) => Breaks(m, k)
      /\ Completes(n, k) => Completes(m, k)
  BY DEF Goes, Breaks, Completes, Engaged
<1> QED
  BY <1>2, <1>3 DEF Turn

\* A command of a task, and its next step.
LEMMA RequestTurn ==
  ASSUME NEW m, Runs(m), NEW cmd \in Commands, NEW timeout \in Timeouts,
         NEW n, n = Request(m, cmd, timeout), NEW k, OtherStep(n, k), Calm(n, k),
         cmd = "CHECK_STATUS" => m.connMode = "OFFLINE" \/ m.task \in Asks,
         m.task = "OFFLINE" /\ k.taskStep = 3 => cmd = "END" /\ "CONNECTED" \in m.status
                                                 /\ LineKnown
  PROVE  Turn(m, k)
<1>1. GoodMa(m) /\ CanSend(m) /\ m.intrMode = "IDLE" /\ "SIO_RECV_DONE" \notin m.status
  BY RunsEngaged
<1>2. Sends(m, n, cmd)
  BY <1>1, RequestEffect
<1>3. Calm(m, n) /\ n.recvCmd = None
  BY <1>1, RequestCalm
<1>4. Calm(m, k) /\ k.recvCmd = None
  BY <1>3, CalmTrans DEF Calm
<1>5. /\ k.condition = (m.condition \ {"TCPCLOSED"}) \cup {"BIOS_BUSY"}
      /\ k.task = m.task /\ k.connMode = m.connMode /\ k.sendCmd = cmd
      /\ k.status = (m.status \ {"SIO_RETRY"}) \cup {"TIMER_ENABLED"}
  BY <1>2 DEF Sends, OtherStep, SameLine, SameCall
<1>6. Leaving(k)
  <2>1. "BIOS_RESTART" \in m.status /\ "CONNECTED" \in m.status => ~LineKnown
    BY <1>1 DEF Runs, Free, Sound, Quiet, Checked
  <2>2. "BIOS_STOP" \in m.status => "BIOS_RESTART" \in m.status
    BY <1>1 DEF Runs, Free, Sound, Quiet, Retreat
  <2> QED
    BY <1>4, <1>5, <2>1, <2>2 DEF Leaving, None
<1> QED
  BY <1>4, <1>5, <1>6, SentTurn
LEMMA SendTurn ==
  ASSUME NEW m, Runs(m), NEW cmd \in Commands, NEW timeout \in Timeouts,
         cmd = "CHECK_STATUS" => m.connMode = "OFFLINE" \/ m.task \in Asks,
         m.task = "OFFLINE" /\ m.taskStep = 2 =>
           cmd = "END" /\ "CONNECTED" \in m.status /\ LineKnown
  PROVE  Turn(m, NextStep(Request(m, cmd, timeout)))
<1> DEFINE n == Request(m, cmd, timeout)
           k == NextStep(n)
<1>1. GoodMa(m) /\ CanSend(m) /\ m.taskStep \in 0..255
  BY RunsEngaged DEF GoodMa, MaType
<1>2. GoodMa(n)
  BY <1>1, RequestGood
<1>3. n.taskStep = m.taskStep
  BY <1>1, RequestEffect DEF Sends, SameCall
<1>4. n = Request(m, cmd, timeout)
  OBVIOUS
<1> HIDE DEF n
<1>5. OtherStep(n, k) /\ k.taskStep = (n.taskStep + 1) % 256
  BY <1>2, NextStepEffect
<1>6. Calm(n, k)
  BY <1>2, PartsCalm
<1>7. k.taskStep = 3 => m.taskStep = 2
  BY <1>1, <1>3, <1>5, SMT
<1> HIDE DEF k
<1>8. Turn(m, k)
  BY <1>4, <1>5, <1>6, <1>7, RequestTurn
<1> QED
  BY <1>8 DEF k, n

\* The requests of the tasks, by their functions.
LEMMA SendStepsTurn ==
  ASSUME NEW m, Runs(m), m.task # "OFFLINE"
  PROVE  /\ Turn(m, NextStep(MABIOS_EEPROM_Read(m)))
         /\ Turn(m, NextStep(MABIOS_Tel(m)))
         /\ Turn(m, NextStep(MABIOS_PPPConnect(m)))
         /\ Turn(m, NextStep(MABIOS_WaitCall(m)))
         /\ Turn(m, NextStep(MABIOS_Offline(m)))
         /\ Turn(m, NextStep(MABIOS_End(m)))
         /\ (m.connMode = "OFFLINE" \/ m.task \in Asks =>
               Turn(m, NextStep(MABIOS_CheckStatus(m))))
<1>1. /\ {"EEPROM_READ", "TEL", "PPP_CONNECT", "WAIT_CALL", "OFFLINE", "END",
          "CHECK_STATUS"} \subseteq Commands
      /\ {"30", "90"} \subseteq Timeouts
  BY DEF Commands, Timeouts
<1>2. ASSUME NEW cmd \in {"EEPROM_READ", "TEL", "PPP_CONNECT", "WAIT_CALL", "OFFLINE", "END"},
             NEW timeout \in {"30", "90"}
      PROVE  Turn(m, NextStep(Request(m, cmd, timeout)))
  BY <1>1, SendTurn
<1>3. m.connMode = "OFFLINE" \/ m.task \in Asks =>
        Turn(m, NextStep(Request(m, "CHECK_STATUS", "30")))
  BY <1>1, SendTurn
<1> QED
  BY <1>2, <1>3 DEF MABIOS_EEPROM_Read, MABIOS_Tel, MABIOS_PPPConnect, MABIOS_WaitCall,
     MABIOS_Offline, MABIOS_End, MABIOS_CheckStatus

\* The task goes on at another step.
Shift(m, n) == On(m, n) /\ OtherStep(m, n) /\ Calm(m, n)

LEMMA ShiftTurn ==
  ASSUME NEW m, Runs(m), NEW n, Shift(m, n)
  PROVE  /\ Runs(n) /\ n.task = m.task /\ n.connMode = m.connMode
         /\ \A k : Turn(n, k) => Turn(m, k)
         /\ n.task # "OFFLINE" => Turn(m, n)
<1>1. Runs(n) /\ n.task = m.task /\ n.connMode = m.connMode
  BY DEF Shift, On, Runs
<1>2. n.condition = m.condition /\ Calm(m, n) /\ OtherStep(m, n)
  BY DEF Shift, OtherStep
<1>3. ASSUME NEW k, Turn(n, k) PROVE Turn(m, k)
  BY <1>1, <1>2, <1>3, TurnTrans
<1>4. n.task # "OFFLINE" => Turn(m, n)
  BY <1>2, StepTurn DEF Leaving
<1> QED
  BY <1>1, <1>3, <1>4

LEMMA StepsShift ==
  ASSUME NEW m, Runs(m), NEW step \in 0..255, MayGo(m, step)
  PROVE  /\ Shift(m, m)
         /\ Shift(m, GoTo(m, step)) /\ GoTo(m, step).taskStep = step
         /\ Shift(m, DefaultFail(m, step)) /\ DefaultFail(m, step).taskStep = step
         /\ \A error \in Errors : Shift(m, Fail(m, error, step))
<1>1. GoodMa(m) /\ Free(m)
  BY RunsEngaged DEF Runs
<1>2. /\ On(m, GoTo(m, step)) /\ GoTo(m, step).taskStep = step
      /\ On(m, DefaultFail(m, step)) /\ DefaultFail(m, step).taskStep = step
      /\ \A error \in Errors : On(m, Fail(m, error, step))
  BY <1>1, StepsOn
<1>3. /\ OtherStep(m, GoTo(m, step)) /\ OtherStep(m, DefaultFail(m, step))
      /\ \A error \in Errors : OtherStep(m, Fail(m, error, step))
  BY <1>1, GoToEffect, DefaultFailEffect, FailEffect
<1>4. /\ Calm(m, GoTo(m, step)) /\ Calm(m, DefaultFail(m, step))
      /\ \A error \in Errors : Calm(m, Fail(m, error, step))
  BY <1>1, PartsCalm
<1>5. Shift(m, m)
  BY <1>1 DEF Shift, On, Kept, Free, OtherStep, SameLine, Calm
<1> QED
  BY <1>2, <1>3, <1>4, <1>5 DEF Shift

LEMMA FailsShift ==
  ASSUME NEW m, Runs(m), m.task \notin {"CONDITION", "CONDITION2"}
  PROVE  /\ Shift(m, m)
         /\ \A step \in {0, 2, 4, 6, 249, 250, 251} :
              /\ Shift(m, GoTo(m, step)) /\ Shift(m, DefaultFail(m, step))
              /\ \A error \in Errors : Shift(m, Fail(m, error, step))
<1>1. \A step \in {0, 2, 4, 6, 249, 250, 251} : step \in 0..255
  OBVIOUS
<1>2. \A step : MayGo(m, step)
  BY DEF MayGo
<1> QED
  BY <1>1, <1>2, StepsShift

LEMMA NextShift ==
  ASSUME NEW m, Runs(m), m.taskStep \notin {251, 255} PROVE Shift(m, NextStep(m))
<1>1. GoodMa(m) /\ Sound(m) /\ Free(m)
  BY RunsEngaged DEF Runs, Free
<1>2. On(m, NextStep(m))
  BY <1>1, NextStepKept
<1> QED
  BY <1>1, <1>2, NextStepEffect, PartsCalm DEF Shift

LEMMA StartTurn ==
  ASSUME NEW m, Runs(m), m.task # "OFFLINE" PROVE Turn(m, NextStep(MABIOS_Start(m)))
<1> DEFINE s == MABIOS_Start(m)
           n == NextStep(s)
<1>1. GoodMa(m) /\ CanSend(m)
  BY RunsEngaged
<1>2. GoodMa(s) /\ Sends(m, s, "START") /\ Calm(m, s)
  BY <1>1, StartGood, StartEffect, StartCalm
<1> HIDE DEF s
<1>3. OtherStep(s, n) /\ Calm(s, n)
  BY <1>2, NextStepEffect, PartsCalm
<1> HIDE DEF n
<1>4. Calm(m, n)
  BY <1>2, <1>3, CalmTrans
<1>5. Turn(m, n)
  BY <1>2, <1>3, <1>4, SentTurn DEF Sends, SameCall, OtherStep, SameLine, Leaving
<1> QED
  BY <1>5 DEF n, s

LEMMA ChangeClockTurn ==
  ASSUME NEW m, Runs(m), m.task # "OFFLINE", m.taskStep \notin {251, 255}
  PROVE  Turn(m, MABIOS_ChangeClock(NextStep(m)))
<1> DEFINE n == NextStep(m)
           k == MABIOS_ChangeClock(n)
<1>1. Shift(m, n)
  BY NextShift
<1> HIDE DEF n
<1>2. Runs(n) /\ n.task # "OFFLINE"
  BY <1>1, ShiftTurn
<1>3. k = Request(n, "CHANGE_CLOCK", "30") /\ "CHANGE_CLOCK" \in Commands /\ "30" \in Timeouts
  BY DEF MABIOS_ChangeClock, Commands, Timeouts
<1>4. OtherStep(k, k) /\ Calm(k, k)
  BY DEF OtherStep, SameLine, Calm
<1> HIDE DEF k
<1>5. Turn(n, k)
  BY <1>2, <1>3, <1>4, RequestTurn
<1> QED
  BY <1>1, <1>5, ShiftTurn DEF k, n

LEMMA EndAtThreeTurn ==
  ASSUME NEW m, Runs(m), m.task # "OFFLINE" PROVE Turn(m, GoTo(MABIOS_End(m), 3))
<1> DEFINE n == MABIOS_End(m)
           k == GoTo(n, 3)
<1>1. GoodMa(m)
  BY RunsEngaged
<1>2. n = Request(m, "END", "30") /\ "END" \in Commands /\ "30" \in Timeouts /\ GoodMa(n)
  BY <1>1, RequestsGood DEF MABIOS_End, Commands, Timeouts
<1> HIDE DEF n
<1>3. OtherStep(n, k) /\ Calm(n, k)
  BY <1>2, GoToEffect, PartsCalm
<1> HIDE DEF k
<1>4. Turn(m, k)
  BY <1>2, <1>3, RequestTurn
<1> QED
  BY <1>4 DEF k, n

\* The ways a task ends.
LEMMA DoneTurn ==
  ASSUME NEW m, Runs(m),
         m.task \in {"INITLIBRARY", "INITLIBRARY2", "EEPROM_READ", "OFFLINE"} \cup Asks,
         Refused(m) => m.negaResCmd = "END"
  PROVE  Turn(m, TaskDone(MA_Reset(m)))
<1> DEFINE r == MA_Reset(m)
           n == TaskDone(r)
<1>1. GoodMa(m) /\ Engaged(m) /\ "ERROR" \notin m.condition /\ ~Live(m)
  BY RunsEngaged
<1>2. /\ n.task = "NONE" /\ n.connMode = "OFFLINE" /\ n.intrMode = "IDLE"
      /\ n.condition = m.condition \ {"PTP_GET", "CONNECT", "APIWAIT"}
      /\ n.status = m.status \ {"CONNECTED", "CONN_PTP", "PTP_SEND_DONE",
                                 "PTP_SEND", "CONNTEST"}
      /\ n.negaResCmd = m.negaResCmd
  BY <1>1, DoneAfterReset
<1>3. GoodMa(r) /\ Calm(m, r) /\ r.recvCmd = m.recvCmd
  BY <1>1, ResetGood, PartsCalm, ResetEffect
<1> HIDE DEF r
<1>4. Calm(r, n) /\ n.recvCmd = r.recvCmd
  BY <1>3, PartsCalm, TaskDoneEffect DEF SameLine
<1> HIDE DEF n
<1>5. Calm(m, n)
  BY <1>3, <1>4, CalmTrans
<1>6. Completes(m, n)
  BY <1>1, <1>2 DEF Completes, Asks
<1>7. ~Live(n) /\ Answered(n)
  BY <1>1, <1>2, <1>3, <1>4 DEF Live, Answered, Refused
<1>8. Turn(m, n)
  BY <1>5, <1>6, <1>7 DEF Turn
<1> QED
  BY <1>8 DEF n, r

LEMMA ReportTurn ==
  ASSUME NEW m, Runs(m)
  PROVE  /\ Turn(m, ReportAndReset(m))
         /\ Turn(m, TaskDone(MA_SetApiError(m, m.taskError)))
<1>1. GoodMa(m) /\ m.taskError \in Errors
  BY RunsEngaged DEF GoodMa, MaType
<1>2. ASSUME NEW r \in {m, MA_Reset(m)}
      PROVE  Calm(m, TaskDone(MA_SetApiError(r, m.taskError)))
  <2> DEFINE e == MA_SetApiError(r, m.taskError)
             n == TaskDone(e)
  <2>1. GoodMa(r) /\ Calm(m, r)
    <3>1. Calm(m, m)
      BY DEF Calm
    <3> QED
      BY <1>1, <1>2, <3>1, ResetGood, PartsCalm
  <2>2. GoodMa(e) /\ Calm(r, e)
    BY <1>1, <2>1, SetErrorGood, SetErrorCalm DEF MA_SetApiError
  <2> HIDE DEF e
  <2>3. Calm(e, n)
    BY <2>2, PartsCalm
  <2> HIDE DEF n
  <2>4. Calm(m, n)
    BY <2>1, <2>2, <2>3, CalmTrans
  <2> QED
    BY <2>4 DEF n, e
<1>3. /\ Fails(m, TaskDone(MA_SetApiError(m, m.taskError)))
      /\ Fails(m, TaskDone(MA_SetApiError(MA_Reset(m), m.taskError)))
  BY <1>1, ReportFails, ResetReportFails
<1> QED
  BY <1>2, <1>3, FailsTurn DEF ReportAndReset

\* A task that has connected is done.
LEMMA EnterTurn ==
  ASSUME NEW m, Runs(m)
  PROVE  /\ m.task = "TELSERVER" =>
              Turn(m, TaskDone(MA_SetCondition([m EXCEPT !.connMode = "PPP"], "PPP")))
         /\ m.task \in {"TEL", "RECEIVE"} =>
              \A mode \in {"P2P_SEND", "P2P_RECV"} : Turn(m, EnterP2P(m, mode))
<1>1. GoodMa(m) /\ Engaged(m) /\ "ERROR" \notin m.condition /\ ~Live(m)
  BY RunsEngaged
<1>2. ASSUME NEW r, Calm(m, r), GoodMa(r), r.condition = m.condition,
             r.status \subseteq m.status \cup {"CONN_PTP"},
             m.status \cap {"SIO_RECV_DONE", "BIOS_STOP", "BIOS_RESTART"} \subseteq r.status,
             r.intrMode = m.intrMode,
             r.connMode # "OFFLINE", m.task \in {"TELSERVER", "TEL", "RECEIVE"}
      PROVE  Turn(m, TaskDone(r))
  <2> DEFINE n == TaskDone(r)
  <2>1. /\ n.task = "NONE" /\ n.connMode = r.connMode
        /\ n.condition = r.condition \ {"APIWAIT"} /\ n.status = r.status
        /\ n.intrMode = r.intrMode /\ Calm(r, n)
    BY <1>2, TaskDoneEffect, PartsCalm
  <2> HIDE DEF n
  <2>2. Calm(m, n)
    BY <1>2, <2>1, CalmTrans
  <2>3. Completes(m, n)
    BY <1>1, <1>2, <2>1 DEF Completes, Asks
  <2>4. ~Live(n) /\ Answered(n)
    BY <1>1, <1>2, <2>1 DEF Live, Answered
  <2>5. Turn(m, n)
    BY <2>2, <2>3, <2>4 DEF Turn
  <2> QED
    BY <2>5 DEF n
<1>3. m.task = "TELSERVER" =>
        Turn(m, TaskDone(MA_SetCondition([m EXCEPT !.connMode = "PPP"], "PPP")))
  <2> DEFINE r == MA_SetCondition([m EXCEPT !.connMode = "PPP"], "PPP")
  <2>1. GoodMa(r)
    BY <1>1, SMT DEF MA_SetCondition, GoodMa, CallOver, BodyPending, MaType, Lines, ConnModes
  <2>2. /\ r.condition = m.condition /\ r.status = m.status /\ r.intrMode = m.intrMode
        /\ r.connMode = "PPP" /\ Calm(m, r)
    BY <1>1, SMT DEF MA_SetCondition, GoodMa, MaType, MaFields, Calm
  <2> HIDE DEF r
  <2>3. m.task = "TELSERVER" => Turn(m, TaskDone(r))
    BY <1>2, <2>1, <2>2
  <2> QED
    BY <2>3 DEF r
<1>4. ASSUME NEW mode \in {"P2P_SEND", "P2P_RECV"}, m.task \in {"TEL", "RECEIVE"}
      PROVE  Turn(m, EnterP2P(m, mode))
  <2> DEFINE r == MA_SetCondition(
                    [m EXCEPT !.status = @ \cup {"CONN_PTP"}, !.connMode = mode,
                              !.bufSize = 0, !.eepromCached = FALSE], mode)
  <2>1. GoodMa(r)
    BY <1>1, SMT DEF MA_SetCondition, GoodMa, CallOver, BodyPending, MaType, Lines,
       ConnModes, StatusFlags
  <2>2. /\ r.condition = m.condition /\ r.status = m.status \cup {"CONN_PTP"}
        /\ r.intrMode = m.intrMode /\ r.connMode = mode /\ Calm(m, r)
    BY <1>1, SMT DEF MA_SetCondition, GoodMa, MaType, MaFields, Calm
  <2> HIDE DEF r
  <2>3. Turn(m, TaskDone(r))
    BY <1>2, <1>4, <2>1, <2>2
  <2> QED
    BY <2>3 DEF r, EnterP2P
<1> QED
  BY <1>3, <1>4

----------------------------------------------------------------------------
(* What a turn of each task does to its call.                              *)

LEMMA InitLibraryTurn ==
  ASSUME NEW m, Runs(m), m.task \in {"INITLIBRARY", "INITLIBRARY2"}
  PROVE  Turn(m, MATASK_InitLibrary(m))
<1> DEFINE n == IF Refused(m) /\ m.negaResCmd # "END" THEN DefaultFail(m, 251) ELSE m
<1>1. Shift(m, n) /\ n.taskStep \in {251, m.taskStep}
      /\ (n.taskStep = 251 \/ (Refused(n) => n.negaResCmd = "END"))
  <2>1. 251 \in 0..255 /\ MayGo(m, 251)
    BY DEF MayGo
  <2> QED
    BY <2>1, StepsShift
<1> HIDE DEF n
<1>2. Runs(n) /\ n.task \in {"INITLIBRARY", "INITLIBRARY2"} /\ n.task # "OFFLINE"
  BY <1>1, ShiftTurn
<1>3. n.taskStep = 3 => Turn(n, TaskDone(MA_Reset(n)))
  BY <1>1, <1>2, DoneTurn
<1>4. Turn(n, n)
  BY <1>2, FailsShift, ShiftTurn
<1>5. Turn(n, MATASK_InitLibrary(m))
  BY <1>2, <1>3, <1>4, StartTurn, EndAtThreeTurn, SendStepsTurn, ReportTurn
  DEF MATASK_InitLibrary, n
<1> QED
  BY <1>1, <1>5, ShiftTurn

LEMMA EEPROMReadTurn ==
  ASSUME NEW m, Runs(m), m.task = "EEPROM_READ"
  PROVE  Turn(m, MATASK_EEPROM_Read(m))
<1> DEFINE n == IF ~Refused(m) \/ m.negaResCmd = "END" THEN m
                ELSE IF m.negaResCmd \in {"CHANGE_CLOCK", "EEPROM_READ"}
                THEN DefaultFail(m, 250) ELSE DefaultFail(m, 251)
<1>1. Shift(m, n)
      /\ (n.taskStep \in {250, 251} \/ (Refused(n) => n.negaResCmd = "END"))
  <2>1. {250, 251} \subseteq 0..255 /\ \A step : MayGo(m, step)
    BY DEF MayGo
  <2> QED
    BY <2>1, StepsShift
<1> HIDE DEF n
<1>2. Runs(n) /\ n.task = "EEPROM_READ" /\ n.task # "OFFLINE"
  BY <1>1, ShiftTurn
<1>3. n.taskStep = 5 => Turn(n, TaskDone(MA_Reset(n)))
  BY <1>1, <1>2, DoneTurn
<1>4. Turn(n, n)
  BY <1>2, FailsShift, ShiftTurn
<1>5. n.taskStep = 1 => Turn(n, MABIOS_ChangeClock(NextStep(n)))
  BY <1>2, ChangeClockTurn
<1>6. Turn(n, MATASK_EEPROM_Read(m))
  BY <1>2, <1>3, <1>4, <1>5, StartTurn, SendStepsTurn, ReportTurn
  DEF MATASK_EEPROM_Read, n
<1> QED
  BY <1>1, <1>6, ShiftTurn

\* A task that opens a session has none yet.
LEMMA OpeningAlone ==
  ASSUME NEW m, Runs(m), m.task \in {"TELSERVER", "TEL", "RECEIVE"}
  PROVE  m.connMode = "OFFLINE"
BY DEF Runs, Free, Sound, Calling, OpeningOffline, Opening, InSession

LEMMA TelServerTurn ==
  ASSUME NEW m, Runs(m), m.task = "TELSERVER" PROVE Turn(m, MATASK_TelServer(m))
<1> DEFINE n == IF Refused(m) THEN TelServerNega(m) ELSE m
<1>0. {"CALL_FAILED", "EEPROM_SUM", "PPP_CONNECT", "REGISTRATION"} \subseteq Errors
  BY DEF Errors
<1>1. Shift(m, n)
  BY <1>0, FailsShift DEF TelServerNega
<1> HIDE DEF n
<1>2. Runs(n) /\ n.task = "TELSERVER" /\ n.task # "OFFLINE" /\ GoodMa(n)
  BY <1>1, ShiftTurn, RunsEngaged
<1>3. n.connMode = "OFFLINE"
  BY <1>2, OpeningAlone
<1>4. /\ Turn(n, n) /\ Turn(n, GoTo(n, 6))
      /\ \A error \in {"CALL_FAILED", "EEPROM_SUM", "REGISTRATION"} :
           Turn(n, Fail(n, error, 250))
  <2>1. /\ Shift(n, n) /\ Shift(n, GoTo(n, 6))
        /\ \A error \in {"CALL_FAILED", "EEPROM_SUM", "REGISTRATION"} :
             Shift(n, Fail(n, error, 250))
    BY <1>0, <1>2, FailsShift
  <2>2. \A k : Shift(n, k) => Turn(n, k)
    <3> SUFFICES ASSUME NEW k, Shift(n, k) PROVE Turn(n, k)
      OBVIOUS
    <3> QED
      BY <1>2, ShiftTurn DEF Shift, OtherStep
  <2> QED
    BY <2>1, <2>2
<1>5. n.taskStep = 6 => Turn(n, NextStep(n))
  BY <1>2, NextShift, ShiftTurn
<1>6. n.taskStep = 5 => Turn(n, NextStep([n EXCEPT !.eepromCached = TRUE]))
  <2> DEFINE e == [n EXCEPT !.eepromCached = TRUE]
             k == NextStep(e)
  <2>1. GoodMa(e)
    BY <1>2, SMT DEF GoodMa, CallOver, BodyPending, MaType
  <2>2. Calm(n, e) /\ OtherStep(n, e)
    BY <1>2, SMT DEF GoodMa, MaType, MaFields, Calm, OtherStep, SameLine
  <2> HIDE DEF e
  <2>3. Calm(e, k) /\ OtherStep(e, k)
    BY <2>1, NextStepEffect, PartsCalm
  <2> HIDE DEF k
  <2>4. Calm(n, k) /\ OtherStep(n, k)
    BY <2>2, <2>3, CalmTrans DEF OtherStep, SameLine
  <2>5. Turn(n, k)
    BY <1>2, <2>4, StepTurn DEF Leaving, OtherStep
  <2> QED
    BY <2>5 DEF k, e
<1>7. n.taskStep = 1 => Turn(n, MABIOS_ChangeClock(NextStep(n)))
  BY <1>2, ChangeClockTurn
<1>8. /\ Turn(n, NextStep(MABIOS_CheckStatus(n))) /\ Turn(n, NextStep(MABIOS_EEPROM_Read(n)))
      /\ Turn(n, NextStep(MABIOS_Tel(n))) /\ Turn(n, NextStep(MABIOS_PPPConnect(n)))
      /\ Turn(n, NextStep(MABIOS_Offline(n))) /\ Turn(n, NextStep(MABIOS_End(n)))
      /\ Turn(n, NextStep(MABIOS_Start(n))) /\ Turn(n, ReportAndReset(n))
      /\ Turn(n, TaskDone(MA_SetCondition([n EXCEPT !.connMode = "PPP"], "PPP")))
  BY <1>2, <1>3, StartTurn, SendStepsTurn, ReportTurn, EnterTurn
<1>9. Turn(n, MATASK_TelServer(m))
  BY <1>4, <1>5, <1>6, <1>7, <1>8 DEF MATASK_TelServer, n
<1> QED
  BY <1>1, <1>9, ShiftTurn

LEMMA TelTurn == ASSUME NEW m, Runs(m), m.task = "TEL" PROVE Turn(m, MATASK_Tel(m))
<1> DEFINE n == IF ~Refused(m) \/ m.negaResCmd = "END" THEN m
                ELSE IF m.negaResCmd \in {"TEL", "CHECK_STATUS", "CHANGE_CLOCK",
                                          "EEPROM_READ"}
                THEN DefaultFail(m, 250) ELSE DefaultFail(m, 251)
<1>1. Shift(m, n)
  BY FailsShift
<1> HIDE DEF n
<1>2. Runs(n) /\ n.task = "TEL" /\ n.task # "OFFLINE"
  BY <1>1, ShiftTurn
<1>3. n.connMode = "OFFLINE"
  BY <1>2, OpeningAlone
<1>4. Turn(n, n) /\ Turn(n, Fail(n, "CALL_FAILED", 250))
  <2>1. Shift(n, n) /\ Shift(n, Fail(n, "CALL_FAILED", 250))
    BY <1>2, FailsShift DEF Errors
  <2> QED
    BY <1>2, <2>1, ShiftTurn DEF Shift, OtherStep
<1>5. n.taskStep = 1 => Turn(n, MABIOS_ChangeClock(NextStep(n)))
  BY <1>2, ChangeClockTurn
<1>6. /\ Turn(n, NextStep(MABIOS_CheckStatus(n))) /\ Turn(n, NextStep(MABIOS_Tel(n)))
      /\ Turn(n, NextStep(MABIOS_End(n))) /\ Turn(n, NextStep(MABIOS_Start(n)))
      /\ Turn(n, ReportAndReset(n)) /\ Turn(n, EnterP2P(n, "P2P_SEND"))
  BY <1>2, <1>3, StartTurn, SendStepsTurn, ReportTurn, EnterTurn
<1>7. Turn(n, MATASK_Tel(m))
  BY <1>4, <1>5, <1>6 DEF MATASK_Tel, n
<1> QED
  BY <1>1, <1>7, ShiftTurn

LEMMA ReceiveTurn ==
  ASSUME NEW m, Runs(m), m.task = "RECEIVE" PROVE Turn(m, MATASK_Receive(m))
<1> DEFINE n == IF Refused(m) THEN ReceiveNega(m) ELSE m
<1>1. Shift(m, n)
  BY FailsShift DEF ReceiveNega
<1> HIDE DEF n
<1>2. Runs(n) /\ n.task = "RECEIVE" /\ n.task # "OFFLINE"
  BY <1>1, ShiftTurn
<1>3. Turn(n, n) /\ Turn(n, GoTo(n, IF n.recvCmd = "WAIT_CALL" THEN 4 ELSE 2))
  <2>1. Shift(n, n) /\ Shift(n, GoTo(n, IF n.recvCmd = "WAIT_CALL" THEN 4 ELSE 2))
    BY <1>2, FailsShift
  <2> QED
    BY <1>2, <2>1, ShiftTurn DEF Shift, OtherStep
<1>4. n.taskStep = 1 => Turn(n, MABIOS_ChangeClock(NextStep(n)))
  BY <1>2, ChangeClockTurn
<1>5. /\ Turn(n, NextStep(MABIOS_WaitCall(n))) /\ Turn(n, NextStep(MABIOS_End(n)))
      /\ Turn(n, NextStep(MABIOS_Start(n)))
      /\ Turn(n, ReportAndReset(n)) /\ Turn(n, EnterP2P(n, "P2P_RECV"))
  BY <1>2, StartTurn, SendStepsTurn, ReportTurn, EnterTurn
<1>6. Turn(n, MATASK_Receive(m))
  BY <1>3, <1>4, <1>5 DEF MATASK_Receive, n
<1> QED
  BY <1>1, <1>6, ShiftTurn

\* Either the adapter never says that the line is lost, or the game never asks.
LineStays == LineAnswers \cap Hangs = {} \/ Calls \cap Asks = {}

LEMMA ConditionTurn ==
  ASSUME NEW m, Runs(m), m.task \in {"CONDITION", "CONDITION2"}, LineStays, LineKnown,
         Asked(m)
  PROVE  Turn(m, MATASK_Condition(m))
<1> DEFINE n == IF Refused(m) THEN ConditionNega(m) ELSE m
<1>0. Sound(m) /\ m.negaResCmd # "CHECK_STATUS"
  BY DEF Runs, Free, Sound, Quiet, Checked
<1>1. Shift(m, n) /\ (n.taskStep = 251 \/ (Refused(n) => n.negaResCmd = "END"))
  <2>1. 251 \in 0..255 /\ MayGo(m, 251)
    BY DEF MayGo
  <2> QED
    BY <1>0, <2>1, StepsShift DEF ConditionNega
<1>2. n.answer \notin Hangs
  BY <1>1 DEF Shift, Calm, Asked, LineStays, Asks
<1> HIDE DEF n
<1>3. Runs(n) /\ n.task \in {"CONDITION", "CONDITION2"} /\ n.task # "OFFLINE" /\ n.task \in Asks
  BY <1>1, ShiftTurn DEF Asks
<1>4. /\ GoodMa(n) /\ Engaged(n) /\ "ERROR" \notin n.condition /\ ~Live(n)
      /\ n.intrMode = "IDLE" /\ "SIO_RECV_DONE" \notin n.status
  BY <1>3, RunsEngaged
<1>5. n.taskStep = 2 => LET c == MA_ProcessCheckStatusResponse(n, n.answer)
                        IN Turn(n, IF n.offline THEN GoTo(c, 3) ELSE TaskDone(c))
  <2> DEFINE c == MA_ProcessCheckStatusResponse(n, n.answer)
  <2>1. /\ GoodMa(c) /\ Calm(n, c) /\ c.condition = n.condition
        /\ c.status = n.status \ {"CONNTEST"} /\ c.intrMode = "IDLE"
        /\ c.connMode = n.connMode /\ c.task = n.task /\ c.sendCmd = n.sendCmd
        /\ c.recvCmd = n.recvCmd /\ c.negaResCmd = n.negaResCmd
    <3>1. GoodMa(c)
      BY <1>4, CheckStatusResponseGood
    <3>2. PICK line : c = [[n EXCEPT !.line = line]
                             EXCEPT !.intrMode = "IDLE", !.sendState = "IDLE",
                                    !.recvState = "IDLE", !.status = @ \ {"CONNTEST"}]
      BY <1>2 DEF MA_ProcessCheckStatusResponse, MA_SetCondition, Hangs
    <3> HIDE DEF c
    <3> QED
      BY <1>4, <3>1, <3>2, SMT DEF GoodMa, MaType, MaFields, Calm
  <2> HIDE DEF c
  <2>2. Turn(n, GoTo(c, 3))
    <3> DEFINE k == GoTo(c, 3)
    <3>1. OtherStep(c, k) /\ Calm(c, k)
      BY <2>1, GoToEffect, PartsCalm
    <3> HIDE DEF k
    <3>2. Calm(n, k)
      BY <2>1, <3>1, CalmTrans
    <3>3. Goes(n, k)
      BY <1>3, <1>4, <2>1, <3>1 DEF Goes, OtherStep, Live, Leaving
    <3>4. Turn(n, k)
      BY <3>2, <3>3 DEF Turn
    <3> QED
      BY <3>4 DEF k
  <2>3. n.taskStep = 2 => Turn(n, TaskDone(c))
    <3> DEFINE k == TaskDone(c)
    <3> SUFFICES ASSUME n.taskStep = 2 PROVE Turn(n, k)
      OBVIOUS
    <3>1. /\ Calm(c, k) /\ k.task = "NONE" /\ k.connMode = c.connMode
          /\ k.condition = c.condition \ {"APIWAIT"} /\ k.status = c.status
          /\ k.intrMode = c.intrMode /\ SameLine(c, k)
      BY <2>1, TaskDoneEffect, PartsCalm
    <3> HIDE DEF k
    <3>2. Calm(n, k)
      BY <2>1, <3>1, CalmTrans
    <3>3. Completes(n, k)
      BY <1>3, <1>4, <2>1, <3>1 DEF Completes
    <3>4. ~Live(k) /\ Answered(k)
      BY <1>1, <1>4, <2>1, <3>1 DEF Live, Answered, Refused, SameLine
    <3> QED
      BY <3>2, <3>3, <3>4 DEF Turn
  <2> QED
    BY <2>2, <2>3 DEF c
<1>6. n.taskStep = 4 => Turn(n, TaskDone(MA_Reset(n)))
  BY <1>1, <1>3, DoneTurn
<1>7. Turn(n, n)
  <2>1. 3 \in 0..255 /\ MayGo(n, 3)
    BY DEF MayGo
  <2> QED
    BY <1>3, <2>1, StepsShift, ShiftTurn
<1>8. /\ Turn(n, NextStep(MABIOS_CheckStatus(n))) /\ Turn(n, NextStep(MABIOS_End(n)))
      /\ Turn(n, NextStep(MABIOS_Start(n))) /\ Turn(n, ReportAndReset(n))
      /\ Turn(n, TaskDone(MA_SetApiError(n, n.taskError)))
  BY <1>3, StartTurn, SendStepsTurn, ReportTurn
<1>9. Turn(n, MATASK_Condition(m))
  BY <1>5, <1>6, <1>7, <1>8 DEF MATASK_Condition, n
<1> QED
  BY <1>1, <1>9, ShiftTurn

LEMMA OfflineTurn ==
  ASSUME NEW m, Runs(m), m.task = "OFFLINE", LineKnown, "CONNECTED" \in m.status, Leaving(m)
  PROVE  Turn(m, MATASK_Offline(m))
<1> DEFINE n == IF Refused(m) /\ m.negaResCmd = "DATA" THEN GoTo(m, 0) ELSE m
<1>1. Shift(m, n) /\ n.taskStep \in {0, m.taskStep} /\ Leaving(n)
  <2>1. 0 \in 0..255 /\ MayGo(m, 0)
    BY DEF MayGo
  <2> QED
    BY <2>1, StepsShift DEF Leaving
<1> HIDE DEF n
<1>2. Runs(n) /\ n.task = "OFFLINE" /\ "CONNECTED" \in n.status
  BY <1>1, ShiftTurn DEF Shift, OtherStep
<1>3. /\ GoodMa(n) /\ Engaged(n) /\ "ERROR" \notin n.condition /\ ~Live(n)
      /\ n.intrMode = "IDLE" /\ "SIO_RECV_DONE" \notin n.status
  BY <1>2, RunsEngaged
<1>4. Turn(n, n)
  BY <1>1, <1>2, StepTurn DEF OtherStep, SameLine, Calm
<1>5. n.taskStep = 0 => Turn(n, NextStep(n))
  <2> SUFFICES ASSUME n.taskStep = 0 PROVE Turn(n, NextStep(n))
    OBVIOUS
  <2> DEFINE k == NextStep(n)
  <2>1. Calm(n, k) /\ OtherStep(n, k) /\ k.taskStep = 1
    BY <1>3, NextStepEffect, PartsCalm
  <2> HIDE DEF k
  <2>2. Turn(n, k)
    BY <1>2, <2>1, StepTurn DEF Leaving
  <2> QED
    BY <2>2 DEF k
<1>6. /\ {"PPP_DISCONNECT", "OFFLINE", "END"} \subseteq Commands /\ "30" \in Timeouts
      /\ "CHECK_STATUS" \notin {"PPP_DISCONNECT", "OFFLINE", "END"}
  BY DEF Commands, Timeouts
<1>7. n.taskStep = 0 => Turn(n, NextStep(MABIOS_PPPDisconnect(n)))
  BY <1>2, <1>6, SendTurn DEF MABIOS_PPPDisconnect
<1>8. n.taskStep = 1 => Turn(n, NextStep(MABIOS_Offline(n)))
  BY <1>2, <1>6, SendTurn DEF MABIOS_Offline
<1>9. n.taskStep = 2 => Turn(n, NextStep(MABIOS_End(n)))
  BY <1>2, <1>6, SendTurn DEF MABIOS_End
<1>10. n.taskStep = 3 => Turn(n, TaskDone(MA_Reset(n)))
  <2>1. "SIO_SEND_TIMEOUT" \notin n.status
    BY <1>2, <1>3 DEF Runs, Free, Sound, Quiet, Retreat, Checked
  <2> QED
    BY <1>1, <1>2, <1>3, <2>1, DoneTurn DEF Leaving, Refused
<1>11. Turn(n, MATASK_Offline(m))
  BY <1>4, <1>5, <1>7, <1>8, <1>9, <1>10 DEF MATASK_Offline, n
<1> QED
  BY <1>1, <1>11, ShiftTurn

LEMMA StopTurn == ASSUME NEW m, Runs(m), m.task = "STOP" PROVE Turn(m, MATASK_Stop(m))
<1>1. /\ GoodMa(m) /\ Engaged(m) /\ "ERROR" \notin m.condition /\ ~Live(m)
      /\ m.intrMode = "IDLE" /\ "SIO_RECV_DONE" \notin m.status
  BY RunsEngaged
<1>2. Turn(m, GoTo(MA_BiosStop(m), 2))
  <2> DEFINE b == MA_BiosStop(m)
             n == GoTo(b, 2)
  <2>1. /\ GoodMa(b) /\ Waits(m, b)
        /\ b.status = (m.status \cup {"BIOS_STOP"}) \ {"BIOS_RESTART"}
    BY <1>1, BiosStopGood, BiosStopEffect
  <2>2. Calm(m, b)
    BY <1>1, SMT DEF MA_BiosStop, Calm, GoodMa, MaType, MaFields
  <2> HIDE DEF b
  <2>3. OtherStep(b, n) /\ Calm(b, n)
    BY <2>1, GoToEffect, PartsCalm
  <2> HIDE DEF n
  <2>4. Calm(m, n)
    BY <2>2, <2>3, CalmTrans
  <2>5. Goes(m, n)
    BY <1>1, <2>1, <2>3 DEF Goes, Waits, SameCall, OtherStep, Live, Leaving
  <2>6. Turn(m, n)
    BY <2>4, <2>5 DEF Turn
  <2> QED
    BY <2>6 DEF n, b
<1>3. Turn(m, TaskDone([MA_Reset(m) EXCEPT !.recvCmd = None]))
  <2> DEFINE r == MA_Reset(m)
             e == [r EXCEPT !.recvCmd = None]
             n == TaskDone(e)
  <2>1. /\ GoodMa(r) /\ Calm(m, r) /\ r.intrMode = "IDLE" /\ r.connMode = "OFFLINE"
        /\ r.condition = m.condition \ {"PTP_GET", "CONNECT"}
        /\ r.status \subseteq m.status
        /\ {"BIOS_STOP", "BIOS_RESTART"} \cap m.status \subseteq r.status
    BY <1>1, ResetGood, PartsCalm, ResetEffect
  <2> HIDE DEF r
  <2>2. GoodMa(e)
    BY <2>1, SMT DEF GoodMa, CallOver, BodyPending, MaType
  <2>3. /\ e.intrMode = r.intrMode /\ e.connMode = r.connMode /\ e.condition = r.condition
        /\ e.status = r.status /\ e.recvCmd = None /\ Calm(r, e)
    BY <2>1, SMT DEF GoodMa, MaType, MaFields, Calm
  <2> HIDE DEF e
  <2>4. /\ n.task = "NONE" /\ n.connMode = e.connMode
        /\ n.condition = e.condition \ {"APIWAIT"} /\ n.status = e.status
        /\ n.intrMode = e.intrMode /\ n.recvCmd = e.recvCmd /\ Calm(e, n)
    BY <2>2, TaskDoneEffect, PartsCalm DEF SameLine
  <2> HIDE DEF n
  <2>5. Calm(m, n)
    BY <2>1, <2>3, <2>4, CalmTrans
  <2>6. Completes(m, n)
    BY <1>1, <2>1, <2>3, <2>4 DEF Completes, Asks
  <2>7. ~Live(n) /\ Answered(n)
    BY <1>1, <2>1, <2>3, <2>4 DEF Live, Answered, None
  <2>8. Turn(m, n)
    BY <2>5, <2>6, <2>7 DEF Turn
  <2> QED
    BY <2>8 DEF n, e, r
<1>4. Turn(m, m)
  BY StepTurn DEF OtherStep, SameLine, Calm, Leaving
<1> QED
  BY <1>2, <1>3, <1>4 DEF MATASK_Stop

----------------------------------------------------------------------------
(* MAAPI_Main.                                                             *)

\* The call has not changed.
Unseen(m, n) ==
  /\ \A f \in {"ERROR", "APIWAIT"} : f \in n.condition <=> f \in m.condition
  /\ n.task = m.task /\ n.connMode = m.connMode

\* The game sees nothing, a failure, or the end of its call.
Serves(m, n) == Unseen(m, n) \/ Breaks(m, n) \/ Completes(m, n)

\* MA_Stop may come between MA_SData and the poll that carries its data.
Overlap == {"STOP", "SDATA"} \subseteq Calls

LEMMA TurnTold ==
  ASSUME NEW m, Runs(m), Told(m), NEW n, Sound(n), Turn(m, n), LineKnown
  PROVE  Told(n) /\ Serves(m, n) /\ Calm(m, n)
<1>1. CASE Goes(m, n)
  <2>1. n.task # "NONE"
    BY <1>1 DEF Goes, Runs
  <2>2. Asked(n)
    <3>1. n.task \in Asks => n.task \in Calls
      BY <1>1 DEF Goes, Told, Asked
    <3>2. LineAnswers \cap Hangs = {} => n.answer \notin Hangs
      BY DEF Turn, Calm, Told, Asked
    <3>3. Calls \cap Asks = {} /\ n.connMode # "OFFLINE" /\ Live(n) =>
            n.sendCmd # "CHECK_STATUS"
      BY <1>1, <3>1 DEF Goes
    <3> QED
      BY <3>1, <3>2, <3>3 DEF Asked
  <2>3. "ERROR" \notin m.condition
    BY RunsEngaged
  <2> QED
    BY <1>1, <2>1, <2>2, <2>3 DEF Goes, Turn, Serves, Unseen, Told, Answered
<1>2. ASSUME n.task = "NONE", ~Live(n), Answered(n), Serves(m, n), Turn(m, n)
      PROVE  Told(n) /\ Serves(m, n) /\ Calm(m, n)
  BY <1>2 DEF Turn, Calm, Told, Asked, Leaving, Asks
<1>3. CASE Breaks(m, n)
  <2>1. ~Live(n) /\ n.task = "NONE" /\ Answered(n)
    BY <1>3 DEF Breaks, Sound, Quiet, Checked, Exchange, Live, Answered
  <2> QED
    BY <1>2, <1>3, <2>1 DEF Serves
<1>4. CASE Completes(m, n) /\ ~Live(n) /\ Answered(n)
  BY <1>2, <1>4 DEF Completes, Serves
<1> QED
  BY <1>1, <1>3, <1>4 DEF Turn

LEMMA RunTaskTold ==
  ASSUME NEW m, Free(m), Told(m), LineKnown, LineStays,
         m.task = "OFFLINE" => "CONNECTED" \in m.status, NEW n, n = RunTask(m)
  PROVE  Told(n) /\ Serves(m, n) /\ Calm(m, n)
<1>1. CASE m.task = "NONE"
  BY <1>1 DEF RunTask, Serves, Unseen, Calm
<1>2. CASE m.task # "NONE"
  <2>1. Runs(m) /\ Asked(m) /\ Leaving(m)
    BY <1>2 DEF Runs, Told
  <2>2. Sound(n)
    BY RunTaskKept DEF Kept, Free
  <2>3. m.task \in Tasks
    BY <2>1, RunsEngaged DEF GoodMa, MaType
  <2>4. Turn(m, n)
    BY <1>2, <2>1, <2>3, InitLibraryTurn, TelServerTurn, TelTurn, ReceiveTurn, ConditionTurn,
       OfflineTurn, EEPROMReadTurn, StopTurn DEF RunTask, Tasks
  <2> QED
    BY <2>1, <2>2, <2>4, TurnTold
<1> QED
  BY <1>1, <1>2

\* What Told looks at is the same.
Alike(m, n) ==
  /\ SameLine(m, n) /\ SameCall(m, n) /\ n.intrMode = m.intrMode /\ n.answer = m.answer
  /\ "ERROR" \in n.condition <=> "ERROR" \in m.condition
  /\ \A f \in {"CONNTEST", "SIO_RECV_DONE", "BIOS_STOP", "BIOS_RESTART", "SIO_SEND_TIMEOUT"} :
       f \in n.status <=> f \in m.status

LEMMA AlikeTold == ASSUME NEW m, Told(m), NEW n, Alike(m, n) PROVE Told(n)
<1> USE DEF Alike, SameLine, SameCall, Told
<1>1. Live(n) <=> Live(m)
  BY DEF Live
<1>2. Asked(n)
  BY <1>1 DEF Asked
<1>3. Leaving(n) /\ Answered(n)
  BY DEF Leaving, Answered
<1> QED
  BY <1>2, <1>3

LEMMA FailsTold ==
  ASSUME NEW m, Told(m), NEW n, Sound(n), Fails(m, n), LineKnown,
         LineAnswers \cap Hangs = {} => n.answer \notin Hangs
  PROVE  Told(n)
<1>1. ~Live(n)
  BY DEF Fails, Sound, Quiet, Checked, Exchange, Live
<1> QED
  BY <1>1 DEF Fails, Told, Asked, Leaving, Answered, Asks

LEMMA P2PTaskTold ==
  ASSUME NEW m, Free(m), Told(m), LineKnown, "CONN_PTP" \in m.status, m.sendCmd = "DATA",
         NEW n, n = MATASK_P2P(m)
  PROVE  /\ Told(n) /\ Calm(m, n) /\ Engaged(m)
         /\ \/ n.task = "NONE"
            \/ /\ n.task = m.task
               /\ "CONNECTED" \in m.status => "CONNECTED" \in n.status
         /\ ~Overlap => Unseen(m, n) \/ (n.task = "NONE" /\ Serves(m, n))
<1> DEFINE s == IF "PTP_SEND_DONE" \in m.status
                THEN [m EXCEPT !.status = @ \ {"PTP_SEND_DONE", "PTP_SEND"},
                               !.condition = @ \ {"APIWAIT"}]
                ELSE m
           c == IF s.answer = "whole" THEN s.condition \cup {"PTP_GET"} ELSE s.condition
           e == [s EXCEPT !.bufSize = 0, !.condition = c]
           r == MA_Reset(s)
           f == MA_SetApiError(r, "OFFLINE")
           k == TaskDone(f)
<1>1. /\ GoodMa(m) /\ "SIO_RECV_DONE" \notin m.status /\ "ERROR" \notin m.condition
      /\ m.connMode # "OFFLINE" /\ Engaged(m)
  BY FreeIdle DEF Free, Sound, Calling, SendAwaited, Engaged
<1>2. GoodMa(s)
  BY <1>1, SMT DEF GoodMa, CallOver, BodyPending, MaType
<1>3. /\ Calm(m, s) /\ SameLine(m, s) /\ SameCall(m, s) /\ s.intrMode = m.intrMode
      /\ s.status \in {m.status, m.status \ {"PTP_SEND_DONE", "PTP_SEND"}}
      /\ s.condition = IF "PTP_SEND_DONE" \in m.status THEN m.condition \ {"APIWAIT"}
                                                       ELSE m.condition
  BY <1>1, SMT DEF GoodMa, MaType, MaFields, SameLine, SameCall, Calm
<1> HIDE DEF s
<1>4. Alike(m, s) /\ Told(s)
  <2>1. Alike(m, s)
    BY <1>3 DEF Alike, Calm
  <2> QED
    BY <2>1, AlikeTold
<1>5. ~Overlap => Unseen(m, s) \/ (m.task = "NONE" /\ Completes(m, s))
  <2>1. "PTP_SEND_DONE" \notin m.status => Unseen(m, s)
    BY <1>3 DEF Unseen, SameCall
  <2>2. "PTP_SEND_DONE" \in m.status /\ ~Overlap => m.task = "NONE"
    BY DEF Free, Sound, Calling, SendAwaited, TaskAwaited, Overlap
  <2>3. "PTP_SEND_DONE" \in m.status /\ m.task = "NONE" => Completes(m, s)
    BY <1>1, <1>3 DEF Completes, SameCall, Asks
  <2> QED
    BY <2>1, <2>2, <2>3
<1>6. /\ Told(e) /\ Calm(m, e) /\ SameCall(s, e) /\ e.status = s.status
      /\ \A g \in {"ERROR", "APIWAIT"} : g \in e.condition <=> g \in s.condition
  <2>1. c \in SUBSET ConditionFlags /\ (\A g \in {"ERROR", "APIWAIT"} :
          g \in c <=> g \in s.condition)
    BY <1>2 DEF GoodMa, MaType, ConditionFlags
  <2> HIDE DEF c
  <2>2. e.condition = c /\ e.status = s.status /\ e.intrMode = s.intrMode
        /\ SameLine(s, e) /\ SameCall(s, e) /\ Calm(s, e)
    BY <1>2, SMT DEF GoodMa, MaType, MaFields, SameLine, SameCall, Calm
  <2> HIDE DEF e
  <2>3. Alike(s, e)
    BY <2>1, <2>2 DEF Alike, Calm
  <2> QED
    BY <1>3, <1>4, <2>1, <2>2, <2>3, AlikeTold, CalmTrans
<1>7. Told(k) /\ Calm(m, k) /\ Breaks(m, k) /\ k.task = "NONE"
  <2>1. "OFFLINE" \in Errors
    BY DEF Errors
  <2>2. GoodMa(k) /\ Fails(s, k) /\ "CONNECTED" \notin k.status
    BY <1>2, <2>1, OfflineErrorGood, ResetReportFails
  <2>3. GoodMa(r) /\ Calm(s, r)
    BY <1>2, ResetGood, PartsCalm
  <2> HIDE DEF r
  <2>4. GoodMa(f) /\ Calm(r, f)
    BY <2>1, <2>3, SetErrorGood, SetErrorCalm DEF MA_SetApiError
  <2> HIDE DEF f
  <2>5. Calm(f, k)
    BY <2>4, PartsCalm
  <2> HIDE DEF k
  <2>6. Calm(m, k)
    BY <1>3, <2>3, <2>4, <2>5, CalmTrans
  <2>7. Breaks(m, k)
    BY <1>1, <1>3, <2>2 DEF Breaks, Fails, SameCall
  <2>8. ~Live(k)
    BY <1>1, <2>2, <2>6 DEF Live, Fails, Calm
  <2>9. Told(k)
    BY <2>2, <2>6, <2>8 DEF Fails, Calm, Told, Asked, Leaving, Answered, Asks
  <2> QED
    BY <2>2, <2>6, <2>7, <2>9 DEF Fails
<1>8. n \in {s, e, k}
  BY DEF MATASK_P2P, s, e, k, c, f, r
<1> HIDE DEF e, k
<1>9. CASE n = k
  BY <1>1, <1>7, <1>9 DEF Serves
<1>10. CASE n \in {s, e}
  <2>1. /\ Told(n) /\ Calm(m, n) /\ SameCall(s, n) /\ n.status = s.status
        /\ \A g \in {"ERROR", "APIWAIT"} : g \in n.condition <=> g \in s.condition
    BY <1>3, <1>4, <1>6, <1>10 DEF SameCall
  <2>2. n.task = m.task /\ ("CONNECTED" \in m.status => "CONNECTED" \in n.status)
    BY <1>3, <2>1 DEF SameCall
  <2>3. /\ Unseen(m, s) => Unseen(m, n)
        /\ Completes(m, s) => Completes(m, n)
    BY <2>1 DEF Unseen, Completes, SameCall
  <2> QED
    BY <1>1, <1>5, <2>1, <2>2, <2>3 DEF Serves
<1> QED
  BY <1>8, <1>9, <1>10

\* MAAPI_Main serves the call, if there is one; when it ran before a handler
\* of the bios, that has no exchange to attend to.
LEMMA MainTold ==
  ASSUME NEW m, Sound(m), Told(m), LineKnown, LineStays, NEW n, n = MAAPI_Main(m)
  PROVE  /\ Told(n) /\ Calm(m, n) /\ (Engaged(n) => Engaged(m))
         /\ ~Overlap => Serves(m, n)
         /\ n = m \/ (m.intrMode = "IDLE" /\ "SIO_RECV_DONE" \notin n.status)
<1>1. CASE n = m
  BY <1>1 DEF Calm, Serves, Unseen
<1>2. CASE n # m
  <2> DEFINE p == IF "CONN_PTP" \in m.status /\ m.sendCmd = "DATA"
                  THEN MATASK_P2P(m) ELSE m
  <2>1. /\ n = RunTask(p) /\ Free(m)
        /\ m.task = "OFFLINE" => "CONNECTED" \in m.status
    BY <1>2 DEF MAAPI_Main, Free, Disconnected
  <2>2. m.intrMode = "IDLE" /\ "SIO_RECV_DONE" \notin m.status
    BY <2>1, FreeIdle
  <2>3. /\ Told(p) /\ Calm(m, p) /\ (p # m => Engaged(m))
        /\ \/ p.task = "NONE"
           \/ /\ p.task = m.task
              /\ "CONNECTED" \in m.status => "CONNECTED" \in p.status
        /\ ~Overlap => Unseen(m, p) \/ (p.task = "NONE" /\ Serves(m, p))
        /\ Free(p) \/ p.task = "NONE"
    <3>1. CASE "CONN_PTP" \in m.status /\ m.sendCmd = "DATA"
      BY <2>1, <3>1, P2PTaskTold, P2PTaskKept
    <3>2. CASE ~("CONN_PTP" \in m.status /\ m.sendCmd = "DATA")
      BY <2>1, <3>2 DEF Calm, Unseen
    <3> QED
      BY <3>1, <3>2
  <2> HIDE DEF p
  <2>4. CASE p.task = "NONE"
    <3>1. n = p
      BY <2>1, <2>4 DEF RunTask
    <3> QED
      BY <2>2, <2>3, <3>1 DEF Calm, Serves
  <2>5. CASE p.task # "NONE"
    <3>1. Free(p) /\ (p.task = "OFFLINE" => "CONNECTED" \in p.status)
      BY <2>1, <2>3, <2>5
    <3>2. Told(n) /\ Serves(p, n) /\ Calm(p, n)
      BY <2>1, <2>3, <3>1, RunTaskTold
    <3>3. Calm(m, n)
      BY <2>3, <3>2, CalmTrans
    <3>4. ~Overlap => Serves(m, n)
      BY <2>3, <2>5, <3>2 DEF Serves, Unseen, Breaks, Completes, Engaged
    <3>5. Engaged(p)
      BY <2>5, <3>1, RunsEngaged DEF Runs
    <3>6. Engaged(m)
      BY <2>3, <3>5
    <3> QED
      BY <2>2, <3>2, <3>3, <3>4, <3>6 DEF Calm
  <2> QED
    BY <2>4, <2>5
<1> QED
  BY <1>1, <1>2

----------------------------------------------------------------------------
(* The timer interrupt.                                                    *)

\* A handler of the bios ends no call but by its failure, and goes on.
Fares(m, n) ==
  /\ Told(n) /\ (Unseen(m, n) \/ Breaks(m, n))
  /\ "TIMER_ENABLED" \in m.status /\ Engaged(n) => "TIMER_ENABLED" \in n.status \/ n.sio = TRUE

LEMMA BusyEngaged ==
  ASSUME NEW m, Sound(m), LineKnown, "BIOS_BUSY" \in m.condition
  PROVE  Engaged(m) /\ "ERROR" \notin m.condition /\ ~(m.task = "NONE" /\ m.connMode = "OFFLINE")
BY DEF Sound, Calling, QuietOffline, TaskAwaited, Stopping, Quiet, Checked, Engaged

LEMMA SendingFares ==
  ASSUME NEW m, Sound(m), Told(m), NEW n \in {MA_IntrTimer_SIOSend(m), MA_IntrTimer_SIORecv(m)}
  PROVE  Fares(m, n)
<1>1. GoodMa(m) /\ Same(m, n)
  BY SendingSame DEF Sound
<1>2. n.answer = m.answer /\ (n.status = m.status \/ n.sio = TRUE)
  <2>1. DOMAIN m = MaFields
    BY <1>1 DEF GoodMa, MaType
  <2>2. /\ MA_IntrTimer_SIORecv(m).answer = m.answer
        /\ MA_IntrTimer_SIORecv(m).status = m.status \/ MA_IntrTimer_SIORecv(m).sio = TRUE
    BY <2>1, SMT DEF MaFields, MA_IntrTimer_SIORecv, MA_StartSioTransmit
  <2>3. /\ MA_IntrTimer_SIOSend(m).answer = m.answer
        /\ MA_IntrTimer_SIOSend(m).status = m.status \/ MA_IntrTimer_SIOSend(m).sio = TRUE
    BY <2>1, SMT DEF MaFields, MA_IntrTimer_SIOSend, TransmitRequest, MA_StartSioTransmit
  <2> QED
    BY <2>2, <2>3
<1>3. Alike(m, n)
  BY <1>1, <1>2 DEF Same, SameFlags, Alike
<1>4. Told(n)
  BY <1>3, AlikeTold
<1> QED
  BY <1>1, <1>2, <1>4 DEF Fares, Unseen, Same, SameFlags, SameCall

LEMMA P2PPollFares ==
  ASSUME NEW m, Sound(m), Told(m), "BIOS_BUSY" \notin m.condition,
         "ERROR" \notin m.condition, m.connMode # "OFFLINE", m.task = "NONE",
         NEW n, n = P2PPoll(m)
  PROVE  Fares(m, n) /\ Unseen(m, n)
<1> DEFINE b == [m EXCEPT !.bufSize = 0]
           d == Request(b, "DATA", "30")
<1>1. GoodMa(m) /\ "DATA" \in Commands /\ "30" \in Timeouts
  BY DEF Sound, Commands, Timeouts
<1>2. GoodMa(b)
  BY <1>1, SMT DEF GoodMa, CallOver, BodyPending, MaType
<1>3. b.condition = m.condition /\ b.status = m.status /\ SameCall(m, b) /\ b.answer = m.answer
  BY <1>1, SMT DEF GoodMa, MaType, MaFields, SameCall
<1> HIDE DEF b
<1>4. GoodMa(d) /\ Sends(b, d, "DATA") /\ Calm(b, d)
  BY <1>1, <1>2, <1>3, RequestEffect, RequestGood, RequestCalm DEF CanSend
<1>5. n = IF "PTP_SEND" \in m.status THEN [d EXCEPT !.status = @ \cup {"PTP_SEND_DONE"}]
          ELSE d
  BY DEF P2PPoll, MABIOS_Data, b, d
<1> HIDE DEF d
<1>6. /\ n.condition = d.condition /\ n.sendCmd = d.sendCmd /\ SameCall(d, n)
      /\ n.answer = d.answer /\ d.status \subseteq n.status
  BY <1>4, <1>5, SMT DEF GoodMa, MaType, MaFields, SameCall
<1>7. Unseen(m, n)
  BY <1>3, <1>4, <1>6 DEF Unseen, Sends, SameCall
<1>8. Told(n)
  BY <1>3, <1>4, <1>6 DEF Sends, SameCall, Told, Asked, Leaving, Answered, Asks, Calm
<1> QED
  BY <1>4, <1>6, <1>7, <1>8 DEF Fares, Sends

LEMMA KeepAliveFares ==
  ASSUME NEW m, Sound(m), Told(m), m.connMode # "OFFLINE", m.task = "NONE",
         NEW n, n = MABIOS_CheckStatus2(m)
  PROVE  Fares(m, n) /\ Unseen(m, n)
<1>1. GoodMa(m)
  BY DEF Sound
<1>2. \/ n = m
      \/ /\ n.condition = m.condition \cup {"BIOS_BUSY"}
         /\ n.status = m.status \cup {"TIMER_ENABLED", "CONNTEST"} /\ SameCall(m, n)
  BY <1>1, CheckStatus2Effect
<1>3. n.answer = m.answer
  BY <1>1, SMT DEF MABIOS_CheckStatus2, StartSend, GoodMa, MaType, MaFields
<1>4. CASE n = m
  BY <1>4 DEF Fares, Unseen
<1>5. CASE n # m
  <2>1. Told(n)
    BY <1>2, <1>3, <1>5 DEF SameCall, Told, Asked, Leaving, Answered, Asks
  <2> QED
    BY <1>2, <1>5, <2>1 DEF Fares, Unseen, SameCall
<1> QED
  BY <1>4, <1>5

LEMMA SIOIdleFares ==
  ASSUME NEW m, Sound(m), Told(m), LineKnown, m.intrMode = "IDLE",
         "SIO_RECV_DONE" \notin m.status, NEW n, n = MA_IntrTimer_SIOIdle(m)
  PROVE  Fares(m, n) /\ Unseen(m, n)
<1> DEFINE c == [m EXCEPT !.counter = @ + 1]
           z == [m EXCEPT !.counter = 0]
<1>1. GoodMa(m)
  BY DEF Sound
<1>2. GoodMa(c) /\ GoodMa(z)
  BY <1>1, SMT DEF GoodMa, CallOver, BodyPending, MaType
<1>3. /\ Same(m, c) /\ c.answer = m.answer /\ c.status = m.status
      /\ Same(m, z) /\ z.answer = m.answer /\ z.status = m.status
  BY <1>1, SMT DEF GoodMa, MaType, MaFields, Same, SameFlags, SameLine, SameCall
<1>4. n = m \/ n = c
      \/ /\ m.task = "NONE" /\ "CONNECTED" \in m.status
         /\ n \in {P2PPoll(z), MABIOS_CheckStatus2(z)}
  BY DEF MA_IntrTimer_SIOIdle
<1> HIDE DEF c, z
<1>5. /\ Told(m) /\ Told(c) /\ Told(z) /\ Unseen(m, m) /\ Unseen(m, c) /\ Unseen(m, z)
      /\ Sound(z)
  <2>1. Alike(m, c) /\ Alike(m, z)
    BY <1>3 DEF Same, SameFlags, Alike
  <2>2. Told(c) /\ Told(z)
    BY <2>1, AlikeTold
  <2>3. Sound(z)
    BY <1>2, <1>3, SameKept DEF Kept
  <2> QED
    BY <1>3, <2>2, <2>3 DEF Same, SameFlags, SameCall, Unseen
<1>6. CASE n \in {m, c}
  BY <1>3, <1>5, <1>6 DEF Fares
<1>7. CASE /\ m.task = "NONE" /\ "CONNECTED" \in m.status
           /\ n \in {P2PPoll(z), MABIOS_CheckStatus2(z)}
  <2>1. /\ "BIOS_BUSY" \notin m.condition /\ "ERROR" \notin m.condition
        /\ m.connMode # "OFFLINE"
    BY <1>7 DEF Sound, Exchange, Calling, QuietOffline, Quiet, Checked
  <2>2. /\ "BIOS_BUSY" \notin z.condition /\ "ERROR" \notin z.condition
        /\ z.connMode # "OFFLINE" /\ z.task = "NONE"
    BY <1>3, <1>7, <2>1 DEF Same, SameFlags, SameCall
  <2>3. Fares(z, n) /\ Unseen(z, n)
    BY <1>5, <1>7, <2>2, P2PPollFares, KeepAliveFares
  <2> QED
    BY <1>3, <1>5, <2>3 DEF Fares, Unseen
<1> QED
  BY <1>4, <1>6, <1>7

\* While an exchange is under way a handler cannot forget what was answered.
LEMMA HeldTold ==
  ASSUME NEW m, Sound(m), Told(m), LineKnown, "BIOS_BUSY" \in m.condition, NEW n,
         SameCall(m, n), LineAnswers \cap Hangs = {} => n.answer \notin Hangs,
         \A f \in {"ERROR", "APIWAIT"} : f \in n.condition <=> f \in m.condition,
         Live(n) /\ n.sendCmd = "CHECK_STATUS" =>
           /\ Live(m) /\ m.sendCmd = "CHECK_STATUS"
           /\ "CONNTEST" \in m.status => "CONNTEST" \in n.status,
         Leaving(n)
  PROVE  Told(n) /\ Unseen(m, n)
<1>1. ~(m.task = "NONE" /\ m.connMode = "OFFLINE")
  BY BusyEngaged
<1>2. Asked(n)
  BY DEF SameCall, Told, Asked
<1>3. Answered(n)
  BY <1>1 DEF SameCall, Answered
<1> QED
  BY <1>2, <1>3 DEF Told, Unseen, SameCall

LEMMA FailsFares ==
  ASSUME NEW m, Sound(m), Told(m), LineKnown, "BIOS_BUSY" \in m.condition, NEW n, Sound(n),
         Fails(m, n), LineAnswers \cap Hangs = {} => n.answer \notin Hangs
  PROVE  Told(n) /\ Breaks(m, n)
BY BusyEngaged, FailsTold DEF Fails, Breaks

LEMMA StopWaitFares ==
  ASSUME NEW m, Sound(m), Told(m), LineKnown, "BIOS_BUSY" \in m.condition,
         "SIO_RECV_DONE" \notin m.status, "BIOS_STOP" \in m.status,
         NEW n, n = StopWait(m), Sound(n)
  PROVE  Fares(m, n)
<1> DEFINE s == [m EXCEPT !.status = @ \ {"BIOS_STOP"}, !.intrMode = "IDLE",
                          !.condition = @ \ {"BIOS_BUSY"}]
           r == MA_Reset(s)
           t == MA_TaskSet(r, "NONE", 0)
           e == MA_SetError(t, "TIMEOUT")
<1>0. GoodMa(m) /\ "NONE" \in Tasks /\ 0 \in 0..255 /\ "TIMEOUT" \in Errors
  BY DEF Sound, Tasks, Errors
<1>1. GoodMa(s)
  BY <1>0, SMT DEF GoodMa, CallOver, BodyPending, MaType, IntrModes
<1>2. Calm(m, s)
  BY <1>0, SMT DEF GoodMa, MaType, MaFields, Calm
<1>3. \/ n = s
      \/ n = [e EXCEPT !.status = @ \ {"SIO_SEND_TIMEOUT"}, !.counter = 0]
  BY DEF StopWait
<1> HIDE DEF s
<1>4. GoodMa(r) /\ Calm(s, r)
  BY <1>1, ResetGood, PartsCalm
<1> HIDE DEF r
<1>5. GoodMa(t) /\ Calm(r, t)
  BY <1>0, <1>4, TaskSetGood, PartsCalm
<1> HIDE DEF t
<1>6. GoodMa(e) /\ Calm(t, e)
  BY <1>0, <1>5, SetErrorGood, SetErrorCalm
<1> HIDE DEF e
<1>7. Calm(e, [e EXCEPT !.status = @ \ {"SIO_SEND_TIMEOUT"}, !.counter = 0])
  BY <1>6, SMT DEF GoodMa, MaType, MaFields, Calm
<1>8. Calm(m, n)
  BY <1>2, <1>3, <1>4, <1>5, <1>6, <1>7, CalmTrans
<1>9. \/ /\ n.condition = m.condition \ {"BIOS_BUSY"}
         /\ n.status = m.status \ {"BIOS_STOP"} /\ n.intrMode = "IDLE"
         /\ SameCall(m, n) /\ "SIO_SEND_TIMEOUT" \notin m.status
      \/ Fails(m, n)
  BY <1>0, StopWaitEffect
<1>10. LineAnswers \cap Hangs = {} => n.answer \notin Hangs
  BY <1>8 DEF Calm, Told, Asked
<1>11. CASE Fails(m, n)
  BY <1>8, <1>10, <1>11, FailsFares DEF Fares, Calm
<1>12. CASE /\ n.condition = m.condition \ {"BIOS_BUSY"}
            /\ n.status = m.status \ {"BIOS_STOP"} /\ n.intrMode = "IDLE"
            /\ SameCall(m, n) /\ "SIO_SEND_TIMEOUT" \notin m.status
  <2>1. ~Live(n)
    BY <1>12 DEF Live
  <2>2. Leaving(n)
    BY <1>12 DEF Leaving, Told, SameCall
  <2>3. \A f \in {"ERROR", "APIWAIT"} : f \in n.condition <=> f \in m.condition
    BY <1>12
  <2>4. Told(n) /\ Unseen(m, n)
    BY <1>10, <1>12, <2>1, <2>2, <2>3, HeldTold
  <2> QED
    BY <1>8, <2>4 DEF Fares, Calm
<1> QED
  BY <1>9, <1>11, <1>12

LEMMA RestartFares ==
  ASSUME NEW m, Sound(m), Told(m), LineKnown, "BIOS_BUSY" \in m.condition,
         "BIOS_RESTART" \in m.status, NEW n, n = MABIOS_Start2(m)
  PROVE  Fares(m, n)
<1> DEFINE b == [m EXCEPT !.tm3 = FALSE, !.condition = @ \ {"BIOS_BUSY"}]
<1>1. GoodMa(m) /\ "ERROR" \notin m.condition /\ "START" \in Commands /\ "02" \in Timeouts
  BY BusyEngaged DEF Sound, Commands, Timeouts
<1>2. Sends(m, n, "START")
  BY <1>1, Start2Effect
<1>3. GoodMa(b) /\ b.answer = m.answer
  <2>1. GoodMa(b)
    BY <1>1, SMT DEF GoodMa, CallOver, BodyPending, MaType
  <2>2. b.answer = m.answer
    BY <1>1, SMT DEF GoodMa, MaType, MaFields
  <2> QED
    BY <2>1, <2>2
<1>4. n = Request(b, "START", "02")
  BY DEF MABIOS_Start2
<1> HIDE DEF b
<1>5. n.answer = m.answer
  <2>1. Calm(b, n)
    BY <1>1, <1>3, <1>4, RequestCalm
  <2> QED
    BY <1>3, <2>1 DEF Calm
<1>6. Leaving(n)
  BY <1>2 DEF Sends, SameCall, Told, Leaving
<1>7. LineAnswers \cap Hangs = {} => n.answer \notin Hangs
  BY <1>5 DEF Told, Asked
<1>8. Told(n) /\ Unseen(m, n)
  BY <1>2, <1>6, <1>7, HeldTold DEF Sends
<1> QED
  BY <1>2, <1>8 DEF Fares, Sends

LEMMA SIOWaitTimeFares ==
  ASSUME NEW m, Sound(m), Told(m), LineKnown, m.intrMode = "WAIT",
         "SIO_RECV_DONE" \notin m.status, NEW n, n = MA_IntrTimer_SIOWaitTime(m)
  PROVE  Fares(m, n)
<1>1. GoodMa(m) /\ "BIOS_BUSY" \in m.condition /\ Sound(n)
  BY SIOWaitTimeKept DEF Sound, Exchange, Kept
<1>2. CASE "BIOS_RESTART" \in m.status
  BY <1>1, <1>2, RestartFares DEF MA_IntrTimer_SIOWaitTime
<1>3. CASE "BIOS_RESTART" \notin m.status /\ "BIOS_STOP" \in m.status
  BY <1>1, <1>3, StopWaitFares DEF MA_IntrTimer_SIOWaitTime
<1>4. CASE {"BIOS_RESTART", "BIOS_STOP"} \cap m.status = {}
  <2>1. /\ n.status = m.status /\ n.intrMode \in {"SEND", "IDLE"} /\ n.answer = m.answer
        /\ n.sendCmd = m.sendCmd /\ n.recvCmd = m.recvCmd /\ n.negaResCmd = m.negaResCmd
        /\ SameCall(m, n)
        /\ n.condition \in {m.condition, m.condition \ {"BIOS_BUSY"}}
    BY <1>1, <1>4, SMT DEF MA_IntrTimer_SIOWaitTime, MA_SendRetry, GoodMa, MaType, MaFields,
       SameCall
  <2>2. Live(m)
    BY <1>4 DEF Live
  <2>3. Leaving(n)
    BY <2>1 DEF Leaving, Told, SameCall
  <2>4. LineAnswers \cap Hangs = {} => n.answer \notin Hangs
    BY <2>1 DEF Told, Asked
  <2>5. \A f \in {"ERROR", "APIWAIT"} : f \in n.condition <=> f \in m.condition
    BY <2>1
  <2>6. Told(n) /\ Unseen(m, n)
    BY <1>1, <2>1, <2>2, <2>3, <2>4, <2>5, HeldTold
  <2> QED
    BY <2>1, <2>6 DEF Fares
<1> QED
  BY <1>2, <1>3, <1>4

\* The line has been checked: it is still there, or the keep-alive has found
\* that it is gone.
LEMMA LineChecked ==
  ASSUME NEW m, GoodMa(m), "ERROR" \notin m.condition,
         m.answer \notin Hangs \/ m.connMode = "OFFLINE" \/ "CONNTEST" \in m.status,
         NEW n, n = MA_ProcessCheckStatusResponse(m, m.answer)
  PROVE  /\ n.intrMode = "IDLE" /\ n.answer = m.answer
         /\ \/ /\ n.condition = m.condition /\ n.status = m.status \ {"CONNTEST"}
               /\ SameCall(m, n) /\ n.sendCmd = m.sendCmd
            \/ Fails(m, n) /\ n.connMode = "OFFLINE" /\ n.status = {}
<1> DEFINE s == [m EXCEPT !.status = {}]
           e == MA_SetError(s, "OFFLINE")
           y == MA_Reset(e)
<1>1. CASE m.answer \notin Hangs \/ m.connMode = "OFFLINE"
  <2>1. PICK line : n = [[m EXCEPT !.line = line]
                           EXCEPT !.intrMode = "IDLE", !.sendState = "IDLE",
                                  !.recvState = "IDLE", !.status = @ \ {"CONNTEST"}]
    BY <1>1 DEF MA_ProcessCheckStatusResponse, MA_SetCondition, Hangs, HangUp
  <2> QED
    BY <2>1, SMT DEF GoodMa, MaType, MaFields, SameCall
<1>2. CASE ~(m.answer \notin Hangs \/ m.connMode = "OFFLINE")
  <2>1. PICK line : n = [[y EXCEPT !.line = line]
                           EXCEPT !.intrMode = "IDLE", !.sendState = "IDLE",
                                  !.recvState = "IDLE", !.status = @ \ {"CONNTEST"}]
    BY <1>2 DEF MA_ProcessCheckStatusResponse, MA_SetCondition, Hangs, HangUp
  <2>2. GoodMa(s)
    BY SMT DEF GoodMa, CallOver, BodyPending, MaType
  <2>3. s.answer = m.answer
    BY SMT DEF GoodMa, MaType, MaFields
  <2> HIDE DEF s
  <2>4. GoodMa(e) /\ Calm(s, e) /\ "ERROR" \in e.condition
    BY <2>2, SetErrorGood, SetErrorCalm, SetErrorEffect DEF Errors
  <2> HIDE DEF e
  <2>5. GoodMa(y) /\ Calm(e, y) /\ "ERROR" \in y.condition /\ y.connMode = "OFFLINE"
    BY <2>4, ResetGood, PartsCalm, ResetEffect
  <2> HIDE DEF y
  <2>6. n.condition = y.condition /\ n.connMode = y.connMode /\ n.answer = y.answer
    BY <2>1, <2>5, SMT DEF GoodMa, MaType, MaFields
  <2>7. n.answer = m.answer
    BY <2>3, <2>4, <2>5, <2>6 DEF Calm
  <2>8. /\ n.intrMode = "IDLE"
        /\ \/ n.condition = m.condition
           \/ n.condition = m.condition \ {"PTP_GET", "CONNECT"}
           \/ Fails(m, n) /\ n.status = {}
    BY CheckStatusEffect
  <2> QED
    BY <2>5, <2>6, <2>7, <2>8
<1> QED
  BY <1>1, <1>2

LEMMA StatusReplyFares ==
  ASSUME NEW m, Sound(m), Told(m), LineKnown, LineStays, "SIO_RECV_DONE" \in m.status,
         "BIOS_RESTART" \notin m.status, m.recvCmd = "CHECK_STATUS",
         NEW n, n = MA_ProcessRecvPacket(m)
  PROVE  Fares(m, n)
<1> DEFINE r == MA_ProcessCheckStatusResponse(m, m.answer)
<1>1. GoodMa(m) /\ GoodMa(n) /\ Sound(n)
  BY ProcessRecvPacketGood, ProcessRecvPacketKept DEF Sound, Kept
<1>2. RecvPacketDone(m) = r
  BY DEF RecvPacketDone
<1>3. /\ n.status = r.status \ {"SIO_RECV_DONE"} /\ n.intrMode = "IDLE"
      /\ n.condition = r.condition \ {"BIOS_BUSY"}
      /\ n.sendCmd = r.sendCmd /\ SameCall(r, n)
  BY <1>1, <1>2, ProcessRecvPacketEffect
<1>4. "BIOS_BUSY" \in m.condition /\ "ERROR" \notin m.condition /\ Engaged(m)
  BY BusyEngaged DEF Sound, Exchange
<1>5. Live(m) /\ m.sendCmd = "CHECK_STATUS"
  <2>1. "CHECK_STATUS" \in RepliesTo(m.sendCmd)
    BY DEF Sound, Exchange
  <2> QED
    BY <2>1 DEF RepliesTo, Live
<1>6. m.answer \notin Hangs \/ m.connMode = "OFFLINE" \/ "CONNTEST" \in m.status
  BY <1>5 DEF LineStays, Told, Asked
<1>7. /\ r.answer = m.answer
      /\ \/ /\ r.condition = m.condition /\ r.status = m.status \ {"CONNTEST"}
            /\ SameCall(m, r) /\ r.sendCmd = m.sendCmd
         \/ Fails(m, r) /\ r.connMode = "OFFLINE" /\ r.status = {}
  BY <1>1, <1>4, <1>6, LineChecked
<1>8. n.answer = m.answer
  <2> DEFINE i == [r EXCEPT !.intrMode = "IDLE", !.condition = @ \ {"BIOS_BUSY"}]
  <2>1. GoodMa(r)
    BY <1>1, CheckStatusResponseGood
  <2>2. ~WaitsAfter(m)
    BY DEF WaitsAfter
  <2>3. n = [i EXCEPT !.status = @ \ {"SIO_RECV_DONE"}, !.counter = 0]
    BY <1>2, <2>2 DEF MA_ProcessRecvPacket
  <2> HIDE DEF r
  <2>4. n.answer = r.answer
    BY <2>1, <2>3, SMT DEF GoodMa, MaType, MaFields
  <2> QED
    BY <1>7, <2>4
<1> HIDE DEF r
<1>9. ~Live(n)
  BY <1>3 DEF Live
<1>10. LineAnswers \cap Hangs = {} => n.answer \notin Hangs
  BY <1>8 DEF Told, Asked
<1>11. CASE /\ r.condition = m.condition /\ r.status = m.status \ {"CONNTEST"}
            /\ SameCall(m, r) /\ r.sendCmd = m.sendCmd
  <2>1. Leaving(n)
    BY <1>3, <1>5, <1>11 DEF Told, Leaving, SameCall
  <2>2. SameCall(m, n) /\ \A f \in {"ERROR", "APIWAIT"} : f \in n.condition <=> f \in m.condition
    BY <1>3, <1>11 DEF SameCall
  <2>3. Told(n) /\ Unseen(m, n)
    BY <1>4, <1>9, <1>10, <2>1, <2>2, HeldTold
  <2> QED
    BY <1>3, <1>11, <2>3 DEF Fares
<1>12. CASE Fails(m, r) /\ r.connMode = "OFFLINE" /\ r.status = {}
  <2>1. /\ n.task = "NONE" /\ n.connMode = "OFFLINE" /\ "ERROR" \in n.condition
        /\ "APIWAIT" \notin n.condition
    BY <1>3, <1>12 DEF Fails, SameCall
  <2>2. Told(n)
    BY <1>9, <1>10, <2>1 DEF Told, Asked, Leaving, Answered, Asks
  <2> QED
    BY <1>4, <2>1, <2>2 DEF Fares, Breaks, Engaged
<1> QED
  BY <1>7, <1>11, <1>12

LEMMA ReplyFares ==
  ASSUME NEW m, Sound(m), Told(m), LineKnown, "SIO_RECV_DONE" \in m.status,
         m.recvCmd # "CHECK_STATUS" \/ "BIOS_RESTART" \in m.status,
         NEW n, n = MA_ProcessRecvPacket(m)
  PROVE  Fares(m, n)
<1>1. GoodMa(m) /\ "BIOS_BUSY" \in m.condition /\ "ERROR" \notin m.condition /\ Live(m)
  BY BusyEngaged DEF Sound, Exchange, Live
<1>2. CASE "BIOS_RESTART" \in m.status
  <2>1. /\ Waits(m, n)
        /\ n.status = (m.status \cup {"BIOS_STOP"}) \ {"BIOS_RESTART", "SIO_RECV_DONE"}
    BY <1>1, <1>2, ProcessRecvPacketEffect
  <2>2. n.answer = m.answer
    <3>1. DOMAIN m = MaFields
      BY <1>1 DEF GoodMa, MaType
    <3> QED
      BY <1>2, <3>1, SMT DEF MA_ProcessRecvPacket, MA_BiosStop, MaFields
  <2>3. ~Live(n)
    BY <2>1 DEF Waits, Live
  <2>4. Leaving(n)
    BY <1>2, <2>1 DEF Waits, SameCall, Told, Leaving
  <2>5. LineAnswers \cap Hangs = {} => n.answer \notin Hangs
    BY <2>2 DEF Told, Asked
  <2>6. Told(n) /\ Unseen(m, n)
    BY <1>1, <2>1, <2>3, <2>4, <2>5, HeldTold DEF Waits
  <2> QED
    BY <2>1, <2>6 DEF Fares
<1>3. CASE "BIOS_RESTART" \notin m.status /\ m.recvCmd # "CHECK_STATUS"
  <2> DEFINE r == RecvPacketDone(m)
  <2>1. GoodMa(r)
    BY <1>1, RecvPacketDoneGood
  <2>2. /\ \A f \in {"APIWAIT", "ERROR"} : f \in r.condition <=> f \in m.condition
        /\ r.status = CASE m.recvCmd = "START" -> m.status \cup {"CONNECTED"}
                         [] m.recvCmd = "END" ->
                              m.status \ {"CONNTEST", "CONN_PTP", "PTP_SEND_DONE", "PTP_SEND"}
                         [] OTHER -> m.status
        /\ r.sendCmd = m.sendCmd /\ SameCall(m, r)
        /\ r.negaResCmd = IF m.recvCmd = "ERROR" THEN m.sendCmd ELSE m.negaResCmd
    BY <1>1, <1>3, RecvPacketDoneEffect
  <2>3. r.answer = m.answer /\ r.recvCmd = m.recvCmd
    BY <1>1, <1>3, SMT DEF RecvPacketDone, GoodMa, MaType, MaFields
  <2>4. /\ n.status = r.status \ {"SIO_RECV_DONE"} /\ n.sendCmd = r.sendCmd /\ SameCall(r, n)
        /\ n.negaResCmd = r.negaResCmd
        /\ n.condition \in {r.condition, r.condition \ {"BIOS_BUSY"}}
    BY <1>1, <1>3, ProcessRecvPacketEffect
  <2> HIDE DEF r
  <2>5. n.answer = r.answer /\ n.recvCmd = r.recvCmd
    BY <1>3, <2>1, SMT DEF MA_ProcessRecvPacket, r, GoodMa, MaType, MaFields
  <2>6. /\ SameCall(m, n) /\ n.sendCmd = m.sendCmd /\ n.recvCmd = m.recvCmd /\ n.answer = m.answer
        /\ \A f \in {"APIWAIT", "ERROR"} : f \in n.condition <=> f \in m.condition
        /\ \A f \in {"BIOS_STOP", "BIOS_RESTART", "SIO_SEND_TIMEOUT", "TIMER_ENABLED"} :
             f \in n.status <=> f \in m.status
        /\ n.negaResCmd = IF m.recvCmd = "ERROR" THEN m.sendCmd ELSE m.negaResCmd
    BY <2>2, <2>3, <2>4, <2>5 DEF SameCall
  <2>7. m.sendCmd # "CHECK_STATUS"
    <3>1. m.recvCmd \in RepliesTo(m.sendCmd)
      BY DEF Sound, Exchange
    <3> QED
      BY <1>3, <3>1 DEF RepliesTo, LineKnown
  <2>8. Leaving(n)
    BY <2>6 DEF SameCall, Told, Leaving
  <2>9. LineAnswers \cap Hangs = {} => n.answer \notin Hangs
    BY <2>6 DEF Told, Asked
  <2>10. Told(n) /\ Unseen(m, n)
    BY <1>1, <2>6, <2>7, <2>8, <2>9, HeldTold
  <2> QED
    BY <2>6, <2>10 DEF Fares
<1> QED
  BY <1>2, <1>3

\* The reply to the request in flight has been read.
LEMMA PacketFares ==
  ASSUME NEW m, Sound(m), Told(m), LineKnown, LineStays, "SIO_RECV_DONE" \in m.status,
         NEW n, n = MA_ProcessRecvPacket(m)
  PROVE  Fares(m, n)
<1>1. CASE m.recvCmd # "CHECK_STATUS" \/ "BIOS_RESTART" \in m.status
  BY <1>1, ReplyFares
<1>2. CASE m.recvCmd = "CHECK_STATUS" /\ "BIOS_RESTART" \notin m.status
  BY <1>2, StatusReplyFares
<1> QED
  BY <1>1, <1>2

\* A call that waits, or a session, has a timer handler that is or will be
\* enabled.
Awake(m) == Engaged(m) => "TIMER_ENABLED" \in m.status \/ m.sio = TRUE

\* A step that the game does not see may follow.
LEMMA ServesUnseen ==
  ASSUME NEW m, NEW n, Serves(m, n), NEW k, Unseen(n, k) PROVE Serves(m, k)
<1>1. CASE Unseen(m, n)
  <2>1. Unseen(m, k)
    BY <1>1 DEF Unseen
  <2> QED
    BY <2>1 DEF Serves
<1>2. CASE Breaks(m, n)
  <2>1. Breaks(m, k)
    BY <1>2 DEF Unseen, Breaks
  <2> QED
    BY <2>1 DEF Serves
<1>3. CASE Completes(m, n)
  <2>1. Completes(m, k)
    BY <1>3 DEF Unseen, Completes
  <2> QED
    BY <2>1 DEF Serves
<1> QED
  BY <1>1, <1>2, <1>3 DEF Serves

\* The timer is started again.
LEMMA RestartedTold ==
  ASSUME NEW m, GoodMa(m), Told(m), NEW n, n = [m EXCEPT !.tm3 = TRUE]
  PROVE  /\ Told(n) /\ Unseen(m, n) /\ n.tm3 = TRUE /\ n.sio = m.sio
         /\ n.status = m.status /\ (Engaged(n) <=> Engaged(m))
<1>1. Alike(m, n) /\ n.condition = m.condition /\ n.status = m.status /\ n.sio = m.sio
      /\ n.tm3 = TRUE
  BY SMT DEF GoodMa, MaType, MaFields, Alike, SameLine, SameCall
<1>2. Told(n)
  BY <1>1, AlikeTold
<1> QED
  BY <1>1, <1>2 DEF Alike, SameCall, Unseen, Engaged

\* The timer interrupt serves the call, and keeps the timer going.
LEMMA TimerTold ==
  ASSUME Sound(gMA), Told(gMA), Timer, LineKnown, LineStays
  PROVE  /\ Told(gMA') /\ gMA'.tm3 = TRUE /\ Awake(gMA')
         /\ ~Overlap => Serves(gMA, gMA')
<1> DEFINE a == AfterApi
<1>1. Sound(a) /\ TimerDue /\ "TIMER_ENABLED" \in gMA.status
  BY MainKept DEF AfterApi, Kept, Timer, TimerTask, TimerPacket, TimerIdle, TimerWait,
     TimerSend, TimerRecv, BiosTurn, TimerDue
<1>2. /\ Told(a) /\ Calm(gMA, a) /\ (~Overlap => Serves(gMA, a))
      /\ a = gMA \/ (gMA.intrMode = "IDLE" /\ "SIO_RECV_DONE" \notin a.status)
  BY MainTold DEF AfterApi
<1>3. "TIMER_ENABLED" \in a.status /\ GoodMa(a)
  BY <1>1, <1>2 DEF Calm, Sound
<1>4. ASSUME NEW n, GoodMa(n), Fares(a, n), Unseen(a, n) \/ a = gMA, Restarted(n)
      PROVE  /\ Told(gMA') /\ gMA'.tm3 = TRUE /\ Awake(gMA')
             /\ ~Overlap => Serves(gMA, gMA')
  <2>1. /\ Told(gMA') /\ Unseen(n, gMA') /\ gMA'.tm3 = TRUE /\ gMA'.sio = n.sio
        /\ gMA'.status = n.status /\ (Engaged(gMA') <=> Engaged(n))
    BY <1>4, RestartedTold DEF Fares, Restarted
  <2>2. Awake(gMA')
    BY <1>3, <1>4, <2>1 DEF Fares, Awake
  <2>3. ~Overlap => Serves(gMA, n)
    <3>1. CASE Unseen(a, n)
      BY <1>2, <3>1, ServesUnseen
    <3>2. CASE a = gMA
      BY <1>4, <3>2 DEF Fares, Serves
    <3> QED
      BY <1>4, <3>1, <3>2
  <2>4. ~Overlap => Serves(gMA, gMA')
    BY <2>1, <2>3, ServesUnseen
  <2> QED
    BY <2>1, <2>2, <2>4
<1>5. CASE TimerTask
  <2>1. Fares(a, a) /\ Unseen(a, a)
    BY <1>2, <1>3 DEF Fares, Unseen
  <2> QED
    BY <1>3, <1>4, <1>5, <2>1 DEF TimerTask
<1>6. CASE TimerPacket
  <2>1. "SIO_RECV_DONE" \in a.status /\ a = gMA
    BY <1>2, <1>6 DEF TimerPacket, PacketReady
  <2>2. Fares(a, MA_ProcessRecvPacket(a))
    BY <1>1, <1>2, <2>1, PacketFares
  <2>3. GoodMa(MA_ProcessRecvPacket(a))
    BY <1>3, ProcessRecvPacketGood
  <2> QED
    BY <1>4, <1>6, <2>1, <2>2, <2>3 DEF TimerPacket
<1>7. CASE TimerIdle
  <2>1. "SIO_RECV_DONE" \notin a.status /\ a.intrMode = "IDLE"
    BY <1>7 DEF TimerIdle, PacketReady, BiosTurn
  <2>2. Fares(a, MA_IntrTimer_SIOIdle(a)) /\ Unseen(a, MA_IntrTimer_SIOIdle(a))
    BY <1>1, <1>2, <2>1, SIOIdleFares
  <2>3. GoodMa(MA_IntrTimer_SIOIdle(a))
    BY <1>1, <2>1, SIOIdleKept DEF Kept, Sound
  <2> QED
    BY <1>4, <1>7, <2>2, <2>3 DEF TimerIdle
<1>8. CASE TimerWait
  <2>1. "SIO_RECV_DONE" \notin a.status /\ a.intrMode = "WAIT" /\ a = gMA
    BY <1>2, <1>8 DEF TimerWait, PacketReady, BiosTurn
  <2>2. Fares(a, MA_IntrTimer_SIOWaitTime(a))
    BY <1>1, <1>2, <2>1, SIOWaitTimeFares
  <2>3. GoodMa(MA_IntrTimer_SIOWaitTime(a))
    BY <1>1, <2>1, SIOWaitTimeKept DEF Kept, Sound
  <2> QED
    BY <1>4, <1>8, <2>1, <2>2, <2>3 DEF TimerWait
<1>9. CASE TimerSend \/ TimerRecv
  <2>1. PICK n \in {MA_IntrTimer_SIOSend(a), MA_IntrTimer_SIORecv(a)} : Restarted(n)
    BY <1>9 DEF TimerSend, TimerRecv
  <2>2. Fares(a, n)
    BY <1>1, <1>2, <2>1, SendingFares
  <2>3. GoodMa(n)
    BY <1>3, <2>1, SIOSendGood, SIORecvGood
  <2>4. a = gMA
    BY <1>2, <1>9 DEF TimerSend, TimerRecv
  <2> QED
    BY <1>4, <2>1, <2>2, <2>3, <2>4
<1> QED
  BY <1>5, <1>6, <1>7, <1>8, <1>9 DEF Timer

----------------------------------------------------------------------------
(* The serial interrupt.                                                   *)

\* The timer goes on for a call or a session.
Steady(m, n) == n.tm3 = m.tm3 \/ n.tm3 = TRUE \/ ~Engaged(n)

\* A transfer ends no call but by its failure.
Hears(m, n) == Told(n) /\ (Unseen(m, n) \/ Breaks(m, n)) /\ Steady(m, n)

LEMMA HearsTrans ==
  ASSUME NEW m, NEW n, NEW k, Hears(m, n), Unseen(m, n), Hears(n, k)
  PROVE  Hears(m, k)
<1>1. Engaged(n) <=> Engaged(m)
  BY DEF Unseen, Engaged
<1>2. Engaged(k) => Engaged(n)
  BY DEF Hears, Unseen, Breaks, Engaged
<1>3. Steady(m, k)
  BY <1>1, <1>2 DEF Hears, Steady
<1>4. Unseen(m, k) \/ Breaks(m, k)
  BY <1>1 DEF Hears, Unseen, Breaks
<1> QED
  BY <1>3, <1>4 DEF Hears

\* A transfer goes on.
LEMMA AlikeHears ==
  ASSUME NEW m, Told(m), NEW n, Alike(m, n), n.tm3 = m.tm3,
         "APIWAIT" \in n.condition <=> "APIWAIT" \in m.condition
  PROVE  Hears(m, n) /\ Unseen(m, n)
<1>1. Told(n)
  BY AlikeTold
<1> QED
  BY <1>1 DEF Alike, SameCall, Unseen, Hears, Steady

LEMMA TimeoutHears ==
  ASSUME NEW m, Sound(m), Told(m), LineKnown, "BIOS_BUSY" \in m.condition,
         "SIO_RECV_DONE" \notin m.status, NEW n, n = MA_IntrSio_Timeout(m)
  PROVE  Hears(m, n) /\ Unseen(m, n)
<1> DEFINE t == [m EXCEPT !.counter = @ + 1]
<1>1. GoodMa(m)
  BY DEF Sound
<1>2. IF TimedOut(m)
      THEN /\ Waits(m, n)
           /\ n.status = IF "BIOS_RESTART" \in m.status
                         THEN (m.status \cup {"BIOS_STOP"}) \ {"BIOS_RESTART"}
                         ELSE m.status \cup {"BIOS_RESTART", "SIO_SEND_TIMEOUT"}
      ELSE Same(m, n)
  BY <1>1, TimeoutEffect
<1>3. n.answer = m.answer /\ n.tm3 = m.tm3
  <2>1. GoodMa(t) /\ t.answer = m.answer /\ t.tm3 = m.tm3
    <3>1. GoodMa(t)
      BY <1>1, SMT DEF GoodMa, CallOver, BodyPending, MaType
    <3>2. t.answer = m.answer /\ t.tm3 = m.tm3
      BY <1>1, SMT DEF GoodMa, MaType, MaFields
    <3> QED
      BY <3>1, <3>2
  <2>2. n = t \/ n = GiveUpWaiting(t)
    BY DEF MA_IntrSio_Timeout
  <2> HIDE DEF t
  <2>3. GiveUpWaiting(t).answer = t.answer /\ GiveUpWaiting(t).tm3 = t.tm3
    BY <2>1, SMT DEF GiveUpWaiting, MA_BiosStop, MA_CancelRequest, GoodMa, MaType, MaFields
  <2> QED
    BY <2>1, <2>2, <2>3
<1>4. CASE ~TimedOut(m)
  <2>1. Alike(m, n) /\ ("APIWAIT" \in n.condition <=> "APIWAIT" \in m.condition)
    BY <1>2, <1>3, <1>4 DEF Same, SameFlags, Alike
  <2> QED
    BY <1>3, <2>1, AlikeHears
<1>5. CASE TimedOut(m)
  <2>1. ~Live(n)
    BY <1>2, <1>5 DEF Waits, Live
  <2>2. Leaving(n)
    BY <1>2, <1>5 DEF Waits, SameLine, SameCall, Told, Leaving
  <2>3. SameCall(m, n) /\ \A f \in {"ERROR", "APIWAIT"} : f \in n.condition <=> f \in m.condition
    BY <1>2, <1>5 DEF Waits
  <2>4. LineAnswers \cap Hangs = {} => n.answer \notin Hangs
    BY <1>3 DEF Told, Asked
  <2>5. Told(n) /\ Unseen(m, n)
    BY <2>1, <2>2, <2>3, <2>4, HeldTold
  <2> QED
    BY <1>3, <2>5 DEF Hears, Steady
<1> QED
  BY <1>4, <1>5

LEMMA AcceptFooterHears ==
  ASSUME NEW m, Sound(m), Told(m), LineKnown, m.intrMode = "SEND",
         NEW n, n = AcceptFooter(m)
  PROVE  Hears(m, n)
<1> DEFINE a == AwaitReply(m)
<1>1. GoodMa(m) /\ "BIOS_BUSY" \in m.condition /\ Live(m)
  BY TransferUnderway DEF Sound, Underway, Live
<1>2. GoodMa(a)
  BY <1>1, AwaitReplyGood
<1>3. /\ a.condition = m.condition /\ a.status = m.status \ {"SIO_RETRY"}
      /\ a.intrMode = "RECV" /\ a.sendCmd = m.sendCmd /\ SameCall(m, a)
  BY <1>1, AwaitReplyEffect
<1>4. a.answer = m.answer /\ a.tm3 = m.tm3
  BY <1>1, SMT DEF AwaitReply, GoodMa, MaType, MaFields
<1> HIDE DEF a
<1>5. n = [a EXCEPT !.counter = 0]
  BY DEF AcceptFooter, a
<1>6. /\ n.condition = a.condition /\ n.status = a.status /\ n.intrMode = a.intrMode
      /\ n.sendCmd = a.sendCmd /\ SameCall(a, n) /\ n.answer = a.answer /\ n.tm3 = a.tm3
  BY <1>2, <1>5, SMT DEF GoodMa, MaType, MaFields, SameCall
<1>7. Leaving(n) /\ SameCall(m, n)
  BY <1>3, <1>6 DEF SameCall, Told, Leaving
<1>8. LineAnswers \cap Hangs = {} => n.answer \notin Hangs
  BY <1>4, <1>6 DEF Told, Asked
<1>9. Told(n) /\ Unseen(m, n)
  BY <1>1, <1>3, <1>6, <1>7, <1>8, HeldTold
<1> QED
  BY <1>4, <1>6, <1>9 DEF Hears, Steady

\* The request is given up: an error, and if the timer is stopped no session.
Drops(m, d) ==
  /\ GoodMa(d) /\ Fails(m, d) /\ "CONNECTED" \notin d.status
  /\ d.answer = m.answer /\ Steady(m, d)

LEMMA SessionDropped ==
  ASSUME NEW m, GoodMa(m)
  PROVE  /\ \A error \in Errors : Drops(m, DropSession(m, error))
         /\ Drops(m, MA_Bios_disconnect(m))
<1>1. ASSUME NEW error \in Errors
      PROVE  Drops(m, DropSession(m, error))
  <2> DEFINE e == MA_SetError(m, error)
             d == DropSession(m, error)
  <2>1. GoodMa(d) /\ Fails(m, d) /\ "CONNECTED" \notin d.status
    BY DropSessionGood, DropSessionFails
  <2>2. GoodMa(e) /\ Calm(m, e)
    BY SetErrorGood, SetErrorCalm
  <2>3. d = [e EXCEPT !.status = @ \ {"CONNECTED", "CONNTEST"}]
    BY DEF DropSession
  <2> HIDE DEF e, d
  <2>4. d.answer = e.answer /\ d.tm3 = e.tm3
    BY <2>2, <2>3, SMT DEF GoodMa, MaType, MaFields
  <2>5. Drops(m, d)
    BY <2>1, <2>2, <2>4 DEF Drops, Calm, Steady
  <2> QED
    BY <2>5 DEF d
<1>2. Drops(m, MA_Bios_disconnect(m))
  <2> DEFINE e == DropSession(m, "MA_NOT_FOUND")
             s == MA_SetError(m, "MA_NOT_FOUND")
             d == MA_Bios_disconnect(m)
  <2>1. GoodMa(d) /\ Fails(m, d) /\ "CONNECTED" \notin d.status
    BY DisconnectGood, DisconnectFails
  <2>2. Drops(m, e)
    BY <1>1 DEF Errors
  <2>3. s.connMode = "OFFLINE" /\ GoodMa(s)
    BY SetErrorEffect, SetErrorGood DEF Errors
  <2>4. e = [s EXCEPT !.status = @ \ {"CONNECTED", "CONNTEST"}]
    BY DEF DropSession
  <2> HIDE DEF s
  <2>5. e.connMode = "OFFLINE"
    <3> HIDE DEF e
    <3> QED
      BY <2>3, <2>4, SMT DEF GoodMa, MaType, MaFields
  <2>6. d = [e EXCEPT !.tm3 = FALSE]
    BY DEF MA_Bios_disconnect
  <2> HIDE DEF e, d
  <2>7. d.answer = e.answer /\ d.connMode = e.connMode
    BY <2>2, <2>6, SMT DEF Drops, GoodMa, MaType, MaFields
  <2>8. Drops(m, d)
    BY <2>1, <2>2, <2>5, <2>7 DEF Drops, Fails, Steady, Engaged
  <2> QED
    BY <2>8 DEF d
<1> QED
  BY <1>1, <1>2

LEMMA FooterRetryHears ==
  ASSUME NEW m, Sound(m), Told(m), LineKnown, m.intrMode = "SEND", NEW tries \in Nat,
         NEW giveUp, Drops(m, giveUp), NEW n, n = FooterRetry(m, tries, giveUp)
  PROVE  Hears(m, n)
<1> DEFINE left == IF "SIO_RETRY" \in m.status THEN (m.retryCount + U16 - 1) % U16
                                                ELSE tries
<1>1. /\ GoodMa(m) /\ "BIOS_BUSY" \in m.condition /\ "SIO_RECV_DONE" \notin m.status
      /\ Live(m) /\ Sound(n)
  BY TransferUnderway, FooterRetryKept DEF Sound, Underway, Live, Drops
<1>2. CASE n = [giveUp EXCEPT !.retryCount = 0]
  <2>1. GoodMa(giveUp)
    BY DEF Drops
  <2>2. /\ n.answer = giveUp.answer /\ n.tm3 = giveUp.tm3 /\ n.condition = giveUp.condition
        /\ n.connMode = giveUp.connMode /\ n.intrMode = giveUp.intrMode
        /\ n.task = giveUp.task /\ n.status = giveUp.status /\ n.retryCount = 0
        /\ n.sendCmd = giveUp.sendCmd /\ n.negaResCmd = giveUp.negaResCmd
    BY <1>2, <2>1, SMT DEF GoodMa, MaType, MaFields
  <2>3. Fails(m, n) /\ Steady(m, n)
    BY <2>2 DEF Drops, Fails, Steady, Engaged
  <2>4. LineAnswers \cap Hangs = {} => n.answer \notin Hangs
    BY <2>2 DEF Drops, Told, Asked
  <2>5. Told(n) /\ Breaks(m, n)
    BY <1>1, <2>3, <2>4, FailsFares
  <2> QED
    BY <2>3, <2>5 DEF Hears
<1>3. CASE n = [m EXCEPT !.retryCount = left, !.status = @ \cup {"SIO_RETRY"},
                         !.intrMode = "WAIT", !.tm3 = TRUE]
  <2> HIDE DEF left
  <2>1. /\ n.condition = m.condition /\ n.status = m.status \cup {"SIO_RETRY"}
        /\ n.intrMode = "WAIT" /\ SameLine(m, n) /\ SameCall(m, n)
        /\ n.answer = m.answer /\ n.tm3 = TRUE
    BY <1>1, <1>3, SMT DEF GoodMa, MaType, MaFields, SameLine, SameCall
  <2>2. Leaving(n)
    BY <1>1, <2>1 DEF SameLine, SameCall, Told, Leaving
  <2>3. LineAnswers \cap Hangs = {} => n.answer \notin Hangs
    BY <2>1 DEF Told, Asked
  <2>4. Live(n) /\ n.sendCmd = "CHECK_STATUS" =>
          /\ Live(m) /\ m.sendCmd = "CHECK_STATUS"
          /\ "CONNTEST" \in m.status => "CONNTEST" \in n.status
    BY <1>1, <2>1 DEF SameLine
  <2>5. Told(n) /\ Unseen(m, n)
    BY <1>1, <2>1, <2>2, <2>3, <2>4, HeldTold
  <2> QED
    BY <2>1, <2>5 DEF Hears, Steady
<1> QED
  BY <1>2, <1>3 DEF FooterRetry

LEMMA SendFooterHears ==
  ASSUME NEW m, Sound(m), Told(m), LineKnown, m.intrMode = "SEND", NEW footer,
         NEW n, n = SendFooter(m, footer)
  PROVE  Hears(m, n)
<1>1. /\ GoodMa(m) /\ "BIOS_BUSY" \in m.condition /\ Sound(n)
  BY TransferUnderway, SendFooterKept DEF Sound, Underway
<1>2. /\ \A error \in Errors : Drops(m, DropSession(m, error))
      /\ Drops(m, MA_Bios_disconnect(m))
  BY <1>1, SessionDropped
<1>3. {"MA_NOT_FOUND", "PROT_INTERNAL", "PROT_ILLEGAL_CMD", "PROT_CHECKSUM"}
        \subseteq Errors /\ 2 \in Nat /\ U16 - 2 \in Nat
  BY MaBiosAssumption DEF Errors
<1>4. CASE n = DropSession(m, "MA_NOT_FOUND")
  <2>1. Drops(m, n)
    BY <1>2, <1>3, <1>4
  <2>2. LineAnswers \cap Hangs = {} => n.answer \notin Hangs
    BY <2>1 DEF Drops, Told, Asked
  <2>3. Told(n) /\ Breaks(m, n)
    BY <1>1, <2>1, <2>2, FailsFares DEF Drops
  <2> QED
    BY <2>1, <2>3 DEF Hears, Drops
<1>5. CASE n = AcceptFooter(m)
  BY <1>5, AcceptFooterHears
<1>6. CASE n = RefuseFooter(m, footer)
  <2>1. PICK tries, giveUp :
          tries \in Nat /\ Drops(m, giveUp) /\ n = FooterRetry(m, tries, giveUp)
    BY <1>2, <1>3, <1>6 DEF RefuseFooter
  <2> QED
    BY <2>1, FooterRetryHears
<1> QED
  BY <1>4, <1>5, <1>6 DEF SendFooter

\* A transfer of a request ends.
LEMMA IntrSioSendHears ==
  ASSUME NEW m, Sound(m), Told(m), LineKnown, m.intrMode = "SEND", NEW footer
  PROVE  Hears(m, MA_IntrSio_Send(m, footer))
<1> DEFINE t == MA_IntrSio_Timeout(m)
<1>1. "BIOS_BUSY" \in m.condition /\ "SIO_RECV_DONE" \notin m.status /\ GoodMa(m)
  BY TransferUnderway DEF Underway, Sound
<1>2. Hears(m, t) /\ Unseen(m, t)
  BY <1>1, TimeoutHears
<1>3. Sound(t)
  BY TransferUnderway, TimeoutKept DEF Kept
<1>4. CASE FooterDue(m)
  <2>1. t.intrMode = "SEND"
    BY <1>1, <1>4, TimeoutEffect DEF FooterDue, Same
  <2> HIDE DEF t
  <2>2. Hears(t, SendFooter(t, footer))
    BY <1>2, <1>3, <2>1, SendFooterHears DEF Hears
  <2>3. Hears(m, SendFooter(t, footer))
    BY <1>2, <2>2, HearsTrans
  <2> QED
    BY <1>4, <2>3 DEF MA_IntrSio_Send, t, FooterDue
<1>5. CASE ~FooterDue(m)
  <2>1. Hears(m, m)
    BY DEF Hears, Unseen, Steady
  <2> QED
    BY <1>2, <1>5, <2>1 DEF MA_IntrSio_Send
<1> QED
  BY <1>4, <1>5

\* The reply goes on, or is complete.
LEMMA ReceivingHears ==
  ASSUME NEW m, Sound(m), Told(m), LineKnown, NEW n, SameCall(m, n),
         m.intrMode = "RECV" \/ "SIO_RECV_DONE" \in m.status,
         n.intrMode = "RECV" \/ "SIO_RECV_DONE" \in n.status,
         n.sendCmd = m.sendCmd, n.tm3 = m.tm3,
         \A f \in {"ERROR", "APIWAIT"} : f \in n.condition <=> f \in m.condition,
         \A f \in {"CONNTEST", "BIOS_STOP", "BIOS_RESTART", "SIO_SEND_TIMEOUT"} :
           f \in n.status <=> f \in m.status,
         LineAnswers \cap Hangs = {} => n.answer \notin Hangs
  PROVE  Hears(m, n) /\ Unseen(m, n)
<1>1. "BIOS_BUSY" \in m.condition /\ Live(m)
  BY DEF Sound, Exchange, Live
<1>2. Leaving(n)
  BY DEF SameCall, Told, Leaving
<1>3. Told(n) /\ Unseen(m, n)
  BY <1>1, <1>2, HeldTold
<1> QED
  BY <1>3 DEF Hears, Steady

LEMMA NotFoundHears ==
  ASSUME NEW m, Sound(m), Told(m), LineKnown, m.intrMode = "RECV", NEW n,
         n = [MA_SetError(m, "MA_NOT_FOUND") EXCEPT !.rubbish = 0]
  PROVE  Hears(m, n)
<1> DEFINE e == MA_SetError(m, "MA_NOT_FOUND")
<1>1. GoodMa(m) /\ "BIOS_BUSY" \in m.condition /\ "SIO_RECV_DONE" \notin m.status
  BY TransferUnderway DEF Sound, Underway
<1>2. GoodMa(e) /\ Calm(m, e) /\ Fails(m, e)
  BY <1>1, SetErrorGood, SetErrorCalm, SetErrorFails DEF Errors
<1>3. Sound(n)
  BY <1>1, NotFoundRead DEF Read, Kept
<1> HIDE DEF e
<1>4. n = [e EXCEPT !.rubbish = 0]
  BY DEF e
<1>5. /\ n.answer = e.answer /\ n.tm3 = e.tm3 /\ n.condition = e.condition
      /\ n.connMode = e.connMode /\ n.intrMode = e.intrMode
      /\ n.task = e.task /\ n.status = e.status /\ n.retryCount = e.retryCount
      /\ n.sendCmd = e.sendCmd /\ n.negaResCmd = e.negaResCmd
  BY <1>2, <1>4, SMT DEF GoodMa, MaType, MaFields
<1>6. Fails(m, n) /\ Steady(m, n)
  BY <1>2, <1>5 DEF Fails, Steady, Calm
<1>7. LineAnswers \cap Hangs = {} => n.answer \notin Hangs
  BY <1>2, <1>5 DEF Calm, Told, Asked
<1>8. Told(n) /\ Breaks(m, n)
  BY <1>1, <1>3, <1>6, <1>7, FailsFares
<1> QED
  BY <1>6, <1>8 DEF Hears

LEMMA RecvStart0Hears ==
  ASSUME NEW m, Sound(m), Told(m), LineKnown, m.recvState = "START", m.readCnt = 0,
         NEW byte, NEW what, (byte = 0 /\ m.intrMode = "RECV") \/ (byte # 0 /\ Wire(m))
  PROVE  Hears(m, RecvStart0(m, byte, what))
<1> DEFINE t == MA_IntrSio_Timeout(m)
           n == RecvStart0(m, byte, what)
<1>1. "BIOS_BUSY" \in m.condition /\ "SIO_RECV_DONE" \notin m.status /\ GoodMa(m)
      /\ "SIO_RETRY" \notin m.status
  BY WireReceiving, TransferUnderway DEF Wire, Receiving, Underway, Sound
<1>2. Hears(m, t) /\ Unseen(m, t)
  BY <1>1, TimeoutHears
<1>3. CASE byte # 0
  <2>1. Hears(m, m)
    BY DEF Hears, Unseen, Steady
  <2> QED
    BY <1>3, <2>1 DEF RecvStart0
<1>4. CASE byte = 0 /\ TimedOut(m)
  BY <1>2, <1>4 DEF RecvStart0
<1>5. CASE byte = 0 /\ ~TimedOut(m)
  <2>1. Sound(t)
    BY <1>1, WireReceiving, TimeoutKept DEF Kept, Receiving
  <2>2. t.intrMode = "RECV" /\ Told(t) /\ GoodMa(t)
    BY <1>1, <1>2, <1>5, <2>1, TransferTimes DEF Same, Hears, Sound
  <2>3. n \in {t, [t EXCEPT !.readCnt = 1], [t EXCEPT !.rubbish = @ + 1],
               [MA_SetError(t, "MA_NOT_FOUND") EXCEPT !.rubbish = 0]}
    BY <1>5 DEF RecvStart0
  <2> HIDE DEF t, n
  <2>4. CASE n = [MA_SetError(t, "MA_NOT_FOUND") EXCEPT !.rubbish = 0]
    BY <1>2, <2>1, <2>2, <2>4, NotFoundHears, HearsTrans DEF n
  <2>5. CASE n \in {t, [t EXCEPT !.readCnt = 1], [t EXCEPT !.rubbish = @ + 1]}
    <3>1. /\ n.status = t.status /\ n.condition = t.condition /\ n.intrMode = t.intrMode
          /\ n.sendCmd = t.sendCmd /\ SameCall(t, n) /\ n.answer = t.answer /\ n.tm3 = t.tm3
      BY <2>2, <2>5, SMT DEF GoodMa, MaType, MaFields, SameCall
    <3>2. LineAnswers \cap Hangs = {} => n.answer \notin Hangs
      BY <2>2, <3>1 DEF Told, Asked
    <3>3. Hears(t, n)
      BY <2>1, <2>2, <3>1, <3>2, ReceivingHears
    <3> QED
      BY <1>2, <3>3, HearsTrans DEF n
  <2> QED
    BY <2>3, <2>4, <2>5
<1> QED
  BY <1>3, <1>4, <1>5

LEMMA RecvStart1Hears ==
  ASSUME NEW m, Sound(m), Told(m), LineKnown, m.intrMode = "RECV", NEW what
  PROVE  Hears(m, RecvStart1(m, what))
<1> DEFINE h == [m EXCEPT !.recvState = "HEADER", !.readCnt = 0, !.rubbish = 0]
<1>1. GoodMa(m)
  BY DEF Sound
<1>2. /\ h.status = m.status /\ h.condition = m.condition /\ h.intrMode = m.intrMode
      /\ h.sendCmd = m.sendCmd /\ SameCall(m, h) /\ h.answer = m.answer /\ h.tm3 = m.tm3
  BY <1>1, SMT DEF GoodMa, MaType, MaFields, SameCall
<1> HIDE DEF h
<1>3. LineAnswers \cap Hangs = {} => h.answer \notin Hangs
  BY <1>2 DEF Told, Asked
<1>4. Hears(m, h)
  BY <1>2, <1>3, ReceivingHears
<1>5. Hears(m, [MA_SetError(m, "MA_NOT_FOUND") EXCEPT !.rubbish = 0])
  BY NotFoundHears
<1> QED
  BY <1>4, <1>5 DEF RecvStart1, h

\* An adapter says that the line is lost only in the reply to CHECK_STATUS.
LEMMA AnswersHang ==
  ASSUME NEW m, m.recvState = "HEADER", NEW byte, NEW what \in Received(m, byte),
         m.readCnt \notin 0..2
  PROVE  LineAnswers \cap Hangs = {} => what \notin Hangs
<1>1. what \in AnswersOf(m.recvCmd) \cup {None}
  BY DEF Received
<1>2. None \notin Hangs /\ EEPROMAnswers \cap Hangs = {} /\ PeerData \cap Hangs = {}
  BY LibMaAssumption DEF None, Hangs
<1>3. NegaReasons \cap Hangs = {}
  BY LibMaAssumption DEF NegaErrs, Hangs
<1> QED
  BY <1>1, <1>2, <1>3 DEF AnswersOf

LEMMA RecvHeaderHears ==
  ASSUME NEW m, Sound(m), Told(m), LineKnown, m.intrMode = "RECV", m.recvState = "HEADER",
         NEW byte, NEW what \in Received(m, byte), NEW n, n = RecvHeader(m, what)
  PROVE  Hears(m, n)
<1> DEFINE size == BodySize(m.recvCmd, what)
           pad == Padded(size, m.sioMode)
           next == IF size = 0 THEN "CHECKSUM" ELSE "DATA"
<1>1. GoodMa(m)
  BY DEF Sound
<1>2. n = CASE m.readCnt = 0 -> [m EXCEPT !.recvCmd = what, !.readCnt = 1]
            [] m.readCnt \in {1, 2} -> [m EXCEPT !.readCnt = @ + 1]
            [] OTHER -> [m EXCEPT !.answer = what, !.recvSize = size,
                                  !.recvState = next, !.readCnt = pad]
  BY DEF RecvHeader
<1> HIDE DEF size, pad, next
<1>3. /\ n.status = m.status /\ n.condition = m.condition /\ n.intrMode = m.intrMode
      /\ n.sendCmd = m.sendCmd /\ SameCall(m, n) /\ n.tm3 = m.tm3
      /\ n.answer = IF m.readCnt \in 0..2 THEN m.answer ELSE what
  BY <1>1, <1>2, SMT DEF GoodMa, MaType, MaFields, SameCall
<1>4. LineAnswers \cap Hangs = {} => n.answer \notin Hangs
  BY <1>3, AnswersHang DEF Told, Asked
<1> QED
  BY <1>3, <1>4, ReceivingHears

LEMMA RecvDataHears ==
  ASSUME NEW m, Sound(m), Told(m), LineKnown, m.recvState = "DATA", NEW byte,
         (byte = 0 /\ m.intrMode = "RECV") \/ (byte # 0 /\ Wire(m))
  PROVE  Hears(m, RecvData(m))
<1> DEFINE t == MA_IntrSio_Timeout(m)
           next == IF m.readCnt = 1 THEN "CHECKSUM" ELSE "DATA"
           n == [t EXCEPT !.readCnt = @ - 1, !.recvState = next]
<1>1. "BIOS_BUSY" \in m.condition /\ "SIO_RECV_DONE" \notin m.status /\ GoodMa(m)
      /\ "SIO_RETRY" \notin m.status
  BY WireReceiving, TransferUnderway DEF Wire, Receiving, Underway, Sound
<1>2. Hears(m, t) /\ Unseen(m, t)
  BY <1>1, TimeoutHears
<1>3. CASE TimedOut(m)
  BY <1>2, <1>3 DEF RecvData
<1>4. CASE ~TimedOut(m)
  <2>1. m.intrMode = "RECV"
    <3>1. m.counter \in Nat /\ TimeoutCounter[m.timeout] \in Nat
      BY <1>1, MaBiosAssumption DEF GoodMa, MaType
    <3>2. ~(m.counter > TimeoutCounter[m.timeout])
      BY <1>4, <3>1 DEF TimedOut
    <3> QED
      BY <3>2 DEF Wire
  <2>2. Sound(t)
    BY <1>1, WireReceiving, TimeoutKept DEF Kept, Receiving
  <2>3. t.intrMode = "RECV" /\ Told(t) /\ GoodMa(t)
    BY <1>1, <1>2, <1>4, <2>1, <2>2, TransferTimes DEF Same, Hears, Sound
  <2>4. RecvData(m) = n
    BY <1>4 DEF RecvData
  <2> HIDE DEF t, next
  <2>5. /\ n.status = t.status /\ n.condition = t.condition /\ n.intrMode = t.intrMode
        /\ n.sendCmd = t.sendCmd /\ SameCall(t, n) /\ n.answer = t.answer /\ n.tm3 = t.tm3
    BY <2>3, SMT DEF GoodMa, MaType, MaFields, SameCall
  <2> HIDE DEF n
  <2>6. LineAnswers \cap Hangs = {} => n.answer \notin Hangs
    BY <2>3, <2>5 DEF Told, Asked
  <2>7. Hears(t, n)
    BY <2>2, <2>3, <2>5, <2>6, ReceivingHears
  <2> QED
    BY <1>2, <2>4, <2>7, HearsTrans
<1> QED
  BY <1>3, <1>4

LEMMA RecvChecksumHears ==
  ASSUME NEW m, Sound(m), Told(m), LineKnown, m.intrMode = "RECV", NEW what
  PROVE  Hears(m, RecvChecksum(m, what))
<1> DEFINE s == IF what = "bad" /\ "BIOS_RESTART" \notin m.status
                THEN m.status \cup {"SIO_ERR_CHECKSUM"} ELSE m.status
           n == RecvChecksum(m, what)
<1>1. GoodMa(m)
  BY DEF Sound
<1>2. n = IF m.readCnt = 0 THEN [m EXCEPT !.readCnt = 1]
          ELSE [m EXCEPT !.recvState = "FOOTER", !.readCnt = 0, !.status = s]
  BY DEF RecvChecksum
<1>3. \A f : f # "SIO_ERR_CHECKSUM" => (f \in s <=> f \in m.status)
  OBVIOUS
<1> HIDE DEF s, n
<1>4. /\ n.status \in {m.status, s} /\ n.condition = m.condition
      /\ n.intrMode = m.intrMode /\ n.sendCmd = m.sendCmd /\ SameCall(m, n)
      /\ n.answer = m.answer /\ n.tm3 = m.tm3
  BY <1>1, <1>2, SMT DEF GoodMa, MaType, MaFields, SameCall
<1>5. \A f \in {"CONNTEST", "BIOS_STOP", "BIOS_RESTART", "SIO_SEND_TIMEOUT"} :
        f \in n.status <=> f \in m.status
  BY <1>3, <1>4
<1>6. LineAnswers \cap Hangs = {} => n.answer \notin Hangs
  BY <1>4 DEF Told, Asked
<1>7. Hears(m, n)
  BY <1>4, <1>5, <1>6, ReceivingHears
<1> QED
  BY <1>7 DEF n

LEMMA RecvFooterHears ==
  ASSUME NEW m, Sound(m), Told(m), LineKnown,
         m.intrMode = "RECV" \/ "SIO_RECV_DONE" \in m.status, NEW n, n = RecvFooter(m)
  PROVE  Hears(m, n)
<1> DEFINE c == [m EXCEPT !.status = @ \ {"SIO_ERR_CHECKSUM"}]
<1>1. GoodMa(m)
  BY DEF Sound
<1>2. \/ n = [m EXCEPT !.readCnt = @ + 1] \/ n = AwaitReply(c)
      \/ n = [m EXCEPT !.readCnt = @ + 1, !.intrMode = "IDLE",
                       !.status = @ \cup {"SIO_RECV_DONE"}]
  BY DEF RecvFooter, MA_RecvRetry
<1>3. /\ n.condition = m.condition /\ n.sendCmd = m.sendCmd /\ SameCall(m, n)
      /\ n.answer = m.answer /\ n.tm3 = m.tm3
      /\ \/ n.status = m.status /\ n.intrMode = m.intrMode
         \/ n.status = m.status \ {"SIO_ERR_CHECKSUM", "SIO_RETRY"} /\ n.intrMode = "RECV"
         \/ n.status = m.status \cup {"SIO_RECV_DONE"}
  <2>1. CASE n = [m EXCEPT !.readCnt = @ + 1]
    BY <1>1, <2>1, SMT DEF GoodMa, MaType, MaFields, SameCall
  <2>2. CASE n = [m EXCEPT !.readCnt = @ + 1, !.intrMode = "IDLE",
                           !.status = @ \cup {"SIO_RECV_DONE"}]
    BY <1>1, <2>2, SMT DEF GoodMa, MaType, MaFields, SameCall
  <2>3. CASE n = AwaitReply(c)
    <3>1. GoodMa(c)
      BY <1>1, SMT DEF GoodMa, CallOver, BodyPending, MaType
    <3>2. /\ c.condition = m.condition /\ c.status = m.status \ {"SIO_ERR_CHECKSUM"}
          /\ c.sendCmd = m.sendCmd /\ SameCall(m, c) /\ c.answer = m.answer /\ c.tm3 = m.tm3
      BY <1>1, SMT DEF GoodMa, MaType, MaFields, SameCall
    <3> HIDE DEF c
    <3>3. n.answer = c.answer /\ n.tm3 = c.tm3
      BY <2>3, <3>1, SMT DEF AwaitReply, GoodMa, MaType, MaFields
    <3>4. /\ n.condition = c.condition /\ n.status = c.status \ {"SIO_RETRY"}
          /\ n.intrMode = "RECV" /\ n.sendCmd = c.sendCmd /\ SameCall(c, n)
      BY <2>3, <3>1, AwaitReplyEffect
    <3> QED
      BY <3>2, <3>3, <3>4 DEF SameCall
  <2> QED
    BY <1>2, <2>1, <2>2, <2>3
<1>4. LineAnswers \cap Hangs = {} => n.answer \notin Hangs
  BY <1>3 DEF Told, Asked
<1> QED
  BY <1>3, <1>4, ReceivingHears

\* A byte of a reply is interpreted.
LEMMA IntrSioRecvHears ==
  ASSUME NEW m, Sound(m), Told(m), LineKnown, NEW byte, NEW what \in Received(m, byte),
         (byte = 0 /\ m.intrMode = "RECV") \/ (byte # 0 /\ Wire(m))
  PROVE  Hears(m, MA_IntrSio_Recv(m, byte, what))
<1> DEFINE n == MA_IntrSio_Recv(m, byte, what)
<1>1. m.recvState \in RecvStates
  BY DEF Sound, GoodMa, MaType
<1>2. CASE m.recvState = "START" /\ m.readCnt = 0
  BY <1>2, RecvStart0Hears DEF MA_IntrSio_Recv
<1>3. CASE m.recvState = "START" /\ m.readCnt # 0
  <2>1. m.intrMode = "RECV"
    BY <1>3 DEF Wire
  <2> QED
    BY <1>3, <2>1, RecvStart1Hears DEF MA_IntrSio_Recv
<1>4. CASE m.recvState = "HEADER"
  <2>1. m.intrMode = "RECV"
    BY <1>4 DEF Wire
  <2>2. n = RecvHeader(m, what)
    BY <1>4 DEF MA_IntrSio_Recv
  <2> HIDE DEF n
  <2>3. Hears(m, n)
    BY <1>4, <2>1, <2>2, RecvHeaderHears
  <2> QED
    BY <2>3 DEF n
<1>5. CASE m.recvState = "DATA"
  BY <1>5, RecvDataHears DEF MA_IntrSio_Recv
<1>6. CASE m.recvState = "CHECKSUM"
  <2>1. m.intrMode = "RECV"
    BY <1>6 DEF Wire
  <2> QED
    BY <1>6, <2>1, RecvChecksumHears DEF MA_IntrSio_Recv
<1>7. CASE m.recvState = "FOOTER"
  <2>1. m.intrMode = "RECV" \/ "SIO_RECV_DONE" \in m.status
    BY <1>7 DEF Wire
  <2> QED
    BY <1>7, <2>1, RecvFooterHears DEF MA_IntrSio_Recv
<1>8. CASE m.recvState = "IDLE"
  <2>1. Hears(m, m)
    BY DEF Hears, Unseen, Steady
  <2> QED
    BY <1>8, <2>1 DEF MA_IntrSio_Recv
<1> QED
  BY <1>1, <1>2, <1>3, <1>4, <1>5, <1>6, <1>7, <1>8 DEF RecvStates

\* The handler's last assignments.
LEMMA EndsHears ==
  ASSUME NEW m, GoodMa(m), Told(m), NEW n \in {HandlerEnds(m), [m EXCEPT !.sio = FALSE]}
  PROVE  /\ Hears(m, n) /\ Unseen(m, n)
         /\ n = HandlerEnds(m) => "TIMER_ENABLED" \in n.status
<1>1. /\ n.condition = m.condition /\ SameLine(m, n) /\ SameCall(m, n)
      /\ n.intrMode = m.intrMode /\ n.answer = m.answer /\ n.tm3 = m.tm3
      /\ n.status \in {m.status, m.status \cup {"TIMER_ENABLED"}}
  <2>1. CASE n = HandlerEnds(m)
    BY <2>1, SMT DEF HandlerEnds, GoodMa, MaType, MaFields, SameLine, SameCall
  <2>2. CASE n = [m EXCEPT !.sio = FALSE]
    BY <2>2, SMT DEF GoodMa, MaType, MaFields, SameLine, SameCall
  <2> QED
    BY <2>1, <2>2
<1>2. Alike(m, n)
  BY <1>1 DEF Alike
<1>3. n = HandlerEnds(m) => "TIMER_ENABLED" \in n.status
  BY SMT DEF HandlerEnds, GoodMa, MaType, MaFields
<1> QED
  BY <1>1, <1>2, <1>3, AlikeHears

\* The serial interrupt ends no call but by its failure, and enables the timer.
LEMMA SerialTold ==
  ASSUME Inv, Told(gMA), Serial, LineKnown
  PROVE  Hears(gMA, gMA') /\ (rx' = 0 => "TIMER_ENABLED" \in gMA'.status)
<1>1. Sound(gMA) /\ GoodMa(gMA)
  BY DEF Inv, Sound
<1>2. ASSUME NEW m, Hears(gMA, m), Sound(m),
             \/ gMA' = HandlerEnds(m)
             \/ gMA' = [m EXCEPT !.sio = FALSE] /\ rx' # 0
      PROVE  Hears(gMA, gMA') /\ (rx' = 0 => "TIMER_ENABLED" \in gMA'.status)
  <2>1. /\ Hears(m, gMA') /\ Unseen(m, gMA')
        /\ gMA' = HandlerEnds(m) => "TIMER_ENABLED" \in gMA'.status
    BY <1>2, EndsHears DEF Hears, Sound
  <2>2. Engaged(gMA') <=> Engaged(m)
    BY <2>1 DEF Unseen, Engaged
  <2>3. Unseen(gMA, gMA') \/ Breaks(gMA, gMA')
    BY <1>2, <2>1 DEF Hears, Unseen, Breaks
  <2>4. Steady(gMA, gMA')
    BY <1>2, <2>1, <2>2 DEF Hears, Steady
  <2> QED
    BY <1>2, <2>1, <2>3, <2>4 DEF Hears
<1>3. Hears(gMA, gMA)
  BY DEF Hears, Unseen, Steady
<1>4. ASSUME NEW byte \in 0..3, NEW size, ReceiveByte(byte, size),
             (byte = 0 /\ gMA.intrMode = "RECV") \/ (byte # 0 /\ Wire(gMA))
      PROVE  Hears(gMA, gMA') /\ (rx' = 0 => "TIMER_ENABLED" \in gMA'.status)
  <2> DEFINE next(what) == MA_IntrSio_Recv(gMA, byte, what)
  <2>1. PICK what \in Received(gMA, byte) :
          \/ gMA' = HandlerEnds(next(what))
          \/ gMA' = [next(what) EXCEPT !.sio = FALSE] /\ rx' = byte + 1
    BY <1>4 DEF ReceiveByte
  <2>2. Hears(gMA, next(what)) /\ Sound(next(what))
    BY <1>1, <1>4, IntrSioRecvHears, IntrSioRecvRead DEF Read, Kept
  <2> HIDE DEF next
  <2> QED
    BY <1>2, <2>1, <2>2
<1>5. CASE SioSend
  <2>1. PICK footer : gMA' = HandlerEnds(MA_IntrSio_Send(gMA, footer))
    BY <1>5 DEF SioSend
  <2>2. gMA.intrMode = "SEND"
    BY <1>5 DEF SioSend
  <2>3. Hears(gMA, MA_IntrSio_Send(gMA, footer)) /\ Sound(MA_IntrSio_Send(gMA, footer))
    BY <1>1, <2>2, IntrSioSendHears, IntrSioSendKept
  <2> QED
    BY <1>2, <2>1, <2>3
<1>6. CASE SioIgnored
  BY <1>1, <1>2, <1>3, <1>6 DEF SioIgnored
<1>7. CASE SioRecvByte
  BY <1>4, <1>7 DEF SioRecvByte
<1>8. CASE SioRecvWord
  <2>1. CASE "ERROR" \in gMA.condition
    BY <1>1, <1>2, <1>3, <1>8, <2>1 DEF SioRecvWord
  <2>2. CASE "ERROR" \notin gMA.condition
    BY <1>4, <1>8, <2>2 DEF SioRecvWord
  <2> QED
    BY <2>1, <2>2
<1>9. CASE SioRecvRest
  BY <1>4, <1>9 DEF SioRecvRest, Inv
<1> QED
  BY <1>5, <1>6, <1>7, <1>8, <1>9 DEF Serial

----------------------------------------------------------------------------
(* The calls.                                                              *)

\* Timer 3 runs for a call and for a session, and its handler will be enabled.
Ticks(m) == (Engaged(m) => m.tm3 = TRUE) /\ Awake(m)

\* A call has been accepted: in a session MA_SData, which sets no task, may be.
Requests(m, n) ==
  /\ "APIWAIT" \notin m.condition /\ "APIWAIT" \in n.condition
  /\ "ERROR" \notin n.condition /\ n.connMode = m.connMode
  /\ "ERROR" \in m.condition => n.task \in {"INITLIBRARY", "INITLIBRARY2"}
  /\ n.task \in IF m.connMode = "OFFLINE" THEN Opening
                ELSE {"NONE", "OFFLINE", "STOP"} \cup Asks

\* MA_Stop ends the call that is pending.
Cancels(m, n) ==
  /\ {"APIWAIT"} \subseteq m.condition \cap n.condition
  /\ "ERROR" \notin m.condition \cup n.condition
  /\ n.task = "STOP" /\ n.connMode = m.connMode

\* The error has been read.
Reads(m, n) ==
  /\ "ERROR" \in m.condition /\ "ERROR" \notin n.condition
  /\ "APIWAIT" \notin n.condition /\ n.connMode = m.connMode

Moves(m, n) == Unseen(m, n) \/ Requests(m, n) \/ Cancels(m, n) \/ Reads(m, n)

\* The game has called.
Called(m, n) == Told(n) /\ Ticks(n) /\ Moves(m, n)

\* The first step of a call that opens a session is made by the call.
LEMMA FirstStepTold ==
  ASSUME NEW b, Sound(b), {"BIOS_BUSY", "ERROR"} \cap b.condition = {},
         {"CONNTEST", "CONN_PTP"} \cap b.status = {}, b.task \in Opening, b.taskStep = 0,
         b.connMode = "OFFLINE", Refused(b) => b.negaResCmd = "END",
         "APIWAIT" \in b.condition, b.task \in Asks => b.task \in Calls,
         LineAnswers \cap Hangs = {} => b.answer \notin Hangs, NEW n, n = MAAPI_Main(b)
  PROVE  /\ Told(n) /\ Ticks(n) /\ "APIWAIT" \in n.condition /\ "ERROR" \notin n.condition
         /\ n.task = b.task /\ n.connMode = "OFFLINE"
<1> DEFINE s == MABIOS_Start(b)
<1>1. MAAPI_Main(b) = RunTask(b)
  BY DEF MAAPI_Main, Disconnected, Opening
<1>2. RunTask(b) = NextStep(s)
  <2>1. CASE b.task \in {"INITLIBRARY", "INITLIBRARY2"}
    BY <2>1 DEF RunTask, MATASK_InitLibrary
  <2>2. CASE b.task = "TELSERVER"
    BY <2>2 DEF RunTask, MATASK_TelServer, TelServerNega
  <2>3. CASE b.task = "TEL"
    BY <2>3 DEF RunTask, MATASK_Tel
  <2>4. CASE b.task = "RECEIVE"
    BY <2>4 DEF RunTask, MATASK_Receive, ReceiveNega
  <2>5. CASE b.task \in {"CONDITION", "CONDITION2"}
    BY <2>5 DEF RunTask, MATASK_Condition, ConditionNega
  <2>6. CASE b.task = "EEPROM_READ"
    BY <2>6 DEF RunTask, MATASK_EEPROM_Read
  <2> QED
    BY <2>1, <2>2, <2>3, <2>4, <2>5, <2>6 DEF Opening
<1>3. GoodMa(b) /\ CanSend(b)
  BY DEF Sound, CanSend
<1>4. GoodMa(s) /\ Sends(b, s, "START")
  BY <1>3, StartGood, StartEffect
<1>5. Calm(b, s) /\ s.tm3 = TRUE /\ "TIMER_ENABLED" \in s.status
  BY <1>3, StartCalm
<1> HIDE DEF s
<1>6. OtherStep(s, n) /\ Calm(s, n)
  BY <1>1, <1>2, <1>4, NextStepEffect, PartsCalm
<1>7. /\ n.task = b.task /\ n.connMode = "OFFLINE" /\ n.answer = b.answer
      /\ "APIWAIT" \in n.condition /\ "ERROR" \notin n.condition
      /\ n.tm3 = TRUE /\ "TIMER_ENABLED" \in n.status
  BY <1>4, <1>5, <1>6 DEF Sends, SameCall, OtherStep, Calm
<1>8. Told(n)
  BY <1>7 DEF Told, Asked, Leaving, Answered, Opening
<1> QED
  BY <1>7, <1>8 DEF Ticks, Awake

\* What a call in a session sets beside its task changes nothing of the line.
LEMMA CalmCalled ==
  ASSUME NEW m, Told(m), Ticks(m), Engaged(m), NEW n, Calm(m, n), Moves(m, n),
         n.connMode = m.connMode, n.sendCmd = m.sendCmd, Live(n) => Live(m),
         "CONNTEST" \in m.status => "CONNTEST" \in n.status,
         n.task \in Asks => n.task \in Calls, n.task = "OFFLINE" => n.taskStep # 3,
         Answered(n)
  PROVE  Called(m, n)
<1>1. Told(n)
  BY DEF Told, Asked, Leaving, Calm
<1>2. Ticks(n)
  BY DEF Ticks, Awake, Calm
<1> QED
  BY <1>1, <1>2 DEF Called

LEMMA PreExeCalm == ASSUME NEW m, GoodMa(m) PROVE Calm(m, MA_ApiPreExe(m))
  BY SMT DEF Calm, MA_ApiPreExe, GoodMa, MaType, MaFields
LEMMA StartTaskCalled ==
  ASSUME NEW m, Accepted(m), Told(m), LineKnown, m.connMode = "OFFLINE",
         NEW task \in Opening, task \in Asks => task \in Calls /\ m.offline = TRUE
  PROVE  Called(m, StartTask(m, task))
<1> DEFINE e == MA_ApiPreExe(m)
           s == [e EXCEPT !.tm3 = FALSE]
           b == MA_TaskSet(s, task, 0)
           n == MAAPI_Main(b)
<1>1. GoodMa(m) /\ "ERROR" \notin m.condition /\ "APIWAIT" \notin m.condition
      /\ m.task = "NONE" /\ Sound(m)
  BY DEF Accepted, Sound
<1>2. GoodMa(e) /\ Calm(m, e)
  BY <1>1, PreExeGood, PreExeCalm
<1>3. /\ e.condition = (m.condition \ {"TCPCLOSED"}) \cup {"APIWAIT"}
      /\ e.status = m.status /\ e.intrMode = m.intrMode
      /\ e.retryCount = m.retryCount /\ SameLine(m, e) /\ SameCall(m, e)
  BY <1>1, ApiPreExeEffect
<1> HIDE DEF e
<1>4. GoodMa(s)
  BY <1>2, SetTimerGood
<1>5. /\ s.condition = e.condition /\ s.status = e.status /\ s.intrMode = e.intrMode
      /\ s.retryCount = e.retryCount /\ SameLine(e, s) /\ SameCall(e, s)
      /\ s.answer = e.answer
  BY <1>2, SMT DEF GoodMa, MaType, MaFields, SameLine, SameCall
<1> HIDE DEF s
<1>6. GoodMa(b) /\ Calm(s, b)
  <2>1. task \in Tasks /\ 0 \in 0..255 /\ "ERROR" \notin s.condition
    BY <1>1, <1>3, <1>5 DEF Opening, Tasks
  <2> QED
    BY <1>4, <2>1, TaskSetGood, PartsCalm
<1>7. /\ b.task = task /\ b.taskStep = 0 /\ b.connMode = s.connMode
      /\ b.offline = s.offline
      /\ b.condition = IF task = "NONE" THEN s.condition \ {"APIWAIT"} ELSE s.condition
      /\ b.status = s.status /\ b.intrMode = s.intrMode
      /\ b.retryCount = s.retryCount /\ SameLine(s, b)
  BY <1>4, TaskSetEffect
<1> HIDE DEF b
<1>8. Begun(m, b, task, 0) /\ b.offline = m.offline
  BY <1>3, <1>5, <1>7 DEF Begun, SameLine, SameCall, Opening
<1>9. Sound(b)
  <2>1. ~InSession(b)
    BY <1>7, <1>8 DEF InSession, Asks
  <2>2. Kept(m, b)
    BY <1>6, <1>8, <2>1, BegunKept
  <2> QED
    BY <2>2 DEF Kept
<1>10. {"BIOS_BUSY", "ERROR"} \cap b.condition = {} /\ "APIWAIT" \in b.condition
  BY <1>1, <1>8, OpensQuiet DEF Begun
<1>11. {"CONNTEST", "CONN_PTP"} \cap b.status = {}
  BY <1>1, <1>8, <1>10 DEF Begun, Sound, Quiet, Checked, Calling, SendAwaited
<1>12. Refused(b) => b.negaResCmd = "END"
  BY <1>1, <1>8 DEF Begun, Refused, SameLine, Told, Answered
<1>13. LineAnswers \cap Hangs = {} => b.answer \notin Hangs
  BY <1>2, <1>5, <1>6 DEF Told, Asked, Calm
<1>14. b.task = task /\ b.taskStep = 0 /\ b.connMode = "OFFLINE"
  BY <1>8 DEF Begun
<1>15. /\ Told(n) /\ Ticks(n) /\ "APIWAIT" \in n.condition /\ "ERROR" \notin n.condition
       /\ n.task = b.task /\ n.connMode = "OFFLINE"
  BY <1>9, <1>10, <1>11, <1>12, <1>13, <1>14, FirstStepTold
<1>16. n = StartTask(m, task)
  BY DEF StartTask, b, s, e
<1> HIDE DEF n
<1>17. Requests(m, n)
  BY <1>1, <1>14, <1>15 DEF Requests
<1> QED
  BY <1>15, <1>16, <1>17 DEF Called, Moves

LEMMA OpenSessionCalled ==
  ASSUME NEW m, Sound(m), "APIWAIT" \notin m.condition, Told(m), LineKnown,
         NEW task \in {"TELSERVER", "TEL", "RECEIVE", "EEPROM_READ"}, CallAllowed(m, task)
  PROVE  Called(m, OpenSession(m, task, TRUE))
<1>1. Accepted(m) /\ m.connMode = "OFFLINE"
  BY DEF Accepted, CallAllowed, ApiValisStatusCheck, ValidIn
<1>2. Called(m, StartTask(m, task))
  BY <1>1, StartTaskCalled DEF Opening, Asks
<1> QED
  BY <1>2 DEF OpenSession

LEMMA OfflineCalled ==
  ASSUME NEW m, Sound(m), "APIWAIT" \notin m.condition, Told(m), Ticks(m),
         CallAllowed(m, "OFFLINE")
  PROVE  Called(m, MA_Offline(m))
<1> DEFINE e == MA_ApiPreExe(m)
           step == IF m.connMode = "PPP" THEN 0 ELSE 1
           n == MA_TaskSet(e, "OFFLINE", step)
<1>1. Accepted(m) /\ GoodMa(m) /\ m.connMode # "OFFLINE"
  BY DEF Accepted, CallAllowed, Sound, ApiValisStatusCheck, ValidIn
<1>2. GoodMa(e) /\ Calm(m, e)
  BY <1>1, PreExeGood, PreExeCalm DEF Accepted
<1>3. /\ e.condition = (m.condition \ {"TCPCLOSED"}) \cup {"APIWAIT"}
      /\ e.status = m.status /\ e.intrMode = m.intrMode
      /\ e.retryCount = m.retryCount /\ SameLine(m, e) /\ SameCall(m, e)
  BY <1>1, ApiPreExeEffect
<1>4. n = MA_Offline(m)
  BY <1>1 DEF MA_Offline
<1>5. step # 3
  OBVIOUS
<1> HIDE DEF e, step
<1>6. Calm(e, n)
  BY <1>2, PartsCalm
<1>7. /\ n.task = "OFFLINE" /\ n.taskStep = step /\ n.connMode = e.connMode
      /\ n.offline = e.offline
      /\ n.condition = IF "OFFLINE" = "NONE" THEN e.condition \ {"APIWAIT"} ELSE e.condition
      /\ n.status = e.status /\ n.intrMode = e.intrMode
      /\ n.retryCount = e.retryCount /\ SameLine(e, n)
  BY <1>2, TaskSetEffect
<1> HIDE DEF n
<1>8. Begun(m, n, "OFFLINE", step)
  BY <1>3, <1>7 DEF Begun, SameLine, SameCall
<1>9. Calm(m, n)
  BY <1>2, <1>6, CalmTrans
<1>10. Engaged(m) /\ Requests(m, n)
  BY <1>1, <1>8 DEF Begun, Requests, Engaged, Accepted
<1>11. Live(n) => Live(m)
  BY <1>8 DEF Begun, Live
<1> QED
  BY <1>1, <1>4, <1>5, <1>8, <1>9, <1>10, <1>11, CalmCalled
     DEF Moves, Begun, SameLine, Answered, Asks

LEMMA ConditionCalled ==
  ASSUME NEW m, Sound(m), "APIWAIT" \notin m.condition, Told(m), Ticks(m), LineKnown,
         NEW task \in {"CONDITION", "CONDITION2"}, task \in Calls, CallAllowed(m, task)
  PROVE  Called(m, MA_ConditionMain(m, task))
<1>1. Accepted(m) /\ GoodMa(m)
  BY DEF Accepted, CallAllowed, Sound
<1>2. ASSUME m.connMode = "OFFLINE"
      PROVE  Called(m, StartTask([m EXCEPT !.offline = TRUE], task))
  <2> DEFINE o == [m EXCEPT !.offline = TRUE]
             n == StartTask(o, task)
  <2>1. GoodMa(o)
    BY <1>1, SMT DEF GoodMa, CallOver, BodyPending, MaType
  <2>2. /\ o.condition = m.condition /\ o.status = m.status /\ o.intrMode = m.intrMode
        /\ o.retryCount = m.retryCount /\ o.connMode = m.connMode
        /\ o.task = m.task /\ o.taskStep = m.taskStep /\ SameLine(m, o)
        /\ o.answer = m.answer
    BY <1>1, SMT DEF GoodMa, MaType, MaFields, SameLine
  <2>3. o.offline = TRUE
    BY <1>1, SMT DEF GoodMa, MaType, MaFields
  <2> HIDE DEF o
  <2> USE DEF SameLine
  <2>4. Exchange(o)
    BY <1>1, <2>2 DEF Accepted, Sound, Exchange, Past
  <2>5. TaskAwaited(o) /\ QuietOffline(o) /\ LostInSession(o) /\ OpeningOffline(o)
        /\ UnreadKeepAlive(o)
    BY <1>1, <2>2 DEF Accepted, Sound, Calling, TaskAwaited, QuietOffline,
       LostInSession, OpeningOffline, Opening, UnreadKeepAlive
  <2>6. StartOpens(o) /\ SendAwaited(o)
    BY <1>1, <2>2 DEF Accepted, Sound, Calling, StartOpens, Live, SendAwaited
  <2>7. Quiet(o)
    BY <1>1, <2>2 DEF Sound, Quiet, Retreat, Checked
  <2>8. Accepted(o)
    BY <1>1, <2>1, <2>2, <2>4, <2>5, <2>6, <2>7 DEF Sound, Calling, Accepted
  <2>9. Told(o)
    BY <2>2 DEF Told, Asked, Leaving, Answered, Live
  <2>10. Called(o, n)
    BY <1>2, <2>2, <2>3, <2>8, <2>9, StartTaskCalled DEF Opening
  <2> HIDE DEF n
  <2>11. Moves(m, n)
    BY <2>2, <2>10 DEF Called, Moves, Unseen, Requests, Cancels, Reads
  <2> QED
    BY <2>10, <2>11 DEF Called, n, o
<1>3. ASSUME m.connMode # "OFFLINE"
      PROVE  Called(m, MA_TaskSet([MA_ApiPreExe(m) EXCEPT !.offline = FALSE], task, 1))
  <2> DEFINE e == MA_ApiPreExe(m)
             s == [e EXCEPT !.offline = FALSE]
             n == MA_TaskSet(s, task, 1)
  <2>1. GoodMa(e) /\ Calm(m, e)
    BY <1>1, PreExeGood, PreExeCalm DEF Accepted
  <2>2. /\ e.condition = (m.condition \ {"TCPCLOSED"}) \cup {"APIWAIT"}
        /\ e.status = m.status /\ e.intrMode = m.intrMode
        /\ e.retryCount = m.retryCount /\ SameLine(m, e) /\ SameCall(m, e)
    BY <1>1, ApiPreExeEffect
  <2> HIDE DEF e
  <2>3. GoodMa(s) /\ Calm(e, s)
    <3>1. GoodMa(s)
      BY <2>1, SMT DEF GoodMa, CallOver, BodyPending, MaType
    <3>2. Calm(e, s)
      BY <2>1, SMT DEF GoodMa, MaType, MaFields, Calm
    <3> QED
      BY <3>1, <3>2
  <2>4. /\ s.condition = e.condition /\ s.status = e.status /\ s.intrMode = e.intrMode
        /\ s.retryCount = e.retryCount /\ s.connMode = e.connMode /\ SameLine(e, s)
    BY <2>1, SMT DEF GoodMa, MaType, MaFields, SameLine
  <2> HIDE DEF s
  <2>5. Calm(s, n)
    BY <2>3, PartsCalm
  <2>6. /\ n.task = task /\ n.taskStep = 1 /\ n.connMode = s.connMode
        /\ n.offline = s.offline
        /\ n.condition = IF task = "NONE" THEN s.condition \ {"APIWAIT"} ELSE s.condition
        /\ n.status = s.status /\ n.intrMode = s.intrMode
        /\ n.retryCount = s.retryCount /\ SameLine(s, n)
    BY <2>3, TaskSetEffect
  <2> HIDE DEF n
  <2>7. Begun(m, n, task, 1)
    BY <2>2, <2>4, <2>6 DEF Begun, SameLine, SameCall
  <2>8. Calm(m, n)
    BY <2>1, <2>3, <2>5, CalmTrans
  <2>9. Engaged(m) /\ Requests(m, n)
    BY <1>1, <1>3, <2>7 DEF Begun, Requests, Engaged, Accepted, Asks
  <2>10. Live(n) => Live(m)
    BY <2>7 DEF Begun, Live
  <2>11. Called(m, n)
    BY <1>3, <2>7, <2>8, <2>9, <2>10, CalmCalled DEF Moves, Begun, SameLine, Answered
  <2> QED
    BY <2>11 DEF n, s, e
<1> QED
  BY <1>2, <1>3 DEF MA_ConditionMain
LEMMA SDataCalled ==
  ASSUME NEW m, Sound(m), "APIWAIT" \notin m.condition, Told(m), Ticks(m),
         CallAllowed(m, "SDATA")
  PROVE  Called(m, MA_SData(m, TRUE))
<1> DEFINE e == MA_ApiPreExe(m)
           r == [e EXCEPT !.condition = @ \ {"APIWAIT"}]
           s == [e EXCEPT !.status = @ \cup {"PTP_SEND"}]
<1>1. Accepted(m) /\ GoodMa(m) /\ m.connMode # "OFFLINE" /\ m.task = "NONE"
  BY DEF Accepted, CallAllowed, Sound, ApiValisStatusCheck, ValidIn
<1>2. GoodMa(e) /\ Calm(m, e)
  BY <1>1, PreExeGood, PreExeCalm DEF Accepted
<1>3. /\ e.condition = (m.condition \ {"TCPCLOSED"}) \cup {"APIWAIT"}
      /\ e.status = m.status /\ e.intrMode = m.intrMode
      /\ e.retryCount = m.retryCount /\ SameLine(m, e) /\ SameCall(m, e)
  BY <1>1, ApiPreExeEffect
<1>4. MA_SData(m, TRUE) \in {r, s}
  BY DEF MA_SData
<1> HIDE DEF e
<1>5. ASSUME NEW n, Calm(e, n), n.intrMode = e.intrMode, SameLine(e, n), SameCall(e, n),
             \/ n.condition = e.condition \ {"APIWAIT"} /\ n.status = e.status
             \/ n.condition = e.condition /\ n.status = e.status \cup {"PTP_SEND"}
      PROVE  Called(m, n)
  <2>1. Calm(m, n)
    BY <1>2, <1>5, CalmTrans
  <2>2. Moves(m, n)
    BY <1>1, <1>3, <1>5 DEF Moves, Unseen, Requests, Accepted, SameCall
  <2>3. Live(n) => Live(m)
    BY <1>3, <1>5 DEF Live
  <2>4. /\ Engaged(m) /\ n.connMode = m.connMode /\ n.sendCmd = m.sendCmd
        /\ n.task = "NONE"
        /\ "CONNTEST" \in m.status => "CONNTEST" \in n.status
    BY <1>1, <1>3, <1>5 DEF SameCall, SameLine, Engaged
  <2> QED
    BY <1>1, <2>1, <2>2, <2>3, <2>4, CalmCalled DEF Answered, Asks
<1>6. Called(m, r)
  <2>1. /\ r.condition = e.condition \ {"APIWAIT"} /\ r.status = e.status
        /\ r.intrMode = e.intrMode /\ SameLine(e, r) /\ SameCall(e, r)
    BY <1>2, SMT DEF GoodMa, MaType, MaFields, SameLine, SameCall
  <2>2. Calm(e, r)
    BY <1>2, SMT DEF GoodMa, MaType, MaFields, Calm
  <2> HIDE DEF r
  <2> QED
    BY <1>5, <2>1, <2>2
<1>7. Called(m, s)
  <2>1. /\ s.condition = e.condition /\ s.status = e.status \cup {"PTP_SEND"}
        /\ s.intrMode = e.intrMode /\ SameLine(e, s) /\ SameCall(e, s)
    BY <1>2, SMT DEF GoodMa, MaType, MaFields, SameLine, SameCall
  <2>2. Calm(e, s)
    BY <1>2, SMT DEF GoodMa, MaType, MaFields, Calm
  <2> HIDE DEF s
  <2> QED
    BY <1>5, <2>1, <2>2
<1> QED
  BY <1>4, <1>6, <1>7

LEMMA GDataCalled ==
  ASSUME NEW m, Sound(m), "APIWAIT" \notin m.condition, Told(m), Ticks(m),
         CallAllowed(m, "GDATA"), "PTP_GET" \in m.condition, NEW more
  PROVE  Called(m, MA_GData(m, more))
<1> DEFINE e == MA_ApiPreExe(m)
           taken == IF more THEN {"APIWAIT"} ELSE {"APIWAIT", "PTP_GET"}
           n == [e EXCEPT !.condition = @ \ taken]
<1>1. Accepted(m) /\ GoodMa(m) /\ m.connMode # "OFFLINE" /\ m.task = "NONE"
  BY DEF Accepted, CallAllowed, Sound, ApiValisStatusCheck, ValidIn
<1>2. GoodMa(e) /\ Calm(m, e)
  BY <1>1, PreExeGood, PreExeCalm DEF Accepted
<1>3. /\ e.condition = (m.condition \ {"TCPCLOSED"}) \cup {"APIWAIT"}
      /\ e.status = m.status /\ e.intrMode = m.intrMode
      /\ e.retryCount = m.retryCount /\ SameLine(m, e) /\ SameCall(m, e)
  BY <1>1, ApiPreExeEffect
<1>4. MA_GData(m, more) = n
  BY DEF MA_GData
<1>5. "APIWAIT" \in taken /\ taken \subseteq {"APIWAIT", "PTP_GET"}
  OBVIOUS
<1> HIDE DEF e, taken
<1>6. /\ n.condition = e.condition \ taken /\ n.status = e.status
      /\ n.intrMode = e.intrMode /\ SameLine(e, n) /\ SameCall(e, n)
  BY <1>2, SMT DEF GoodMa, MaType, MaFields, SameLine, SameCall
<1>7. Calm(e, n)
  BY <1>2, SMT DEF GoodMa, MaType, MaFields, Calm
<1> HIDE DEF n
<1>8. Calm(m, n)
  BY <1>2, <1>7, CalmTrans
<1>9. Moves(m, n)
  BY <1>1, <1>3, <1>5, <1>6 DEF Moves, Unseen, Accepted, SameCall
<1>10. Live(n) => Live(m)
  BY <1>3, <1>6 DEF Live
<1>11. /\ Engaged(m) /\ n.connMode = m.connMode /\ n.sendCmd = m.sendCmd
       /\ n.task = "NONE"
       /\ "CONNTEST" \in m.status => "CONNTEST" \in n.status
  BY <1>1, <1>3, <1>6 DEF SameCall, SameLine, Engaged
<1>12. Called(m, n)
  BY <1>1, <1>8, <1>9, <1>10, <1>11, CalmCalled DEF Answered, Asks
<1> QED
  BY <1>4, <1>12

LEMMA StopCalled ==
  ASSUME NEW m, Sound(m), Told(m), Ticks(m), "ERROR" \notin m.condition
  PROVE  m.apiMagic => Called(m, MA_Stop(m))
<1> DEFINE w == [m EXCEPT !.condition = (@ \ {"BUFFER_FULL"}) \cup {"APIWAIT"}]
           c == MA_TaskSet(w, "STOP", 0)
           s == MA_TaskSet(w, "STOP", 1)
           x == MA_CancelRequest(c)
<1>1. GoodMa(m)
  BY DEF Sound
<1>2. m.apiMagic =>
      \/ MA_Stop(m) = m
      \/ /\ m.connMode # "OFFLINE" \/ "APIWAIT" \in m.condition
         /\ MA_Stop(m) = s \/ (MA_Stop(m) = x /\ m.sendCmd = "TEL")
  BY DEF MA_Stop
<1>3. GoodMa(w)
  BY <1>1, SMT DEF GoodMa, CallOver, BodyPending, MaType, ConditionFlags
<1>4. /\ w.condition = (m.condition \ {"BUFFER_FULL"}) \cup {"APIWAIT"}
      /\ w.status = m.status /\ w.intrMode = m.intrMode
      /\ SameLine(m, w) /\ SameCall(m, w)
  BY <1>1, SMT DEF GoodMa, MaType, MaFields, SameLine, SameCall
<1>5. Calm(m, w)
  BY <1>1, SMT DEF GoodMa, MaType, MaFields, Calm
<1> HIDE DEF w
<1>6. ASSUME NEW step
      PROVE  LET n == MA_TaskSet(w, "STOP", step)
             IN /\ Calm(m, n) /\ n.task = "STOP" /\ n.condition = w.condition
                /\ n.status = m.status /\ n.intrMode = m.intrMode
                /\ n.connMode = m.connMode /\ n.sendCmd = m.sendCmd
  <2> DEFINE n == MA_TaskSet(w, "STOP", step)
  <2>1. Calm(w, n)
    BY <1>3, PartsCalm
  <2>2. /\ n.task = "STOP" /\ n.taskStep = step /\ n.connMode = w.connMode
        /\ n.offline = w.offline
        /\ n.condition = IF "STOP" = "NONE" THEN w.condition \ {"APIWAIT"} ELSE w.condition
        /\ n.status = w.status /\ n.intrMode = w.intrMode
        /\ n.retryCount = w.retryCount /\ SameLine(w, n)
    BY <1>3, TaskSetEffect
  <2> HIDE DEF n
  <2>3. Calm(m, n)
    BY <1>5, <2>1, CalmTrans
  <2>4. /\ Calm(m, n) /\ n.task = "STOP" /\ n.condition = w.condition
        /\ n.status = m.status /\ n.intrMode = m.intrMode /\ n.connMode = m.connMode
        /\ n.sendCmd = m.sendCmd
    BY <1>4, <2>2, <2>3 DEF SameLine, SameCall
  <2> QED
    BY <2>4 DEF n
<1>7. ASSUME m.connMode # "OFFLINE" \/ "APIWAIT" \in m.condition, NEW n, Calm(m, n),
             n.task = "STOP", {"APIWAIT"} \subseteq n.condition, "ERROR" \notin n.condition,
             n.connMode = m.connMode, n.sendCmd = m.sendCmd, Live(n) => Live(m),
             "CONNTEST" \in m.status => "CONNTEST" \in n.status
      PROVE  Called(m, n)
  <2>1. Engaged(m) /\ Moves(m, n)
    BY <1>7 DEF Engaged, Moves, Requests, Cancels
  <2> QED
    BY <1>7, <2>1, CalmCalled DEF Answered, Asks
<1>8. CASE MA_Stop(m) = m
  BY <1>8 DEF Called, Moves, Unseen
<1>9. ASSUME m.connMode # "OFFLINE" \/ "APIWAIT" \in m.condition PROVE Called(m, s)
  <2>1. /\ Calm(m, s) /\ s.task = "STOP" /\ s.condition = w.condition
        /\ s.status = m.status /\ s.intrMode = m.intrMode /\ s.connMode = m.connMode
        /\ s.sendCmd = m.sendCmd
    BY <1>6
  <2> HIDE DEF s
  <2>2. Live(s) => Live(m)
    BY <2>1 DEF Live
  <2> QED
    BY <1>4, <1>7, <1>9, <2>1, <2>2
<1>10. ASSUME m.connMode # "OFFLINE" \/ "APIWAIT" \in m.condition PROVE Called(m, x)
  <2>1. /\ Calm(m, c) /\ c.task = "STOP" /\ c.condition = w.condition
        /\ c.status = m.status /\ c.intrMode = m.intrMode /\ c.connMode = m.connMode
        /\ c.sendCmd = m.sendCmd
    BY <1>6
  <2>2. GoodMa(c)
    <3>1. "STOP" \in Tasks /\ 0 \in 0..255 /\ "ERROR" \notin w.condition
      BY <1>4 DEF Tasks
    <3> QED
      BY <1>3, <3>1, TaskSetGood
  <2> HIDE DEF c
  <2>3. Waits(c, x) /\ x.status = c.status \cup {"BIOS_RESTART"}
    BY <2>2, CancelRequestEffect
  <2>4. Calm(c, x)
    BY <2>2, SMT DEF MA_CancelRequest, GoodMa, MaType, MaFields, Calm
  <2> HIDE DEF x
  <2>5. Calm(m, x)
    BY <2>1, <2>4, CalmTrans
  <2>6. Live(x) => Live(m)
    BY <2>1, <2>3 DEF Live, Waits
  <2> QED
    BY <1>4, <1>7, <1>10, <2>1, <2>3, <2>5, <2>6 DEF Waits, SameLine, SameCall
<1> QED
  BY <1>2, <1>8, <1>9, <1>10

LEMMA ErrorCheckCalled ==
  ASSUME NEW m, Sound(m), Told(m), Ticks(m), LineKnown, "ERROR" \in m.condition
  PROVE  Called(m, MAAPI_ErrorCheck(m))
<1> DEFINE error == IF m.error \in {"PROT_ILLEGAL_CMD", "PROT_CHECKSUM",
                                    "PROT_INTERNAL"} THEN "SYSTEM" ELSE m.error
           e == [m EXCEPT !.error = error, !.condition = @ \ {"ERROR"}]
           f == [e EXCEPT !.sendCmd = None, !.recvCmd = None]
<1>1. GoodMa(m) /\ "BIOS_BUSY" \notin m.condition
  BY DEF Sound, Quiet, Checked
<1>2. MAAPI_ErrorCheck(m) = f
  BY <1>1 DEF MAAPI_ErrorCheck
<1> HIDE DEF error
<1>3. /\ e.condition = m.condition \ {"ERROR"} /\ e.status = m.status /\ SameCall(m, e)
      /\ e.tm3 = m.tm3 /\ e.sio = m.sio /\ e.answer = m.answer /\ DOMAIN e = MaFields
  BY <1>1, SMT DEF GoodMa, MaType, MaFields, SameCall
<1> HIDE DEF e
<1>4. /\ f.condition = e.condition /\ f.status = e.status /\ SameCall(e, f)
      /\ f.tm3 = e.tm3 /\ f.sio = e.sio /\ f.answer = e.answer
      /\ f.sendCmd = None /\ f.recvCmd = None
  BY <1>3, SMT DEF MaFields, SameCall
<1> HIDE DEF f
<1>5. m.task = "NONE" /\ "APIWAIT" \notin m.condition
  BY <1>1 DEF GoodMa, CallOver
<1>6. Told(f)
  BY <1>3, <1>4, <1>5 DEF Told, Asked, Leaving, Answered, SameCall, None, Asks
<1>7. Ticks(f)
  BY <1>3, <1>4 DEF Ticks, Awake, Engaged, SameCall
<1>8. Reads(m, f)
  BY <1>3, <1>4, <1>5 DEF Reads, SameCall
<1> QED
  BY <1>2, <1>6, <1>7, <1>8 DEF Called, Moves
LEMMA InitLibraryCalled ==
  ASSUME NEW m, "APIWAIT" \notin m.condition, m.connMode = "OFFLINE",
         NEW task \in {"INITLIBRARY", "INITLIBRARY2"}
  PROVE  Called(m, MA_InitLibraryMain(task))
<1> DEFINE n == MA_InitLibraryMain(task)
<1>1. PICK w : /\ n = MAAPI_Main(w) /\ GoodMa(w)
               /\ w.condition = {"APIWAIT"} /\ w.status = {} /\ w.intrMode = "IDLE"
               /\ w.retryCount = 0 /\ w.connMode = "OFFLINE" /\ w.task = task
               /\ w.taskStep = 0 /\ w.recvCmd = None /\ w.negaResCmd = None
               /\ w.answer = None
  BY InitLibraryBegun
<1> HIDE DEF n
<1>2. Sound(w)
  BY <1>1, FreshSound
<1>3. /\ {"BIOS_BUSY", "ERROR"} \cap w.condition = {} /\ "APIWAIT" \in w.condition
      /\ {"CONNTEST", "CONN_PTP"} \cap w.status = {} /\ w.task \in Opening
      /\ ~Refused(w) /\ w.task \notin Asks /\ w.answer \notin Hangs
  BY <1>1 DEF Opening, Refused, None, Asks, Hangs
<1>4. /\ Told(n) /\ Ticks(n) /\ "APIWAIT" \in n.condition /\ "ERROR" \notin n.condition
      /\ n.task = w.task /\ n.connMode = "OFFLINE"
  BY <1>1, <1>2, <1>3, FirstStepTold
<1>5. Requests(m, n)
  BY <1>1, <1>3, <1>4 DEF Requests
<1> QED
  BY <1>4, <1>5 DEF Called, Moves, n

LEMMA ZeroTold == Told(Zero) /\ ~Engaged(Zero)
  BY DEF Zero, Told, Asked, Leaving, Answered, Asks, Hangs, None, Engaged

LEMMA EndCalled ==
  ASSUME NEW m, Sound(m), "APIWAIT" \notin m.condition, m.connMode = "OFFLINE"
  PROVE  Called(m, MA_End(m))
<1>1. MA_End(m) = Zero
  BY DEF MA_End
<1>2. Told(Zero) /\ Ticks(Zero)
  BY ZeroTold DEF Ticks, Awake
<1>3. m.task = "NONE"
  BY DEF Sound, Calling, TaskAwaited, Stopping
<1>4. Zero.condition = {} /\ Zero.task = "NONE" /\ Zero.connMode = "OFFLINE"
  BY DEF Zero
<1>5. Moves(m, Zero)
  BY <1>3, <1>4 DEF Moves, Unseen, Reads
<1> QED
  BY <1>1, <1>2, <1>5 DEF Called

\* Whatever the game calls.
LEMMA GameCalled ==
  ASSUME ~Misuse, LineKnown, Sound(gMA), Told(gMA), Ticks(gMA), Game
  PROVE  Called(gMA, gMA') /\ rx = 0 /\ rx' = 0
<1> USE DEF Returns, MayCall, Legal, Settled
<1>1. CASE \E task \in {"INITLIBRARY", "INITLIBRARY2"} : InitLibrary(task)
  BY <1>1, InitLibraryCalled DEF InitLibrary
<1>2. CASE \E task \in {"CONDITION", "CONDITION2"} : Condition(task)
  BY <1>2, ConditionCalled DEF Condition
<1>3. CASE End
  BY <1>3, EndCalled DEF End
<1>4. CASE TelServer
  BY <1>4, OpenSessionCalled DEF TelServer, MA_TelServer
<1>5. CASE Tel
  BY <1>5, OpenSessionCalled DEF Tel, MA_Tel
<1>6. CASE Receive
  BY <1>6, OpenSessionCalled DEF Receive, MA_Receive
<1>7. CASE EEPROMRead
  BY <1>7, OpenSessionCalled DEF EEPROMRead, MA_EEPROMRead
<1>8. CASE Offline
  BY <1>8, OfflineCalled DEF Offline
<1>9. CASE SData
  BY <1>9, SDataCalled DEF SData
<1>10. CASE GData
  BY <1>10, GDataCalled DEF GData
<1>11. CASE Stop
  BY <1>11, StopCalled DEF Stop
<1>12. CASE ErrorCheck
  BY <1>12, ErrorCheckCalled DEF ErrorCheck
<1> QED
  BY <1>1, <1>2, <1>3, <1>4, <1>5, <1>6, <1>7, <1>8, <1>9, <1>10, <1>11, <1>12
     DEF Game
----------------------------------------------------------------------------
(* The invariant, and what each step is to the game.                       *)

\* What a call waits for will come.
Ready ==
  /\ Inv /\ Told(gMA) /\ (Engaged(gMA) => gMA.tm3 = TRUE)
  /\ rx = 0 => Awake(gMA)

LEMMA ReadyInit == Init => Ready
  BY SoundInit, ZeroTold DEF Init, Ready, Awake

LEMMA ReadyStep ==
  ASSUME ~Misuse, LineKnown, LineStays
  PROVE  Ready /\ [Next]_vars =>
           /\ Ready'
           /\ ~Overlap => Serves(gMA, gMA') \/ Moves(gMA, gMA')
<1> SUFFICES ASSUME Ready, [Next]_vars
             PROVE  Ready' /\ (~Overlap => Serves(gMA, gMA') \/ Moves(gMA, gMA'))
  OBVIOUS
<1>1. Inv /\ Told(gMA) /\ Sound(gMA) /\ (Engaged(gMA) => gMA.tm3 = TRUE)
  BY DEF Ready, Inv
<1>2. Inv'
  BY <1>1, SoundStep
<1>3. CASE UNCHANGED vars
  <2>1. gMA' = gMA /\ rx' = rx
    BY <1>3 DEF vars
  <2>2. Told(gMA') /\ (Engaged(gMA') => gMA'.tm3 = TRUE) /\ (rx' = 0 => Awake(gMA'))
    BY <2>1 DEF Ready
  <2>3. Serves(gMA, gMA')
    BY <2>1 DEF Serves, Unseen
  <2> QED
    BY <1>2, <2>2, <2>3 DEF Ready
<1>4. CASE Game
  <2>1. rx = 0
    BY <1>1, <1>4, GameKept
  <2>2. Ticks(gMA)
    BY <2>1 DEF Ticks, Ready
  <2>3. Called(gMA, gMA')
    BY <1>1, <1>4, <2>2, GameCalled
  <2> QED
    BY <1>2, <2>3 DEF Called, Ticks, Ready
<1>5. CASE Timer
  <2>1. Told(gMA') /\ gMA'.tm3 = TRUE /\ Awake(gMA') /\ (~Overlap => Serves(gMA, gMA'))
    BY <1>1, <1>5, TimerTold
  <2> QED
    BY <1>2, <2>1 DEF Ready
<1>6. CASE Serial
  <2>1. /\ Told(gMA') /\ (Unseen(gMA, gMA') \/ Breaks(gMA, gMA'))
        /\ Steady(gMA, gMA') /\ (rx' = 0 => "TIMER_ENABLED" \in gMA'.status)
    BY <1>1, <1>6, SerialTold DEF Hears
  <2>2. Engaged(gMA') => Engaged(gMA)
    BY <2>1 DEF Unseen, Breaks, Engaged
  <2>3. Engaged(gMA') => gMA'.tm3 = TRUE
    BY <1>1, <2>1, <2>2 DEF Steady
  <2>4. rx' = 0 => Awake(gMA')
    BY <2>1 DEF Awake
  <2> QED
    BY <1>2, <2>1, <2>3, <2>4 DEF Ready, Serves
<1> QED
  BY <1>3, <1>4, <1>5, <1>6 DEF Next

LEMMA ReadyAlways ==
  ASSUME ~Misuse, LineKnown, LineStays PROVE Spec => []Ready
<1>1. Ready /\ [Next]_vars => Ready'
  BY ReadyStep
<1> QED
  BY <1>1, ReadyInit, PTL DEF Spec

\* A call that waits always has an interrupt to come that will run its task:
\* however the request is sent, refused, restarted or given up, and whatever
\* the game calls, timer 3 is on and its handler enabled, or a transfer is in
\* flight after which MA_IntrSerialIO enables it.
THEOREM LibMaNoLostWakeup ==
  ASSUME ~Misuse, "CHECK_STATUS" \notin Refusable,
         LineAnswers \cap {"lost", "hungup"} = {}
           \/ Calls \cap {"CONDITION", "CONDITION2"} = {}
  PROVE  Spec => []NoLostWakeup
<1>1. Ready => NoLostWakeup
  BY DEF Ready, Engaged, Awake, NoLostWakeup
<1>2. LineKnown /\ LineStays
  BY DEF LineKnown, LineStays, Hangs, Asks
<1>3. Spec => []Ready
  BY <1>2, ReadyAlways
<1> QED
  BY <1>1, <1>3, PTL

----------------------------------------------------------------------------
(* libma implements ApiRequest.                                            *)

LEMMA UnseenApi ==
  Unseen(gMA, gMA') => UNCHANGED <<Req, Pending, gMA.connMode # "OFFLINE">>
<1> SUFFICES ASSUME Unseen(gMA, gMA')
             PROVE  UNCHANGED <<Req, Pending, gMA.connMode # "OFFLINE">>
  OBVIOUS
<1>1. Req' = Req
  BY DEF Unseen, Req
<1>2. Pending' = Pending
  BY <1>1 DEF Unseen, Pending
<1>3. (gMA.connMode # "OFFLINE")' = (gMA.connMode # "OFFLINE")
  BY DEF Unseen
<1> QED
  BY <1>1, <1>2, <1>3

LEMMA BreaksApi == Breaks(gMA, gMA') => Api!Fail
<1> SUFFICES ASSUME Breaks(gMA, gMA') PROVE Api!Fail
  OBVIOUS
<1>1. Req' = "failed" /\ Pending' = "none"
  BY DEF Breaks, Req, Pending
<1>2. Req = "pending" \/ (Req = "idle" /\ gMA.connMode # "OFFLINE")
  BY DEF Breaks, Engaged, Req
<1>3. (gMA.connMode # "OFFLINE")' \in {gMA.connMode # "OFFLINE", FALSE}
  BY DEF Breaks
<1> QED
  BY <1>1, <1>2, <1>3 DEF Api!Fail

LEMMA CompletesApi ==
  ASSUME Sound(gMA), ~Overlap, Completes(gMA, gMA')
  PROVE  Api!Complete \/ Unseen(gMA, gMA')
<1>1. GoodMa(gMA) /\ "ERROR" \notin gMA.condition
      /\ (gMA.task # "NONE" => "APIWAIT" \in gMA.condition)
  BY DEF Sound, Completes, Calling, TaskAwaited, Stopping, Overlap
<1>2. CASE "APIWAIT" \notin gMA.condition
  BY <1>1, <1>2 DEF Completes, Unseen
<1>3. CASE "APIWAIT" \in gMA.condition
  <2>1. Req = "pending" /\ Req' = "idle" /\ Pending' = "none"
    BY <1>1, <1>3 DEF Req, Pending, Completes
  <2>2. Pending = IF gMA.task = "NONE" THEN "SDATA" ELSE gMA.task
    BY <2>1 DEF Pending
  <2>3. (gMA.connMode # "OFFLINE")' \in BOOLEAN
    OBVIOUS
  <2>4. Api!Ends(Pending, (gMA.connMode # "OFFLINE")')
    <3>1. gMA.task \in Tasks
      BY <1>1 DEF GoodMa, MaType
    <3>2. CASE gMA.task \in {"TELSERVER", "TEL", "RECEIVE"}
      BY <2>2, <3>2 DEF Completes, Api!Ends, Api!Opening, Api!Closing, Api!Alone,
         Api!Starting, Api!Asking
    <3>3. CASE gMA.task \in {"INITLIBRARY", "INITLIBRARY2", "EEPROM_READ", "OFFLINE", "STOP"}
      BY <2>2, <3>3 DEF Completes, Api!Ends, Api!Opening, Api!Closing, Api!Alone, Api!Starting
    <3>4. CASE gMA.task \in Asks
      BY <2>2, <3>4 DEF Completes, Api!Ends, Api!Opening, Api!Closing, Api!Alone,
         Api!Starting, Api!Asking, Asks
    <3>5. CASE gMA.task = "NONE"
      BY <2>2, <3>5 DEF Completes, Api!Ends, Api!Opening, Api!Closing, Api!Alone,
         Api!Starting, Api!Asking
    <3> QED
      BY <3>1, <3>2, <3>3, <3>4, <3>5 DEF Tasks, Asks
  <2> QED
    BY <2>1, <2>3, <2>4 DEF Api!Complete
<1> QED
  BY <1>2, <1>3

LEMMA MovesApi ==
  Moves(gMA, gMA') =>
    Unseen(gMA, gMA') \/ Api!Request \/ Api!Cancel \/ Api!Acknowledge
<1>1. ASSUME Requests(gMA, gMA') PROVE Api!Request
  <2>1. Req' = "pending" /\ Pending' = IF gMA'.task = "NONE" THEN "SDATA" ELSE gMA'.task
    BY <1>1 DEF Requests, Req, Pending
  <2>2. (gMA.connMode # "OFFLINE")' = (gMA.connMode # "OFFLINE")
    BY <1>1 DEF Requests
  <2>3. Req = "idle" \/ (Req = "failed" /\ Pending' \in Api!Starting)
    BY <1>1, <2>1 DEF Requests, Req, Api!Starting
  <2>4. Pending' \in Api!Allowed
    BY <1>1, <2>1 DEF Requests, Opening, Asks, Api!Allowed, Api!Closing, Api!Asking,
       Api!Peer, Api!Opening, Api!Alone, Api!Starting
  <2> QED
    BY <2>1, <2>2, <2>3, <2>4 DEF Api!Request
<1>2. ASSUME Cancels(gMA, gMA') PROVE Api!Cancel
  <2>1. Req' = "pending" /\ Req = "pending" /\ Pending' = "STOP"
    BY <1>2 DEF Cancels, Req, Pending
  <2>2. (gMA.connMode # "OFFLINE")' = (gMA.connMode # "OFFLINE")
    BY <1>2 DEF Cancels
  <2> QED
    BY <2>1, <2>2 DEF Api!Cancel
<1>3. ASSUME Reads(gMA, gMA') PROVE Api!Acknowledge
  <2>1. Req' = "idle" /\ Req = "failed" /\ Pending' = "none" /\ Pending = "none"
    BY <1>3 DEF Reads, Req, Pending
  <2>2. (gMA.connMode # "OFFLINE")' = (gMA.connMode # "OFFLINE")
    BY <1>3 DEF Reads
  <2> QED
    BY <2>1, <2>2 DEF Api!Acknowledge
<1> QED
  BY <1>1, <1>2, <1>3 DEF Moves

\* Every step of the library is to the game one of ApiRequest, or nothing:
\* a call is accepted only when none is pending, is over once, by success or by
\* an error that stays until it is read, and the session is what the calls that
\* succeeded have made of it, however many commands, retries and restarts that
\* took.
THEOREM LibMaImplementsApi ==
  ASSUME ~Misuse, "CHECK_STATUS" \notin Refusable,
         LineAnswers \cap {"lost", "hungup"} = {}
           \/ Calls \cap {"CONDITION", "CONDITION2"} = {},
         ~({"STOP", "SDATA"} \subseteq Calls)
  PROVE  Spec => ApiSpec
<1>1. LineKnown /\ LineStays /\ ~Overlap
  BY DEF LineKnown, LineStays, Hangs, Asks, Overlap
<1>2. Init => Api!Init
  BY DEF Init, Zero, Api!Init, Req, Pending
<1>3. Ready /\ [Next]_vars => [Api!Next]_(Api!vars)
  <2> SUFFICES ASSUME Ready, [Next]_vars PROVE [Api!Next]_(Api!vars)
    OBVIOUS
  <2>1. Sound(gMA)
    BY DEF Ready, Inv
  <2>2. Serves(gMA, gMA') \/ Moves(gMA, gMA')
    BY <1>1, ReadyStep
  <2>3. Unseen(gMA, gMA') \/ Api!Next
    BY <1>1, <2>1, <2>2, BreaksApi, CompletesApi, MovesApi DEF Serves, Api!Next
  <2> QED
    BY <2>3, UnseenApi DEF Api!vars
<1>4. Spec => []Ready
  BY <1>1, ReadyAlways
<1> QED
  BY <1>2, <1>3, <1>4, PTL DEF Spec, ApiSpec, Api!Spec

=============================================================================
