-------------------------------- MODULE MaBios -------------------------------
(***************************************************************************)
(* The lower layer of libma (ma_bios.c): the serial protocol as a state    *)
(* machine advanced by two interrupt handlers.  The timer interrupt starts *)
(* one transfer at a time, the serial interrupt interprets what the        *)
(* adapter answered in that transfer.  Each operator is one C function;    *)
(* what the adapter puts on the line is a parameter.                       *)
(*                                                                         *)
(* A request packet is reduced to its length in transfers (PacketBytes)    *)
(* and a reply to its fields: two magic bytes, four header bytes, a body,  *)
(* two checksum bytes, a footer.  A body is empty, one byte, or two bytes  *)
(* when it carries peer data.                                              *)
(***************************************************************************)
EXTENDS MaVar

CONSTANTS
  TimeoutCounter,  \* [Timeouts -> Nat]: transfers a reply may take
  NullCounter,     \* idle ticks between two keep-alive checks
  P2PCounter,      \* idle ticks between two peer-to-peer polls
  MaxRubbish,      \* unrecognized bytes tolerated before a reply (20)
  U16              \* modulus of retryCount (65536)

ASSUME MaBiosAssumption ==
  /\ TimeoutCounter \in [Timeouts -> Nat]
  /\ NullCounter \in Nat /\ P2PCounter \in Nat /\ MaxRubbish \in Nat
  /\ U16 \in Nat /\ U16 > 3

\* Length of a request.  In BYTE mode the last two footer bytes are not sent,
\* so that the length is no multiple of four; in WORD mode it always is.
PacketBytes(sioMode) == IF sioMode = "BYTE" THEN 2 ELSE 4

\* Transfers move one byte, or four.
Transfer(sioMode) == IF sioMode = "BYTE" THEN 1 ELSE 4

\* MABIOS_Init, applied to a zeroed gMA: the serial port is reset (a transfer
\* in flight is lost and its interrupt acknowledged) and the timer is off.
MABIOS_Init(m) ==
  [m EXCEPT !.condition = {}, !.error = None, !.intrMode = "IDLE",
            !.sioMode = "BYTE", !.counter = 0, !.retryCount = 0,
            !.status = {}, !.sendCmd = None, !.recvCmd = None,
            !.tm3 = FALSE, !.sio = FALSE]

MA_TaskSet(m, task, step) ==
  [m EXCEPT !.task = task, !.taskStep = step,
            !.condition = IF task = "NONE" THEN @ \ {"APIWAIT"} ELSE @]

MA_SetError(m, error) ==
  LET r == IF error = "MA_NOT_FOUND" THEN MA_Reset(m) ELSE m
  IN [r EXCEPT !.error = error, !.intrMode = "IDLE",
               !.sendState = "IDLE", !.recvState = "IDLE", !.task = "NONE",
               !.condition = (@ \cup {"ERROR"})
                               \ {"BIOS_BUSY", "APIWAIT", "BUFFER_FULL"}]

\* MA_PreSend returns FALSE, with the error CANNOT_EXECUTE, when the bios is
\* busy or an error has not been read; otherwise it clears the last exchange.
CanSend(m) == {"BIOS_BUSY", "ERROR"} \cap m.condition = {}

\* Mistake: a retry of the last request is remembered.
PreSendKeepsRetry(m) ==
  [m EXCEPT !.error = None, !.condition = @ \ {"TCPCLOSED"},
            !.retryCount = 0, !.counter = 0, !.sendCmd = None, !.recvCmd = None]

MA_PreSend(m) ==
  [m EXCEPT !.error = None, !.condition = @ \ {"TCPCLOSED"},
            !.retryCount = 0, !.status = @ \ {"SIO_RETRY"},
            !.counter = 0, !.sendCmd = None, !.recvCmd = None]

\* Mistake: the timer handler is not enabled.
StartSendUnarmed(m, cmd, timeout) ==
  [m EXCEPT !.condition = @ \cup {"BIOS_BUSY"}, !.sendCmd = cmd,
            !.sendState = "DATA", !.sendLeft = PacketBytes(m.sioMode),
            !.intrMode = "SEND", !.timeout = timeout]

\* The common part of the MABIOS_* functions: the send buffer is filled, the
\* bios is marked busy and the timer is told to send.
StartSend(m, cmd, timeout) ==
  [m EXCEPT !.condition = @ \cup {"BIOS_BUSY"}, !.sendCmd = cmd,
            !.sendState = "DATA", !.sendLeft = PacketBytes(m.sioMode),
            !.intrMode = "SEND", !.timeout = timeout,
            !.status = @ \cup {"TIMER_ENABLED"}]

Request(m, cmd, timeout) ==
  IF CanSend(m) THEN StartSend(MA_PreSend(m), cmd, timeout)
                ELSE MA_SetError(m, "CANNOT_EXECUTE")

\* A single byte wakes the adapter up before the START packet is sent.
MABIOS_Start(m) ==
  IF CanSend(m)
  THEN [StartSend(MA_PreSend(m), "START", "30")
          EXCEPT !.sendState = "PRESTART", !.sendLeft = 1, !.tm3 = TRUE]
  ELSE [MA_SetError(m, "CANNOT_EXECUTE") EXCEPT !.tm3 = FALSE]

MABIOS_Start2(m) ==
  Request([m EXCEPT !.tm3 = FALSE, !.condition = @ \ {"BIOS_BUSY"}],
          "START", "02")

MABIOS_End(m)           == Request(m, "END", "30")
MABIOS_Tel(m)           == Request(m, "TEL", "90")
MABIOS_Offline(m)       == Request(m, "OFFLINE", "30")
MABIOS_WaitCall(m)      == Request(m, "WAIT_CALL", "30")
MABIOS_Data(m)          == Request(m, "DATA", "30")
MABIOS_CheckStatus(m)   == Request(m, "CHECK_STATUS", "30")
MABIOS_ChangeClock(m)   == Request(m, "CHANGE_CLOCK", "30")
MABIOS_EEPROM_Read(m)   == Request(m, "EEPROM_READ", "30")
MABIOS_PPPConnect(m)    == Request(m, "PPP_CONNECT", "30")
MABIOS_PPPDisconnect(m) == Request(m, "PPP_DISCONNECT", "30")

\* The keep-alive: no MA_PreSend, so neither a pending error nor the previous
\* exchange is looked at.
MABIOS_CheckStatus2(m) ==
  IF "CONNECTED" \notin m.status \/ "CONNTEST" \in m.status THEN m
  ELSE [StartSend(m, "CHECK_STATUS", "10") EXCEPT !.status = @ \cup {"CONNTEST"}]

----------------------------------------------------------------------------
(* Cancellation and retries.                                               *)

MA_CancelRequest(m) ==
  [m EXCEPT !.condition = @ \cup {"BIOS_BUSY"},
            !.status = @ \cup {"BIOS_RESTART"}, !.intrMode = "WAIT"]

\* Mistake: the restart is asked for again.
BiosStopAndRestart(m) ==
  [m EXCEPT !.condition = @ \cup {"BIOS_BUSY"},
            !.status = @ \cup {"BIOS_STOP"}, !.intrMode = "WAIT"]

MA_BiosStop(m) ==
  [m EXCEPT !.condition = @ \cup {"BIOS_BUSY"},
            !.status = (@ \cup {"BIOS_STOP"}) \ {"BIOS_RESTART"},
            !.intrMode = "WAIT"]

MA_SendRetry(m) ==
  [m EXCEPT !.sendState = "DATA", !.sendLeft = PacketBytes(m.sioMode)]

\* Wait for the start of a reply: on acceptance of a request, and again when
\* a reply failed its checksum.  The latter leaves the counter running.
AwaitReply(m) ==
  [m EXCEPT !.recvState = "START", !.readCnt = 0, !.recvSize = 0,
            !.rubbish = 0, !.status = @ \ {"SIO_RETRY"}, !.intrMode = "RECV",
            !.sendState = "IDLE", !.negaResCmd = None, !.negaResErr = None]

MA_RecvRetry(m) == AwaitReply(m)

TimedOut(m) == m.counter + 1 > TimeoutCounter[m.timeout]

\* The MA_IntrSio_Timeout() macro, when the counter has run out.
GiveUpWaiting(m) ==
  IF "BIOS_RESTART" \in m.status THEN MA_BiosStop(m)
  ELSE [MA_CancelRequest(m) EXCEPT !.status = @ \cup {"SIO_SEND_TIMEOUT"}]

MA_IntrSio_Timeout(m) ==
  LET t == [m EXCEPT !.counter = @ + 1]
  IN IF TimedOut(m) THEN GiveUpWaiting(t) ELSE t

\* An error found while a request was sent: the session is over.
DropSession(m, error) ==
  [MA_SetError(m, error) EXCEPT !.status = @ \ {"CONNECTED", "CONNTEST"}]

MA_Bios_disconnect(m) == [DropSession(m, "MA_NOT_FOUND") EXCEPT !.tm3 = FALSE]

----------------------------------------------------------------------------
(* The timer interrupt: one operator per interrupt mode.                   *)

MA_StartSioTransmit(m) ==
  [m EXCEPT !.status = @ \ {"TIMER_ENABLED"}, !.sio = TRUE]

TransmitRequest(m) ==
  [MA_StartSioTransmit(m) EXCEPT !.sendLeft = @ - Transfer(m.sioMode)]

\* IOBUF_SEND_START sends the START packet at its BYTE mode length whatever
\* the mode is.
MA_IntrTimer_SIOSend(m) ==
  CASE m.sendState = "PRESTART" ->
         [TransmitRequest(m) EXCEPT !.sendState = "START"]
    [] m.sendState = "START" ->
         TransmitRequest([m EXCEPT !.sendState = "DATA",
                                   !.sendLeft = PacketBytes("BYTE")])
    [] m.sendState = "DATA" -> TransmitRequest(m)
    [] OTHER -> m

MA_IntrTimer_SIORecv(m) ==
  IF m.recvState = "IDLE" THEN m ELSE MA_StartSioTransmit(m)

P2PPoll(m) ==
  IF "PTP_SEND" \in m.status
  THEN [MABIOS_Data([m EXCEPT !.bufSize = 0])
          EXCEPT !.status = @ \cup {"PTP_SEND_DONE"}]
  ELSE MABIOS_Data([m EXCEPT !.bufSize = 0])

\* The guard `condition & STATUS_SIO_RETRY' tests the bit of PTP_GET.
MA_IntrTimer_SIOIdle(m) ==
  LET c == [m EXCEPT !.counter = @ + 1]
      z == [m EXCEPT !.counter = 0]
  IN IF m.task # "NONE" \/ "CONNECTED" \notin m.status THEN m
     ELSE IF /\ "CONN_PTP" \in m.status
             /\ "PTP_GET" \notin m.condition \/ "PTP_SEND" \in m.status
     THEN IF c.counter > P2PCounter THEN P2PPoll(z) ELSE c
     ELSE IF c.counter > NullCounter THEN MABIOS_CheckStatus2(z) ELSE c

\* After a cancelled request: reset, and report the timeout if there was one.
StopWait(m) ==
  LET s == [m EXCEPT !.status = @ \ {"BIOS_STOP"}, !.intrMode = "IDLE",
                     !.condition = @ \ {"BIOS_BUSY"}]
  IN IF "SIO_SEND_TIMEOUT" \notin m.status THEN s
     ELSE [MA_SetError(MA_TaskSet(MA_Reset(s), "NONE", 0), "TIMEOUT")
             EXCEPT !.status = @ \ {"SIO_SEND_TIMEOUT"}, !.counter = 0]

\* Mistake: a refused request restarts the session.
WaitTimeRestartsRetry(m) ==
  CASE {"BIOS_RESTART", "SIO_RETRY"} \cap m.status # {} -> MABIOS_Start2(m)
    [] OTHER -> [m EXCEPT !.intrMode = "IDLE", !.counter = 0,
                          !.condition = @ \ {"BIOS_BUSY"}]

\* Mistake: the bios stays busy after a pause.
WaitTimeStaysBusy(m) ==
  CASE "BIOS_RESTART" \in m.status -> MABIOS_Start2(m)
    [] "BIOS_RESTART" \notin m.status /\ "BIOS_STOP" \in m.status -> StopWait(m)
    [] OTHER -> [m EXCEPT !.intrMode = "IDLE", !.counter = 0]

MA_IntrTimer_SIOWaitTime(m) ==
  CASE "BIOS_RESTART" \in m.status -> MABIOS_Start2(m)
    [] "BIOS_RESTART" \notin m.status /\ "BIOS_STOP" \in m.status -> StopWait(m)
    [] {"BIOS_RESTART", "BIOS_STOP"} \cap m.status = {}
         /\ "SIO_RETRY" \in m.status ->
         MA_SendRetry([m EXCEPT !.intrMode = "SEND"])
    [] OTHER -> [m EXCEPT !.intrMode = "IDLE", !.counter = 0,
                          !.condition = @ \ {"BIOS_BUSY"}]

----------------------------------------------------------------------------
(* A reply has been received.                                              *)

\* Mistake: the connection is forgotten by the bios but not by the api.
HangUpHalf(m) ==
  IF m.connMode = "OFFLINE" THEN m
  ELSE IF "CONNTEST" \in m.status
       THEN MA_SetError([m EXCEPT !.status = {}], "OFFLINE")
       ELSE [m EXCEPT !.status = {}]

\* The four values the code knows for the line: lost (0xff), hung up (0, 1)
\* and busy (4, 5).
HangUp(m) ==
  IF m.connMode = "OFFLINE" THEN m
  ELSE MA_Reset(IF "CONNTEST" \in m.status
                THEN MA_SetError([m EXCEPT !.status = {}], "OFFLINE")
                ELSE [m EXCEPT !.status = {}])

\* Mistake: the keep-alive is never over.
CheckStatusKeepsTest(m, response) ==
  [(IF response \in {"lost", "hungup"} THEN HangUp(m) ELSE m)
     EXCEPT !.intrMode = "IDLE", !.sendState = "IDLE", !.recvState = "IDLE"]

MA_ProcessCheckStatusResponse(m, response) ==
  LET h == IF response \in {"lost", "hungup"} THEN HangUp(m) ELSE m
      condition == CASE response = "lost" -> "LOST"
                     [] response # "lost" /\ h.connMode # "OFFLINE" -> h.connMode
                     [] OTHER -> "IDLE"
  IN [MA_SetCondition(h, condition)
        EXCEPT !.intrMode = "IDLE", !.sendState = "IDLE", !.recvState = "IDLE",
               !.status = @ \ {"CONNTEST"}]

ConvertNegaErrToApiErr(err) ==
  CASE err = "0" -> "SYSTEM"
    [] err = "1" -> "CANNOT_EXECUTE_LOW"
    [] err = "2" -> "ILLEGAL_PARAMETER_LOW"
    [] OTHER -> "CONNECT"

TelError(err) ==
  CASE err = "0" -> "BUSY"
    [] err = "2" -> "ILLEGAL_PARAMETER_LOW"
    [] OTHER -> "CONNECT"

\* Mistake: CHECK_STATUS is missing from the list.
DefaultNegaForgetsOne(m) ==
  [m EXCEPT !.taskError =
     IF m.negaResCmd \in {"START", "CHANGE_CLOCK", "EEPROM_READ"}
     THEN ConvertNegaErrToApiErr(m.negaResErr) ELSE @]

MA_DefaultNegaResProc(m) ==
  [m EXCEPT !.taskError =
     CASE m.negaResCmd = "TEL" -> TelError(m.negaResErr)
       [] m.negaResCmd \in {"START", "WAIT_CALL", "DATA", "CHECK_STATUS",
                            "CHANGE_CLOCK", "EEPROM_READ", "PPP_CONNECT"} ->
            ConvertNegaErrToApiErr(m.negaResErr)
       [] OTHER -> @]

\* The switch of MA_ProcessRecvPacket that ends the exchange (i == TRUE).
RecvPacketDone(m) ==
  CASE m.recvCmd = "START" -> [m EXCEPT !.status = @ \cup {"CONNECTED"}]
    [] m.recvCmd = "END" ->
         [m EXCEPT !.condition = @ \ {"CONNECT"},
                   !.status = @ \ {"CONNTEST", "CONN_PTP", "PTP_SEND_DONE",
                                   "PTP_SEND"}]
    [] m.recvCmd \in {"TEL", "WAIT_CALL"} ->
         [m EXCEPT !.condition = @ \cup {"CONNECT"}]
    [] m.recvCmd = "OFFLINE" -> [m EXCEPT !.condition = @ \ {"CONNECT"}]
    [] m.recvCmd = "DATA_END" ->
         [m EXCEPT !.condition = @ \cup {"TCPCLOSED"}, !.bufSize = m.recvSize]
    [] m.recvCmd = "CHANGE_CLOCK" -> [m EXCEPT !.sioMode = "WORD"]
    [] m.recvCmd = "CHECK_STATUS" ->
         MA_ProcessCheckStatusResponse(m, m.answer)
    [] m.recvCmd = "ERROR" ->
         [m EXCEPT !.negaResCmd = m.sendCmd, !.negaResErr = m.answer]
    [] OTHER -> [m EXCEPT !.bufSize = m.recvSize]

\* Replies after which the code first waits: the adapter needs time to leave
\* the session or to change its clock.
WaitsAfter(m) ==
  \/ m.recvCmd = "END" /\ m.task \notin {"INITLIBRARY2", "CONDITION2"}
  \/ m.recvCmd = "CHANGE_CLOCK"

\* Mistake: the api may go on while the adapter needs its pause.
ProcessWithoutPause(m) ==
  LET r == RecvPacketDone(m)
  IN [r EXCEPT !.intrMode = IF WaitsAfter(m) THEN "WAIT" ELSE "IDLE",
               !.condition = @ \ {"BIOS_BUSY"},
               !.status = @ \ {"SIO_RECV_DONE"}, !.counter = 0]

\* Mistake: the reply is processed once more.
ProcessTwice(m) ==
  [RecvPacketDone(m) EXCEPT !.intrMode = "IDLE", !.counter = 0,
                            !.condition = @ \ {"BIOS_BUSY"}]

MA_ProcessRecvPacket(m) ==
  LET r == RecvPacketDone(m)
      p == CASE "BIOS_RESTART" \in m.status -> MA_BiosStop(m)
             [] "BIOS_RESTART" \notin m.status /\ WaitsAfter(m) ->
                  [r EXCEPT !.intrMode = "WAIT"]
             [] OTHER -> [r EXCEPT !.intrMode = "IDLE",
                                   !.condition = @ \ {"BIOS_BUSY"}]
  IN [p EXCEPT !.status = @ \ {"SIO_RECV_DONE"}, !.counter = 0]

----------------------------------------------------------------------------
(* The serial interrupt while a request is sent.                           *)

\* What the adapter's footer can say: it acknowledges the command, nothing
\* drives the line, it is no adapter, it failed, it does not know the command,
\* it read a bad checksum, it acknowledges another command.
FooterKinds ==
  {"ok", "absent", "unsupported", "internal", "illegal", "checksum", "wrong"}

\* A refused footer: send again after a pause, unless the retries are used up.
\* The count is a u16 that is decremented before it is compared with zero.
FooterRetry(m, tries, giveUp) ==
  LET left == IF "SIO_RETRY" \in m.status THEN (m.retryCount + U16 - 1) % U16
                                          ELSE tries
  IN IF "SIO_RETRY" \in m.status /\ left = 0
     THEN [giveUp EXCEPT !.retryCount = 0]
     ELSE [m EXCEPT !.retryCount = left, !.status = @ \cup {"SIO_RETRY"},
                    !.intrMode = "WAIT", !.tm3 = TRUE]

\* `retryCount = -2' for an internal error.
RefuseFooter(m, footer) ==
  CASE footer \in {"unsupported", "wrong"} ->
         FooterRetry(m, 2, MA_Bios_disconnect(m))
    [] footer = "internal" ->
         FooterRetry(m, U16 - 2, DropSession(m, "PROT_INTERNAL"))
    [] footer = "illegal" ->
         FooterRetry(m, 2, DropSession(m, "PROT_ILLEGAL_CMD"))
    [] OTHER -> FooterRetry(m, 2, DropSession(m, "PROT_CHECKSUM"))

AcceptFooter(m) == [AwaitReply(m) EXCEPT !.counter = 0]

\* During a restart every footer but the pulled-up line is accepted.
SendFooter(m, footer) ==
  CASE footer = "absent" -> DropSession(m, "MA_NOT_FOUND")
    [] footer # "absent" /\ (footer = "ok" \/ "BIOS_RESTART" \in m.status) ->
         AcceptFooter(m)
    [] OTHER -> RefuseFooter(m, footer)

\* The footer is looked at when the transfer was the packet's last.
FooterDue(m) == m.sendState = "DATA" /\ ~TimedOut(m) /\ m.sendLeft = 0

MA_IntrSio_Send(m, footer) ==
  CASE m.sendState # "DATA" -> m
    [] FooterDue(m) -> SendFooter(MA_IntrSio_Timeout(m), footer)
    [] OTHER -> MA_IntrSio_Timeout(m)

----------------------------------------------------------------------------
(* The serial interrupt while a reply is received.                         *)

\* A body is one byte when the code looks into it, two when it carries peer
\* data (the socket and the data).
BodySize(cmd, answer) ==
  CASE answer \in {"part", "whole"} -> 2
    [] cmd \in {"START", "DATA", "CHECK_STATUS", "EEPROM_READ",
                "PPP_CONNECT", "ERROR"} -> 1
    [] OTHER -> 0

\* In WORD mode a body is padded to a multiple of four bytes.
Padded(size, sioMode) ==
  IF sioMode = "BYTE" THEN size ELSE ((size + 3) \div 4) * 4

\* Waiting for the first magic byte, which only opens a transfer.
RecvStart0(m, byte, what) ==
  IF byte # 0 THEN m
  ELSE IF TimedOut(m) THEN MA_IntrSio_Timeout(m)
  ELSE LET t == MA_IntrSio_Timeout(m)
       IN CASE what = "magic" -> [t EXCEPT !.readCnt = 1]
            [] what = "idle"  -> t
            [] what \notin {"magic", "idle"} /\ m.rubbish < MaxRubbish ->
                 [t EXCEPT !.rubbish = @ + 1]
            [] OTHER -> [MA_SetError(t, "MA_NOT_FOUND") EXCEPT !.rubbish = 0]

RecvStart1(m, what) ==
  IF what = "magic"
  THEN [m EXCEPT !.recvState = "HEADER", !.readCnt = 0, !.rubbish = 0]
  ELSE [MA_SetError(m, "MA_NOT_FOUND") EXCEPT !.rubbish = 0]

\* Mistake: a reply without a body is waited on for its body.
RecvHeaderAlwaysBody(m, what) ==
  CASE m.readCnt = 0 -> [m EXCEPT !.recvCmd = what, !.readCnt = 1]
    [] m.readCnt \in {1, 2} -> [m EXCEPT !.readCnt = @ + 1]
    [] OTHER -> [m EXCEPT !.answer = what, !.recvState = "DATA",
                          !.recvSize = BodySize(m.recvCmd, what),
                          !.readCnt = Padded(BodySize(m.recvCmd, what), m.sioMode)]

RecvHeader(m, what) ==
  LET size == BodySize(m.recvCmd, what)
  IN CASE m.readCnt = 0 -> [m EXCEPT !.recvCmd = what, !.readCnt = 1]
       [] m.readCnt \in {1, 2} -> [m EXCEPT !.readCnt = @ + 1]
       [] OTHER ->
            [m EXCEPT !.answer = what, !.recvSize = size,
                      !.recvState = IF size = 0 THEN "CHECKSUM" ELSE "DATA",
                      !.readCnt = Padded(size, m.sioMode)]

RecvData(m) ==
  IF TimedOut(m) THEN MA_IntrSio_Timeout(m)
  ELSE [MA_IntrSio_Timeout(m)
          EXCEPT !.readCnt = @ - 1,
                 !.recvState = IF m.readCnt = 1 THEN "CHECKSUM" ELSE "DATA"]

\* A bad checksum is overlooked while the session is restarted.
RecvChecksum(m, what) ==
  IF m.readCnt = 0 THEN [m EXCEPT !.readCnt = 1]
  ELSE [m EXCEPT !.recvState = "FOOTER", !.readCnt = 0,
                 !.status = IF what = "bad" /\ "BIOS_RESTART" \notin @
                            THEN @ \cup {"SIO_ERR_CHECKSUM"} ELSE @]

FooterSize(sioMode) == IF sioMode = "BYTE" THEN 2 ELSE 4

RecvFooter(m) ==
  CASE m.readCnt + 1 # FooterSize(m.sioMode) -> [m EXCEPT !.readCnt = @ + 1]
    [] m.readCnt + 1 = FooterSize(m.sioMode)
         /\ "SIO_ERR_CHECKSUM" \in m.status ->
         MA_RecvRetry([m EXCEPT !.status = @ \ {"SIO_ERR_CHECKSUM"}])
    [] OTHER -> [m EXCEPT !.readCnt = @ + 1, !.intrMode = "IDLE",
                          !.status = @ \cup {"SIO_RECV_DONE"}]

\* byte is the position in a WORD transfer, what the meaning of the byte.
MA_IntrSio_Recv(m, byte, what) ==
  CASE m.recvState = "START" /\ m.readCnt = 0 -> RecvStart0(m, byte, what)
    [] m.recvState = "START" /\ m.readCnt # 0 -> RecvStart1(m, what)
    [] m.recvState = "HEADER"   -> RecvHeader(m, what)
    [] m.recvState = "DATA"     -> RecvData(m)
    [] m.recvState = "CHECKSUM" -> RecvChecksum(m, what)
    [] m.recvState = "FOOTER"   -> RecvFooter(m)
    [] OTHER -> m

=============================================================================
