----------------------------- MODULE MaApiProofs -----------------------------
(***************************************************************************)
(* Every function of the library keeps gMA well-formed: one lemma per      *)
(* operator of MaBios, then of MaApi, for any state the operator may be    *)
(* applied to.                                                             *)
(***************************************************************************)
EXTENDS MaApi, TLAPS

\* A failed call is over.
CallOver(m) ==
  "ERROR" \in m.condition => "APIWAIT" \notin m.condition /\ m.task = "NONE"

\* While a body is received a byte of it is missing (readCnt is decremented).
BodyPending(m) == m.recvState = "DATA" => m.readCnt >= 1

GoodMa(m) == MaType(m) /\ CallOver(m) /\ BodyPending(m)

----------------------------------------------------------------------------
(* The state as the startup code leaves it, and the macros of MaVar.       *)

LEMMA ZeroGood == GoodMa(Zero)
  BY SMT DEF GoodMa, CallOver, BodyPending, MaType, MaFields, Zero, Lines, Errors,
     IntrModes, SioModes, SendStates, RecvStates, Timeouts, ConnModes, Tasks, Answers

LEMMA ResetGood == ASSUME NEW m, GoodMa(m) PROVE GoodMa(MA_Reset(m))
  BY SMT DEF GoodMa, CallOver, BodyPending, MaType, MA_Reset, Lines, IntrModes,
     SioModes, ConnModes

LEMMA SetConditionGood ==
  ASSUME NEW m, GoodMa(m), NEW c \in Lines PROVE GoodMa(MA_SetCondition(m, c))
  BY SMT DEF GoodMa, CallOver, BodyPending, MaType, MA_SetCondition

LEMMA InitGood == ASSUME NEW m, GoodMa(m) PROVE GoodMa(MABIOS_Init(m))
<1> DEFINE i == [m EXCEPT !.condition = {}, !.error = None, !.intrMode = "IDLE",
                          !.sioMode = "BYTE", !.counter = 0, !.retryCount = 0]
           j == [i EXCEPT !.status = {}, !.sendCmd = None, !.recvCmd = None,
                          !.tm3 = FALSE, !.sio = FALSE]
<1>1. GoodMa(i)
  BY SMT DEF GoodMa, CallOver, BodyPending, MaType, IntrModes, SioModes, Errors
<1>2. MABIOS_Init(m) = j
  BY DEF MABIOS_Init
<1> HIDE DEF i
<1>3. GoodMa(j)
  BY <1>1, SMT DEF GoodMa, CallOver, BodyPending, MaType
<1> QED
  BY <1>2, <1>3

\* A task may be set only when no error is unread.
LEMMA TaskSetGood ==
  ASSUME NEW m, GoodMa(m), NEW task \in Tasks, NEW step \in 0..255,
         task = "NONE" \/ "ERROR" \notin m.condition
  PROVE  GoodMa(MA_TaskSet(m, task, step))
  BY SMT DEF GoodMa, CallOver, BodyPending, MaType, MA_TaskSet

LEMMA SetErrorGood ==
  ASSUME NEW m, GoodMa(m), NEW error \in Errors
  PROVE  GoodMa(MA_SetError(m, error)) /\ MA_SetError(m, error).intrMode = "IDLE"
<1> DEFINE r == IF error = "MA_NOT_FOUND" THEN MA_Reset(m) ELSE m
<1>1. GoodMa(r)
  BY ResetGood
<1> HIDE DEF r
<1> DEFINE e == [r EXCEPT !.error = error, !.intrMode = "IDLE",
               !.sendState = "IDLE", !.recvState = "IDLE", !.task = "NONE",
               !.condition = (@ \cup {"ERROR"})
                               \ {"BIOS_BUSY", "APIWAIT", "BUFFER_FULL"}]
<1>2. GoodMa(e)
  BY <1>1, SMT DEF GoodMa, CallOver, BodyPending, MaType, IntrModes, SendStates,
     RecvStates, Tasks, ConditionFlags
<1>3. e.intrMode = "IDLE"
  BY <1>1, SMT DEF GoodMa, MaType, MaFields
<1>4. MA_SetError(m, error) = e
  BY DEF MA_SetError, r
<1> QED
  BY <1>2, <1>3, <1>4

----------------------------------------------------------------------------
(* Requests, cancellation and retries.                                     *)

LEMMA PreSendGood == ASSUME NEW m, GoodMa(m) PROVE GoodMa(MA_PreSend(m))
  BY SMT DEF GoodMa, CallOver, BodyPending, MaType, MA_PreSend, Errors

LEMMA StartSendGood ==
  ASSUME NEW m, GoodMa(m), NEW cmd \in Commands, NEW timeout \in Timeouts
  PROVE  GoodMa(StartSend(m, cmd, timeout))
<1>1. PacketBytes(m.sioMode) \in Int
  BY DEF PacketBytes
<1> QED
  BY <1>1, SMT DEF GoodMa, CallOver, BodyPending, MaType, StartSend, SendStates,
     IntrModes, ConditionFlags, StatusFlags

LEMMA RequestGood ==
  ASSUME NEW m, GoodMa(m), NEW cmd \in Commands, NEW timeout \in Timeouts
  PROVE  GoodMa(Request(m, cmd, timeout))
<1>1. GoodMa(StartSend(MA_PreSend(m), cmd, timeout))
  BY PreSendGood, StartSendGood
<1>2. GoodMa(MA_SetError(m, "CANNOT_EXECUTE"))
  BY SetErrorGood DEF Errors
<1> QED
  BY <1>1, <1>2 DEF Request

\* Every request of ma_bios.c but the one that opens a session.
LEMMA RequestsGood ==
  ASSUME NEW m, GoodMa(m)
  PROVE  /\ GoodMa(MABIOS_End(m)) /\ GoodMa(MABIOS_Tel(m))
         /\ GoodMa(MABIOS_Offline(m)) /\ GoodMa(MABIOS_WaitCall(m))
         /\ GoodMa(MABIOS_Data(m)) /\ GoodMa(MABIOS_CheckStatus(m))
         /\ GoodMa(MABIOS_ChangeClock(m)) /\ GoodMa(MABIOS_EEPROM_Read(m))
         /\ GoodMa(MABIOS_PPPConnect(m)) /\ GoodMa(MABIOS_PPPDisconnect(m))
<1>1. \A cmd \in Commands, timeout \in Timeouts : GoodMa(Request(m, cmd, timeout))
  BY RequestGood
<1> QED
  BY <1>1 DEF Commands, Timeouts, MABIOS_End, MABIOS_Tel, MABIOS_Offline,
     MABIOS_WaitCall, MABIOS_Data, MABIOS_CheckStatus, MABIOS_ChangeClock,
     MABIOS_EEPROM_Read, MABIOS_PPPConnect, MABIOS_PPPDisconnect

LEMMA SetTimerGood ==
  ASSUME NEW m, GoodMa(m), NEW on \in BOOLEAN
  PROVE  GoodMa([m EXCEPT !.tm3 = on])
  BY SMT DEF GoodMa, CallOver, BodyPending, MaType

LEMMA StartGood == ASSUME NEW m, GoodMa(m) PROVE GoodMa(MABIOS_Start(m))
<1> DEFINE s == StartSend(MA_PreSend(m), "START", "30")
           e == MA_SetError(m, "CANNOT_EXECUTE")
<1>1. GoodMa(s) /\ GoodMa(e)
  BY PreSendGood, StartSendGood, SetErrorGood DEF Commands, Timeouts, Errors
<1> HIDE DEF s, e
<1>2. GoodMa([s EXCEPT !.sendState = "PRESTART", !.sendLeft = 1, !.tm3 = TRUE])
  BY <1>1, SMT DEF GoodMa, CallOver, BodyPending, MaType, SendStates
<1>3. GoodMa([e EXCEPT !.tm3 = FALSE])
  BY <1>1, SetTimerGood
<1> QED
  BY <1>2, <1>3 DEF MABIOS_Start, s, e

LEMMA Start2Good == ASSUME NEW m, GoodMa(m) PROVE GoodMa(MABIOS_Start2(m))
<1> DEFINE s == [m EXCEPT !.tm3 = FALSE, !.condition = @ \ {"BIOS_BUSY"}]
<1>1. GoodMa(s)
  BY SMT DEF GoodMa, CallOver, BodyPending, MaType
<1> HIDE DEF s
<1>2. GoodMa(Request(s, "START", "02"))
  BY <1>1, RequestGood DEF Commands, Timeouts
<1> QED
  BY <1>2 DEF MABIOS_Start2, s

LEMMA CheckStatus2Good ==
  ASSUME NEW m, GoodMa(m) PROVE GoodMa(MABIOS_CheckStatus2(m))
<1> DEFINE s == StartSend(m, "CHECK_STATUS", "10")
<1>1. GoodMa(s)
  BY StartSendGood DEF Commands, Timeouts
<1> HIDE DEF s
<1>2. GoodMa([s EXCEPT !.status = @ \cup {"CONNTEST"}])
  BY <1>1, SMT DEF GoodMa, CallOver, BodyPending, MaType, StatusFlags
<1> QED
  BY <1>2 DEF MABIOS_CheckStatus2, s

LEMMA BiosStopGood == ASSUME NEW m, GoodMa(m) PROVE GoodMa(MA_BiosStop(m))
  BY SMT DEF GoodMa, CallOver, BodyPending, MaType, MA_BiosStop, ConditionFlags,
     StatusFlags, IntrModes

LEMMA CancelRequestGood ==
  ASSUME NEW m, GoodMa(m) PROVE GoodMa(MA_CancelRequest(m))
  BY SMT DEF GoodMa, CallOver, BodyPending, MaType, MA_CancelRequest,
     ConditionFlags, StatusFlags, IntrModes

LEMMA SendRetryGood ==
  ASSUME NEW m, GoodMa(m)
  PROVE  GoodMa(MA_SendRetry([m EXCEPT !.intrMode = "SEND"]))
<1> DEFINE r == [m EXCEPT !.intrMode = "SEND"]
<1>1. GoodMa(r) /\ PacketBytes(r.sioMode) \in Int
  BY SMT DEF GoodMa, CallOver, BodyPending, MaType, IntrModes, PacketBytes
<1> HIDE DEF r
<1>2. GoodMa(MA_SendRetry(r))
  BY <1>1, SMT DEF GoodMa, CallOver, BodyPending, MaType, MA_SendRetry, SendStates
<1> QED
  BY <1>2 DEF r

LEMMA AwaitReplyGood == ASSUME NEW m, GoodMa(m) PROVE GoodMa(AwaitReply(m))
<1> DEFINE i == [m EXCEPT !.recvState = "START", !.readCnt = 0, !.recvSize = 0,
                          !.rubbish = 0, !.status = @ \ {"SIO_RETRY"}]
           j == [i EXCEPT !.intrMode = "RECV", !.sendState = "IDLE",
                          !.negaResCmd = None, !.negaResErr = None]
<1>1. GoodMa(i)
  BY SMT DEF GoodMa, CallOver, BodyPending, MaType, RecvStates
<1>2. AwaitReply(m) = j
  BY DEF AwaitReply
<1> HIDE DEF i
<1>3. GoodMa(j)
  BY <1>1, SMT DEF GoodMa, CallOver, BodyPending, MaType, IntrModes, SendStates,
     Answers
<1> QED
  BY <1>2, <1>3

\* What the counter of a transfer does to the reply being received: nothing.
LEMMA TimeoutGood ==
  ASSUME NEW m, GoodMa(m)
  PROVE  /\ GoodMa(MA_IntrSio_Timeout(m))
         /\ MA_IntrSio_Timeout(m).recvState = m.recvState
         /\ MA_IntrSio_Timeout(m).readCnt = m.readCnt
         /\ MA_IntrSio_Timeout(m).rubbish = m.rubbish
<1> DEFINE t == [m EXCEPT !.counter = @ + 1]
           c == MA_CancelRequest(t)
           g == GiveUpWaiting(t)
<1>1. GoodMa(t) /\ t.recvState = m.recvState /\ t.readCnt = m.readCnt
      /\ t.rubbish = m.rubbish
  BY SMT DEF GoodMa, CallOver, BodyPending, MaType, MaFields
<1> HIDE DEF t
<1>2. GoodMa(c) /\ c.recvState = t.recvState /\ c.readCnt = t.readCnt
      /\ c.rubbish = t.rubbish
  <2>1. GoodMa(c)
    BY <1>1, CancelRequestGood
  <2> QED
    BY <1>1, <2>1, SMT DEF MA_CancelRequest, GoodMa, MaType, MaFields
<1> HIDE DEF c
<1>3. GoodMa(g) /\ g.recvState = m.recvState /\ g.readCnt = m.readCnt
      /\ g.rubbish = m.rubbish
  <2>1. CASE "BIOS_RESTART" \in t.status
    <3>1. g = MA_BiosStop(t)
      BY <2>1 DEF GiveUpWaiting
    <3>2. GoodMa(g)
      BY <1>1, <3>1, BiosStopGood
    <3> QED
      BY <1>1, <3>1, <3>2, SMT DEF MA_BiosStop, GoodMa, MaType, MaFields
  <2>2. CASE "BIOS_RESTART" \notin t.status
    <3>1. g = [c EXCEPT !.status = @ \cup {"SIO_SEND_TIMEOUT"}]
      BY <2>2 DEF GiveUpWaiting, c
    <3> QED
      BY <1>1, <1>2, <3>1, SMT DEF GoodMa, CallOver, BodyPending, MaType, MaFields,
         StatusFlags
  <2> QED
    BY <2>1, <2>2
<1> HIDE DEF g
<1> QED
  BY <1>1, <1>3 DEF MA_IntrSio_Timeout, t, g

LEMMA DropSessionGood ==
  ASSUME NEW m, GoodMa(m), NEW error \in Errors PROVE GoodMa(DropSession(m, error))
<1> DEFINE s == MA_SetError(m, error)
<1>1. GoodMa(s)
  BY SetErrorGood
<1> HIDE DEF s
<1>2. GoodMa([s EXCEPT !.status = @ \ {"CONNECTED", "CONNTEST"}])
  BY <1>1, SMT DEF GoodMa, CallOver, BodyPending, MaType
<1> QED
  BY <1>2 DEF DropSession, s

LEMMA DisconnectGood ==
  ASSUME NEW m, GoodMa(m) PROVE GoodMa(MA_Bios_disconnect(m))
  BY DropSessionGood, SetTimerGood DEF MA_Bios_disconnect, Errors

----------------------------------------------------------------------------
(* The timer interrupt.                                                    *)

LEMMA TransmitGood ==
  ASSUME NEW m, GoodMa(m) PROVE GoodMa(MA_StartSioTransmit(m))
  BY SMT DEF GoodMa, CallOver, BodyPending, MaType, MA_StartSioTransmit

LEMMA TransmitRequestGood ==
  ASSUME NEW m, GoodMa(m) PROVE GoodMa(TransmitRequest(m))
<1> DEFINE s == MA_StartSioTransmit(m)
<1>1. GoodMa(s) /\ Transfer(m.sioMode) \in Int
  BY TransmitGood DEF Transfer
<1> HIDE DEF s
<1>2. GoodMa([s EXCEPT !.sendLeft = @ - Transfer(m.sioMode)])
  BY <1>1, SMT DEF GoodMa, CallOver, BodyPending, MaType
<1> QED
  BY <1>2 DEF TransmitRequest, s

LEMMA SIOSendGood ==
  ASSUME NEW m, GoodMa(m) PROVE GoodMa(MA_IntrTimer_SIOSend(m))
<1> DEFINE t == TransmitRequest(m)
           d == [m EXCEPT !.sendState = "DATA", !.sendLeft = PacketBytes("BYTE")]
<1>1. GoodMa(t)
  BY TransmitRequestGood
<1>2. GoodMa(d)
  BY SMT DEF GoodMa, CallOver, BodyPending, MaType, SendStates, PacketBytes
<1> HIDE DEF t
<1>3. GoodMa([t EXCEPT !.sendState = "START"])
  BY <1>1, SMT DEF GoodMa, CallOver, BodyPending, MaType, SendStates
<1> HIDE DEF d
<1>4. GoodMa(TransmitRequest(d))
  BY <1>2, TransmitRequestGood
<1> QED
  BY <1>1, <1>3, <1>4 DEF MA_IntrTimer_SIOSend, t, d

LEMMA SIORecvGood ==
  ASSUME NEW m, GoodMa(m) PROVE GoodMa(MA_IntrTimer_SIORecv(m))
  BY TransmitGood DEF MA_IntrTimer_SIORecv

LEMMA P2PPollGood == ASSUME NEW m, GoodMa(m) PROVE GoodMa(P2PPoll(m))
<1> DEFINE z == [m EXCEPT !.bufSize = 0]
           d == MABIOS_Data(z)
<1>1. GoodMa(z)
  BY SMT DEF GoodMa, CallOver, BodyPending, MaType
<1> HIDE DEF z
<1>2. GoodMa(d)
  BY <1>1, RequestsGood
<1> HIDE DEF d
<1>3. GoodMa([d EXCEPT !.status = @ \cup {"PTP_SEND_DONE"}])
  BY <1>2, SMT DEF GoodMa, CallOver, BodyPending, MaType, StatusFlags
<1> QED
  BY <1>2, <1>3 DEF P2PPoll, z, d

LEMMA SIOIdleGood ==
  ASSUME NEW m, GoodMa(m) PROVE GoodMa(MA_IntrTimer_SIOIdle(m))
<1> DEFINE c == [m EXCEPT !.counter = @ + 1]
           z == [m EXCEPT !.counter = 0]
<1>1. GoodMa(c) /\ GoodMa(z)
  BY SMT DEF GoodMa, CallOver, BodyPending, MaType
<1> HIDE DEF c, z
<1>2. GoodMa(P2PPoll(z)) /\ GoodMa(MABIOS_CheckStatus2(z))
  BY <1>1, P2PPollGood, CheckStatus2Good
<1> QED
  BY <1>1, <1>2 DEF MA_IntrTimer_SIOIdle, c, z

LEMMA StopWaitGood == ASSUME NEW m, GoodMa(m) PROVE GoodMa(StopWait(m))
<1> DEFINE s == [m EXCEPT !.status = @ \ {"BIOS_STOP"}, !.intrMode = "IDLE",
                          !.condition = @ \ {"BIOS_BUSY"}]
           e == MA_SetError(MA_TaskSet(MA_Reset(s), "NONE", 0), "TIMEOUT")
<1>1. GoodMa(s)
  BY SMT DEF GoodMa, CallOver, BodyPending, MaType, IntrModes
<1> HIDE DEF s
<1>2. GoodMa(MA_TaskSet(MA_Reset(s), "NONE", 0))
  <2>1. "NONE" \in Tasks /\ 0 \in 0..255
    BY DEF Tasks
  <2> QED
    BY <1>1, <2>1, ResetGood, TaskSetGood
<1>3. GoodMa(e)
  BY <1>2, SetErrorGood DEF Errors
<1> HIDE DEF e
<1>4. GoodMa([e EXCEPT !.status = @ \ {"SIO_SEND_TIMEOUT"}, !.counter = 0])
  BY <1>3, SMT DEF GoodMa, CallOver, BodyPending, MaType
<1> QED
  BY <1>1, <1>4 DEF StopWait, s, e

LEMMA SIOWaitTimeGood ==
  ASSUME NEW m, GoodMa(m) PROVE GoodMa(MA_IntrTimer_SIOWaitTime(m))
<1> DEFINE i == [m EXCEPT !.intrMode = "IDLE", !.counter = 0,
                          !.condition = @ \ {"BIOS_BUSY"}]
<1>1. GoodMa(MABIOS_Start2(m)) /\ GoodMa(StopWait(m))
  BY Start2Good, StopWaitGood
<1>2. GoodMa(MA_SendRetry([m EXCEPT !.intrMode = "SEND"]))
  BY SendRetryGood
<1>3. GoodMa(i)
  BY SMT DEF GoodMa, CallOver, BodyPending, MaType, IntrModes
<1> HIDE DEF i
<1> QED
  BY <1>1, <1>2, <1>3 DEF MA_IntrTimer_SIOWaitTime, i

----------------------------------------------------------------------------
(* A reply.                                                                *)

LEMMA HangUpGood == ASSUME NEW m, GoodMa(m) PROVE GoodMa(HangUp(m))
<1> DEFINE s == [m EXCEPT !.status = {}]
<1>1. GoodMa(s)
  BY SMT DEF GoodMa, CallOver, BodyPending, MaType
<1> HIDE DEF s
<1>2. GoodMa(MA_Reset(s)) /\ GoodMa(MA_Reset(MA_SetError(s, "OFFLINE")))
  BY <1>1, ResetGood, SetErrorGood DEF Errors
<1> QED
  BY <1>2 DEF HangUp, s

LEMMA CheckStatusResponseGood ==
  ASSUME NEW m, GoodMa(m), NEW response
  PROVE  GoodMa(MA_ProcessCheckStatusResponse(m, response))
<1> DEFINE h == IF response \in {"lost", "hungup"} THEN HangUp(m) ELSE m
           condition == CASE response = "lost" -> "LOST"
                          [] response # "lost" /\ h.connMode # "OFFLINE" -> h.connMode
                          [] OTHER -> "IDLE"
           c == MA_SetCondition(h, condition)
<1>1. GoodMa(h)
  BY HangUpGood
<1> HIDE DEF h
<1>2. condition \in Lines
  BY <1>1 DEF GoodMa, MaType, Lines, ConnModes
<1> HIDE DEF condition
<1>3. GoodMa(c)
  BY <1>1, <1>2, SetConditionGood
<1> HIDE DEF c
<1>4. GoodMa([c EXCEPT !.intrMode = "IDLE", !.sendState = "IDLE",
                       !.recvState = "IDLE", !.status = @ \ {"CONNTEST"}])
  BY <1>3, SMT DEF GoodMa, CallOver, BodyPending, MaType, IntrModes, SendStates,
     RecvStates
<1> QED
  BY <1>4 DEF MA_ProcessCheckStatusResponse, h, condition, c

LEMMA DefaultNegaGood ==
  ASSUME NEW m, GoodMa(m) PROVE GoodMa(MA_DefaultNegaResProc(m))
<1> DEFINE e == CASE m.negaResCmd = "TEL" -> TelError(m.negaResErr)
                  [] m.negaResCmd \in {"START", "WAIT_CALL", "DATA", "CHECK_STATUS",
                                       "CHANGE_CLOCK", "EEPROM_READ", "PPP_CONNECT"} ->
                       ConvertNegaErrToApiErr(m.negaResErr)
                  [] OTHER -> m.taskError
<1>1. e \in Errors
  BY DEF GoodMa, MaType, TelError, ConvertNegaErrToApiErr, Errors
<1> HIDE DEF e
<1>2. GoodMa([m EXCEPT !.taskError = e])
  BY <1>1, SMT DEF GoodMa, CallOver, BodyPending, MaType
<1> QED
  BY <1>2 DEF MA_DefaultNegaResProc, e

LEMMA RecvPacketDoneGood ==
  ASSUME NEW m, GoodMa(m) PROVE GoodMa(RecvPacketDone(m))
<1>1. ASSUME NEW s \in SUBSET StatusFlags PROVE GoodMa([m EXCEPT !.status = s])
  BY <1>1, SMT DEF GoodMa, CallOver, BodyPending, MaType
<1>2. GoodMa([m EXCEPT !.status = @ \cup {"CONNECTED"}])
  BY <1>1 DEF GoodMa, MaType, StatusFlags
<1>3. GoodMa([m EXCEPT !.condition = @ \ {"CONNECT"},
                       !.status = @ \ {"CONNTEST", "CONN_PTP", "PTP_SEND_DONE",
                                       "PTP_SEND"}])
  BY SMT DEF GoodMa, CallOver, BodyPending, MaType
<1>4. /\ GoodMa([m EXCEPT !.condition = @ \cup {"CONNECT"}])
      /\ GoodMa([m EXCEPT !.condition = @ \ {"CONNECT"}])
  BY SMT DEF GoodMa, CallOver, BodyPending, MaType, ConditionFlags
<1>5. GoodMa([m EXCEPT !.condition = @ \cup {"TCPCLOSED"}, !.bufSize = m.recvSize])
  BY SMT DEF GoodMa, CallOver, BodyPending, MaType, ConditionFlags
<1>6. GoodMa([m EXCEPT !.sioMode = "WORD"])
  BY SMT DEF GoodMa, CallOver, BodyPending, MaType, SioModes
<1>7. GoodMa(MA_ProcessCheckStatusResponse(m, m.answer))
  BY CheckStatusResponseGood
<1>8. GoodMa([m EXCEPT !.negaResCmd = m.sendCmd, !.negaResErr = m.answer])
  BY SMT DEF GoodMa, CallOver, BodyPending, MaType
<1>9. GoodMa([m EXCEPT !.bufSize = m.recvSize])
  BY SMT DEF GoodMa, CallOver, BodyPending, MaType
<1> QED
  BY <1>2, <1>3, <1>4, <1>5, <1>6, <1>7, <1>8, <1>9 DEF RecvPacketDone

LEMMA ProcessRecvPacketGood ==
  ASSUME NEW m, GoodMa(m) PROVE GoodMa(MA_ProcessRecvPacket(m))
<1> DEFINE r == RecvPacketDone(m)
           w == [r EXCEPT !.intrMode = "WAIT"]
           i == [r EXCEPT !.intrMode = "IDLE", !.condition = @ \ {"BIOS_BUSY"}]
           p == CASE "BIOS_RESTART" \in m.status -> MA_BiosStop(m)
                  [] "BIOS_RESTART" \notin m.status /\ WaitsAfter(m) -> w
                  [] OTHER -> i
<1>1. GoodMa(r)
  BY RecvPacketDoneGood
<1> HIDE DEF r
<1>2. GoodMa(w) /\ GoodMa(i)
  BY <1>1, SMT DEF GoodMa, CallOver, BodyPending, MaType, IntrModes
<1>3. GoodMa(MA_BiosStop(m))
  BY BiosStopGood
<1> HIDE DEF w, i
<1>4. GoodMa(p)
  BY <1>2, <1>3
<1> HIDE DEF p
<1>5. GoodMa([p EXCEPT !.status = @ \ {"SIO_RECV_DONE"}, !.counter = 0])
  BY <1>4, SMT DEF GoodMa, CallOver, BodyPending, MaType
<1> QED
  BY <1>5 DEF MA_ProcessRecvPacket, p, w, i, r

----------------------------------------------------------------------------
(* The serial interrupt while a request is sent.                           *)

LEMMA FooterRetryGood ==
  ASSUME NEW m, GoodMa(m), NEW tries \in Nat, NEW giveUp, GoodMa(giveUp)
  PROVE  GoodMa(FooterRetry(m, tries, giveUp))
<1> DEFINE left == IF "SIO_RETRY" \in m.status THEN (m.retryCount + U16 - 1) % U16
                                                ELSE tries
<1>1. left \in Nat
  <2>1. m.retryCount + U16 - 1 \in Nat
    BY MaBiosAssumption DEF GoodMa, MaType
  <2>2. (m.retryCount + U16 - 1) % U16 \in Nat
    BY <2>1, MaBiosAssumption
  <2> QED
    BY <2>2
<1> HIDE DEF left
<1>2. GoodMa([giveUp EXCEPT !.retryCount = 0])
  BY SMT DEF GoodMa, CallOver, BodyPending, MaType
<1>3. GoodMa([m EXCEPT !.retryCount = left, !.status = @ \cup {"SIO_RETRY"},
                       !.intrMode = "WAIT", !.tm3 = TRUE])
  BY <1>1, SMT DEF GoodMa, CallOver, BodyPending, MaType, IntrModes, StatusFlags
<1> QED
  BY <1>2, <1>3 DEF FooterRetry, left

LEMMA RefuseFooterGood ==
  ASSUME NEW m, GoodMa(m), NEW footer PROVE GoodMa(RefuseFooter(m, footer))
<1>1. /\ GoodMa(MA_Bios_disconnect(m))
      /\ GoodMa(DropSession(m, "PROT_INTERNAL"))
      /\ GoodMa(DropSession(m, "PROT_ILLEGAL_CMD"))
      /\ GoodMa(DropSession(m, "PROT_CHECKSUM"))
  BY DisconnectGood, DropSessionGood DEF Errors
<1>2. 2 \in Nat /\ U16 - 2 \in Nat
  BY MaBiosAssumption
<1>3. \A giveUp : GoodMa(giveUp) =>
        \A tries \in Nat : GoodMa(FooterRetry(m, tries, giveUp))
  BY FooterRetryGood
<1> QED
  BY <1>1, <1>2, <1>3 DEF RefuseFooter

LEMMA SendFooterGood ==
  ASSUME NEW m, GoodMa(m), NEW footer PROVE GoodMa(SendFooter(m, footer))
<1> DEFINE a == AwaitReply(m)
<1>1. GoodMa(a)
  BY AwaitReplyGood
<1> HIDE DEF a
<1>2. GoodMa([a EXCEPT !.counter = 0])
  BY <1>1, SMT DEF GoodMa, CallOver, BodyPending, MaType
<1>3. GoodMa(AcceptFooter(m))
  BY <1>2 DEF AcceptFooter, a
<1>4. GoodMa(RefuseFooter(m, footer)) /\ GoodMa(DropSession(m, "MA_NOT_FOUND"))
  BY RefuseFooterGood, DropSessionGood DEF Errors
<1> QED
  BY <1>3, <1>4 DEF SendFooter

LEMMA IntrSioSendGood ==
  ASSUME NEW m, GoodMa(m), NEW footer PROVE GoodMa(MA_IntrSio_Send(m, footer))
  BY TimeoutGood, SendFooterGood DEF MA_IntrSio_Send

----------------------------------------------------------------------------
(* The serial interrupt while a reply is received.                         *)

LEMMA PaddedBody ==
  ASSUME NEW cmd, NEW answer, NEW sioMode
  PROVE  /\ BodySize(cmd, answer) \in Nat
         /\ Padded(BodySize(cmd, answer), sioMode) \in Nat
         /\ BodySize(cmd, answer) # 0 => Padded(BodySize(cmd, answer), sioMode) >= 1
<1>1. BodySize(cmd, answer) \in {0, 1, 2}
  BY DEF BodySize
<1>2. ASSUME NEW size \in {0, 1, 2}
      PROVE  Padded(size, sioMode) \in Nat /\ (size # 0 => Padded(size, sioMode) >= 1)
  BY DEF Padded
<1> QED
  BY <1>1, <1>2

LEMMA NotFoundGood ==
  ASSUME NEW m, GoodMa(m)
  PROVE  GoodMa([MA_SetError(m, "MA_NOT_FOUND") EXCEPT !.rubbish = 0])
<1> DEFINE e == MA_SetError(m, "MA_NOT_FOUND")
<1>1. GoodMa(e)
  BY SetErrorGood DEF Errors
<1> HIDE DEF e
<1>2. GoodMa([e EXCEPT !.rubbish = 0])
  BY <1>1, SMT DEF GoodMa, CallOver, BodyPending, MaType
<1> QED
  BY <1>2 DEF e

LEMMA RecvStart0Good ==
  ASSUME NEW m, GoodMa(m), m.recvState = "START", NEW byte, NEW what
  PROVE  GoodMa(RecvStart0(m, byte, what))
<1> DEFINE t == MA_IntrSio_Timeout(m)
<1>1. GoodMa(t) /\ t.recvState = "START"
  BY TimeoutGood
<1>2. GoodMa([MA_SetError(t, "MA_NOT_FOUND") EXCEPT !.rubbish = 0])
  BY <1>1, NotFoundGood
<1> HIDE DEF t
<1>3. GoodMa([t EXCEPT !.readCnt = 1]) /\ GoodMa([t EXCEPT !.rubbish = @ + 1])
  BY <1>1, SMT DEF GoodMa, CallOver, BodyPending, MaType
<1> QED
  BY <1>1, <1>2, <1>3 DEF RecvStart0, t

LEMMA RecvStart1Good ==
  ASSUME NEW m, GoodMa(m), NEW what PROVE GoodMa(RecvStart1(m, what))
<1>1. GoodMa([m EXCEPT !.recvState = "HEADER", !.readCnt = 0, !.rubbish = 0])
  BY SMT DEF GoodMa, CallOver, BodyPending, MaType, RecvStates
<1> QED
  BY <1>1, NotFoundGood DEF RecvStart1

\* The byte is the command at first and the answer at last.
LEMMA RecvHeaderGood ==
  ASSUME NEW m, GoodMa(m), m.recvState = "HEADER", NEW what,
         m.readCnt = 0 => what \in Replies \cup {None},
         m.readCnt \notin 0..2 => what \in Answers
  PROVE  GoodMa(RecvHeader(m, what))
<1> DEFINE size == BodySize(m.recvCmd, what)
           pad  == Padded(size, m.sioMode)
           d == [m EXCEPT !.answer = what, !.recvSize = size,
                          !.recvState = IF size = 0 THEN "CHECKSUM" ELSE "DATA",
                          !.readCnt = pad]
<1>1. size \in Nat /\ pad \in Nat /\ (size # 0 => pad >= 1)
  BY PaddedBody
<1> HIDE DEF size, pad
<1>2. CASE m.readCnt = 0
  <2>1. GoodMa([m EXCEPT !.recvCmd = what, !.readCnt = 1])
    BY <1>2, SMT DEF GoodMa, CallOver, BodyPending, MaType
  <2> QED
    BY <1>2, <2>1 DEF RecvHeader
<1>3. CASE m.readCnt \in {1, 2}
  <2>1. GoodMa([m EXCEPT !.readCnt = @ + 1])
    BY <1>3, SMT DEF GoodMa, CallOver, BodyPending, MaType
  <2> QED
    BY <1>3, <2>1 DEF RecvHeader
<1>4. CASE m.readCnt \notin 0..2
  <2>1. what \in Answers
    BY <1>4
  <2>2. CASE size = 0
    <3>1. GoodMa([m EXCEPT !.answer = what, !.recvSize = size,
                           !.recvState = "CHECKSUM", !.readCnt = pad])
      BY <1>1, <2>1, SMT DEF GoodMa, CallOver, BodyPending, MaType, RecvStates
    <3> QED
      BY <1>4, <2>2, <3>1 DEF RecvHeader, size, pad
  <2>3. CASE size # 0
    <3>1. GoodMa([m EXCEPT !.answer = what, !.recvSize = size,
                           !.recvState = "DATA", !.readCnt = pad])
      BY <1>1, <2>1, <2>3, SMT DEF GoodMa, CallOver, BodyPending, MaType, RecvStates
    <3> QED
      BY <1>4, <2>3, <3>1 DEF RecvHeader, size, pad
  <2> QED
    BY <2>2, <2>3
<1> QED
  <2>1. m.readCnt = 0 \/ m.readCnt \in {1, 2} \/ m.readCnt \notin 0..2
    BY DEF GoodMa, MaType
  <2> QED
    BY <1>2, <1>3, <1>4, <2>1

LEMMA RecvDataGood ==
  ASSUME NEW m, GoodMa(m), m.recvState = "DATA" PROVE GoodMa(RecvData(m))
<1> DEFINE t == MA_IntrSio_Timeout(m)
<1>1. GoodMa(t) /\ t.recvState = m.recvState /\ t.readCnt = m.readCnt
  BY TimeoutGood
<1> HIDE DEF t
<1>2. m.readCnt \in Nat /\ m.readCnt >= 1
  BY DEF GoodMa, BodyPending, MaType
<1>3. CASE m.readCnt = 1
  <2>1. GoodMa([t EXCEPT !.readCnt = @ - 1, !.recvState = "CHECKSUM"])
    BY <1>1, <1>2, <1>3, SMT DEF GoodMa, CallOver, BodyPending, MaType, RecvStates
  <2> QED
    BY <1>1, <1>3, <2>1 DEF RecvData, t
<1>4. CASE m.readCnt # 1
  <2>1. GoodMa([t EXCEPT !.readCnt = @ - 1, !.recvState = "DATA"])
    BY <1>1, <1>2, <1>4, SMT DEF GoodMa, CallOver, BodyPending, MaType, RecvStates
  <2> QED
    BY <1>1, <1>4, <2>1 DEF RecvData, t
<1> QED
  BY <1>3, <1>4

LEMMA RecvChecksumGood ==
  ASSUME NEW m, GoodMa(m), m.recvState = "CHECKSUM", NEW what
  PROVE  GoodMa(RecvChecksum(m, what))
<1>1. GoodMa([m EXCEPT !.readCnt = 1])
  BY SMT DEF GoodMa, CallOver, BodyPending, MaType
<1> DEFINE s == IF what = "bad" /\ "BIOS_RESTART" \notin m.status
                THEN m.status \cup {"SIO_ERR_CHECKSUM"} ELSE m.status
<1>2. s \in SUBSET StatusFlags
  BY DEF GoodMa, MaType, StatusFlags
<1> HIDE DEF s
<1>3. GoodMa([m EXCEPT !.recvState = "FOOTER", !.readCnt = 0, !.status = s])
  BY <1>2, SMT DEF GoodMa, CallOver, BodyPending, MaType, RecvStates
<1> QED
  BY <1>1, <1>3 DEF RecvChecksum, s

LEMMA RecvFooterGood ==
  ASSUME NEW m, GoodMa(m), m.recvState = "FOOTER" PROVE GoodMa(RecvFooter(m))
<1> DEFINE c == [m EXCEPT !.status = @ \ {"SIO_ERR_CHECKSUM"}]
<1>1. GoodMa([m EXCEPT !.readCnt = @ + 1])
  BY SMT DEF GoodMa, CallOver, BodyPending, MaType
<1>2. GoodMa(c)
  BY SMT DEF GoodMa, CallOver, BodyPending, MaType
<1> HIDE DEF c
<1>3. GoodMa(MA_RecvRetry(c))
  BY <1>2, AwaitReplyGood DEF MA_RecvRetry
<1>4. GoodMa([m EXCEPT !.readCnt = @ + 1, !.intrMode = "IDLE",
                       !.status = @ \cup {"SIO_RECV_DONE"}])
  BY SMT DEF GoodMa, CallOver, BodyPending, MaType, IntrModes, StatusFlags
<1> QED
  BY <1>1, <1>3, <1>4 DEF RecvFooter, c

LEMMA IntrSioRecvGood ==
  ASSUME NEW m, GoodMa(m), NEW byte, NEW what,
         m.recvState = "HEADER" /\ m.readCnt = 0 => what \in Replies \cup {None},
         m.recvState = "HEADER" /\ m.readCnt \notin 0..2 => what \in Answers
  PROVE  GoodMa(MA_IntrSio_Recv(m, byte, what))
  BY RecvStart0Good, RecvStart1Good, RecvHeaderGood, RecvDataGood,
     RecvChecksumGood, RecvFooterGood DEF MA_IntrSio_Recv

----------------------------------------------------------------------------
(* What the functions change of what the exchange and the call depend on.  *)

\* What the bios and the api have in common, apart from the flag words.
SameLine(m, n) ==
  /\ n.sioMode = m.sioMode /\ n.recvState = m.recvState /\ n.readCnt = m.readCnt
  /\ n.sendCmd = m.sendCmd /\ n.recvCmd = m.recvCmd /\ n.negaResCmd = m.negaResCmd

SameCall(m, n) ==
  /\ n.connMode = m.connMode /\ n.task = m.task /\ n.taskStep = m.taskStep
  /\ n.offline = m.offline

LEMMA ResetEffect ==
  ASSUME NEW m, GoodMa(m), NEW n, n = MA_Reset(m)
  PROVE  /\ n.intrMode = "IDLE" /\ n.connMode = "OFFLINE" /\ n.sioMode = "BYTE"
         /\ n.condition = m.condition \ {"PTP_GET", "CONNECT"}
         /\ n.status = m.status \ {"CONNECTED", "CONN_PTP", "PTP_SEND_DONE",
                                   "PTP_SEND", "CONNTEST"}
         /\ n.recvState = m.recvState /\ n.readCnt = m.readCnt
         /\ n.sendCmd = m.sendCmd /\ n.recvCmd = m.recvCmd
         /\ n.retryCount = m.retryCount /\ n.negaResCmd = m.negaResCmd
         /\ n.task = m.task /\ n.taskStep = m.taskStep /\ n.offline = m.offline
  BY SMT DEF GoodMa, MaType, MaFields, MA_Reset

LEMMA SetErrorEffect ==
  ASSUME NEW m, GoodMa(m), NEW error, NEW n, n = MA_SetError(m, error)
  PROVE  /\ n.intrMode = "IDLE" /\ n.recvState = "IDLE" /\ n.readCnt = m.readCnt
         /\ n.task = "NONE" /\ n.taskStep = m.taskStep /\ n.offline = m.offline
         /\ "ERROR" \in n.condition
         /\ {"BIOS_BUSY", "APIWAIT"} \cap n.condition = {}
         /\ n.sendCmd = m.sendCmd /\ n.recvCmd = m.recvCmd
         /\ n.retryCount = m.retryCount /\ n.negaResCmd = m.negaResCmd
         /\ IF error = "MA_NOT_FOUND"
            THEN /\ n.connMode = "OFFLINE" /\ n.sioMode = "BYTE"
                 /\ n.status = m.status \ {"CONNECTED", "CONN_PTP", "PTP_SEND_DONE",
                                           "PTP_SEND", "CONNTEST"}
            ELSE /\ n.connMode = m.connMode /\ n.sioMode = m.sioMode
                 /\ n.status = m.status
<1> DEFINE r == IF error = "MA_NOT_FOUND" THEN MA_Reset(m) ELSE m
<1>1. GoodMa(r)
  BY ResetGood
<1>2. /\ r.readCnt = m.readCnt /\ r.taskStep = m.taskStep /\ r.offline = m.offline
      /\ r.sendCmd = m.sendCmd /\ r.recvCmd = m.recvCmd
      /\ r.retryCount = m.retryCount /\ r.negaResCmd = m.negaResCmd
      /\ IF error = "MA_NOT_FOUND"
         THEN /\ r.connMode = "OFFLINE" /\ r.sioMode = "BYTE"
              /\ r.status = m.status \ {"CONNECTED", "CONN_PTP", "PTP_SEND_DONE",
                                        "PTP_SEND", "CONNTEST"}
         ELSE /\ r.connMode = m.connMode /\ r.sioMode = m.sioMode
              /\ r.status = m.status
  BY ResetEffect
<1>3. n = [r EXCEPT !.error = error, !.intrMode = "IDLE",
               !.sendState = "IDLE", !.recvState = "IDLE", !.task = "NONE",
               !.condition = (@ \cup {"ERROR"})
                               \ {"BIOS_BUSY", "APIWAIT", "BUFFER_FULL"}]
  BY DEF MA_SetError
<1> HIDE DEF r
<1>4. DOMAIN r = MaFields
  BY <1>1 DEF GoodMa, MaType
<1>5. /\ n.intrMode = "IDLE" /\ n.recvState = "IDLE" /\ n.readCnt = r.readCnt
      /\ n.task = "NONE" /\ n.taskStep = r.taskStep /\ n.offline = r.offline
      /\ n.condition = (r.condition \cup {"ERROR"})
                               \ {"BIOS_BUSY", "APIWAIT", "BUFFER_FULL"}
      /\ n.sendCmd = r.sendCmd /\ n.recvCmd = r.recvCmd
      /\ n.retryCount = r.retryCount /\ n.negaResCmd = r.negaResCmd
      /\ n.connMode = r.connMode /\ n.sioMode = r.sioMode /\ n.status = r.status
  BY <1>3, <1>4, SMT DEF MaFields
<1> QED
  BY <1>2, <1>5

LEMMA TaskSetEffect ==
  ASSUME NEW m, GoodMa(m), NEW task, NEW step, NEW n, n = MA_TaskSet(m, task, step)
  PROVE  /\ n.task = task /\ n.taskStep = step /\ n.connMode = m.connMode
         /\ n.offline = m.offline
         /\ n.condition = IF task = "NONE" THEN m.condition \ {"APIWAIT"}
                                           ELSE m.condition
         /\ n.status = m.status /\ n.intrMode = m.intrMode
         /\ n.retryCount = m.retryCount /\ SameLine(m, n)
  BY SMT DEF GoodMa, MaType, MaFields, MA_TaskSet, SameLine

LEMMA PreSendEffect ==
  ASSUME NEW m, GoodMa(m), NEW n, n = MA_PreSend(m)
  PROVE  /\ n.condition = m.condition \ {"TCPCLOSED"} /\ n.retryCount = 0
         /\ n.status = m.status \ {"SIO_RETRY"} /\ n.intrMode = m.intrMode
         /\ n.sendCmd = None /\ n.recvCmd = None /\ n.sioMode = m.sioMode
         /\ n.recvState = m.recvState /\ n.readCnt = m.readCnt /\ SameCall(m, n)
         /\ n.negaResCmd = m.negaResCmd
  BY SMT DEF GoodMa, MaType, MaFields, MA_PreSend, SameCall

LEMMA StartSendEffect ==
  ASSUME NEW m, GoodMa(m), NEW cmd, NEW timeout, NEW n, n = StartSend(m, cmd, timeout)
  PROVE  /\ n.condition = m.condition \cup {"BIOS_BUSY"}
         /\ n.status = m.status \cup {"TIMER_ENABLED"} /\ n.intrMode = "SEND"
         /\ n.sendCmd = cmd /\ n.recvCmd = m.recvCmd /\ n.sioMode = m.sioMode
         /\ n.recvState = m.recvState /\ n.readCnt = m.readCnt
         /\ n.retryCount = m.retryCount /\ SameCall(m, n)
         /\ n.negaResCmd = m.negaResCmd
  BY SMT DEF GoodMa, MaType, MaFields, StartSend, SameCall

\* A request has gone out.
Sends(m, n, cmd) ==
  /\ n.condition = (m.condition \ {"TCPCLOSED"}) \cup {"BIOS_BUSY"}
  /\ n.status = (m.status \ {"SIO_RETRY"}) \cup {"TIMER_ENABLED"}
  /\ n.intrMode = "SEND" /\ n.sendCmd = cmd /\ n.retryCount = 0 /\ SameCall(m, n)
  /\ n.negaResCmd = m.negaResCmd

\* The connection, and what is said to the peer over it.
PeerFlags == {"CONN_PTP", "PTP_SEND", "PTP_SEND_DONE"}

\* A call has failed, with or without the end of its session.
Fails(m, n) ==
  /\ n.intrMode = "IDLE" /\ n.task = "NONE" /\ "ERROR" \in n.condition
  /\ "BIOS_BUSY" \notin n.condition /\ "APIWAIT" \notin n.condition
  /\ n.status \subseteq m.status /\ n.sendCmd = m.sendCmd
  /\ n.negaResCmd = m.negaResCmd
  /\ "CONNTEST" \in n.status /\ "CONNECTED" \in m.status => "CONNECTED" \in n.status
  /\ \/ {"BIOS_STOP", "SIO_SEND_TIMEOUT"} \cap n.status = {}
     \/ \A f \in {"BIOS_STOP", "BIOS_RESTART", "SIO_SEND_TIMEOUT"} :
          f \in n.status <=> f \in m.status
  /\ \/ n.retryCount = m.retryCount
     \/ n.retryCount = 0 /\ "CONNECTED" \notin n.status
  /\ \/ n.connMode = "OFFLINE" /\ "CONNECTED" \notin n.status /\ PeerFlags \cap n.status = {}
     \/ /\ n.connMode = m.connMode
        /\ \A f \in PeerFlags : f \in n.status <=> f \in m.status

LEMMA SetErrorFails ==
  ASSUME NEW m, GoodMa(m), NEW error PROVE Fails(m, MA_SetError(m, error))
<1> DEFINE n == MA_SetError(m, error)
<1>1. /\ n.intrMode = "IDLE" /\ n.task = "NONE" /\ "ERROR" \in n.condition
      /\ {"BIOS_BUSY", "APIWAIT"} \cap n.condition = {} /\ n.retryCount = m.retryCount
      /\ n.sendCmd = m.sendCmd /\ n.negaResCmd = m.negaResCmd
      /\ IF error = "MA_NOT_FOUND"
         THEN /\ n.connMode = "OFFLINE"
              /\ n.status = m.status \ {"CONNECTED", "CONN_PTP", "PTP_SEND_DONE",
                                        "PTP_SEND", "CONNTEST"}
         ELSE n.connMode = m.connMode /\ n.status = m.status
  BY SetErrorEffect
<1> HIDE DEF n
<1> QED
  BY <1>1 DEF Fails, PeerFlags, n

LEMMA RequestEffect ==
  ASSUME NEW m, GoodMa(m), NEW cmd, NEW timeout, NEW n, n = Request(m, cmd, timeout)
  PROVE  IF CanSend(m) THEN Sends(m, n, cmd) ELSE n = MA_SetError(m, "CANNOT_EXECUTE")
<1> DEFINE p == MA_PreSend(m)
<1>1. GoodMa(p)
  BY PreSendGood
<1>2. /\ p.condition = m.condition \ {"TCPCLOSED"} /\ p.retryCount = 0
      /\ p.status = m.status \ {"SIO_RETRY"} /\ SameCall(m, p)
      /\ p.negaResCmd = m.negaResCmd
  BY PreSendEffect
<1> HIDE DEF p
<1>3. CASE CanSend(m)
  <2>1. n = StartSend(p, cmd, timeout)
    BY <1>3 DEF Request, p
  <2>2. /\ n.condition = p.condition \cup {"BIOS_BUSY"}
        /\ n.status = p.status \cup {"TIMER_ENABLED"} /\ n.intrMode = "SEND"
        /\ n.sendCmd = cmd /\ n.retryCount = p.retryCount /\ SameCall(p, n)
        /\ n.negaResCmd = p.negaResCmd
    BY <1>1, <2>1, StartSendEffect
  <2> QED
    BY <1>2, <1>3, <2>2 DEF Sends, SameCall
<1>4. CASE ~CanSend(m)
  BY <1>4 DEF Request
<1> QED
  BY <1>3, <1>4

LEMMA StartEffect ==
  ASSUME NEW m, GoodMa(m), CanSend(m), NEW n, n = MABIOS_Start(m)
  PROVE  Sends(m, n, "START")
<1> DEFINE s == StartSend(MA_PreSend(m), "START", "30")
<1>1. s = Request(m, "START", "30")
  BY DEF Request
<1>2. GoodMa(s)
  BY PreSendGood, StartSendGood DEF Commands, Timeouts
<1>3. Sends(m, s, "START")
  BY <1>1, RequestEffect
<1>4. n = [s EXCEPT !.sendState = "PRESTART", !.sendLeft = 1, !.tm3 = TRUE]
  BY DEF MABIOS_Start
<1> HIDE DEF s
<1>5. DOMAIN s = MaFields
  BY <1>2 DEF GoodMa, MaType
<1>6. /\ n.condition = s.condition /\ n.status = s.status /\ n.intrMode = s.intrMode
      /\ n.sendCmd = s.sendCmd /\ n.retryCount = s.retryCount /\ SameCall(s, n)
      /\ n.negaResCmd = s.negaResCmd
  BY <1>4, <1>5, SMT DEF MaFields, SameCall
<1> QED
  BY <1>3, <1>6 DEF Sends, SameCall

LEMMA Start2Effect ==
  ASSUME NEW m, GoodMa(m), NEW n, n = MABIOS_Start2(m)
  PROVE  IF "ERROR" \notin m.condition THEN Sends(m, n, "START") ELSE Fails(m, n)
<1> DEFINE s == [m EXCEPT !.tm3 = FALSE, !.condition = @ \ {"BIOS_BUSY"}]
<1>1. GoodMa(s)
  BY SMT DEF GoodMa, CallOver, BodyPending, MaType
<1>2. /\ s.condition = m.condition \ {"BIOS_BUSY"} /\ s.status = m.status
      /\ s.retryCount = m.retryCount /\ s.sendCmd = m.sendCmd /\ SameCall(m, s)
      /\ s.negaResCmd = m.negaResCmd
  BY SMT DEF GoodMa, MaType, MaFields, SameCall
<1>3. n = Request(s, "START", "02")
  BY DEF MABIOS_Start2
<1> HIDE DEF s
<1>4. CASE "ERROR" \notin m.condition
  <2>1. CanSend(s)
    BY <1>2, <1>4 DEF CanSend
  <2>2. Sends(s, n, "START")
    BY <1>1, <1>3, <2>1, RequestEffect
  <2> QED
    BY <1>2, <1>4, <2>2 DEF Sends, SameCall
<1>5. CASE "ERROR" \in m.condition
  <2>1. ~CanSend(s)
    BY <1>2, <1>5 DEF CanSend
  <2>2. n = MA_SetError(s, "CANNOT_EXECUTE")
    BY <1>1, <1>3, <2>1, RequestEffect
  <2>3. Fails(s, n)
    BY <1>1, <2>2, SetErrorFails
  <2> QED
    BY <1>2, <1>5, <2>3 DEF Fails, SameCall
<1> QED
  BY <1>4, <1>5

LEMMA CheckStatus2Effect ==
  ASSUME NEW m, GoodMa(m), NEW n, n = MABIOS_CheckStatus2(m)
  PROVE  \/ n = m
         \/ /\ n.condition = m.condition \cup {"BIOS_BUSY"}
            /\ n.status = m.status \cup {"TIMER_ENABLED", "CONNTEST"}
            /\ n.intrMode = "SEND" /\ n.sendCmd = "CHECK_STATUS"
            /\ n.retryCount = m.retryCount /\ SameCall(m, n)
            /\ n.negaResCmd = m.negaResCmd
<1> DEFINE s == StartSend(m, "CHECK_STATUS", "10")
<1>1. GoodMa(s)
  BY StartSendGood DEF Commands, Timeouts
<1>2. /\ s.condition = m.condition \cup {"BIOS_BUSY"}
      /\ s.status = m.status \cup {"TIMER_ENABLED"} /\ s.intrMode = "SEND"
      /\ s.sendCmd = "CHECK_STATUS" /\ s.retryCount = m.retryCount /\ SameCall(m, s)
      /\ s.negaResCmd = m.negaResCmd
  BY StartSendEffect
<1>3. n = m \/ n = [s EXCEPT !.status = @ \cup {"CONNTEST"}]
  BY DEF MABIOS_CheckStatus2
<1> HIDE DEF s
<1>4. DOMAIN s = MaFields
  BY <1>1 DEF GoodMa, MaType
<1>5. CASE n = [s EXCEPT !.status = @ \cup {"CONNTEST"}]
  <2>1. /\ n.condition = s.condition /\ n.status = s.status \cup {"CONNTEST"}
        /\ n.intrMode = s.intrMode /\ n.sendCmd = s.sendCmd
        /\ n.retryCount = s.retryCount /\ SameCall(s, n) /\ n.negaResCmd = s.negaResCmd
    BY <1>4, <1>5, SMT DEF MaFields, SameCall
  <2> QED
    BY <1>2, <2>1 DEF SameCall
<1> QED
  BY <1>3, <1>5

\* Nothing that matters to the exchange or to the call has changed.
SameFlags(m, n) ==
  /\ \A f \in {"BIOS_BUSY", "APIWAIT", "ERROR"} : f \in n.condition <=> f \in m.condition
  /\ \A f \in {"CONNECTED", "SIO_RETRY", "SIO_RECV_DONE", "CONN_PTP", "PTP_SEND",
               "PTP_SEND_DONE", "BIOS_STOP", "BIOS_RESTART", "CONNTEST",
               "SIO_SEND_TIMEOUT"} :
       f \in n.status <=> f \in m.status

Same(m, n) ==
  /\ SameFlags(m, n) /\ n.intrMode = m.intrMode /\ n.retryCount = m.retryCount
  /\ SameLine(m, n) /\ SameCall(m, n)

\* The interrupt mode is m's next one.
Waits(m, n) ==
  /\ n.condition = m.condition \cup {"BIOS_BUSY"} /\ n.intrMode = "WAIT"
  /\ n.retryCount = m.retryCount /\ SameLine(m, n) /\ SameCall(m, n)

LEMMA CancelRequestEffect ==
  ASSUME NEW m, GoodMa(m), NEW n, n = MA_CancelRequest(m)
  PROVE  Waits(m, n) /\ n.status = m.status \cup {"BIOS_RESTART"}
         /\ n.counter = m.counter /\ n.timeout = m.timeout
  BY SMT DEF GoodMa, MaType, MaFields, MA_CancelRequest, Waits, SameLine, SameCall

LEMMA BiosStopEffect ==
  ASSUME NEW m, GoodMa(m), NEW n, n = MA_BiosStop(m)
  PROVE  Waits(m, n) /\ n.status = (m.status \cup {"BIOS_STOP"}) \ {"BIOS_RESTART"}
         /\ n.counter = m.counter /\ n.timeout = m.timeout
  BY SMT DEF GoodMa, MaType, MaFields, MA_BiosStop, Waits, SameLine, SameCall

LEMMA GiveUpWaitingEffect ==
  ASSUME NEW m, GoodMa(m), NEW n, n = GiveUpWaiting(m)
  PROVE  /\ Waits(m, n) /\ n.counter = m.counter /\ n.timeout = m.timeout
         /\ n.status = IF "BIOS_RESTART" \in m.status
                       THEN (m.status \cup {"BIOS_STOP"}) \ {"BIOS_RESTART"}
                       ELSE m.status \cup {"BIOS_RESTART", "SIO_SEND_TIMEOUT"}
<1>1. CASE "BIOS_RESTART" \in m.status
  <2>1. n = MA_BiosStop(m)
    BY <1>1 DEF GiveUpWaiting
  <2>2. Waits(m, n) /\ n.status = (m.status \cup {"BIOS_STOP"}) \ {"BIOS_RESTART"}
         /\ n.counter = m.counter /\ n.timeout = m.timeout
    BY <2>1, BiosStopEffect
  <2> QED
    BY <1>1, <2>2
<1>2. CASE "BIOS_RESTART" \notin m.status
  <2> DEFINE c == MA_CancelRequest(m)
  <2>1. Waits(m, c) /\ c.status = m.status \cup {"BIOS_RESTART"}
         /\ c.counter = m.counter /\ c.timeout = m.timeout
    BY CancelRequestEffect
  <2>2. GoodMa(c)
    BY CancelRequestGood
  <2>3. n = [c EXCEPT !.status = @ \cup {"SIO_SEND_TIMEOUT"}]
    BY <1>2 DEF GiveUpWaiting
  <2> HIDE DEF c
  <2>4. DOMAIN c = MaFields
    BY <2>2 DEF GoodMa, MaType
  <2>5. /\ n.condition = c.condition /\ n.intrMode = c.intrMode
        /\ n.status = c.status \cup {"SIO_SEND_TIMEOUT"}
        /\ n.retryCount = c.retryCount /\ n.counter = c.counter
        /\ n.timeout = c.timeout /\ SameLine(c, n) /\ SameCall(c, n)
    BY <2>3, <2>4, SMT DEF MaFields, SameLine, SameCall
  <2> QED
    BY <1>2, <2>1, <2>5 DEF Waits, SameLine, SameCall
<1> QED
  BY <1>1, <1>2

LEMMA TimeoutEffect ==
  ASSUME NEW m, GoodMa(m), NEW n, n = MA_IntrSio_Timeout(m)
  PROVE  /\ n.counter = m.counter + 1 /\ n.timeout = m.timeout
         /\ IF TimedOut(m)
            THEN /\ Waits(m, n)
                 /\ n.status = IF "BIOS_RESTART" \in m.status
                               THEN (m.status \cup {"BIOS_STOP"}) \ {"BIOS_RESTART"}
                               ELSE m.status \cup {"BIOS_RESTART", "SIO_SEND_TIMEOUT"}
            ELSE Same(m, n)
<1> DEFINE t == [m EXCEPT !.counter = @ + 1]
<1>1. GoodMa(t)
  BY SMT DEF GoodMa, CallOver, BodyPending, MaType
<1>2. /\ t.condition = m.condition /\ t.status = m.status /\ t.intrMode = m.intrMode
      /\ t.retryCount = m.retryCount /\ SameLine(m, t) /\ SameCall(m, t)
      /\ t.counter = m.counter + 1 /\ t.timeout = m.timeout
  BY SMT DEF GoodMa, MaType, MaFields, SameLine, SameCall
<1>3. n = IF TimedOut(m) THEN GiveUpWaiting(t) ELSE t
  BY DEF MA_IntrSio_Timeout
<1> HIDE DEF t
<1>4. CASE TimedOut(m)
  <2>1. n = GiveUpWaiting(t)
    BY <1>3, <1>4
  <2>2. /\ Waits(t, n) /\ n.counter = t.counter /\ n.timeout = t.timeout
        /\ n.status = IF "BIOS_RESTART" \in t.status
                      THEN (t.status \cup {"BIOS_STOP"}) \ {"BIOS_RESTART"}
                      ELSE t.status \cup {"BIOS_RESTART", "SIO_SEND_TIMEOUT"}
    BY <1>1, <2>1, GiveUpWaitingEffect
  <2> QED
    BY <1>2, <1>4, <2>2 DEF Waits, SameLine, SameCall
<1>5. CASE ~TimedOut(m)
  BY <1>2, <1>3, <1>5 DEF Same, SameFlags
<1> QED
  BY <1>4, <1>5

LEMMA AwaitReplyEffect ==
  ASSUME NEW m, GoodMa(m), NEW n, n = AwaitReply(m)
  PROVE  /\ n.condition = m.condition /\ n.status = m.status \ {"SIO_RETRY"}
         /\ n.intrMode = "RECV" /\ n.recvState = "START" /\ n.readCnt = 0
         /\ n.sendCmd = m.sendCmd /\ n.retryCount = m.retryCount
         /\ n.sioMode = m.sioMode /\ SameCall(m, n) /\ n.negaResCmd = None
  BY SMT DEF GoodMa, MaType, MaFields, AwaitReply, SameCall

LEMMA DropSessionFails ==
  ASSUME NEW m, GoodMa(m), NEW error \in Errors, NEW n, n = DropSession(m, error)
  PROVE  Fails(m, n) /\ "CONNECTED" \notin n.status
<1> DEFINE s == MA_SetError(m, error)
<1>1. Fails(m, s)
  BY SetErrorFails
<1>2. GoodMa(s)
  BY SetErrorGood
<1>3. n = [s EXCEPT !.status = @ \ {"CONNECTED", "CONNTEST"}]
  BY DEF DropSession
<1> HIDE DEF s
<1>4. DOMAIN s = MaFields
  BY <1>2 DEF GoodMa, MaType
<1>5. /\ n.intrMode = s.intrMode /\ n.task = s.task /\ n.condition = s.condition
      /\ n.retryCount = s.retryCount /\ n.connMode = s.connMode
      /\ n.status = s.status \ {"CONNECTED", "CONNTEST"} /\ n.sendCmd = s.sendCmd
      /\ n.negaResCmd = s.negaResCmd
  BY <1>3, <1>4, SMT DEF MaFields
<1> QED
  BY <1>1, <1>5 DEF Fails, PeerFlags

LEMMA DisconnectFails ==
  ASSUME NEW m, GoodMa(m), NEW n, n = MA_Bios_disconnect(m)
  PROVE  Fails(m, n) /\ "CONNECTED" \notin n.status
<1> DEFINE s == DropSession(m, "MA_NOT_FOUND")
<1>1. "MA_NOT_FOUND" \in Errors
  BY DEF Errors
<1>2. Fails(m, s) /\ "CONNECTED" \notin s.status /\ GoodMa(s)
  BY <1>1, DropSessionFails, DropSessionGood
<1>3. n = [s EXCEPT !.tm3 = FALSE]
  BY DEF MA_Bios_disconnect
<1> HIDE DEF s
<1>4. DOMAIN s = MaFields
  BY <1>2 DEF GoodMa, MaType
<1>5. /\ n.intrMode = s.intrMode /\ n.task = s.task /\ n.condition = s.condition
      /\ n.retryCount = s.retryCount /\ n.connMode = s.connMode /\ n.status = s.status
      /\ n.sendCmd = s.sendCmd /\ n.negaResCmd = s.negaResCmd
  BY <1>3, <1>4, SMT DEF MaFields
<1> QED
  BY <1>2, <1>5 DEF Fails

LEMMA SendingSame ==
  ASSUME NEW m, GoodMa(m)
  PROVE  Same(m, MA_IntrTimer_SIOSend(m)) /\ Same(m, MA_IntrTimer_SIORecv(m))
<1> DEFINE d == [m EXCEPT !.sendState = "DATA", !.sendLeft = PacketBytes("BYTE")]
<1>1. ASSUME NEW k, GoodMa(k), NEW t, t = MA_StartSioTransmit(k) PROVE Same(k, t)
  BY <1>1, SMT DEF GoodMa, MaType, MaFields, MA_StartSioTransmit, Same, SameFlags,
     SameLine, SameCall
<1>2. ASSUME NEW k, GoodMa(k), NEW n, n = TransmitRequest(k)
      PROVE  Same(k, n) /\ GoodMa(n)
  <2> DEFINE t == MA_StartSioTransmit(k)
  <2>1. Same(k, t) /\ GoodMa(t) /\ GoodMa(n)
    BY <1>1, <1>2, TransmitGood, TransmitRequestGood
  <2>2. n = [t EXCEPT !.sendLeft = @ - Transfer(k.sioMode)]
    BY <1>2 DEF TransmitRequest
  <2> HIDE DEF t
  <2>3. Same(t, n)
    BY <2>1, <2>2, SMT DEF GoodMa, MaType, MaFields, Same, SameFlags, SameLine, SameCall
  <2> QED
    BY <2>1, <2>3 DEF Same, SameFlags, SameLine, SameCall
<1>3. GoodMa(d) /\ Same(m, d)
  <2>1. GoodMa(d)
    BY SMT DEF GoodMa, CallOver, BodyPending, MaType, SendStates, PacketBytes
  <2>2. Same(m, d)
    BY SMT DEF GoodMa, MaType, MaFields, Same, SameFlags, SameLine, SameCall
  <2> QED
    BY <2>1, <2>2
<1>4. Same(m, m)
  BY DEF Same, SameFlags, SameLine, SameCall
<1>5. Same(m, MA_IntrTimer_SIORecv(m))
  BY <1>1, <1>4 DEF MA_IntrTimer_SIORecv
<1>6. Same(m, TransmitRequest(m)) /\ GoodMa(TransmitRequest(m))
  BY <1>2
<1>7. Same(m, TransmitRequest(d))
  <2> HIDE DEF d
  <2>1. Same(d, TransmitRequest(d))
    BY <1>2, <1>3
  <2> QED
    BY <1>3, <2>1 DEF Same, SameFlags, SameLine, SameCall
<1>8. Same(m, [TransmitRequest(m) EXCEPT !.sendState = "START"])
  <2> DEFINE t == TransmitRequest(m)
             n == [t EXCEPT !.sendState = "START"]
  <2>1. Same(m, t) /\ GoodMa(t)
    BY <1>6
  <2> HIDE DEF t
  <2>2. Same(t, n)
    BY <2>1, SMT DEF GoodMa, MaType, MaFields, Same, SameFlags, SameLine, SameCall
  <2> HIDE DEF n
  <2>3. Same(m, n)
    BY <2>1, <2>2 DEF Same, SameFlags, SameLine, SameCall
  <2> QED
    BY <2>3 DEF n, t
<1>9. Same(m, MA_IntrTimer_SIOSend(m))
  BY <1>4, <1>6, <1>7, <1>8 DEF MA_IntrTimer_SIOSend, d
<1> QED
  BY <1>5, <1>9

LEMMA StopWaitEffect ==
  ASSUME NEW m, GoodMa(m), NEW n, n = StopWait(m)
  PROVE  \/ /\ n.condition = m.condition \ {"BIOS_BUSY"}
            /\ n.status = m.status \ {"BIOS_STOP"} /\ n.intrMode = "IDLE"
            /\ n.retryCount = m.retryCount /\ SameLine(m, n) /\ SameCall(m, n)
            /\ "SIO_SEND_TIMEOUT" \notin m.status
         \/ Fails(m, n) /\ {"CONNECTED", "BIOS_STOP"} \cap n.status = {}
<1> DEFINE s == [m EXCEPT !.status = @ \ {"BIOS_STOP"}, !.intrMode = "IDLE",
                          !.condition = @ \ {"BIOS_BUSY"}]
           r == MA_Reset(s)
           t == MA_TaskSet(r, "NONE", 0)
           e == MA_SetError(t, "TIMEOUT")
<1>1. GoodMa(s)
  BY SMT DEF GoodMa, CallOver, BodyPending, MaType, IntrModes
<1>2. /\ s.condition = m.condition \ {"BIOS_BUSY"}
      /\ s.status = m.status \ {"BIOS_STOP"} /\ s.intrMode = "IDLE"
      /\ s.retryCount = m.retryCount /\ SameLine(m, s) /\ SameCall(m, s)
  BY SMT DEF GoodMa, MaType, MaFields, SameLine, SameCall
<1>3. \/ n = s /\ "SIO_SEND_TIMEOUT" \notin m.status
      \/ n = [e EXCEPT !.status = @ \ {"SIO_SEND_TIMEOUT"}, !.counter = 0]
  BY DEF StopWait
<1> HIDE DEF s
<1>4. GoodMa(r) /\ r.connMode = "OFFLINE" /\ r.retryCount = s.retryCount
      /\ r.sendCmd = s.sendCmd /\ r.negaResCmd = s.negaResCmd
      /\ r.status = s.status \ {"CONNECTED", "CONN_PTP", "PTP_SEND_DONE",
                                "PTP_SEND", "CONNTEST"}
  BY <1>1, ResetGood, ResetEffect
<1> HIDE DEF r
<1>5. GoodMa(t) /\ t.connMode = "OFFLINE" /\ t.retryCount = r.retryCount
      /\ t.status = r.status /\ t.sendCmd = r.sendCmd /\ t.negaResCmd = r.negaResCmd
  <2>1. "NONE" \in Tasks /\ 0 \in 0..255
    BY DEF Tasks
  <2>2. GoodMa(t)
    BY <1>4, <2>1, TaskSetGood
  <2>3. t.connMode = r.connMode /\ t.retryCount = r.retryCount /\ t.status = r.status
        /\ t.sendCmd = r.sendCmd /\ t.negaResCmd = r.negaResCmd
    BY <1>4, SMT DEF MA_TaskSet, GoodMa, MaType, MaFields
  <2> QED
    BY <1>4, <2>2, <2>3
<1> HIDE DEF t
<1>6. GoodMa(e) /\ Fails(t, e)
  BY <1>5, SetErrorGood, SetErrorFails DEF Errors
<1> HIDE DEF e
<1>7. CASE n = [e EXCEPT !.status = @ \ {"SIO_SEND_TIMEOUT"}, !.counter = 0]
  <2>1. DOMAIN e = MaFields
    BY <1>6 DEF GoodMa, MaType
  <2>2. /\ n.intrMode = e.intrMode /\ n.task = e.task /\ n.condition = e.condition
        /\ n.retryCount = e.retryCount /\ n.connMode = e.connMode
        /\ n.status = e.status \ {"SIO_SEND_TIMEOUT"} /\ n.sendCmd = e.sendCmd
        /\ n.negaResCmd = e.negaResCmd
    BY <1>7, <2>1, SMT DEF MaFields
  <2> QED
    BY <1>2, <1>4, <1>5, <1>6, <2>2 DEF Fails, PeerFlags, SameLine
<1> QED
  BY <1>2, <1>3, <1>7

LEMMA FooterRetryEffect ==
  ASSUME NEW m, GoodMa(m), NEW tries, NEW giveUp, GoodMa(giveUp), Fails(m, giveUp),
         "CONNECTED" \notin giveUp.status, NEW n, n = FooterRetry(m, tries, giveUp)
  PROVE  \/ Fails(m, n) /\ "CONNECTED" \notin n.status
         \/ /\ n.condition = m.condition /\ n.status = m.status \cup {"SIO_RETRY"}
            /\ n.intrMode = "WAIT" /\ SameLine(m, n) /\ SameCall(m, n)
            /\ IF "SIO_RETRY" \in m.status
               THEN n.retryCount = (m.retryCount + U16 - 1) % U16 /\ n.retryCount # 0
               ELSE n.retryCount = tries
<1> DEFINE left == IF "SIO_RETRY" \in m.status THEN (m.retryCount + U16 - 1) % U16
                                                ELSE tries
           g == [giveUp EXCEPT !.retryCount = 0]
           w == [m EXCEPT !.retryCount = left, !.status = @ \cup {"SIO_RETRY"},
                          !.intrMode = "WAIT", !.tm3 = TRUE]
<1>1. Fails(m, g) /\ "CONNECTED" \notin g.status
  <2>1. DOMAIN giveUp = MaFields
    BY DEF GoodMa, MaType
  <2>2. /\ g.intrMode = giveUp.intrMode /\ g.task = giveUp.task
        /\ g.condition = giveUp.condition /\ g.retryCount = 0
        /\ g.connMode = giveUp.connMode /\ g.status = giveUp.status
        /\ g.sendCmd = giveUp.sendCmd /\ g.negaResCmd = giveUp.negaResCmd
    BY <2>1, SMT DEF MaFields
  <2> QED
    BY <2>2 DEF Fails
<1>2. CASE "SIO_RETRY" \in m.status /\ left = 0
  BY <1>1, <1>2 DEF FooterRetry, left
<1>3. CASE ~("SIO_RETRY" \in m.status /\ left = 0)
  <2>1. n = w
    BY <1>3 DEF FooterRetry, left
  <2> HIDE DEF left
  <2>2. /\ n.condition = m.condition /\ n.status = m.status \cup {"SIO_RETRY"}
        /\ n.intrMode = "WAIT" /\ SameLine(m, n) /\ SameCall(m, n)
        /\ n.retryCount = left
    BY <2>1, SMT DEF GoodMa, MaType, MaFields, SameLine, SameCall
  <2> QED
    BY <1>3, <2>2 DEF left
<1> QED
  BY <1>2, <1>3

\* The line is as it was, or the session is over, with an error if it was the
\* keep-alive that noticed.
LEMMA CheckStatusEffect ==
  ASSUME NEW m, GoodMa(m), NEW response,
         NEW n, n = MA_ProcessCheckStatusResponse(m, response)
  PROVE  /\ n.intrMode = "IDLE"
         /\ \/ /\ n.condition = m.condition /\ n.status = m.status \ {"CONNTEST"}
               /\ n.retryCount = m.retryCount /\ n.sendCmd = m.sendCmd
               /\ SameCall(m, n) /\ n.negaResCmd = m.negaResCmd
            \/ /\ n.condition = m.condition \ {"PTP_GET", "CONNECT"}
               /\ n.status = {} /\ n.connMode = "OFFLINE" /\ n.task = m.task
               /\ n.taskStep = m.taskStep /\ n.offline = m.offline
               /\ n.retryCount = m.retryCount /\ n.sendCmd = m.sendCmd
               /\ n.negaResCmd = m.negaResCmd
            \/ Fails(m, n) /\ n.status = {}
<1> DEFINE s == [m EXCEPT !.status = {}]
           e == MA_SetError(s, "OFFLINE")
           x == MA_Reset(s)
           y == MA_Reset(e)
           h == IF response \in {"lost", "hungup"} THEN HangUp(m) ELSE m
           condition == CASE response = "lost" -> "LOST"
                          [] response # "lost" /\ h.connMode # "OFFLINE" -> h.connMode
                          [] OTHER -> "IDLE"
           c == MA_SetCondition(h, condition)
<1>1. GoodMa(s)
  BY SMT DEF GoodMa, CallOver, BodyPending, MaType
<1>2. /\ s.condition = m.condition /\ s.status = {} /\ s.retryCount = m.retryCount
      /\ s.sendCmd = m.sendCmd /\ SameCall(m, s) /\ s.negaResCmd = m.negaResCmd
  BY SMT DEF GoodMa, MaType, MaFields, SameCall
<1>3. GoodMa(h)
  BY HangUpGood
<1>4. h = m \/ h = x \/ h = y
  BY DEF HangUp
<1>5. n = [c EXCEPT !.intrMode = "IDLE", !.sendState = "IDLE", !.recvState = "IDLE",
                    !.status = @ \ {"CONNTEST"}]
  BY DEF MA_ProcessCheckStatusResponse
<1> HIDE DEF h, s
<1>6. condition \in Lines
  BY <1>3 DEF GoodMa, MaType, Lines, ConnModes
<1> HIDE DEF condition
<1>7. GoodMa(c)
  BY <1>3, <1>6, SetConditionGood
<1>8. /\ c.condition = h.condition /\ c.status = h.status /\ c.sendCmd = h.sendCmd
      /\ c.retryCount = h.retryCount /\ SameCall(h, c) /\ c.negaResCmd = h.negaResCmd
  BY <1>3, SMT DEF GoodMa, MaType, MaFields, MA_SetCondition, SameCall
<1> HIDE DEF c
<1>9. DOMAIN c = MaFields
  BY <1>7 DEF GoodMa, MaType
<1>10. /\ n.condition = c.condition /\ n.status = c.status \ {"CONNTEST"}
       /\ n.sendCmd = c.sendCmd /\ n.retryCount = c.retryCount /\ SameCall(c, n)
       /\ n.intrMode = "IDLE" /\ n.negaResCmd = c.negaResCmd
  BY <1>5, <1>9, SMT DEF MaFields, SameCall
<1>11. /\ n.condition = h.condition /\ n.status = h.status \ {"CONNTEST"}
       /\ n.sendCmd = h.sendCmd /\ n.retryCount = h.retryCount /\ SameCall(h, n)
       /\ n.intrMode = "IDLE" /\ n.negaResCmd = h.negaResCmd
  BY <1>8, <1>10 DEF SameCall
<1>12. CASE h = m
  BY <1>11, <1>12
<1>13. CASE h = x
  <2>1. /\ x.connMode = "OFFLINE" /\ x.condition = s.condition \ {"PTP_GET", "CONNECT"}
        /\ x.status = s.status \ {"CONNECTED", "CONN_PTP", "PTP_SEND_DONE",
                                  "PTP_SEND", "CONNTEST"}
        /\ x.sendCmd = s.sendCmd /\ x.retryCount = s.retryCount
        /\ x.negaResCmd = s.negaResCmd
        /\ x.task = s.task /\ x.taskStep = s.taskStep /\ x.offline = s.offline
    BY <1>1, ResetEffect
  <2> QED
    BY <1>2, <1>11, <1>13, <2>1 DEF SameCall
<1>14. CASE h = y
  <2>1. Fails(s, e) /\ GoodMa(e)
    BY <1>1, SetErrorFails, SetErrorGood DEF Errors
  <2> HIDE DEF e
  <2>2. /\ y.connMode = "OFFLINE" /\ y.condition = e.condition \ {"PTP_GET", "CONNECT"}
        /\ y.status = e.status \ {"CONNECTED", "CONN_PTP", "PTP_SEND_DONE",
                                  "PTP_SEND", "CONNTEST"}
        /\ y.retryCount = e.retryCount /\ y.task = e.task /\ y.sendCmd = e.sendCmd
        /\ y.negaResCmd = e.negaResCmd
    BY <2>1, ResetEffect
  <2>3. e.status = {} /\ e.retryCount \in {0, m.retryCount}
    BY <1>2, <2>1 DEF Fails
  <2>4. n.status = {} /\ n.connMode = "OFFLINE" /\ n.task = "NONE"
    BY <1>11, <1>14, <2>1, <2>2, <2>3 DEF SameCall, Fails
  <2>5. "ERROR" \in n.condition /\ "BIOS_BUSY" \notin n.condition
        /\ "APIWAIT" \notin n.condition
    BY <1>11, <1>14, <2>1, <2>2 DEF Fails
  <2>6. /\ n.retryCount \in {0, m.retryCount} /\ n.sendCmd = m.sendCmd
        /\ n.negaResCmd = m.negaResCmd
    BY <1>2, <1>11, <1>14, <2>1, <2>2, <2>3 DEF Fails
  <2>7. Fails(m, n)
    BY <1>11, <2>4, <2>5, <2>6 DEF Fails
  <2> QED
    BY <1>11, <2>4, <2>7
<1> QED
  BY <1>4, <1>12, <1>13, <1>14

LEMMA RecvPacketDoneEffect ==
  ASSUME NEW m, GoodMa(m), m.recvCmd # "CHECK_STATUS", NEW n, n = RecvPacketDone(m)
  PROVE  /\ \A f \in {"BIOS_BUSY", "APIWAIT", "ERROR"} : f \in n.condition <=> f \in m.condition
         /\ n.status = CASE m.recvCmd = "START" -> m.status \cup {"CONNECTED"}
                         [] m.recvCmd = "END" ->
                              m.status \ {"CONNTEST", "CONN_PTP", "PTP_SEND_DONE", "PTP_SEND"}
                         [] OTHER -> m.status
         /\ n.intrMode = m.intrMode /\ n.retryCount = m.retryCount
         /\ n.sendCmd = m.sendCmd /\ SameCall(m, n)
         /\ n.negaResCmd = IF m.recvCmd = "ERROR" THEN m.sendCmd ELSE m.negaResCmd
<1>1. CASE m.recvCmd \in {"START", "END"}
  BY <1>1, SMT DEF GoodMa, MaType, MaFields, RecvPacketDone, SameCall
<1>2. CASE m.recvCmd \in {"TEL", "WAIT_CALL", "OFFLINE", "DATA_END"}
  BY <1>2, SMT DEF GoodMa, MaType, MaFields, RecvPacketDone, SameCall
<1>3. CASE m.recvCmd \in {"CHANGE_CLOCK", "ERROR"}
  BY <1>3, SMT DEF GoodMa, MaType, MaFields, RecvPacketDone, SameCall
<1>4. CASE m.recvCmd \notin {"START", "END", "TEL", "WAIT_CALL", "OFFLINE", "DATA_END",
                             "CHANGE_CLOCK", "ERROR", "CHECK_STATUS"}
  BY <1>4, SMT DEF GoodMa, MaType, MaFields, RecvPacketDone, SameCall
<1> QED
  BY <1>1, <1>2, <1>3, <1>4

LEMMA ProcessRecvPacketEffect ==
  ASSUME NEW m, GoodMa(m), NEW n, n = MA_ProcessRecvPacket(m)
  PROVE  IF "BIOS_RESTART" \in m.status
         THEN /\ Waits(m, n)
              /\ n.status = (m.status \cup {"BIOS_STOP"}) \ {"BIOS_RESTART", "SIO_RECV_DONE"}
         ELSE LET r == RecvPacketDone(m)
              IN /\ n.status = r.status \ {"SIO_RECV_DONE"}
                 /\ n.retryCount = r.retryCount /\ n.sendCmd = r.sendCmd /\ SameCall(r, n)
                 /\ n.negaResCmd = r.negaResCmd
                 /\ \/ /\ n.intrMode = "WAIT" /\ n.condition = r.condition
                       /\ m.recvCmd \in {"END", "CHANGE_CLOCK"}
                    \/ n.intrMode = "IDLE" /\ n.condition = r.condition \ {"BIOS_BUSY"}
<1> DEFINE r == RecvPacketDone(m)
           b == MA_BiosStop(m)
           w == [r EXCEPT !.intrMode = "WAIT"]
           i == [r EXCEPT !.intrMode = "IDLE", !.condition = @ \ {"BIOS_BUSY"}]
<1>1. CASE "BIOS_RESTART" \in m.status
  <2>1. n = [b EXCEPT !.status = @ \ {"SIO_RECV_DONE"}, !.counter = 0]
    BY <1>1 DEF MA_ProcessRecvPacket
  <2>2. Waits(m, b) /\ b.status = (m.status \cup {"BIOS_STOP"}) \ {"BIOS_RESTART"}
    BY BiosStopEffect
  <2>3. GoodMa(b)
    BY BiosStopGood
  <2> HIDE DEF b
  <2>4. DOMAIN b = MaFields
    BY <2>3 DEF GoodMa, MaType
  <2>5. /\ n.condition = b.condition /\ n.intrMode = b.intrMode
        /\ n.status = b.status \ {"SIO_RECV_DONE"} /\ n.retryCount = b.retryCount
        /\ SameLine(b, n) /\ SameCall(b, n)
    BY <2>1, <2>4, SMT DEF MaFields, SameLine, SameCall
  <2> QED
    BY <1>1, <2>2, <2>5 DEF Waits, SameLine, SameCall
<1>2. CASE "BIOS_RESTART" \notin m.status
  <2>1. GoodMa(r)
    BY RecvPacketDoneGood
  <2> HIDE DEF r
  <2>2. DOMAIN r = MaFields
    BY <2>1 DEF GoodMa, MaType
  <2>3. CASE WaitsAfter(m)
    <3>1. n = [w EXCEPT !.status = @ \ {"SIO_RECV_DONE"}, !.counter = 0]
      BY <1>2, <2>3 DEF MA_ProcessRecvPacket, r
    <3>2. /\ n.status = r.status \ {"SIO_RECV_DONE"} /\ n.retryCount = r.retryCount
          /\ n.sendCmd = r.sendCmd /\ SameCall(r, n) /\ n.negaResCmd = r.negaResCmd
          /\ n.intrMode = "WAIT" /\ n.condition = r.condition
      <4>1. /\ w.status = r.status /\ w.retryCount = r.retryCount
            /\ w.sendCmd = r.sendCmd /\ SameCall(r, w) /\ w.intrMode = "WAIT"
            /\ w.negaResCmd = r.negaResCmd
            /\ w.condition = r.condition /\ DOMAIN w = MaFields
        BY <2>2, SMT DEF MaFields, SameCall
      <4> HIDE DEF w
      <4>2. /\ n.status = w.status \ {"SIO_RECV_DONE"} /\ n.retryCount = w.retryCount
            /\ n.sendCmd = w.sendCmd /\ SameCall(w, n) /\ n.intrMode = w.intrMode
            /\ n.condition = w.condition /\ n.negaResCmd = w.negaResCmd
        BY <3>1, <4>1, SMT DEF MaFields, SameCall
      <4> QED
        BY <4>1, <4>2 DEF SameCall
    <3>3. m.recvCmd \in {"END", "CHANGE_CLOCK"}
      BY <2>3 DEF WaitsAfter
    <3> QED
      BY <1>2, <3>2, <3>3 DEF r
  <2>4. CASE ~WaitsAfter(m)
    <3>1. n = [i EXCEPT !.status = @ \ {"SIO_RECV_DONE"}, !.counter = 0]
      BY <1>2, <2>4 DEF MA_ProcessRecvPacket, r
    <3>2. /\ n.status = r.status \ {"SIO_RECV_DONE"} /\ n.retryCount = r.retryCount
          /\ n.sendCmd = r.sendCmd /\ SameCall(r, n) /\ n.negaResCmd = r.negaResCmd
          /\ n.intrMode = "IDLE" /\ n.condition = r.condition \ {"BIOS_BUSY"}
      <4>1. /\ i.status = r.status /\ i.retryCount = r.retryCount
            /\ i.sendCmd = r.sendCmd /\ SameCall(r, i) /\ i.intrMode = "IDLE"
            /\ i.negaResCmd = r.negaResCmd
            /\ i.condition = r.condition \ {"BIOS_BUSY"} /\ DOMAIN i = MaFields
        BY <2>2, SMT DEF MaFields, SameCall
      <4> HIDE DEF i
      <4>2. /\ n.status = i.status \ {"SIO_RECV_DONE"} /\ n.retryCount = i.retryCount
            /\ n.sendCmd = i.sendCmd /\ SameCall(i, n) /\ n.intrMode = i.intrMode
            /\ n.condition = i.condition /\ n.negaResCmd = i.negaResCmd
        BY <3>1, <4>1, SMT DEF MaFields, SameCall
      <4> QED
        BY <4>1, <4>2 DEF SameCall
    <3> QED
      BY <1>2, <3>2 DEF r
  <2> QED
    BY <2>3, <2>4
<1> QED
  BY <1>1, <1>2

----------------------------------------------------------------------------
(* The tasks and the calls of the api: the parts they share.               *)

LEMMA StepsGood ==
  ASSUME NEW m, GoodMa(m)
  PROVE  /\ GoodMa(NextStep(m)) /\ GoodMa(TaskDone(m))
         /\ \A step \in 0..255 : GoodMa(GoTo(m, step))
<1> DEFINE next == (m.taskStep + 1) % 256
<1>1. next \in 0..255
  BY DEF GoodMa, MaType
<1> HIDE DEF next
<1>2. GoodMa([m EXCEPT !.taskStep = next])
  BY <1>1, SMT DEF GoodMa, CallOver, BodyPending, MaType
<1>3. GoodMa(TaskDone(m))
  <2>1. "NONE" \in Tasks /\ 0 \in 0..255
    BY DEF Tasks
  <2> QED
    BY <2>1, TaskSetGood DEF TaskDone
<1>4. ASSUME NEW step \in 0..255 PROVE GoodMa(GoTo(m, step))
  BY <1>4, SMT DEF GoodMa, CallOver, BodyPending, MaType, GoTo
<1> QED
  BY <1>2, <1>3, <1>4 DEF NextStep, next

LEMMA FailGood ==
  ASSUME NEW m, GoodMa(m), NEW error \in Errors, NEW step \in 0..255
  PROVE  GoodMa(Fail(m, error, step))
  BY SMT DEF GoodMa, CallOver, BodyPending, MaType, Fail

LEMMA DefaultFailGood ==
  ASSUME NEW m, GoodMa(m), NEW step \in 0..255 PROVE GoodMa(DefaultFail(m, step))
  BY DefaultNegaGood, StepsGood DEF DefaultFail

LEMMA ReportGood ==
  ASSUME NEW m, GoodMa(m) PROVE GoodMa(TaskDone(MA_SetApiError(m, m.taskError)))
<1>1. m.taskError \in Errors
  BY DEF GoodMa, MaType
<1> QED
  BY <1>1, SetErrorGood, StepsGood DEF MA_SetApiError

LEMMA ReportAndResetGood ==
  ASSUME NEW m, GoodMa(m) PROVE GoodMa(ReportAndReset(m))
<1>1. GoodMa(MA_Reset(m)) /\ m.taskError \in Errors
  BY ResetGood DEF GoodMa, MaType
<1> QED
  BY <1>1, SetErrorGood, StepsGood DEF ReportAndReset, MA_SetApiError

LEMMA OfflineErrorGood ==
  ASSUME NEW m, GoodMa(m)
  PROVE  GoodMa(TaskDone(MA_SetApiError(MA_Reset(m), "OFFLINE")))
  BY ResetGood, SetErrorGood, StepsGood DEF MA_SetApiError, Errors

\* What a step of a task that sends a command makes of a good state.
LEMMA SendStepsGood ==
  ASSUME NEW m, GoodMa(m)
  PROVE  /\ GoodMa(NextStep(MABIOS_Start(m)))
         /\ GoodMa(MABIOS_ChangeClock(NextStep(m)))
         /\ GoodMa(NextStep(MABIOS_CheckStatus(m)))
         /\ GoodMa(NextStep(MABIOS_EEPROM_Read(m)))
         /\ GoodMa(NextStep(MABIOS_Tel(m)))
         /\ GoodMa(NextStep(MABIOS_PPPConnect(m)))
         /\ GoodMa(NextStep(MABIOS_PPPDisconnect(m)))
         /\ GoodMa(NextStep(MABIOS_WaitCall(m)))
         /\ GoodMa(NextStep(MABIOS_Offline(m)))
         /\ GoodMa(NextStep(MABIOS_End(m)))
         /\ GoodMa(GoTo(MABIOS_End(m), 3))
<1>1. \A n : GoodMa(n) => GoodMa(NextStep(n)) /\ GoodMa(GoTo(n, 3))
  <2>1. 3 \in 0..255
    OBVIOUS
  <2> QED
    BY <2>1, StepsGood
<1>2. GoodMa(MABIOS_Start(m)) /\ GoodMa(MABIOS_ChangeClock(NextStep(m)))
  BY <1>1, StartGood, RequestsGood
<1> QED
  BY <1>1, <1>2, RequestsGood

----------------------------------------------------------------------------
(* The tasks.                                                              *)

LEMMA InitLibraryTaskGood ==
  ASSUME NEW m, GoodMa(m) PROVE GoodMa(MATASK_InitLibrary(m))
<1> DEFINE n == IF Refused(m) /\ m.negaResCmd # "END" THEN DefaultFail(m, 251) ELSE m
<1>1. GoodMa(n)
  <2>1. 251 \in 0..255
    OBVIOUS
  <2> QED
    BY <2>1, DefaultFailGood
<1> HIDE DEF n
<1>2. GoodMa(TaskDone(MA_Reset(n))) /\ GoodMa(ReportAndReset(n))
  BY <1>1, ResetGood, StepsGood, ReportAndResetGood
<1> QED
  BY <1>1, <1>2, SendStepsGood DEF MATASK_InitLibrary, n

LEMMA TelServerNegaGood ==
  ASSUME NEW m, GoodMa(m) PROVE GoodMa(TelServerNega(m))
<1>1. 249 \in 0..255 /\ 250 \in 0..255 /\ 251 \in 0..255
  OBVIOUS
<1>2. "EEPROM_SUM" \in Errors /\ "PPP_CONNECT" \in Errors
  BY DEF Errors
<1>3. GoodMa(Fail(m, "EEPROM_SUM", 250)) /\ GoodMa(Fail(m, "PPP_CONNECT", 249))
  BY <1>1, <1>2, FailGood
<1>4. GoodMa(DefaultFail(m, 250)) /\ GoodMa(DefaultFail(m, 251))
  BY <1>1, DefaultFailGood
<1> QED
  BY <1>3, <1>4 DEF TelServerNega

LEMMA TelServerTaskGood ==
  ASSUME NEW m, GoodMa(m) PROVE GoodMa(MATASK_TelServer(m))
<1> DEFINE n == IF Refused(m) THEN TelServerNega(m) ELSE m
           c == [n EXCEPT !.eepromCached = TRUE]
           p == [n EXCEPT !.connMode = "PPP"]
<1>1. GoodMa(n)
  BY TelServerNegaGood
<1> HIDE DEF n
<1>2. GoodMa(c) /\ GoodMa(p)
  BY <1>1, SMT DEF GoodMa, CallOver, BodyPending, MaType, ConnModes
<1> HIDE DEF c, p
<1>3. GoodMa(NextStep(c)) /\ GoodMa(NextStep(n))
  BY <1>1, <1>2, StepsGood
<1>4. GoodMa(TaskDone(MA_SetCondition(p, "PPP")))
  BY <1>2, SetConditionGood, StepsGood DEF Lines
<1>5. /\ GoodMa(Fail(n, "CALL_FAILED", 250)) /\ GoodMa(Fail(n, "REGISTRATION", 250))
      /\ GoodMa(Fail(n, "EEPROM_SUM", 250)) /\ GoodMa(GoTo(n, 6))
  <2>1. 250 \in 0..255 /\ 6 \in 0..255
    OBVIOUS
  <2>2. \A error \in Errors : GoodMa(Fail(n, error, 250))
    BY <1>1, <2>1, FailGood
  <2>3. {"CALL_FAILED", "REGISTRATION", "EEPROM_SUM"} \subseteq Errors
    BY DEF Errors
  <2>4. GoodMa(GoTo(n, 6))
    BY <1>1, <2>1, StepsGood
  <2> QED
    BY <2>2, <2>3, <2>4
<1>6. GoodMa(ReportAndReset(n))
  BY <1>1, ReportAndResetGood
<1> QED
  BY <1>1, <1>3, <1>4, <1>5, <1>6, SendStepsGood DEF MATASK_TelServer, n, c, p

LEMMA EnterP2PGood ==
  ASSUME NEW m, GoodMa(m), NEW mode \in {"P2P_SEND", "P2P_RECV"}
  PROVE  GoodMa(EnterP2P(m, mode))
<1> DEFINE e == [m EXCEPT !.status = @ \cup {"CONN_PTP"}, !.connMode = mode,
                          !.bufSize = 0, !.eepromCached = FALSE]
<1>1. GoodMa(e)
  BY SMT DEF GoodMa, CallOver, BodyPending, MaType, StatusFlags, ConnModes
<1> HIDE DEF e
<1>2. GoodMa(TaskDone(MA_SetCondition(e, mode)))
  BY <1>1, SetConditionGood, StepsGood DEF Lines
<1> QED
  BY <1>2 DEF EnterP2P, e

LEMMA TelTaskGood == ASSUME NEW m, GoodMa(m) PROVE GoodMa(MATASK_Tel(m))
<1> DEFINE n == IF ~Refused(m) \/ m.negaResCmd = "END" THEN m
                ELSE IF m.negaResCmd \in {"TEL", "CHECK_STATUS", "CHANGE_CLOCK",
                                          "EEPROM_READ"}
                THEN DefaultFail(m, 250) ELSE DefaultFail(m, 251)
<1>1. 250 \in 0..255 /\ 251 \in 0..255
  OBVIOUS
<1>2. GoodMa(n)
  BY <1>1, DefaultFailGood
<1> HIDE DEF n
<1>3. /\ GoodMa(Fail(n, "CALL_FAILED", 250)) /\ GoodMa(EnterP2P(n, "P2P_SEND"))
      /\ GoodMa(ReportAndReset(n))
  <2>1. "CALL_FAILED" \in Errors
    BY DEF Errors
  <2>2. GoodMa(Fail(n, "CALL_FAILED", 250))
    BY <1>1, <1>2, <2>1, FailGood
  <2> QED
    BY <1>2, <2>2, EnterP2PGood, ReportAndResetGood
<1> QED
  BY <1>2, <1>3, SendStepsGood DEF MATASK_Tel, n

LEMMA ReceiveTaskGood == ASSUME NEW m, GoodMa(m) PROVE GoodMa(MATASK_Receive(m))
<1> DEFINE n == IF Refused(m) THEN ReceiveNega(m) ELSE m
<1>1. 250 \in 0..255 /\ 251 \in 0..255 /\ 2 \in 0..255 /\ 4 \in 0..255
  OBVIOUS
<1>2. GoodMa(n)
  BY <1>1, DefaultFailGood DEF ReceiveNega
<1> HIDE DEF n
<1>3. /\ GoodMa(GoTo(n, 2)) /\ GoodMa(GoTo(n, 4)) /\ GoodMa(EnterP2P(n, "P2P_RECV"))
      /\ GoodMa(ReportAndReset(n))
  BY <1>1, <1>2, StepsGood, EnterP2PGood, ReportAndResetGood
<1> QED
  BY <1>2, <1>3, SendStepsGood DEF MATASK_Receive, n

LEMMA ConditionTaskGood ==
  ASSUME NEW m, GoodMa(m) PROVE GoodMa(MATASK_Condition(m))
<1> DEFINE n == IF Refused(m) THEN ConditionNega(m) ELSE m
           c == MA_ProcessCheckStatusResponse(n, n.answer)
<1>1. 250 \in 0..255 /\ 251 \in 0..255 /\ 252 \in 0..255 /\ 3 \in 0..255
  OBVIOUS
<1>2. GoodMa(n)
  BY <1>1, DefaultFailGood DEF ConditionNega
<1> HIDE DEF n
<1>3. GoodMa(c)
  BY <1>2, CheckStatusResponseGood
<1> HIDE DEF c
<1>4. GoodMa(GoTo(c, 3)) /\ GoodMa(TaskDone(c)) /\ GoodMa(TaskDone(MA_Reset(n)))
  BY <1>1, <1>2, <1>3, StepsGood, ResetGood
<1>5. GoodMa(ReportAndReset(n)) /\ GoodMa(TaskDone(MA_SetApiError(n, n.taskError)))
  BY <1>2, ReportGood, ReportAndResetGood
<1> QED
  BY <1>2, <1>4, <1>5, SendStepsGood DEF MATASK_Condition, n, c

LEMMA OfflineTaskGood == ASSUME NEW m, GoodMa(m) PROVE GoodMa(MATASK_Offline(m))
<1> DEFINE n == IF Refused(m) /\ m.negaResCmd = "DATA" THEN GoTo(m, 0) ELSE m
<1>1. GoodMa(n)
  <2>1. 0 \in 0..255
    OBVIOUS
  <2> QED
    BY <2>1, StepsGood
<1> HIDE DEF n
<1>2. GoodMa(NextStep(n)) /\ GoodMa(TaskDone(MA_Reset(n)))
  BY <1>1, StepsGood, ResetGood
<1>3. GoodMa(NextStep(IF n.connMode \in {"P2P_SEND", "P2P_RECV"} THEN n
                      ELSE MABIOS_PPPDisconnect(n)))
  BY <1>1, <1>2, SendStepsGood
<1> QED
  BY <1>1, <1>2, <1>3, SendStepsGood DEF MATASK_Offline, n

LEMMA EEPROMReadTaskGood ==
  ASSUME NEW m, GoodMa(m) PROVE GoodMa(MATASK_EEPROM_Read(m))
<1> DEFINE n == IF ~Refused(m) \/ m.negaResCmd = "END" THEN m
                ELSE IF m.negaResCmd \in {"CHANGE_CLOCK", "EEPROM_READ"}
                THEN DefaultFail(m, 250) ELSE DefaultFail(m, 251)
<1>1. GoodMa(n)
  <2>1. 250 \in 0..255 /\ 251 \in 0..255
    OBVIOUS
  <2> QED
    BY <2>1, DefaultFailGood
<1> HIDE DEF n
<1>2. GoodMa(TaskDone(MA_Reset(n))) /\ GoodMa(ReportAndReset(n))
  BY <1>1, StepsGood, ResetGood, ReportAndResetGood
<1> QED
  BY <1>1, <1>2, SendStepsGood DEF MATASK_EEPROM_Read, n

LEMMA StopTaskGood == ASSUME NEW m, GoodMa(m) PROVE GoodMa(MATASK_Stop(m))
<1> DEFINE r == MA_Reset(m)
<1>1. GoodMa(GoTo(MA_BiosStop(m), 2))
  <2>1. 2 \in 0..255
    OBVIOUS
  <2> QED
    BY <2>1, BiosStopGood, StepsGood
<1>2. GoodMa(r)
  BY ResetGood
<1> HIDE DEF r
<1>3. GoodMa([r EXCEPT !.recvCmd = None])
  BY <1>2, SMT DEF GoodMa, CallOver, BodyPending, MaType
<1>4. GoodMa(TaskDone([r EXCEPT !.recvCmd = None]))
  BY <1>3, StepsGood
<1> QED
  BY <1>1, <1>4 DEF MATASK_Stop, r

LEMMA P2PTaskGood == ASSUME NEW m, GoodMa(m) PROVE GoodMa(MATASK_P2P(m))
<1> DEFINE s == IF "PTP_SEND_DONE" \in m.status
                THEN [m EXCEPT !.status = @ \ {"PTP_SEND_DONE", "PTP_SEND"},
                               !.condition = @ \ {"APIWAIT"}]
                ELSE m
           c == IF s.answer = "whole" THEN s.condition \cup {"PTP_GET"} ELSE s.condition
<1>1. GoodMa(s)
  BY SMT DEF GoodMa, CallOver, BodyPending, MaType
<1> HIDE DEF s
<1>2. GoodMa(TaskDone(MA_SetApiError(MA_Reset(s), "OFFLINE")))
  BY <1>1, OfflineErrorGood
<1>3. c \in SUBSET ConditionFlags /\ (\A f \in {"ERROR", "APIWAIT"} :
        f \in c <=> f \in s.condition)
  BY <1>1 DEF GoodMa, MaType, ConditionFlags
<1> HIDE DEF c
<1>4. GoodMa([s EXCEPT !.bufSize = 0, !.condition = c])
  BY <1>1, <1>3, SMT DEF GoodMa, CallOver, BodyPending, MaType
<1> QED
  BY <1>1, <1>2, <1>4 DEF MATASK_P2P, s, c

LEMMA MainGood == ASSUME NEW m, GoodMa(m) PROVE GoodMa(MAAPI_Main(m))
<1>1. \A n : GoodMa(n) => GoodMa(RunTask(n))
  BY InitLibraryTaskGood, TelServerTaskGood, TelTaskGood, ReceiveTaskGood,
     ConditionTaskGood, OfflineTaskGood, EEPROMReadTaskGood, StopTaskGood
     DEF RunTask
<1> QED
  BY <1>1, P2PTaskGood DEF MAAPI_Main

----------------------------------------------------------------------------
(* The calls.                                                              *)

LEMMA RefuseGood == ASSUME NEW m, GoodMa(m) PROVE GoodMa(Refuse(m))
<1>1. "CANNOT_EXECUTE" \in Errors
  BY DEF Errors
<1> QED
  BY <1>1, SetErrorGood DEF Refuse, MA_SetApiError

\* A call is accepted only when the game has read the last error.
LEMMA PreExeGood ==
  ASSUME NEW m, GoodMa(m), "ERROR" \notin m.condition
  PROVE  GoodMa(MA_ApiPreExe(m)) /\ "ERROR" \notin MA_ApiPreExe(m).condition
<1>1. GoodMa(MA_ApiPreExe(m))
  BY SMT DEF GoodMa, CallOver, BodyPending, MaType, MA_ApiPreExe, ConditionFlags,
     Errors
<1>2. MA_ApiPreExe(m).condition = (m.condition \ {"TCPCLOSED"}) \cup {"APIWAIT"}
  BY SMT DEF GoodMa, MaType, MA_ApiPreExe, MaFields
<1> QED
  BY <1>1, <1>2

LEMMA IllegalGood ==
  ASSUME NEW m, GoodMa(m), "ERROR" \notin m.condition
  PROVE  GoodMa(MA_SetApiError(MA_ApiPreExe(m), "ILLEGAL_PARAMETER"))
<1>1. "ILLEGAL_PARAMETER" \in Errors
  BY DEF Errors
<1> QED
  BY <1>1, PreExeGood, SetErrorGood DEF MA_SetApiError

LEMMA StartTaskGood ==
  ASSUME NEW m, GoodMa(m), "ERROR" \notin m.condition, NEW task \in Tasks
  PROVE  GoodMa(StartTask(m, task))
<1> DEFINE e == MA_ApiPreExe(m)
           t == [e EXCEPT !.tm3 = FALSE]
<1>1. GoodMa(e) /\ "ERROR" \notin e.condition
  BY PreExeGood
<1> HIDE DEF e
<1>2. GoodMa(t)
  BY <1>1, SetTimerGood
<1>3. "ERROR" \notin t.condition
  BY <1>1, SMT DEF GoodMa, MaType, MaFields
<1> HIDE DEF t
<1>4. GoodMa(MA_TaskSet(t, task, 0))
  <2>1. 0 \in 0..255
    OBVIOUS
  <2> QED
    BY <1>2, <1>3, <2>1, TaskSetGood
<1> QED
  BY <1>4, MainGood DEF StartTask, e, t

LEMMA InitLibraryGood ==
  ASSUME NEW task \in Tasks PROVE GoodMa(MA_InitLibraryMain(task))
<1> DEFINE r == MA_Reset(Zero)
           a == [r EXCEPT !.apiMagic = TRUE]
           i == MABIOS_Init(a)
           t == MA_TaskSet(i, task, 0)
<1>1. GoodMa(r)
  BY ZeroGood, ResetGood
<1> HIDE DEF r
<1>2. GoodMa(a)
  BY <1>1, SMT DEF GoodMa, CallOver, BodyPending, MaType
<1>3. GoodMa(i)
  BY <1>2, InitGood
<1>4. i.condition = {}
  BY <1>2, SMT DEF MABIOS_Init, GoodMa, MaType, MaFields
<1> HIDE DEF a, i
<1>5. GoodMa(t)
  <2>1. 0 \in 0..255
    OBVIOUS
  <2> QED
    BY <1>3, <1>4, <2>1, TaskSetGood
<1>6. t.condition = {}
  BY <1>3, <1>4, SMT DEF MA_TaskSet, GoodMa, MaType, MaFields
<1> HIDE DEF t
<1>7. GoodMa([t EXCEPT !.condition = @ \cup {"APIWAIT"}])
  BY <1>5, <1>6, SMT DEF GoodMa, CallOver, BodyPending, MaType, ConditionFlags
<1> QED
  BY <1>7, MainGood DEF MA_InitLibraryMain, t, i, a, r

LEMMA OpenSessionGood ==
  ASSUME NEW m, GoodMa(m), NEW task \in Tasks, NEW legal
  PROVE  GoodMa(OpenSession(m, task, legal))
<1>1. CallAllowed(m, task) => "ERROR" \notin m.condition
  BY DEF CallAllowed
<1> QED
  BY <1>1, RefuseGood, IllegalGood, StartTaskGood DEF OpenSession

\* A task whose first step is left to the timer.
LEMMA SetTaskGood ==
  ASSUME NEW m, GoodMa(m), "ERROR" \notin m.condition, NEW task \in Tasks,
         NEW step \in 0..255
  PROVE  GoodMa(MA_TaskSet(MA_ApiPreExe(m), task, step))
  BY PreExeGood, TaskSetGood

LEMMA ConditionGood ==
  ASSUME NEW m, GoodMa(m), NEW task \in Tasks
  PROVE  GoodMa(MA_ConditionMain(m, task))
<1> DEFINE o == [m EXCEPT !.offline = TRUE]
           e == MA_ApiPreExe(m)
           n == [e EXCEPT !.offline = FALSE]
<1>1. CASE ~CallAllowed(m, task)
  BY <1>1, RefuseGood DEF MA_ConditionMain
<1>2. CASE CallAllowed(m, task)
  <2>1. "ERROR" \notin m.condition
    BY <1>2 DEF CallAllowed
  <2>2. GoodMa(o)
    BY SMT DEF GoodMa, CallOver, BodyPending, MaType
  <2>3. "ERROR" \notin o.condition
    BY <2>1, SMT DEF GoodMa, MaType, MaFields
  <2> HIDE DEF o
  <2>4. GoodMa(StartTask(o, task))
    BY <2>2, <2>3, StartTaskGood
  <2>5. GoodMa(e) /\ "ERROR" \notin e.condition
    BY <2>1, PreExeGood
  <2> HIDE DEF e
  <2>6. GoodMa(n)
    BY <2>5, SMT DEF GoodMa, CallOver, BodyPending, MaType
  <2>7. "ERROR" \notin n.condition
    BY <2>5, SMT DEF GoodMa, MaType, MaFields
  <2> HIDE DEF n
  <2>8. GoodMa(MA_TaskSet(n, task, 1))
    <3>1. 1 \in 0..255
      OBVIOUS
    <3> QED
      BY <2>6, <2>7, <3>1, TaskSetGood
  <2> QED
    BY <1>2, <2>4, <2>8 DEF MA_ConditionMain, o, n, e
<1> QED
  BY <1>1, <1>2

LEMMA OfflineGood == ASSUME NEW m, GoodMa(m) PROVE GoodMa(MA_Offline(m))
<1>1. CallAllowed(m, "OFFLINE") => "ERROR" \notin m.condition
  BY DEF CallAllowed
<1>2. "OFFLINE" \in Tasks /\ 0 \in 0..255 /\ 1 \in 0..255
  BY DEF Tasks
<1>3. CallAllowed(m, "OFFLINE") =>
        /\ GoodMa(MA_TaskSet(MA_ApiPreExe(m), "OFFLINE", 0))
        /\ GoodMa(MA_TaskSet(MA_ApiPreExe(m), "OFFLINE", 1))
  BY <1>1, <1>2, SetTaskGood
<1> QED
  BY <1>3, RefuseGood DEF MA_Offline

LEMMA SDataGood ==
  ASSUME NEW m, GoodMa(m), NEW legal PROVE GoodMa(MA_SData(m, legal))
<1> DEFINE e == MA_ApiPreExe(m)
<1>1. CASE ~CallAllowed(m, "SDATA")
  BY <1>1, RefuseGood DEF MA_SData
<1>2. CASE CallAllowed(m, "SDATA")
  <2>1. "ERROR" \notin m.condition
    BY <1>2 DEF CallAllowed
  <2>2. GoodMa(MA_SetApiError(e, "ILLEGAL_PARAMETER"))
    BY <2>1, IllegalGood
  <2>3. GoodMa(e)
    BY <2>1, PreExeGood
  <2> HIDE DEF e
  <2>4. GoodMa([e EXCEPT !.condition = @ \ {"APIWAIT"}])
    BY <2>3, SMT DEF GoodMa, CallOver, BodyPending, MaType
  <2>5. GoodMa([e EXCEPT !.status = @ \cup {"PTP_SEND"}])
    BY <2>3, SMT DEF GoodMa, CallOver, BodyPending, MaType, StatusFlags
  <2> QED
    BY <1>2, <2>2, <2>4, <2>5 DEF MA_SData, e
<1> QED
  BY <1>1, <1>2

LEMMA GDataGood ==
  ASSUME NEW m, GoodMa(m), NEW more PROVE GoodMa(MA_GData(m, more))
<1> DEFINE e == MA_ApiPreExe(m)
           taken == IF more THEN {"APIWAIT"} ELSE {"APIWAIT", "PTP_GET"}
<1>1. CASE ~CallAllowed(m, "GDATA")
  BY <1>1, RefuseGood DEF MA_GData
<1>2. CASE CallAllowed(m, "GDATA")
  <2>1. "ERROR" \notin m.condition
    BY <1>2 DEF CallAllowed
  <2>2. GoodMa(e) /\ GoodMa(Refuse(e))
    BY <2>1, PreExeGood, RefuseGood
  <2> HIDE DEF e, taken
  <2>3. GoodMa([e EXCEPT !.condition = @ \ taken])
    BY <2>2, SMT DEF GoodMa, CallOver, BodyPending, MaType
  <2> QED
    BY <1>2, <2>2, <2>3 DEF MA_GData, e, taken
<1> QED
  BY <1>1, <1>2

LEMMA StopGood == ASSUME NEW m, GoodMa(m) PROVE GoodMa(MA_Stop(m))
<1> DEFINE w == [m EXCEPT !.condition = (@ \ {"BUFFER_FULL"}) \cup {"APIWAIT"}]
<1>1. CASE "ERROR" \in m.condition
  BY <1>1, RefuseGood DEF MA_Stop
<1>2. CASE "ERROR" \notin m.condition
  <2>1. GoodMa(w)
    BY <1>2, SMT DEF GoodMa, CallOver, BodyPending, MaType, ConditionFlags
  <2>2. "ERROR" \notin w.condition
    BY <1>2, SMT DEF GoodMa, MaType, MaFields
  <2> HIDE DEF w
  <2>3. GoodMa(MA_TaskSet(w, "STOP", 0)) /\ GoodMa(MA_TaskSet(w, "STOP", 1))
    <3>1. "STOP" \in Tasks /\ 0 \in 0..255 /\ 1 \in 0..255
      BY DEF Tasks
    <3> QED
      BY <2>1, <2>2, <3>1, TaskSetGood
  <2>4. GoodMa(MA_CancelRequest(MA_TaskSet(w, "STOP", 0)))
    BY <2>3, CancelRequestGood
  <2> QED
    BY <2>3, <2>4, RefuseGood DEF MA_Stop, w
<1> QED
  BY <1>1, <1>2

LEMMA EndGood == ASSUME NEW m, GoodMa(m) PROVE GoodMa(MA_End(m))
  BY ZeroGood, RefuseGood DEF MA_End

LEMMA ErrorCheckGood == ASSUME NEW m, GoodMa(m) PROVE GoodMa(MAAPI_ErrorCheck(m))
<1> DEFINE error == IF m.error \in {"PROT_ILLEGAL_CMD", "PROT_CHECKSUM",
                                    "PROT_INTERNAL"} THEN "SYSTEM" ELSE m.error
           e == [m EXCEPT !.error = error, !.condition = @ \ {"ERROR"}]
<1>1. error \in Errors
  BY DEF GoodMa, MaType, Errors
<1> HIDE DEF error
<1>2. GoodMa(e)
  BY <1>1, SMT DEF GoodMa, CallOver, BodyPending, MaType
<1> HIDE DEF e
<1>3. GoodMa([e EXCEPT !.sendCmd = None, !.recvCmd = None])
  BY <1>2, SMT DEF GoodMa, CallOver, BodyPending, MaType
<1> QED
  BY <1>2, <1>3 DEF MAAPI_ErrorCheck, e, error

----------------------------------------------------------------------------
(* What the parts the tasks share change.                                  *)

\* n is m at another step of its task.
OtherStep(m, n) ==
  /\ n.condition = m.condition /\ n.status = m.status /\ n.intrMode = m.intrMode
  /\ n.retryCount = m.retryCount /\ SameLine(m, n)
  /\ n.connMode = m.connMode /\ n.task = m.task /\ n.offline = m.offline

LEMMA NextStepEffect ==
  ASSUME NEW m, GoodMa(m), NEW n, n = NextStep(m)
  PROVE  OtherStep(m, n) /\ n.taskStep = (m.taskStep + 1) % 256
<1> DEFINE next == (m.taskStep + 1) % 256
<1>1. n = [m EXCEPT !.taskStep = next]
  BY DEF NextStep
<1> HIDE DEF next
<1>2. OtherStep(m, n) /\ n.taskStep = next
  BY <1>1, SMT DEF GoodMa, MaType, MaFields, OtherStep, SameLine
<1> QED
  BY <1>2 DEF next

LEMMA GoToEffect ==
  ASSUME NEW m, GoodMa(m), NEW step, NEW n, n = GoTo(m, step)
  PROVE  OtherStep(m, n) /\ n.taskStep = step
  BY SMT DEF GoodMa, MaType, MaFields, OtherStep, SameLine, GoTo

LEMMA FailEffect ==
  ASSUME NEW m, GoodMa(m), NEW error, NEW step, NEW n, n = Fail(m, error, step)
  PROVE  OtherStep(m, n) /\ n.taskStep = step
  BY SMT DEF GoodMa, MaType, MaFields, OtherStep, SameLine, Fail

LEMMA DefaultFailEffect ==
  ASSUME NEW m, GoodMa(m), NEW step, NEW n, n = DefaultFail(m, step)
  PROVE  OtherStep(m, n) /\ n.taskStep = step
<1> DEFINE d == MA_DefaultNegaResProc(m)
<1>1. GoodMa(d)
  BY DefaultNegaGood
<1>2. PICK e : d = [m EXCEPT !.taskError = e]
  BY DEF MA_DefaultNegaResProc
<1>3. n = GoTo(d, step)
  BY DEF DefaultFail
<1> HIDE DEF d
<1>4. OtherStep(m, d)
  BY <1>2, SMT DEF GoodMa, MaType, MaFields, OtherStep, SameLine
<1>5. OtherStep(d, n) /\ n.taskStep = step
  BY <1>1, <1>3, GoToEffect
<1> QED
  BY <1>4, <1>5 DEF OtherStep, SameLine

LEMMA TaskDoneEffect ==
  ASSUME NEW m, GoodMa(m), NEW n, n = TaskDone(m)
  PROVE  /\ n.task = "NONE" /\ n.connMode = m.connMode
         /\ n.condition = m.condition \ {"APIWAIT"} /\ n.status = m.status
         /\ n.intrMode = m.intrMode /\ n.retryCount = m.retryCount /\ SameLine(m, n)
  BY SMT DEF GoodMa, MaType, MaFields, TaskDone, MA_TaskSet, SameLine

LEMMA DoneAfterReset ==
  ASSUME NEW m, GoodMa(m), NEW n, n = TaskDone(MA_Reset(m))
  PROVE  /\ n.task = "NONE" /\ n.connMode = "OFFLINE" /\ n.intrMode = "IDLE"
         /\ n.condition = m.condition \ {"PTP_GET", "CONNECT", "APIWAIT"}
         /\ n.status = m.status \ {"CONNECTED", "CONN_PTP", "PTP_SEND_DONE",
                                   "PTP_SEND", "CONNTEST"}
         /\ n.retryCount = m.retryCount /\ n.negaResCmd = m.negaResCmd
<1> DEFINE r == MA_Reset(m)
<1>1. GoodMa(r)
  BY ResetGood
<1>2. /\ r.connMode = "OFFLINE" /\ r.intrMode = "IDLE" /\ r.retryCount = m.retryCount
      /\ r.negaResCmd = m.negaResCmd
      /\ r.condition = m.condition \ {"PTP_GET", "CONNECT"}
      /\ r.status = m.status \ {"CONNECTED", "CONN_PTP", "PTP_SEND_DONE",
                                   "PTP_SEND", "CONNTEST"}
  BY ResetEffect
<1> HIDE DEF r
<1>3. /\ n.task = "NONE" /\ n.connMode = r.connMode
      /\ n.condition = r.condition \ {"APIWAIT"} /\ n.status = r.status
      /\ n.intrMode = r.intrMode /\ n.retryCount = r.retryCount
      /\ n.negaResCmd = r.negaResCmd
  BY <1>1, TaskDoneEffect DEF r, SameLine
<1> QED
  BY <1>2, <1>3

\* An error is reported and the task is over.
LEMMA ReportFails ==
  ASSUME NEW m, GoodMa(m), NEW error \in Errors,
         NEW n, n = TaskDone(MA_SetApiError(m, error))
  PROVE  Fails(m, n)
<1> DEFINE e == MA_SetError(m, error)
<1>1. GoodMa(e) /\ Fails(m, e)
  BY SetErrorGood, SetErrorFails
<1>2. n = TaskDone(e)
  BY DEF MA_SetApiError
<1> HIDE DEF e
<1>3. /\ n.task = "NONE" /\ n.connMode = e.connMode
      /\ n.condition = e.condition \ {"APIWAIT"} /\ n.status = e.status
      /\ n.intrMode = e.intrMode /\ n.retryCount = e.retryCount /\ n.sendCmd = e.sendCmd
      /\ n.negaResCmd = e.negaResCmd
  BY <1>1, <1>2, TaskDoneEffect DEF SameLine
<1> QED
  BY <1>1, <1>3 DEF Fails

LEMMA ResetReportFails ==
  ASSUME NEW m, GoodMa(m), NEW error \in Errors,
         NEW n, n = TaskDone(MA_SetApiError(MA_Reset(m), error))
  PROVE  Fails(m, n) /\ "CONNECTED" \notin n.status
<1> DEFINE r == MA_Reset(m)
<1>1. GoodMa(r)
  BY ResetGood
<1>2. /\ r.connMode = "OFFLINE" /\ r.retryCount = m.retryCount /\ r.sendCmd = m.sendCmd
      /\ r.negaResCmd = m.negaResCmd
      /\ r.status = m.status \ {"CONNECTED", "CONN_PTP", "PTP_SEND_DONE",
                                "PTP_SEND", "CONNTEST"}
  BY ResetEffect
<1> HIDE DEF r
<1>3. Fails(r, n)
  BY <1>1, ReportFails DEF r
<1> QED
  BY <1>2, <1>3 DEF Fails, PeerFlags

LEMMA ApiPreExeEffect ==
  ASSUME NEW m, GoodMa(m), NEW n, n = MA_ApiPreExe(m)
  PROVE  /\ n.condition = (m.condition \ {"TCPCLOSED"}) \cup {"APIWAIT"}
         /\ n.status = m.status /\ n.intrMode = m.intrMode
         /\ n.retryCount = m.retryCount /\ SameLine(m, n) /\ SameCall(m, n)
  BY SMT DEF GoodMa, MaType, MaFields, MA_ApiPreExe, SameLine, SameCall

=============================================================================
