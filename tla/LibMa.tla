-------------------------------- MODULE LibMa --------------------------------
(***************************************************************************)
(* The whole of libma between a game and an adapter.  The game calls the   *)
(* api; the console raises timer 3 and serial interrupts; the adapter      *)
(* answers each transfer.  A call and a timer handler are one step: a call *)
(* masks both interrupts, and the handlers do not nest.  A serial handler  *)
(* is one step in BYTE mode and one step for each of the four bytes in     *)
(* WORD mode; nothing else runs between those, the steps only let each     *)
(* byte be chosen on its own.                                              *)
(***************************************************************************)
EXTENDS MaApi

CONSTANTS
  Calls,        \* the functions the game uses, by the name of their task
  Misuse,       \* may the game make calls that are refused?
  Footers,      \* footers the adapter may answer a request with
  Refusable,    \* commands it may answer with ERROR
  NegaReasons,  \* reasons it gives
  Noise,        \* what may go wrong in a reply
  LineAnswers,  \* line states it may report
  EEPROMAnswers,\* contents its EEPROM may have
  PeerData,     \* what a DATA reply may carry
  RemoteEnds    \* may it announce the end of a connection (DATA_END)?

ASSUME LibMaAssumption ==
  /\ Calls \subseteq (Tasks \cup {"SDATA", "GDATA", "END"})
  /\ Misuse \in BOOLEAN /\ RemoteEnds \in BOOLEAN
  /\ Footers \subseteq FooterKinds /\ "ok" \in Footers
  /\ Refusable \subseteq Commands /\ NegaReasons \subseteq NegaErrs
  /\ Noise \subseteq {"idle", "silence", "rubbish", "badmagic", "badsum"}
  /\ LineAnswers \subseteq {"lost", "hungup", "busy"}
  /\ EEPROMAnswers \subseteq {"good", "unregistered", "badsum"}
  /\ PeerData \subseteq {None, "part", "whole"}

VARIABLES
  gMA,   \* the library's state
  rx     \* the next byte of a WORD transfer being interpreted, 0 for none

vars == <<gMA, rx>>

Init == gMA = Zero /\ rx = 0

----------------------------------------------------------------------------
(* The game.  It calls a function when the last one is over and the        *)
(* library would not refuse it; with Misuse, whenever it likes.            *)

Settled == "APIWAIT" \notin gMA.condition

MayCall(task) ==
  /\ task \in Calls /\ rx = 0
  /\ Misuse \/ (Settled /\ CallAllowed(gMA, task))

Legal == IF Misuse THEN BOOLEAN ELSE {TRUE}

Returns(m) == gMA' = m /\ UNCHANGED rx

InitLibrary(task) ==
  /\ task \in Calls \cap {"INITLIBRARY", "INITLIBRARY2"} /\ rx = 0
  /\ Misuse \/ (Settled /\ gMA.connMode = "OFFLINE")
  /\ Returns(MA_InitLibraryMain(task))

End ==
  /\ "END" \in Calls /\ rx = 0
  /\ Misuse \/ (Settled /\ gMA.apiMagic /\ gMA.connMode = "OFFLINE")
  /\ Returns(MA_End(gMA))

TelServer == MayCall("TELSERVER")
             /\ \E legal \in Legal : Returns(MA_TelServer(gMA, legal))
Tel       == MayCall("TEL") /\ \E legal \in Legal : Returns(MA_Tel(gMA, legal))
Receive   == MayCall("RECEIVE") /\ Returns(MA_Receive(gMA))
EEPROMRead == MayCall("EEPROM_READ") /\ Returns(MA_EEPROMRead(gMA))
Offline   == MayCall("OFFLINE") /\ Returns(MA_Offline(gMA))
SData     == MayCall("SDATA") /\ \E legal \in Legal : Returns(MA_SData(gMA, legal))
GData     == /\ MayCall("GDATA")
             /\ Misuse \/ "PTP_GET" \in gMA.condition
             /\ \E more \in BOOLEAN : Returns(MA_GData(gMA, more))

Condition(task) ==
  /\ task \in {"CONDITION", "CONDITION2"} /\ MayCall(task)
  /\ Returns(MA_ConditionMain(gMA, task))

\* MA_Stop is the one call made for a request that is still pending.
Stop ==
  /\ "STOP" \in Calls /\ rx = 0
  /\ Misuse \/ (gMA.apiMagic /\ "ERROR" \notin gMA.condition)
  /\ Returns(MA_Stop(gMA))

ErrorCheck == rx = 0 /\ "ERROR" \in gMA.condition /\ Returns(MAAPI_ErrorCheck(gMA))

Game ==
  \/ \E task \in {"INITLIBRARY", "INITLIBRARY2"} : InitLibrary(task)
  \/ \E task \in {"CONDITION", "CONDITION2"} : Condition(task)
  \/ End \/ TelServer \/ Tel \/ Receive \/ EEPROMRead \/ Offline
  \/ SData \/ GData \/ Stop \/ ErrorCheck

----------------------------------------------------------------------------
(* MA_IntrTimer.  The handler does nothing while it is disabled or a       *)
(* transfer is in flight; otherwise it runs the api first, and leaves the  *)
(* bios alone when that changed the interrupt mode.                        *)

TimerDue ==
  gMA.tm3 /\ "TIMER_ENABLED" \in gMA.status /\ ~gMA.sio /\ rx = 0

AfterApi == MAAPI_Main(gMA)
BiosTurn == TimerDue /\ AfterApi.intrMode = gMA.intrMode
PacketReady == "SIO_RECV_DONE" \in AfterApi.status

Restarted(m) == gMA' = [m EXCEPT !.tm3 = TRUE] /\ UNCHANGED rx

TimerTask ==
  TimerDue /\ AfterApi.intrMode # gMA.intrMode /\ Restarted(AfterApi)

TimerPacket ==
  BiosTurn /\ PacketReady /\ Restarted(MA_ProcessRecvPacket(AfterApi))

TimerIdle ==
  /\ BiosTurn /\ ~PacketReady /\ gMA.intrMode = "IDLE"
  /\ Restarted(MA_IntrTimer_SIOIdle(AfterApi))

TimerWait ==
  /\ BiosTurn /\ ~PacketReady /\ gMA.intrMode = "WAIT"
  /\ Restarted(MA_IntrTimer_SIOWaitTime(AfterApi))

TimerSend ==
  /\ BiosTurn /\ ~PacketReady /\ gMA.intrMode = "SEND"
  /\ Restarted(MA_IntrTimer_SIOSend(AfterApi))

TimerRecv ==
  /\ BiosTurn /\ ~PacketReady /\ gMA.intrMode = "RECV"
  /\ Restarted(MA_IntrTimer_SIORecv(AfterApi))

Timer ==
  TimerTask \/ TimerPacket \/ TimerIdle \/ TimerWait \/ TimerSend \/ TimerRecv

----------------------------------------------------------------------------
(* MA_IntrSerialIO, and what the adapter can have put on the line.         *)

\* Mistake: the timer stays disabled after a transfer.
HandlerEndsUnarmed(m) == [m EXCEPT !.sio = FALSE]

HandlerEnds(m) == [m EXCEPT !.sio = FALSE, !.status = @ \cup {"TIMER_ENABLED"}]

SioSend ==
  /\ gMA.sio /\ gMA.intrMode = "SEND"
  /\ \E footer \in (IF FooterDue(gMA) THEN Footers ELSE {"ok"}) :
       gMA' = HandlerEnds(MA_IntrSio_Send(gMA, footer))
  /\ UNCHANGED rx

\* A transfer that ends after its request was given up.
SioIgnored ==
  /\ gMA.sio /\ gMA.intrMode \in {"IDLE", "WAIT"}
  /\ gMA' = HandlerEnds(gMA) /\ UNCHANGED rx

RepliesTo(cmd) ==
  {cmd} \cup (IF cmd \in Refusable THEN {"ERROR"} ELSE {})
        \cup (IF cmd = "DATA" /\ RemoteEnds THEN {"DATA_END"} ELSE {})

AnswersOf(reply) ==
  CASE reply = "CHECK_STATUS" -> LineAnswers
    [] reply = "EEPROM_READ"  -> EEPROMAnswers
    [] reply = "DATA"         -> PeerData
    [] reply = "ERROR"        -> NegaReasons
    [] OTHER -> {None}

\* What the next byte can mean to the code.  An adapter that idles may answer
\* in the end; one that is silent lets the request time out.
Received(m, byte) ==
  CASE m.recvState = "START" /\ m.readCnt = 0 /\ byte = 0 ->
         (IF "silence" \in Noise /\ m.counter # 0 THEN {"idle"}
          ELSE IF "silence" \in Noise THEN {"magic", "idle"} ELSE {"magic"})
           \cup (Noise \cap {"idle", "rubbish"})
    [] m.recvState = "START" /\ m.readCnt # 0 ->
         {"magic"} \cup (Noise \cap {"badmagic"})
    [] m.recvState = "HEADER" /\ m.readCnt = 0 -> RepliesTo(m.sendCmd)
    [] m.recvState = "HEADER" /\ m.readCnt = 3 -> AnswersOf(m.recvCmd)
    [] m.recvState = "CHECKSUM" /\ m.readCnt = 1 ->
         {"good"} \cup (IF "badsum" \in Noise THEN {"bad"} ELSE {})
    [] OTHER -> {None}

\* The loop over a WORD transfer stops at an error.
ReceiveByte(byte, size) ==
  \E what \in Received(gMA, byte) :
    LET m == MA_IntrSio_Recv(gMA, byte, what)
    IN IF byte + 1 = size \/ (size = 4 /\ "ERROR" \in m.condition)
       THEN gMA' = HandlerEnds(m) /\ rx' = 0
       ELSE gMA' = [m EXCEPT !.sio = FALSE] /\ rx' = byte + 1

SioRecvByte ==
  /\ gMA.sio /\ gMA.intrMode = "RECV" /\ gMA.sioMode = "BYTE"
  /\ ReceiveByte(0, 1)

SioRecvWord ==
  /\ gMA.sio /\ gMA.intrMode = "RECV" /\ gMA.sioMode = "WORD"
  /\ IF "ERROR" \in gMA.condition
     THEN gMA' = HandlerEnds(gMA) /\ UNCHANGED rx
     ELSE ReceiveByte(0, 4)

SioRecvRest == rx # 0 /\ ReceiveByte(rx, 4)

Serial == SioSend \/ SioIgnored \/ SioRecvByte \/ SioRecvWord \/ SioRecvRest

----------------------------------------------------------------------------

Next == Game \/ Timer \/ Serial

Spec == Init /\ [][Next]_vars

\* The hardware goes on: a running timer expires, a transfer ends.  Nothing is
\* assumed of the game, nor of what the adapter answers.
FairSpec == Spec /\ WF_vars(Timer) /\ WF_vars(Serial)

=============================================================================
