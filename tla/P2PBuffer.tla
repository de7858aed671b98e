------------------------------- MODULE P2PBuffer ------------------------------
(***************************************************************************)
(* The buffer of a peer-to-peer session (gMA.prevBuf).  The timer polls    *)
(* the peer with DATA commands, each reply is appended to the buffer, and  *)
(* the game takes whole messages from its front.  A message is a length    *)
(* byte and that many bytes; the peer may send anything, so the length     *)
(* found at the front of what is left is arbitrary, and the code corrects  *)
(* one that is 0 or too large.                                             *)
(*                                                                         *)
(* Polling stops while a whole message waits (PTP_GET), but a message the  *)
(* game has given to MA_SData is sent all the same, and what its exchange  *)
(* brings is appended too: the buffer must hold both.  Any interleaving of *)
(* calls is allowed, those included that are refused with an error.  One   *)
(* session is modelled, from InitPrevBuf to its end.                       *)
(***************************************************************************)
EXTENDS Integers

CONSTANTS
  MaxP2P,    \* MAX_P2P_DATA_SIZE, 128: length of a message
  MaxRecv,   \* 254: what one reply can add
  Capacity   \* 637: sizeof(gMA.prevBuf)

ASSUME P2PAssumption ==
  /\ MaxP2P \in Nat \ {0} /\ MaxRecv \in Nat \ {0} /\ Capacity \in Nat
  /\ Capacity >= MaxP2P + 2 * MaxRecv

VARIABLES
  prevBufSize,
  prevBuf0,    \* the first byte of prevBuf: the length of the message there
  condition,   \* MA_CONDITION_PTP_GET and MA_CONDITION_ERROR
  status,      \* STATUS_PTP_SEND and STATUS_PTP_SEND_DONE
  exchange,    \* the DATA command: "none", "busy", or "done" when answered
  recvSize     \* bytes of peer data in recvBuf

vars == <<prevBufSize, prevBuf0, condition, status, exchange, recvSize>>

Lengths == 1..MaxP2P

Init ==
  /\ prevBufSize = 0 /\ prevBuf0 = 0
  /\ condition = {} /\ status = {}
  /\ exchange = "none" /\ recvSize = 0

\* Mistake: the game may send while a message waits.
SDataAlways ==
  /\ "ERROR" \notin condition /\ status' = status \cup {"PTP_SEND"}
  /\ UNCHANGED <<prevBufSize, prevBuf0, condition, exchange, recvSize>>

\* Refused while an error is unread; with a whole message waiting the call
\* only says so.
MA_SData ==
  /\ {"ERROR", "PTP_GET"} \cap condition = {}
  /\ status' = status \cup {"PTP_SEND"}
  /\ UNCHANGED <<prevBufSize, prevBuf0, condition, exchange, recvSize>>

\* Mistake: a message is taken before it is announced.
GDataAlways ==
  /\ "ERROR" \notin condition /\ prevBufSize' = prevBufSize - (prevBuf0 + 1)
  /\ UNCHANGED <<prevBuf0, condition, status, exchange, recvSize>>

\* The message is copied out and the rest moved to the front.
MA_GData ==
  /\ "ERROR" \notin condition /\ "PTP_GET" \in condition
  /\ prevBufSize' = prevBufSize - (prevBuf0 + 1)
  /\ IF prevBufSize' = 0 THEN UNCHANGED prevBuf0 ELSE prevBuf0' \in Lengths
  /\ condition' = IF prevBufSize' # 0 /\ prevBufSize' >= prevBuf0' + 1
                  THEN condition ELSE condition \ {"PTP_GET"}
  /\ UNCHANGED <<status, exchange, recvSize>>

\* A call that is refused sets an error, and with it MA_SetError makes the
\* bios idle: the exchange is forgotten with the data it brought.
Refused ==
  /\ condition' = condition \cup {"ERROR"} /\ exchange' = "none"
  /\ UNCHANGED <<prevBufSize, prevBuf0, status, recvSize>>

MAAPI_ErrorCheck ==
  /\ "ERROR" \in condition /\ condition' = condition \ {"ERROR"}
  /\ UNCHANGED <<prevBufSize, prevBuf0, status, exchange, recvSize>>

\* MA_PreSend refuses the command while an error is unread, but PTP_SEND_DONE
\* is set anyway.
MA_IntrTimer_SIOIdle ==
  /\ exchange = "none" /\ ("PTP_GET" \notin condition \/ "PTP_SEND" \in status)
  /\ recvSize' = 0
  /\ status' = IF "PTP_SEND" \in status THEN status \cup {"PTP_SEND_DONE"}
                                        ELSE status
  /\ exchange' = IF "ERROR" \in condition THEN "none" ELSE "busy"
  /\ UNCHANGED <<prevBufSize, prevBuf0, condition>>

MA_ProcessRecvPacket ==
  /\ exchange = "busy" /\ exchange' = "done"
  /\ recvSize' \in 0..MaxRecv
  /\ UNCHANGED <<prevBufSize, prevBuf0, condition, status>>

\* Mistake: the length byte is not counted.
ConcatOneShort ==
  /\ prevBufSize' = prevBufSize + recvSize
  /\ IF prevBufSize # 0 THEN UNCHANGED prevBuf0 ELSE prevBuf0' \in Lengths
  /\ condition' = IF prevBufSize' >= prevBuf0' THEN condition \cup {"PTP_GET"}
                                               ELSE condition
  /\ recvSize' = 0

ConcatPrevBuf ==
  /\ prevBufSize' = prevBufSize + recvSize
  /\ IF prevBufSize # 0 THEN UNCHANGED prevBuf0 ELSE prevBuf0' \in Lengths
  /\ condition' = IF prevBufSize' >= prevBuf0' + 1
                  THEN condition \cup {"PTP_GET"} ELSE condition
  /\ recvSize' = 0

\* Mistake: the sending is not ended by the answer, so that it is done again.
SentBeforeAnswered ==
  /\ "ERROR" \notin condition /\ exchange = "done" /\ exchange' = "none"
  /\ status' = status \ {"PTP_SEND_DONE"}
  /\ IF recvSize = 0 THEN UNCHANGED <<prevBufSize, prevBuf0, condition, recvSize>>
                     ELSE ConcatPrevBuf

MATASK_P2P ==
  /\ "ERROR" \notin condition /\ exchange = "done" /\ exchange' = "none"
  /\ status' = IF "PTP_SEND_DONE" \in status THEN {} ELSE status
  /\ IF recvSize = 0 THEN UNCHANGED <<prevBufSize, prevBuf0, condition, recvSize>>
                     ELSE ConcatPrevBuf

Next ==
  \/ MA_SData \/ MA_GData \/ Refused \/ MAAPI_ErrorCheck
  \/ MA_IntrTimer_SIOIdle \/ MA_ProcessRecvPacket \/ MATASK_P2P

Spec == Init /\ [][Next]_vars

----------------------------------------------------------------------------

TypeOK ==
  /\ prevBufSize \in Nat /\ prevBuf0 \in 0..MaxP2P
  /\ condition \subseteq {"PTP_GET", "ERROR"}
  /\ status \subseteq {"PTP_SEND", "PTP_SEND_DONE"}
  /\ exchange \in {"none", "busy", "done"} /\ recvSize \in 0..MaxRecv

\* The peer's data never runs past the end of prevBuf, whatever it sends and
\* whenever the game sends (ConcatPrevBuf, ma_api.c:289, does not check).
NoOverrun == prevBufSize <= Capacity

\* A message that is announced is there in full: MA_GData (ma_api.c:1285)
\* takes no byte that has not arrived and prevBufSize does not wrap around.
WholeMessage == "PTP_GET" \in condition => prevBufSize >= prevBuf0 + 1

\* What the exchange in flight and the message still to be sent may add.
Owed ==
  (IF exchange = "none" THEN 0 ELSE MaxRecv)
    + (IF "PTP_SEND" \in status
          /\ (exchange = "none" \/ "PTP_SEND_DONE" \notin status)
       THEN MaxRecv ELSE 0)

\* Why the capacity is enough.  Without a whole message the buffer holds at
\* most MaxP2P bytes; with what is still to come, never more than that and two
\* replies.
Room ==
  /\ "PTP_GET" \notin condition => prevBufSize <= MaxP2P
  /\ prevBufSize + Owed <= MaxP2P + 2 * MaxRecv

=============================================================================
