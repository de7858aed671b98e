------------------------------ MODULE P2PProofs ------------------------------
(***************************************************************************)
(* The peer-to-peer buffer is large enough, whatever its parameters.       *)
(***************************************************************************)
EXTENDS P2PBuffer, TLAPS

IInv == TypeOK /\ WholeMessage /\ Room

LEMMA P2PInit == Init => IInv
  BY P2PAssumption DEF Init, IInv, TypeOK, WholeMessage, Room, Owed

LEMMA P2PStep == IInv /\ [Next]_vars => IInv'
<1> SUFFICES ASSUME IInv, [Next]_vars PROVE IInv'
  OBVIOUS
<1> USE P2PAssumption DEF IInv, TypeOK, WholeMessage, Room, Owed, Lengths
<1>1. CASE MA_SData
  BY <1>1 DEF MA_SData
<1>2. CASE MA_GData
  BY <1>2 DEF MA_GData
<1>3. CASE Refused
  BY <1>3 DEF Refused
<1>4. CASE MAAPI_ErrorCheck
  BY <1>4 DEF MAAPI_ErrorCheck
<1>5. CASE MA_IntrTimer_SIOIdle
  BY <1>5 DEF MA_IntrTimer_SIOIdle
<1>6. CASE MA_ProcessRecvPacket
  BY <1>6 DEF MA_ProcessRecvPacket
<1>7. CASE MATASK_P2P
  <2>1. "ERROR" \notin condition /\ exchange = "done" /\ exchange' = "none"
    BY <1>7 DEF MATASK_P2P
  <2>2. status' = IF "PTP_SEND_DONE" \in status THEN {} ELSE status
    BY <1>7 DEF MATASK_P2P
  <2>3. status' \subseteq {"PTP_SEND", "PTP_SEND_DONE"}
    BY <2>2
  <2>4. PICK left \in {0, MaxRecv} :
          left = MaxRecv <=> "PTP_SEND" \in status /\ "PTP_SEND_DONE" \notin status
    OBVIOUS
  <2>5. prevBufSize + MaxRecv + left <= MaxP2P + 2 * MaxRecv
    BY <2>1, <2>4
  <2>6. Owed' = left
    BY <2>1, <2>2, <2>4
  <2> HIDE DEF Owed
  <2>7. CASE recvSize = 0
    <3>1. UNCHANGED <<prevBufSize, prevBuf0, condition, recvSize>>
      BY <1>7, <2>7 DEF MATASK_P2P
    <3>2. prevBufSize + left <= MaxP2P + 2 * MaxRecv
      BY <2>4, <2>5
    <3>3. prevBufSize' + Owed' <= MaxP2P + 2 * MaxRecv
      BY <2>6, <3>1, <3>2
    <3> QED
      BY <2>1, <2>3, <3>1, <3>3
  <2>8. CASE recvSize # 0
    <3>1. ConcatPrevBuf
      BY <1>7, <2>8 DEF MATASK_P2P
    <3>2. PICK n \in Nat, b \in 0..MaxP2P :
            /\ n = prevBufSize' /\ b = prevBuf0'
            /\ n = prevBufSize + recvSize /\ (prevBufSize = 0 \/ b = prevBuf0)
      BY <3>1 DEF ConcatPrevBuf
    <3>3. condition' = IF n >= b + 1 THEN condition \cup {"PTP_GET"} ELSE condition
      BY <3>1, <3>2 DEF ConcatPrevBuf
    <3>4. n + left <= MaxP2P + 2 * MaxRecv
      BY <2>4, <2>5, <3>2
    <3>5. prevBufSize' + Owed' <= MaxP2P + 2 * MaxRecv
      BY <2>6, <3>2, <3>4
    <3>6. /\ condition' \subseteq {"PTP_GET", "ERROR"}
          /\ "PTP_GET" \in condition' => n >= b + 1
          /\ "PTP_GET" \notin condition' => n <= MaxP2P
      <4>1. CASE n >= b + 1
        BY <3>3, <4>1
      <4>2. CASE n < b + 1
        <5>1. condition' = condition
          BY <3>3, <4>2
        <5>2. ASSUME "PTP_GET" \in condition PROVE FALSE
          <6>1. prevBufSize >= prevBuf0 + 1 /\ prevBufSize \in Nat /\ prevBuf0 \in Nat
            BY <5>2
          <6>2. b = prevBuf0
            BY <3>2, <6>1
          <6>3. n \in Nat /\ n = prevBufSize + recvSize /\ recvSize \in Nat
            BY <3>2
          <6> QED
            BY <4>2, <6>1, <6>2, <6>3
        <5> QED
          BY <4>2, <5>1, <5>2
      <4> QED
        BY <4>1, <4>2
    <3>7. /\ "PTP_GET" \in condition' => prevBufSize' >= prevBuf0' + 1
          /\ "PTP_GET" \notin condition' => prevBufSize' <= MaxP2P
      BY <3>2, <3>6
    <3>8. prevBufSize' \in Nat /\ prevBuf0' \in 0..MaxP2P /\ recvSize' \in 0..MaxRecv
      BY <3>1, <3>2 DEF ConcatPrevBuf
    <3> QED
      BY <2>1, <2>3, <3>5, <3>6, <3>7, <3>8
  <2> QED
    BY <2>7, <2>8
<1>8. CASE UNCHANGED vars
  BY <1>8 DEF vars
<1> QED
  BY <1>1, <1>2, <1>3, <1>4, <1>5, <1>6, <1>7, <1>8 DEF Next

\* The buffer is never overrun, for every message length, reply size and
\* capacity that P2PAssumption allows, those of the code included.
THEOREM P2PNoOverrun == Spec => []NoOverrun
<1>1. IInv => NoOverrun
  BY P2PAssumption DEF IInv, TypeOK, Room, Owed, NoOverrun
<1> QED
  BY <1>1, P2PInit, P2PStep, PTL DEF Spec

\* A message is announced only when it is there in full.
THEOREM P2PWholeMessage == Spec => []WholeMessage
<1>1. IInv => WholeMessage
  BY DEF IInv
<1> QED
  BY <1>1, P2PInit, P2PStep, PTL DEF Spec

\* Every variable of the exchange keeps its type and its bounds.
THEOREM P2PTypeOK == Spec => []TypeOK
<1>1. IInv => TypeOK
  BY DEF IInv
<1> QED
  BY <1>1, P2PInit, P2PStep, PTL DEF Spec

\* What the buffer still has to take is never more than it has room for: the
\* reason why it is not overrun.
THEOREM P2PRoom == Spec => []Room
<1>1. IInv => Room
  BY DEF IInv
<1> QED
  BY <1>1, P2PInit, P2PStep, PTL DEF Spec

=============================================================================
