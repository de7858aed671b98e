-------------------------------- MODULE Receive --------------------------------
(***************************************************************************)
(* How a mail or a page gets into the game's buffer: the part of the tasks *)
(* MATASK_POP3_Retr and MATASK_HTTP_GetPost that stores what a DATA reply  *)
(* carries, and the part of their calls that goes on with a new buffer     *)
(* when the last one is full (MA_CONDITION_BUFFER_FULL).  What did not fit *)
(* waits in prevBuf.                                                       *)
(***************************************************************************)
EXTENDS Sockets

CONSTANT Rooms   \* the sizes of the buffers a game gives

ASSUME ReceiveAssumption == Rooms \subseteq Nat

VARIABLES
  recv,          \* the game's buffer, and where the code writes next
  bufferEmpty    \* STATUS_BUFFER_EMPTY

\* The cells written so far and how many there are, where pRecvData points,
\* recvBufSize and *pRecvSize; whether there is a buffer at all; and how much
\* of the mail or page the game has got in earlier buffers.
GivenBuffer(room, taken) ==
  [cells |-> <<>>, given |-> room, at |-> 0, room |-> room, size |-> 0,
   wanted |-> room # 0, taken |-> taken]

NoBuffer == GivenBuffer(0, 0)

\* Another call's parameters take the place of these.
NotReceiving == recv' = NoBuffer /\ UNCHANGED bufferEmpty

ReceiveInit == recv = NoBuffer /\ bufferEmpty = FALSE

\* memcpy to the game's buffer; a cell never written to is 0.
Write(cells, at, bytes) ==
  LET last == at + Len(bytes)
  IN [i \in 1 .. (IF last > Len(cells) THEN last ELSE Len(cells)) |->
        IF i \in at + 1 .. last THEN bytes[i - at]
        ELSE IF i <= Len(cells) THEN cells[i] ELSE 0]

Fits(bytes) == Len(bytes) <= recv.room

\* Mistake: the next bytes go to the place of these.
StoreInPlace(bytes) ==
  recv' = [recv EXCEPT !.cells = Write(@, recv.at, bytes), !.room = @ - Len(bytes),
                       !.size = @ + Len(bytes)]

Store(bytes) ==
  recv' = [recv EXCEPT !.cells = Write(@, recv.at, bytes), !.at = @ + Len(bytes),
                       !.room = @ - Len(bytes), !.size = @ + Len(bytes)]

\* The rest is kept and the call left pending: no task runs, but APIWAIT stays
\* set.  recvBuf is what this much of the reply has left in it.
KeepRest(chunk) ==
  /\ prevBuf' = [prevBuf EXCEPT !.line = "none",
                                !.rest = SubSeq(chunk.bytes, recv.room + 1, Len(chunk.bytes))]
  /\ full' = TRUE /\ task' = "NONE" /\ taskStep' = 0 /\ recvChunk' = chunk
  /\ UNCHANGED <<param, cutCmd, error, tcpClosed, smtpSender, busy, sendCmd, sendSocket,
                 sendText, recvCmd, recvData, tcpConnectRetryCount>>

\* Mistake: as much is written as has come.
OverflowAll(chunk) ==
  /\ recv' = [recv EXCEPT !.cells = Write(@, recv.at, chunk.bytes),
                          !.size = @ + recv.room, !.room = 0]
  /\ KeepRest(chunk)

\* The buffer is filled.
Overflow(chunk) ==
  /\ recv' = [recv EXCEPT !.cells = Write(@, recv.at, SubSeq(chunk.bytes, 1, recv.room)),
                          !.size = @ + recv.room, !.room = 0]
  /\ KeepRest(chunk)

Taken == recv.taken + recv.size

\* The rest fits into the new buffer, and the task goes on; 'advance' tells
\* whether what comes next is stored behind it.
RestGiven(t, step, room, advance) ==
  LET n == Len(prevBuf.rest)
  IN /\ n # 0 /\ n <= room
     /\ recv' = [GivenBuffer(room, Taken) EXCEPT !.cells = prevBuf.rest, !.size = n,
                                                 !.at = IF advance THEN n ELSE 0,
                                                 !.room = IF advance THEN room - n ELSE room]
     /\ prevBuf' = [prevBuf EXCEPT !.rest = <<>>]
     /\ full' = FALSE /\ bufferEmpty' = TRUE
     /\ Starts(t, step, 0)

\* Or it fills that buffer too, and the call stays pending.
RestFills(room) ==
  LET n == Len(prevBuf.rest)
  IN /\ room # 0 /\ room < n
     /\ recv' = [GivenBuffer(room, Taken) EXCEPT !.cells = SubSeq(prevBuf.rest, 1, room),
                                                 !.size = room]
     /\ prevBuf' = [prevBuf EXCEPT !.rest = SubSeq(@, room + 1, n)]
     /\ bufferEmpty' = FALSE
     /\ UNCHANGED <<full, api, table, error, smtpSender, bios, online, peer, due>>

\* Or the game wants no more of it; the bytes still to come are dropped.
RestRefused(t, step, room, empty) ==
  /\ room = 0
  /\ recv' = GivenBuffer(0, Taken) /\ bufferEmpty' = empty /\ full' = FALSE
  /\ UNCHANGED prevBuf /\ Starts(t, step, 0)

=============================================================================
