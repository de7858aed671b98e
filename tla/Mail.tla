--------------------------------- MODULE Mail ----------------------------------
(***************************************************************************)
(* The mail calls of ma_api.c and their tasks: MA_SMTP_Connect, _Sender,   *)
(* _Send, _Quit and MA_POP3_Connect, _Stat, _List, _Retr, _Head, _Dele,    *)
(* _Quit.  A game sends a letter with MA_SMTP_Sender and then MA_SMTP_Send *)
(* as often as it takes; MA_POP3_Retr it repeats while the buffer is full. *)
(***************************************************************************)
EXTENDS Receive

VARIABLES
  mail,         \* what a mail task knows: recipients and chunks still to send,
                \* endFlag, nextStep, and the command MA_POP3_Retr has prepared;
                \* and, not in the code, how much of a mail it took for the reply
  letter,       \* the game: "none", its recipients "addressed", or "begun"
  respFound,    \* the reply to RETR has been read
  endLineBuf    \* the last five bytes got of a mail, by position; 0 is any other

mailVars == <<mail, letter, respFound, endLineBuf>>

NoMail == [left |-> 0, last |-> FALSE, next |-> 0, text |-> "empty", missed |-> 0]

MailInit ==
  /\ mail = NoMail
  /\ letter = "none" /\ respFound = FALSE /\ endLineBuf = <<0, 0, 0, 0, 0>>

\* The end of a mail: CR LF . CR LF, its last five bytes.
EndMultiLine == [i \in 1..5 |-> MailLen - 5 + i]

LastFive(s) == SubSeq(s, Len(s) - 4, Len(s))

\* The last n of these five bytes read as the first n of the end; both CR are the
\* same byte, and both LF.
EndBegins(last, n) ==
  \A i \in 1..n : LET p == last[5 - n + i]
                 IN p > MailLen - 5 /\ (p - EndMultiLine[i]) % 3 = 0

\* Bytes that cannot be part of an end any more are forgotten.
MakeEndLineBuffer(bytes) ==
  LET last == LastFive(endLineBuf \o bytes)
  IN [i \in 1..5 |-> IF \E n \in 6 - i .. 5 : EndBegins(last, n) THEN last[i] ELSE 0]

----------------------------------------------------------------------------
(* The calls.                                                              *)

\* A call that is none of these, or ends the session.
NotMailing == mail' = NoMail /\ letter' = "none" /\ respFound' = FALSE /\ UNCHANGED endLineBuf

\* The game makes no mail call while it has a socket of its own: the code does
\* not refuse it, but takes slot 0 whether it is free or not.
MA_SMTP_Connect ==
  /\ AtRest("PPP") /\ "SMTP" \in Calls /\ held = {}
  /\ Begin("SMTP_CONNECT", 0, 0)
  /\ NotReceiving /\ NotMailing /\ UNCHANGED held

MA_POP3_Connect ==
  /\ AtRest("PPP") /\ "POP3" \in Calls /\ held = {}
  /\ Begin("POP3_CONNECT", 0, 0)
  /\ NotReceiving /\ NotMailing /\ UNCHANGED held

MA_SMTP_Sender ==
  /\ AtRest("SMTP") /\ letter = "none" /\ Begin("SMTP_SENDER", 0, 0)
  /\ \E n \in 1..2 : mail' = [NoMail EXCEPT !.left = n]
  /\ respFound' = FALSE /\ NotReceiving /\ UNCHANGED <<held, letter, endLineBuf>>

MA_SMTP_Send ==
  /\ AtRest("SMTP") /\ letter # "none" /\ Begin("SMTP_SEND", 0, 0)
  /\ \E n \in 1..2, end \in BOOLEAN : mail' = [NoMail EXCEPT !.left = n, !.last = end]
  /\ respFound' = FALSE /\ NotReceiving /\ UNCHANGED <<held, letter, endLineBuf>>

\* MA_SMTP_Quit and MA_POP3_Quit.  The game finishes a letter first.
MA_SMTP_Quit ==
  /\ AtRest("SMTP") /\ letter # "begun" /\ Begin("SMTP_QUIT", 0, 0)
  /\ NotReceiving /\ NotMailing /\ UNCHANGED held

Reading == ~full \/ "abandoned" \in Risks

MA_POP3_Quit ==
  /\ AtRest("POP3") /\ Reading /\ Begin("POP3_QUIT", 0, 0)
  /\ NotReceiving /\ NotMailing /\ UNCHANGED held

\* MA_POP3_Stat, MA_POP3_List and MA_POP3_Dele.
MA_POP3_Ask(t) ==
  /\ AtRest("POP3") /\ Reading /\ Begin(t, 0, 0)
  /\ NotReceiving /\ NotMailing /\ UNCHANGED held

MA_POP3_Stat == MA_POP3_Ask("POP3_STAT")
MA_POP3_List == MA_POP3_Ask("POP3_LIST")
MA_POP3_Dele == MA_POP3_Ask("POP3_DELE")

\* A new mail, or its headers.
NewMail(text, room) ==
  /\ AtRest("POP3") /\ ~full /\ room # 0
  /\ Starts("POP3_RETR", 0, 0) /\ tcpClosed' = FALSE /\ UNCHANGED full
  /\ InitPrevBuf /\ respFound' = FALSE /\ mail' = [NoMail EXCEPT !.text = text]
  /\ recv' = GivenBuffer(room, 0) /\ sent' = 0
  /\ UNCHANGED <<answered, connMode, letter, endLineBuf, held>>

\* The same mail with another buffer.  What comes next is stored over the rest,
\* at the beginning of the buffer.
SameMail(room) ==
  /\ AtRest("POP3") /\ full /\ tcpClosed' = FALSE
  /\ \/ RestGiven("POP3_RETR", 1, room, FALSE) \/ RestFills(room)
     \/ RestRefused("POP3_RETR", 1, room, FALSE)
  /\ UNCHANGED <<sent, answered, connMode, mailVars, held>>

MA_POP3_Retr ==
  \E room \in Rooms : (NewMail("RETR", room) /\ bufferEmpty' = FALSE) \/ SameMail(room)

\* Its task is that of MA_POP3_Retr; it does not reset STATUS_BUFFER_EMPTY, which
\* a call that was cut before it went on may have left.
MA_POP3_Head ==
  \E room \in Rooms :
    \/ NewMail("TOP", room) /\ UNCHANGED bufferEmpty /\ (bufferEmpty => "stale_empty" \in Risks)
    \/ SameMail(room)

----------------------------------------------------------------------------
(* What the mail tasks share.                                              *)

\* The server closed the connection: slot 0 is free and the call fails.
MailClosed ==
  tcpClosed /\ connMode' = "PPP" /\ FreeSlot0 /\ TaskFails /\ UNCHANGED prevBuf

\* Step 0xf0, also reached within one step when DATA is refused; then 0xf1.
MailGivenUp ==
  Command("TCP_DISCONNECT", sockets[0], "empty", 241) /\ UNCHANGED <<table, connMode, prevBuf>>

MailFails ==
  /\ connMode' = "PPP" /\ TaskFails /\ UNCHANGED prevBuf
  /\ usedSockets' = [usedSockets EXCEPT ![0] = FALSE] /\ UNCHANGED sockets

\* The head and the end of every mail task.
MailTrouble(t) ==
  /\ Runs(t)
  /\ \/ MailClosed
     \/ ~tcpClosed /\ (Nega({"DATA"}) \/ At(240)) /\ MailGivenUp
     \/ /\ ~tcpClosed /\ ~At(240)
        /\ Nega({"TCP_CONNECT", "DNS_REQUEST"}) \/ (At(241) /\ ~Nega({"DATA"}))
        /\ MailFails
  /\ UNCHANGED <<adapter, held, recv, bufferEmpty, mailVars>>

\* When its own steps run.
MailRuns(t) ==
  /\ Runs(t) /\ ~tcpClosed /\ ~Nega({"DATA", "TCP_CONNECT", "DNS_REQUEST"})
  /\ UNCHANGED <<adapter, held>>

Same == UNCHANGED <<table, connMode>>

\* At step s: read on, or do 'then' after a good reply, or give up.
Reads(s, then) ==
  /\ At(s) /\ Same
  /\ \/ ReadOn
     \/ Read.line = "good" /\ then
     \/ Read.line = "bad" /\ prevBuf' = Read /\ Goes(240)

ReadTo(step) == prevBuf' = Read /\ Goes(step)

\* The steps both connect tasks begin with.
Opens(port) ==
  \/ At(0) /\ Command("DNS_REQUEST", 0, "empty", 1) /\ UNCHANGED <<table, connMode, prevBuf>>
  \/ At(1) /\ Command("TCP_CONNECT", 0, port, 2) /\ UNCHANGED <<table, connMode, prevBuf>>
  \/ /\ At(2) /\ InitPrevBuf /\ Command("DATA", recvData, "empty", 3) /\ UNCHANGED connMode
     /\ usedSockets' = [usedSockets EXCEPT ![0] = TRUE]
     /\ sockets' = [sockets EXCEPT ![0] = recvData]

Opened(step, mode) ==
  At(step) /\ connMode' = mode /\ TaskEnds /\ UNCHANGED <<table, prevBuf>>

Ends(step) == At(step) /\ TaskEnds /\ UNCHANGED <<table, connMode, prevBuf>>

----------------------------------------------------------------------------
(* The tasks.                                                              *)

MATASK_SMTP_Connect ==
  \/ MailTrouble("SMTP_CONNECT")
  \/ /\ MailRuns("SMTP_CONNECT") /\ UNCHANGED <<recv, bufferEmpty, mailVars>>
     /\ \/ Opens("SMTP")
        \/ Reads(3, SayLine("HELO", 4)) \/ Reads(4, ReadTo(5))
        \/ Opened(5, "SMTP")

MATASK_POP3_Connect ==
  \/ MailTrouble("POP3_CONNECT")
  \/ /\ MailRuns("POP3_CONNECT") /\ UNCHANGED <<recv, bufferEmpty, mailVars>>
     /\ \/ Opens("POP3")
        \/ Reads(3, SayLine("USER", 4)) \/ Reads(4, SayLine("PASS", 5)) \/ Reads(5, ReadTo(6))
        \/ Opened(6, "POP3")

\* The recipients one by one, each after the reply to the one before.
MATASK_SMTP_Sender ==
  \/ MailTrouble("SMTP_SENDER")
  \/ /\ MailRuns("SMTP_SENDER") /\ UNCHANGED <<recv, bufferEmpty, respFound, endLineBuf>>
     /\ \/ /\ \/ At(0) /\ SayLine("MAIL", 1) /\ Same
              \/ Reads(1, ReadTo(2))
              \/ At(2) /\ mail.left = 0 /\ Goes(4) /\ UNCHANGED prevBuf /\ Same
              \/ Reads(3, ReadTo(2))
           /\ UNCHANGED <<mail, letter>>
        \/ /\ At(2) /\ mail.left # 0 /\ SayLine("RCPT", 3) /\ Same
           /\ mail' = [mail EXCEPT !.left = @ - 1] /\ UNCHANGED letter
        \/ /\ At(4) /\ TaskDone /\ smtpSender' = TRUE /\ UNCHANGED prevBuf /\ Same
           /\ letter' = "addressed" /\ UNCHANGED mail

\* A letter, piece by piece: DATA comes before the first piece, and the reply
\* of the server after the last.  Step 50 waits, then goes to nextStep.
SendPiece ==
  \/ /\ mail.left > 1 /\ Command("DATA", sockets[0], "text", 50) /\ UNCHANGED prevBuf
     /\ mail' = [mail EXCEPT !.left = @ - 1, !.next = 1]
  \/ /\ mail.left = 1 /\ SayLine(IF mail.last THEN "end" ELSE "text", 50)
     /\ mail' = [mail EXCEPT !.next = IF mail.last THEN 2 ELSE 3]

SendSteps ==
  \/ /\ At(0) /\ smtpSender /\ smtpSender' = FALSE /\ taskStep' = 100
     /\ UNCHANGED <<task, param, cutCmd, error, tcpClosed, full, bios, prevBuf, mail, letter>>
  \/ /\ At(1) \/ (At(0) /\ ~smtpSender)
     /\ SendPiece /\ UNCHANGED letter
  \/ At(50) /\ Goes(mail.next) /\ UNCHANGED <<prevBuf, mail, letter>>
  \/ /\ At(3) /\ TaskEnds /\ letter' = IF mail.last THEN "none" ELSE "begun"
     /\ UNCHANGED <<prevBuf, mail>>
  \/ At(100) /\ SayLine("DATA", 50) /\ mail' = [mail EXCEPT !.next = 101] /\ UNCHANGED letter

MATASK_SMTP_Send ==
  \/ MailTrouble("SMTP_SEND")
  \/ /\ MailRuns("SMTP_SEND") /\ UNCHANGED <<recv, bufferEmpty, respFound, endLineBuf>>
     /\ \/ SendSteps /\ Same
        \/ (Reads(2, ReadTo(3)) \/ Reads(101, ReadTo(1))) /\ UNCHANGED <<mail, letter>>

\* Any reply to QUIT will do.
QuitSteps ==
  \/ At(0) /\ SayLine("QUIT", 1) /\ Same
  \/ At(1) /\ ReadOn /\ Same
  \/ At(1) /\ Read.line \notin {"none", "part"} /\ ReadTo(2) /\ Same
  \/ At(2) /\ Command("TCP_DISCONNECT", sockets[0], "empty", 3) /\ UNCHANGED <<table, connMode, prevBuf>>
  \/ At(3) /\ connMode' = "PPP" /\ FreeSlot0 /\ TaskEnds /\ UNCHANGED prevBuf

MATASK_SMTP_POP3_Quit ==
  \E t \in {"SMTP_QUIT", "POP3_QUIT"} :
    \/ MailTrouble(t)
    \/ MailRuns(t) /\ QuitSteps /\ UNCHANGED <<recv, bufferEmpty, mailVars>>

\* MATASK_POP3_Stat, MATASK_POP3_List and MATASK_POP3_Dele.
Asks(t, command, end) ==
  \/ MailTrouble(t)
  \/ /\ MailRuns(t) /\ UNCHANGED <<recv, bufferEmpty, mailVars>>
     /\ (At(0) /\ SayLine(command, 1) /\ Same) \/ Reads(1, ReadTo(end)) \/ Ends(end)

MATASK_POP3_Stat == Asks("POP3_STAT", "STAT", 2)
MATASK_POP3_List == Asks("POP3_LIST", "LIST", 100)
MATASK_POP3_Dele == Asks("POP3_DELE", "DELE", 2)

----------------------------------------------------------------------------
(* MATASK_POP3_Retr, step 1.                                               *)

\* There is something to store; one byte alone does not count (dataLen > 1).
NewData ==
  ~bufferEmpty /\ recv.wanted /\ (recvChunk.line # "none" \/ Len(recvChunk.bytes) > 1)

NewReply == NewData /\ ~respFound

Poll == Command("DATA", sockets[0], "empty", 1)

\* Where the first CR LF in these bytes of a mail ends, 0 for nowhere: the mail
\* may have one anywhere, and has two at its end.  One that the first byte ends
\* has begun in the reply before, and is not found.
FirstCRLF(bytes) ==
  LET last == {j \in 2 .. Len(bytes) : bytes[j] \in {MailLen - 3, MailLen}}
  IN {j \in 2 .. Len(bytes) : bytes[j] <= MailLen - 5 \/ (j \in last /\ \A i \in last : j <= i)}
     \cup {j \in {0} : last = {}}

\* What the reply is taken for.  The end of its line is sought in the new reply
\* alone: a line cut between CR and LF goes on to the next CR LF of the mail.  A
\* line whose beginning has been dropped is a bad one.
SeenAs ==
  LET bytes == recvChunk.bytes
  IN CASE NewReply /\ recvChunk.line = "none" ->
            {IF j = 0 THEN NoChunk
             ELSE [line |-> IF prevBuf.line = "cut" THEN "good" ELSE "bad",
                   bytes |-> SubSeq(bytes, j + 1, Len(bytes))] : j \in FirstCRLF(bytes)}
       [] NewReply /\ recvChunk.line = "good" /\ prevBuf.line = "bad" ->
            {[line |-> "bad", bytes |-> bytes]}
       [] OTHER -> {recvChunk}

\* The length of recvBuf is not reduced by that of the reply line, while its
\* start is moved: from then on the last five bytes are sought behind its end.
Overreads(chunk) ==
  chunk.line = "good" /\ (respFound \/ (NewReply /\ Len(chunk.bytes) >= 5))

LastBytes(chunk) ==
  IF Overreads(chunk)
  THEN {<<0, 0, 0, 0, 0>>} \cup (IF "stale_end" \in Risks THEN {EndMultiLine} ELSE {})
  ELSE {MakeEndLineBuffer(IF chunk.line = "none" \/ NewReply THEN chunk.bytes
                          ELSE <<0, 0, 0, 0, 0>> \o chunk.bytes)}

\* CR LF . CR LF; what another mail has left counts with the first bytes of this.
IsEndMultiLine(last) == EndBegins(last, 5) /\ (last[5] = MailLen \/ "stale_end" \in Risks)

\* The mail is over when its last five bytes are those.
EndTest(chunk) ==
  LET some == chunk.bytes # <<>> \/ (chunk.line # "none" /\ ~NewReply)
  IN /\ IF some THEN endLineBuf' \in LastBytes(chunk) ELSE UNCHANGED endLineBuf
     /\ IF some /\ IsEndMultiLine(endLineBuf') THEN Goes(100) ELSE Poll

RetrStore(chunk) ==
  \/ /\ NewReply /\ chunk.line \in {"none", "part", "cut"}
     /\ prevBuf' = IF prevBuf.line = "bad" THEN prevBuf ELSE Read
     /\ Poll /\ UNCHANGED <<recv, respFound, endLineBuf>>
  \/ /\ NewReply /\ chunk.line \notin {"part", "cut", "good"}
     /\ Goes(240) /\ prevBuf' = Read /\ UNCHANGED <<recv, respFound, endLineBuf>>
  \/ /\ NewReply => chunk.line = "good"
     /\ NewData /\ Fits(chunk.bytes) /\ respFound' = TRUE
     /\ Store(chunk.bytes) /\ EndTest(chunk)
     /\ prevBuf' = IF respFound THEN prevBuf ELSE [Read EXCEPT !.line = "good"]
  \/ /\ NewReply => chunk.line = "good"
     /\ NewData /\ ~Fits(chunk.bytes) /\ respFound' = TRUE
     /\ Overflow(chunk) /\ UNCHANGED endLineBuf
  \/ /\ ~NewData /\ EndTest(chunk) /\ UNCHANGED <<recv, respFound>>
     /\ prevBuf' = IF chunk.line = "part" THEN [prevBuf EXCEPT !.line = "bad"] ELSE prevBuf

MATASK_POP3_Retr ==
  \/ MailTrouble("POP3_RETR")
  \/ /\ MailRuns("POP3_RETR") /\ UNCHANGED letter
     /\ \/ /\ (At(0) /\ SayLine(mail.text, 1) /\ Same) \/ Ends(100)
           /\ UNCHANGED <<recv, bufferEmpty, respFound, endLineBuf, mail>>
        \/ /\ At(1) /\ bufferEmpty' = FALSE /\ Same
           /\ \E chunk \in SeenAs :
                /\ RetrStore(chunk)
                /\ mail' = [mail EXCEPT !.missed = @ + Len(recvChunk.bytes) - Len(chunk.bytes)]

----------------------------------------------------------------------------

MailCalls ==
  \/ MA_SMTP_Connect \/ MA_SMTP_Sender \/ MA_SMTP_Send \/ MA_SMTP_Quit
  \/ MA_POP3_Connect \/ MA_POP3_Quit \/ MA_POP3_Stat \/ MA_POP3_List \/ MA_POP3_Dele
  \/ MA_POP3_Retr \/ MA_POP3_Head

MailTasksStep ==
  \/ MATASK_SMTP_Connect \/ MATASK_SMTP_Sender \/ MATASK_SMTP_Send \/ MATASK_SMTP_POP3_Quit
  \/ MATASK_POP3_Connect \/ MATASK_POP3_Stat \/ MATASK_POP3_List \/ MATASK_POP3_Dele
  \/ MATASK_POP3_Retr

=============================================================================
