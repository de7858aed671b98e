------------------------------ MODULE SessionsTypes ------------------------------
(***************************************************************************)
(* Type correctness of Sessions, for every set of connections, calls and   *)
(* risks.  What a reply carries is a socket, a part of the EEPROM or a     *)
(* status, by the command it answers; so the types need what each step of  *)
(* a task may count on: that the reply it reads is the one to the command  *)
(* the step before has sent.                                               *)
(***************************************************************************)
EXTENDS Sessions, TLAPS

\* A task runs only beside no error, and a command is out only while one does.
TaskAlone == (error => task = "NONE") /\ (task = "NONE" => ~busy)

\* What is out is well formed.
Sending ==
  busy =>
    /\ sendCmd = "TCP_CONNECT" => sendText \in DOMAIN Ports /\ tcpConnectRetryCount < 5
    /\ sendCmd \in {"EEPROM_READ", "EEPROM_WRITE"} => sendSocket \in {0, 1}
    /\ sendCmd = "EEPROM_WRITE" => param \in Versions

\* What has come back is the answer to it.
Answered ==
  /\ recvCmd \in {None, "ERROR", sendCmd} \cup (IF sendCmd = "DATA" THEN {"DATA_END"} ELSE {})
  /\ recvCmd = "TCP_CONNECT" => recvData \in Ids
  /\ recvCmd = "EEPROM_READ" => recvData \in {0} \cup Versions
  /\ sendCmd = "TCP_CONNECT" /\ ~busy => recvData \in Ids \cup {Garbage}

\* The steps that look at the answer to TCP_CONNECT, and to EEPROM_READ.
AwaitsConnect(t, step) ==
  \/ t = "TCP_CONNECT" /\ step = 1
  \/ t \in {"SMTP_CONNECT", "POP3_CONNECT"} /\ step = 2
  \/ t = HttpTask /\ step = 3

AwaitsEEPROM(t, step) ==
  \/ t = "GETEEPROMDATA" /\ step \in {3, 4}
  \/ t = "TELSERVER" /\ step \in {4, 5}

\* The parameter of a call is what its task takes it for.
SuitsCall(t, arg) ==
  /\ t \in {"TCP_DISCONNECT", "TCP_SENDRECV"} => arg \in Ids
  /\ t = "EEPROM_WRITE" => arg \in Versions

Awaited ==
  /\ AwaitsConnect(task, taskStep) => sendCmd = "TCP_CONNECT" /\ (~busy => recvCmd # None)
  /\ AwaitsEEPROM(task, taskStep) => sendCmd = "EEPROM_READ" /\ (~busy => recvCmd # None)
  /\ task = "TCP_CUT" /\ taskStep = 0 => cutCmd = sendCmd
  /\ SuitsCall(task, param)

Running == TypeRun /\ TaskAlone /\ Sending /\ Answered /\ Awaited

\* A page takes no more requests than the centre has credentials for.
Requests == [UNKNOWN |-> 1, UTILITY |-> 2, DOWNLOAD |-> 3, UPLOAD |-> 3, RANKING |-> 3]

HttpProgress ==
  /\ task = HttpTask /\ taskStep \in RequestSteps => http.step < Requests[http.auth]
  /\ (task = HttpTask /\ taskStep = 110) \/ (full /\ connMode = "HTTP") =>
       http.step \in 1..2 /\ http.step <= Requests[http.auth]
  /\ task = "POP3_RETR" => connMode = "POP3"
  /\ task = HttpTask => ~full

\* The server answers no more requests than there are credentials.
PageDue == due = "page" => answered < 3

IInv == TypeOK /\ Running /\ HttpProgress /\ PageDue

----------------------------------------------------------------------------

LEMMA NumbersTyped == Numbers \subseteq Nat /\ 0 \in Numbers /\ Garbage \in Numbers /\ Ids \subseteq Numbers
BY ServersAssumption DEF Numbers, Garbage

USE DEF None, Closed, HttpTask

LEMMA TypesInit == Init => IInv
<1> SUFFICES ASSUME Init PROVE IInv
  OBVIOUS
<1> USE DEF Init, SocketsInit, ServersInit, ReceiveInit, MailInit, HttpInit, SettingsInit
<1>1. TypeFlags
  BY DEF TypeFlags
<1>2. TypeRun
  BY NumbersTyped DEF TypeRun, AllTasks, ChunkLines, NoChunk
<1>3. TypeList
  BY NumbersTyped DEF TypeList, Slots
<1>4. TypeAdapter
  <2>1. PICK v \in {0} \cup Versions : eeprom = [i \in {0, 1} |-> v]
    OBVIOUS
  <2> QED
    BY <2>1 DEF TypeAdapter, Waits, Dues
<1>5. TypePrevBuf /\ TypeRecv
  BY DEF TypePrevBuf, TypeRecv, EmptyPrevBuf, ChunkLines, NoBuffer, GivenBuffer
<1>6. TypeMail /\ TypeHttp
  BY DEF TypeMail, TypeHttp, NoMail, NoPage, Suited, RequestSteps
<1>7. TaskAlone /\ Sending /\ Answered /\ HttpProgress /\ PageDue
  BY DEF TaskAlone, Sending, Answered, HttpProgress, PageDue
<1>8. Awaited
  BY DEF Awaited, AwaitsConnect, AwaitsEEPROM, SuitsCall
<1> QED
  BY <1>1, <1>2, <1>3, <1>4, <1>5, <1>6, <1>7, <1>8 DEF IInv, TypeOK, Running

----------------------------------------------------------------------------
(* What the parts shared by the tasks do to the exchange.                  *)

\* No answer is looked at in a step, and no cut begins in it.
Plain(t, step) ==
  /\ step \in 0..255 /\ ~AwaitsConnect(t, step) /\ ~AwaitsEEPROM(t, step)
  /\ t = "TCP_CUT" => step # 0

\* A command a step may leave out when it goes on to another.
Fitting(cmd, socket, text, step) ==
  /\ cmd \in AllCommands /\ socket \in Numbers \cup {1} /\ step \in 0..255
  /\ cmd = "TCP_CONNECT" => text \in DOMAIN Ports
  /\ cmd \in {"EEPROM_READ", "EEPROM_WRITE"} => socket \in {0, 1}
  /\ cmd = "EEPROM_WRITE" => task = "EEPROM_WRITE"
  /\ AwaitsConnect(task, step) => cmd = "TCP_CONNECT"
  /\ AwaitsEEPROM(task, step) => cmd = "EEPROM_READ"
  /\ task = "TCP_CUT" => step # 0

LEMMA CommandRuns ==
  ASSUME Running, task # "NONE", NEW cmd, NEW socket, NEW text, NEW step,
         Fitting(cmd, socket, text, step), Command(cmd, socket, text, step)
  PROVE  Running'
<1> USE DEF Running, Fitting, Command, Send
<1>1. TypeRun'
  BY NumbersTyped DEF TypeRun, NoChunk, ChunkLines
<1>2. TaskAlone'
  BY DEF TaskAlone
<1>3. Sending' /\ Answered'
  BY DEF Sending, Answered, Awaited, SuitsCall
<1>4. Awaited'
  BY DEF Awaited
<1> QED
  BY <1>1, <1>2, <1>3, <1>4

LEMMA GoesRuns ==
  ASSUME Running, NEW step, Plain(task, step), Goes(step)
  PROVE  Running'
BY DEF Running, Plain, Goes, flags, bios, TypeRun, TaskAlone, Sending, Answered, Awaited

LEMMA TaskDoneRuns ==
  ASSUME Running, ~busy, TaskDone
  PROVE  Running'
BY DEF Running, TaskDone, bios, TypeRun, TaskAlone, Sending, Answered, Awaited, AllTasks,
       AwaitsConnect, AwaitsEEPROM, SuitsCall

LEMMA TaskFailsRuns ==
  ASSUME Running, ~busy, TaskFails
  PROVE  Running'
BY DEF Running, TaskFails, SetApiError, Forgotten, TypeRun, TaskAlone, Sending, Answered,
       Awaited, AllTasks, AwaitsConnect, AwaitsEEPROM, SuitsCall

LEMMA RefuseRuns ==
  ASSUME Running, ~busy, Refuse
  PROVE  Running'
BY DEF Running, Refuse, SetApiError, Forgotten, TypeRun, TaskAlone, Sending, Answered,
       Awaited, AllTasks, AwaitsConnect, AwaitsEEPROM, SuitsCall

LEMMA StartsRuns ==
  ASSUME Running, ~error, ~busy, NEW t \in AllTasks, NEW step, NEW arg \in Numbers \cup Versions,
         Plain(t, step), SuitsCall(t, arg), Starts(t, step, arg)
  PROVE  Running'
BY DEF Running, Plain, Starts, bios, TypeRun, TaskAlone, Sending, Answered, Awaited

LEMMA UnchangedRuns ==
  ASSUME Running, UNCHANGED <<api, flags, bios>>
  PROVE  Running'
BY DEF Running, api, flags, bios, TypeRun, TaskAlone, Sending, Answered, Awaited

Chunks == [line : ChunkLines, bytes : Seq(Nat)]

LEMMA OverflowRuns ==
  ASSUME Running, ~busy, NEW chunk \in Chunks, Overflow(chunk)
  PROVE  Running'
BY DEF Overflow, KeepRest, Chunks, Running, TypeRun, TaskAlone, Sending, Answered, Awaited,
       SuitsCall, AllTasks, AwaitsConnect, AwaitsEEPROM

\* What a reply to RETR is taken for is a part of it, from some place on.
LEMMA SeenParts ==
  ASSUME recvChunk \in Chunks, NEW chunk \in SeenAs
  PROVE  /\ chunk \in Chunks
         /\ \/ chunk = recvChunk
            \/ /\ NewReply /\ recvChunk.line = "none"
               /\ \E j \in 2 .. Len(recvChunk.bytes) \cup {0} :
                    /\ j = 0 => chunk = NoChunk
                    /\ j # 0 => /\ chunk.line \in {"good", "bad"}
                                /\ (chunk.line = "good" => prevBuf.line = "cut")
                                /\ chunk.bytes = SubSeq(recvChunk.bytes, j + 1, Len(recvChunk.bytes))
            \/ /\ NewReply /\ recvChunk.line = "good"
               /\ chunk.line = "bad" /\ chunk.bytes = recvChunk.bytes
<1>1. CASE chunk = recvChunk
  BY <1>1
<1>2. CASE NewReply /\ recvChunk.line = "none"
  <2>1. PICK s \in Seq(Nat) : s = recvChunk.bytes
    BY DEF Chunks
  <2>2. PICK j \in FirstCRLF(s) :
          chunk = IF j = 0 THEN NoChunk
                  ELSE [line |-> IF prevBuf.line = "cut" THEN "good" ELSE "bad", bytes |-> SubSeq(s, j + 1, Len(s))]
    BY <1>2, <2>1 DEF SeenAs
  <2>3. j \in 2 .. Len(s) \cup {0}
    BY <2>2 DEF FirstCRLF
  <2>4. CASE j = 0
    <3>1. NoChunk \in Chunks
      BY DEF NoChunk, Chunks, ChunkLines
    <3> QED
      BY <1>2, <2>1, <2>2, <2>3, <2>4, <3>1
  <2>5. CASE j # 0
    <3>1. SubSeq(s, j + 1, Len(s)) \in Seq(Nat)
      BY <2>3, <2>5
    <3>2. chunk.line \in {"good", "bad"} /\ chunk.bytes = SubSeq(s, j + 1, Len(s))
          /\ (chunk.line = "good" => prevBuf.line = "cut") /\ chunk \in Chunks
      BY <2>2, <2>5, <3>1 DEF Chunks, ChunkLines
    <3> QED
      BY <1>2, <2>1, <2>3, <2>5, <3>2
  <2> QED
    BY <2>4, <2>5
<1>3. CASE NewReply /\ recvChunk.line = "good" /\ chunk # recvChunk
  <2>1. chunk = [line |-> "bad", bytes |-> recvChunk.bytes]
    BY <1>3 DEF SeenAs
  <2>2. chunk \in Chunks
    BY <2>1 DEF Chunks, ChunkLines
  <2> QED
    BY <1>3, <2>1, <2>2
<1>4. chunk = recvChunk \/ (NewReply /\ recvChunk.line \in {"none", "good"})
  BY DEF SeenAs
<1> QED
  BY <1>1, <1>2, <1>3, <1>4

LEMMA SlotTyped == TypeList => 0 \in Slots /\ sockets[0] \in Numbers
BY DEF TypeList, Slots, NUM_SOCKETS

LEMMA SocketTasksRun ==
  ASSUME Running, TypeList, SocketTasks
  PROVE  Running'
<1> USE SlotTyped, NumbersTyped, CommandRuns, GoesRuns, TaskDoneRuns, TaskFailsRuns
    DEF Runs, At, Fitting, Plain, AwaitsConnect, AwaitsEEPROM, TaskEnds, AllCommands, Commands, Ports
<1>1. task \in {"TCP_DISCONNECT", "TCP_SENDRECV"} => param \in Numbers
  BY DEF Running, Awaited, SuitsCall
<1>2. CASE MATASK_TCP_Connect
  BY <1>2 DEF MATASK_TCP_Connect
<1>3. CASE MATASK_TCP_Disconnect
  BY <1>1, <1>3 DEF MATASK_TCP_Disconnect
<1>4. CASE MATASK_TCP_SendRecv
  BY <1>1, <1>4 DEF MATASK_TCP_SendRecv
<1>5. CASE MATASK_GetHostAddress
  BY <1>5 DEF MATASK_GetHostAddress
<1>6. CASE MATASK_Offline
  BY <1>6 DEF MATASK_Offline, SayLine, ReadOn
<1>7. CASE MATASK_TCP_Cut
  <2>1. task = "TCP_CUT" /\ ~busy
    BY <1>7 DEF MATASK_TCP_Cut
  <2>2. At(0) /\ cutCmd = "TCP_CONNECT" => recvData \in Numbers
    BY <2>1 DEF Running, Awaited, Answered
  <2>3. CASE At(3)
    <3>1. task' = "NONE" /\ taskStep' = 0 /\ recvCmd' = None
          /\ UNCHANGED <<param, cutCmd, flags, busy, sendCmd, sendSocket, sendText, recvData,
                         recvChunk, tcpConnectRetryCount>>
      BY <1>7, <2>3 DEF MATASK_TCP_Cut
    <3> QED
      BY <2>1, <3>1 DEF Running, flags, TypeRun, TaskAlone, Sending, Answered, Awaited,
                        AllTasks, SuitsCall
  <2>4. CASE ~At(3)
    BY <1>7, <2>1, <2>2, <2>4 DEF MATASK_TCP_Cut
  <2> QED
    BY <2>3, <2>4
<1> QED
  BY <1>2, <1>3, <1>4, <1>5, <1>6, <1>7 DEF SocketTasks

\* What the mail tasks have in common.
LEMMA SayLineRuns ==
  ASSUME Running, TypeList, ~busy, NEW text, NEW step, task # "NONE", Plain(task, step),
         SayLine(text, step)
  PROVE  Running'
BY SlotTyped, CommandRuns DEF SayLine, Fitting, Plain, AllCommands, Commands

LEMMA ReadOnRuns ==
  ASSUME Running, TypeList, ~busy, task # "NONE", Plain(task, taskStep), ReadOn
  PROVE  Running'
BY SlotTyped, CommandRuns DEF ReadOn, Fitting, Plain, AllCommands, Commands

LEMMA ReadToRuns ==
  ASSUME Running, NEW step, Plain(task, step), ReadTo(step)
  PROVE  Running'
BY GoesRuns DEF ReadTo

LEMMA MailTroubleRuns ==
  ASSUME Running, TypeList, NEW t \in MailTasks, MailTrouble(t)
  PROVE  Running'
BY SlotTyped, NumbersTyped, CommandRuns, TaskFailsRuns
   DEF MailTrouble, MailClosed, MailGivenUp, MailFails, Runs, Fitting, AwaitsConnect,
       AwaitsEEPROM, AllCommands, Commands, MailTasks

LEMMA OpensRuns ==
  ASSUME Running, TypeList, ~busy, task \in {"SMTP_CONNECT", "POP3_CONNECT"},
         ~Nega({"TCP_CONNECT"}), NEW port \in DOMAIN Ports, Opens(port)
  PROVE  Running'
<1>1. ASSUME At(2)
      PROVE  Fitting("DATA", recvData, "empty", 3)
  <2>1. recvData \in Numbers
    BY <1>1, NumbersTyped DEF At, Running, Awaited, AwaitsConnect, Answered, Nega
  <2> QED
    BY <2>1 DEF Fitting, AwaitsConnect, AwaitsEEPROM, AllCommands, Commands
<1> USE NumbersTyped, CommandRuns DEF At, Fitting, AwaitsConnect, AwaitsEEPROM, AllCommands, Commands
<1>2. CASE At(0)
  BY <1>2 DEF Opens
<1>3. CASE At(1)
  BY <1>3 DEF Opens
<1>4. CASE At(2)
  <2>1. Command("DATA", recvData, "empty", 3)
    BY <1>4 DEF Opens
  <2> QED
    BY <1>1, <1>4, <2>1
<1> QED
  BY <1>2, <1>3, <1>4 DEF Opens

LEMMA MailTasksRun ==
  ASSUME Running, TypeList, TypeMail, MailTasksStep
  PROVE  Running'
<1> USE SlotTyped, NumbersTyped, CommandRuns, GoesRuns, TaskDoneRuns, MailTroubleRuns, SayLineRuns, ReadOnRuns, ReadToRuns
    DEF Fitting, Plain, AwaitsConnect, AwaitsEEPROM, TaskEnds, AllCommands, Commands, 
        MailRuns, Runs, At, MailTasks, Reads
<1>1. CASE MATASK_SMTP_Connect
  BY <1>1, OpensRuns DEF MATASK_SMTP_Connect, Opened, Nega, Ports
<1>2. CASE MATASK_POP3_Connect
  BY <1>2, OpensRuns DEF MATASK_POP3_Connect, Opened, Nega, Ports
<1>3. CASE MATASK_SMTP_Sender
  BY <1>3 DEF MATASK_SMTP_Sender
<1>4. CASE MATASK_SMTP_Send
  <2>1. CASE MailTrouble("SMTP_SEND")
    BY <2>1
  <2>2. CASE MailRuns("SMTP_SEND") /\ SendSteps
    <3>1. CASE At(0) /\ smtpSender
      BY <2>2, <3>1 DEF SendSteps, SendPiece, bios, Running, TypeRun, TaskAlone, Sending, Answered, Awaited
    <3>2. CASE SendPiece
      BY <2>2, <3>2 DEF SendPiece
    <3>3. CASE At(50) /\ Goes(mail.next)
      BY <2>2, <3>3 DEF TypeMail
    <3>4. CASE TaskEnds \/ SayLine("DATA", 50)
      BY <2>2, <3>4
    <3> QED
      BY <2>2, <3>1, <3>2, <3>3, <3>4 DEF SendSteps
  <2>3. CASE MailRuns("SMTP_SEND") /\ (Reads(2, ReadTo(3)) \/ Reads(101, ReadTo(1)))
    BY <2>3
  <2> QED
    BY <1>4, <2>1, <2>2, <2>3 DEF MATASK_SMTP_Send
<1>5. CASE MATASK_SMTP_POP3_Quit
  BY <1>5 DEF MATASK_SMTP_POP3_Quit, QuitSteps
<1>6. CASE MATASK_POP3_Stat
  BY <1>6 DEF MATASK_POP3_Stat, Asks, Ends
<1>7. CASE MATASK_POP3_List
  BY <1>7 DEF MATASK_POP3_List, Asks, Ends
<1>8. CASE MATASK_POP3_Dele
  BY <1>8 DEF MATASK_POP3_Dele, Asks, Ends
<1>9. CASE MATASK_POP3_Retr
  <2>1. CASE MailTrouble("POP3_RETR")
    BY <2>1
  <2>2. CASE MailRuns("POP3_RETR") /\ (SayLine(mail.text, 1) \/ Ends(100))
    BY <2>2 DEF Ends
  <2>3. ASSUME MailRuns("POP3_RETR"), NEW chunk \in SeenAs, RetrStore(chunk) PROVE Running'
    <3>1. EndTest(chunk) => Running'
      <4>1. EndTest(chunk) => Goes(100) \/ Poll
        BY DEF EndTest
      <4> QED
        BY <2>3, <4>1 DEF Poll
    <3>2. chunk \in Chunks
      BY <2>3, SeenParts DEF Running, TypeRun, Chunks
    <3> QED
      BY <2>3, <3>1, <3>2, OverflowRuns DEF RetrStore, Poll
  <2> QED
    BY <1>9, <2>1, <2>2, <2>3 DEF MATASK_POP3_Retr
<1> QED
  BY <1>1, <1>2, <1>3, <1>4, <1>5, <1>6, <1>7, <1>8, <1>9 DEF MailTasksStep

\* A step that keeps the exchange but for what it leaves of the chunk it has read.
LEMMA LeftRuns ==
  ASSUME Running, NEW bytes \in Seq(Nat), recvChunk' = [line |-> "none", bytes |-> bytes],
         UNCHANGED <<api, flags, busy, sendCmd, sendSocket, sendText, recvCmd, recvData,
                     tcpConnectRetryCount>>
  PROVE  Running'
<1>1. recvChunk' \in [line : ChunkLines, bytes : Seq(Nat)]
  BY DEF ChunkLines
<1> QED
  BY <1>1 DEF Running, api, flags, TypeRun, TaskAlone, Sending, Answered, Awaited

\* After a reply of step 8 the task goes on with the rest of it, or asks for more.
AfterSome ==
  \/ /\ \E bytes \in Seq(Nat) : recvChunk' = [line |-> "none", bytes |-> bytes]
     /\ UNCHANGED <<api, flags, busy, sendCmd, sendSocket, sendText, recvCmd, recvData,
                    tcpConnectRetryCount>>
  \/ Command("DATA", sockets[0], "empty", 8)

LEMMA ReplyLeaves ==
  ASSUME recvChunk \in Chunks, HeaderRead \/ PageTakenForHeader
  PROVE  AfterSome
<1>1. recvChunk.bytes \in Seq(Nat)
  BY DEF Chunks
<1>2. ASSUME NEW bytes \in Seq(Nat), AfterReply(bytes) PROVE AfterSome
  BY <1>2 DEF AfterReply, AfterSome
<1>3. CASE HeaderRead
  BY <1>1, <1>2, <1>3 DEF HeaderRead
<1>4. CASE PageTakenForHeader
  <2>1. PICK n \in 1 .. Len(recvChunk.bytes) :
          AfterReply(SubSeq(recvChunk.bytes, n + 1, Len(recvChunk.bytes)))
    BY <1>4 DEF PageTakenForHeader
  <2>2. SubSeq(recvChunk.bytes, n + 1, Len(recvChunk.bytes)) \in Seq(Nat)
    BY <1>1
  <2> QED
    BY <1>2, <2>1, <2>2
<1> QED
  BY <1>3, <1>4

LEMMA HttpTaskRuns ==
  ASSUME Running, TypeList, TypeHttp, MATASK_HTTP_GetPost
  PROVE  Running'
<1> USE SlotTyped, NumbersTyped, CommandRuns, GoesRuns, TaskDoneRuns, TaskFailsRuns
    DEF Fitting, Plain, AwaitsConnect, AwaitsEEPROM, TaskEnds, AllCommands, Commands, Ports, At
<1>0. task = HttpTask /\ ~busy /\ ~error
  BY DEF MATASK_HTTP_GetPost, Runs
<1>1. CASE HttpTrouble
  BY <1>0, <1>1 DEF HttpTrouble
<1>2. CASE Request /\ ~Nega({"DATA", "TCP_CONNECT", "DNS_REQUEST"})
  <2>1. At(3) => recvData \in Numbers
    BY <1>0, <1>2 DEF Running, Awaited, Answered, Nega
  <2>2. CASE At(3) \/ At(4)
    BY <1>0, <1>2, <2>1, <2>2 DEF Request
  <2>3. CASE At(5) \/ At(6)
    BY <1>0, <1>2, <2>3 DEF Request, Says_
  <2>4. CASE At(7)
    BY <1>0, <1>2, <2>4 DEF Request, HttpGetNextStep
  <2>5. CASE At(50)
    BY <1>0, <1>2, <2>5 DEF Request, TypeHttp
  <2>6. CASE At(100)
    BY <1>0, <1>2, <2>6 DEF Request, Says_
  <2> QED
    BY <1>2, <2>2, <2>3, <2>4, <2>5, <2>6 DEF Request
<1>3. CASE Header
  <2>1. HttpGetNextStep[2] \in {110, 255}
    BY DEF HttpGetNextStep
  <2> QED
    <3>1. recvChunk \in Chunks
      BY DEF Running, TypeRun, Chunks
    <3>2. AfterSome => Running'
      BY <1>0, LeftRuns DEF AfterSome
    <3> QED
      BY <1>0, <1>3, <2>1, <3>1, <3>2, ReplyLeaves DEF Header
<1>4. CASE Page
  <2>1. CASE full' = FALSE /\ taskStep' = HttpGetNextStep[3]
             /\ UNCHANGED <<task, param, cutCmd, error, tcpClosed, smtpSender, bios>>
    <3>1. HttpGetNextStep[3] \in {2, 255}
      BY DEF HttpGetNextStep
    <3> QED
      BY <1>0, <2>1, <3>1 DEF Running, bios, TypeRun, TaskAlone, Sending, Answered, Awaited
  <2>2. CASE Command("DATA", sockets[0], "empty", 110)
    BY <1>0, <2>2
  <2>3. CASE Overflow(recvChunk)
    <3>1. recvChunk \in Chunks
      BY DEF Running, TypeRun, Chunks
    <3> QED
      BY <1>0, <2>3, <3>1, OverflowRuns
  <2> QED
    BY <1>4, <2>1, <2>2, <2>3 DEF Page
<1>5. CASE PageEnds
  BY <1>0, <1>5 DEF PageEnds
<1>6. CASE (At(0) /\ Command("DNS_REQUEST", 0, "empty", 1)) \/ ((At(1) \/ At(2)) /\ Command("TCP_CONNECT", 0, "HTTP", 3))
  BY <1>0, <1>6
<1> QED
  BY <1>1, <1>2, <1>3, <1>4, <1>5, <1>6 DEF MATASK_HTTP_GetPost

LEMMA SettingsTasksRun ==
  ASSUME Running, MATASK_TelServer \/ MATASK_GetEEPROMData \/ MATASK_EEPROM_Read \/ MATASK_EEPROM_Write
  PROVE  Running'
<1> USE NumbersTyped, CommandRuns, GoesRuns, TaskDoneRuns, TaskFailsRuns
    DEF Fitting, Plain, AwaitsConnect, AwaitsEEPROM, TaskEnds, AllCommands, Commands, Runs, At,
        SettingsTask, Aborts, Opening, Ask, Closing
<1>1. CASE MATASK_EEPROM_Read
  BY <1>1 DEF MATASK_EEPROM_Read
<1>2. CASE MATASK_EEPROM_Write
  BY <1>2 DEF MATASK_EEPROM_Write
<1>3. CASE MATASK_GetEEPROMData
  BY <1>3 DEF MATASK_GetEEPROMData, FirstPart, SecondPart, Rejected
<1>4. CASE MATASK_TelServer
  BY <1>4 DEF MATASK_TelServer, FirstPart, SecondPart, Rejected
<1> QED
  BY <1>1, <1>2, <1>3, <1>4

----------------------------------------------------------------------------
(* What a server hears, and what it says.                                  *)

\* What a pair of a dialogue leads to.
LeadsOn(d, some) == d[3] \in some /\ d[4] \in Waits

LEMMA DialogueTyped ==
  \A d \in Dialogue : d[3] \in Dues /\ d[4] \in Waits /\ (d[3] = "page" => answered < 3)
<1> DEFINE Mails == {"nothing", "reply", "mail"}
           Pages == {"nothing", "page"}
<1>1. \A a, b, c, w : w \in Waits =>
        /\ c \in Mails => LeadsOn(<<a, b, c, w>>, Mails)
        /\ c \in Pages => LeadsOn(<<a, b, c, w>>, Pages)
  BY Zenon DEF LeadsOn
<1>2. /\ {"reply", "nothing", "mail"} \subseteq Mails /\ {"nothing", "page"} \subseteq Pages
      /\ {"bye", "smtp_ready", "smtp_from", "smtp_to", "smtp_text", "pop3_user", "pop3_ready",
          "http_get", "http_post", "http_answer", "http_content"} \subseteq Waits
  BY DEF Waits
<1> HIDE DEF Mails, Pages
<1>3. ASSUME NEW d \in MailDialogue PROVE LeadsOn(d, Mails)
  <2>1. ASSUME NEW c, d = <<"pop3_ready", c, "reply", "pop3_ready">> PROVE LeadsOn(d, Mails)
    BY <1>1, <1>2, <2>1
  <2>2. ASSUME NEW s, d = <<s, "QUIT", "reply", "bye">> PROVE LeadsOn(d, Mails)
    BY <1>1, <1>2, <2>2
  <2> QED
    BY <1>1, <1>2, <1>3, <2>1, <2>2 DEF MailDialogue
<1>4. ASSUME NEW c, NEW d \in HttpDialogue(c) PROVE LeadsOn(d, Pages)
  BY <1>1, <1>2, <1>4 DEF HttpDialogue
<1> QED
  BY <1>3, <1>4 DEF Dialogue, Dues, LeadsOn, Mails, Pages

LEMMA HeardTyped ==
  ASSUME TypeAdapter, PageDue, NEW id \in Ids, NEW text
  PROVE  /\ Heard(id, text).owes \in Dues /\ Heard(id, text).waits \in Waits
         /\ Heard(id, text).owes = "page" => answered < 3
<1> DEFINE Fits_(d) == d[1] = peer[id] /\ d[2] = text
           d == CHOOSE d \in Dialogue : Fits_(d)
<1>1. CASE due = "nothing" /\ \E e \in Dialogue : Fits_(e)
  <2>1. d \in Dialogue
    BY <1>1
  <2>2. d[3] \in Dues /\ d[4] \in Waits /\ (d[3] = "page" => answered < 3)
    BY <2>1, DialogueTyped
  <2>3. d = CHOOSE e \in Dialogue : e[1] = peer[id] /\ e[2] = text
    OBVIOUS
  <2> HIDE DEF d
  <2> QED
    BY <1>1, <2>2, <2>3 DEF Heard, TypeAdapter, PageDue, Waits, Dues
<1>2. CASE ~(due = "nothing" /\ \E e \in Dialogue : Fits_(e))
  BY <1>2 DEF Heard, TypeAdapter, PageDue, Waits, Dues
<1> QED
  BY <1>1, <1>2

LEMMA BytesTyped ==
  ASSUME sent \in Nat, NEW k \in ChunkSizes
  PROVE  Bytes(k) \in Seq(Nat)
BY ServersAssumption DEF Bytes

LEMMA SaysTyped ==
  ASSUME TypeAdapter, NEW owes \in Dues, NEW chunk \in Says(owes)
  PROVE  chunk \in Chunks
<1> USE DEF ChunkLines, Headers, Chunks
<1>1. ASSUME NEW S \in SUBSET ChunkLines, chunk \in Lines(S)
      PROVE  chunk \in Chunks
  <2>1. PICK l \in S : chunk = [line |-> l, bytes |-> <<>>]
    BY <1>1 DEF Lines
  <2> QED
    BY <2>1
<1>2. ASSUME NEW S \in SUBSET ChunkLines, NEW len, chunk \in Follows(S, len)
      PROVE  chunk \in Chunks
  <2>1. PICK l \in S, k \in ChunkSizes : chunk = [line |-> l, bytes |-> Bytes(k)]
    BY <1>2 DEF Follows
  <2> QED
    BY <2>1, BytesTyped DEF TypeAdapter
<1>3. NoChunk \in Chunks
  BY DEF NoChunk
<1>4. Headers \ {"split"} \in SUBSET ChunkLines
  OBVIOUS
<1>5. CASE owes = "page"
  <2>1. chunk \in Lines({"none", "part", "split"}) \cup Follows(Headers \ {"split"}, PageLen)
    BY <1>5 DEF Says
  <2>2. {"none", "part", "split"} \in SUBSET ChunkLines
    OBVIOUS
  <2> HIDE DEF Chunks, Headers, ChunkLines
  <2> QED
    BY <1>1, <1>2, <1>4, <2>1, <2>2
<1> HIDE DEF Chunks, Headers
<1> QED
  BY <1>1, <1>2, <1>3, <1>5 DEF Says, Dues

LEMMA LastWordsTyped ==
  ASSUME TypeAdapter, PageDue, NEW id \in Ids, NEW text, NEW chunk \in LastWords(id, text)
  PROVE  chunk \in Chunks
<1>1. NoChunk \in Chunks
  BY DEF NoChunk, Chunks, ChunkLines
<1> QED
  BY <1>1, HeardTyped, SaysTyped DEF LastWords

----------------------------------------------------------------------------
(* The exchange, over the calls of the game and the answers.               *)

LEMMA BeginRuns ==
  ASSUME Running, ~error, ~busy, NEW t \in AllTasks, NEW step, NEW arg \in Numbers \cup Versions,
         Plain(t, step), SuitsCall(t, arg), Begin(t, step, arg)
  PROVE  Running'
BY StartsRuns DEF Begin

LEMMA AtRestIdle == ASSUME Running, NEW mode, AtRest(mode) PROVE ~error /\ ~busy
BY DEF AtRest, Running, TaskAlone

LEMMA CallsPlain ==
  ASSUME NEW t \in AllTasks \ {"TCP_DISCONNECT", "TCP_SENDRECV", "TCP_CUT", "EEPROM_WRITE"}
  PROVE  Plain(t, 0) /\ SuitsCall(t, 0)
BY DEF Plain, AwaitsConnect, AwaitsEEPROM, SuitsCall

LEMMA SocketCallsRun ==
  ASSUME Running, SocketCalls \/ MA_Offline \/ MA_TCP_Cut \/ MA_ApiPreExe \/ MAAPI_ErrorCheck
  PROVE  Running'
<1> USE NumbersTyped, BeginRuns, RefuseRuns, AtRestIdle
    DEF AllTasks, TcpTasks, Plain, AwaitsConnect, AwaitsEEPROM, SuitsCall
<1>1. CASE MA_TCP_Connect \/ MA_GetHostAddress \/ MA_Offline
  BY <1>1 DEF MA_TCP_Connect, MA_GetHostAddress, MA_Offline
<1>2. ASSUME NEW s \in Ids, MA_TCP_Disconnect(s) \/ MA_TCP_SendRecv(s)
      PROVE  Running'
  BY <1>2 DEF MA_TCP_Disconnect, MA_TCP_SendRecv
<1>3. CASE MA_ApiPreExe
  BY <1>3 DEF MA_ApiPreExe, Running, TaskAlone
<1>4. CASE MAAPI_ErrorCheck
  BY <1>4 DEF MAAPI_ErrorCheck, Running, TypeRun, TaskAlone, Sending, Answered, Awaited, api
<1>5. CASE MA_TCP_Cut
  BY <1>5 DEF MA_TCP_Cut, Running, TypeRun, TaskAlone, Sending, Answered, Awaited, bios
<1> QED
  BY <1>1, <1>2, <1>3, <1>4, <1>5 DEF SocketCalls

LEMMA MoreRuns ==
  ASSUME Running, ~error, ~busy, NEW t \in AllTasks, NEW step, Plain(t, step), SuitsCall(t, 0),
         NEW room, NEW way, NEW empty,
         RestGiven(t, step, room, way) \/ RestFills(room) \/ RestRefused(t, step, room, empty)
  PROVE  Running'
<1>1. CASE RestFills(room)
  BY <1>1 DEF RestFills, api, bios, Running, TypeRun, TaskAlone, Sending, Answered, Awaited
<1> QED
  BY <1>1, NumbersTyped, StartsRuns DEF RestGiven, RestRefused

LEMMA MailCallsRun ==
  ASSUME Running, MailCalls
  PROVE  Running'
<1> USE NumbersTyped, BeginRuns, AtRestIdle, CallsPlain DEF AllTasks, MailTasks
<1>1. CASE MA_SMTP_Connect \/ MA_POP3_Connect \/ MA_SMTP_Sender \/ MA_SMTP_Send
           \/ MA_SMTP_Quit \/ MA_POP3_Quit
  BY <1>1 DEF MA_SMTP_Connect, MA_POP3_Connect, MA_SMTP_Sender, MA_SMTP_Send, MA_SMTP_Quit,
              MA_POP3_Quit
<1>2. CASE MA_POP3_Stat \/ MA_POP3_List \/ MA_POP3_Dele
  BY <1>2 DEF MA_POP3_Stat, MA_POP3_List, MA_POP3_Dele, MA_POP3_Ask
<1>3. ASSUME NEW text, NEW room, NewMail(text, room)
      PROVE  Running'
  BY <1>3, StartsRuns DEF NewMail
<1>4. ASSUME NEW room, SameMail(room)
      PROVE  Running'
  <2>1. Plain("POP3_RETR", 1) /\ SuitsCall("POP3_RETR", 0)
    BY DEF Plain, AwaitsConnect, AwaitsEEPROM, SuitsCall
  <2> QED
    BY <1>4, <2>1, MoreRuns DEF SameMail
<1> QED
  BY <1>1, <1>2, <1>3, <1>4 DEF MailCalls, MA_POP3_Retr, MA_POP3_Head

LEMMA HttpCallRuns ==
  ASSUME Running, MA_HTTP_GetPost
  PROVE  Running'
<1> USE NumbersTyped, StartsRuns, MoreRuns, AtRestIdle DEF AllTasks
<1>0. /\ Plain(HttpTask, 0) /\ Plain(HttpTask, 2) /\ Plain(HttpTask, 110)
      /\ SuitsCall(HttpTask, 0)
  BY DEF Plain, AwaitsConnect, AwaitsEEPROM, SuitsCall
<1>1. CASE NewPage
  BY <1>0, <1>1 DEF NewPage
<1>2. ASSUME NEW room, SamePage(room)
      PROVE  Running'
  BY <1>0, <1>2 DEF SamePage
<1> QED
  BY <1>1, <1>2 DEF MA_HTTP_GetPost

LEMMA SettingsCallsRun ==
  ASSUME Running, MA_TelServer \/ MA_GetEEPROMData \/ MA_EEPROMRead \/ MA_EEPROMWrite
  PROVE  Running'
<1> USE NumbersTyped, BeginRuns, AtRestIdle, CallsPlain DEF AllTasks, SettingsTasks
<1>1. CASE MA_TelServer \/ MA_EEPROMRead
  BY <1>1 DEF MA_TelServer, MA_EEPROMRead
<1>2. CASE MA_EEPROMWrite
  <2>1. Plain("EEPROM_WRITE", 0) /\ \A v \in Versions : SuitsCall("EEPROM_WRITE", v)
    BY DEF Plain, AwaitsConnect, AwaitsEEPROM, SuitsCall
  <2> QED
    BY <1>2, <2>1 DEF MA_EEPROMWrite
<1>3. CASE MA_GetEEPROMData
  <2>1. Plain("NONE", taskStep) /\ SuitsCall("NONE", param) /\ param \in Numbers \cup Versions
    BY DEF Plain, AwaitsConnect, AwaitsEEPROM, SuitsCall, Running, TypeRun
  <2> QED
    BY <1>3, <2>1 DEF MA_GetEEPROMData
<1> QED
  BY <1>1, <1>2, <1>3

LEMMA ReplyRuns ==
  ASSUME Running, busy, sendCmd # None, NEW cmd, NEW data, NEW chunk \in Chunks,
         cmd = sendCmd \/ (sendCmd = "DATA" /\ cmd = "DATA_END"), data \in Numbers \cup Versions \cup {NoLine},
         cmd = "TCP_CONNECT" => data \in Ids, cmd = "EEPROM_READ" => data \in {0} \cup Versions,
         Reply(cmd, data, chunk), UNCHANGED <<api, error>>
  PROVE  Running'
BY NumbersTyped DEF Reply, api, Running, TypeRun, TaskAlone, Sending, Answered, Awaited, Chunks, AllCommands

LEMMA GoodRuns ==
  ASSUME Running, busy, sendCmd \notin {None, "TCP_CONNECT", "EEPROM_READ"}, Good, UNCHANGED <<api, error>>
  PROVE  Running'
<1>1. NoChunk \in Chunks
  BY DEF NoChunk, Chunks, ChunkLines
<1> QED
  BY <1>1, NumbersTyped, ReplyRuns DEF Good

LEMMA RefusedRuns ==
  ASSUME Running, busy, Refused, UNCHANGED <<api, error>>
  PROVE  Running'
<1> USE DEF Refused, api, Running
<1>1. TypeRun'
  BY NumbersTyped DEF TypeRun, Sending
<1>2. TaskAlone' /\ Awaited'
  BY DEF TaskAlone, Awaited
<1>4. Sending'
  <2>1. sendCmd = "TCP_CONNECT" /\ busy' => tcpConnectRetryCount' < 5
    <3>1. sendCmd = "TCP_CONNECT" /\ busy' =>
            tcpConnectRetryCount' = tcpConnectRetryCount + 1 /\ tcpConnectRetryCount' # 5
      OBVIOUS
    <3>2. sendCmd = "TCP_CONNECT" => tcpConnectRetryCount \in 0..4
      BY DEF TypeRun, Sending
    <3> HIDE DEF Refused, Running
    <3> QED
      BY <3>1, <3>2
  <2> QED
    BY <2>1 DEF Sending
<1>3. Answered'
  BY DEF TypeRun, Sending, Answered
<1> QED
  BY <1>1, <1>2, <1>3, <1>4

LEMMA AnswerRuns ==
  ASSUME Running, TypeAdapter, PageDue, MA_ProcessRecvPacket \/ SettingsAnswers
  PROVE  Running'
<1> USE NumbersTyped, ReplyRuns, GoodRuns, RefusedRuns DEF flags
<1>0. NoChunk \in Chunks
  BY DEF NoChunk, Chunks, ChunkLines
<1>1. CASE MA_ProcessRecvPacket
  <2>1. ASSUME NEW id \in Ids, Reply(sendCmd, id, NoChunk), sendCmd = "TCP_CONNECT"
        PROVE  Running'
    BY <1>0, <1>1, <2>1 DEF MA_ProcessRecvPacket
  <2>2. ASSUME sendCmd = "DATA", sendSocket \in open, NEW chunk,
               \/ /\ chunk \in Says(Heard(sendSocket, sendText).owes)
                  /\ Reply(sendCmd, Garbage, chunk)
               \/ /\ chunk \in LastWords(sendSocket, sendText)
                  /\ Reply("DATA_END", Garbage, chunk)
        PROVE  Running'
    <3>1. chunk \in Chunks
      BY <2>2, HeardTyped, SaysTyped, LastWordsTyped DEF open
    <3> QED
      BY <1>1, <2>2, <3>1 DEF MA_ProcessRecvPacket
  <2> QED
    BY <1>1, <2>1, <2>2 DEF MA_ProcessRecvPacket, Commands
<1>2. CASE SettingsAnswers
  <2>1. CASE sendCmd = "CHECK_STATUS"
    BY <1>0, <1>2, <2>1 DEF SettingsAnswers
  <2>2. CASE sendCmd = "EEPROM_READ" /\ Reply(sendCmd, eeprom[sendSocket], NoChunk)
    <3>1. eeprom[sendSocket] \in {0} \cup Versions
      BY <1>2, <2>2 DEF SettingsAnswers, TypeAdapter, Running, Sending
    <3> QED
      BY <1>0, <1>2, <2>2, <3>1 DEF SettingsAnswers
  <2> QED
    BY <1>2, <2>1, <2>2 DEF SettingsAnswers
<1> QED
  BY <1>1, <1>2

LEMMA SessionEndsRuns ==
  ASSUME Running, SessionEnds
  PROVE  Running'
BY DEF SessionEnds, Running, TypeRun, TaskAlone, Sending, Answered, Awaited, AllTasks,
       AwaitsConnect, AwaitsEEPROM, SuitsCall

LEMMA RunningKept ==
  ASSUME Running, TypeList, TypeMail, TypeHttp, TypeAdapter, PageDue, [Next]_vars
  PROVE  Running'
<1>1. CASE Game
  BY <1>1, SocketCallsRun, MailCallsRun, HttpCallRuns, SettingsCallsRun DEF Game, GoesOffline
<1>2. CASE MAAPI_Main
  BY <1>2, SocketTasksRun, MailTasksRun, HttpTaskRuns, SettingsTasksRun DEF MAAPI_Main
<1>3. CASE Answer
  BY <1>3, AnswerRuns DEF Answer
<1>4. CASE ServerCloses \/ UNCHANGED vars
  BY <1>4, UnchangedRuns DEF ServerCloses, vars, socketVars
<1>5. CASE Leaves
  BY <1>5, SessionEndsRuns DEF Leaves
<1> QED
  BY <1>1, <1>2, <1>3, <1>4, <1>5 DEF Next

----------------------------------------------------------------------------
(* The adapter: only its answers, and the end of a session, change what it *)
(* holds; a call resets the two counts of what its server has said.        *)

LEMMA TasksKeepAdapter == MAAPI_Main => UNCHANGED <<adapter, eeprom>>
<1>1. SocketTasks => UNCHANGED adapter
  BY DEF SocketTasks, MATASK_TCP_Connect, MATASK_TCP_Disconnect, MATASK_TCP_SendRecv,
         MATASK_GetHostAddress, MATASK_Offline, MATASK_TCP_Cut
<1>2. MailTasksStep => UNCHANGED adapter
  BY DEF MailTasksStep, MailTrouble, MailRuns, MATASK_SMTP_Connect, MATASK_SMTP_Sender,
         MATASK_SMTP_Send, MATASK_SMTP_POP3_Quit, MATASK_POP3_Connect, MATASK_POP3_Stat,
         MATASK_POP3_List, MATASK_POP3_Dele, MATASK_POP3_Retr, Asks
<1>3. MATASK_HTTP_GetPost => UNCHANGED adapter
  BY DEF MATASK_HTTP_GetPost
<1>4. MATASK_TelServer \/ MATASK_GetEEPROMData \/ MATASK_EEPROM_Read \/ MATASK_EEPROM_Write =>
        UNCHANGED <<adapter, eeprom>>
  BY DEF MATASK_TelServer, MATASK_GetEEPROMData, MATASK_EEPROM_Read, MATASK_EEPROM_Write,
         SettingsTask
<1> QED
  BY <1>1, <1>2, <1>3, <1>4 DEF MAAPI_Main

Restarts == UNCHANGED <<online, peer, due>> /\ sent' \in {sent, 0} /\ answered' \in {answered, 0}

LEMMA BeginRestarts == ASSUME NEW t, NEW step, NEW arg, Begin(t, step, arg) PROVE Restarts
BY DEF Begin, Starts, Restarts

LEMMA MoreRestarts ==
  ASSUME NEW t, NEW step, NEW room, NEW way, NEW empty, UNCHANGED <<sent, answered>>,
         RestGiven(t, step, room, way) \/ RestFills(room) \/ RestRefused(t, step, room, empty)
  PROVE  Restarts
BY DEF RestGiven, RestFills, RestRefused, Starts, Restarts

LEMMA GameRestarts == Game => Restarts /\ UNCHANGED eeprom
<1> USE BeginRestarts, MoreRestarts
<1>1. adapter' = adapter => Restarts
  BY DEF adapter, Restarts
<1>2. SocketCalls \/ GoesOffline \/ MA_TCP_Cut \/ MA_ApiPreExe \/ MAAPI_ErrorCheck => Restarts
  BY <1>1 DEF SocketCalls, GoesOffline, MA_Offline, MA_TCP_Connect, MA_GetHostAddress, MA_TCP_Disconnect,
              MA_TCP_SendRecv, MA_TCP_Cut, MA_ApiPreExe, MAAPI_ErrorCheck, Refuse
<1>3. MailCalls => Restarts
  <2>1. ASSUME NEW text, NEW room, NewMail(text, room) PROVE Restarts
    BY <2>1 DEF NewMail, Starts, Restarts
  <2>2. ASSUME NEW room, SameMail(room) PROVE Restarts
    BY <2>2 DEF SameMail
  <2> QED
    BY <2>1, <2>2 DEF MailCalls, MA_SMTP_Connect, MA_SMTP_Sender, MA_SMTP_Send, MA_SMTP_Quit,
       MA_POP3_Connect, MA_POP3_Quit, MA_POP3_Stat, MA_POP3_List, MA_POP3_Dele, MA_POP3_Ask,
       MA_POP3_Retr, MA_POP3_Head
<1>4. MA_HTTP_GetPost => Restarts
  <2>1. NewPage => Restarts
    BY DEF NewPage, Starts, Restarts
  <2>2. ASSUME NEW room, SamePage(room) PROVE Restarts
    BY <2>2 DEF SamePage
  <2> QED
    BY <2>1, <2>2 DEF MA_HTTP_GetPost
<1>5. MA_TelServer \/ MA_GetEEPROMData \/ MA_EEPROMRead \/ MA_EEPROMWrite =>
        Restarts /\ UNCHANGED eeprom
  BY DEF MA_TelServer, MA_GetEEPROMData, MA_EEPROMRead, MA_EEPROMWrite, Aside
<1> QED
  BY <1>2, <1>3, <1>4, <1>5 DEF Game

\* What the server owes after a chunk.
LEMMA OwesTyped ==
  ASSUME sent \in Nat, NEW owes \in Dues, NEW chunk \in Chunks
  PROVE  Owes(owes, chunk) \in Dues /\ (Owes(owes, chunk) = "page" => owes = "page" /\ chunk.line \notin Headers)
BY DEF Owes, Dues

LEMMA AnswersTyped ==
  ASSUME TypeAdapter, PageDue, Running, Answer
  PROVE  TypeAdapter' /\ PageDue'
<1> USE DEF TypeAdapter, PageDue
<1>0. Closed \in Waits /\ "nothing" \in Dues /\ \A port \in DOMAIN Ports : Ports[port] \in Waits
  <2>1. DOMAIN Ports = {"own", "SMTP", "POP3", "HTTP"}
    BY DEF Ports
  <2>2. Ports["own"] = "own" /\ Ports["SMTP"] = "smtp" /\ Ports["POP3"] = "pop3" /\ Ports["HTTP"] = "http"
    BY DEF Ports
  <2> QED
    BY <2>1, <2>2 DEF Waits, Dues
<1>1. ASSUME MA_ProcessRecvPacket, UNCHANGED eeprom PROVE TypeAdapter' /\ PageDue'
  <2>1. ASSUME NEW id \in Ids \ open, Connected(id, sendText), sendCmd = "TCP_CONNECT", busy
        PROVE  TypeAdapter' /\ PageDue'
    <3>1. sendText \in DOMAIN Ports
      BY <2>1 DEF Running, Sending
    <3>2. due' \in {due, "reply", "nothing"}
      BY <2>1, <3>1 DEF Connected, Ports
    <3> QED
      BY <1>0, <1>1, <2>1, <3>1, <3>2 DEF Connected, Dues
  <2>2. ASSUME NEW id \in open, Lost(id) \/ AllLost
        PROVE  TypeAdapter' /\ PageDue'
    BY <1>0, <1>1, <2>2 DEF Lost, AllLost, Dues
  <2>3. ASSUME AllLost
        PROVE  TypeAdapter' /\ PageDue'
    BY <1>0, <1>1, <2>3 DEF AllLost, Dues
  <2>4. ASSUME NEW id \in open, NEW text, NEW chunk \in Says(Heard(id, text).owes),
               Converse(id, text, chunk)
        PROVE  TypeAdapter' /\ PageDue'
    <3>1. /\ Heard(id, text).owes \in Dues /\ Heard(id, text).waits \in Waits
          /\ Heard(id, text).owes = "page" => answered < 3
      BY HeardTyped DEF open
    <3>2. chunk \in Chunks
      BY <3>1, SaysTyped
    <3>3. due' \in Dues
      BY <2>4, <3>1, <3>2, OwesTyped DEF Converse
    <3>4. sent' \in Nat /\ answered' \in 0..3
      BY <2>4, <3>1, <3>2 DEF Converse, Chunks
    <3>5. PageDue'
      <4>1. CASE peer[id] = "own" \/ Owes(Heard(id, text).owes, chunk) # "page"
        BY <2>4, <4>1 DEF Converse, Heard
      <4>2. CASE peer[id] # "own" /\ Owes(Heard(id, text).owes, chunk) = "page"
        BY <2>4, <3>1, <3>2, <4>2, OwesTyped DEF Converse
      <4> QED
        BY <4>1, <4>2
    <3>6. peer' \in [Ids -> Waits]
      BY <2>4, <3>1 DEF Converse
    <3> QED
      BY <1>1, <3>3, <3>4, <3>5, <3>6
  <2>5. ASSUME NEW id \in open, NEW text, NEW chunk \in LastWords(id, text), HangsUp(id, text, chunk)
        PROVE  TypeAdapter' /\ PageDue'
    <3>1. chunk \in Chunks
      BY LastWordsTyped DEF open
    <3>2. sent' \in Nat
      BY <2>5, <3>1 DEF HangsUp, Chunks
    <3> QED
      BY <1>0, <1>1, <2>5, <3>2 DEF HangsUp
  <2> QED
    BY <1>1, <2>1, <2>2, <2>3, <2>4, <2>5 DEF MA_ProcessRecvPacket, adapter
<1>2. ASSUME SettingsAnswers PROVE TypeAdapter' /\ PageDue'
  <2>1. sendCmd = "EEPROM_WRITE" /\ busy => sendSocket \in {0, 1} /\ param \in Versions
    BY DEF Running, Sending
  <2> QED
    BY <1>2, <2>1 DEF SettingsAnswers
<1> QED
  BY <1>1, <1>2 DEF Answer

LEMMA AdapterKept ==
  ASSUME TypeAdapter, PageDue, Running, [Next]_vars
  PROVE  TypeAdapter' /\ PageDue'
<1> USE DEF TypeAdapter, PageDue
<1>1. CASE Game
  BY <1>1, GameRestarts DEF Restarts
<1>2. CASE MAAPI_Main \/ UNCHANGED vars
  BY <1>2, TasksKeepAdapter DEF adapter, vars, socketVars
<1>3. CASE Answer
  BY <1>3, AnswersTyped
<1>4. CASE ServerCloses
  BY <1>4 DEF ServerCloses, Waits
<1>5. CASE Leaves
  BY <1>5 DEF Leaves, SessionEnds, AllLost, Waits, Dues
<1> QED
  BY <1>1, <1>2, <1>3, <1>4, <1>5 DEF Next

----------------------------------------------------------------------------
(* The flags.  A step of a task sends a command, fails, fills the buffer of *)
(* the game, or goes on and lowers a flag at most.                          *)

Settles ==
  /\ UNCHANGED <<error, tcpClosed, busy>>
  /\ task' \in {task, "NONE"} /\ full' \in {full, FALSE} /\ smtpSender' \in {smtpSender, TRUE, FALSE}

PlainMoves ==
  (\E cmd, socket, text, step : Command(cmd, socket, text, step)) \/ TaskFails \/ Settles

TaskMoves == PlainMoves \/ \E chunk : Overflow(chunk)

LEMMA PartsSettle ==
  \/ \E step : Goes(step)
  \/ TaskDone /\ smtpSender' \in {smtpSender, TRUE, FALSE}
  => Settles
BY Zenon DEF Goes, TaskDone, flags, bios, Settles

LEMMA SocketTasksMove == SocketTasks => PlainMoves
<1> USE PartsSettle DEF TaskEnds
<1>1. MATASK_TCP_Cut => PlainMoves
  <2>1. /\ task' = "NONE" /\ taskStep' = 0 /\ recvCmd' = None
        /\ UNCHANGED <<param, cutCmd, flags, busy, sendCmd, sendSocket, sendText, recvData,
                       recvChunk, tcpConnectRetryCount>>
        => Settles
    BY DEF flags, Settles
  <2> QED
    BY <2>1 DEF MATASK_TCP_Cut, PlainMoves
<1>2. MATASK_Offline => PlainMoves
  BY DEF MATASK_Offline, SayLine, ReadOn, PlainMoves
<1>3. MATASK_TCP_Connect \/ MATASK_TCP_Disconnect \/ MATASK_TCP_SendRecv \/ MATASK_GetHostAddress
        => PlainMoves
  BY DEF MATASK_TCP_Connect, MATASK_TCP_Disconnect, MATASK_TCP_SendRecv, MATASK_GetHostAddress,
         PlainMoves
<1> QED
  BY <1>1, <1>2, <1>3 DEF SocketTasks

LEMMA MailTasksMove == MailTasksStep => PlainMoves \/ (MATASK_POP3_Retr /\ TaskMoves)
<1> USE PartsSettle DEF TaskEnds, PlainMoves
<1>1. ASSUME NEW t, MailTrouble(t) PROVE PlainMoves
  BY <1>1 DEF MailTrouble, MailClosed, MailGivenUp, MailFails
<1>2. ASSUME NEW text, NEW step, SayLine(text, step) PROVE PlainMoves
  BY <1>2 DEF SayLine
<1>3. ReadOn => PlainMoves
  BY DEF ReadOn
<1>4. ASSUME NEW step, ReadTo(step) PROVE PlainMoves
  BY <1>4 DEF ReadTo
<1>5. ASSUME NEW port, Opens(port) PROVE PlainMoves
  BY <1>5 DEF Opens
<1> HIDE DEF PlainMoves
<1>6. MATASK_SMTP_Connect \/ MATASK_POP3_Connect => PlainMoves
  BY <1>1, <1>2, <1>3, <1>4, <1>5 DEF MATASK_SMTP_Connect, MATASK_POP3_Connect, Reads, Opened, PlainMoves
<1>7. MATASK_SMTP_Sender => PlainMoves
  BY <1>1, <1>2, <1>3, <1>4 DEF MATASK_SMTP_Sender, Reads, PlainMoves
<1>8. MATASK_SMTP_Send => PlainMoves
  <2>1. SendPiece => PlainMoves
    BY <1>2 DEF SendPiece, PlainMoves
  <2>2. smtpSender' = FALSE /\ UNCHANGED <<task, param, cutCmd, error, tcpClosed, full, bios>>
          => Settles
    BY DEF Settles, bios
  <2>3. SendSteps => PlainMoves
    BY <1>2, <2>1, <2>2 DEF SendSteps, PlainMoves
  <2> QED
    BY <1>1, <1>3, <1>4, <2>3 DEF MATASK_SMTP_Send, Reads, PlainMoves
<1>9. MATASK_SMTP_POP3_Quit => PlainMoves
  BY <1>1, <1>2, <1>3, <1>4 DEF MATASK_SMTP_POP3_Quit, QuitSteps, PlainMoves
<1>10. MATASK_POP3_Stat \/ MATASK_POP3_List \/ MATASK_POP3_Dele => PlainMoves
  BY <1>1, <1>2, <1>3, <1>4
     DEF MATASK_POP3_Stat, MATASK_POP3_List, MATASK_POP3_Dele, Asks, Reads, Ends, PlainMoves
<1>11. MATASK_POP3_Retr => TaskMoves
  <2>1. ASSUME NEW chunk, EndTest(chunk) PROVE PlainMoves
    BY <2>1 DEF EndTest, Poll, PlainMoves
  <2>2. ASSUME NEW chunk, RetrStore(chunk) PROVE TaskMoves
    BY <2>1, <2>2 DEF RetrStore, Poll, PlainMoves, TaskMoves
  <2> QED
    BY <1>1, <1>2, <2>2 DEF MATASK_POP3_Retr, Ends, PlainMoves, TaskMoves
<1> QED
  BY <1>6, <1>7, <1>8, <1>9, <1>10, <1>11 DEF MailTasksStep

LEMMA HttpTaskMoves == MATASK_HTTP_GetPost => TaskMoves
<1> USE PartsSettle DEF TaskEnds, TaskMoves, PlainMoves
<1>1. Request => TaskMoves
  BY DEF Request, Says_
<1>2. Header => TaskMoves
  <2>1. UNCHANGED <<api, flags, busy, sendCmd, sendSocket, sendText, recvCmd, recvData,
                    tcpConnectRetryCount>> => Settles
    BY DEF Settles, api, flags
  <2> QED
    BY <2>1 DEF Header, HeaderRead, PageTakenForHeader, AfterReply
<1>3. Page => TaskMoves
  <2>1. full' = FALSE /\ UNCHANGED <<task, param, cutCmd, error, tcpClosed, smtpSender, bios>>
          => Settles
    BY DEF Settles, bios
  <2> QED
    BY <2>1 DEF Page
<1>4. PageEnds \/ HttpTrouble => TaskMoves
  BY DEF PageEnds, HttpTrouble
<1> QED
  BY <1>1, <1>2, <1>3, <1>4 DEF MATASK_HTTP_GetPost

LEMMA SettingsTasksMove ==
  MATASK_TelServer \/ MATASK_GetEEPROMData \/ MATASK_EEPROM_Read \/ MATASK_EEPROM_Write => PlainMoves
<1> USE PartsSettle
    DEF TaskEnds, PlainMoves, SettingsTask, Aborts, Opening, Ask, Closing, FirstPart, SecondPart, Rejected
<1> QED
  BY DEF MATASK_TelServer, MATASK_GetEEPROMData, MATASK_EEPROM_Read, MATASK_EEPROM_Write

LEMMA TasksMove == MAAPI_Main => TaskMoves
BY SocketTasksMove, MailTasksMove, HttpTaskMoves, SettingsTasksMove DEF MAAPI_Main, TaskMoves

Flagged == {error, tcpClosed, full, smtpSender, busy} \subseteq BOOLEAN

LEMMA TasksFlagged ==
  ASSUME Flagged, TaskMoves
  PROVE  Flagged'
<1>1. ASSUME NEW cmd, NEW socket, NEW text, NEW step, Command(cmd, socket, text, step)
      PROVE  Flagged'
  BY <1>1, Zenon DEF Command, Send, Flagged
<1>2. CASE TaskFails
  BY <1>2, Zenon DEF TaskFails, SetApiError, Flagged
<1>3. ASSUME NEW chunk, Overflow(chunk) PROVE Flagged'
  BY <1>3, Zenon DEF Overflow, KeepRest, Flagged
<1>4. CASE Settles
  BY <1>4, Zenon DEF Settles, Flagged
<1> QED
  BY <1>1, <1>2, <1>3, <1>4, Zenon DEF TaskMoves, PlainMoves

LEMMA RefuseFlagged == ASSUME Flagged, Refuse, tcpClosed' \in {tcpClosed, FALSE} PROVE Flagged'
BY Zenon DEF Refuse, SetApiError, Flagged

LEMMA StartsFlagged ==
  ASSUME Flagged, NEW t, NEW step, NEW arg, Starts(t, step, arg),
         tcpClosed' \in {tcpClosed, FALSE}, full' \in {full, FALSE}
  PROVE  Flagged'
BY Zenon DEF Starts, bios, Flagged

LEMMA BeginFlagged ==
  ASSUME Flagged, NEW t, NEW step, NEW arg, Begin(t, step, arg)
  PROVE  Flagged'
BY StartsFlagged DEF Begin

LEMMA MoreFlagged ==
  ASSUME Flagged, tcpClosed' \in {tcpClosed, FALSE}
  PROVE  /\ \A room : RestFills(room) => Flagged'
         /\ \A t, step, room, way : RestGiven(t, step, room, way) => Flagged'
         /\ \A t, step, room, empty : RestRefused(t, step, room, empty) => Flagged'
<1>1. ASSUME NEW room, RestFills(room) PROVE Flagged'
  BY <1>1, Zenon DEF RestFills, bios, Flagged
<1>2. ASSUME NEW t, NEW step, NEW room, NEW way, RestGiven(t, step, room, way) PROVE Flagged'
  BY <1>2, StartsFlagged DEF RestGiven
<1>3. ASSUME NEW t, NEW step, NEW room, NEW empty, RestRefused(t, step, room, empty) PROVE Flagged'
  BY <1>3, StartsFlagged DEF RestRefused
<1> QED
  BY <1>1, <1>2, <1>3

LEMMA GameFlagged ==
  ASSUME Flagged, Game
  PROVE  Flagged'
<1> USE BeginFlagged
<1>1. CASE SocketCalls \/ GoesOffline
  BY <1>1, RefuseFlagged DEF SocketCalls, GoesOffline, MA_Offline, MA_TCP_Connect,
     MA_GetHostAddress, MA_TCP_Disconnect, MA_TCP_SendRecv
<1>2. CASE MA_ApiPreExe
  BY <1>2, RefuseFlagged DEF MA_ApiPreExe
<1>3. CASE MAAPI_ErrorCheck
  BY <1>3, Zenon DEF MAAPI_ErrorCheck, bios, Flagged
<1>4. CASE MA_TCP_Cut
  BY <1>4, Zenon DEF MA_TCP_Cut, bios, Flagged
<1>5. CASE MailCalls
  <2>1. ASSUME NEW text, NEW room, NewMail(text, room) PROVE Flagged'
    BY <2>1, StartsFlagged DEF NewMail
  <2>2. ASSUME NEW room, SameMail(room) PROVE Flagged'
    BY <2>2, MoreFlagged DEF SameMail
  <2> QED
    BY <1>5, <2>1, <2>2 DEF MailCalls, MA_SMTP_Connect, MA_SMTP_Sender, MA_SMTP_Send, MA_SMTP_Quit,
       MA_POP3_Connect, MA_POP3_Quit, MA_POP3_Stat, MA_POP3_List, MA_POP3_Dele, MA_POP3_Ask,
       MA_POP3_Retr, MA_POP3_Head
<1>6. CASE MA_HTTP_GetPost
  <2>1. NewPage => Flagged'
    BY StartsFlagged DEF NewPage
  <2>2. ASSUME NEW room, SamePage(room) PROVE Flagged'
    <3>1. \/ RestGiven(HttpTask, 110, room, TRUE) \/ RestFills(room)
          \/ RestRefused(HttpTask, 110, room, TRUE)
      BY <2>2 DEF SamePage
    <3>2. tcpClosed' \in {tcpClosed, FALSE}
      BY <2>2 DEF SamePage
    <3> QED
      BY <3>1, <3>2, MoreFlagged
  <2> QED
    BY <1>6, <2>1, <2>2 DEF MA_HTTP_GetPost
<1>7. CASE MA_TelServer \/ MA_GetEEPROMData \/ MA_EEPROMRead \/ MA_EEPROMWrite
  BY <1>7 DEF MA_TelServer, MA_GetEEPROMData, MA_EEPROMRead, MA_EEPROMWrite
<1> QED
  BY <1>1, <1>2, <1>3, <1>4, <1>5, <1>6, <1>7 DEF Game

LEMMA AnswerFlagged ==
  ASSUME Flagged, Answer
  PROVE  Flagged'
<1>1. UNCHANGED <<error, full, smtpSender>> /\ (tcpClosed' = tcpClosed \/ tcpClosed' = TRUE)
  <2>1. CASE MA_ProcessRecvPacket
    BY <2>1 DEF MA_ProcessRecvPacket
  <2>2. CASE SettingsAnswers
    BY <2>2 DEF SettingsAnswers, flags
  <2> QED
    BY <2>1, <2>2 DEF Answer
<1>2. busy' \in BOOLEAN
  <2>1. Refused => busy' \in BOOLEAN
    BY DEF Refused
  <2>2. ASSUME NEW cmd, NEW data, NEW chunk, Reply(cmd, data, chunk) PROVE busy' \in BOOLEAN
    BY <2>2 DEF Reply
  <2> QED
    BY <2>1, <2>2 DEF Answer, MA_ProcessRecvPacket, SettingsAnswers, Good
<1> QED
  BY <1>1, <1>2, Zenon DEF Flagged

LEMMA FlagsKept ==
  ASSUME Flagged, [Next]_vars
  PROVE  Flagged'
<1>1. CASE MAAPI_Main
  BY <1>1, TasksMove, TasksFlagged
<1>2. CASE ServerCloses
  BY <1>2, Zenon DEF ServerCloses, flags, bios, Flagged
<1>3. CASE UNCHANGED vars
  BY <1>3, Zenon DEF vars, socketVars, flags, bios, Flagged
<1>4. CASE Leaves
  BY <1>4, Zenon DEF Leaves, SessionEnds, Flagged
<1> QED
  BY <1>1, <1>2, <1>3, <1>4, GameFlagged, AnswerFlagged DEF Next

----------------------------------------------------------------------------
(* The socket list.                                                        *)

Tabled == usedSockets \in [Slots -> BOOLEAN] /\ sockets \in [Slots -> Numbers]

LEMMA LowestSlot == ASSUME NEW S \in SUBSET Slots, S # {} PROVE Lowest(S) \in S
<1>1. CASE 0 \in S
  <2>1. \A i \in S : 0 <= i
    BY DEF Slots, NUM_SOCKETS
  <2> QED
    BY <1>1, <2>1 DEF Lowest
<1>2. CASE 0 \notin S
  <2>1. \A i, j \in S : i <= j
    BY <1>2 DEF Slots, NUM_SOCKETS
  <2> QED
    BY <2>1 DEF Lowest
<1> QED
  BY <1>1, <1>2

LEMMA TableOps ==
  ASSUME Tabled
  PROVE  /\ 0 \in Slots
         /\ FreeSlot0 \/ FreeSlot \/ MAU_Socket_Clear \/ UNCHANGED table => Tabled'
         /\ \A s \in Numbers : MAU_Socket_Add(s) => Tabled'
         /\ \A s : usedSockets' = MAU_Socket_Delete(s) /\ UNCHANGED sockets => Tabled'
         /\ \A s : usedSockets' = [MAU_Socket_Delete(s) EXCEPT ![0] = FALSE]
                    => (sockets' = [sockets EXCEPT ![0] = 0] => Tabled')
         /\ \A s \in Numbers :
              usedSockets' \in {usedSockets, [usedSockets EXCEPT ![0] = TRUE],
                                [usedSockets EXCEPT ![0] = FALSE]}
              => (sockets' \in {sockets, [sockets EXCEPT ![0] = s]} => Tabled')
<1> USE NumbersTyped DEF Tabled
<1>1. 0 \in Slots
  BY DEF Slots, NUM_SOCKETS
<1>2. FreeSlot0 \/ FreeSlot \/ MAU_Socket_Clear \/ UNCHANGED table => Tabled'
  BY <1>1 DEF FreeSlot0, FreeSlot, MAU_Socket_Clear, table
<1>3. ASSUME NEW s \in Numbers, MAU_Socket_Add(s) PROVE Tabled'
  BY <1>3, LowestSlot DEF MAU_Socket_Add, FreeSlots, table
<1>4. ASSUME NEW s PROVE MAU_Socket_Delete(s) \in [Slots -> BOOLEAN]
  BY LowestSlot DEF MAU_Socket_Delete, Holding
<1>5. ASSUME NEW s \in Numbers,
             usedSockets' \in {usedSockets, [usedSockets EXCEPT ![0] = TRUE],
                               [usedSockets EXCEPT ![0] = FALSE]},
             sockets' \in {sockets, [sockets EXCEPT ![0] = s]}
      PROVE  Tabled'
  BY <1>1, <1>5
<1> HIDE DEF Tabled
<1>6. ASSUME NEW s, usedSockets' = MAU_Socket_Delete(s), UNCHANGED sockets PROVE Tabled'
  BY <1>4, <1>6 DEF Tabled
<1>7. ASSUME NEW s, usedSockets' = [MAU_Socket_Delete(s) EXCEPT ![0] = FALSE],
             sockets' = [sockets EXCEPT ![0] = 0]
      PROVE  Tabled'
  BY <1>1, <1>4, <1>7 DEF Tabled
<1> QED
  BY <1>1, <1>2, <1>3, <1>5, <1>6, <1>7

Modes == {"OFFLINE", "PPP", "SMTP", "POP3"}

LEMMA SocketTasksList ==
  ASSUME Tabled, Running, SocketTasks
  PROVE  Tabled' /\ connMode' \in {connMode, "PPP", "OFFLINE"} /\ held' \in SUBSET (held \cup Ids)
<1> USE TableOps, NumbersTyped DEF Runs, At, Nega
<1>1. CASE MATASK_TCP_Connect
  <2>1. task = "TCP_CONNECT" /\ taskStep = 1 /\ ~busy /\ ~Nega({"TCP_CONNECT"}) => recvData \in Ids
    BY DEF Running, Awaited, AwaitsConnect, Answered
  <2> QED
    BY <1>1, <2>1 DEF MATASK_TCP_Connect
<1>2. CASE MATASK_TCP_Disconnect
  BY <1>2 DEF MATASK_TCP_Disconnect
<1>3. CASE MATASK_TCP_SendRecv
  BY <1>3 DEF MATASK_TCP_SendRecv
<1>4. CASE MATASK_GetHostAddress
  BY <1>4 DEF MATASK_GetHostAddress
<1>5. CASE MATASK_Offline
  BY <1>5 DEF MATASK_Offline
<1>6. CASE MATASK_TCP_Cut
  <2>1. task = "TCP_CUT" /\ taskStep = 0 /\ ~busy /\ cutCmd = "TCP_CONNECT" => recvData \in Numbers
    BY DEF Running, Awaited, Answered
  <2> QED
    BY <1>6, <2>1 DEF MATASK_TCP_Cut
<1> QED
  BY <1>1, <1>2, <1>3, <1>4, <1>5, <1>6 DEF SocketTasks

LEMMA MailTasksList ==
  ASSUME Tabled, Running, MailTasksStep
  PROVE  Tabled' /\ connMode' \in {connMode} \cup Modes /\ UNCHANGED held
<1> USE TableOps DEF Runs, At, Nega, Modes
<1> DEFINE Goal == Tabled' /\ connMode' \in {connMode} \cup Modes /\ UNCHANGED held
<1>1. ASSUME NEW t, MailTrouble(t) PROVE Goal
  <2>1. ASSUME usedSockets' = [usedSockets EXCEPT ![0] = FALSE], UNCHANGED sockets PROVE Tabled'
    BY <2>1 DEF FreeSlot
  <2> QED
    BY <1>1, <2>1 DEF MailTrouble, MailClosed, MailGivenUp, MailFails
<1>2. Same /\ UNCHANGED held => Goal
  BY DEF Same
<1>4. ASSUME NEW port, Opens(port), task \in {"SMTP_CONNECT", "POP3_CONNECT"}, ~busy,
             ~Nega({"TCP_CONNECT"}), UNCHANGED held
      PROVE  Goal
  <2>1. taskStep = 2 => recvData \in Numbers
    BY <1>4, NumbersTyped DEF Running, Awaited, AwaitsConnect, Answered
  <2> QED
    BY <1>4, <2>1 DEF Opens
<1> HIDE DEF Goal
<1>5. ASSUME NEW step, NEW mode \in Modes, Opened(step, mode), UNCHANGED held PROVE Goal
  BY <1>5 DEF Opened, Goal
<1>6. ASSUME MATASK_SMTP_Connect PROVE Goal
  BY <1>1, <1>2, <1>4, <1>5, <1>6 DEF MATASK_SMTP_Connect, MailRuns, Opened, Reads
<1>7. ASSUME MATASK_POP3_Connect PROVE Goal
  BY <1>1, <1>2, <1>4, <1>5, <1>7 DEF MATASK_POP3_Connect, MailRuns, Opened, Reads
<1>8. ASSUME MATASK_SMTP_Sender \/ MATASK_SMTP_Send PROVE Goal
  BY <1>1, <1>2, <1>8 DEF MATASK_SMTP_Sender, MATASK_SMTP_Send, MailRuns, Reads
<1>9. ASSUME MATASK_SMTP_POP3_Quit PROVE Goal
  BY <1>1, <1>2, <1>9 DEF MATASK_SMTP_POP3_Quit, MailRuns, QuitSteps, Same, Goal
<1>10. ASSUME MATASK_POP3_Stat \/ MATASK_POP3_List \/ MATASK_POP3_Dele PROVE Goal
  BY <1>1, <1>2, <1>10
     DEF MATASK_POP3_Stat, MATASK_POP3_List, MATASK_POP3_Dele, Asks, MailRuns, Ends, Same, Reads
<1>11. ASSUME MATASK_POP3_Retr PROVE Goal
  BY <1>1, <1>2, <1>11 DEF MATASK_POP3_Retr, MailRuns, Ends, Same
<1> QED
  BY <1>6, <1>7, <1>8, <1>9, <1>10, <1>11 DEF MailTasksStep, Goal

LEMMA OtherTasksList ==
  ASSUME Tabled, Running,
         \/ MATASK_HTTP_GetPost
         \/ MATASK_TelServer \/ MATASK_GetEEPROMData \/ MATASK_EEPROM_Read \/ MATASK_EEPROM_Write
  PROVE  Tabled' /\ connMode' \in {connMode, "PPP", "OFFLINE"} /\ UNCHANGED held
<1> USE TableOps
<1>1. CASE MATASK_HTTP_GetPost
  <2>1. task = HttpTask /\ taskStep = 3 /\ ~busy /\ ~Nega({"TCP_CONNECT"}) => recvData \in Numbers
    BY NumbersTyped DEF Running, Awaited, AwaitsConnect, Answered, Nega
  <2>2. CASE ~Nega({"DATA", "TCP_CONNECT", "DNS_REQUEST"}) /\ (Request \/ Header)
    BY <1>1, <2>1, <2>2 DEF MATASK_HTTP_GetPost, Runs, At, Nega, HttpTrouble, Same, PageEnds
  <2>3. CASE Page /\ Same
    BY <1>1, <2>3 DEF MATASK_HTTP_GetPost, Same
  <2>4. CASE PageEnds
    BY <1>1, <2>4 DEF MATASK_HTTP_GetPost, PageEnds
  <2>5. CASE HttpTrouble
    BY <1>1, <2>5 DEF MATASK_HTTP_GetPost, HttpTrouble
  <2>6. CASE Same
    BY <1>1, <2>6 DEF MATASK_HTTP_GetPost, Same
  <2> QED
    BY <1>1, <2>2, <2>3, <2>4, <2>5, <2>6 DEF MATASK_HTTP_GetPost
<1>2. CASE MATASK_TelServer \/ MATASK_GetEEPROMData \/ MATASK_EEPROM_Read \/ MATASK_EEPROM_Write
  BY <1>2 DEF MATASK_TelServer, MATASK_GetEEPROMData, MATASK_EEPROM_Read, MATASK_EEPROM_Write,
       SettingsTask, Aborts, Opening, Ask, Closing, FirstPart, SecondPart, Rejected
<1> QED
  BY <1>1, <1>2

\* A call leaves the list alone, and the reply line or EEPROM copy kept in
\* prevBuf, unless it is one that gets a mail or a page.
Keeps == UNCHANGED <<table, connMode, prevBuf>>

LEMMA PartsKeep ==
  /\ \A t, step, arg : Begin(t, step, arg) => Keeps /\ full' = full
  /\ \A t, step, arg : Starts(t, step, arg) => UNCHANGED table
  /\ Refuse => Keeps
  /\ \A room : RestFills(room) => UNCHANGED table
  /\ \A t, step, room, way : RestGiven(t, step, room, way) => UNCHANGED table
  /\ \A t, step, room, empty : RestRefused(t, step, room, empty) => UNCHANGED <<table, prevBuf>>
<1> USE DEF Keeps
<1>1. ASSUME NEW t, NEW step, NEW arg, Begin(t, step, arg) PROVE Keeps /\ full' = full
  BY <1>1 DEF Begin, Starts
<1>2. ASSUME NEW t, NEW step, NEW arg, Starts(t, step, arg) PROVE UNCHANGED table
  BY <1>2 DEF Starts
<1>3. Refuse => Keeps
  BY DEF Refuse
<1>4. ASSUME NEW room, RestFills(room) PROVE UNCHANGED table
  BY <1>4 DEF RestFills
<1>5. ASSUME NEW t, NEW step, NEW room, NEW way, RestGiven(t, step, room, way) PROVE UNCHANGED table
  BY <1>5, <1>2 DEF RestGiven
<1>6. ASSUME NEW t, NEW step, NEW room, NEW empty, RestRefused(t, step, room, empty)
      PROVE  UNCHANGED <<table, prevBuf>>
  BY <1>6, <1>2 DEF RestRefused
<1> QED
  BY <1>1, <1>2, <1>3, <1>4, <1>5, <1>6

LEMMA CallsKeep ==
  \/ SocketCalls \/ GoesOffline \/ MA_TCP_Cut \/ MA_ApiPreExe \/ MAAPI_ErrorCheck
  \/ MA_SMTP_Connect \/ MA_SMTP_Sender \/ MA_SMTP_Send \/ MA_SMTP_Quit
  \/ MA_POP3_Connect \/ MA_POP3_Quit \/ MA_POP3_Stat \/ MA_POP3_List \/ MA_POP3_Dele
  \/ MA_TelServer \/ MA_GetEEPROMData \/ MA_EEPROMRead \/ MA_EEPROMWrite
  => Keeps
<1> USE PartsKeep
<1>1. SocketCalls \/ GoesOffline => Keeps
  BY DEF SocketCalls, GoesOffline, MA_Offline, MA_TCP_Connect, MA_GetHostAddress,
         MA_TCP_Disconnect, MA_TCP_SendRecv
<1>2. MA_TCP_Cut \/ MA_ApiPreExe \/ MAAPI_ErrorCheck => Keeps
  BY DEF MA_TCP_Cut, MA_ApiPreExe, MAAPI_ErrorCheck, Keeps
<1>3. \/ MA_SMTP_Connect \/ MA_SMTP_Sender \/ MA_SMTP_Send \/ MA_SMTP_Quit
      \/ MA_POP3_Connect \/ MA_POP3_Quit \/ MA_POP3_Stat \/ MA_POP3_List \/ MA_POP3_Dele
      => Keeps
  BY DEF MA_SMTP_Connect, MA_SMTP_Sender, MA_SMTP_Send, MA_SMTP_Quit, MA_POP3_Connect,
         MA_POP3_Quit, MA_POP3_Stat, MA_POP3_List, MA_POP3_Dele, MA_POP3_Ask
<1>4. MA_TelServer \/ MA_GetEEPROMData \/ MA_EEPROMRead \/ MA_EEPROMWrite => Keeps
  BY DEF MA_TelServer, MA_GetEEPROMData, MA_EEPROMRead, MA_EEPROMWrite
<1> QED
  BY <1>1, <1>2, <1>3, <1>4

LEMMA GameList ==
  ASSUME Game
  PROVE  UNCHANGED table /\ connMode' \in {connMode, "HTTP"} /\ held' \in SUBSET held
<1> USE PartsKeep, CallsKeep DEF Keeps
<1> DEFINE List == UNCHANGED table /\ connMode' \in {connMode, "HTTP"} /\ held' \in SUBSET held
<1>1. CASE MA_HTTP_GetPost
  <2>1. NewPage => UNCHANGED table /\ connMode' = "HTTP"
    BY DEF NewPage
  <2>2. ASSUME NEW room, SamePage(room) PROVE UNCHANGED <<table, connMode>>
    BY <2>2 DEF SamePage
  <2> QED
    BY <1>1, <2>1, <2>2 DEF MA_HTTP_GetPost
<1>2. CASE MA_POP3_Retr \/ MA_POP3_Head
  <2>1. ASSUME NEW text, NEW room, NewMail(text, room) PROVE UNCHANGED <<table, connMode, held>>
    BY <2>1 DEF NewMail
  <2>2. ASSUME NEW room, SameMail(room) PROVE UNCHANGED <<table, connMode, held>>
    BY <2>2 DEF SameMail
  <2> QED
    BY <1>2, <2>1, <2>2 DEF MA_POP3_Retr, MA_POP3_Head
<1>3. CASE MailCalls /\ ~(MA_POP3_Retr \/ MA_POP3_Head)
  <2>1. UNCHANGED held
    BY <1>3 DEF MailCalls, MA_SMTP_Connect, MA_SMTP_Sender, MA_SMTP_Send, MA_SMTP_Quit,
       MA_POP3_Connect, MA_POP3_Quit, MA_POP3_Stat, MA_POP3_List, MA_POP3_Dele, MA_POP3_Ask
  <2> QED
    BY <1>3, <2>1 DEF MailCalls
<1>4. CASE SocketCalls \/ GoesOffline \/ MA_TCP_Cut \/ MA_ApiPreExe \/ MAAPI_ErrorCheck
  <2>1. held' \in SUBSET held
    BY <1>4 DEF SocketCalls, GoesOffline, MA_Offline, MA_TCP_Connect, MA_GetHostAddress,
         MA_TCP_Disconnect, MA_TCP_SendRecv, MA_TCP_Cut, MA_ApiPreExe, MAAPI_ErrorCheck
  <2> QED
    BY <1>4, <2>1
<1>5. CASE MA_TelServer \/ MA_GetEEPROMData \/ MA_EEPROMRead \/ MA_EEPROMWrite
  <2>1. UNCHANGED held
    BY <1>5 DEF MA_TelServer, MA_GetEEPROMData, MA_EEPROMRead, MA_EEPROMWrite, Aside
  <2> QED
    BY <1>5, <2>1
<1> QED
  BY <1>1, <1>2, <1>3, <1>4, <1>5 DEF Game

LEMMA ListKept ==
  ASSUME TypeList, Running, [Next]_vars
  PROVE  TypeList'
<1>0. Tabled
  BY DEF Tabled, TypeList
<1>1. CASE /\ Tabled' /\ held' \in SUBSET (held \cup Ids)
           /\ connMode' \in {connMode, "HTTP"} \cup Modes
  BY <1>1 DEF Tabled, Modes, TypeList
<1> USE TableOps DEF Modes
<1>2. CASE Game
  BY <1>0, <1>1, <1>2, GameList
<1>3. CASE MAAPI_Main
  BY <1>0, <1>1, <1>3, SocketTasksList, MailTasksList, OtherTasksList DEF MAAPI_Main
<1>4. CASE Answer \/ ServerCloses \/ UNCHANGED vars
  BY <1>0, <1>1, <1>4
     DEF Answer, MA_ProcessRecvPacket, SettingsAnswers, ServerCloses, vars, socketVars, table
<1>5. CASE Leaves
  BY <1>0, <1>1, <1>5 DEF Leaves, SessionEnds
<1> QED
  BY <1>2, <1>3, <1>4, <1>5 DEF Next

----------------------------------------------------------------------------
(* prevBuf and the game's buffer.                                          *)

Buffers == TypePrevBuf /\ TypeRecv

LEMMA WriteTyped ==
  ASSUME NEW cells \in Seq(Nat), NEW at \in Nat, NEW bytes \in Seq(Nat)
  PROVE  Write(cells, at, bytes) \in Seq(Nat)
<1> DEFINE last == at + Len(bytes)
           n    == IF last > Len(cells) THEN last ELSE Len(cells)
           f    == [i \in 1 .. n |-> IF i \in at + 1 .. last THEN bytes[i - at]
                                     ELSE IF i <= Len(cells) THEN cells[i] ELSE 0]
<1>1. n \in Nat
  OBVIOUS
<1>2. ASSUME NEW i \in 1 .. n PROVE f[i] \in Nat
  <2>1. i \in at + 1 .. last => i - at \in 1 .. Len(bytes)
    OBVIOUS
  <2>2. i <= Len(cells) => i \in 1 .. Len(cells)
    BY <1>1
  <2> QED
    BY <2>1, <2>2
<1>3. f \in Seq(Nat)
  <2>1. f \in [1 .. n -> Nat]
    BY <1>2
  <2> QED
    BY <1>1, <2>1
<1> QED
  BY <1>3 DEF Write

LEMMA PartTyped ==
  ASSUME NEW bytes \in Seq(Nat), NEW m \in Nat, m <= Len(bytes)
  PROVE  /\ SubSeq(bytes, 1, m) \in Seq(Nat) /\ Len(SubSeq(bytes, 1, m)) = m
         /\ SubSeq(bytes, m + 1, Len(bytes)) \in Seq(Nat)
         /\ Len(SubSeq(bytes, m + 1, Len(bytes))) = Len(bytes) - m
OBVIOUS

LEMMA PrevBufOps ==
  ASSUME TypePrevBuf, Running
  PROVE  /\ prevBuf' \in {prevBuf, EmptyPrevBuf, Read} => TypePrevBuf'
         /\ \A l \in {"none", "bad"} : prevBuf' = [prevBuf EXCEPT !.line = l] => TypePrevBuf'
         /\ prevBuf' = [Read EXCEPT !.line = "good"] => TypePrevBuf'
<1> USE DEF TypePrevBuf, EmptyPrevBuf, ChunkLines
<1>1. CASE prevBuf' = prevBuf
  BY <1>1
<1>2. CASE prevBuf' = EmptyPrevBuf
  BY <1>2
<1>3. CASE prevBuf' = Read
  <2>1. recvChunk.line \in ChunkLines
    BY DEF Running, TypeRun
  <2> QED
    BY <1>3, <2>1 DEF Read
<1>4. ASSUME NEW l \in {"none", "bad"}, prevBuf' = [prevBuf EXCEPT !.line = l] PROVE TypePrevBuf'
  BY <1>4
<1>5. CASE prevBuf' = [Read EXCEPT !.line = "good"]
  <2>1. recvChunk.line \in ChunkLines
    BY DEF Running, TypeRun
  <2> QED
    BY <1>5, <2>1 DEF Read
<1> QED
  BY <1>1, <1>2, <1>3, <1>4, <1>5

LEMMA RecvTyped ==
  ASSUME TypeRecv, NEW cells \in Seq(Nat), NEW at \in Nat, NEW room \in Nat, NEW size \in Nat,
         room <= recv.given,
         recv' = [recv EXCEPT !.cells = cells, !.at = at, !.room = room, !.size = size]
  PROVE  TypeRecv'
BY DEF TypeRecv

LEMMA OverflowTyped ==
  ASSUME Buffers, NEW chunk \in Chunks, ~Fits(chunk.bytes), Overflow(chunk)
  PROVE  Buffers'
<1> DEFINE bytes == chunk.bytes
           head == SubSeq(bytes, 1, recv.room)
           tail == SubSeq(bytes, recv.room + 1, Len(bytes))
           all  == Write(recv.cells, recv.at, head)
<1>0. bytes \in Seq(Nat)
  BY DEF Chunks
<1>1. recv.room \in Nat /\ recv.room < Len(bytes)
  BY <1>0 DEF Buffers, TypeRecv, Fits
<1>2. head \in Seq(Nat) /\ tail \in Seq(Nat)
  BY <1>0, <1>1, PartTyped
<1>3. all \in Seq(Nat)
  BY <1>2, WriteTyped DEF Buffers, TypeRecv
<1>4. /\ prevBuf' = [prevBuf EXCEPT !.line = "none", !.rest = tail]
      /\ recv' = [recv EXCEPT !.cells = all, !.size = @ + recv.room, !.room = 0]
  BY DEF Overflow, KeepRest
<1> HIDE DEF head, tail, all
<1>5. TypePrevBuf'
  BY <1>2, <1>4 DEF Buffers, TypePrevBuf, ChunkLines
<1>6. TypeRecv'
  <2>1. recv' = [recv EXCEPT !.cells = all, !.at = recv.at, !.room = 0, !.size = recv.size + recv.room]
    BY <1>4 DEF Buffers, TypeRecv
  <2>2. recv.at \in Nat /\ recv.size + recv.room \in Nat /\ 0 <= recv.given
    BY <1>1 DEF Buffers, TypeRecv
  <2> QED
    BY <1>3, <2>1, <2>2, RecvTyped DEF Buffers
<1> QED
  BY <1>5, <1>6 DEF Buffers

LEMMA StoreTyped ==
  ASSUME TypeRecv, NEW bytes \in Seq(Nat), Fits(bytes), Store(bytes)
  PROVE  TypeRecv'
<1> DEFINE all == Write(recv.cells, recv.at, bytes)
<1>1. all \in Seq(Nat)
  BY WriteTyped DEF TypeRecv
<1>2. recv' = [recv EXCEPT !.cells = all, !.at = @ + Len(bytes), !.room = @ - Len(bytes),
                           !.size = @ + Len(bytes)]
  BY DEF Store
<1>3. /\ recv.at + Len(bytes) \in Nat /\ recv.size + Len(bytes) \in Nat
      /\ recv.room - Len(bytes) \in Nat /\ recv.room - Len(bytes) <= recv.given
  BY DEF Fits, TypeRecv
<1>4. recv' = [recv EXCEPT !.cells = all, !.at = recv.at + Len(bytes),
                           !.room = recv.room - Len(bytes), !.size = recv.size + Len(bytes)]
  BY <1>2
<1> HIDE DEF all
<1> QED
  BY <1>1, <1>3, <1>4, RecvTyped

LEMMA GivenTyped ==
  ASSUME NEW room \in Nat, NEW taken \in Nat, recv' = GivenBuffer(room, taken)
  PROVE  TypeRecv'
BY DEF GivenBuffer, TypeRecv

LEMMA MoreTyped ==
  ASSUME Buffers, NEW room \in Nat
  PROVE  /\ \A t, step, way : RestGiven(t, step, room, way) => Buffers'
         /\ RestFills(room) => Buffers'
         /\ \A t, step, empty : RestRefused(t, step, room, empty) => Buffers'
<1> USE DEF Buffers
<1>0. Taken \in Nat /\ prevBuf.rest \in Seq(Nat)
  BY DEF Taken, TypeRecv, TypePrevBuf
<1>1. ASSUME NEW t, NEW step, NEW way, RestGiven(t, step, room, way) PROVE Buffers'
  <2> DEFINE n == Len(prevBuf.rest)
             at == IF way THEN n ELSE 0
             left == IF way THEN room - n ELSE room
  <2>1. n \in Nat /\ at \in Nat /\ left \in Nat /\ left <= room
    BY <1>0, <1>1 DEF RestGiven
  <2>2. recv' = [cells |-> prevBuf.rest, given |-> room, at |-> at, room |-> left, size |-> n,
                 wanted |-> room # 0, taken |-> Taken]
    BY <1>1 DEF RestGiven, GivenBuffer
  <2>3. prevBuf' = [prevBuf EXCEPT !.rest = <<>>]
    BY <1>1 DEF RestGiven
  <2> HIDE DEF n, at, left
  <2>4. TypeRecv'
    BY <1>0, <2>1, <2>2 DEF TypeRecv
  <2>5. TypePrevBuf'
    <3>1. <<>> \in Seq(Nat)
      OBVIOUS
    <3> QED
      BY <2>3, <3>1 DEF TypePrevBuf
  <2> QED
    BY <2>4, <2>5
<1>2. ASSUME RestFills(room) PROVE Buffers'
  <2> DEFINE n == Len(prevBuf.rest)
             head == SubSeq(prevBuf.rest, 1, room)
             tail == SubSeq(prevBuf.rest, room + 1, n)
  <2>1. head \in Seq(Nat) /\ tail \in Seq(Nat)
    BY <1>0, <1>2, PartTyped DEF RestFills
  <2>2. recv' = [cells |-> head, given |-> room, at |-> 0, room |-> room, size |-> room,
                 wanted |-> room # 0, taken |-> Taken]
    BY <1>2 DEF RestFills, GivenBuffer
  <2>3. prevBuf' = [prevBuf EXCEPT !.rest = tail]
    BY <1>2 DEF RestFills
  <2> HIDE DEF n, head, tail
  <2>4. TypeRecv'
    BY <1>0, <2>1, <2>2 DEF TypeRecv
  <2>5. TypePrevBuf'
    BY <2>1, <2>3 DEF TypePrevBuf
  <2> QED
    BY <2>4, <2>5
<1>3. ASSUME NEW t, NEW step, NEW empty, RestRefused(t, step, room, empty) PROVE Buffers'
  <2>1. recv' = GivenBuffer(0, Taken) /\ UNCHANGED prevBuf
    BY <1>3 DEF RestRefused
  <2> QED
    BY <1>0, <2>1, GivenTyped DEF TypePrevBuf
<1> QED
  BY <1>1, <1>2, <1>3

\* What a step does that stores nothing.
Quiet == recv' = recv /\ prevBuf' \in {prevBuf, EmptyPrevBuf, Read}

LEMMA QuietTyped == ASSUME Buffers, Running, Quiet PROVE Buffers'
BY PrevBufOps DEF Buffers, Quiet, TypeRecv

LEMMA SocketTasksQuiet == SocketTasks /\ UNCHANGED recv => Quiet
BY DEF Quiet, SocketTasks, MATASK_TCP_Connect, MATASK_TCP_Disconnect, MATASK_TCP_SendRecv,
       MATASK_GetHostAddress, MATASK_Offline, MATASK_TCP_Cut, SayLine, ReadOn, InitPrevBuf

LEMMA MailTasksQuiet == MailTasksStep => Quiet \/ MATASK_POP3_Retr
<1> USE DEF Quiet, InitPrevBuf, SayLine, ReadOn, ReadTo
<1>1. ASSUME NEW t, MailTrouble(t) PROVE Quiet
  BY <1>1 DEF MailTrouble, MailClosed, MailGivenUp, MailFails
<1>2. MATASK_SMTP_Connect \/ MATASK_POP3_Connect => Quiet
  BY <1>1 DEF MATASK_SMTP_Connect, MATASK_POP3_Connect, Reads, Opens, Opened
<1>3. MATASK_SMTP_Sender => Quiet
  BY <1>1 DEF MATASK_SMTP_Sender, Reads
<1>4. MATASK_SMTP_Send => Quiet
  BY <1>1 DEF MATASK_SMTP_Send, Reads, SendSteps, SendPiece
<1>5. MATASK_SMTP_POP3_Quit => Quiet
  BY <1>1 DEF MATASK_SMTP_POP3_Quit, QuitSteps
<1>6. MATASK_POP3_Stat \/ MATASK_POP3_List \/ MATASK_POP3_Dele => Quiet
  BY <1>1 DEF MATASK_POP3_Stat, MATASK_POP3_List, MATASK_POP3_Dele, Asks, Reads, Ends
<1> QED
  BY <1>2, <1>3, <1>4, <1>5, <1>6 DEF MailTasksStep

LEMMA RetrBuffers ==
  ASSUME Buffers, Running, MATASK_POP3_Retr
  PROVE  Buffers'
<1>1. recvChunk \in Chunks
  BY DEF Running, TypeRun, Chunks
<1>2. MailTrouble("POP3_RETR") => Quiet
  BY DEF MailTrouble, MailClosed, MailGivenUp, MailFails, Quiet
<1>3. (At(0) /\ SayLine(mail.text, 1) /\ Same) \/ Ends(100) => (recv' = recv => Quiet)
  BY DEF SayLine, InitPrevBuf, Ends, Quiet
<1>4. ASSUME NEW chunk \in SeenAs, RetrStore(chunk) PROVE Buffers'
  <2>0. chunk \in Chunks /\ chunk.bytes \in Seq(Nat)
    BY <1>1, <1>4, SeenParts DEF Chunks
  <2>1. CASE recv' = recv /\ prevBuf' \in {prevBuf, Read, [prevBuf EXCEPT !.line = "bad"]}
    <3>1. prevBuf' \in {prevBuf, Read} => Buffers'
      BY <2>1, QuietTyped DEF Quiet
    <3>2. prevBuf' = [prevBuf EXCEPT !.line = "bad"] => Buffers'
      BY <2>1, PrevBufOps DEF Buffers, TypeRecv
    <3> QED
      BY <2>1, <3>1, <3>2
  <2>2. CASE /\ Fits(chunk.bytes) /\ Store(chunk.bytes)
             /\ prevBuf' = IF respFound THEN prevBuf ELSE [Read EXCEPT !.line = "good"]
    <3>1. TypeRecv'
      BY <2>0, <2>2, StoreTyped DEF Buffers
    <3> QED
      BY <2>2, <3>1, PrevBufOps DEF Buffers
  <2>3. CASE ~Fits(chunk.bytes) /\ Overflow(chunk)
    BY <2>0, <2>3, OverflowTyped
  <2> QED
    BY <1>4, <2>1, <2>2, <2>3 DEF RetrStore
<1> QED
  BY <1>2, <1>3, <1>4, QuietTyped DEF MATASK_POP3_Retr

LEMMA HttpTaskBuffers ==
  ASSUME Buffers, Running, MATASK_HTTP_GetPost
  PROVE  Buffers'
<1>1. recvChunk.bytes \in Seq(Nat)
  BY DEF Running, TypeRun
<1>2. Request /\ UNCHANGED recv => Quiet
  BY DEF Request, Says_, InitPrevBuf, Quiet
<1>3. ASSUME Header, UNCHANGED recv PROVE Buffers'
  <2>1. Quiet \/ prevBuf' = [prevBuf EXCEPT !.line = "none"]
    BY <1>3 DEF Header, HeaderRead, PageTakenForHeader, Quiet
  <2> QED
    BY <1>3, <2>1, QuietTyped, PrevBufOps DEF Buffers, TypeRecv
<1>4. ASSUME Page PROVE Buffers'
  <2>1. CASE UNCHANGED <<recv, prevBuf>>
    BY <2>1, QuietTyped DEF Quiet
  <2>2. CASE Fits(recvChunk.bytes) /\ Store(recvChunk.bytes) /\ UNCHANGED prevBuf
    BY <1>1, <2>2, StoreTyped, PrevBufOps DEF Buffers
  <2>3. CASE ~Fits(recvChunk.bytes) /\ Overflow(recvChunk)
    <3>1. recvChunk \in Chunks
      BY DEF Running, TypeRun, Chunks
    <3> QED
      BY <2>3, <3>1, OverflowTyped
  <2> QED
    BY <1>4, <2>1, <2>2, <2>3 DEF Page
<1>5. PageEnds /\ UNCHANGED recv => Quiet
  BY DEF PageEnds, Quiet
<1> QED
  BY <1>2, <1>3, <1>4, <1>5, QuietTyped DEF MATASK_HTTP_GetPost, Quiet

\* The copy of the EEPROM.
LEMMA SettingsTasksBuffers ==
  ASSUME Buffers, Running,
         MATASK_TelServer \/ MATASK_GetEEPROMData \/ MATASK_EEPROM_Read \/ MATASK_EEPROM_Write
  PROVE  Buffers'
<1>1. UNCHANGED recv
  BY DEF MATASK_TelServer, MATASK_GetEEPROMData, MATASK_EEPROM_Read, MATASK_EEPROM_Write,
         SettingsTask
<1>2. CASE prevBuf' = prevBuf
  BY <1>1, <1>2, QuietTyped DEF Quiet
<1>3. CASE prevBuf' # prevBuf
  <2>1. /\ ~busy
        /\ \/ task = "GETEEPROMDATA" /\ taskStep \in {3, 4} /\ ~Nega({"EEPROM_READ"})
           \/ task = "TELSERVER" /\ taskStep \in {4, 5} /\ ~Nega({"EEPROM_READ"})
    BY <1>3 DEF MATASK_TelServer, MATASK_GetEEPROMData, MATASK_EEPROM_Read, MATASK_EEPROM_Write,
       SettingsTask, Aborts, Opening, Ask, Closing, FirstPart, SecondPart, Rejected, Runs, At, Nega
  <2>2. recvData \in {0} \cup Versions
    BY <2>1 DEF Running, Awaited, AwaitsEEPROM, Answered, Nega
  <2>3. \/ prevBuf' = [prevBuf EXCEPT !.line = "none", !.rest = <<>>, !.first = recvData]
        \/ prevBuf' = [prevBuf EXCEPT !.second = recvData, !.hasEEPROMData = TRUE]
        \/ prevBuf' = [prevBuf EXCEPT !.second = recvData]
    BY <1>3 DEF MATASK_TelServer, MATASK_GetEEPROMData, MATASK_EEPROM_Read, MATASK_EEPROM_Write,
       SettingsTask, Aborts, Opening, Ask, Closing, FirstPart, SecondPart, Rejected
  <2>4. <<>> \in Seq(Nat)
    OBVIOUS
  <2>5. TypePrevBuf'
    <3>1. CASE prevBuf' = [prevBuf EXCEPT !.line = "none", !.rest = <<>>, !.first = recvData]
      BY <2>2, <2>4, <3>1 DEF Buffers, TypePrevBuf, ChunkLines
    <3>2. CASE prevBuf' = [prevBuf EXCEPT !.second = recvData, !.hasEEPROMData = TRUE]
      BY <2>2, <3>2 DEF Buffers, TypePrevBuf
    <3>3. CASE prevBuf' = [prevBuf EXCEPT !.second = recvData]
      BY <2>2, <3>3 DEF Buffers, TypePrevBuf
    <3> QED
      BY <2>3, <3>1, <3>2, <3>3
  <2> QED
    BY <1>1, <2>5 DEF Buffers, TypeRecv
<1> QED
  BY <1>2, <1>3

LEMMA GameBuffers ==
  ASSUME Buffers, Running, Game
  PROVE  Buffers'
<1> USE MoreTyped, QuietTyped, ReceiveAssumption
<1>1. ASSUME NEW room \in Nat, recv' = GivenBuffer(room, 0), prevBuf' \in {prevBuf, EmptyPrevBuf}
      PROVE  Buffers'
  BY <1>1, GivenTyped, PrevBufOps DEF Buffers
<1>2. ASSUME recv' \in {recv, NoBuffer}, UNCHANGED prevBuf PROVE Buffers'
  BY <1>1, <1>2 DEF NoBuffer, Quiet
<1>3. CASE MA_HTTP_GetPost
  <2>1. NewPage => Buffers'
    BY <1>1 DEF NewPage, InitPrevBuf
  <2>2. ASSUME NEW room \in Rooms, SamePage(room) PROVE Buffers'
    BY <2>2 DEF SamePage
  <2> QED
    BY <1>3, <2>1, <2>2 DEF MA_HTTP_GetPost
<1>4. CASE MA_POP3_Retr \/ MA_POP3_Head
  <2>1. ASSUME NEW text, NEW room \in Rooms, NewMail(text, room) PROVE Buffers'
    BY <1>1, <2>1 DEF NewMail, InitPrevBuf
  <2>2. ASSUME NEW room \in Rooms, SameMail(room) PROVE Buffers'
    BY <2>2 DEF SameMail
  <2> QED
    BY <1>4, <2>1, <2>2 DEF MA_POP3_Retr, MA_POP3_Head
<1>5. CASE ~MA_HTTP_GetPost /\ ~MA_POP3_Retr /\ ~MA_POP3_Head
  <2>1. UNCHANGED prevBuf
    BY <1>5, CallsKeep DEF Game, MailCalls, Keeps
  <2>2. recv' \in {recv, NoBuffer}
    <3>1. CASE MailCalls
      BY <1>5, <3>1 DEF MailCalls, MA_SMTP_Connect, MA_SMTP_Sender, MA_SMTP_Send, MA_SMTP_Quit,
         MA_POP3_Connect, MA_POP3_Quit, MA_POP3_Stat, MA_POP3_List, MA_POP3_Dele, MA_POP3_Ask,
         NotReceiving
    <3>2. CASE MA_TelServer \/ MA_GetEEPROMData \/ MA_EEPROMRead \/ MA_EEPROMWrite
      BY <3>2 DEF MA_TelServer, MA_GetEEPROMData, MA_EEPROMRead, MA_EEPROMWrite, Aside, NotReceiving
    <3> QED
      BY <1>5, <3>1, <3>2 DEF Game, NotReceiving
  <2> QED
    BY <1>2, <2>1, <2>2
<1> QED
  BY <1>3, <1>4, <1>5

LEMMA BuffersKept ==
  ASSUME Buffers, Running, [Next]_vars
  PROVE  Buffers'
<1>1. CASE MAAPI_Main
  BY <1>1, QuietTyped, SocketTasksQuiet, MailTasksQuiet, RetrBuffers, HttpTaskBuffers,
     SettingsTasksBuffers DEF MAAPI_Main
<1>2. CASE Answer \/ ServerCloses \/ Leaves \/ UNCHANGED vars
  <2>1. UNCHANGED <<prevBuf, recv>>
    BY <1>2 DEF Answer, MA_ProcessRecvPacket, SettingsAnswers, ServerCloses, Leaves, SessionEnds,
       vars, socketVars
  <2> QED
    BY <2>1, QuietTyped DEF Quiet
<1> QED
  BY <1>1, <1>2, GameBuffers DEF Next

----------------------------------------------------------------------------
(* What the mail and HTTP tasks know.                                      *)

LEMMA PlainEffects == PlainMoves => task' \in {task, "NONE"} /\ (full' => full)
<1>1. ASSUME NEW cmd, NEW socket, NEW text, NEW step, Command(cmd, socket, text, step)
      PROVE  task' \in {task, "NONE"} /\ (full' => full)
  BY <1>1 DEF Command
<1>2. TaskFails => task' \in {task, "NONE"} /\ (full' => full)
  BY DEF TaskFails, SetApiError
<1>3. Settles => task' \in {task, "NONE"} /\ (full' => full)
  <2>1. full' \in {full, FALSE} => (full' => full)
    BY Zenon
  <2> QED
    BY <2>1 DEF Settles
<1> QED
  BY <1>1, <1>2, <1>3 DEF PlainMoves

\* It is no longer than the reply.
LEMMA SeenLength ==
  ASSUME recvChunk \in Chunks, NEW chunk \in SeenAs
  PROVE  chunk \in Chunks /\ Len(recvChunk.bytes) - Len(chunk.bytes) \in Nat
<1>1. recvChunk.bytes \in Seq(Nat)
  BY DEF Chunks
<1>2. CASE chunk = recvChunk
  BY <1>1, <1>2
<1>3. ASSUME NEW j \in 2 .. Len(recvChunk.bytes) \cup {0},
             j = 0 => chunk = NoChunk,
             j # 0 => chunk.bytes = SubSeq(recvChunk.bytes, j + 1, Len(recvChunk.bytes))
      PROVE  Len(recvChunk.bytes) - Len(chunk.bytes) \in Nat
  BY <1>1, <1>3 DEF NoChunk
<1>4. chunk.bytes = recvChunk.bytes => Len(recvChunk.bytes) - Len(chunk.bytes) \in Nat
  BY <1>1
<1> QED
  BY <1>2, <1>3, <1>4, SeenParts

LEMMA LastFiveTyped ==
  ASSUME NEW s \in Seq(Nat), Len(s) >= 5
  PROVE  LastFive(s) \in Seq(Nat) /\ Len(LastFive(s)) = 5
BY DEF LastFive

LEMMA LastBytesTyped ==
  ASSUME TypeMail, NEW chunk \in Chunks, NEW e \in LastBytes(chunk)
  PROVE  e \in Seq(Nat) /\ Len(e) = 5
<1>1. ASSUME NEW b \in Seq(Nat) PROVE MakeEndLineBuffer(b) \in Seq(Nat) /\ Len(MakeEndLineBuffer(b)) = 5
  <2>1. endLineBuf \o b \in Seq(Nat) /\ Len(endLineBuf \o b) >= 5
    <3>1. endLineBuf \in Seq(Nat) /\ Len(endLineBuf) = 5
      BY DEF TypeMail
    <3>2. \A a, c \in Seq(Nat) : a \o c \in Seq(Nat) /\ Len(a \o c) = Len(a) + Len(c)
      OBVIOUS
    <3>3. Len(b) \in Nat
      OBVIOUS
    <3>4. endLineBuf \o b \in Seq(Nat) /\ Len(endLineBuf \o b) = Len(endLineBuf) + Len(b)
      BY <3>1, <3>2, Zenon
    <3> QED
      BY <3>1, <3>3, <3>4
  <2>2. LastFive(endLineBuf \o b) \in Seq(Nat) /\ Len(LastFive(endLineBuf \o b)) = 5
    BY <2>1, LastFiveTyped
  <2>3. \A i \in 1..5 : LastFive(endLineBuf \o b)[i] \in Nat
    <3>1. ASSUME NEW s \in Seq(Nat), Len(s) = 5, NEW i \in 1..5 PROVE s[i] \in Nat
      <4>1. i \in 1..Len(s)
        BY <3>1
      <4> QED
        BY <4>1
    <3> QED
      BY <2>2, <3>1
  <2> QED
    BY <2>3 DEF MakeEndLineBuffer
<1>2. EndMultiLine \in Seq(Nat) /\ Len(EndMultiLine) = 5
  BY ServersAssumption DEF EndMultiLine
<1>3. <<0, 0, 0, 0, 0>> \in Seq(Nat) /\ Len(<<0, 0, 0, 0, 0>>) = 5
  OBVIOUS
<1>4. chunk.bytes \in Seq(Nat)
  BY DEF Chunks
<1>5. <<0, 0, 0, 0, 0>> \o chunk.bytes \in Seq(Nat)
  BY <1>3, <1>4
<1> QED
  BY <1>1, <1>2, <1>3, <1>4, <1>5 DEF LastBytes

MailRecord ==
  [left : 0..2, last : BOOLEAN, next : 0..255, text : {"empty", "RETR", "TOP"}, missed : Nat]

LEMMA MailOps ==
  ASSUME TypeMail
  PROVE  /\ \A n \in 0..2 : [NoMail EXCEPT !.left = n] \in MailRecord
         /\ \A text \in {"RETR", "TOP"} : [NoMail EXCEPT !.text = text] \in MailRecord
         /\ NoMail \in MailRecord /\ mail \in MailRecord
         /\ mail.left # 0 => [mail EXCEPT !.left = @ - 1] \in MailRecord
         /\ \A n \in {1, 2, 3, 101} : [mail EXCEPT !.next = n] \in MailRecord
         /\ \A n \in {1, 2, 3, 101} : mail.left > 1 => [mail EXCEPT !.left = @ - 1, !.next = n] \in MailRecord
<1>1. NoMail \in MailRecord
  BY DEF NoMail, MailRecord
<1>2. mail \in MailRecord
  BY DEF TypeMail, MailRecord
<1>3. ASSUME NEW r \in MailRecord
      PROVE  /\ \A n \in 0..2 : [r EXCEPT !.left = n] \in MailRecord
             /\ \A n \in 0..255 : [r EXCEPT !.next = n] \in MailRecord
             /\ \A text \in {"RETR", "TOP"} : [r EXCEPT !.text = text] \in MailRecord
  <2>1. ASSUME NEW n \in 0..2 PROVE [r EXCEPT !.left = n] \in MailRecord
    BY DEF MailRecord
  <2>2. ASSUME NEW n \in 0..255 PROVE [r EXCEPT !.next = n] \in MailRecord
    BY DEF MailRecord
  <2>3. ASSUME NEW text \in {"RETR", "TOP"} PROVE [r EXCEPT !.text = text] \in MailRecord
    BY DEF MailRecord
  <2> QED
    BY <2>1, <2>2, <2>3
<1>5. mail.left \in 0..2
  BY DEF TypeMail
<1>6. \A n \in {1, 2, 3, 101} : mail.left > 1 => [mail EXCEPT !.left = @ - 1, !.next = n] \in MailRecord
  <2>1. ASSUME NEW n \in {1, 2, 3, 101}, mail.left > 1
        PROVE  [[mail EXCEPT !.left = mail.left - 1] EXCEPT !.next = n] \in MailRecord
    <3>1. mail.left - 1 \in 0..2 /\ n \in 0..255
      BY <1>5, <2>1
    <3> QED
      BY <1>2, <1>3, <3>1
  <2> QED
    BY <2>1
<1>7. mail.left # 0 => [mail EXCEPT !.left = @ - 1] \in MailRecord
  <2>1. mail.left # 0 => mail.left - 1 \in 0..2
    BY <1>5
  <2> QED
    BY <1>2, <1>3, <2>1
<1>8. \A n \in {1, 2, 3, 101} : [mail EXCEPT !.next = n] \in MailRecord
  <2>1. \A n \in {1, 2, 3, 101} : n \in 0..255
    OBVIOUS
  <2> QED
    BY <1>2, <1>3, <2>1
<1> QED
  BY <1>1, <1>2, <1>3, <1>6, <1>7, <1>8

LEMMA LetterTyped ==
  ASSUME NEW r \in MailRecord, NEW n \in 0..2, NEW over \in BOOLEAN
  PROVE  [r EXCEPT !.left = n, !.last = over] \in MailRecord
BY DEF MailRecord

LEMMA MissedTyped ==
  ASSUME NEW r \in MailRecord, NEW n \in Nat
  PROVE  [r EXCEPT !.missed = n] \in MailRecord
BY DEF MailRecord

LEMMA MailTasksMail ==
  ASSUME TypeMail, Running, MailTasksStep
  PROVE  TypeMail'
<1> USE MailOps
<1>0. mail' \in MailRecord /\ letter' \in {letter, "none", "addressed", "begun"} /\ UNCHANGED endLineBuf
      => TypeMail'
  <2>1. /\ letter \in {"none", "addressed", "begun"}
        /\ endLineBuf \in Seq(Nat) /\ Len(endLineBuf) = 5
    BY DEF TypeMail
  <2>2. letter' \in {letter, "none", "addressed", "begun"} => letter' \in {"none", "addressed", "begun"}
    BY <2>1
  <2> QED
    BY <2>1, <2>2, Zenon DEF TypeMail, MailRecord
<1>1. ASSUME mailVars' = mailVars PROVE TypeMail'
  BY <1>1 DEF TypeMail, mailVars
<1>2. ASSUME NEW t, MailTrouble(t) PROVE TypeMail'
  BY <1>1, <1>2 DEF MailTrouble
<1>3. CASE MATASK_SMTP_Sender
  BY <1>0, <1>2, <1>3 DEF MATASK_SMTP_Sender
<1>4. CASE MATASK_SMTP_Send
  <2>1. SendPiece => mail' \in MailRecord
    BY DEF SendPiece
  <2>2. SendSteps => mail' \in MailRecord /\ letter' \in {letter, "none", "begun"}
    BY <2>1 DEF SendSteps
  <2> QED
    BY <1>0, <1>2, <1>4, <2>2 DEF MATASK_SMTP_Send
<1>5. CASE MATASK_POP3_Retr
  <2>1. recvChunk \in Chunks
    BY DEF Running, TypeRun, Chunks
  <2>2. CASE UNCHANGED <<mail, letter, endLineBuf>>
    BY <2>2 DEF TypeMail
  <2>3. ASSUME NEW chunk \in SeenAs, RetrStore(chunk), UNCHANGED letter,
               mail' = [mail EXCEPT !.missed = @ + Len(recvChunk.bytes) - Len(chunk.bytes)]
        PROVE  TypeMail'
    <3>1. chunk \in Chunks /\ Len(recvChunk.bytes) - Len(chunk.bytes) \in Nat
      BY <2>1, <2>3, SeenLength
    <3>2. mail.missed + Len(recvChunk.bytes) - Len(chunk.bytes) \in Nat
      BY <2>1, <3>1 DEF TypeMail, Chunks
    <3>3. mail' \in MailRecord
      BY <2>3, <3>2, MissedTyped
    <3>4. EndTest(chunk) => endLineBuf' \in {endLineBuf} \cup LastBytes(chunk)
      BY DEF EndTest
    <3>5. endLineBuf' \in {endLineBuf} \cup LastBytes(chunk)
      BY <2>3, <3>4 DEF RetrStore
    <3> QED
      BY <2>3, <3>1, <3>3, <3>5, LastBytesTyped DEF TypeMail, MailRecord
  <2> QED
    BY <1>2, <1>5, <2>2, <2>3 DEF MATASK_POP3_Retr
<1>6. CASE \/ MATASK_SMTP_Connect \/ MATASK_POP3_Connect \/ MATASK_SMTP_POP3_Quit
           \/ MATASK_POP3_Stat \/ MATASK_POP3_List \/ MATASK_POP3_Dele
  BY <1>1, <1>2, <1>6 DEF MATASK_SMTP_Connect, MATASK_POP3_Connect, MATASK_SMTP_POP3_Quit,
     MATASK_POP3_Stat, MATASK_POP3_List, MATASK_POP3_Dele, Asks
<1> QED
  BY <1>3, <1>4, <1>5, <1>6 DEF MailTasksStep

LEMMA MailKept ==
  ASSUME TypeMail, Running, [Next]_vars
  PROVE  TypeMail'
<1> USE MailOps
<1>0. mail' \in MailRecord /\ letter' \in {letter, "none", "addressed", "begun"} /\ UNCHANGED endLineBuf
      => TypeMail'
  <2>1. /\ letter \in {"none", "addressed", "begun"}
        /\ endLineBuf \in Seq(Nat) /\ Len(endLineBuf) = 5
    BY DEF TypeMail
  <2>2. letter' \in {letter, "none", "addressed", "begun"} => letter' \in {"none", "addressed", "begun"}
    BY <2>1
  <2> QED
    BY <2>1, <2>2, Zenon DEF TypeMail, MailRecord
<1>1. mailVars' = mailVars => TypeMail'
  BY DEF TypeMail, mailVars
<1>2. NotMailing => TypeMail'
  BY <1>0 DEF NotMailing
<1>3. CASE Game
  <2>1. ASSUME NEW text \in {"RETR", "TOP"}, NEW room, NewMail(text, room) PROVE TypeMail'
    BY <1>0, <2>1 DEF NewMail
  <2>2. ASSUME NEW room, SameMail(room) PROVE TypeMail'
    BY <1>1, <2>2 DEF SameMail
  <2>6. MA_SMTP_Sender => TypeMail'
    <3>1. MA_SMTP_Sender => \E n \in 1..2 : mail' = [NoMail EXCEPT !.left = n]
      BY DEF MA_SMTP_Sender
    <3>2. MA_SMTP_Sender => mail' \in MailRecord
      BY <3>1
    <3> QED
      BY <1>0, <3>2 DEF MA_SMTP_Sender
  <2>7. ASSUME MA_SMTP_Send PROVE TypeMail'
    <3>1. PICK n \in 1..2, over \in BOOLEAN : mail' = [NoMail EXCEPT !.left = n, !.last = over]
      BY <2>7 DEF MA_SMTP_Send
    <3>2. NoMail \in MailRecord /\ n \in 0..2
      OBVIOUS
    <3>3. [NoMail EXCEPT !.left = n, !.last = over] \in MailRecord
      BY <3>2, LetterTyped
    <3> QED
      BY <1>0, <2>7, <3>1, <3>3 DEF MA_SMTP_Send
  <2>3. MailCalls => TypeMail'
    BY <1>2, <2>1, <2>2, <2>6, <2>7
       DEF MailCalls, MA_SMTP_Connect, MA_SMTP_Quit, MA_POP3_Connect, MA_POP3_Quit,
           MA_POP3_Stat, MA_POP3_List, MA_POP3_Dele, MA_POP3_Ask, MA_POP3_Retr, MA_POP3_Head
  <2>4. MA_HTTP_GetPost => TypeMail'
    BY <1>1, <1>2 DEF MA_HTTP_GetPost
  <2>5. MA_TelServer \/ MA_GetEEPROMData \/ MA_EEPROMRead \/ MA_EEPROMWrite => TypeMail'
    BY <1>2 DEF MA_TelServer, MA_GetEEPROMData, MA_EEPROMRead, MA_EEPROMWrite, Aside
  <2> QED
    BY <1>1, <1>2, <1>3, <2>3, <2>4, <2>5 DEF Game
<1>4. CASE MAAPI_Main
  <2>1. MATASK_HTTP_GetPost => UNCHANGED mailVars
    BY DEF MATASK_HTTP_GetPost
  <2>2. MATASK_TelServer \/ MATASK_GetEEPROMData \/ MATASK_EEPROM_Read \/ MATASK_EEPROM_Write
          => UNCHANGED mailVars
    BY DEF MATASK_TelServer, MATASK_GetEEPROMData, MATASK_EEPROM_Read, MATASK_EEPROM_Write,
           SettingsTask
  <2> QED
    BY <1>1, <1>4, <2>1, <2>2, MailTasksMail DEF MAAPI_Main
<1>5. CASE Answer \/ ServerCloses \/ Leaves \/ UNCHANGED vars
  BY <1>1, <1>5 DEF Answer, SettingsAnswers, ServerCloses, Leaves, vars
<1> QED
  BY <1>3, <1>4, <1>5 DEF Next

HttpRecord ==
  [method : DOMAIN Suited, auth : Suited["GET"] \cup Suited["POST"], step : 0..3,
   headEnd : BOOLEAN, headError : BOOLEAN, headFound : BOOLEAN, err101 : BOOLEAN,
   pieces : Nat, left : Nat, next : {0, 5, 6, 7, 8, 100}, missed : Nat]

LEMMA SaysTypedFields ==
  ASSUME NEW r \in HttpRecord, NEW n \in {0, 5, 6, 7, 8, 100}, NEW k \in Nat
  PROVE  [r EXCEPT !.next = n, !.left = k] \in HttpRecord
BY DEF HttpRecord

LEMMA NextTypedField ==
  ASSUME NEW r \in HttpRecord, NEW n \in {0, 5, 6, 7, 8, 100}
  PROVE  [r EXCEPT !.next = n] \in HttpRecord
BY DEF HttpRecord

LEMMA StepTypedField ==
  ASSUME NEW r \in HttpRecord, r.step < 3
  PROVE  [r EXCEPT !.step = @ + 1] \in HttpRecord
<1>1. r.step + 1 \in 0..3
  BY DEF HttpRecord
<1> QED
  BY <1>1 DEF HttpRecord

LEMMA WarningTypedField ==
  ASSUME NEW r \in HttpRecord, NEW a \in BOOLEAN
  PROVE  [r EXCEPT !.err101 = a] \in HttpRecord
BY DEF HttpRecord

LEMMA HeaderTypedFields ==
  ASSUME NEW r \in HttpRecord, NEW a \in BOOLEAN, NEW b \in BOOLEAN, NEW c \in BOOLEAN, NEW d \in BOOLEAN
  PROVE  [r EXCEPT !.headFound = a, !.headEnd = b, !.headError = c, !.err101 = d] \in HttpRecord
BY DEF HttpRecord

LEMMA MissedTypedFields ==
  ASSUME NEW r \in HttpRecord, NEW a \in BOOLEAN, NEW b \in BOOLEAN, NEW c \in BOOLEAN, NEW n \in Nat
  PROVE  [r EXCEPT !.headEnd = a, !.headError = b, !.err101 = c, !.missed = n] \in HttpRecord
BY DEF HttpRecord

LEMMA NoHeaderTyped == ASSUME http \in HttpRecord PROVE NoHeader \in HttpRecord
BY DEF HttpRecord, NoHeader

LEMMA NoPageTyped == NoPage \in HttpRecord
<1>1. 0 \in 0..3 /\ 1 \in Nat /\ 0 \in Nat /\ 0 \in {0, 5, 6, 7, 8, 100}
  OBVIOUS
<1>2. "GET" \in DOMAIN Suited /\ "UNKNOWN" \in Suited["GET"] \cup Suited["POST"]
  BY DEF Suited
<1> QED
  BY <1>1, <1>2, Zenon DEF HttpRecord, NoPage

LEMMA NewPageTyped ==
  ASSUME NEW r \in HttpRecord, NEW method \in DOMAIN Suited, NEW auth \in Suited[method], NEW n \in Nat
  PROVE  [r EXCEPT !.method = method, !.auth = auth, !.pieces = n] \in HttpRecord
<1>1. auth \in Suited["GET"] \cup Suited["POST"]
  BY DEF Suited
<1> QED
  BY <1>1 DEF HttpRecord

LEMMA StepsTyped ==
  ASSUME TypeHttp
  PROVE  /\ http \in HttpRecord /\ http.step \in 0..3
         /\ http.left \in Nat /\ http.pieces \in Nat /\ http.missed \in Nat
BY DEF TypeHttp, HttpRecord

\* What a reply of step 8 does to the call but for its missed: the request it is
\* at, and what it asks for, stay.
LEMMA HeadTyped ==
  ASSUME TypeHttp, recvChunk \in Chunks, HeaderRead \/ PageTakenForHeader
  PROVE  TypeHttp' /\ http'.step = http.step /\ http'.auth = http.auth
<1> USE StepsTyped
<1>1. http.err101 \in BOOLEAN /\ http.headError \in BOOLEAN
  BY DEF TypeHttp
<1>2. CASE HeaderRead
  <2>1. PICK status \in Headers :
          http' = [http EXCEPT !.headFound = TRUE, !.headEnd = recvChunk.line # "split",
                               !.headError = WrongStatus(status), !.err101 = @ \/ status = "101"]
    BY <1>2 DEF HeaderRead
  <2>2. /\ WrongStatus(status) \in BOOLEAN /\ (recvChunk.line # "split") \in BOOLEAN
        /\ (http.err101 \/ status = "101") \in BOOLEAN /\ TRUE \in BOOLEAN
    BY Zenon DEF WrongStatus
  <2>3. http' \in HttpRecord
    <3>1. [http EXCEPT !.headFound = TRUE, !.headEnd = recvChunk.line # "split",
                       !.headError = WrongStatus(status), !.err101 = http.err101 \/ status = "101"]
            \in HttpRecord
      BY <2>2, HeaderTypedFields, Zenon
    <3> QED
      BY <2>1, <3>1, Zenon
  <2> QED
    BY <2>1, <2>3 DEF TypeHttp, HttpRecord
<1>3. CASE PageTakenForHeader
  <2>1. PICK n \in 1 .. Len(recvChunk.bytes), end \in BOOLEAN, read \in {"none", "wrong", "101"} :
          http' = [http EXCEPT !.headEnd = end, !.headError = @ \/ read = "wrong",
                               !.err101 = @ \/ read = "101", !.missed = @ + n]
    BY <1>3 DEF PageTakenForHeader
  <2>2. http.missed + n \in Nat
    BY <2>1 DEF Chunks
  <2>3. (http.headError \/ read = "wrong") \in BOOLEAN /\ (http.err101 \/ read = "101") \in BOOLEAN
    OBVIOUS
  <2>4. http' \in HttpRecord
    <3>1. [http EXCEPT !.headEnd = end, !.headError = http.headError \/ read = "wrong",
                       !.err101 = http.err101 \/ read = "101", !.missed = http.missed + n]
            \in HttpRecord
      BY <2>2, <2>3, MissedTypedFields, Zenon
    <3> QED
      BY <2>1, <3>1, Zenon
  <2> QED
    BY <2>1, <2>4 DEF TypeHttp, HttpRecord
<1> QED
  BY <1>2, <1>3

LEMMA HttpStepTyped ==
  ASSUME TypeHttp, HttpProgress, recvChunk \in Chunks, MATASK_HTTP_GetPost
  PROVE  TypeHttp'
<1> USE StepsTyped
<1>1. CASE http' = http
  BY <1>1 DEF TypeHttp
<1>2. CASE http' \in HttpRecord
  BY <1>2 DEF TypeHttp, HttpRecord
<1>3. CASE Request
  <2>1. CASE At(3) \/ At(4)
    <3>1. [http EXCEPT !.next = 5, !.left = http.pieces] \in HttpRecord
      BY SaysTypedFields
    <3> QED
      BY <1>2, <1>3, <2>1, <3>1 DEF Request, At
  <2>2. CASE At(5) \/ At(6)
    <3>1. http.left > 1 => [http EXCEPT !.next = 6, !.left = http.left - 1] \in HttpRecord
      <4>1. http.left > 1 => http.left - 1 \in Nat
        OBVIOUS
      <4> QED
        BY <4>1, SaysTypedFields
    <3>2. [http EXCEPT !.next = 7, !.left = http.pieces] \in HttpRecord
      BY SaysTypedFields
    <3> QED
      BY <1>2, <1>3, <2>2, <3>1, <3>2 DEF Request, At, Says_
  <2>3. CASE At(7)
    BY <1>2, <1>3, <2>3, NoHeaderTyped DEF Request, At
  <2>4. CASE At(50)
    BY <1>1, <1>3, <2>4 DEF Request, At
  <2>5. CASE At(100)
    <3>1. http.left > 1 => [http EXCEPT !.next = 100, !.left = http.left - 1] \in HttpRecord
      <4>1. http.left > 1 => http.left - 1 \in Nat
        OBVIOUS
      <4> QED
        BY <4>1, SaysTypedFields
    <3>2. [NoHeader EXCEPT !.next = 8] \in HttpRecord
      BY NoHeaderTyped, NextTypedField
    <3> QED
      BY <1>2, <1>3, <2>5, <3>1, <3>2 DEF Request, At, Says_
  <2> QED
    BY <1>3, <2>1, <2>2, <2>3, <2>4, <2>5 DEF Request
<1>4. CASE Header
  <2>1. CASE http' = [http EXCEPT !.step = @ + 1]
    <3>1. http.step < 3
      BY <1>4 DEF Header, At, MATASK_HTTP_GetPost, Runs, HttpProgress, RequestSteps, Requests, TypeHttp, Suited
    <3> QED
      BY <1>2, <2>1, <3>1, StepTypedField
  <2> QED
    BY <1>1, <1>4, <2>1, HeadTyped DEF Header
<1>5. CASE PageEnds
  BY <1>1, <1>2, <1>5, WarningTypedField DEF PageEnds
<1>6. CASE Page
  BY <1>1, <1>6 DEF Page
<1> QED
  BY <1>1, <1>3, <1>4, <1>5, <1>6 DEF MATASK_HTTP_GetPost

\* Where the task has another step to make, or is over.
LEMMA HttpGoesOn ==
  ASSUME TypeHttp
  PROVE  /\ http.auth \in {"UNKNOWN", "UTILITY", "DOWNLOAD", "UPLOAD", "RANKING"}
         /\ HttpGetNextStep[1] \in RequestSteps
         /\ HttpGetNextStep[2] \in {110, 255}
         /\ HttpGetNextStep[2] = 110 /\ http.step < Requests[http.auth] =>
              http.step + 1 \in 1..2 /\ http.step + 1 <= Requests[http.auth]
         /\ HttpGetNextStep[3] \in {2, 255}
         /\ HttpGetNextStep[3] = 2 /\ http.step \in 1..2 /\ http.step <= Requests[http.auth] =>
              http.step < Requests[http.auth]
<1>1. http.auth \in {"UNKNOWN", "UTILITY", "DOWNLOAD", "UPLOAD", "RANKING"} /\ http.step \in 0..3
  BY DEF TypeHttp, Suited
<1>2. HttpGetNextStep[1] \in RequestSteps
  BY DEF HttpGetNextStep, RequestSteps
<1>3. /\ HttpGetNextStep[2] \in {110, 255}
      /\ HttpGetNextStep[2] = 110 => ~(http.auth \in Centre /\ http.step = 2)
  BY DEF HttpGetNextStep
<1>4. /\ HttpGetNextStep[3] \in {2, 255}
      /\ HttpGetNextStep[3] = 2 => ~(http.auth = "UNKNOWN" \/ (http.auth = "UTILITY" /\ http.step = 2))
  BY DEF HttpGetNextStep
<1>5. /\ Requests["UNKNOWN"] = 1 /\ Requests["UTILITY"] = 2 /\ Requests["DOWNLOAD"] = 3
      /\ Requests["UPLOAD"] = 3 /\ Requests["RANKING"] = 3
  BY DEF Requests
<1> QED
  BY <1>1, <1>2, <1>3, <1>4, <1>5 DEF Centre

LEMMA HttpTaskProgress ==
  ASSUME TypeHttp, HttpProgress, recvChunk \in Chunks, MATASK_HTTP_GetPost
  PROVE  HttpProgress'
<1> USE HttpGoesOn DEF HttpProgress
<1>0. task = HttpTask /\ ~full
  BY DEF MATASK_HTTP_GetPost, Runs
<1>1. CASE task' = "NONE" /\ (full' => connMode' # "HTTP")
  BY <1>1
<1>2. ASSUME task' = task, (full' => full), taskStep' \in {240, 241, 255}
      PROVE  HttpProgress'
  BY <1>0, <1>2 DEF RequestSteps
<1>3. ASSUME task' = task, (full' => full), http.step < Requests[http.auth],
             http'.step = http.step, http'.auth = http.auth, taskStep' \in RequestSteps
      PROVE  HttpProgress'
  BY <1>0, <1>3 DEF RequestSteps
<1>5. CASE HttpTrouble
  BY <1>1, <1>2, <1>5 DEF HttpTrouble, Command, TaskFails, SetApiError
<1>6. CASE Request
  <2>1. taskStep \in RequestSteps /\ http.step < Requests[http.auth]
    BY <1>0, <1>6 DEF Request, At, RequestSteps
  <2>2. task' = task /\ full' = full /\ http'.step = http.step /\ http'.auth = http.auth
    <3>1. task' = task /\ full' = full
      BY <1>6 DEF Request, Command, Goes, flags, Says_
    <3>2. \A n, k : /\ [http EXCEPT !.next = n, !.left = k].step = http.step
                    /\ [http EXCEPT !.next = n, !.left = k].auth = http.auth
      BY DEF TypeHttp
    <3>3. /\ NoHeader.step = http.step /\ NoHeader.auth = http.auth
          /\ [NoHeader EXCEPT !.next = 8].step = NoHeader.step
          /\ [NoHeader EXCEPT !.next = 8].auth = NoHeader.auth
      BY DEF TypeHttp, NoHeader
    <3>4. ASSUME NEW text, NEW step, NEW n, NEW k, Says_(text, step, n, k)
          PROVE  http'.step = http.step /\ http'.auth = http.auth
      BY <3>2, <3>4 DEF Says_
    <3>5. http' = [http EXCEPT !.next = 5, !.left = http.pieces] =>
            http'.step = http.step /\ http'.auth = http.auth
      BY <3>2
    <3>6. http'.step = http.step /\ http'.auth = http.auth
      BY <1>6, <3>3, <3>4, <3>5 DEF Request
    <3> QED
      BY <3>1, <3>6
  <2>3. taskStep' \in RequestSteps
    BY <1>6 DEF Request, Command, Goes, Says_, RequestSteps, TypeHttp
  <2> QED
    BY <1>3, <2>1, <2>2, <2>3
<1>7. CASE Header
  <2>1. taskStep = 8 /\ http.step < Requests[http.auth] /\ http.step \in 0..3
    BY <1>0, <1>7 DEF Header, At, RequestSteps, TypeHttp
  <2>2. CASE Goes(240)
    BY <1>2, <2>2 DEF Goes, flags
  <2>3. CASE Goes(HttpGetNextStep[2]) /\ http' = [http EXCEPT !.step = @ + 1]
    <3>1. http'.step = http.step + 1 /\ http'.auth = http.auth
      BY <2>3 DEF TypeHttp
    <3>2. task' = task /\ full' = full /\ taskStep' \in {110, 255}
      BY <2>3 DEF Goes, flags
    <3>3. CASE taskStep' = 110
      BY <1>0, <2>1, <2>3, <3>1, <3>2, <3>3 DEF Goes, RequestSteps
    <3> QED
      BY <1>2, <3>2, <3>3
  <2>4. CASE /\ ~Goes(240)
             /\ ~(Goes(HttpGetNextStep[2]) /\ http' = [http EXCEPT !.step = @ + 1])
    <3>1. task' = task /\ full' = full /\ taskStep' = 8
      <4>1. AfterSome => task' = task /\ full' = full /\ taskStep' = 8
        BY <2>1 DEF AfterSome, Command, flags, api
      <4> QED
        BY <1>7, <2>1, <2>4, <4>1, ReplyLeaves DEF Header, Command
    <3>2. http'.step = http.step /\ http'.auth = http.auth
      BY <1>7, <2>4, HeadTyped DEF Header
    <3> QED
      BY <1>3, <2>1, <3>1, <3>2 DEF RequestSteps
  <2> QED
    BY <1>7, <2>2, <2>3, <2>4 DEF Header
<1>8. CASE Page
  <2>1. http.step \in 1..2 /\ http.step <= Requests[http.auth] /\ UNCHANGED http /\ taskStep = 110
    BY <1>0, <1>8 DEF Page, At
  <2>2. CASE Command("DATA", sockets[0], "empty", 110)
    BY <1>0, <2>1, <2>2 DEF Command, RequestSteps
  <2>3. CASE full' = FALSE /\ taskStep' = HttpGetNextStep[3] /\ task' = task
    BY <1>0, <2>1, <2>3 DEF RequestSteps
  <2>4. CASE Overflow(recvChunk)
    BY <1>0, <2>1, <2>4 DEF Overflow, KeepRest
  <2> QED
    BY <1>8, <2>2, <2>3, <2>4 DEF Page
<1>9. CASE PageEnds
  BY <1>1, <1>9 DEF PageEnds, TaskFails, SetApiError, TaskEnds, TaskDone
<1>10. CASE /\ UNCHANGED http
            /\ (At(0) /\ Command("DNS_REQUEST", 0, "empty", 1))
               \/ ((At(1) \/ At(2)) /\ Command("TCP_CONNECT", 0, "HTTP", 3))
  BY <1>0, <1>3, <1>10 DEF At, Command, RequestSteps
<1> QED
  BY <1>5, <1>6, <1>7, <1>8, <1>9, <1>10 DEF MATASK_HTTP_GetPost

LEMMA OthersProgress ==
  ASSUME HttpProgress, task' # HttpTask,
         full' /\ connMode' = "HTTP" => full /\ connMode = "HTTP" /\ UNCHANGED http,
         task' = "POP3_RETR" => connMode' = "POP3"
  PROVE  HttpProgress'
BY DEF HttpProgress

LEMMA TasksOf ==
  /\ SocketTasks => task \in TcpTasks \cup {"OFFLINE", "TCP_CUT"}
  /\ MailTasksStep => task \in MailTasks /\ (task = "POP3_RETR" => MATASK_POP3_Retr)
  /\ MATASK_TelServer \/ MATASK_GetEEPROMData \/ MATASK_EEPROM_Read \/ MATASK_EEPROM_Write
       => task \in SettingsTasks
<1> USE DEF Runs
<1>1. SocketTasks => task \in TcpTasks \cup {"OFFLINE", "TCP_CUT"}
  BY DEF SocketTasks, MATASK_TCP_Connect, MATASK_TCP_Disconnect, MATASK_TCP_SendRecv,
         MATASK_GetHostAddress, MATASK_Offline, MATASK_TCP_Cut, TcpTasks
<1>2. ASSUME NEW t, MailTrouble(t) \/ MailRuns(t) PROVE task = t
  BY <1>2 DEF MailTrouble, MailRuns
<1>3. MailTasksStep => task \in MailTasks /\ (task = "POP3_RETR" => MATASK_POP3_Retr)
  BY <1>2 DEF MailTasksStep, MATASK_SMTP_Connect, MATASK_SMTP_Sender, MATASK_SMTP_Send,
     MATASK_SMTP_POP3_Quit, MATASK_POP3_Connect, MATASK_POP3_Stat, MATASK_POP3_List,
     MATASK_POP3_Dele, MATASK_POP3_Retr, Asks, MailTasks
<1>4. MATASK_TelServer \/ MATASK_GetEEPROMData \/ MATASK_EEPROM_Read \/ MATASK_EEPROM_Write
        => task \in SettingsTasks
  BY DEF MATASK_TelServer, MATASK_GetEEPROMData, MATASK_EEPROM_Read, MATASK_EEPROM_Write,
         SettingsTask, SettingsTasks
<1> QED
  BY <1>1, <1>3, <1>4

LEMMA TasksProgress ==
  ASSUME TypeHttp, HttpProgress, TypeList, Running, MAAPI_Main
  PROVE  HttpProgress'
<1> USE TasksOf, PlainEffects
<1>0. Tabled
  BY DEF Tabled, TypeList
<1>1. CASE SocketTasks /\ UNCHANGED http
  BY <1>0, <1>1, SocketTasksMove, SocketTasksList, OthersProgress DEF TcpTasks
<1>2. CASE MailTasksStep /\ UNCHANGED http
  <2>1. CASE MATASK_POP3_Retr
    <3>1. task = "POP3_RETR" /\ connMode = "POP3"
      BY <2>1 DEF MATASK_POP3_Retr, MailTrouble, MailRuns, Runs, HttpProgress
    <3>2. CASE MailTrouble("POP3_RETR")
      BY <1>2, <3>1, <3>2, OthersProgress DEF MailTrouble, MailClosed, MailGivenUp, MailFails,
         TaskFails, SetApiError, Command
    <3>3. CASE connMode' = connMode
      <4>1. task' \in {task, "NONE"}
        BY <2>1, <3>1, MailTasksMove, PlainEffects DEF MailTasksStep, TaskMoves, Overflow, KeepRest
      <4> QED
        BY <3>1, <3>3, <4>1, OthersProgress
    <3> QED
      BY <2>1, <3>2, <3>3 DEF MATASK_POP3_Retr, Same, Ends
  <2>2. CASE ~MATASK_POP3_Retr
    BY <1>0, <1>2, <2>2, MailTasksMove, MailTasksList, OthersProgress DEF MailTasks, Modes
  <2> QED
    BY <2>1, <2>2
<1>3. CASE /\ MATASK_TelServer \/ MATASK_GetEEPROMData \/ MATASK_EEPROM_Read \/ MATASK_EEPROM_Write
           /\ UNCHANGED http
  BY <1>0, <1>3, SettingsTasksMove, OtherTasksList, OthersProgress DEF SettingsTasks
<1>4. MATASK_TelServer \/ MATASK_GetEEPROMData \/ MATASK_EEPROM_Read \/ MATASK_EEPROM_Write
        => UNCHANGED http
  BY DEF MATASK_TelServer, MATASK_GetEEPROMData, MATASK_EEPROM_Read, MATASK_EEPROM_Write,
         SettingsTask
<1>5. recvChunk \in Chunks
  BY DEF Running, TypeRun, Chunks
<1> QED
  BY <1>1, <1>2, <1>3, <1>4, <1>5, HttpTaskProgress DEF MAAPI_Main

\* A call outside the centre's pages.
LEMMA CallProgress ==
  ASSUME HttpProgress, NEW mode, AtRest(mode), mode # "HTTP", UNCHANGED connMode,
         task' # HttpTask, task' = "POP3_RETR" => mode = "POP3"
  PROVE  HttpProgress'
BY OthersProgress DEF AtRest

LEMMA RefuseProgress == ASSUME HttpProgress, Refuse PROVE HttpProgress'
BY OthersProgress DEF Refuse, SetApiError

LEMMA SocketCallsProgress ==
  ASSUME HttpProgress, SocketCalls \/ GoesOffline \/ MA_TCP_Cut
  PROVE  HttpProgress'
<1> USE RefuseProgress, CallProgress DEF Begin, Starts
<1>1. CASE MA_TCP_Connect
  BY <1>1 DEF MA_TCP_Connect
<1>2. CASE MA_GetHostAddress
  BY <1>2 DEF MA_GetHostAddress
<1>3. ASSUME NEW s, MA_TCP_Disconnect(s) \/ MA_TCP_SendRecv(s) PROVE HttpProgress'
  BY <1>3 DEF MA_TCP_Disconnect, MA_TCP_SendRecv
<1>4. CASE GoesOffline
  <2>1. PICK mode \in {"PPP", "SMTP", "POP3"} :
          AtRest(mode) /\ Begin("OFFLINE", IF mode = "PPP" THEN 0 ELSE 100, 0)
    BY <1>4 DEF GoesOffline, MA_Offline
  <2> QED
    BY <2>1
<1>5. CASE MA_TCP_Cut
  BY <1>5, OthersProgress DEF MA_TCP_Cut
<1> QED
  BY <1>1, <1>2, <1>3, <1>4, <1>5 DEF SocketCalls

LEMMA MailCallsProgress ==
  ASSUME HttpProgress, MailCalls
  PROVE  HttpProgress'
<1> USE CallProgress DEF Begin, Starts
<1>1. CASE MA_SMTP_Connect \/ MA_POP3_Connect \/ MA_SMTP_Sender \/ MA_SMTP_Send
  BY <1>1 DEF MA_SMTP_Connect, MA_SMTP_Sender, MA_SMTP_Send, MA_POP3_Connect
<1>2. CASE MA_SMTP_Quit \/ MA_POP3_Quit \/ MA_POP3_Stat \/ MA_POP3_List \/ MA_POP3_Dele
  BY <1>2 DEF MA_SMTP_Quit, MA_POP3_Quit, MA_POP3_Stat, MA_POP3_List, MA_POP3_Dele, MA_POP3_Ask
<1>3. ASSUME NEW text, NEW room, NewMail(text, room) PROVE HttpProgress'
  BY <1>3 DEF NewMail
<1>4. ASSUME NEW room, SameMail(room) PROVE HttpProgress'
  BY <1>4 DEF SameMail, RestGiven, RestFills, RestRefused, AtRest, api
<1> QED
  BY <1>1, <1>2, <1>3, <1>4 DEF MailCalls, MA_POP3_Retr, MA_POP3_Head

LEMMA HttpCallTyped ==
  ASSUME TypeHttp, HttpProgress, MA_HTTP_GetPost
  PROVE  TypeHttp' /\ HttpProgress'
<1>1. CASE NewPage
  <2>1. PICK method \in DOMAIN Suited, pieces \in Pieces : \E auth \in Suited[method] :
          http' = [NoPage EXCEPT !.method = method, !.auth = auth, !.pieces = pieces]
    BY <1>1 DEF NewPage
  <2>2. PICK auth \in Suited[method] :
          http' = [NoPage EXCEPT !.method = method, !.auth = auth, !.pieces = pieces]
    BY <2>1
  <2>3. pieces \in Nat
    BY HttpAssumption
  <2>4. http' \in HttpRecord
    BY <2>2, <2>3, NoPageTyped, NewPageTyped
  <2>5. http'.step = 0 /\ http'.auth = auth
    <3>1. NoPage.step = 0
      BY DEF NoPage
    <3> QED
      BY <2>2, <3>1, NoPageTyped DEF HttpRecord
  <2>6. Requests[auth] \in 1..3
    BY DEF Suited, Requests
  <2>7. task' = HttpTask /\ taskStep' \in {0, 2} /\ ~full'
    BY <1>1 DEF NewPage, Starts
  <2> QED
    BY <2>4, <2>5, <2>6, <2>7 DEF TypeHttp, HttpRecord, HttpProgress
<1>2. ASSUME NEW room, SamePage(room) PROVE TypeHttp' /\ HttpProgress'
  <2>1. TypeHttp'
    BY <1>2 DEF SamePage, TypeHttp
  <2>2. full /\ connMode = "HTTP" /\ task = "NONE" /\ UNCHANGED <<http, connMode>>
    BY <1>2 DEF SamePage, AtRest
  <2>3. \/ full' = FALSE /\ task' = HttpTask /\ taskStep' = 110
        \/ full' = full /\ UNCHANGED task
    BY <1>2 DEF SamePage, RestGiven, RestRefused, RestFills, Starts, api
  <2>4. HttpProgress'
    <3>1. ASSUME ~full', task' = HttpTask, taskStep' = 110 PROVE HttpProgress'
      BY <2>2, <3>1 DEF HttpProgress, RequestSteps
    <3>2. ASSUME UNCHANGED task PROVE HttpProgress'
      BY <2>2, <3>2 DEF HttpProgress
    <3> QED
      BY <2>3, <3>1, <3>2
  <2> QED
    BY <2>1, <2>4
<1> QED
  BY <1>1, <1>2 DEF MA_HTTP_GetPost

LEMMA HttpKept ==
  ASSUME TypeHttp, HttpProgress, TypeList, Running, [Next]_vars
  PROVE  TypeHttp' /\ HttpProgress'
<1>0. http' = http \/ http' = NoPage => TypeHttp'
  BY NoPageTyped DEF TypeHttp, HttpRecord
<1>1. CASE Game
  <2>1. CASE (SocketCalls \/ GoesOffline \/ MA_TCP_Cut) /\ http' = NoPage
    BY <1>0, <2>1, SocketCallsProgress
  <2>2. CASE MA_ApiPreExe /\ http' = http
    BY <1>0, <2>2, RefuseProgress DEF MA_ApiPreExe
  <2>3. CASE MAAPI_ErrorCheck /\ http' = http
    <3>1. HttpProgress'
      BY <2>3 DEF MAAPI_ErrorCheck, HttpProgress, api
    <3> QED
      BY <1>0, <2>3, <3>1
  <2>4. CASE MailCalls /\ http' = NoPage
    BY <1>0, <2>4, MailCallsProgress
  <2>5. CASE MA_TelServer \/ MA_GetEEPROMData \/ MA_EEPROMRead \/ MA_EEPROMWrite
    <3>1. http' = NoPage
      BY <2>5 DEF MA_TelServer, MA_GetEEPROMData, MA_EEPROMRead, MA_EEPROMWrite, Aside
    <3>2. HttpProgress'
      BY <2>5, CallProgress DEF MA_TelServer, MA_GetEEPROMData, MA_EEPROMRead, MA_EEPROMWrite,
         Begin, Starts
    <3> QED
      BY <1>0, <3>1, <3>2
  <2> QED
    BY <1>1, <2>1, <2>2, <2>3, <2>4, <2>5, HttpCallTyped DEF Game
<1>2. CASE MAAPI_Main
  <2>1. TypeHttp'
    <3>1. MATASK_HTTP_GetPost \/ http' = http
      BY <1>2 DEF MAAPI_Main, MATASK_TelServer, MATASK_GetEEPROMData, MATASK_EEPROM_Read,
         MATASK_EEPROM_Write, SettingsTask
    <3>2. recvChunk \in Chunks
      BY DEF Running, TypeRun, Chunks
    <3> QED
      BY <1>0, <3>1, <3>2, HttpStepTyped
  <2> QED
    BY <1>2, <2>1, TasksProgress
<1>3. CASE Answer \/ ServerCloses \/ UNCHANGED vars
  <2>1. UNCHANGED <<task, taskStep, full, connMode, http>>
    BY <1>3 DEF Answer, MA_ProcessRecvPacket, SettingsAnswers, ServerCloses, vars, socketVars, api, flags
  <2>2. HttpProgress'
    BY <2>1 DEF HttpProgress
  <2> QED
    BY <1>0, <2>1, <2>2
<1>4. CASE Leaves
  <2>1. HttpProgress'
    BY <1>4, OthersProgress DEF Leaves, SessionEnds
  <2> QED
    BY <1>0, <1>4, <2>1 DEF Leaves
<1> QED
  BY <1>1, <1>2, <1>3, <1>4 DEF Next

----------------------------------------------------------------------------
(* The flags that only one task looks at, and online.                      *)

Moved(old, new) == new \in {old, TRUE, FALSE}

LEMMA StatusMoves ==
  ASSUME [Next]_vars
  PROVE  Moved(bufferEmpty, bufferEmpty') /\ Moved(respFound, respFound')
<1> USE DEF Moved
<1>1. mailVars' = mailVars => Moved(respFound, respFound')
  BY DEF mailVars
<1>2. NotReceiving => Moved(bufferEmpty, bufferEmpty')
  BY DEF NotReceiving
<1>3. NotMailing => Moved(respFound, respFound')
  BY DEF NotMailing
<1>4. ASSUME NEW room, NEW t, NEW step
      PROVE  /\ \A way \in BOOLEAN : RestGiven(t, step, room, way) => Moved(bufferEmpty, bufferEmpty')
             /\ RestFills(room) => Moved(bufferEmpty, bufferEmpty')
             /\ RestRefused(t, step, room, FALSE) => Moved(bufferEmpty, bufferEmpty')
             /\ RestRefused(t, step, room, TRUE) => Moved(bufferEmpty, bufferEmpty')
  BY DEF RestGiven, RestFills, RestRefused
<1> HIDE DEF Moved
<1>5. CASE Game
  <2>1. ASSUME NEW room, SameMail(room) PROVE Moved(bufferEmpty, bufferEmpty')
    BY <1>4, <2>1 DEF SameMail
  <2>2. ASSUME NEW room, SamePage(room) PROVE Moved(bufferEmpty, bufferEmpty')
    BY <1>4, <2>2 DEF SamePage
  <2>3. ASSUME NEW room, SameMail(room) PROVE UNCHANGED mailVars
    BY <2>3 DEF SameMail
  <2>4. NewPage => Moved(bufferEmpty, bufferEmpty')
    BY DEF NewPage, Moved
  <2>5. MailCalls => Moved(bufferEmpty, bufferEmpty') /\ Moved(respFound, respFound')
    <3>1. ASSUME NEW text, NEW room, NewMail(text, room) PROVE Moved(respFound, respFound')
      BY <3>1 DEF NewMail, Moved
    <3>2. MA_POP3_Retr \/ MA_POP3_Head => Moved(respFound, respFound')
      BY <1>1, <2>3, <3>1 DEF MA_POP3_Retr, MA_POP3_Head
    <3>3. MA_POP3_Retr \/ MA_POP3_Head => Moved(bufferEmpty, bufferEmpty')
      BY <2>1 DEF MA_POP3_Retr, MA_POP3_Head, Moved
    <3>4. MA_SMTP_Sender \/ MA_SMTP_Send => Moved(bufferEmpty, bufferEmpty') /\ Moved(respFound, respFound')
      BY <1>2 DEF MA_SMTP_Sender, MA_SMTP_Send, Moved
    <3> QED
      BY <1>2, <1>3, <3>2, <3>3, <3>4
         DEF MailCalls, MA_SMTP_Connect, MA_SMTP_Quit, MA_POP3_Connect, MA_POP3_Quit,
             MA_POP3_Stat, MA_POP3_List, MA_POP3_Dele, MA_POP3_Ask
  <2>6. MA_HTTP_GetPost => Moved(bufferEmpty, bufferEmpty') /\ Moved(respFound, respFound')
    BY <1>1, <1>3, <2>2, <2>4 DEF MA_HTTP_GetPost
  <2>7. MA_TelServer \/ MA_GetEEPROMData \/ MA_EEPROMRead \/ MA_EEPROMWrite
          => Moved(bufferEmpty, bufferEmpty') /\ Moved(respFound, respFound')
    BY <1>2, <1>3 DEF MA_TelServer, MA_GetEEPROMData, MA_EEPROMRead, MA_EEPROMWrite, Aside
  <2>8. UNCHANGED <<bufferEmpty, mailVars>> => Moved(bufferEmpty, bufferEmpty') /\ Moved(respFound, respFound')
    BY <1>1 DEF Moved
  <2> QED
    BY <1>2, <1>3, <1>5, <2>5, <2>6, <2>7, <2>8 DEF Game
<1>6. UNCHANGED <<bufferEmpty, mailVars>> => Moved(bufferEmpty, bufferEmpty') /\ Moved(respFound, respFound')
  BY <1>1 DEF Moved
<1>7. CASE MAAPI_Main
  <2>1. MailTasksStep => Moved(bufferEmpty, bufferEmpty') /\ Moved(respFound, respFound')
    <3>1. ASSUME NEW t, MailTrouble(t)
          PROVE  Moved(bufferEmpty, bufferEmpty') /\ Moved(respFound, respFound')
      BY <1>6, <3>1 DEF MailTrouble
    <3>2. ASSUME NEW chunk, RetrStore(chunk) PROVE Moved(respFound, respFound')
      BY <3>2 DEF RetrStore, Moved
    <3>3. MATASK_POP3_Retr => Moved(bufferEmpty, bufferEmpty') /\ Moved(respFound, respFound')
      BY <3>1, <3>2 DEF MATASK_POP3_Retr, Moved
    <3>4. MATASK_SMTP_Sender \/ MATASK_SMTP_Send => Moved(bufferEmpty, bufferEmpty') /\ Moved(respFound, respFound')
      BY <3>1 DEF MATASK_SMTP_Sender, MATASK_SMTP_Send, Moved
    <3> QED
      BY <1>6, <3>1, <3>3, <3>4 DEF MailTasksStep, MATASK_SMTP_Connect, MATASK_POP3_Connect,
         MATASK_SMTP_POP3_Quit, MATASK_POP3_Stat, MATASK_POP3_List, MATASK_POP3_Dele, Asks
  <2>2. MATASK_HTTP_GetPost => Moved(bufferEmpty, bufferEmpty') /\ Moved(respFound, respFound')
    <3>1. MATASK_HTTP_GetPost => Moved(respFound, respFound')
      BY <1>1 DEF MATASK_HTTP_GetPost
    <3>2. MATASK_HTTP_GetPost => Moved(bufferEmpty, bufferEmpty')
      BY DEF MATASK_HTTP_GetPost, Page, Moved
    <3> QED
      BY <3>1, <3>2
  <2> QED
    BY <1>6, <1>7, <2>1, <2>2 DEF MAAPI_Main, MATASK_TelServer, MATASK_GetEEPROMData,
       MATASK_EEPROM_Read, MATASK_EEPROM_Write, SettingsTask
<1>8. CASE Answer \/ ServerCloses \/ Leaves \/ UNCHANGED vars
  BY <1>6, <1>8 DEF Answer, SettingsAnswers, ServerCloses, Leaves, vars
<1> QED
  BY <1>5, <1>7, <1>8 DEF Next

LEMMA OnlineMoves ==
  ASSUME online \in BOOLEAN, [Next]_vars
  PROVE  online' \in BOOLEAN
<1>1. CASE Game \/ MAAPI_Main \/ ServerCloses \/ UNCHANGED vars
  BY <1>1, GameRestarts, TasksKeepAdapter
     DEF Restarts, ServerCloses, adapter, vars, socketVars
<1>2. CASE Answer
  <2>1. online' \in {online, FALSE, (sendCmd = "PPP_CONNECT")}
    BY <1>2 DEF Answer, MA_ProcessRecvPacket, SettingsAnswers, adapter
  <2> QED
    BY <2>1
<1>3. CASE Leaves
  BY <1>3 DEF Leaves, SessionEnds
<1> QED
  BY <1>1, <1>2, <1>3 DEF Next

LEMMA TypeFlagsKept ==
  ASSUME TypeFlags, [Next]_vars
  PROVE  TypeFlags'
<1>1. Flagged /\ {bufferEmpty, respFound} \subseteq BOOLEAN /\ online \in BOOLEAN
  BY Zenon DEF TypeFlags, Flagged
<1>2. Flagged'
  BY <1>1, FlagsKept
<1>3. bufferEmpty' \in BOOLEAN /\ respFound' \in BOOLEAN
  BY <1>1, StatusMoves, Zenon DEF Moved
<1>4. online' \in BOOLEAN
  BY <1>1, OnlineMoves
<1> QED
  BY <1>2, <1>3, <1>4, Zenon DEF TypeFlags, Flagged

----------------------------------------------------------------------------

LEMMA TypesKept == IInv /\ [Next]_vars => IInv'
<1> SUFFICES ASSUME IInv, [Next]_vars PROVE IInv'
  OBVIOUS
<1> USE DEF IInv, TypeOK
<1>1. Running'
  BY RunningKept
<1>2. TypeFlags' /\ TypeList' /\ TypeAdapter' /\ PageDue'
  BY TypeFlagsKept, ListKept, AdapterKept
<1>3. TypePrevBuf' /\ TypeRecv'
  BY BuffersKept DEF Buffers
<1>4. TypeMail' /\ TypeHttp' /\ HttpProgress'
  BY MailKept, HttpKept
<1>5. TypeRun'
  BY <1>1 DEF Running
<1> QED
  BY <1>1, <1>2, <1>3, <1>4, <1>5

LEMMA TypesAlways == Spec => []IInv
<1>1. Init => IInv
  BY TypesInit
<1>2. IInv /\ [Next]_vars => IInv'
  BY TypesKept
<1> QED
  BY <1>1, <1>2, PTL DEF Spec

\* Every variable of a session keeps its type, whatever the game calls and the
\* adapter and the servers answer: what the tasks of ma_api.c take for a socket
\* number, a part of the EEPROM or the next step is one, because the reply they
\* look at is the one to the command that the step before has sent.
THEOREM SessionsTypeOK == Spec => []TypeOK
<1>1. IInv => TypeOK
  BY DEF IInv
<1> QED
  BY <1>1, TypesAlways, PTL

=============================================================================
