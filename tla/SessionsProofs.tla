----------------------------- MODULE SessionsProofs -----------------------------
(***************************************************************************)
(* Safety of Sessions, for every set of connections, buffers and calls:    *)
(* the buffer of the game, the copy of the EEPROM, and the bytes of a page *)
(* from the server to the game's buffers.                                  *)
(***************************************************************************)
EXTENDS SessionsTypes

\* The modes of the connection in which a task runs.
RunsIn(t) ==
  CASE t \in TcpTasks \cup {"SMTP_CONNECT", "POP3_CONNECT"} -> {"PPP"}
    [] t \in {"SMTP_SENDER", "SMTP_SEND", "SMTP_QUIT"} -> {"SMTP"}
    [] t \in {"POP3_STAT", "POP3_LIST", "POP3_DELE", "POP3_RETR", "POP3_QUIT"} -> {"POP3"}
    [] t = HttpTask -> {"HTTP"}
    [] t \in SettingsTasks -> {"OFFLINE"}
    [] t = "OFFLINE" -> {"PPP", "SMTP", "POP3"}
    [] t = "TCP_CUT" -> {"PPP", "SMTP", "POP3", "HTTP"}
    [] t = "NONE" -> {"OFFLINE", "PPP", "SMTP", "POP3", "HTTP"}

ModeInv ==
  /\ connMode \in RunsIn(task)
  /\ task = "OFFLINE" /\ taskStep \in 100..103 => connMode # "PPP"

\* Where the tasks write stays inside the buffer.
RoomInv == Len(recv.cells) <= recv.given /\ recv.at + recv.room <= recv.given

FullInv == full => Idle /\ prevBuf.rest # <<>> /\ connMode \in {"POP3", "HTTP"}

\* The copy is dropped before the first reply line is read over it, and counts
\* only when both its parts have come; MATASK_TelServer dials with one.
CacheInv ==
  /\ prevBuf.hasEEPROMData => prevBuf.first = prevBuf.second /\ prevBuf.first # 0
  /\ \/ connMode \in {"SMTP", "POP3", "HTTP"}
     \/ task \in {"SMTP_CONNECT", "POP3_CONNECT"} /\ taskStep \in 3..6
     \/ task = "GETEEPROMDATA" /\ taskStep \in 0..4
     \/ task = "TELSERVER" /\ taskStep \in 4..5
     => ~prevBuf.hasEEPROMData
  /\ (task = "GETEEPROMDATA" /\ taskStep = 4) \/ (task = "TELSERVER" /\ taskStep = 5)
     => prevBuf.first # 0
  /\ task = "TELSERVER" /\ taskStep \in 6..9 => prevBuf.hasEEPROMData

USE DEF None, Closed, HttpTask

----------------------------------------------------------------------------
(* The modes.                                                              *)

\* What a step of a task comes to, for the mode: the task goes on in its mode,
\* or is over.
Stays == task' \in {task, "NONE"} /\ (task' = "NONE" \/ connMode' = connMode)

LEMMA StaysInMode ==
  ASSUME ModeInv, TypeList', Stays, task # "OFFLINE"
  PROVE  ModeInv'
<1>1. RunsIn("NONE") = {"OFFLINE", "PPP", "SMTP", "POP3", "HTTP"}
  BY DEF RunsIn, TcpTasks, SettingsTasks
<1>2. CASE task' = "NONE"
  BY <1>1, <1>2 DEF ModeInv, TypeList
<1>3. CASE task' = task
  BY <1>1, <1>3 DEF ModeInv, Stays, TypeList
<1> QED
  BY <1>2, <1>3 DEF Stays

LEMMA PartsStay ==
  /\ \A cmd, socket, text, step : Command(cmd, socket, text, step) => task' = task
  /\ \A step : Goes(step) => task' = task
  /\ \A chunk : Overflow(chunk) => task' = "NONE"
  /\ TaskDone => task' = "NONE"
  /\ TaskFails => task' = "NONE"
BY DEF Command, Goes, Overflow, KeepRest, TaskDone, TaskFails, SetApiError

LEMMA MailTasksStay == MailTasksStep => Stays
<1> USE PartsStay DEF Stays, TaskEnds
<1>1. ASSUME NEW t, MailTrouble(t) PROVE Stays
  BY <1>1 DEF MailTrouble, MailClosed, MailGivenUp, MailFails
<1>2. ASSUME NEW text, NEW step, SayLine(text, step) PROVE task' = task
  BY <1>2 DEF SayLine
<1>3. ReadOn => task' = task
  BY DEF ReadOn
<1>4. ASSUME NEW step, ReadTo(step) PROVE task' = task
  BY <1>4 DEF ReadTo
<1>5. ASSUME NEW port, Opens(port) PROVE Stays
  BY <1>5 DEF Opens
<1>6. MATASK_SMTP_Connect \/ MATASK_POP3_Connect => Stays
  BY <1>1, <1>2, <1>3, <1>4, <1>5 DEF MATASK_SMTP_Connect, MATASK_POP3_Connect, Reads, Opened, Same
<1>7. MATASK_SMTP_Sender => Stays
  BY <1>1, <1>2, <1>3, <1>4 DEF MATASK_SMTP_Sender, Reads, Same
<1>8. MATASK_SMTP_Send => Stays
  <2>1. SendSteps => task' \in {task, "NONE"}
    BY <1>2 DEF SendSteps, SendPiece
  <2> QED
    BY <1>1, <1>3, <1>4, <2>1 DEF MATASK_SMTP_Send, Reads, Same
<1>9. MATASK_SMTP_POP3_Quit => Stays
  BY <1>1, <1>2, <1>3, <1>4 DEF MATASK_SMTP_POP3_Quit, QuitSteps, Same
<1>10. MATASK_POP3_Stat \/ MATASK_POP3_List \/ MATASK_POP3_Dele => Stays
  BY <1>1, <1>2, <1>3, <1>4
     DEF MATASK_POP3_Stat, MATASK_POP3_List, MATASK_POP3_Dele, Asks, Reads, Ends, Same
<1>11. MATASK_POP3_Retr => Stays
  <2>1. ASSUME NEW chunk, RetrStore(chunk) PROVE task' \in {task, "NONE"}
    BY <2>1 DEF RetrStore, EndTest, Poll
  <2> QED
    BY <1>1, <1>2, <2>1 DEF MATASK_POP3_Retr, Ends, Same
<1> QED
  BY <1>6, <1>7, <1>8, <1>9, <1>10, <1>11 DEF MailTasksStep

LEMMA HttpTaskStays == MATASK_HTTP_GetPost => Stays
<1> USE PartsStay DEF Stays, TaskEnds
<1>1. Request => task' = task
  BY DEF Request, Says_
<1>2. Header => task' = task
  <2>1. HeaderRead \/ PageTakenForHeader => task' = task
    BY DEF HeaderRead, PageTakenForHeader, AfterReply, api
  <2> QED
    BY <2>1 DEF Header
<1>3. Page => task' \in {task, "NONE"}
  BY DEF Page
<1>4. PageEnds \/ HttpTrouble => Stays
  BY DEF PageEnds, HttpTrouble
<1> QED
  BY <1>1, <1>2, <1>3, <1>4 DEF MATASK_HTTP_GetPost, Same

LEMMA SettingsTasksStay ==
  MATASK_TelServer \/ MATASK_GetEEPROMData \/ MATASK_EEPROM_Read \/ MATASK_EEPROM_Write => Stays
<1> USE PartsStay
    DEF TaskEnds, Stays, SettingsTask, Aborts, Opening, Ask, Closing, FirstPart, SecondPart, Rejected
<1> QED
  BY DEF MATASK_TelServer, MATASK_GetEEPROMData, MATASK_EEPROM_Read, MATASK_EEPROM_Write

LEMMA SocketTasksStay == SocketTasks => Stays \/ MATASK_Offline
<1> USE PartsStay DEF TaskEnds, Stays
<1>1. MATASK_TCP_Connect \/ MATASK_TCP_Disconnect \/ MATASK_TCP_SendRecv \/ MATASK_GetHostAddress
        => Stays
  BY DEF MATASK_TCP_Connect, MATASK_TCP_Disconnect, MATASK_TCP_SendRecv, MATASK_GetHostAddress
<1>2. MATASK_TCP_Cut => Stays
  BY DEF MATASK_TCP_Cut
<1> QED
  BY <1>1, <1>2 DEF SocketTasks

LEMMA OfflineMode ==
  ASSUME ModeInv, TypeList', MATASK_Offline
  PROVE  ModeInv'
<1>1. task = "OFFLINE" /\ connMode \in {"PPP", "SMTP", "POP3"}
  BY DEF MATASK_Offline, Runs, ModeInv, RunsIn, TcpTasks, SettingsTasks
<1>2. CASE task' = "NONE"
  BY <1>2 DEF ModeInv, RunsIn, TypeList, TcpTasks, SettingsTasks
<1>3. CASE task' = task
  <2>1. \/ connMode' = connMode /\ (taskStep' \in 100..103 => taskStep \in 100..103)
        \/ connMode' = "PPP" /\ taskStep' = 0
    BY <1>1, <1>3 DEF MATASK_Offline, At, Command, Goes, TaskEnds, TaskDone, SayLine, ReadOn
  <2>2. RunsIn("OFFLINE") = {"PPP", "SMTP", "POP3"}
    BY DEF RunsIn, TcpTasks, SettingsTasks
  <2> QED
    BY <1>1, <1>3, <2>1, <2>2 DEF ModeInv
<1>4. task' \in {task, "NONE"}
  BY SocketTasksMove, PlainEffects DEF SocketTasks
<1> QED
  BY <1>2, <1>3, <1>4

LEMMA TasksMode ==
  ASSUME ModeInv, TypeList', MAAPI_Main
  PROVE  ModeInv'
<1>1. Stays => (task = "OFFLINE" => MATASK_Offline)
  BY TasksOf DEF MAAPI_Main, SocketTasks, MATASK_TCP_Connect, MATASK_TCP_Disconnect,
     MATASK_TCP_SendRecv, MATASK_GetHostAddress, MATASK_TCP_Cut, MATASK_HTTP_GetPost, Runs, MailTasks, SettingsTasks
<1> QED
  BY <1>1, StaysInMode, OfflineMode, MailTasksStay, HttpTaskStays, SettingsTasksStay, SocketTasksStay
     DEF MAAPI_Main

\* A call of the game, or another buffer for the one that is pending.
LEMMA CallsMode ==
  /\ \A t, step, arg : Begin(t, step, arg) => task' = t /\ taskStep' = step /\ connMode' = connMode
  /\ \A t, step, arg : Starts(t, step, arg) => task' = t /\ taskStep' = step
  /\ Refuse => task' = "NONE" /\ connMode' = connMode
  /\ \A room : RestFills(room) => task' = task
  /\ \A t, step, room, way : RestGiven(t, step, room, way) => task' = t /\ taskStep' = step
  /\ \A t, step, room, empty : RestRefused(t, step, room, empty) => task' = t /\ taskStep' = step
<1>1. ASSUME NEW t, NEW step, NEW arg, Starts(t, step, arg) PROVE task' = t /\ taskStep' = step
  BY <1>1 DEF Starts
<1>2. ASSUME NEW t, NEW step, NEW arg, Begin(t, step, arg)
      PROVE  task' = t /\ taskStep' = step /\ connMode' = connMode
  BY <1>1, <1>2 DEF Begin
<1>3. Refuse => task' = "NONE" /\ connMode' = connMode
  BY DEF Refuse, SetApiError
<1>4. ASSUME NEW room, RestFills(room) PROVE task' = task
  BY <1>4 DEF RestFills, api
<1>5. ASSUME NEW t, NEW step, NEW room, NEW way, RestGiven(t, step, room, way)
      PROVE  task' = t /\ taskStep' = step
  BY <1>1, <1>5 DEF RestGiven
<1>6. ASSUME NEW t, NEW step, NEW room, NEW empty, RestRefused(t, step, room, empty)
      PROVE  task' = t /\ taskStep' = step
  BY <1>1, <1>6 DEF RestRefused
<1> QED
  BY <1>1, <1>2, <1>3, <1>4, <1>5, <1>6

LEMMA NoneMode ==
  ASSUME ModeInv, TypeList', task' = "NONE"
  PROVE  ModeInv'
BY DEF ModeInv, TypeList, RunsIn, TcpTasks, SettingsTasks

LEMMA CallMode ==
  ASSUME ModeInv, TypeList', connMode' \in RunsIn(task'), ~(task' = "OFFLINE")
  PROVE  ModeInv'
BY DEF ModeInv

LEMMA RunsInEach ==
  /\ \A t \in TcpTasks \cup {"SMTP_CONNECT", "POP3_CONNECT"} : RunsIn(t) = {"PPP"}
  /\ \A t \in {"SMTP_SENDER", "SMTP_SEND", "SMTP_QUIT"} : RunsIn(t) = {"SMTP"}
  /\ \A t \in {"POP3_STAT", "POP3_LIST", "POP3_DELE", "POP3_RETR", "POP3_QUIT"} : RunsIn(t) = {"POP3"}
  /\ \A t \in SettingsTasks : RunsIn(t) = {"OFFLINE"}
  /\ RunsIn(HttpTask) = {"HTTP"} /\ RunsIn("OFFLINE") = {"PPP", "SMTP", "POP3"}
  /\ RunsIn("TCP_CUT") = {"PPP", "SMTP", "POP3", "HTTP"}
BY DEF RunsIn, TcpTasks, SettingsTasks

LEMMA GameMode ==
  ASSUME ModeInv, TypeList', Game
  PROVE  ModeInv'
<1> USE CallsMode, NoneMode, CallMode, RunsInEach DEF AtRest
<1>1. CASE SocketCalls
  BY <1>1 DEF SocketCalls, MA_TCP_Connect, MA_GetHostAddress, MA_TCP_Disconnect, MA_TCP_SendRecv, TcpTasks
<1>2. CASE GoesOffline
  <2>1. PICK mode \in {"PPP", "SMTP", "POP3"} :
          AtRest(mode) /\ Begin("OFFLINE", IF mode = "PPP" THEN 0 ELSE 100, 0)
    BY <1>2 DEF GoesOffline, MA_Offline
  <2> QED
    BY <2>1 DEF ModeInv
<1>3. CASE MA_TCP_Cut
  BY <1>3 DEF MA_TCP_Cut
<1>4. CASE MA_ApiPreExe \/ MAAPI_ErrorCheck
  BY <1>4 DEF MA_ApiPreExe, MAAPI_ErrorCheck, ModeInv, api
<1>5. CASE MailCalls
  <2>1. ASSUME NEW text, NEW room, NewMail(text, room) PROVE ModeInv'
    BY <2>1 DEF NewMail
  <2>2. ASSUME NEW room, SameMail(room) PROVE ModeInv'
    BY <2>2 DEF SameMail
  <2>3. MA_SMTP_Connect \/ MA_SMTP_Sender \/ MA_SMTP_Send \/ MA_SMTP_Quit => ModeInv'
    <3>1. MA_SMTP_Send => AtRest("SMTP") /\ Begin("SMTP_SEND", 0, 0)
      BY Zenon DEF MA_SMTP_Send
    <3> QED
      BY <3>1 DEF MA_SMTP_Connect, MA_SMTP_Sender, MA_SMTP_Quit
  <2>4. MA_POP3_Connect \/ MA_POP3_Quit \/ MA_POP3_Stat \/ MA_POP3_List \/ MA_POP3_Dele => ModeInv'
    BY DEF MA_POP3_Connect, MA_POP3_Quit, MA_POP3_Stat, MA_POP3_List, MA_POP3_Dele, MA_POP3_Ask
  <2> QED
    BY <1>5, <2>1, <2>2, <2>3, <2>4 DEF MailCalls, MA_POP3_Retr, MA_POP3_Head
<1>6. CASE MA_HTTP_GetPost
  <2>1. NewPage => ModeInv'
    BY DEF NewPage
  <2>2. ASSUME NEW room, SamePage(room) PROVE ModeInv'
    BY <2>2 DEF SamePage
  <2> QED
    BY <1>6, <2>1, <2>2 DEF MA_HTTP_GetPost
<1>7. CASE MA_TelServer \/ MA_GetEEPROMData \/ MA_EEPROMRead \/ MA_EEPROMWrite
  BY <1>7 DEF MA_TelServer, MA_GetEEPROMData, MA_EEPROMRead, MA_EEPROMWrite, SettingsTasks
<1> QED
  BY <1>1, <1>2, <1>3, <1>4, <1>5, <1>6, <1>7 DEF Game

\* An answer, or a server that closes, leaves what runs as it is.
LEMMA AnswersStay ==
  Answer \/ ServerCloses \/ UNCHANGED vars =>
    UNCHANGED <<task, taskStep, param, cutCmd, connMode, full, prevBuf, recv, bufferEmpty, http, held,
                usedSockets, sockets>>
BY DEF Answer, MA_ProcessRecvPacket, SettingsAnswers, ServerCloses, vars, socketVars, api, flags, table

LEMMA ModeKept ==
  ASSUME ModeInv, TypeList', [Next]_vars
  PROVE  ModeInv'
<1>1. CASE Answer \/ ServerCloses \/ UNCHANGED vars
  BY <1>1, AnswersStay DEF ModeInv
<1>2. CASE Leaves
  BY <1>2, NoneMode DEF Leaves, SessionEnds
<1> QED
  BY <1>1, <1>2, TasksMode, GameMode DEF Next

----------------------------------------------------------------------------
(* The game's buffer.                                                      *)

\* All a step of a task may do to it.
Stored(chunk) == Fits(chunk.bytes) /\ Store(chunk.bytes) /\ (full' => full)
Filled(chunk) == /\ ~Fits(chunk.bytes) /\ Overflow(chunk)
                 /\ task \in {"POP3_RETR", HttpTask} /\ connMode' = connMode
Grown(chunk)  == (Stored(chunk) \/ Filled(chunk)) /\ (task = HttpTask => chunk = recvChunk)
Spared == recv' = recv /\ (full' => full)

LEMMA TasksStore ==
  ASSUME Running, MAAPI_Main
  PROVE  Spared \/ \E chunk \in Chunks : Grown(chunk)
<1>0. recvChunk \in Chunks
  BY DEF Running, TypeRun, Chunks
<1>1. PlainMoves => (full' => full)
  BY PlainEffects
<1>2. SocketTasks /\ UNCHANGED recv => Spared
  BY <1>1, SocketTasksMove DEF Spared
<1>3. MailTasksStep /\ ~MATASK_POP3_Retr => Spared
  BY <1>1, MailTasksMove, MailTasksQuiet DEF Spared, Quiet
<1>4. ASSUME MATASK_POP3_Retr PROVE Spared \/ \E chunk \in Chunks : Grown(chunk)
  <2>1. MailTrouble("POP3_RETR") => Spared
    BY DEF MailTrouble, MailClosed, MailGivenUp, MailFails, TaskFails, SetApiError, Command, Spared
  <2>2. ASSUME NEW chunk, EndTest(chunk) PROVE full' = full
    BY <2>2 DEF EndTest, Goes, Poll, Command, flags
  <2>3. SayLine(mail.text, 1) \/ Ends(100) => full' = full
    BY DEF SayLine, Command, Ends, TaskEnds, TaskDone
  <2>4. ASSUME NEW chunk, RetrStore(chunk), task = "POP3_RETR", connMode' = connMode
        PROVE  Spared \/ Grown(chunk)
    BY <2>2, <2>4 DEF RetrStore, Poll, Goes, Command, flags, Spared, Grown, Stored, Filled
  <2>5. task = "POP3_RETR"
    BY <1>4 DEF MATASK_POP3_Retr, MailTrouble, MailRuns, Runs
  <2>6. CASE At(1) /\ Same /\ \E chunk \in SeenAs : RetrStore(chunk)
    BY <1>0, <2>4, <2>5, <2>6, SeenParts DEF Same
  <2> QED
    BY <1>4, <2>1, <2>3, <2>6 DEF MATASK_POP3_Retr, Spared
<1>5. ASSUME MATASK_HTTP_GetPost PROVE Spared \/ Grown(recvChunk)
  <2>1. Page /\ Same => Spared \/ Grown(recvChunk)
    BY <1>5 DEF Page, Command, Same, MATASK_HTTP_GetPost, Runs, Spared, Grown, Stored, Filled
  <2>2. Request \/ PageEnds \/ HttpTrouble => (full' => full)
    BY DEF Request, PageEnds, HttpTrouble, Says_, Command, Goes, TaskEnds, TaskDone,
           TaskFails, SetApiError, flags
  <2>3. Header => (full' => full)
    BY DEF Header, HeaderRead, PageTakenForHeader, AfterReply, Command, Goes, flags
  <2> QED
    BY <1>5, <2>1, <2>2, <2>3 DEF MATASK_HTTP_GetPost, Command, Spared
<1>6. MATASK_TelServer \/ MATASK_GetEEPROMData \/ MATASK_EEPROM_Read \/ MATASK_EEPROM_Write => Spared
  <2>1. MATASK_TelServer \/ MATASK_GetEEPROMData \/ MATASK_EEPROM_Read \/ MATASK_EEPROM_Write
          => UNCHANGED recv
    BY DEF MATASK_TelServer, MATASK_GetEEPROMData, MATASK_EEPROM_Read, MATASK_EEPROM_Write, SettingsTask
  <2> QED
    BY <1>1, <2>1, SettingsTasksMove DEF Spared
<1> QED
  BY <1>0, <1>2, <1>3, <1>4, <1>5, <1>6 DEF MAAPI_Main

LEMMA WriteLen ==
  ASSUME NEW cells \in Seq(Nat), NEW at \in Nat, NEW bytes \in Seq(Nat)
  PROVE  Len(Write(cells, at, bytes)) = IF at + Len(bytes) > Len(cells) THEN at + Len(bytes) ELSE Len(cells)
<1> DEFINE last == at + Len(bytes)
           n    == IF last > Len(cells) THEN last ELSE Len(cells)
           f    == [i \in 1 .. n |-> IF i \in at + 1 .. last THEN bytes[i - at]
                                     ELSE IF i <= Len(cells) THEN cells[i] ELSE 0]
<1>1. n \in Nat
  OBVIOUS
<1>2. Write(cells, at, bytes) \in Seq(Nat) /\ Write(cells, at, bytes) = f
  BY WriteTyped DEF Write
<1>3. DOMAIN f = 1 .. n
  OBVIOUS
<1> HIDE DEF f, n
<1>4. Len(f) = n
  BY <1>1, <1>2, <1>3
<1> QED
  BY <1>2, <1>4 DEF n

LEMMA StoredRoom ==
  ASSUME TypeRecv, RoomInv, NEW chunk \in Chunks, Stored(chunk)
  PROVE  RoomInv'
<1>1. chunk.bytes \in Seq(Nat)
  BY DEF Chunks
<1> DEFINE bytes == chunk.bytes
           all   == Write(recv.cells, recv.at, bytes)
<1>2. recv.cells \in Seq(Nat) /\ recv.at \in Nat /\ recv.room \in Nat /\ recv.given \in Nat
  BY DEF TypeRecv
<1>3. Len(all) = IF recv.at + Len(bytes) > Len(recv.cells) THEN recv.at + Len(bytes) ELSE Len(recv.cells)
  BY <1>1, <1>2, WriteLen
<1>4. Len(bytes) \in Nat /\ Len(recv.cells) \in Nat
  BY <1>1, <1>2
<1>5. /\ recv'.cells = all /\ recv'.given = recv.given
      /\ recv'.at = recv.at + Len(bytes) /\ recv'.room = recv.room - Len(bytes)
  BY DEF Stored, Store, TypeRecv
<1>6. Len(bytes) <= recv.room
  BY DEF Stored, Fits
<1> HIDE DEF all, bytes
<1> QED
  BY <1>2, <1>3, <1>4, <1>5, <1>6 DEF RoomInv

LEMMA FilledRoom ==
  ASSUME Buffers, RoomInv, NEW chunk \in Chunks, Filled(chunk)
  PROVE  RoomInv' /\ full' /\ task' = "NONE" /\ prevBuf'.rest # <<>>
<1>1. PICK bytes \in Seq(Nat) : bytes = chunk.bytes
  BY DEF Chunks
<1> DEFINE head == SubSeq(bytes, 1, recv.room)
           all  == Write(recv.cells, recv.at, head)
           tail == SubSeq(bytes, recv.room + 1, Len(bytes))
<1>2. recv.cells \in Seq(Nat) /\ recv.at \in Nat /\ recv.room \in Nat /\ recv.given \in Nat
  BY DEF Buffers, TypeRecv
<1>3. recv.room < Len(bytes) /\ Len(bytes) \in Nat
  BY <1>1, <1>2 DEF Filled, Fits
<1>4. head \in Seq(Nat) /\ Len(head) = recv.room /\ tail \in Seq(Nat) /\ Len(tail) = Len(bytes) - recv.room
  <2>1. recv.room <= Len(bytes)
    BY <1>2, <1>3
  <2> QED
    BY <1>2, <2>1, PartTyped
<1>5. /\ recv' = [recv EXCEPT !.cells = all, !.size = @ + recv.room, !.room = 0]
      /\ prevBuf' = [prevBuf EXCEPT !.line = "none", !.rest = tail]
      /\ full' = TRUE /\ task' = "NONE"
  BY <1>1 DEF Filled, Overflow, KeepRest
<1> HIDE DEF head, tail
<1>6. Len(all) = IF recv.at + recv.room > Len(recv.cells) THEN recv.at + recv.room ELSE Len(recv.cells)
  <2>1. Len(all) = IF recv.at + Len(head) > Len(recv.cells) THEN recv.at + Len(head) ELSE Len(recv.cells)
    BY <1>2, <1>4, WriteLen
  <2> QED
    BY <1>4, <2>1
<1> HIDE DEF all
<1>7. recv'.cells = all /\ recv'.given = recv.given /\ recv'.at = recv.at /\ recv'.room = 0
  BY <1>5 DEF Buffers, TypeRecv
<1>8. RoomInv'
  <2>1. Len(recv.cells) \in Nat
    BY <1>2
  <2> QED
    BY <1>2, <1>6, <1>7, <2>1 DEF RoomInv
<1>9. prevBuf'.rest = tail
  BY <1>5 DEF Buffers, TypePrevBuf
<1>10. tail # <<>>
  BY <1>2, <1>3, <1>4
<1> QED
  BY <1>5, <1>8, <1>9, <1>10

LEMMA GivenRoom ==
  ASSUME NEW room \in Nat, NEW taken, recv' = GivenBuffer(room, taken)
  PROVE  RoomInv'
BY DEF RoomInv, GivenBuffer

LEMMA MoreRoom ==
  ASSUME Buffers, NEW room \in Nat
  PROVE  /\ \A t, step, way : RestGiven(t, step, room, way) => RoomInv' /\ ~full'
         /\ RestFills(room) => RoomInv' /\ prevBuf'.rest # <<>>
         /\ \A t, step, empty : RestRefused(t, step, room, empty) => RoomInv' /\ ~full'
<1>0. prevBuf.rest \in Seq(Nat) /\ Len(prevBuf.rest) \in Nat
  BY DEF Buffers, TypePrevBuf
<1>1. ASSUME NEW t, NEW step, NEW way, RestGiven(t, step, room, way) PROVE RoomInv' /\ ~full'
  <2> DEFINE n == Len(prevBuf.rest)
             at == IF way THEN n ELSE 0
             left == IF way THEN room - n ELSE room
  <2>1. recv' = [cells |-> prevBuf.rest, given |-> room, at |-> at, room |-> left, size |-> n,
                 wanted |-> room # 0, taken |-> Taken]
    BY <1>1 DEF RestGiven, GivenBuffer
  <2>2. n <= room /\ at + left <= room
    BY <1>0, <1>1 DEF RestGiven
  <2>3. full' = FALSE
    BY <1>1 DEF RestGiven
  <2> HIDE DEF at, left
  <2> QED
    BY <2>1, <2>2, <2>3 DEF RoomInv
<1>2. ASSUME RestFills(room) PROVE RoomInv' /\ prevBuf'.rest # <<>>
  <2> DEFINE n == Len(prevBuf.rest)
             head == SubSeq(prevBuf.rest, 1, room)
             tail == SubSeq(prevBuf.rest, room + 1, n)
  <2>1. Len(head) = room /\ Len(tail) = n - room /\ n - room # 0 /\ tail \in Seq(Nat)
    BY <1>0, <1>2, PartTyped DEF RestFills
  <2>2. recv' = [cells |-> head, given |-> room, at |-> 0, room |-> room, size |-> room,
                 wanted |-> room # 0, taken |-> Taken]
    BY <1>2 DEF RestFills, GivenBuffer
  <2>3. prevBuf'.rest = tail
    BY <1>2 DEF RestFills, Buffers, TypePrevBuf
  <2> HIDE DEF head, tail
  <2>4. tail # <<>>
    BY <2>1
  <2> QED
    BY <2>1, <2>2, <2>3, <2>4 DEF RoomInv
<1>3. ASSUME NEW t, NEW step, NEW empty, RestRefused(t, step, room, empty) PROVE RoomInv' /\ ~full'
  BY <1>3, GivenRoom DEF RestRefused
<1> QED
  BY <1>1, <1>2, <1>3

\* What a call does with the buffer that is there.
NewBuffer == recv' \in {recv, NoBuffer}

LEMMA CallsBuffer ==
  /\ SocketCalls \/ GoesOffline \/ MA_TCP_Cut => UNCHANGED prevBuf
  /\ Game /\ ~MA_HTTP_GetPost /\ ~MA_POP3_Retr /\ ~MA_POP3_Head => NewBuffer /\ UNCHANGED <<prevBuf, connMode>>
<1>1. SocketCalls \/ GoesOffline \/ MA_TCP_Cut => UNCHANGED prevBuf
  BY CallsKeep DEF Keeps
<1>2. ASSUME Game, ~MA_HTTP_GetPost, ~MA_POP3_Retr, ~MA_POP3_Head
      PROVE  NewBuffer /\ UNCHANGED <<prevBuf, connMode>>
  <2>1. UNCHANGED <<prevBuf, connMode>>
    BY <1>2, CallsKeep DEF Game, MailCalls, Keeps
  <2>2. CASE MailCalls
    BY <1>2, <2>1, <2>2 DEF MailCalls, MA_SMTP_Connect, MA_SMTP_Sender, MA_SMTP_Send, MA_SMTP_Quit,
       MA_POP3_Connect, MA_POP3_Quit, MA_POP3_Stat, MA_POP3_List, MA_POP3_Dele, MA_POP3_Ask,
       NotReceiving, NewBuffer
  <2>3. CASE MA_TelServer \/ MA_GetEEPROMData \/ MA_EEPROMRead \/ MA_EEPROMWrite
    BY <2>1, <2>3 DEF MA_TelServer, MA_GetEEPROMData, MA_EEPROMRead, MA_EEPROMWrite, Aside,
       NotReceiving, NewBuffer
  <2> QED
    BY <1>2, <2>1, <2>2, <2>3 DEF Game, NotReceiving, NewBuffer
<1> QED
  BY <1>1, <1>2

LEMMA NoBufferRoom == recv' = NoBuffer => RoomInv'
BY GivenRoom DEF NoBuffer

LEMMA GameRoom ==
  ASSUME Buffers, RoomInv, Game
  PROVE  RoomInv'
<1> USE MoreRoom, GivenRoom, ReceiveAssumption
<1>1. CASE MA_HTTP_GetPost
  <2>1. NewPage => RoomInv'
    BY DEF NewPage
  <2>2. ASSUME NEW room \in Rooms, SamePage(room) PROVE RoomInv'
    BY <2>2 DEF SamePage
  <2> QED
    BY <1>1, <2>1, <2>2 DEF MA_HTTP_GetPost
<1>2. CASE MA_POP3_Retr \/ MA_POP3_Head
  <2>1. ASSUME NEW text, NEW room \in Rooms, NewMail(text, room) PROVE RoomInv'
    BY <2>1 DEF NewMail
  <2>2. ASSUME NEW room \in Rooms, SameMail(room) PROVE RoomInv'
    BY <2>2 DEF SameMail
  <2> QED
    BY <1>2, <2>1, <2>2 DEF MA_POP3_Retr, MA_POP3_Head
<1>3. CASE ~MA_HTTP_GetPost /\ ~MA_POP3_Retr /\ ~MA_POP3_Head
  BY <1>3, CallsBuffer, NoBufferRoom DEF NewBuffer, RoomInv
<1> QED
  BY <1>1, <1>2, <1>3

\* A game that has a full buffer to take makes no other call in the modes of a
\* mail or a page.
LEMMA GameFull ==
  ASSUME "abandoned" \notin Risks, Buffers, FullInv, Game
  PROVE  FullInv'
<1> USE MoreRoom, ReceiveAssumption DEF AtRest
<1>0. ~full' => FullInv'
  BY DEF FullInv
<1>1. CASE MA_HTTP_GetPost
  <2>1. NewPage => FullInv'
    BY <1>0 DEF NewPage
  <2>2. ASSUME NEW room \in Rooms, SamePage(room) PROVE FullInv'
    <3>1. RestFills(room) => FullInv'
      BY <2>2 DEF SamePage, FullInv, RestFills, api, Idle
    <3> QED
      BY <1>0, <2>2, <3>1 DEF SamePage
  <2> QED
    BY <1>1, <2>1, <2>2 DEF MA_HTTP_GetPost
<1>2. CASE MA_POP3_Retr \/ MA_POP3_Head
  <2>1. ASSUME NEW text, NEW room \in Rooms, NewMail(text, room) PROVE FullInv'
    BY <1>0, <2>1 DEF NewMail
  <2>2. ASSUME NEW room \in Rooms, SameMail(room) PROVE FullInv'
    <3>1. RestFills(room) => FullInv'
      BY <2>2 DEF SameMail, FullInv, RestFills, api, Idle
    <3> QED
      BY <1>0, <2>2, <3>1 DEF SameMail
  <2> QED
    BY <1>2, <2>1, <2>2 DEF MA_POP3_Retr, MA_POP3_Head
<1>3. ASSUME NEW t, NEW step, NEW arg, Begin(t, step, arg), connMode \in {"OFFLINE", "PPP", "SMTP"} \/ Reading
      PROVE  FullInv'
  BY <1>0, <1>3 DEF Begin, FullInv, Reading
<1>4. Refuse => FullInv'
  BY <1>0 DEF Refuse, SetApiError
<1>5. CASE SocketCalls
  BY <1>3, <1>4, <1>5 DEF SocketCalls, MA_TCP_Connect, MA_GetHostAddress, MA_TCP_Disconnect, MA_TCP_SendRecv
<1>6. CASE GoesOffline \/ MA_TCP_Cut \/ MA_ApiPreExe
  BY <1>0, <1>3, <1>4, <1>6 DEF GoesOffline, MA_Offline, MA_TCP_Cut, MA_ApiPreExe
<1>7. CASE MAAPI_ErrorCheck
  BY <1>7 DEF MAAPI_ErrorCheck, FullInv, api, Idle
<1>8. CASE MA_SMTP_Connect \/ MA_SMTP_Sender \/ MA_SMTP_Send \/ MA_SMTP_Quit
  <2>1. MA_SMTP_Send => AtRest("SMTP") /\ Begin("SMTP_SEND", 0, 0)
    BY Zenon DEF MA_SMTP_Send
  <2> QED
    BY <1>3, <1>8, <2>1 DEF MA_SMTP_Connect, MA_SMTP_Sender, MA_SMTP_Quit
<1>9. CASE MA_POP3_Connect \/ MA_POP3_Quit \/ MA_POP3_Stat \/ MA_POP3_List \/ MA_POP3_Dele
  BY <1>3, <1>9 DEF MA_POP3_Connect, MA_POP3_Quit, MA_POP3_Stat, MA_POP3_List, MA_POP3_Dele, MA_POP3_Ask
<1>10. CASE MA_TelServer \/ MA_GetEEPROMData \/ MA_EEPROMRead \/ MA_EEPROMWrite
  BY <1>3, <1>10 DEF MA_TelServer, MA_GetEEPROMData, MA_EEPROMRead, MA_EEPROMWrite
<1> QED
  BY <1>1, <1>2, <1>5, <1>6, <1>7, <1>8, <1>9, <1>10 DEF Game, MailCalls

LEMMA BufferInvKept ==
  ASSUME IInv, ModeInv, RoomInv, [Next]_vars
  PROVE  RoomInv' /\ ("abandoned" \notin Risks /\ FullInv => FullInv')
<1>1. Buffers /\ Running /\ TypeRecv
  BY DEF IInv, TypeOK, Buffers
<1>2. CASE Game
  BY <1>1, <1>2, GameRoom, GameFull
<1>3. CASE MAAPI_Main
  <2>1. task # "NONE"
    BY <1>3, TasksOf DEF MAAPI_Main, MATASK_HTTP_GetPost, Runs, MailTasks, TcpTasks, SettingsTasks
  <2>2. Spared => RoomInv' /\ (FullInv => FullInv')
    BY <2>1 DEF Spared, RoomInv, FullInv, Idle
  <2>3. ASSUME NEW chunk \in Chunks, Stored(chunk) PROVE RoomInv' /\ (FullInv => FullInv')
    BY <1>1, <2>1, <2>3, StoredRoom DEF Stored, FullInv, Idle
  <2>4. ASSUME NEW chunk \in Chunks, Filled(chunk) PROVE RoomInv' /\ FullInv'
    <3>1. connMode' \in {"POP3", "HTTP"}
      BY <2>4, RunsInEach DEF Filled, ModeInv
    <3> QED
      BY <1>1, <2>4, <3>1, FilledRoom DEF FullInv, Idle
  <2> QED
    BY <1>1, <1>3, <2>2, <2>3, <2>4, TasksStore DEF Grown
<1>4. CASE Answer \/ ServerCloses \/ UNCHANGED vars
  BY <1>4, AnswersStay DEF RoomInv, FullInv, Idle
<1>5. CASE Leaves
  BY <1>5 DEF Leaves, SessionEnds, RoomInv, FullInv
<1> QED
  BY <1>2, <1>3, <1>4, <1>5 DEF Next

LEMMA BufferInit == Init => RoomInv /\ FullInv /\ ModeInv
<1>1. Init => RoomInv
  BY DEF Init, ReceiveInit, NoBuffer, GivenBuffer, RoomInv
<1>2. Init => FullInv /\ ModeInv
  BY DEF Init, SocketsInit, FullInv, ModeInv, RunsIn, TcpTasks, SettingsTasks
<1> QED
  BY <1>1, <1>2

\* What the steps rest on, together.
TaskInv == IInv /\ ModeInv /\ RoomInv

LEMMA TaskInvKept == TaskInv /\ [Next]_vars => TaskInv'
<1> SUFFICES ASSUME TaskInv, [Next]_vars PROVE TaskInv'
  OBVIOUS
<1>1. IInv'
  BY TypesKept DEF TaskInv
<1>2. TypeList'
  BY <1>1 DEF IInv, TypeOK
<1> QED
  BY <1>1, <1>2, ModeKept, BufferInvKept DEF TaskInv

LEMMA TaskInvAlways == Spec => []TaskInv
<1>1. Init => TaskInv
  BY TypesInit, BufferInit DEF TaskInv
<1> QED
  BY <1>1, TaskInvKept, PTL DEF Spec

\* A mail or a page is never written behind the buffer the game has given for
\* it, however its bytes come in DATA replies and however often the game comes
\* with another buffer; and MA_CONDITION_BUFFER_FULL is set only while no task
\* runs, with bytes in prevBuf to go on with, in the mode of the call that has
\* set it.  For the flag, the game must take the rest of a mail before it makes
\* another call ("abandoned").
THEOREM SessionsBufferKept ==
  ASSUME "abandoned" \notin Risks
  PROVE  Spec => []BufferKept
<1>1. Init => FullInv
  BY BufferInit
<1>2. TaskInv /\ FullInv /\ [Next]_vars => FullInv'
  BY BufferInvKept DEF TaskInv
<1>3. TaskInv /\ FullInv => BufferKept
  BY DEF TaskInv, RoomInv, FullInv, BufferKept
<1> QED
  BY <1>1, <1>2, <1>3, TaskInvAlways, PTL DEF Spec

----------------------------------------------------------------------------
(* The copy of the EEPROM.                                                 *)

NoCopy == ~prevBuf.hasEEPROMData

LEMMA CopyInit == Init => CacheInv
BY DEF Init, SocketsInit, EmptyPrevBuf, CacheInv

\* Without a copy there is nothing to lose, but for the two tasks that make one.
LEMMA NoCopyCache ==
  ASSUME NoCopy', task' \notin {"GETEEPROMDATA", "TELSERVER"}
  PROVE  CacheInv'
BY DEF NoCopy, CacheInv

LEMMA PrevBufCopy ==
  ASSUME TypePrevBuf
  PROVE  /\ prevBuf' = EmptyPrevBuf => NoCopy'
         /\ NoCopy /\ prevBuf' \in {prevBuf, Read, [Read EXCEPT !.line = "good"]} => NoCopy'
         /\ \A l : NoCopy /\ prevBuf' = [prevBuf EXCEPT !.line = l] => NoCopy'
         /\ \A chunk : NoCopy /\ Overflow(chunk) => NoCopy'
         /\ \A room : NoCopy /\ RestFills(room) => NoCopy'
         /\ \A t, step, room, way : NoCopy /\ RestGiven(t, step, room, way) => NoCopy'
         /\ \A t, step, room, empty : NoCopy /\ RestRefused(t, step, room, empty) => NoCopy'
<1>0. prevBuf' = EmptyPrevBuf => NoCopy'
  BY DEF EmptyPrevBuf, NoCopy
<1>1. /\ \A l : [prevBuf EXCEPT !.line = l].hasEEPROMData = prevBuf.hasEEPROMData
      /\ \A r : [prevBuf EXCEPT !.rest = r].hasEEPROMData = prevBuf.hasEEPROMData
      /\ \A l, r : [prevBuf EXCEPT !.line = l, !.rest = r].hasEEPROMData = prevBuf.hasEEPROMData
      /\ Read.hasEEPROMData = prevBuf.hasEEPROMData
      /\ [Read EXCEPT !.line = "good"].hasEEPROMData = prevBuf.hasEEPROMData
  BY DEF TypePrevBuf, Read
<1>2. NoCopy /\ prevBuf' \in {prevBuf, Read, [Read EXCEPT !.line = "good"]} => NoCopy'
  BY <1>1 DEF NoCopy
<1>3. ASSUME NEW l, NoCopy, prevBuf' = [prevBuf EXCEPT !.line = l] PROVE NoCopy'
  BY <1>1, <1>3 DEF NoCopy
<1>4. ASSUME NEW chunk, NoCopy, Overflow(chunk) PROVE NoCopy'
  BY <1>1, <1>4 DEF Overflow, KeepRest, NoCopy
<1>5. ASSUME NEW room, NoCopy, RestFills(room) PROVE NoCopy'
  BY <1>1, <1>5 DEF RestFills, NoCopy
<1>6. ASSUME NEW t, NEW step, NEW room, NEW way, NoCopy, RestGiven(t, step, room, way) PROVE NoCopy'
  BY <1>1, <1>6 DEF RestGiven, NoCopy
<1>7. ASSUME NEW t, NEW step, NEW room, NEW empty, NoCopy, RestRefused(t, step, room, empty) PROVE NoCopy'
  BY <1>7 DEF RestRefused, NoCopy
<1> QED
  BY <1>0, <1>2, <1>3, <1>4, <1>5, <1>6, <1>7

\* A task that finds no copy leaves none, unless it makes one.
LEMMA TasksKeepNoCopy ==
  ASSUME TypePrevBuf, NoCopy, MAAPI_Main, task \notin SettingsTasks
  PROVE  CacheInv'
<1> USE PrevBufCopy
<1>1. task' \in {task, "NONE"}
  <2>1. CASE MATASK_HTTP_GetPost
    BY <2>1, HttpTaskStays DEF Stays
  <2>2. CASE SocketTasks
    BY <2>2, SocketTasksMove, PlainEffects
  <2> QED
    BY <2>1, <2>2, MailTasksStay, SettingsTasksStay DEF MAAPI_Main, Stays
<1>2. Quiet => NoCopy'
  BY DEF Quiet
<1>3. MATASK_POP3_Retr => NoCopy'
  <2>1. MailTrouble("POP3_RETR") => NoCopy'
    BY DEF MailTrouble, MailClosed, MailGivenUp, MailFails
  <2>2. SayLine(mail.text, 1) \/ Ends(100) => NoCopy'
    BY DEF SayLine, InitPrevBuf, Ends
  <2>3. ASSUME NEW chunk, RetrStore(chunk) PROVE NoCopy'
    <3>1. \/ prevBuf' \in {prevBuf, Read, [Read EXCEPT !.line = "good"]}
          \/ prevBuf' = [prevBuf EXCEPT !.line = "bad"]
          \/ Overflow(chunk)
      BY <2>3 DEF RetrStore
    <3> QED
      BY <3>1
  <2> QED
    BY <2>1, <2>2, <2>3 DEF MATASK_POP3_Retr
<1>4. MATASK_HTTP_GetPost => NoCopy'
  <2>1. Request \/ Header \/ Page \/ PageEnds => NoCopy'
    BY DEF Request, Header, HeaderRead, PageTakenForHeader, Page, PageEnds, InitPrevBuf, Says_
  <2> QED
    BY <2>1 DEF MATASK_HTTP_GetPost
<1>5. NoCopy'
  BY <1>2, <1>3, <1>4, SocketTasksQuiet, MailTasksQuiet, TasksOf DEF MAAPI_Main
<1> QED
  BY <1>1, <1>5, NoCopyCache DEF SettingsTasks

\* Before the reply of a server is read the copy may be there, and stays.
LEMMA TasksKeepCopy ==
  ASSUME ModeInv, CacheInv, ~NoCopy, MAAPI_Main, task \notin SettingsTasks
  PROVE  CacheInv' \/ NoCopy'
<1>0. /\ connMode \notin {"SMTP", "POP3", "HTTP"}
      /\ task \in {"SMTP_CONNECT", "POP3_CONNECT"} => taskStep \notin 3..6
  BY DEF CacheInv, NoCopy
<1>1. /\ task \in TcpTasks \cup {"OFFLINE", "TCP_CUT", "SMTP_CONNECT", "POP3_CONNECT"}
      /\ connMode = "PPP"
  <2>1. task \in TcpTasks \cup MailTasks \cup {"OFFLINE", "TCP_CUT", HttpTask}
    BY TasksOf DEF MAAPI_Main, MATASK_HTTP_GetPost, Runs
  <2> QED
    BY <1>0, <2>1, RunsInEach DEF ModeInv, MailTasks, TcpTasks, SettingsTasks
<1>2. ASSUME UNCHANGED prevBuf, connMode' \in {connMode, "PPP", "OFFLINE"}, task' \in {task, "NONE"},
             task' \in {"SMTP_CONNECT", "POP3_CONNECT"} => taskStep' \notin 3..6
      PROVE  CacheInv'
  BY <1>1, <1>2 DEF CacheInv, TcpTasks
<1>3. CASE SocketTasks
  <2>1. task' \in {task, "NONE"}
    BY <1>3, SocketTasksMove, PlainEffects
  <2>2. UNCHANGED prevBuf
    BY <1>0, <1>1, <1>3 DEF SocketTasks, MATASK_TCP_Connect, MATASK_TCP_Disconnect, MATASK_TCP_SendRecv,
       MATASK_GetHostAddress, MATASK_Offline, MATASK_TCP_Cut, ModeInv, Runs, At
  <2>3. connMode' \in {connMode, "PPP", "OFFLINE"}
    BY <1>3 DEF SocketTasks, MATASK_TCP_Connect, MATASK_TCP_Disconnect, MATASK_TCP_SendRecv,
       MATASK_GetHostAddress, MATASK_Offline, MATASK_TCP_Cut
  <2> QED
    BY <1>2, <1>3, <2>1, <2>2, <2>3, TasksOf DEF TcpTasks
<1>4. CASE MATASK_SMTP_Connect \/ MATASK_POP3_Connect
  <2>1. ASSUME NEW t, MailTrouble(t) PROVE CacheInv'
    BY <1>1, <1>2, <2>1, PartsStay
       DEF MailTrouble, MailClosed, MailGivenUp, MailFails, Command
  <2>2. ASSUME NEW port, Opens(port) PROVE CacheInv' \/ NoCopy'
    <3>1. At(0) \/ At(1) => CacheInv'
      BY <1>1, <1>2, <2>2 DEF Opens, Command, At
    <3>2. At(2) => NoCopy'
      BY <2>2 DEF Opens, At, InitPrevBuf, EmptyPrevBuf, NoCopy
    <3> QED
      BY <2>2, <3>1, <3>2 DEF Opens
  <2> QED
    BY <1>0, <1>4, <2>1, <2>2 DEF MATASK_SMTP_Connect, MATASK_POP3_Connect, MailRuns, Runs, Reads,
       Opened, At
<1>5. CASE MailTasksStep /\ ~MATASK_SMTP_Connect /\ ~MATASK_POP3_Connect
  <2>1. ASSUME NEW t, MailTrouble(t) \/ MailRuns(t) PROVE task = t
    BY <2>1 DEF MailTrouble, MailRuns, Runs
  <2> QED
    BY <1>1, <1>5, <2>1 DEF MailTasksStep, MATASK_SMTP_Sender, MATASK_SMTP_Send, MATASK_SMTP_POP3_Quit,
       MATASK_POP3_Stat, MATASK_POP3_List, MATASK_POP3_Dele, MATASK_POP3_Retr, Asks, TcpTasks
<1> QED
  BY <1>1, <1>3, <1>4, <1>5, TasksOf DEF MAAPI_Main, MATASK_HTTP_GetPost, Runs, TcpTasks

\* The tasks that make a copy, or dial with one.
LEMMA SettingsTasksCopy ==
  ASSUME TypePrevBuf, ModeInv, CacheInv,
         MATASK_TelServer \/ MATASK_GetEEPROMData \/ MATASK_EEPROM_Read \/ MATASK_EEPROM_Write
  PROVE  CacheInv'
<1> DEFINE p == prevBuf
<1>0. task \in SettingsTasks /\ connMode = "OFFLINE" /\ task' \in {task, "NONE"}
  BY TasksOf, SettingsTasksStay, RunsInEach DEF ModeInv, Stays
<1>1. connMode' \in {"OFFLINE", "PPP"}
  BY <1>0 DEF MATASK_TelServer, MATASK_GetEEPROMData, MATASK_EEPROM_Read, MATASK_EEPROM_Write,
     SettingsTask, Aborts, Opening, Ask, Closing, FirstPart, SecondPart, Rejected
<1>2. CASE MATASK_EEPROM_Read \/ MATASK_EEPROM_Write
  <2>1. UNCHANGED prevBuf
    BY <1>2 DEF MATASK_EEPROM_Read, MATASK_EEPROM_Write, SettingsTask, Aborts, Opening, Ask, Closing
  <2>2. task' \notin {"GETEEPROMDATA", "TELSERVER", "SMTP_CONNECT", "POP3_CONNECT"}
    BY <1>0, <1>2 DEF MATASK_EEPROM_Read, MATASK_EEPROM_Write, SettingsTask, Runs
  <2> QED
    BY <1>1, <2>1, <2>2 DEF CacheInv
\* The parts of the EEPROM, as they are put into prevBuf.
<1>3. /\ \A v : LET q == [p EXCEPT !.line = "none", !.rest = <<>>, !.first = v]
               IN q.first = v /\ q.second = p.second /\ q.hasEEPROMData = p.hasEEPROMData
      /\ \A v : LET q == [p EXCEPT !.second = v, !.hasEEPROMData = TRUE]
               IN q.first = p.first /\ q.second = v /\ q.hasEEPROMData = TRUE
      /\ \A v : LET q == [p EXCEPT !.second = v]
               IN q.first = p.first /\ q.second = v /\ q.hasEEPROMData = p.hasEEPROMData
  BY DEF TypePrevBuf
<1>4. ASSUME NEW step, FirstPart(step),
             (task = "GETEEPROMDATA" /\ step = 3) \/ (task = "TELSERVER" /\ step = 4)
      PROVE  CacheInv'
  <2>1. ~p.hasEEPROMData
    BY <1>4 DEF FirstPart, At, CacheInv
  <2>2. CASE Rejected
    BY <1>0, <1>1, <2>1, <2>2 DEF Rejected, Goes, CacheInv
  <2>3. CASE ~Rejected
    <3>1. /\ prevBuf' = [p EXCEPT !.line = "none", !.rest = <<>>, !.first = recvData]
          /\ recvData # 0 /\ taskStep' = step + 1 /\ task' = task
      BY <1>4, <2>3 DEF FirstPart, EEPROMRegistrationCheck, Command
    <3> HIDE DEF p
    <3>2. p'.first # 0 /\ ~p'.hasEEPROMData
      BY <1>3, <2>1, <3>1 DEF p
    <3> QED
      BY <1>0, <1>1, <1>4, <3>1, <3>2 DEF CacheInv, p
  <2> QED
    BY <2>2, <2>3
<1>5. ASSUME NEW step, NEW go, SecondPart(go), go => taskStep' = step, task' = task,
             \/ task = "GETEEPROMDATA" /\ taskStep = 4 /\ step = 5
             \/ task = "TELSERVER" /\ taskStep = 5 /\ step = 6
      PROVE  CacheInv'
  <2>1. ~p.hasEEPROMData /\ p.first # 0
    BY <1>5 DEF CacheInv
  <2>2. CASE p.first = recvData
    <3>1. prevBuf' = [p EXCEPT !.second = recvData, !.hasEEPROMData = TRUE] /\ taskStep' = step
      BY <1>5, <2>2 DEF SecondPart, EEPROMSumCheck
    <3>2. p'.first # 0 /\ p'.second = p'.first /\ p'.hasEEPROMData
      BY <1>3, <2>1, <2>2, <3>1
    <3> QED
      BY <1>0, <1>1, <1>5, <3>1, <3>2 DEF CacheInv
  <2>3. CASE p.first # recvData
    <3>1. prevBuf' = [p EXCEPT !.second = recvData] /\ taskStep' = 250
      BY <1>5, <2>3 DEF SecondPart, EEPROMSumCheck, Goes
    <3>2. ~p'.hasEEPROMData
      BY <1>3, <2>1, <3>1
    <3> QED
      BY <1>0, <1>1, <1>5, <3>1, <3>2 DEF CacheInv
  <2> QED
    BY <2>2, <2>3
<1> HIDE DEF p
<1>6. CASE MATASK_GetEEPROMData
  <2>1. task = "GETEEPROMDATA"
    BY <1>6 DEF MATASK_GetEEPROMData, SettingsTask, Runs
  <2>2. CASE FirstPart(3)
    BY <1>4, <2>1, <2>2
  <2>3. CASE At(4) /\ SecondPart(Command("END", 0, "empty", 5))
    <3>1. Command("END", 0, "empty", 5) => taskStep' = 5
      BY DEF Command
    <3>2. task' = task
      BY <2>3 DEF SecondPart, Command, Goes
    <3> QED
      BY <1>5, <2>1, <2>3, <3>1, <3>2 DEF At
  <2>4. CASE /\ UNCHANGED prevBuf
             /\ \/ task' = "NONE" \/ taskStep' \in 5..255
                \/ taskStep' \in 1..3 /\ taskStep \in 0..2
    BY <1>0, <1>1, <2>1, <2>4 DEF CacheInv
  <2> QED
    <3>1. \/ Aborts({"CHANGE_CLOCK", "EEPROM_READ"}) \/ Opening
          \/ At(2) /\ Ask("EEPROM_READ", 0, 3)
          \/ FirstPart(3)
          \/ At(4) /\ SecondPart(Command("END", 0, "empty", 5))
          \/ At(5) /\ Goes(6) /\ UNCHANGED prevBuf
          \/ Closing(6)
      BY <1>6 DEF MATASK_GetEEPROMData, SettingsTask
    <3> QED
      <4>1. Aborts({"CHANGE_CLOCK", "EEPROM_READ"}) => CacheInv'
        BY <2>4 DEF Aborts, Ask, Command, TaskFails, SetApiError
      <4>2. Opening \/ (At(2) /\ Ask("EEPROM_READ", 0, 3)) => CacheInv'
        BY <2>4 DEF Opening, Ask, Command, At
      <4>3. (At(5) /\ Goes(6) /\ UNCHANGED prevBuf) \/ Closing(6) => CacheInv'
        BY <2>4 DEF Goes, Closing, TaskEnds, TaskDone
      <4> QED
        BY <2>2, <2>3, <3>1, <4>1, <4>2, <4>3
<1>7. CASE MATASK_TelServer
  <2>1. task = "TELSERVER"
    BY <1>7 DEF MATASK_TelServer, SettingsTask, Runs
  <2>2. CASE FirstPart(4)
    BY <1>4, <2>1, <2>2
  <2>3. CASE At(5) /\ SecondPart(Goes(6))
    <3>1. Goes(6) => taskStep' = 6
      BY DEF Goes
    <3>2. task' = task
      BY <2>3 DEF SecondPart, Goes
    <3> QED
      BY <1>5, <2>1, <2>3, <3>1, <3>2 DEF At
  <2>4. CASE /\ UNCHANGED prevBuf
             /\ \/ task' = "NONE" \/ taskStep' \in 0..3 \cup 10..255
                \/ taskStep' = 4 /\ ~prevBuf.hasEEPROMData
                \/ taskStep' \in 6..9 /\ (prevBuf.hasEEPROMData \/ taskStep \in 6..9)
    BY <1>0, <1>1, <2>1, <2>4 DEF CacheInv
  <2> QED
    BY <1>7, <2>1, <2>2, <2>3, <2>4 DEF MATASK_TelServer, SettingsTask, Aborts, Opening, Ask,
       Rejected, At, Command, Goes, TaskFails, SetApiError, TaskEnds, TaskDone
<1> QED
  BY <1>2, <1>6, <1>7

\* A call starts no reading of replies over a copy.
LEMMA GameCopy ==
  ASSUME TypePrevBuf, CacheInv, Game
  PROVE  CacheInv'
<1> USE CallsMode, PrevBufCopy DEF AtRest
<1>1. ASSUME UNCHANGED <<prevBuf, connMode>>, task' = "NONE" \/ taskStep' = 0 \/ task' = "OFFLINE",
             task' = "GETEEPROMDATA" => NoCopy
      PROVE  CacheInv'
  BY <1>1 DEF CacheInv, NoCopy
<1>2. CASE MA_HTTP_GetPost
  <2>1. NewPage => NoCopy' /\ task' = HttpTask
    BY DEF NewPage, InitPrevBuf
  <2>2. ASSUME NEW room, SamePage(room) PROVE NoCopy' /\ task' \in {HttpTask, "NONE"}
    BY <2>2 DEF SamePage, CacheInv, NoCopy
  <2> QED
    BY <1>2, <2>1, <2>2, NoCopyCache DEF MA_HTTP_GetPost
<1>3. CASE MA_POP3_Retr \/ MA_POP3_Head
  <2>1. ASSUME NEW text, NEW room, NewMail(text, room) PROVE NoCopy' /\ task' = "POP3_RETR"
    BY <2>1 DEF NewMail, InitPrevBuf
  <2>2. ASSUME NEW room, SameMail(room) PROVE NoCopy' /\ task' \in {"POP3_RETR", "NONE"}
    BY <2>2 DEF SameMail, CacheInv, NoCopy
  <2> QED
    BY <1>3, <2>1, <2>2, NoCopyCache DEF MA_POP3_Retr, MA_POP3_Head
<1>4. CASE SocketCalls
  BY <1>1, <1>4, CallsKeep
     DEF Keeps, SocketCalls, MA_TCP_Connect, MA_GetHostAddress, MA_TCP_Disconnect, MA_TCP_SendRecv
<1>5. CASE GoesOffline
  BY <1>1, <1>5, CallsKeep DEF Keeps, GoesOffline, MA_Offline
<1>6. CASE MA_TCP_Cut \/ MA_ApiPreExe \/ MAAPI_ErrorCheck
  BY <1>6 DEF MA_TCP_Cut, MA_ApiPreExe, MAAPI_ErrorCheck, Refuse, SetApiError, CacheInv, api
<1>7. CASE MA_SMTP_Connect \/ MA_SMTP_Sender \/ MA_SMTP_Send \/ MA_SMTP_Quit
  <2>1. MA_SMTP_Send => Begin("SMTP_SEND", 0, 0)
    BY Zenon DEF MA_SMTP_Send
  <2> QED
    BY <1>1, <1>7, <2>1, CallsKeep DEF Keeps, MA_SMTP_Connect, MA_SMTP_Sender, MA_SMTP_Quit
<1>8. CASE MA_POP3_Connect \/ MA_POP3_Quit \/ MA_POP3_Stat \/ MA_POP3_List \/ MA_POP3_Dele
  BY <1>1, <1>8, CallsKeep
     DEF Keeps, MA_POP3_Connect, MA_POP3_Quit, MA_POP3_Stat, MA_POP3_List, MA_POP3_Dele, MA_POP3_Ask
<1>9. CASE MA_TelServer \/ MA_GetEEPROMData \/ MA_EEPROMRead \/ MA_EEPROMWrite
  BY <1>1, <1>9, CallsKeep
     DEF Keeps, MA_TelServer, MA_GetEEPROMData, MA_EEPROMRead, MA_EEPROMWrite, NoCopy
<1> QED
  BY <1>2, <1>3, <1>4, <1>5, <1>6, <1>7, <1>8, <1>9 DEF Game, MailCalls

LEMMA CacheInvKept ==
  ASSUME TaskInv, CacheInv, [Next]_vars
  PROVE  CacheInv'
<1>0. TypePrevBuf /\ ModeInv /\ TypeHttp /\ IInv
  BY DEF TaskInv, IInv, TypeOK
<1>1. CASE MAAPI_Main
  <2>1. CASE task \in SettingsTasks
    <3>1. MATASK_TelServer \/ MATASK_GetEEPROMData \/ MATASK_EEPROM_Read \/ MATASK_EEPROM_Write
      BY <1>1, <2>1, TasksOf DEF MAAPI_Main, MATASK_HTTP_GetPost, Runs, MailTasks, TcpTasks, SettingsTasks
    <3> QED
      BY <1>0, <3>1, SettingsTasksCopy
  <2>2. CASE task \notin SettingsTasks /\ NoCopy
    BY <1>0, <1>1, <2>2, TasksKeepNoCopy
  <2>3. CASE task \notin SettingsTasks /\ ~NoCopy
    <3>1. CacheInv' \/ NoCopy'
      BY <1>0, <1>1, <2>3, TasksKeepCopy
    <3>2. task' \in {task, "NONE"}
      <4>1. CASE SocketTasks
        BY <4>1, SocketTasksMove, PlainEffects
      <4> QED
        BY <1>1, <4>1, HttpTaskStays, MailTasksStay, SettingsTasksStay DEF MAAPI_Main, Stays
    <3> QED
      BY <2>3, <3>1, <3>2, NoCopyCache DEF SettingsTasks
  <2> QED
    BY <2>1, <2>2, <2>3
<1>2. CASE Answer \/ ServerCloses \/ UNCHANGED vars
  BY <1>2, AnswersStay DEF CacheInv
<1>3. CASE Leaves
  BY <1>3 DEF Leaves, SessionEnds, CacheInv
<1> QED
  BY <1>0, <1>1, <1>2, <1>3, GameCopy DEF Next

\* The copy of the EEPROM in gMA.prevBuf, from which MA_GetTel and its like are
\* answered and with which MA_TelServer dials, is always the two parts of one
\* version, and of a registered one: a read that is refused half way or does
\* not have the right sum leaves none, and no reply line of a mail or a page is
\* read into prevBuf while it is there, though it is the same buffer.
THEOREM SessionsCacheWhole == Spec => []CacheWhole
<1>1. Init => CacheInv
  BY CopyInit
<1>2. TaskInv /\ CacheInv /\ [Next]_vars => CacheInv'
  BY CacheInvKept
<1>3. CacheInv => CacheWhole
  BY DEF CacheInv, CacheWhole, EEPROMRegistrationCheck
<1> QED
  BY <1>1, <1>2, <1>3, TaskInvAlways, PTL DEF Spec

----------------------------------------------------------------------------
(* Where the bytes of a page are.                                          *)

\* Where MATASK_HTTP_GetPost is: asking; waiting for the header of the answer,
\* of which it has found nothing yet, or all but the empty line after it, or the
\* end; or getting the page.
Asking    == taskStep \in 4..7 \cup {100} \/ (taskStep = 50 /\ http.next # 8)
Awaiting  == taskStep = 8 \/ (taskStep = 50 /\ http.next = 8)
Searching == Awaiting /\ ~http.headFound /\ ~http.headEnd
Halved    == Awaiting /\ http.headFound /\ ~http.headEnd
Paging    == taskStep = 110

\* The texts of a request whose answers carry no page.
RequestLines == {"GET", "POST", "path", "text", "plain+length", "authorization+length", "id+length"}

\* What is out, by the step that has sent it.
OutThen ==
  busy => \/ taskStep = 1 /\ sendCmd = "DNS_REQUEST"
          \/ taskStep = 3 /\ sendCmd = "TCP_CONNECT" /\ sendText = "HTTP"
          \/ taskStep \in {8, 50, 100, 110} /\ sendCmd = "DATA" /\ sendText \notin {"RETR", "TOP"}
          \/ taskStep = 241 /\ sendCmd = "TCP_DISCONNECT"

\* What the server may have to say, and what of it has come.
Owing ==
  /\ taskStep = 3 /\ recvCmd = "TCP_CONNECT" => due = "nothing" /\ recvChunk = NoChunk
  /\ Asking => due \in {"nothing", "reply"} /\ recvChunk.bytes = <<>> /\ (busy => sendText \in RequestLines)
  /\ Searching => \/ /\ due \in {"nothing", "reply", "page"} /\ recvChunk.bytes = <<>>
                     /\ recvChunk.line \notin Headers
                  \/ /\ due \in {"nothing", "rest"} /\ recvChunk.line \in Headers
                     /\ recvChunk.line = "split" => recvChunk.bytes = <<>>
  /\ Halved => due \in {"nothing", "rest"} /\ recvChunk.line = "none" /\ (busy => sendText = "empty")

\* Bytes that follow those at position 'before'.
Follow(bytes, before) == \A i \in 1 .. Len(bytes) : bytes[i] = before + i

\* How many of the bytes said the game has or has missed, m of these, and where
\* those are that are still to come.
ComingAfter(m, bytes) == Taken + m + Len(bytes) = sent /\ Follow(bytes, Taken + m)

Got    == Taken + http.missed
Coming == ComingAfter(http.missed, recvChunk.bytes)

Counted ==
  /\ taskStep \in 0..3 \/ Asking => Got = sent
  /\ Awaiting \/ (Paging /\ ~bufferEmpty) => Coming
  /\ Paging /\ bufferEmpty => Got = sent /\ ~busy
  /\ taskStep = 255 /\ http.auth \notin Centre => Got = sent

\* What the game's buffer holds, when at least l bytes have been missed before
\* its first, and m before its last.
Holds(l, m) ==
  /\ recv.size <= Len(recv.cells)
  /\ \A i \in 1 .. recv.size : recv.cells[i] \in recv.taken + i + l .. recv.taken + i + m
  /\ \A i, j \in 1 .. recv.size : i < j => recv.cells[i] < recv.cells[j]

Body == Holds(0, http.missed)

\* While the task runs, and while the call waits for another buffer.
PageInv ==
  task = HttpTask =>
    /\ OutThen /\ Owing /\ (bufferEmpty => taskStep \in {110, 241})
    /\ recv.wanted => Counted /\ Body /\ recv.at = recv.size

WaitInv ==
  full /\ connMode = "HTTP" =>
    Idle /\ recv.wanted /\ Body /\ ComingAfter(http.missed, prevBuf.rest)

\* A command goes out with the reply buffer empty.
Out == busy => recvChunk = NoChunk

BodyInv == Out /\ PageInv /\ WaitInv

----------------------------------------------------------------------------
(* The exchange.                                                           *)

LEMMA MainRuns == MAAPI_Main => ~busy /\ task # "NONE"
<1> USE DEF Runs
<1>1. SocketTasks => ~busy
  BY DEF SocketTasks, MATASK_TCP_Connect, MATASK_TCP_Disconnect, MATASK_TCP_SendRecv,
         MATASK_GetHostAddress, MATASK_Offline, MATASK_TCP_Cut
<1>2. ASSUME NEW t, MailTrouble(t) \/ MailRuns(t) PROVE ~busy
  BY <1>2 DEF MailTrouble, MailRuns
<1>3. MailTasksStep => ~busy
  BY <1>2 DEF MailTasksStep, MATASK_SMTP_Connect, MATASK_SMTP_Sender, MATASK_SMTP_Send,
     MATASK_SMTP_POP3_Quit, MATASK_POP3_Connect, MATASK_POP3_Stat, MATASK_POP3_List,
     MATASK_POP3_Dele, MATASK_POP3_Retr, Asks
<1>4. MATASK_HTTP_GetPost => ~busy
  BY DEF MATASK_HTTP_GetPost
<1>5. MATASK_TelServer \/ MATASK_GetEEPROMData \/ MATASK_EEPROM_Read \/ MATASK_EEPROM_Write => ~busy
  BY DEF MATASK_TelServer, MATASK_GetEEPROMData, MATASK_EEPROM_Read, MATASK_EEPROM_Write, SettingsTask
<1>6. MAAPI_Main => task # "NONE"
  BY TasksOf DEF MAAPI_Main, MATASK_HTTP_GetPost, MailTasks, TcpTasks, SettingsTasks
<1> QED
  BY <1>1, <1>3, <1>4, <1>5, <1>6 DEF MAAPI_Main

LEMMA TasksOut == MAAPI_Main => Out'
<1>1. ASSUME NEW cmd, NEW socket, NEW text, NEW step, Command(cmd, socket, text, step) PROVE Out'
  BY <1>1 DEF Command, Send, Out
<1>2. ASSUME ~busy, TaskFails \/ Settles PROVE ~busy'
  BY <1>2, Zenon DEF TaskFails, SetApiError, Settles
<1>3. ASSUME NEW chunk, ~busy, Overflow(chunk) PROVE ~busy'
  BY <1>3, Zenon DEF Overflow, KeepRest
<1> QED
  BY <1>1, <1>2, <1>3, MainRuns, TasksMove DEF TaskMoves, PlainMoves, Out

\* A call sends nothing.
Silent == UNCHANGED <<busy, sendCmd, sendText, recvCmd, recvData, recvChunk>>
Silenced == Silent \/ ~busy'

LEMMA PartsSilent ==
  /\ \A t, step, arg : Starts(t, step, arg) => Silent
  /\ \A t, step, arg : Begin(t, step, arg) => Silent
  /\ Refuse => Silenced
  /\ \A room : RestFills(room) => Silent
  /\ \A t, step, room, way : RestGiven(t, step, room, way) => Silent
  /\ \A t, step, room, empty : RestRefused(t, step, room, empty) => Silent
<1> USE DEF Silent, Silenced
<1>1. ASSUME NEW t, NEW step, NEW arg, Starts(t, step, arg) PROVE Silent
  BY <1>1 DEF Starts, bios
<1>2. ASSUME NEW t, NEW step, NEW arg, Begin(t, step, arg) PROVE Silent
  BY <1>1, <1>2 DEF Begin
<1>3. Refuse => Silenced
  BY Zenon DEF Refuse, SetApiError
<1>4. ASSUME NEW room, RestFills(room) PROVE Silent
  BY <1>4 DEF RestFills, bios
<1>5. ASSUME NEW t, NEW step, NEW room, NEW way, RestGiven(t, step, room, way) PROVE Silent
  BY <1>5, <1>1 DEF RestGiven
<1>6. ASSUME NEW t, NEW step, NEW room, NEW empty, RestRefused(t, step, room, empty) PROVE Silent
  BY <1>6, <1>1 DEF RestRefused
<1> QED
  BY <1>1, <1>2, <1>3, <1>4, <1>5, <1>6

LEMMA GameSilent == Game /\ ~MAAPI_ErrorCheck => Silenced
<1> USE PartsSilent DEF Silenced
<1>1. SocketCalls \/ GoesOffline \/ MA_TCP_Cut \/ MA_ApiPreExe => Silenced
  BY DEF SocketCalls, GoesOffline, MA_Offline, MA_TCP_Connect, MA_GetHostAddress, MA_TCP_Disconnect,
         MA_TCP_SendRecv, MA_TCP_Cut, MA_ApiPreExe, bios, Silent
<1>2. MailCalls => Silenced
  <2>1. ASSUME NEW text, NEW room, NewMail(text, room) PROVE Silenced
    BY <2>1 DEF NewMail
  <2>2. ASSUME NEW room, SameMail(room) PROVE Silenced
    BY <2>2 DEF SameMail
  <2> QED
    BY <2>1, <2>2 DEF MailCalls, MA_SMTP_Connect, MA_SMTP_Sender, MA_SMTP_Send, MA_SMTP_Quit,
       MA_POP3_Connect, MA_POP3_Quit, MA_POP3_Stat, MA_POP3_List, MA_POP3_Dele, MA_POP3_Ask,
       MA_POP3_Retr, MA_POP3_Head
<1>3. MA_HTTP_GetPost => Silenced
  <2>1. NewPage => Silenced
    BY DEF NewPage
  <2>2. ASSUME NEW room, SamePage(room) PROVE Silenced
    BY <2>2 DEF SamePage
  <2> QED
    BY <2>1, <2>2 DEF MA_HTTP_GetPost
<1>4. MA_TelServer \/ MA_GetEEPROMData \/ MA_EEPROMRead \/ MA_EEPROMWrite => Silenced
  BY DEF MA_TelServer, MA_GetEEPROMData, MA_EEPROMRead, MA_EEPROMWrite
<1> QED
  BY <1>1, <1>2, <1>3, <1>4 DEF Game

LEMMA OutKept ==
  ASSUME TaskInv, Out, [Next]_vars
  PROVE  Out'
<1>1. CASE Game
  <2>1. CASE MAAPI_ErrorCheck
    BY <2>1, Zenon DEF MAAPI_ErrorCheck, bios, Out
  <2>2. CASE ~MAAPI_ErrorCheck
    BY <1>1, <2>2, GameSilent DEF Silenced, Silent, Out
  <2> QED
    BY <2>1, <2>2
<1>2. CASE Answer
  <2>1. ASSUME NEW cmd, NEW data, NEW chunk, Reply(cmd, data, chunk) PROVE Out'
    BY <2>1 DEF Reply, Out
  <2>2. ASSUME Refused, busy PROVE Out'
    BY <2>2 DEF Refused, Out
  <2> QED
    BY <1>2, <2>1, <2>2 DEF Answer, MA_ProcessRecvPacket, SettingsAnswers, Good
<1>3. CASE ServerCloses \/ UNCHANGED vars
  BY <1>3 DEF ServerCloses, vars, socketVars, bios, Out
<1>4. CASE Leaves
  BY <1>4 DEF Leaves, SessionEnds, Out
<1> QED
  BY <1>1, <1>2, <1>3, <1>4, TasksOut DEF Next

----------------------------------------------------------------------------
(* What a server says.                                                     *)

LEMMA DialogueTexts ==
  ASSUME TypeAdapter, NEW d \in Dialogue
  PROVE
    /\ d[3] \in {"nothing", "reply", "mail", "page"}
    /\ d[2] \in RequestLines => d[3] = "nothing"
    /\ d[3] = "mail" => d[2] \in {"RETR", "TOP"}
    /\ d[2] # "empty"
<1> DEFINE Good_(e) == /\ e[3] \in {"nothing", "reply", "mail", "page"}
                       /\ e[2] \in RequestLines => e[3] = "nothing"
                       /\ e[3] = "mail" => e[2] \in {"RETR", "TOP"}
                       /\ e[2] # "empty"
<1>1. \A a, b, c, w :
        /\ c = "nothing" /\ b # "empty" => Good_(<<a, b, c, w>>)
        /\ c \in {"reply", "page"} /\ b \notin RequestLines /\ b # "empty" => Good_(<<a, b, c, w>>)
        /\ c = "mail" /\ b \in {"RETR", "TOP"} /\ b \notin RequestLines => Good_(<<a, b, c, w>>)
  OBVIOUS
<1> HIDE DEF Good_
<1>2. ASSUME d \in MailDialogue PROVE Good_(d)
  <2>1. ASSUME NEW c \in MailCommands, d = <<"pop3_ready", c, "reply", "pop3_ready">> PROVE Good_(d)
    BY <1>1, <2>1 DEF MailCommands, RequestLines
  <2>2. ASSUME NEW s, d = <<s, "QUIT", "reply", "bye">> PROVE Good_(d)
    BY <1>1, <2>2 DEF RequestLines
  <2> QED
    BY <1>1, <1>2, <2>1, <2>2 DEF MailDialogue, RequestLines
<1>3. ASSUME NEW c \in {"plain", "authorization", "id"}, d \in HttpDialogue(c) PROVE Good_(d)
  <2>1. WithLength[c] # "empty"
    BY DEF WithLength
  <2> QED
    BY <1>1, <1>3, <2>1 DEF HttpDialogue, RequestLines
<1>4. answered < 3 => Credentials[answered + 1] \in {"plain", "authorization", "id"}
  BY DEF Credentials, TypeAdapter
<1> QED
  BY <1>2, <1>3, <1>4 DEF Dialogue, Good_

LEMMA HeardOwes ==
  ASSUME TypeAdapter, NEW id \in Ids, NEW text
  PROVE  LET owes == Heard(id, text).owes
         IN /\ owes \in {due, "nothing", "reply", "mail", "page"}
            /\ peer[id] = "own" => owes = "nothing"
            /\ text \in RequestLines \cup {"empty"} => owes \in {due, "nothing"}
            /\ text \notin {"RETR", "TOP"} => owes \in {due, "nothing", "reply", "page"}
<1> DEFINE Fits_(d) == d[1] = peer[id] /\ d[2] = text
           d == CHOOSE d \in Dialogue : Fits_(d)
<1>1. CASE due = "nothing" /\ \E e \in Dialogue : Fits_(e)
  <2>1. d \in Dialogue /\ Fits_(d)
    BY <1>1
  <2>2. /\ d[3] \in {"nothing", "reply", "mail", "page"} /\ d[2] = text
        /\ d[2] \in RequestLines => d[3] = "nothing"
        /\ d[3] = "mail" => d[2] \in {"RETR", "TOP"}
        /\ d[2] # "empty"
    BY <2>1, DialogueTexts
  <2>3. d = CHOOSE e \in Dialogue : e[1] = peer[id] /\ e[2] = text
    OBVIOUS
  <2> HIDE DEF d
  <2>4. Heard(id, text).owes = IF peer[id] = "own" THEN "nothing" ELSE d[3]
    BY <1>1, <2>2, <2>3 DEF Heard
  <2> QED
    BY <2>2, <2>4
<1>2. CASE ~(due = "nothing" /\ \E e \in Dialogue : Fits_(e))
  <2>1. Heard(id, text).owes = IF peer[id] = "own" THEN "nothing" ELSE due
    BY <1>2 DEF Heard
  <2> QED
    BY <2>1
<1> QED
  BY <1>1, <1>2

\* What comes of each thing that is due.
LEMMA SaysWhat ==
  ASSUME TypeAdapter, NEW owes \in Dues, NEW chunk \in Says(owes)
  PROVE  /\ Follow(chunk.bytes, sent)
         /\ owes = "nothing" => chunk = NoChunk
         /\ owes = "reply" => chunk.bytes = <<>> /\ chunk.line \notin Headers
         /\ owes = "page" => chunk.line \in Headers \ {"split"} \/ chunk.bytes = <<>>
         /\ owes = "rest" => chunk.line = "none"
<1>1. ASSUME NEW S, chunk \in Lines(S)
      PROVE  Follow(chunk.bytes, sent) /\ chunk.bytes = <<>> /\ chunk.line \in S
  <2>1. PICK l \in S : chunk = [line |-> l, bytes |-> <<>>]
    BY <1>1 DEF Lines
  <2> QED
    BY <2>1 DEF Follow
<1>2. ASSUME NEW S, NEW len, chunk \in Follows(S, len)
      PROVE  Follow(chunk.bytes, sent) /\ chunk.line \in S
  <2>1. PICK l \in S, k \in ChunkSizes : chunk = [line |-> l, bytes |-> Bytes(k)]
    BY <1>2 DEF Follows
  <2>2. Follow(Bytes(k), sent)
    BY ServersAssumption, BytesTyped DEF Follow, Bytes, TypeAdapter
  <2> QED
    BY <2>1, <2>2
<1>3. Follow(NoChunk.bytes, sent)
  BY DEF NoChunk, Follow
<1>4. {"none", "part", "good", "bad"} \cap Headers = {}
  BY DEF Headers
<1> QED
  BY <1>1, <1>2, <1>3, <1>4 DEF Says, Dues

\* What one DATA command comes to: 'owes' is what is due when the server has
\* heard it.
Told(owes, chunk) ==
  /\ sent' = sent + Len(chunk.bytes) /\ Follow(chunk.bytes, sent) /\ chunk \in Chunks
  /\ owes = "nothing" => chunk = NoChunk /\ due' \in {due, "nothing"}
  /\ owes = "reply" => chunk.bytes = <<>> /\ chunk.line \notin Headers /\ due' \in {"reply", "nothing"}
  /\ owes = "page" => \/ /\ chunk.line \in Headers /\ due' \in {"rest", "nothing"}
                         /\ chunk.line = "split" => chunk.bytes = <<>>
                      \/ chunk.line \notin Headers /\ chunk.bytes = <<>> /\ due' \in {"page", "nothing"}
  /\ owes = "rest" => chunk.line = "none" /\ due' \in {"rest", "nothing"}

LEMMA ConverseTold ==
  ASSUME IInv, NEW id \in open, NEW text, NEW chunk \in Says(Heard(id, text).owes), Converse(id, text, chunk)
  PROVE  Told(Heard(id, text).owes, chunk)
<1> DEFINE owes == Heard(id, text).owes
<1>0. TypeAdapter /\ PageDue /\ id \in Ids
  BY DEF IInv, TypeOK, open
<1>1. owes \in Dues /\ (peer[id] = "own" => owes = "nothing")
  BY <1>0, HeardTyped, HeardOwes
<1>2. chunk \in Says(owes) /\ chunk \in Chunks
  BY <1>0, <1>1, SaysTyped
<1>3. /\ due' = IF peer[id] = "own" THEN due ELSE Owes(owes, chunk)
      /\ sent' = sent + Len(chunk.bytes)
  BY DEF Converse
<1> HIDE DEF owes
<1>4. NoChunk.line \notin Headers
  BY DEF NoChunk, Headers
<1>5. /\ owes = "nothing" => Owes(owes, chunk) = "nothing"
      /\ owes = "reply" => Owes(owes, chunk) \in {"reply", "nothing"}
      /\ owes = "page" => Owes(owes, chunk) = IF chunk.line \in Headers THEN "rest" ELSE "page"
      /\ owes = "rest" => Owes(owes, chunk) = "rest"
  BY DEF Owes
<1>6. Told(owes, chunk)
  BY <1>0, <1>1, <1>2, <1>3, <1>5, SaysWhat DEF Told
<1> QED
  BY <1>6 DEF owes

LEMMA HangsUpTold ==
  ASSUME IInv, NEW id \in open, NEW text, NEW chunk \in LastWords(id, text), HangsUp(id, text, chunk)
  PROVE  Told(Heard(id, text).owes, chunk)
<1> DEFINE owes == Heard(id, text).owes
<1>0. TypeAdapter /\ PageDue /\ id \in Ids
  BY DEF IInv, TypeOK, open
<1>1. owes \in Dues /\ (peer[id] = "own" => owes = "nothing")
  BY <1>0, HeardTyped, HeardOwes
<1>2. chunk \in (IF owes \in {"page", "rest"} THEN Says(owes) ELSE {NoChunk}) /\ chunk \in Chunks
  BY <1>0, LastWordsTyped DEF LastWords
<1>3. /\ due' = IF peer[id] = "own" THEN due ELSE "nothing"
      /\ sent' = sent + Len(chunk.bytes)
  BY DEF HangsUp
<1> HIDE DEF owes
<1>4. NoChunk.line \notin Headers /\ NoChunk.bytes = <<>> /\ Follow(NoChunk.bytes, sent)
  BY DEF NoChunk, Headers, Follow
<1>5. Told(owes, chunk)
  BY <1>0, <1>1, <1>2, <1>3, <1>4, SaysWhat DEF Told
<1> QED
  BY <1>5 DEF owes

----------------------------------------------------------------------------
(* The answers.                                                            *)

\* What an answer to a DATA command of the task does: it is refused, or the
\* server has been told.
Heard_ == Heard(sendSocket, sendText).owes

LEMMA DataAnswered ==
  ASSUME IInv, task = HttpTask, busy, sendCmd = "DATA", Answer
  PROVE  /\ ~busy'
         /\ \/ UNCHANGED <<sent, recvChunk>> /\ due' \in {due, "nothing"}
            \/ Told(Heard_, recvChunk') /\ sendSocket \in Ids
<1>1. MA_ProcessRecvPacket
  BY DEF Answer, SettingsAnswers, Commands
<1>2. Refused => ~busy' /\ UNCHANGED recvChunk
  BY Zenon DEF Refused
<1>3. ASSUME NEW cmd, NEW data, NEW chunk, Reply(cmd, data, chunk) PROVE ~busy' /\ recvChunk' = chunk
  BY <1>3 DEF Reply
<1>4. CASE sendSocket \in open
  <2>1. CASE Refused /\ Lost(sendSocket)
    BY <1>2, <2>1 DEF Lost
  <2>2. ASSUME NEW chunk \in Says(Heard_), Converse(sendSocket, sendText, chunk), Reply(sendCmd, Garbage, chunk)
        PROVE  ~busy' /\ Told(Heard_, recvChunk')
    BY <1>3, <1>4, <2>2, ConverseTold DEF Heard_
  <2>3. ASSUME NEW chunk \in LastWords(sendSocket, sendText), HangsUp(sendSocket, sendText, chunk),
               Reply("DATA_END", Garbage, chunk)
        PROVE  ~busy' /\ Told(Heard_, recvChunk')
    BY <1>3, <1>4, <2>3, HangsUpTold DEF Heard_
  <2> QED
    BY <1>1, <1>4, <2>1, <2>2, <2>3 DEF MA_ProcessRecvPacket, open, Heard_
<1>5. CASE sendSocket \notin open
  BY <1>1, <1>2, <1>5 DEF MA_ProcessRecvPacket, adapter
<1> QED
  BY <1>4, <1>5

\* The buffer, the page and the place of the task are as they were.
SamePlace == UNCHANGED <<task, taskStep, http, recv, bufferEmpty>>

LEMMA NoBytes == NoChunk.bytes = <<>> /\ Len(NoChunk.bytes) = 0 /\ NoChunk.line = "none" /\ NoChunk.line \notin Headers
BY DEF NoChunk, Headers

LEMMA AnswerOwing ==
  ASSUME IInv, Out, PageInv, task = HttpTask, Answer, SamePlace
  PROVE  OutThen' /\ Owing'
<1> USE DEF SamePlace
<1>0. /\ OutThen /\ Owing /\ busy /\ recvChunk = NoChunk
      /\ TypeAdapter
  BY DEF PageInv, Answer, MA_ProcessRecvPacket, SettingsAnswers, Out, IInv, TypeOK
<1>1. \/ taskStep = 1 /\ sendCmd = "DNS_REQUEST"
      \/ taskStep = 3 /\ sendCmd = "TCP_CONNECT" /\ sendText = "HTTP"
      \/ taskStep \in {8, 50, 100, 110} /\ sendCmd = "DATA" /\ sendText \notin {"RETR", "TOP"}
      \/ taskStep = 241 /\ sendCmd = "TCP_DISCONNECT"
  BY <1>0 DEF OutThen
<1>2. OutThen'
  <2>1. busy' => sendCmd = "TCP_CONNECT" /\ UNCHANGED <<sendCmd, sendText>>
    BY <1>0, <1>1 DEF Answer, MA_ProcessRecvPacket, SettingsAnswers, Refused, Reply, Good, Commands
  <2> QED
    BY <1>1, <2>1 DEF OutThen
<1> DEFINE Elsewhere == ~Asking' /\ ~Searching' /\ ~Halved'
<1>9. taskStep \in {1, 3, 241} => Elsewhere
  BY DEF Asking, Searching, Halved, Awaiting
<1>3. CASE taskStep \in {1, 241}
  <2>1. taskStep' # 3 /\ Elsewhere
    BY <1>3, <1>9
  <2> QED
    BY <1>2, <2>1 DEF Owing
<1>4. CASE taskStep = 3
  <2>1. recvCmd' = "TCP_CONNECT" => due' = "nothing" /\ recvChunk' = NoChunk
    BY <1>0, <1>1, <1>4 DEF Answer, MA_ProcessRecvPacket, SettingsAnswers, Refused, Reply, Connected, Commands
  <2> QED
    BY <1>2, <1>4, <1>9, <2>1 DEF Owing
<1>5. CASE taskStep \in {8, 50, 100, 110}
  <2> DEFINE owes == Heard_
  <2>0. sendCmd = "DATA" /\ sendText \notin {"RETR", "TOP"}
    BY <1>1, <1>5
  <2>1. /\ ~busy'
        /\ \/ UNCHANGED <<sent, recvChunk>> /\ due' \in {due, "nothing"}
           \/ /\ Told(owes, recvChunk')
              /\ owes \in {due, "nothing", "reply", "page"}
              /\ sendText \in RequestLines \cup {"empty"} => owes \in {due, "nothing"}
    BY <1>0, <2>0, DataAnswered, HeardOwes DEF Heard_
  <2> HIDE DEF owes
  <2>2. taskStep' # 3
    BY <1>5
  <2>3. Asking => due' \in {"nothing", "reply"} /\ recvChunk'.bytes = <<>>
    BY <1>0, <2>1, NoBytes DEF Owing, Told
  <2>4. Searching => \/ due' \in {"nothing", "reply", "page"} /\ recvChunk'.bytes = <<>>
                                                              /\ recvChunk'.line \notin Headers
                     \/ due' \in {"nothing", "rest"} /\ recvChunk'.line \in Headers
                                                    /\ (recvChunk'.line = "split" => recvChunk'.bytes = <<>>)
    BY <1>0, <2>1, NoBytes DEF Owing, Told
  <2>5. Halved => due' \in {"nothing", "rest"} /\ recvChunk'.line = "none"
    BY <1>0, <2>1, NoBytes DEF Owing, Told
  <2>6. (Asking' <=> Asking) /\ (Searching' <=> Searching) /\ (Halved' <=> Halved)
    BY DEF Asking, Searching, Halved, Awaiting
  <2> QED
    BY <1>2, <2>1, <2>2, <2>3, <2>4, <2>5, <2>6 DEF Owing
<1> QED
  BY <1>1, <1>3, <1>4, <1>5

LEMMA AnswerCounted ==
  ASSUME IInv, Out, PageInv, task = HttpTask, recv.wanted, Answer, SamePlace
  PROVE  Counted'
<1> USE DEF SamePlace
<1>0. /\ OutThen /\ Counted /\ Owing /\ busy /\ recvChunk = NoChunk
      /\ TypeAdapter /\ Got \in Nat /\ sent \in Nat
  BY StepsTyped DEF PageInv, Answer, MA_ProcessRecvPacket, SettingsAnswers, Out, IInv, TypeOK, TypeAdapter,
     TypeRecv, Taken, Got
<1>1. \/ taskStep = 1 /\ sendCmd = "DNS_REQUEST"
      \/ taskStep = 3 /\ sendCmd = "TCP_CONNECT" /\ sendText = "HTTP"
      \/ taskStep \in {8, 50, 100, 110} /\ sendCmd = "DATA" /\ sendText \notin {"RETR", "TOP"}
      \/ taskStep = 241 /\ sendCmd = "TCP_DISCONNECT"
  BY <1>0 DEF OutThen
<1>2. Got' = Got /\ taskStep' = taskStep
  BY DEF Taken, Got
<1>3. CASE taskStep \in {1, 3, 241}
  <2>1. taskStep \in {1, 3} => sent' = sent
    BY <1>1, <1>3 DEF Answer, MA_ProcessRecvPacket, SettingsAnswers, Connected, adapter, Commands
  <2> QED
    BY <1>0, <1>2, <1>3, <2>1 DEF Counted, Asking, Paging, Awaiting
<1>4. CASE taskStep \in {8, 50, 100, 110}
  <2> DEFINE owes == Heard_
  <2>0. sendCmd = "DATA" /\ sendText \notin {"RETR", "TOP"}
    BY <1>1, <1>4
  <2>1. \/ UNCHANGED <<sent, recvChunk>>
        \/ /\ Told(owes, recvChunk')
           /\ sendText \in RequestLines => owes \in {due, "nothing"}
    BY <1>0, <2>0, DataAnswered, HeardOwes DEF Heard_
  <2> HIDE DEF owes
  <2>2. \/ UNCHANGED <<sent, recvChunk>>
        \/ /\ sent' = sent + Len(recvChunk'.bytes) /\ Follow(recvChunk'.bytes, sent)
           /\ Len(recvChunk'.bytes) \in Nat
           /\ Asking => sent' = sent
    <3>1. Told(owes, recvChunk') /\ Asking => recvChunk'.bytes = <<>>
      BY <1>0, <2>1, NoBytes DEF Told, Owing
    <3> QED
      BY <1>0, <2>1, <3>1 DEF Told, Chunks
  <2>3. Got = sent => Coming'
    BY <1>0, <1>2, <2>2, NoBytes DEF Coming, ComingAfter, Got, Follow
  <2>4. Awaiting \/ Paging => Got = sent
    <3>1. Coming => Got = sent
      BY <1>0, NoBytes DEF Coming, ComingAfter, Got
    <3> QED
      BY <1>0, <3>1 DEF Counted
  <2>5. Asking => Got' = sent'
    BY <1>0, <1>2, <2>2 DEF Counted
  <2>6. /\ Asking' <=> Asking
        /\ Awaiting' <=> Awaiting
        /\ Paging' <=> Paging
    BY DEF Asking, Paging, Awaiting
  <2>7. ~(Paging /\ bufferEmpty)
    BY <1>0 DEF Counted
  <2> QED
    BY <1>2, <1>4, <2>3, <2>4, <2>5, <2>6, <2>7 DEF Counted
<1> QED
  BY <1>1, <1>3, <1>4

LEMMA AnswersKeepBodies ==
  ASSUME TaskInv, BodyInv, Answer \/ ServerCloses \/ UNCHANGED vars
  PROVE  PageInv' /\ WaitInv'
<1>1. SamePlace /\ UNCHANGED <<full, connMode, prevBuf>>
  BY AnswersStay DEF SamePlace
<1>2. IInv /\ Out /\ PageInv /\ WaitInv
  BY DEF TaskInv, BodyInv
<1>3. CASE Answer
  <2>1. busy
    BY <1>3 DEF Answer, MA_ProcessRecvPacket, SettingsAnswers
  <2>2. ~(full /\ connMode = "HTTP")
    BY <1>2, <2>1 DEF WaitInv, Idle, IInv, Running, TaskAlone
  <2>3. WaitInv'
    BY <1>1, <2>2 DEF WaitInv
  <2>4. CASE task = HttpTask
    <3>1. OutThen' /\ Owing' /\ (recv.wanted => Counted')
      BY <1>1, <1>2, <1>3, <2>4, AnswerOwing, AnswerCounted
    <3>2. /\ task' = task /\ taskStep' = taskStep /\ bufferEmpty' = bufferEmpty /\ recv' = recv
          /\ recv.wanted => Body /\ recv.at = recv.size
          /\ bufferEmpty => taskStep \in {110, 241}
      BY <1>1, <1>2, <2>4 DEF SamePlace, PageInv
    <3> QED
      BY <1>1, <2>3, <3>1, <3>2 DEF PageInv, Body, Holds, SamePlace
  <2>5. CASE task # HttpTask
    BY <1>1, <2>3, <2>5 DEF PageInv, SamePlace
  <2> QED
    BY <2>4, <2>5
<1>4. CASE ServerCloses \/ UNCHANGED vars
  <2>1. UNCHANGED <<due, sent, busy, sendCmd, sendText, recvCmd, recvChunk>>
    BY <1>4 DEF ServerCloses, vars, socketVars, bios, adapter
  <2>2. UNCHANGED <<task, taskStep, http, recv, bufferEmpty, full, connMode, prevBuf>>
    BY <1>1 DEF SamePlace
  <2>3. OutThen' = OutThen /\ Owing' = Owing /\ Counted' = Counted /\ Body' = Body
    BY <2>1, <2>2 DEF OutThen, Owing, Counted, Body, Holds, Asking, Awaiting, Searching, Halved, Paging,
       Coming, ComingAfter, Got, Taken
  <2>4. ComingAfter(http.missed, prevBuf.rest)' <=> ComingAfter(http.missed, prevBuf.rest)
    BY <2>1, <2>2 DEF ComingAfter, Taken
  <2>5. PageInv'
    BY <1>2, <2>2, <2>3 DEF PageInv
  <2>6. WaitInv'
    BY <1>2, <2>1, <2>2, <2>3, <2>4 DEF WaitInv, Idle
  <2> QED
    BY <2>5, <2>6
<1> QED
  BY <1>3, <1>4

----------------------------------------------------------------------------
(* The calls.                                                              *)

\* No other call starts the task, or leaves a page waiting for a buffer.
LEMMA OtherCalls ==
  ASSUME TaskInv, Game, ~MA_HTTP_GetPost, ~(MAAPI_ErrorCheck /\ UNCHANGED <<recv, http>>)
  PROVE  task' # HttpTask /\ ~(full' /\ connMode' = "HTTP")
<1> USE CallsMode DEF AtRest
<1> DEFINE Goal == task' # HttpTask /\ ~(full' /\ connMode' = "HTTP")
<1>1. CASE SocketCalls
  BY <1>1 DEF SocketCalls, MA_TCP_Connect, MA_GetHostAddress, MA_TCP_Disconnect, MA_TCP_SendRecv
<1>2. CASE GoesOffline
  <2>1. PICK mode \in {"PPP", "SMTP", "POP3"} :
          AtRest(mode) /\ Begin("OFFLINE", IF mode = "PPP" THEN 0 ELSE 100, 0)
    BY <1>2 DEF GoesOffline, MA_Offline
  <2> QED
    BY <2>1
<1>3. CASE MA_TCP_Cut \/ MA_ApiPreExe
  <2>1. Refuse => full' = FALSE /\ task' = "NONE"
    BY DEF Refuse, SetApiError
  <2> QED
    BY <1>3, <2>1 DEF MA_TCP_Cut, MA_ApiPreExe
<1>4. CASE MailCalls
  <2>1. ASSUME NEW text, NEW room, NewMail(text, room) PROVE Goal
    BY <2>1 DEF NewMail
  <2>2. ASSUME NEW room, SameMail(room) PROVE Goal
    <3>1. task' \in {"NONE", "POP3_RETR"} /\ connMode' = "POP3"
      BY <2>2 DEF SameMail
    <3> QED
      BY <3>1
  <2>3. MA_SMTP_Connect \/ MA_SMTP_Sender \/ MA_SMTP_Send \/ MA_SMTP_Quit => Goal
    <3>1. MA_SMTP_Send => AtRest("SMTP") /\ Begin("SMTP_SEND", 0, 0)
      BY Zenon DEF MA_SMTP_Send
    <3> QED
      BY <3>1 DEF MA_SMTP_Connect, MA_SMTP_Sender, MA_SMTP_Quit
  <2>4. MA_POP3_Connect \/ MA_POP3_Quit \/ MA_POP3_Stat \/ MA_POP3_List \/ MA_POP3_Dele => Goal
    BY DEF MA_POP3_Connect, MA_POP3_Quit, MA_POP3_Stat, MA_POP3_List, MA_POP3_Dele, MA_POP3_Ask
  <2> QED
    BY <1>4, <2>1, <2>2, <2>3, <2>4 DEF MailCalls, MA_POP3_Retr, MA_POP3_Head
<1>5. CASE MA_TelServer \/ MA_GetEEPROMData \/ MA_EEPROMRead \/ MA_EEPROMWrite
  BY <1>5 DEF MA_TelServer, MA_GetEEPROMData, MA_EEPROMRead, MA_EEPROMWrite
<1> QED
  BY <1>1, <1>2, <1>3, <1>4, <1>5 DEF Game

LEMMA NewPageBodies ==
  ASSUME TaskInv, BodyInv, NewPage
  PROVE  PageInv' /\ WaitInv'
<1>1. /\ task' = HttpTask /\ taskStep' \in {0, 2} /\ Silent
      /\ full' = FALSE /\ bufferEmpty' = FALSE /\ sent' = 0
  BY CallsMode, PartsSilent DEF NewPage
<1>2. PICK room \in Rooms : recv' = GivenBuffer(room, 0)
  BY DEF NewPage
<1>3. ~busy
  BY DEF NewPage, AtRest, TaskInv, IInv, Running, TaskAlone
<1>4. ~busy' /\ WaitInv' /\ OutThen'
  BY <1>1, <1>3 DEF Silent, WaitInv, OutThen
<1>5. ~Asking' /\ ~Awaiting' /\ ~Searching' /\ ~Halved' /\ ~Paging' /\ taskStep' \notin {3, 255}
  BY <1>1 DEF Asking, Searching, Halved, Paging, Awaiting
<1>6. Owing'
  BY <1>5 DEF Owing
<1>7. http'.missed = 0
  BY DEF NewPage, NoPage
<1>8. Got' = 0 /\ Body' /\ recv'.at = recv'.size
  BY <1>2, <1>7, ReceiveAssumption DEF Taken, Got, Body, Holds, GivenBuffer
<1>9. Counted'
  BY <1>1, <1>5, <1>8 DEF Counted
<1> QED
  BY <1>1, <1>4, <1>6, <1>8, <1>9 DEF PageInv

\* The two parts of what is cut at m.
LEMMA PartBytes ==
  ASSUME NEW bytes \in Seq(Nat), NEW m \in Nat, m <= Len(bytes)
  PROVE  /\ \A i \in 1 .. m : SubSeq(bytes, 1, m)[i] = bytes[i]
         /\ \A i \in 1 .. Len(bytes) - m : SubSeq(bytes, m + 1, Len(bytes))[i] = bytes[m + i]
OBVIOUS

\* The rest of a page, given into another buffer, when m bytes have been missed.
LEMMA MoreBodies ==
  ASSUME Buffers, sent \in Nat, sent' = sent, NEW room \in Nat, NEW m \in Nat,
         ComingAfter(m, prevBuf.rest)
  PROVE  /\ \A t, step : RestGiven(t, step, room, TRUE) =>
                           Holds(0, m)' /\ Taken' + m = sent' /\ recv'.at = recv'.size
         /\ RestFills(room) => recv'.wanted /\ Holds(0, m)' /\ ComingAfter(m, prevBuf.rest)'
<1>0. PICK rest \in Seq(Nat), taken \in Nat : rest = prevBuf.rest /\ taken = Taken
  BY DEF Buffers, TypePrevBuf, TypeRecv, Taken
<1>1. ASSUME NEW t, NEW step, RestGiven(t, step, room, TRUE)
      PROVE  Holds(0, m)' /\ Taken' + m = sent' /\ recv'.at = recv'.size
  <2>1. recv' = [cells |-> rest, given |-> room, at |-> Len(rest), room |-> room - Len(rest),
                 size |-> Len(rest), wanted |-> room # 0, taken |-> taken]
    BY <1>0, <1>1 DEF RestGiven, GivenBuffer
  <2>2. taken + m + Len(rest) = sent /\ \A i \in 1 .. Len(rest) : rest[i] = taken + m + i
    BY <1>0 DEF ComingAfter, Follow
  <2>3. /\ recv'.cells = rest /\ recv'.size = Len(rest) /\ recv'.at = Len(rest)
        /\ recv'.taken = taken
    BY <2>1
  <2> QED
    BY <2>2, <2>3 DEF Holds, Taken
<1>2. ASSUME RestFills(room)
      PROVE  recv'.wanted /\ Holds(0, m)' /\ ComingAfter(m, prevBuf.rest)'
  <2> DEFINE n == Len(rest)
             head == SubSeq(rest, 1, room)
             tail == SubSeq(rest, room + 1, n)
  <2>1. room # 0 /\ room < n /\ n \in Nat
    BY <1>0, <1>2 DEF RestFills
  <2>2. /\ Len(head) = room /\ \A i \in 1 .. room : head[i] = rest[i]
        /\ Len(tail) = n - room /\ \A i \in 1 .. n - room : tail[i] = rest[room + i]
    <3>1. room <= Len(rest)
      BY <2>1
    <3> QED
      BY <3>1, PartTyped, PartBytes
  <2>3. recv' = [cells |-> head, given |-> room, at |-> 0, room |-> room, size |-> room,
                 wanted |-> room # 0, taken |-> taken]
    BY <1>0, <1>2 DEF RestFills, GivenBuffer
  <2>4. prevBuf'.rest = tail
    BY <1>0, <1>2 DEF RestFills, Buffers, TypePrevBuf
  <2>5. taken + m + n = sent /\ \A i \in 1 .. n : rest[i] = taken + m + i
    BY <1>0 DEF ComingAfter, Follow
  <2> HIDE DEF head, tail, n
  <2>6. recv'.cells = head /\ recv'.size = room /\ recv'.taken = taken /\ recv'.wanted
    BY <2>1, <2>3
  <2>7. Holds(0, m)' /\ Taken' = taken + room
    <3>1. Len(recv'.cells) = room
      BY <2>2, <2>6
    <3>2. ASSUME NEW i \in 1 .. room PROVE recv'.cells[i] = taken + m + i
      <4>1. head[i] = rest[i] /\ i \in 1 .. n
        BY <2>1, <2>2
      <4> QED
        BY <2>5, <2>6, <4>1
    <3> QED
      BY <2>6, <3>1, <3>2 DEF Holds, Taken
  <2>8. Taken' + m + Len(prevBuf'.rest) = sent'
    <3>1. Len(prevBuf'.rest) = n - room
      BY <2>2, <2>4
    <3> QED
      BY <2>1, <2>5, <2>7, <3>1
  <2>9. Follow(prevBuf'.rest, Taken' + m)
    <3>1. ASSUME NEW i \in 1 .. n - room PROVE tail[i] = taken + room + m + i
      <4>1. room + i \in 1 .. n /\ tail[i] = rest[room + i]
        BY <2>1, <2>2
      <4> QED
        BY <2>5, <4>1
    <3> QED
      BY <2>2, <2>4, <2>7, <3>1 DEF Follow
  <2> QED
    BY <2>6, <2>7, <2>8, <2>9 DEF ComingAfter
<1> QED
  BY <1>1, <1>2

LEMMA SamePageBodies ==
  ASSUME TaskInv, BodyInv, NEW room \in Rooms, SamePage(room)
  PROVE  PageInv' /\ WaitInv'
<1>0. /\ Buffers /\ sent \in Nat /\ room \in Nat
      /\ task = "NONE" /\ ~busy /\ full /\ connMode = "HTTP"
      /\ UNCHANGED <<sent, connMode, http>>
      /\ http.missed \in Nat
  BY ReceiveAssumption, StepsTyped
     DEF TaskInv, IInv, TypeOK, Buffers, TypeAdapter, SamePage, AtRest, Running, TaskAlone
<1>1. PICK m \in Nat : m = http.missed /\ m = http'.missed /\ ComingAfter(m, prevBuf.rest)
  BY <1>0 DEF BodyInv, WaitInv
<1>2. ASSUME task' = HttpTask, taskStep' = 110, ~busy', full' = FALSE,
             recv'.wanted => Body' /\ Got' = sent' /\ recv'.at = recv'.size /\ bufferEmpty'
      PROVE  PageInv' /\ WaitInv'
  <2>1. ~Asking' /\ ~Awaiting' /\ ~Searching' /\ ~Halved' /\ taskStep' \notin {3, 255} \cup 0..3
    BY <1>2 DEF Asking, Searching, Halved, Awaiting
  <2>2. OutThen' /\ Owing' /\ WaitInv'
    BY <1>2, <2>1 DEF OutThen, Owing, WaitInv
  <2>3. recv'.wanted => Counted'
    BY <1>2, <2>1 DEF Counted
  <2> QED
    BY <1>2, <2>2, <2>3 DEF PageInv
<1>3. Silent => ~busy'
  BY <1>0 DEF Silent
<1>4. CASE RestGiven(HttpTask, 110, room, TRUE)
  <2>1. task' = HttpTask /\ taskStep' = 110 /\ ~busy'
    BY <1>3, <1>4, CallsMode, PartsSilent
  <2>2. full' = FALSE /\ bufferEmpty' = TRUE
    BY <1>4 DEF RestGiven
  <2>3. Holds(0, m)' /\ Taken' + m = sent' /\ recv'.at = recv'.size
    BY <1>0, <1>1, <1>4, MoreBodies
  <2>4. Body' /\ Got' = sent'
    BY <1>1, <2>3 DEF Body, Got, Holds
  <2> QED
    BY <1>2, <2>1, <2>2, <2>3, <2>4
<1>5. CASE RestRefused(HttpTask, 110, room, TRUE)
  <2>1. task' = HttpTask /\ taskStep' = 110 /\ ~busy'
    BY <1>3, <1>5, CallsMode, PartsSilent
  <2>2. full' = FALSE /\ ~recv'.wanted
    BY <1>5 DEF RestRefused, GivenBuffer
  <2> QED
    BY <1>2, <2>1, <2>2
<1>6. CASE RestFills(room)
  <2>1. task' = "NONE"
    BY <1>0, <1>6, CallsMode
  <2>2. recv'.wanted /\ Holds(0, m)' /\ ComingAfter(m, prevBuf.rest)'
    BY <1>0, <1>1, <1>6, MoreBodies
  <2>3. Body' /\ ComingAfter(http.missed, prevBuf.rest)'
    BY <1>1, <2>2 DEF Body, Holds, ComingAfter
  <2>4. WaitInv'
    BY <2>1, <2>2, <2>3 DEF WaitInv, Idle
  <2> QED
    BY <2>1, <2>4 DEF PageInv
<1> QED
  BY <1>4, <1>5, <1>6 DEF SamePage

LEMMA CallsKeepBodies ==
  ASSUME TaskInv, BodyInv, Game
  PROVE  PageInv' /\ WaitInv'
<1>1. CASE MA_HTTP_GetPost
  BY <1>1, NewPageBodies, SamePageBodies DEF MA_HTTP_GetPost
<1>2. CASE MAAPI_ErrorCheck /\ UNCHANGED <<recv, http>>
  <2>1. /\ task = "NONE" /\ UNCHANGED <<task, full, connMode, prevBuf, sent>>
    BY <1>2 DEF MAAPI_ErrorCheck, TaskInv, IInv, Running, TaskAlone, api, adapter
  <2> QED
    BY <1>2, <2>1 DEF BodyInv, PageInv, WaitInv, Body, Holds, ComingAfter, Taken, Idle
<1> QED
  BY <1>1, <1>2, OtherCalls DEF PageInv, WaitInv

----------------------------------------------------------------------------
(* The task.                                                               *)

LEMMA WriteBody ==
  ASSUME NEW cells \in Seq(Nat), NEW at \in Nat, NEW before \in Nat, NEW bytes \in Seq(Nat),
         NEW l \in Nat, NEW m \in Nat, l <= m, at <= Len(cells),
         \A i \in 1 .. at : cells[i] \in before + i + l .. before + i + m,
         \A i, j \in 1 .. at : i < j => cells[i] < cells[j],
         Follow(bytes, before + at + m)
  PROVE  LET all == Write(cells, at, bytes)
         IN /\ at + Len(bytes) <= Len(all)
            /\ \A i \in 1 .. at + Len(bytes) : all[i] \in before + i + l .. before + i + m
            /\ \A i, j \in 1 .. at + Len(bytes) : i < j => all[i] < all[j]
<1> DEFINE last == at + Len(bytes)
           n    == IF last > Len(cells) THEN last ELSE Len(cells)
           f    == [i \in 1 .. n |-> IF i \in at + 1 .. last THEN bytes[i - at]
                                     ELSE IF i <= Len(cells) THEN cells[i] ELSE 0]
<1>1. at + Len(bytes) <= Len(Write(cells, at, bytes))
  <2> DEFINE all == Write(cells, at, bytes)
  <2>1. Len(cells) \in Nat /\ Len(bytes) \in Nat
    OBVIOUS
  <2>2. Len(all) = IF at + Len(bytes) > Len(cells) THEN at + Len(bytes) ELSE Len(cells)
    BY WriteLen
  <2> HIDE DEF all
  <2>3. at + Len(bytes) <= Len(all)
    BY <2>1, <2>2
  <2> QED
    BY <2>3 DEF all
<1>2. ASSUME NEW i \in at + 1 .. last PROVE f[i] = before + i + m
  <2>1. i \in 1 .. n
    OBVIOUS
  <2>2. i - at \in 1 .. Len(bytes)
    OBVIOUS
  <2>3. bytes[i - at] = (before + at + m) + (i - at)
    BY <2>2 DEF Follow
  <2> QED
    BY <2>1, <2>3
<1>3. ASSUME NEW i \in 1 .. at PROVE f[i] = cells[i]
  <2>1. i \in 1 .. n /\ i \notin at + 1 .. last
    OBVIOUS
  <2> QED
    BY <2>1
<1>4. last \in Nat /\ \A i \in 1 .. last : i \in 1 .. at \/ i \in at + 1 .. last
  OBVIOUS
<1> HIDE DEF f, n
<1>5. ASSUME NEW i \in 1 .. last PROVE f[i] \in before + i + l .. before + i + m
  BY <1>2, <1>3, <1>4
<1>6. ASSUME NEW i \in 1 .. last, NEW j \in 1 .. last, i < j PROVE f[i] < f[j]
  <2>1. CASE j \in 1 .. at
    <3>1. i \in 1 .. at
      BY <1>6, <2>1
    <3> QED
      BY <1>3, <1>6, <2>1, <3>1
  <2>2. CASE j \in at + 1 .. last
    <3>1. f[j] = before + j + m
      BY <1>2, <2>2
    <3>2. f[i] \in before + i + l .. before + i + m
      BY <1>5
    <3> QED
      BY <1>6, <3>1, <3>2
  <2> QED
    BY <1>4, <2>1, <2>2
<1> QED
  BY <1>1, <1>5, <1>6 DEF Write, f, n

\* The bytes that have come, behind those that are there.
LEMMA StoredBodies ==
  ASSUME TypeRecv, sent \in Nat, NEW bytes \in Seq(Nat), NEW l \in Nat, NEW m \in Nat, l <= m,
         Holds(l, m), recv.at = recv.size, ComingAfter(m, bytes), Store(bytes)
  PROVE  Holds(l, m)' /\ recv'.at = recv'.size /\ Taken' + m = sent /\ recv'.wanted = recv.wanted
<1> DEFINE all == Write(recv.cells, recv.at, bytes)
<1>1. /\ recv'.cells = all /\ recv'.at = recv.at + Len(bytes) /\ recv'.size = recv.size + Len(bytes)
      /\ recv'.taken = recv.taken /\ recv'.wanted = recv.wanted
  BY DEF Store, TypeRecv
<1>2. recv.cells \in Seq(Nat) /\ recv.at \in Nat /\ recv.size \in Nat /\ recv.taken \in Nat
  BY DEF TypeRecv
<1>3. /\ recv.at + Len(bytes) <= Len(all)
      /\ \A i \in 1 .. recv.at + Len(bytes) : all[i] \in recv.taken + i + l .. recv.taken + i + m
      /\ \A i, j \in 1 .. recv.at + Len(bytes) : i < j => all[i] < all[j]
  <2>1. Follow(bytes, recv.taken + recv.at + m)
    BY DEF ComingAfter, Taken
  <2>2. /\ recv.at <= Len(recv.cells)
        /\ \A i \in 1 .. recv.at : recv.cells[i] \in recv.taken + i + l .. recv.taken + i + m
        /\ \A i, j \in 1 .. recv.at : i < j => recv.cells[i] < recv.cells[j]
    BY DEF Holds
  <2> QED
    BY <1>2, <2>1, <2>2, WriteBody
<1>4. Len(bytes) \in Nat
  OBVIOUS
<1> HIDE DEF all
<1>5. Holds(l, m)'
  BY <1>1, <1>3 DEF Holds
<1>6. Taken' = recv.taken + recv.size + Len(bytes)
  BY <1>1, <1>2, <1>4 DEF Taken
<1> QED
  BY <1>1, <1>2, <1>4, <1>5, <1>6 DEF ComingAfter, Taken

\* As many of them as there is room for; the rest follows them.
LEMMA FilledBodies ==
  ASSUME Buffers, sent \in Nat, recvChunk.bytes \in Seq(Nat), NEW m \in Nat,
         Holds(0, m), recv.at = recv.size, ComingAfter(m, recvChunk.bytes),
         ~Fits(recvChunk.bytes), Overflow(recvChunk)
  PROVE  /\ Holds(0, m)' /\ recv'.wanted = recv.wanted
         /\ Taken' + m + Len(prevBuf'.rest) = sent /\ Follow(prevBuf'.rest, Taken' + m)
<1>1. PICK bytes \in Seq(Nat) : bytes = recvChunk.bytes
  OBVIOUS
<1> DEFINE room == recv.room
           head == SubSeq(bytes, 1, room)
           tail == SubSeq(bytes, room + 1, Len(bytes))
           all  == Write(recv.cells, recv.at, head)
<1> HIDE DEF all
<1>2. /\ recv.cells \in Seq(Nat) /\ recv.at \in Nat /\ recv.size \in Nat /\ recv.taken \in Nat
      /\ room \in Nat
  BY DEF Buffers, TypeRecv
<1>3. room < Len(bytes) /\ Len(bytes) \in Nat
  BY <1>1, <1>2 DEF Fits
<1> HIDE DEF room
<1>4. /\ head \in Seq(Nat) /\ Len(head) = room /\ \A i \in 1 .. room : head[i] = bytes[i]
      /\ tail \in Seq(Nat) /\ Len(tail) = Len(bytes) - room
      /\ \A i \in 1 .. Len(bytes) - room : tail[i] = bytes[room + i]
  <2>1. room \in Nat /\ room <= Len(bytes)
    BY <1>2, <1>3
  <2> QED
    BY <2>1, PartTyped, PartBytes
<1>5. /\ recv' = [recv EXCEPT !.cells = all, !.size = @ + room, !.room = 0]
      /\ prevBuf' = [prevBuf EXCEPT !.line = "none", !.rest = tail]
  BY <1>1 DEF Overflow, KeepRest, all, room
<1>6. Taken + m + Len(bytes) = sent /\ \A i \in 1 .. Len(bytes) : bytes[i] = Taken + m + i
  BY <1>1 DEF ComingAfter, Follow
<1>7. Taken = recv.taken + recv.size /\ Taken \in Nat
  BY <1>2 DEF Taken
<1> HIDE DEF head, tail
<1>8. Follow(head, recv.taken + recv.at + m)
  <2>1. ASSUME NEW i \in 1 .. room PROVE head[i] = recv.taken + recv.at + m + i
    <3>1. i \in 1 .. Len(bytes) /\ head[i] = bytes[i]
      BY <1>2, <1>3, <1>4
    <3> QED
      BY <1>2, <1>6, <1>7, <3>1
  <2> QED
    BY <1>4, <2>1 DEF Follow
<1>9. /\ recv.at + Len(head) <= Len(all)
      /\ \A i \in 1 .. recv.at + Len(head) : all[i] \in recv.taken + i + 0 .. recv.taken + i + m
      /\ \A i, j \in 1 .. recv.at + Len(head) : i < j => all[i] < all[j]
  <2>1. /\ recv.at <= Len(recv.cells)
        /\ \A i \in 1 .. recv.at : recv.cells[i] \in recv.taken + i + 0 .. recv.taken + i + m
        /\ \A i, j \in 1 .. recv.at : i < j => recv.cells[i] < recv.cells[j]
    BY DEF Holds
  <2>2. recv.cells \in Seq(Nat) /\ recv.at \in Nat /\ recv.taken \in Nat
    BY <1>2
  <2>3. head \in Seq(Nat)
    BY <1>4
  <2> QED
    <3>1. 0 \in Nat /\ 0 <= m
      OBVIOUS
    <3> QED
      BY <1>8, <2>1, <2>2, <2>3, <3>1, WriteBody, Zenon DEF all
<1>10. /\ recv.at + room <= Len(all)
       /\ \A i \in 1 .. recv.at + room : all[i] \in recv.taken + i + 0 .. recv.taken + i + m
       /\ \A i, j \in 1 .. recv.at + room : i < j => all[i] < all[j]
  BY <1>4, <1>9
<1>11. /\ recv'.cells = all /\ recv'.size = recv.size + room /\ recv'.taken = recv.taken
       /\ recv'.wanted = recv.wanted
  BY <1>5 DEF Buffers, TypeRecv
<1>12. Holds(0, m)' /\ Taken' = Taken + room
  <2>1. Taken' = Taken + room
    BY <1>2, <1>7, <1>11 DEF Taken
  <2> QED
    BY <1>10, <1>11, <2>1 DEF Holds
<1>13. prevBuf'.rest = tail
  BY <1>5 DEF Buffers, TypePrevBuf
<1>14. Taken' + m + Len(tail) = sent
  BY <1>2, <1>3, <1>4, <1>6, <1>7, <1>12
<1>15. Follow(tail, Taken' + m)
  <2>1. ASSUME NEW i \in 1 .. Len(bytes) - room PROVE tail[i] = Taken' + m + i
    <3>0. tail[i] = bytes[room + i]
      BY <1>4
    <3>1. room + i \in 1 .. Len(bytes) /\ tail[i] = bytes[room + i]
      BY <1>2, <1>3, <3>0
    <3> QED
      BY <1>2, <1>6, <1>7, <1>12, <3>1
  <2> QED
    BY <1>4, <2>1 DEF Follow
<1> QED
  BY <1>11, <1>12, <1>13, <1>14, <1>15

\* A DATA command of the task, and what is known when it is out.
LEMMA DataSent ==
  ASSUME NEW socket, NEW text, NEW step \in {8, 50, 100, 110}, Command("DATA", socket, text, step),
         text \notin {"RETR", "TOP"}, sent \in Nat, UNCHANGED <<sent, due>>, ~bufferEmpty',
         recv'.wanted => Got' = sent,
         Asking' => due \in {"nothing", "reply"} /\ text \in RequestLines,
         Searching' => due \in {"nothing", "reply", "page"},
         Halved' => due \in {"nothing", "rest"} /\ text = "empty"
  PROVE  OutThen' /\ Owing' /\ (recv'.wanted => Counted')
<1>1. /\ busy' /\ sendCmd' = "DATA" /\ sendText' = text /\ recvChunk' = NoChunk
      /\ taskStep' = step
  BY DEF Command, Send
<1>2. OutThen'
  BY <1>1 DEF OutThen
<1>3. Owing'
  BY <1>1, NoBytes DEF Owing
<1>4. Got' = sent => Coming'
  <2>1. Got' = sent => Got' + 0 = sent
    OBVIOUS
  <2> QED
    BY <1>1, <2>1, NoBytes DEF Coming, ComingAfter, Got, Follow
<1>5. taskStep' \notin 0..3 \cup {255}
  BY <1>1
<1>6. recv'.wanted => Counted'
  BY <1>4, <1>5 DEF Counted
<1> QED
  BY <1>2, <1>3, <1>6

\* The header of a request.
LEMMA HeaderText ==
  ASSUME TypeHttp, http.step < Requests[http.auth]
  PROVE  /\ CreateHttpRequestHeader \notin {"RETR", "TOP"}
         /\ SendsData => CreateHttpRequestHeader \in RequestLines
<1> DEFINE credential == IF http.auth = "UNKNOWN" THEN "plain" ELSE Credentials[http.step + 1]
<1>1. http.step \in 0..2
  <2>1. http.auth \in {"UNKNOWN", "UTILITY", "DOWNLOAD", "UPLOAD", "RANKING"} /\ http.step \in 0..3
    BY DEF TypeHttp, Suited
  <2> QED
    BY <2>1 DEF Requests
<1>2. credential \in {"plain", "authorization", "id"}
  BY <1>1 DEF Credentials
<1>3. CreateHttpRequestHeader = IF SendsData THEN WithLength[credential] ELSE credential
  BY DEF CreateHttpRequestHeader
<1> HIDE DEF credential
<1>4. WithLength[credential] \in {"plain+length", "authorization+length", "id+length"}
  BY <1>2 DEF WithLength
<1> QED
  BY <1>2, <1>3, <1>4 DEF RequestLines

LEMMA HttpFields ==
  ASSUME TypeHttp
  PROVE  /\ \A n, k : LET h == [http EXCEPT !.next = n, !.left = k]
                      IN h.next = n /\ h.missed = http.missed
         /\ ~NoHeader.headEnd /\ ~NoHeader.headFound /\ NoHeader.missed = http.missed
         /\ LET h == [NoHeader EXCEPT !.next = 8]
            IN h.next = 8 /\ ~h.headEnd /\ ~h.headFound /\ h.missed = http.missed
<1>1. \A n, k : LET h == [http EXCEPT !.next = n, !.left = k] IN h.next = n /\ h.missed = http.missed
  BY DEF TypeHttp
<1>2. ~NoHeader.headEnd /\ ~NoHeader.headFound /\ NoHeader.missed = http.missed
  BY DEF NoHeader, TypeHttp
<1>3. NoHeader \in HttpRecord
  BY NoHeaderTyped DEF TypeHttp, HttpRecord
<1>4. ASSUME NEW r \in HttpRecord
      PROVE  [r EXCEPT !.next = 8].next = 8 /\ [r EXCEPT !.next = 8].headEnd = r.headEnd
             /\ [r EXCEPT !.next = 8].headFound = r.headFound
             /\ [r EXCEPT !.next = 8].missed = r.missed
  BY DEF HttpRecord
<1> QED
  BY <1>1, <1>2, <1>3, <1>4

\* Steps 3 to 7, 50 and 100.
LEMMA RequestBodies ==
  ASSUME TaskInv, BodyInv, task = HttpTask, ~busy, Request,
         ~Nega({"DATA", "TCP_CONNECT", "DNS_REQUEST"}), UNCHANGED <<recv, bufferEmpty, adapter>>
  PROVE  OutThen' /\ Owing' /\ (recv'.wanted => Counted') /\ http'.missed = http.missed
<1>0. /\ TypeHttp /\ sent \in Nat /\ UNCHANGED <<sent, due, recv, bufferEmpty>>
      /\ OutThen /\ Owing /\ (recv.wanted => Counted) /\ ~bufferEmpty
      /\ http.step < Requests[http.auth]
  <2>1. taskStep \in 3..7 \cup {50, 100}
    BY DEF Request, At
  <2> QED
    BY <2>1 DEF TaskInv, IInv, TypeOK, TypeAdapter, HttpProgress, RequestSteps, BodyInv, PageInv, adapter
<1>1. http'.missed = http.missed
  <2>1. \/ http' \in {http, NoHeader, [NoHeader EXCEPT !.next = 8]}
        \/ \E n, k : http' = [http EXCEPT !.next = n, !.left = k]
    BY DEF Request, Says_
  <2>2. ASSUME NEW n, NEW k, http' = [http EXCEPT !.next = n, !.left = k] PROVE http'.missed = http.missed
    BY <1>0, <2>2, HttpFields
  <2>3. NoHeader.missed = http.missed /\ [NoHeader EXCEPT !.next = 8].missed = http.missed
    BY <1>0, HttpFields
  <2> QED
    BY <2>1, <2>2, <2>3
<1>11. ~bufferEmpty' /\ Got' = Got /\ (recv'.wanted <=> recv.wanted)
  BY <1>0, <1>1 DEF Taken, Got
<1> SUFFICES OutThen' /\ Owing' /\ (recv'.wanted => Counted')
  BY <1>1
<1> DEFINE Goal == OutThen' /\ Owing' /\ (recv'.wanted => Counted')
<1>2. CASE At(50)
  <2>1. taskStep' = http.next /\ UNCHANGED <<http, bios>>
    BY <1>2 DEF Request, Goes, At
  <2>2. http.next \in {0, 5, 6, 7, 8, 100}
    BY <1>0 DEF TypeHttp
  <2>3. UNCHANGED <<busy, recvCmd, recvChunk, sendText, http, recv, sent, due, bufferEmpty>>
    BY <1>0, <2>1 DEF bios
  <2>4. /\ Asking' => Asking
        /\ Awaiting' => Awaiting
        /\ Searching' => Searching
        /\ Halved' => Halved
        /\ ~Paging' /\ taskStep' \notin {1, 2, 3, 255}
        /\ taskStep' = 0 => Asking
    BY <1>2, <2>1, <2>2, <2>3 DEF At, Asking, Searching, Halved, Paging, Awaiting
  <2>5. OutThen' /\ Owing'
    BY <1>0, <2>3, <2>4 DEF OutThen, Owing
  <2>6. recv'.wanted => Counted'
    <3>1. Coming' = Coming
      BY <2>3 DEF Coming, ComingAfter, Taken
    <3> QED
      BY <1>0, <1>11, <2>3, <2>4, <3>1 DEF Counted
  <2> QED
    BY <2>5, <2>6
<1>3. ASSUME ~At(50)
      PROVE  /\ taskStep \in 3..7 \cup {100} /\ (taskStep = 3 \/ Asking)
             /\ due \in {"nothing", "reply"}
             /\ recv.wanted => Got = sent
  <2>1. taskStep \in 3..7 \cup {100}
    BY <1>3 DEF Request, At
  <2>2. taskStep = 3 => recvCmd = "TCP_CONNECT"
    BY DEF TaskInv, IInv, Running, Awaited, Answered, AwaitsConnect, Nega
  <2>3. taskStep = 3 \/ Asking
    BY <2>1 DEF Asking
  <2> QED
    BY <1>0, <2>1, <2>2, <2>3 DEF Owing, Counted
<1>4. ASSUME NEW socket, NEW text \in RequestLines, NEW step \in {50, 100}, Command("DATA", socket, text, step),
             http'.next # 8, ~At(50)
      PROVE  Goal
  <2>1. text \notin {"RETR", "TOP"} /\ ~Halved' /\ ~Searching'
    BY <1>4 DEF RequestLines, Halved, Searching, Awaiting, Command
  <2> QED
    BY <1>0, <1>11, <1>3, <1>4, <2>1, DataSent
<1>5. ASSUME NEW socket, NEW text, NEW step \in {8, 50}, text \notin {"RETR", "TOP"},
             Command("DATA", socket, text, step),
             step = 50 => http'.next = 8, ~http'.headFound, ~At(50)
      PROVE  Goal
  <2>1. ~Halved' /\ ~Asking'
    BY <1>5 DEF Halved, Asking, Command
  <2> QED
    BY <1>0, <1>11, <1>3, <1>5, <2>1, DataSent
<1>6. CASE At(3) \/ At(4)
  <2>1. GetRequestType \in {"GET", "POST"}
    BY <1>0 DEF GetRequestType, TypeHttp, Suited
  <2>2. http'.next = 5
    <3>1. http' = [http EXCEPT !.next = 5, !.left = http.pieces]
      BY <1>6 DEF Request, At
    <3> QED
      BY <1>0, <3>1, HttpFields
  <2>3. \E socket : Command("DATA", socket, GetRequestType, 50)
    BY <1>6 DEF Request, At
  <2> QED
    BY <1>4, <1>6, <2>1, <2>2, <2>3 DEF RequestLines, At
<1>7. CASE At(5) \/ At(6)
  <2>1. \E n \in {6, 7} : \E k : Says_("path", 50, n, k)
    BY <1>7 DEF Request, At
  <2>2. \E n \in {6, 7} : \E k : Command("DATA", sockets[0], "path", 50) /\ http' = [http EXCEPT !.next = n, !.left = k]
    BY <2>1 DEF Says_
  <2>3. http'.next # 8 /\ Command("DATA", sockets[0], "path", 50)
    BY <1>0, <2>2, HttpFields
  <2> QED
    BY <1>4, <1>7, <2>3 DEF RequestLines, At
<1>8. CASE At(7)
  <2>1. Command("DATA", sockets[0], CreateHttpRequestHeader, HttpGetNextStep[1]) /\ http' = NoHeader
    BY <1>8 DEF Request, At
  <2>2. HttpGetNextStep[1] = IF SendsData THEN 100 ELSE 8
    BY DEF HttpGetNextStep
  <2>3. /\ CreateHttpRequestHeader \notin {"RETR", "TOP"}
        /\ SendsData => CreateHttpRequestHeader \in RequestLines
    BY <1>0, HeaderText
  <2>4. ~http'.headFound
    BY <1>0, <2>1, HttpFields
  <2>5. CASE SendsData
    <3>1. Command("DATA", sockets[0], CreateHttpRequestHeader, 100)
      BY <2>1, <2>2, <2>5
    <3>2. ~Halved' /\ ~Searching'
      BY <3>1 DEF Command, Halved, Searching, Awaiting
    <3> QED
      BY <1>0, <1>11, <1>3, <1>8, <2>3, <2>5, <3>1, <3>2, DataSent DEF At
  <2>6. CASE ~SendsData
    BY <1>5, <1>8, <2>1, <2>2, <2>3, <2>4, <2>6 DEF At
  <2> QED
    BY <2>5, <2>6
<1>9. CASE At(100)
  <2>1. CASE http.left > 1
    <3>1. Command("DATA", sockets[0], "text", 50) /\ http' = [http EXCEPT !.next = 100, !.left = http.left - 1]
      <4>1. http.left \in Nat
        BY <1>0, StepsTyped
      <4> QED
        BY <1>9, <2>1, <4>1 DEF Request, At, Says_
    <3>2. http'.next # 8
      BY <1>0, <3>1, HttpFields
    <3> QED
      BY <1>4, <1>9, <3>1, <3>2 DEF RequestLines, At
  <2>2. CASE ~(http.left > 1)
    <3>1. Command("DATA", sockets[0], "end", 50) /\ http' = [NoHeader EXCEPT !.next = 8]
      BY <1>9, <2>2 DEF Request, At
    <3>2. http'.next = 8 /\ ~http'.headFound
      BY <1>0, <3>1, HttpFields
    <3> QED
      BY <1>5, <1>9, <3>1, <3>2 DEF At
  <2> QED
    BY <2>1, <2>2
<1> QED
  BY <1>2, <1>6, <1>7, <1>8, <1>9 DEF Request

\* Step 8.
LEMMA HeaderBodies ==
  ASSUME TaskInv, BodyInv, task = HttpTask, ~busy, Header, UNCHANGED <<recv, bufferEmpty, adapter>>
  PROVE  /\ OutThen' /\ Owing' /\ (recv'.wanted => Counted')
         /\ http'.missed \in Nat /\ http.missed <= http'.missed
<1>0. /\ TypeHttp /\ sent \in Nat /\ UNCHANGED <<sent, due, recv, bufferEmpty>>
      /\ Owing /\ (recv.wanted => Counted) /\ taskStep = 8 /\ Awaiting /\ ~bufferEmpty
      /\ recvChunk.bytes \in Seq(Nat)
  <2>1. taskStep = 8
    BY DEF Header, At
  <2> QED
    BY <2>1 DEF TaskInv, IInv, TypeOK, TypeAdapter, BodyInv, PageInv, adapter, Awaiting, Running, TypeRun
<1>1. Taken' = Taken /\ (recv'.wanted <=> recv.wanted) /\ Taken \in Nat /\ http.missed \in Nat
  BY <1>0, StepsTyped DEF Taken, TaskInv, IInv, TypeOK, TypeRecv
<1>11. recv.wanted => Coming
  BY <1>0 DEF Counted
<1> DEFINE Goal == /\ OutThen' /\ Owing' /\ (recv'.wanted => Counted')
                   /\ http'.missed \in Nat /\ http.missed <= http'.missed
\* The task goes on with what is left of the reply.
<1>12. ASSUME taskStep' = 8, ~busy', http'.headEnd, recv.wanted => Coming',
              http'.missed \in Nat, http.missed <= http'.missed
       PROVE  Goal
  <2>1. ~Asking' /\ ~Searching' /\ ~Halved' /\ ~Paging'
    BY <1>12 DEF Asking, Searching, Halved, Paging, Awaiting
  <2> QED
    BY <1>1, <1>12, <2>1 DEF OutThen, Owing, Counted
\* Or asks for more.
<1>13. ASSUME Command("DATA", sockets[0], "empty", 8), recv.wanted => Got' = sent,
              Searching' => due \in {"nothing", "reply", "page"}, Halved' => due \in {"nothing", "rest"},
              http'.missed \in Nat, http.missed <= http'.missed
       PROVE  Goal
  <2>1. ~Asking'
    BY <1>13 DEF Asking, Command
  <2>2. recv'.wanted => Got' = sent
    BY <1>1, <1>13
  <2> QED
    BY <1>0, <1>13, <2>1, <2>2, DataSent
<1>2. ASSUME taskStep' = 240, ~busy', UNCHANGED http PROVE Goal
  <2>1. ~Asking' /\ ~Awaiting' /\ ~Searching' /\ ~Halved' /\ ~Paging'
    BY <1>2 DEF Asking, Searching, Halved, Paging, Awaiting
  <2> QED
    BY <1>1, <1>2, <2>1 DEF OutThen, Owing, Counted
<1>3. CASE http.headEnd
  <2>1. CASE Goes(240) /\ UNCHANGED http
    BY <1>2, <2>1 DEF Goes, bios
  <2>2. CASE Goes(HttpGetNextStep[2]) /\ http' = [http EXCEPT !.step = @ + 1]
    <3>1. UNCHANGED <<busy, recvChunk>> /\ taskStep' = HttpGetNextStep[2]
      BY <2>2 DEF Goes, bios
    <3>2. http'.auth = http.auth /\ http'.missed = http.missed
      BY <1>0, <2>2 DEF TypeHttp
    <3>3. taskStep' = 110 \/ (taskStep' = 255 /\ http'.auth \in Centre)
      BY <3>1, <3>2 DEF HttpGetNextStep
    <3>4. ~Asking' /\ ~Awaiting' /\ ~Searching' /\ ~Halved' /\ taskStep' \notin 0..3
      BY <3>3 DEF Asking, Searching, Halved, Awaiting
    <3>5. recv.wanted => Coming'
      BY <1>0, <1>1, <1>11, <3>1, <3>2 DEF Coming, ComingAfter
    <3> QED
      BY <1>0, <1>1, <3>1, <3>2, <3>3, <3>4, <3>5 DEF OutThen, Owing, Counted
  <2> QED
    BY <1>3, <2>1, <2>2 DEF Header
<1>4. CASE ~http.headEnd /\ Goes(240) /\ UNCHANGED http
  BY <1>2, <1>4 DEF Goes, bios
\* Nothing but a part of a line has come.
<1>5. CASE /\ ~http.headEnd /\ recvChunk.line \notin Headers /\ recvChunk.bytes = <<>>
           /\ Command("DATA", sockets[0], "empty", 8) /\ UNCHANGED http
  <2>1. Searching => due \in {"nothing", "reply", "page"}
    BY <1>0, <1>5 DEF Owing
  <2>2. Halved => due \in {"nothing", "rest"}
    BY <1>0 DEF Owing
  <2>3. taskStep' = 8
    BY <1>5 DEF Command
  <2>4. (Searching' <=> Searching) /\ (Halved' <=> Halved)
    BY <1>0, <1>5, <2>3 DEF Searching, Halved, Awaiting
  <2>5. recv.wanted => Got' = sent
    <3>1. recv.wanted => Taken + http.missed + 0 = sent
      BY <1>5, <1>11 DEF Coming, ComingAfter
    <3> QED
      BY <1>1, <1>5, <3>1 DEF Got
  <2> QED
    BY <1>1, <1>5, <1>13, <2>1, <2>2, <2>4, <2>5
\* A header.
<1>6. CASE ~http.headEnd /\ HeaderRead
  <2>1. Searching /\ recvChunk.line \in Headers
    BY <1>0, <1>6 DEF HeaderRead, Owing, Searching, Halved, Headers
  <2>2. due \in {"nothing", "rest"} /\ (recvChunk.line = "split" => recvChunk.bytes = <<>>)
    BY <1>0, <2>1 DEF Owing
  <2>3. /\ http'.headFound /\ (http'.headEnd <=> recvChunk.line # "split")
        /\ http'.missed = http.missed /\ AfterReply(recvChunk.bytes)
    <3>1. PICK status :
            /\ http' = [http EXCEPT !.headFound = TRUE, !.headEnd = recvChunk.line # "split",
                                    !.headError = WrongStatus(status), !.err101 = @ \/ status = "101"]
            /\ AfterReply(recvChunk.bytes)
      BY <1>6, Zenon DEF HeaderRead
    <3> QED
      BY <1>0, <3>1, Zenon DEF TypeHttp
  <2>4. CASE http'.headEnd /\ recvChunk.bytes # <<>>
    <3>1. recvChunk' = [line |-> "none", bytes |-> recvChunk.bytes] /\ UNCHANGED <<api, busy>>
      BY <2>3, <2>4, Zenon DEF AfterReply
    <3>2. taskStep' = 8 /\ ~busy'
      BY <1>0, <3>1 DEF api
    <3>3. recv.wanted => Coming'
      BY <1>0, <1>1, <1>11, <2>3, <3>1 DEF Coming, ComingAfter
    <3> QED
      BY <1>1, <1>12, <2>3, <2>4, <3>2, <3>3
  <2>5. CASE ~(http'.headEnd /\ recvChunk.bytes # <<>>)
    <3>1. Command("DATA", sockets[0], "empty", 8) /\ recvChunk.bytes = <<>>
      BY <2>2, <2>3, <2>5 DEF AfterReply
    <3>2. ~Searching'
      BY <2>3 DEF Searching
    <3>3. recv.wanted => Got' = sent
      <4>1. recv.wanted => Taken + http.missed + 0 = sent
        BY <3>1, <1>11 DEF Coming, ComingAfter
      <4> QED
        BY <1>1, <2>3, <4>1 DEF Got
    <3> QED
      BY <1>1, <1>13, <2>2, <2>3, <3>1, <3>2, <3>3
  <2> QED
    BY <2>4, <2>5
\* The page, taken for lines of the header.
<1>7. CASE ~http.headEnd /\ PageTakenForHeader
  <2>1. Halved
    BY <1>0, <1>7 DEF PageTakenForHeader, Owing, Searching, Halved
  <2>2. due \in {"nothing", "rest"} /\ http.headFound
    BY <1>0, <2>1 DEF Owing, Halved
  <2>3. PICK bytes \in Seq(Nat) : bytes = recvChunk.bytes
    BY <1>0
  <2>4. PICK n \in 1 .. Len(bytes), end \in BOOLEAN, read \in {"none", "wrong", "101"} :
          /\ ~end => n = Len(bytes)
          /\ http' = [http EXCEPT !.headEnd = end, !.headError = @ \/ read = "wrong",
                                  !.err101 = @ \/ read = "101", !.missed = @ + n]
          /\ AfterReply(SubSeq(bytes, n + 1, Len(bytes)))
    BY <1>7, <2>3, Zenon DEF PageTakenForHeader
  <2> DEFINE rest == SubSeq(bytes, n + 1, Len(bytes))
  <2>5. http'.headFound /\ (http'.headEnd <=> end) /\ http'.missed = http.missed + n
    BY <1>0, <2>2, <2>4, Zenon DEF TypeHttp
  <2>6. /\ rest \in Seq(Nat) /\ Len(rest) = Len(bytes) - n
        /\ \A i \in 1 .. Len(bytes) - n : rest[i] = bytes[n + i]
    OBVIOUS
  <2>7. recv.wanted => /\ Taken + http.missed + Len(bytes) = sent
                       /\ \A i \in 1 .. Len(bytes) : bytes[i] = Taken + http.missed + i
    BY <1>11, <2>3 DEF Coming, ComingAfter, Follow
  <2>8. http'.missed \in Nat /\ http.missed <= http'.missed
    BY <1>1, <2>5
  <2>9. CASE http'.headEnd /\ rest # <<>>
    <3>1. recvChunk' = [line |-> "none", bytes |-> rest] /\ UNCHANGED <<api, busy>>
      BY <2>4, <2>9, Zenon DEF AfterReply
    <3>2. taskStep' = 8 /\ ~busy'
      BY <1>0, <3>1 DEF api
    <3>3. recv.wanted => Coming'
      <4>1. ASSUME recv.wanted, NEW i \in 1 .. Len(rest) PROVE rest[i] = Taken + (http.missed + n) + i
        <5>1. n + i \in 1 .. Len(bytes) /\ rest[i] = bytes[n + i]
          BY <2>6
        <5> QED
          BY <1>1, <2>7, <4>1, <5>1
      <4>2. ASSUME recv.wanted PROVE Taken + (http.missed + n) + Len(rest) = sent
        BY <1>1, <2>6, <2>7, <4>2
      <4>3. recvChunk'.bytes = rest /\ sent' = sent
        BY <1>0, <3>1
      <4> HIDE DEF rest
      <4> QED
        BY <1>1, <2>5, <4>1, <4>2, <4>3 DEF Coming, ComingAfter, Follow
    <3> QED
      BY <1>12, <2>8, <2>9, <3>2, <3>3
  <2>10. CASE ~(http'.headEnd /\ rest # <<>>)
    <3>1. Command("DATA", sockets[0], "empty", 8)
      BY <2>4, <2>10, Zenon DEF AfterReply
    <3>2. n = Len(bytes)
      BY <2>4, <2>5, <2>6, <2>10
    <3>3. ~Searching'
      BY <2>5 DEF Searching
    <3>4. recv.wanted => Got' = sent
      BY <1>1, <2>5, <2>7, <3>2 DEF Got
    <3> QED
      BY <1>13, <2>2, <2>8, <3>1, <3>3, <3>4
  <2> QED
    BY <2>9, <2>10
<1> QED
  BY <1>3, <1>4, <1>5, <1>6, <1>7 DEF Header

\* Step 110.
LEMMA PageBodies ==
  ASSUME TaskInv, BodyInv, task = HttpTask, ~busy, Page, UNCHANGED adapter
  PROVE  PageInv' /\ WaitInv'
<1>0. /\ sent \in Nat /\ Taken \in Nat /\ http.missed \in Nat /\ UNCHANGED <<sent, due, http>> /\ ~full
      /\ taskStep = 110 /\ Paging /\ ~bufferEmpty' /\ Buffers /\ recvChunk.bytes \in Seq(Nat)
      /\ recv.wanted => Counted /\ Body /\ recv.at = recv.size
  BY StepsTyped
     DEF TaskInv, IInv, TypeOK, TypeAdapter, TypeRecv, Taken, BodyInv, PageInv, adapter, Page, At, Paging,
         HttpProgress, Running, TypeRun, Buffers
<1> DEFINE Further == \/ /\ full' = FALSE /\ taskStep' = HttpGetNextStep[3]
                         /\ UNCHANGED <<task, param, cutCmd, error, tcpClosed, smtpSender, bios>>
                      \/ Command("DATA", sockets[0], "empty", 110)
           Goal == PageInv' /\ WaitInv'
<1>1. ASSUME Further, recv'.wanted => Body' /\ recv'.at = recv'.size /\ Got' = sent PROVE Goal
  <2>1. ~full' /\ task' = HttpTask
    BY <1>0, <1>1 DEF Command
  <2>2. ASSUME taskStep' = HttpGetNextStep[3], UNCHANGED bios
        PROVE  OutThen' /\ Owing' /\ (recv'.wanted => Counted')
    <3>1. taskStep' \in {2, 255} /\ ~busy'
      BY <2>2 DEF HttpGetNextStep, bios
    <3>2. ~Asking' /\ ~Awaiting' /\ ~Searching' /\ ~Halved' /\ ~Paging'
      BY <3>1 DEF Asking, Searching, Halved, Paging, Awaiting
    <3> QED
      BY <1>0, <1>1, <3>1, <3>2 DEF OutThen, Owing, Counted
  <2>3. ASSUME Command("DATA", sockets[0], "empty", 110)
        PROVE  OutThen' /\ Owing' /\ (recv'.wanted => Counted')
    <3>1. ~Asking' /\ ~Searching' /\ ~Halved'
      BY <2>3 DEF Command, Asking, Searching, Halved, Awaiting
    <3> QED
      BY <1>0, <1>1, <2>3, <3>1, DataSent
  <2> QED
    BY <1>0, <1>1, <2>1, <2>2, <2>3 DEF PageInv, WaitInv
<1> DEFINE new == ~bufferEmpty /\ recv.wanted /\ recvChunk.bytes # <<>>
<1>2. CASE ~new /\ Further /\ UNCHANGED recv
  <2>1. recv.wanted => Got = sent
    BY <1>0, <1>2 DEF Counted, Coming, ComingAfter, Got
  <2>2. recv'.wanted => Body' /\ recv'.at = recv'.size /\ Got' = sent
    BY <1>0, <1>2, <2>1 DEF Body, Holds, Got, Taken
  <2> QED
    BY <1>1, <1>2, <2>2
<1>11. PICK m \in Nat : m = http.missed /\ m = http'.missed
  BY <1>0
<1>3. new => recv.wanted /\ Holds(0, m) /\ recv.at = recv.size /\ ComingAfter(m, recvChunk.bytes)
  BY <1>0, <1>11 DEF Counted, Body, Coming
<1>4. CASE new /\ Store(recvChunk.bytes) /\ Further
  <2>0. 0 \in Nat /\ 0 <= m
    OBVIOUS
  <2>1. Holds(0, m)' /\ recv'.at = recv'.size /\ Taken' + m = sent
    BY <1>0, <1>3, <1>4, <2>0, StoredBodies DEF Buffers
  <2>2. Body' /\ Got' = sent
    BY <1>11, <2>1 DEF Body, Holds, Got
  <2> QED
    BY <1>1, <1>4, <2>1, <2>2
<1>5. CASE new /\ ~Fits(recvChunk.bytes) /\ Overflow(recvChunk)
  <2>1. /\ Holds(0, m)' /\ recv'.wanted
        /\ Taken' + m + Len(prevBuf'.rest) = sent' /\ Follow(prevBuf'.rest, Taken' + m)
    BY <1>0, <1>3, <1>5, FilledBodies
  <2>2. Body' /\ ComingAfter(http.missed, prevBuf.rest)'
    BY <1>11, <2>1 DEF Body, Holds, ComingAfter
  <2>3. task' = "NONE"
    BY <1>5 DEF Overflow, KeepRest
  <2> QED
    BY <2>1, <2>2, <2>3 DEF PageInv, WaitInv, Idle
<1>6. \/ ~new /\ Further /\ UNCHANGED recv
      \/ new /\ Store(recvChunk.bytes) /\ Further
      \/ new /\ ~Fits(recvChunk.bytes) /\ Overflow(recvChunk)
  BY Zenon DEF Page
<1> QED
  BY <1>2, <1>4, <1>5, <1>6

\* Steps 0 to 2, 240, 241 and 255.
LEMMA PlainBodies ==
  ASSUME TaskInv, BodyInv, MATASK_HTTP_GetPost, UNCHANGED <<recv, bufferEmpty>>,
         \/ PageEnds
         \/ /\ UNCHANGED http
            /\ \/ HttpTrouble \/ (At(0) /\ Command("DNS_REQUEST", 0, "empty", 1))
               \/ ((At(1) \/ At(2)) /\ Command("TCP_CONNECT", 0, "HTTP", 3))
  PROVE  PageInv' /\ WaitInv'
<1>0. task = HttpTask /\ ~full /\ ~busy /\ UNCHANGED adapter /\ PageInv
  BY DEF MATASK_HTTP_GetPost, Runs, TaskInv, IInv, HttpProgress, BodyInv
<1>1. CASE task' = "NONE" /\ ~full'
  BY <1>1 DEF PageInv, WaitInv
<1>2. ASSUME NEW cmd, NEW text, NEW step \in {1, 3, 241}, (\E socket : Command(cmd, socket, text, step)),
             UNCHANGED http, step = 1 => cmd = "DNS_REQUEST" /\ taskStep \in 0..2,
             step = 3 => cmd = "TCP_CONNECT" /\ text = "HTTP" /\ taskStep \in 0..2,
             step = 241 => cmd = "TCP_DISCONNECT"
      PROVE  PageInv' /\ WaitInv'
  <2>1. /\ taskStep' = step /\ sendCmd' = cmd /\ sendText' = text /\ recvCmd' = None
        /\ task' = HttpTask /\ ~full'
    BY <1>0, <1>2 DEF Command, Send
  <2>2. ~Asking' /\ ~Awaiting' /\ ~Searching' /\ ~Halved' /\ ~Paging'
    BY <1>2, <2>1 DEF Asking, Searching, Halved, Paging, Awaiting
  <2>3. OutThen' /\ Owing' /\ WaitInv'
    BY <1>2, <2>1, <2>2 DEF OutThen, Owing, WaitInv
  <2>4. step # 241 => ~bufferEmpty
    BY <1>0, <1>2 DEF PageInv
  <2>5. recv'.wanted => Counted' /\ Body' /\ recv'.at = recv'.size
    <3>1. Body' = Body /\ Got' = Got /\ sent' = sent
      BY <1>0, <1>2 DEF Body, Holds, Got, Taken, adapter
    <3>2. step # 241 /\ recv.wanted => Got = sent
      BY <1>0, <1>2 DEF PageInv, Counted
    <3> QED
      BY <1>0, <1>2, <2>1, <2>2, <3>1, <3>2 DEF Counted, PageInv
  <2> QED
    BY <1>2, <2>1, <2>3, <2>4, <2>5 DEF PageInv
<1>3. CASE HttpTrouble /\ UNCHANGED http
  <2>1. TaskFails => task' = "NONE" /\ ~full'
    BY Zenon DEF TaskFails, SetApiError
  <2>2. Command("TCP_DISCONNECT", sockets[0], "empty", 241) \/ TaskFails
    BY <1>3 DEF HttpTrouble
  <2> QED
    BY <1>1, <1>2, <1>3, <2>1, <2>2
<1>4. CASE PageEnds
  <2>1. TaskFails => task' = "NONE" /\ ~full'
    BY Zenon DEF TaskFails, SetApiError
  <2> QED
    BY <1>0, <1>1, <1>4, <2>1 DEF PageEnds, TaskEnds, TaskDone
<1>5. CASE At(0) /\ Command("DNS_REQUEST", 0, "empty", 1) /\ UNCHANGED http
  BY <1>2, <1>5 DEF At
<1>6. CASE (At(1) \/ At(2)) /\ Command("TCP_CONNECT", 0, "HTTP", 3) /\ UNCHANGED http
  BY <1>2, <1>6 DEF At
<1> QED
  BY <1>3, <1>4, <1>5, <1>6

\* What a buffer holds stays right when more is missed.
LEMMA MissedMore ==
  ASSUME TypeRecv, Body, recv' = recv, http.missed \in Nat, http'.missed \in Nat, http.missed <= http'.missed
  PROVE  Body'
<1>1. recv.size \in Nat /\ recv.taken \in Nat
  BY DEF TypeRecv
<1>2. ASSUME NEW i \in 1 .. recv.size
      PROVE  recv.cells[i] \in recv.taken + i + 0 .. recv.taken + i + http'.missed
  <2>1. recv.cells[i] \in recv.taken + i + 0 .. recv.taken + i + http.missed
    BY DEF Body, Holds
  <2> QED
    BY <1>1, <2>1
<1> QED
  BY <1>2 DEF Body, Holds

LEMMA HttpTaskBodies ==
  ASSUME TaskInv, BodyInv, MATASK_HTTP_GetPost
  PROVE  PageInv' /\ WaitInv'
<1>1. task = HttpTask /\ ~full /\ ~busy /\ UNCHANGED adapter /\ PageInv
  BY DEF MATASK_HTTP_GetPost, Runs, TaskInv, IInv, HttpProgress, BodyInv
<1>2. CASE /\ Request \/ Header
           /\ UNCHANGED <<recv, bufferEmpty>> /\ ~Nega({"DATA", "TCP_CONNECT", "DNS_REQUEST"})
  <2>1. /\ OutThen' /\ Owing' /\ (recv'.wanted => Counted')
        /\ http.missed \in Nat /\ http'.missed \in Nat /\ http.missed <= http'.missed
    <3>1. http.missed \in Nat
      BY StepsTyped DEF TaskInv, IInv, TypeOK
    <3> QED
      BY <1>1, <1>2, <3>1, RequestBodies, HeaderBodies
  <2>2. task' = HttpTask /\ ~full'
    <3>1. Request => task' = task /\ full' = full
      BY DEF Request, Command, Goes, flags, Says_
    <3>2. Header => task' = task /\ full' = full
      BY DEF Header, HeaderRead, PageTakenForHeader, AfterReply, Command, Goes, flags, api
    <3> QED
      BY <1>1, <1>2, <3>1, <3>2
  <2>3. recv' = recv /\ (recv.wanted => Body /\ recv.at = recv.size) /\ ~bufferEmpty'
    <3>1. taskStep \in 3..8 \cup {50, 100}
      BY <1>2 DEF Request, Header, At
    <3> QED
      BY <1>1, <1>2, <3>1 DEF PageInv
  <2>4. recv'.wanted => Body'
    BY <1>1, <2>1, <2>3, MissedMore DEF TaskInv, IInv, TypeOK
  <2> QED
    BY <2>1, <2>2, <2>3, <2>4 DEF PageInv, WaitInv
<1>3. CASE Page
  BY <1>1, <1>3, PageBodies
<1>4. CASE /\ UNCHANGED <<recv, bufferEmpty>>
           /\ \/ PageEnds
              \/ /\ UNCHANGED http
                 /\ \/ HttpTrouble \/ (At(0) /\ Command("DNS_REQUEST", 0, "empty", 1))
                    \/ ((At(1) \/ At(2)) /\ Command("TCP_CONNECT", 0, "HTTP", 3))
  BY <1>4, PlainBodies
<1> QED
  BY <1>2, <1>3, <1>4, Zenon DEF MATASK_HTTP_GetPost

\* No task turns its own mode into that of a page.
LEMMA HttpModeKept == MAAPI_Main => connMode' = connMode \/ connMode' # "HTTP"
<1> USE DEF Same
<1>1. SocketTasks => connMode' = connMode \/ connMode' # "HTTP"
  BY DEF SocketTasks, MATASK_TCP_Connect, MATASK_TCP_Disconnect, MATASK_TCP_SendRecv,
         MATASK_GetHostAddress, MATASK_Offline, MATASK_TCP_Cut
<1>2. ASSUME NEW t, MailTrouble(t) PROVE connMode' = connMode \/ connMode' # "HTTP"
  BY <1>2 DEF MailTrouble, MailClosed, MailGivenUp, MailFails
<1>3. MailTasksStep => connMode' = connMode \/ connMode' # "HTTP"
  BY <1>2 DEF MailTasksStep, MATASK_SMTP_Connect, MATASK_SMTP_Sender, MATASK_SMTP_Send,
     MATASK_SMTP_POP3_Quit, MATASK_POP3_Connect, MATASK_POP3_Stat, MATASK_POP3_List,
     MATASK_POP3_Dele, MATASK_POP3_Retr, Asks, Opens, Opened, Reads, Ends, QuitSteps
<1>4. MATASK_HTTP_GetPost => connMode' = connMode \/ connMode' # "HTTP"
  BY DEF MATASK_HTTP_GetPost, HttpTrouble, PageEnds
<1>5. MATASK_TelServer \/ MATASK_GetEEPROMData \/ MATASK_EEPROM_Read \/ MATASK_EEPROM_Write
        => connMode' = connMode \/ connMode' # "HTTP"
  BY DEF MATASK_TelServer, MATASK_GetEEPROMData, MATASK_EEPROM_Read, MATASK_EEPROM_Write, SettingsTask,
         Opening, Aborts, Closing, Ask, Rejected, FirstPart, SecondPart
<1> QED
  BY <1>1, <1>3, <1>4, <1>5 DEF MAAPI_Main

LEMMA OtherTasksBodies ==
  ASSUME TaskInv, BodyInv, MAAPI_Main, ~MATASK_HTTP_GetPost
  PROVE  PageInv' /\ WaitInv'
<1>1. task # "NONE" /\ task # HttpTask
  BY MainRuns, TasksOf DEF MAAPI_Main, MailTasks, TcpTasks, SettingsTasks
<1>2. task' # HttpTask
  <2>1. ASSUME NEW chunk, Overflow(chunk) PROVE task' = "NONE"
    BY <2>1 DEF Overflow, KeepRest
  <2> QED
    BY <1>1, <2>1, TasksMove, PlainEffects DEF TaskMoves
<1>3. ~(full' /\ connMode' = "HTTP")
  <2>1. (full' => full) \/ (task = "POP3_RETR" /\ connMode' = connMode)
    BY <1>1, TasksStore DEF Spared, Grown, Stored, Filled, TaskInv, IInv
  <2>2. task = "POP3_RETR" => connMode = "POP3"
    BY DEF TaskInv, IInv, HttpProgress
  <2>3. ~(full /\ connMode = "HTTP")
    BY <1>1 DEF BodyInv, WaitInv, Idle
  <2> QED
    BY <2>1, <2>2, <2>3, HttpModeKept
<1> QED
  BY <1>2, <1>3 DEF PageInv, WaitInv

----------------------------------------------------------------------------

LEMMA BodyInvKept == TaskInv /\ BodyInv /\ [Next]_vars => BodyInv'
<1> SUFFICES ASSUME TaskInv, BodyInv, [Next]_vars PROVE BodyInv'
  OBVIOUS
<1>1. Out'
  BY OutKept DEF BodyInv
<1>2. CASE Game
  BY <1>1, <1>2, CallsKeepBodies DEF BodyInv
<1>3. CASE MAAPI_Main
  BY <1>1, <1>3, HttpTaskBodies, OtherTasksBodies DEF BodyInv
<1>4. CASE Answer \/ ServerCloses \/ UNCHANGED vars
  BY <1>1, <1>4, AnswersKeepBodies DEF BodyInv
<1>5. CASE Leaves
  BY <1>1, <1>5 DEF Leaves, SessionEnds, BodyInv, PageInv, WaitInv
<1> QED
  BY <1>2, <1>3, <1>4, <1>5 DEF Next

LEMMA BodiesInit == Init => BodyInv
BY DEF Init, SocketsInit, BodyInv, Out, PageInv, WaitInv

\* While a page is got, by however many requests and connections, the buffers
\* the game gives hold its bytes in their order and none twice: what does not fit
\* is the beginning of the next buffer.  Those that are missing, before a byte or
\* at the end of the page, are no more than have been taken for lines of a
\* header (http.missed), which only happens when a reply is cut before the empty
\* line of its header.  At the end of a page the game has got every other byte the
\* servers have said, unless it has given no buffer for the rest, or the last
\* answer is the centre's to an upload, a download or a ranking, whose page is
\* not read.  Nothing is assumed of the sizes of the buffers, of the page or of
\* the DATA replies.
THEOREM SessionsHttpBodyInOrder == Spec => []HttpBodyInOrder
<1>1. TaskInv /\ BodyInv => HttpBodyInOrder
  <2> SUFFICES ASSUME TaskInv, BodyInv PROVE HttpBodyInOrder
    OBVIOUS
  <2>1. ASSUME Body PROVE
          /\ recv.size <= Len(recv.cells)
          /\ \A i \in 1 .. recv.size :
               recv.cells[i] \in recv.taken + i .. recv.taken + i + http.missed
          /\ \A i, j \in 1 .. recv.size : i < j => recv.cells[i] < recv.cells[j]
    <3>1. recv.size \in Nat /\ recv.taken \in Nat
      BY DEF TaskInv, IInv, TypeOK, TypeRecv
    <3>2. \A i \in 1 .. recv.size : recv.taken + i + 0 = recv.taken + i
      BY <3>1
    <3> QED
      BY <2>1, <3>2 DEF Body, Holds
  <2> QED
    BY <2>1 DEF BodyInv, PageInv, WaitInv, Counted, Got, HttpBodyInOrder
<1> QED
  BY <1>1, BodiesInit, BodyInvKept, TaskInvAlways, PTL DEF Spec

=============================================================================
