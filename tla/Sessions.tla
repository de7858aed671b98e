-------------------------------- MODULE Sessions --------------------------------
(***************************************************************************)
(* A game that dials in, opens connections of its own, sends and gets mail *)
(* and pages, and reads and writes its settings: the calls and tasks of    *)
(* Sockets, Mail, Http and Settings together, with the adapter and the     *)
(* servers they talk to.                                                   *)
(***************************************************************************)
EXTENDS Settings

vars == <<socketVars, recv, bufferEmpty, mailVars, http, eeprom>>

Init == SocketsInit /\ ReceiveInit /\ MailInit /\ HttpInit /\ SettingsInit

\* MA_Offline and MA_TCP_Cut as a game calls them: not in the middle of a
\* letter, whose next line the server would take "QUIT" for, and not while it
\* has a full buffer to take.
GoesOffline == (connMode = "SMTP" => letter # "begun") /\ Reading /\ MA_Offline

Game ==
  \/ /\ SocketCalls \/ GoesOffline \/ MA_TCP_Cut
     /\ NotReceiving /\ NotMailing /\ http' = NoPage /\ UNCHANGED eeprom
  \/ (MA_ApiPreExe \/ MAAPI_ErrorCheck) /\ UNCHANGED <<recv, bufferEmpty, mailVars, http, eeprom>>
  \/ MailCalls /\ http' = NoPage /\ UNCHANGED eeprom
  \/ MA_HTTP_GetPost /\ UNCHANGED eeprom
  \/ MA_TelServer \/ MA_GetEEPROMData \/ MA_EEPROMRead \/ MA_EEPROMWrite

\* The task that runs, from the timer.
MAAPI_Main ==
  \/ SocketTasks /\ UNCHANGED <<recv, bufferEmpty, mailVars, http, eeprom>>
  \/ MailTasksStep /\ UNCHANGED <<http, eeprom>>
  \/ MATASK_HTTP_GetPost /\ UNCHANGED eeprom
  \/ MATASK_TelServer \/ MATASK_GetEEPROMData \/ MATASK_EEPROM_Read \/ MATASK_EEPROM_Write

\* An answer from the adapter.
Answer ==
  \/ MA_ProcessRecvPacket /\ UNCHANGED <<recv, bufferEmpty, mailVars, http, eeprom>>
  \/ SettingsAnswers

\* An HTTP server closes the connection it has answered on.
ServerCloses ==
  /\ \E id \in Ids \ Used : peer[id] = "http_answer" /\ peer' = [peer EXCEPT ![id] = Closed]
  /\ UNCHANGED <<online, due, sent, answered, table, connMode, api, flags, bios, prevBuf, held,
                 recv, bufferEmpty, mailVars, http, eeprom>>

Leaves == SessionEnds /\ UNCHANGED <<recv, bufferEmpty, mailVars, http, eeprom>>

Next == Game \/ MAAPI_Main \/ Answer \/ ServerCloses \/ Leaves

Spec == Init /\ [][Next]_vars

\* The timer keeps running the api, and a command is answered sooner or later:
\* where the adapter is silent the bios gives up (LibMa), and SessionEnds.
FairSpec == Spec /\ WF_vars(MAAPI_Main) /\ WF_vars(Answer)

----------------------------------------------------------------------------

SettingsTasks == {"TELSERVER", "GETEEPROMDATA", "EEPROM_READ", "EEPROM_WRITE"}
AllTasks ==
  TcpTasks \cup MailTasks \cup SettingsTasks \cup {"NONE", "OFFLINE", "TCP_CUT", HttpTask}
AllCommands ==
  Commands \cup {"START", "CHANGE_CLOCK", "CHECK_STATUS", "TEL", "PPP_CONNECT",
                 "EEPROM_READ", "EEPROM_WRITE"}
ChunkLines == {"none", "part", "cut", "good", "bad"} \cup Headers

\* What the server of a connection may be waiting for, and what may be due; the
\* steps of MATASK_HTTP_GetPost before a page.
Waits ==
  {Closed, "own", "confused", "bye", "smtp", "smtp_ready", "smtp_from", "smtp_to", "smtp_text",
   "pop3", "pop3_user", "pop3_ready", "http", "http_get", "http_post", "http_content",
   "http_answer"}
RequestSteps == 0..8 \cup {50, 100}
Dues == {"nothing", "reply", "mail", "body", "page", "rest"}

TypeFlags ==
  {error, tcpClosed, full, smtpSender, busy, online, bufferEmpty, respFound} \subseteq BOOLEAN

TypeRun ==
  /\ task \in AllTasks /\ taskStep \in 0..255 /\ param \in Numbers \cup Versions
  /\ cutCmd \in AllCommands \cup {None} /\ sendCmd \in AllCommands \cup {None}
  /\ recvCmd \in AllCommands \cup {None, "ERROR", "DATA_END"}
  /\ sendSocket \in Numbers \cup {1} /\ recvData \in Numbers \cup Versions \cup {NoLine}
  /\ recvChunk \in [line : ChunkLines, bytes : Seq(Nat)]
  /\ tcpConnectRetryCount \in 0..5

TypeList ==
  /\ usedSockets \in [Slots -> BOOLEAN] /\ sockets \in [Slots -> Numbers] /\ held \subseteq Ids
  /\ connMode \in {"OFFLINE", "PPP", "SMTP", "POP3", "HTTP"}

TypeAdapter ==
  /\ peer \in [Ids -> Waits] /\ due \in Dues /\ sent \in Nat /\ answered \in 0..3
  /\ eeprom \in [{0, 1} -> {0} \cup Versions]

TypePrevBuf ==
  prevBuf \in [line : ChunkLines, rest : Seq(Nat), first : {0} \cup Versions,
              second : {0} \cup Versions, hasEEPROMData : BOOLEAN]

TypeRecv ==
  /\ recv \in [cells : Seq(Nat), given : Nat, at : Nat, room : Nat, size : Nat,
               wanted : BOOLEAN, taken : Nat]
  /\ recv.room <= recv.given

TypeMail ==
  /\ mail \in [left : 0..2, last : BOOLEAN, next : 0..255, text : {"empty", "RETR", "TOP"},
            missed : Nat]
  /\ letter \in {"none", "addressed", "begun"}
  /\ endLineBuf \in Seq(Nat) /\ Len(endLineBuf) = 5

TypeHttp ==
  http \in [method : DOMAIN Suited, auth : Suited["GET"] \cup Suited["POST"], step : 0..3,
           headEnd : BOOLEAN, headError : BOOLEAN, headFound : BOOLEAN, err101 : BOOLEAN,
           pieces : Nat, left : Nat, next : {0, 5, 6, 7, 8, 100}, missed : Nat]

TypeOK ==
  /\ TypeFlags /\ TypeRun /\ TypeList /\ TypeAdapter
  /\ TypePrevBuf /\ TypeRecv /\ TypeMail /\ TypeHttp

\* When no call is running, every connection the adapter has open is in the
\* list: no way out of a transfer (an error at any step, the server closing
\* the connection, MA_TCP_Cut at any moment) leaves one behind that nobody can
\* close any more.  An HTTP server closes what it has answered on itself.
OpenIsListed == Idle => {id \in open : peer[id] # "http_answer"} \subseteq Used

\* And the list holds nothing else, so that its two slots do not fill up with
\* connections that are gone; of a page that waits for another buffer the server
\* may have closed the connection already.
ListedIsOpen == Idle /\ ~full => Used \subseteq open /\ MAU_Socket_GetNum = Cardinality(Used)

\* A socket the game has got and not given up is in the list, so that the next
\* call for it is not refused.
HeldIsListed == Idle => held \subseteq Used

\* A mail session the game may go on with is one the server is ready for: slot
\* 0 has its connection, and the answer to the last command has been read to
\* its end.
SessionMatches ==
  Idle /\ connMode \in {"SMTP", "POP3"} =>
    /\ usedSockets[0] /\ sockets[0] \in open
    /\ peer[sockets[0]] \in IF connMode = "POP3" THEN {"pop3_ready"}
                            ELSE {"smtp_ready", "smtp_to", "smtp_text"}
    /\ full \/ due = "nothing"

\* Nothing is said to a server but what its protocol expects then: no command
\* before the answer to the one before, no text of a letter before DATA.
Sequenced == \A id \in Ids : peer[id] # "confused"

\* While a page is got, the game's buffers hold its bytes in their order, none
\* twice, whatever the sizes of buffers and replies; a page that is over is there
\* to its last byte.  None is missing but those taken for lines of a header that
\* a reply cut before its empty line: after any other header, none.
HttpBodyInOrder ==
  task = HttpTask \/ (connMode = "HTTP" /\ full) =>
    /\ recv.wanted => /\ recv.size <= Len(recv.cells)
                      /\ \A i \in 1 .. recv.size :
                           recv.cells[i] \in recv.taken + i .. recv.taken + i + http.missed
                      /\ \A i, j \in 1 .. recv.size : i < j => recv.cells[i] < recv.cells[j]
    /\ recv.wanted /\ task = HttpTask /\ taskStep = 255 /\ http.auth \notin Centre
         => Taken + http.missed = sent

\* A mail that goes into one buffer is there to its last byte when the call is
\* over, and from its first: unless its reply line was cut between CR and LF, and
\* then from the line after the one that was taken for the rest of it.
MailInOrder ==
  task = "POP3_RETR" /\ taskStep = 100 /\ recv.wanted /\ recv.taken = 0 =>
    /\ recv.size = MailLen - mail.missed
    /\ recv.cells = [i \in 1 .. MailLen - mail.missed |-> mail.missed + i]

\* Nothing is written behind the game's buffer, and a call is left pending
\* only with something to go on with.
BufferKept ==
  /\ Len(recv.cells) <= recv.given
  /\ full => Idle /\ prevBuf.rest # <<>> /\ connMode \in {"POP3", "HTTP"}

\* The copy of the EEPROM that calls are answered from is a whole one.
CacheWhole ==
  prevBuf.hasEEPROMData \/ (task = "TELSERVER" /\ taskStep \in 6..9) =>
    prevBuf.first = prevBuf.second /\ EEPROMRegistrationCheck(prevBuf.first)

\* MAU_Socket_GetNum, "Get the number of sockets in use" (ma_sub.c:541): with
\* no call running, that is the number of connections that are open.
SocketsCounted == Idle => MAU_Socket_GetNum = Cardinality(open)

Transfers == TcpTasks \cup SettingsTasks \cup {"TCP_CUT"}

\* A TCP call, MA_TCP_Cut and the reading of settings end, whatever the adapter
\* answers: a refused TCP_CONNECT is not repeated for ever.
TransferEnds == task \in Transfers ~> task \notin Transfers

=============================================================================
