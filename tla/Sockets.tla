-------------------------------- MODULE Sockets --------------------------------
(***************************************************************************)
(* The connections of a provider session: the socket list of ma_sub.c, the *)
(* TCP calls of ma_api.c, MA_TCP_Cut, MA_Offline, and the parts that the   *)
(* mail and HTTP tasks share with them.  Those tasks put the socket of     *)
(* their connection into slot 0.                                           *)
(*                                                                         *)
(* The serial exchange of one command is LibMa's subject.  Here a command  *)
(* is sent in one step and answered in another, and the adapter keeps the  *)
(* connections it has open.  A game makes a call when the previous one is  *)
(* over; MA_TCP_Cut it may call at any moment the code accepts it.         *)
(***************************************************************************)
EXTENDS Servers, FiniteSets

CONSTANTS
  MaxHeld,   \* how many connections of its own the game uses at a time
  Calls,     \* the calls the game makes
  Risks      \* moments with known trouble in which the game calls all the same

NUM_SOCKETS == 2

\* What the code takes for a socket after a refused TCP_CONNECT: the first byte
\* of an ERROR reply is the command (MACMD_TCP_CONNECT).
Garbage == 35

ASSUME SocketsAssumption ==
  /\ IsFiniteSet(Ids) /\ Garbage \notin Ids /\ MaxHeld \in Nat
  /\ Risks \subseteq {"unstored", "refused", "abandoned", "stale_end", "stale_empty"}

VARIABLES
  usedSockets, sockets,    \* the list: who is in use, and the numbers
  connMode,
  task, taskStep,
  param,                   \* the socket a TCP call is about
  cutCmd,                  \* param.cmd of MA_TCP_Cut: the command sent last then
  error,                   \* MA_CONDITION_ERROR
  tcpClosed,               \* MA_CONDITION_TCPCLOSED
  full,                    \* MA_CONDITION_BUFFER_FULL
  smtpSender,              \* the recipients of a letter have been accepted
  busy,                    \* MA_CONDITION_BIOS_BUSY
  sendCmd, sendSocket,     \* the command and the socket number in it
  sendText,                \* what DATA carries, or the port of TCP_CONNECT
  recvCmd, recvData,       \* the reply, and recvBuf.data[0] as a socket
  recvChunk,               \* and the rest of recvBuf
  tcpConnectRetryCount,
  prevBuf,                 \* what the code keeps from one reply to the next
  held                     \* the game: the sockets it has and counts on

table   == <<usedSockets, sockets>>
api     == <<task, taskStep, param, cutCmd>>
flags   == <<error, tcpClosed, full, smtpSender>>
bios    == <<busy, sendCmd, sendSocket, sendText, recvCmd, recvData, recvChunk,
             tcpConnectRetryCount>>
socketVars == <<table, connMode, api, flags, bios, prevBuf, adapter, held>>

Slots    == 0 .. NUM_SOCKETS - 1
None     == "none"
Commands == {"TCP_CONNECT", "TCP_DISCONNECT", "DATA", "DNS_REQUEST",
             "PPP_DISCONNECT", "OFFLINE", "END"}
Numbers  == Ids \cup {0, Garbage}

\* prevBuf holds the reply line read so far, the bytes that did not fit into
\* the game's buffer, or a copy of the EEPROM (its two parts, by version).
EmptyPrevBuf == [line |-> "none", rest |-> <<>>, first |-> 0, second |-> 0,
                 hasEEPROMData |-> FALSE]

SocketsInit ==
  /\ ServersInit
  /\ usedSockets = [i \in Slots |-> FALSE] /\ sockets = [i \in Slots |-> 0]
  /\ connMode = "OFFLINE"
  /\ task = "NONE" /\ taskStep = 0 /\ param = 0 /\ cutCmd = None
  /\ error = FALSE /\ tcpClosed = FALSE /\ full = FALSE /\ smtpSender = FALSE
  /\ busy = FALSE /\ sendCmd = None /\ sendSocket = 0 /\ sendText = "empty"
  /\ recvCmd = None /\ recvData = Garbage /\ recvChunk = NoChunk
  /\ tcpConnectRetryCount = 0
  /\ prevBuf = EmptyPrevBuf
  /\ held = {}

----------------------------------------------------------------------------
(* The list of ma_sub.c.                                                   *)

Lowest(S)  == CHOOSE i \in S : \A j \in S : i <= j
FreeSlots  == {i \in Slots : ~usedSockets[i]}
Holding(s) == {i \in Slots : sockets[i] = s}

\* Mistake: the slot is not marked.
AddUnmarked(s) ==
  IF FreeSlots = {} THEN UNCHANGED table
  ELSE sockets' = [sockets EXCEPT ![Lowest(FreeSlots)] = s] /\ UNCHANGED usedSockets

MAU_Socket_Add(s) ==
  IF FreeSlots = {} THEN UNCHANGED table
  ELSE LET i == Lowest(FreeSlots)
       IN /\ usedSockets' = [usedSockets EXCEPT ![i] = TRUE]
          /\ sockets' = [sockets EXCEPT ![i] = s]

\* The new usedSockets.  As in the code, a slot that is not in use counts too.
MAU_Socket_Delete(s) ==
  IF Holding(s) = {} THEN usedSockets
  ELSE [usedSockets EXCEPT ![Lowest(Holding(s))] = FALSE]

MAU_Socket_Search(s)  == Holding(s) # {}
MAU_Socket_GetNum     == Cardinality({i \in Slots : usedSockets[i]})
MAU_Socket_FreeCheck  == FreeSlots # {}

\* The numbers stay; only the marks go.
MAU_Socket_Clear == usedSockets' = [i \in Slots |-> FALSE] /\ UNCHANGED sockets

FreeSlot0 ==
  /\ usedSockets' = [usedSockets EXCEPT ![0] = FALSE]
  /\ sockets' = [sockets EXCEPT ![0] = 0]

----------------------------------------------------------------------------
(* Parts the calls and tasks share.                                        *)

\* MA_PreSend refuses nothing here: a task runs only when the bios is idle and
\* no error is unread.
Send(cmd, socket, text) ==
  /\ busy' = TRUE /\ sendCmd' = cmd /\ sendSocket' = socket /\ sendText' = text
  /\ recvCmd' = None /\ recvChunk' = NoChunk /\ tcpClosed' = FALSE
  /\ tcpConnectRetryCount' = 0 /\ UNCHANGED recvData

AtRest(mode) == ~error /\ task = "NONE" /\ connMode = mode

\* MA_TaskSet after MA_ApiPreExe.  gMA.param is a union: what the last call had
\* there is gone.
Starts(t, step, arg) ==
  /\ task' = t /\ taskStep' = step /\ param' = arg /\ cutCmd' = None
  /\ UNCHANGED <<table, error, smtpSender, bios, online, peer, due>>

Begin(t, step, arg) ==
  /\ Starts(t, step, arg) /\ tcpClosed' = FALSE /\ sent' = 0 /\ answered' = 0
  /\ UNCHANGED <<connMode, full, prevBuf>>

\* MA_SetApiError: the task and the exchange are over, and so is the reading of
\* what did not fit into the game's buffer.
SetApiError ==
  error' = TRUE /\ busy' = FALSE /\ task' = "NONE" /\ full' = FALSE /\ smtpSender' = FALSE

Forgotten == UNCHANGED <<sendCmd, sendSocket, sendText, recvCmd, recvData, recvChunk,
                         tcpConnectRetryCount>>

Refuse ==
  /\ SetApiError /\ Forgotten
  /\ UNCHANGED <<table, connMode, taskStep, param, cutCmd, adapter, prevBuf>>

TaskFails == SetApiError /\ taskStep' = 0 /\ Forgotten /\ UNCHANGED <<param, cutCmd, tcpClosed>>
TaskDone  == /\ task' = "NONE" /\ taskStep' = 0
             /\ UNCHANGED <<param, cutCmd, error, tcpClosed, full, bios>>
TaskEnds  == TaskDone /\ UNCHANGED smtpSender

Command(cmd, socket, text, step) ==
  /\ Send(cmd, socket, text) /\ taskStep' = step
  /\ UNCHANGED <<task, param, cutCmd, error, full, smtpSender>>

Goes(step) == taskStep' = step /\ UNCHANGED <<task, param, cutCmd, flags, bios>>

Nega(cmds) == recvCmd = "ERROR" /\ sendCmd \in cmds

Runs(t)  == task = t /\ ~busy /\ ~error
At(step) == taskStep = step

\* Mistake: prevBuf keeps the reply to the command before.
InitPrevBufKeepsLine == prevBuf' = [EmptyPrevBuf EXCEPT !.line = prevBuf.line]

InitPrevBuf == prevBuf' = EmptyPrevBuf

\* ConcatPrevBuf with the reply just received.
Read == IF recvChunk.line = "none" THEN prevBuf
        ELSE [prevBuf EXCEPT !.line = recvChunk.line, !.first = 0, !.second = 0]

\* A line said to the mail server, after which prevBuf is ready for its reply.
SayLine(text, step) == InitPrevBuf /\ Command("DATA", sockets[0], text, step)

\* The reply so far is not a whole line (MAU_CheckCRLF): an empty DATA command
\* asks for more of it.
ReadOn ==
  /\ Read.line \in {"none", "part"}
  /\ prevBuf' = Read /\ Command("DATA", sockets[0], "empty", taskStep)

----------------------------------------------------------------------------
(* The calls.                                                              *)

\* A call made in a state that does not allow it; the game avoids it while it
\* counts on smtpSender or on BUFFER_FULL.
MA_ApiPreExe ==
  /\ ~error /\ task = "NONE" /\ "REFUSED" \in Calls
  /\ (~smtpSender /\ ~full) \/ "refused" \in Risks
  /\ Refuse /\ UNCHANGED <<tcpClosed, held>>

\* The address must be that of the socket already open, if there is one.
MA_TCP_Connect ==
  /\ AtRest("PPP") /\ "TCP" \in Calls
  /\ \/ /\ Cardinality(held) < MaxHeld
        /\ MAU_Socket_FreeCheck /\ Begin("TCP_CONNECT", 0, 0)
     \/ (~MAU_Socket_FreeCheck \/ MAU_Socket_GetNum # 0) /\ Refuse /\ tcpClosed' = FALSE
  /\ UNCHANGED held

Listed(s) == MAU_Socket_GetNum # 0 /\ MAU_Socket_Search(s)

\* The game gives the socket up, whatever becomes of the call.
MA_TCP_Disconnect(s) ==
  /\ AtRest("PPP") /\ s \in held
  /\ IF Listed(s) THEN Begin("TCP_DISCONNECT", 0, s) ELSE Refuse /\ tcpClosed' = FALSE
  /\ held' = held \ {s}

MA_TCP_SendRecv(s) ==
  /\ AtRest("PPP") /\ s \in held
  /\ IF Listed(s) THEN Begin("TCP_SENDRECV", 0, s) ELSE Refuse /\ tcpClosed' = FALSE
  /\ UNCHANGED held

MA_GetHostAddress ==
  AtRest("PPP") /\ "TCP" \in Calls /\ Begin("GETHOSTADDRESS", 0, 0) /\ UNCHANGED held

MA_Offline ==
  /\ \E mode \in {"PPP", "SMTP", "POP3"} :
       AtRest(mode) /\ Begin("OFFLINE", IF mode = "PPP" THEN 0 ELSE 100, 0)
  /\ held' = {}

TcpTasks  == {"TCP_CONNECT", "TCP_DISCONNECT", "TCP_SENDRECV", "GETHOSTADDRESS"}
MailTasks == {"SMTP_CONNECT", "SMTP_SENDER", "SMTP_SEND", "SMTP_QUIT", "POP3_CONNECT",
              "POP3_STAT", "POP3_LIST", "POP3_DELE", "POP3_RETR", "POP3_QUIT"}
HttpTask  == "HTTP_GETPOST"

\* Not at rest with only a provider session (nothing to do), and not during
\* the TCP calls (an error).  The test for APIWAIT that stands where one for
\* MA_CONDITION_PPP was meant is true whenever there is a task.
MA_TCP_Cut ==
  /\ ~error /\ task # "TCP_CUT" /\ "CUT" \in Calls
  /\ connMode \in {"HTTP", "SMTP", "POP3"} \/ (connMode = "PPP" /\ task \in MailTasks)
  /\ task = HttpTask /\ taskStep = 3 /\ ~busy => "unstored" \in Risks
  /\ task' = "TCP_CUT" /\ cutCmd' = sendCmd /\ full' = FALSE
  /\ taskStep' = IF ~busy /\ connMode # "PPP" THEN 2 ELSE 0
  /\ UNCHANGED <<param, table, connMode, error, tcpClosed, smtpSender, bios, prevBuf,
                 adapter, held>>

MAAPI_ErrorCheck ==
  /\ error /\ error' = FALSE
  /\ IF busy THEN UNCHANGED bios
     ELSE /\ sendCmd' = None /\ recvCmd' = None
          /\ UNCHANGED <<busy, sendSocket, sendText, recvData, recvChunk, tcpConnectRetryCount>>
  /\ UNCHANGED <<table, connMode, api, tcpClosed, full, smtpSender, prevBuf, adapter, held>>

----------------------------------------------------------------------------
(* The tasks, one step at each call of MAAPI_Main.                         *)

MATASK_TCP_Connect ==
  /\ Runs("TCP_CONNECT")
  /\ \/ /\ Nega({"TCP_CONNECT"})
        /\ connMode' = "PPP" /\ TaskFails /\ UNCHANGED <<table, held>>
     \/ /\ ~Nega({"TCP_CONNECT"}) /\ At(0)
        /\ Command("TCP_CONNECT", 0, "own", 1) /\ UNCHANGED <<table, connMode, held>>
     \/ /\ ~Nega({"TCP_CONNECT"}) /\ At(1)
        /\ MAU_Socket_Add(recvData) /\ held' = held \cup {recvData}
        /\ TaskEnds /\ UNCHANGED connMode
  /\ UNCHANGED <<adapter, prevBuf>>

\* After the socket is deleted slot 0 is freed, whichever slot the socket had.
MATASK_TCP_Disconnect ==
  /\ Runs("TCP_DISCONNECT")
  /\ \/ At(0) /\ Command("TCP_DISCONNECT", param, "empty", 1) /\ UNCHANGED <<table, connMode>>
     \/ /\ At(1)
        /\ usedSockets' = [MAU_Socket_Delete(param) EXCEPT ![0] = FALSE]
        /\ sockets' = [sockets EXCEPT ![0] = 0]
        /\ connMode' = "PPP" /\ TaskEnds
  /\ UNCHANGED <<adapter, held, prevBuf>>

\* Mistake: a socket the server has closed stays in the list.
SendRecvKeeps ==
  /\ Runs("TCP_SENDRECV")
  /\ \/ /\ Nega({"DATA"}) \/ tcpClosed
        /\ UNCHANGED table /\ held' = held \ {param} /\ TaskFails
     \/ /\ ~(Nega({"DATA"}) \/ tcpClosed) /\ At(0)
        /\ Command("DATA", param, "empty", 1) /\ UNCHANGED <<table, held>>
     \/ /\ ~(Nega({"DATA"}) \/ tcpClosed) /\ At(1)
        /\ TaskEnds /\ UNCHANGED <<table, held>>
  /\ UNCHANGED <<connMode, adapter, prevBuf>>

MATASK_TCP_SendRecv ==
  /\ Runs("TCP_SENDRECV")
  /\ \/ /\ Nega({"DATA"}) \/ tcpClosed
        /\ usedSockets' = MAU_Socket_Delete(param) /\ UNCHANGED sockets
        /\ held' = held \ {param} /\ TaskFails
     \/ /\ ~(Nega({"DATA"}) \/ tcpClosed) /\ At(0)
        /\ Command("DATA", param, "empty", 1) /\ UNCHANGED <<table, held>>
     \/ /\ ~(Nega({"DATA"}) \/ tcpClosed) /\ At(1)
        /\ TaskEnds /\ UNCHANGED <<table, held>>
  /\ UNCHANGED <<connMode, adapter, prevBuf>>

MATASK_GetHostAddress ==
  /\ Runs("GETHOSTADDRESS")
  /\ \/ Nega({"DNS_REQUEST"}) /\ TaskFails
     \/ ~Nega({"DNS_REQUEST"}) /\ At(0) /\ Command("DNS_REQUEST", 0, "empty", 1)
     \/ ~Nega({"DNS_REQUEST"}) /\ At(1) /\ TaskEnds
  /\ UNCHANGED <<table, connMode, adapter, held, prevBuf>>

\* Steps 100 to 103 close the mail connection first; a refused DATA skips them.
MATASK_Offline ==
  /\ Runs("OFFLINE")
  /\ \/ /\ Nega({"DATA"}) \/ At(0)
        /\ Command("PPP_DISCONNECT", 0, "empty", 1) /\ UNCHANGED <<table, connMode, prevBuf>>
     \/ /\ ~Nega({"DATA"})
        /\ \/ At(1) /\ Command("OFFLINE", 0, "empty", 2) /\ UNCHANGED <<table, connMode, prevBuf>>
           \/ At(2) /\ Command("END", 0, "empty", 3) /\ UNCHANGED <<table, connMode, prevBuf>>
           \/ /\ At(3) /\ connMode' = "OFFLINE" /\ MAU_Socket_Clear /\ TaskEnds
              /\ UNCHANGED prevBuf
           \/ At(100) /\ SayLine("QUIT", 101) /\ UNCHANGED <<table, connMode>>
           \/ At(101) /\ ReadOn /\ UNCHANGED <<table, connMode>>
           \/ /\ At(101) /\ Read.line \notin {"none", "part"}
              /\ prevBuf' = Read /\ Goes(102) /\ UNCHANGED <<table, connMode>>
           \/ /\ At(102) /\ Command("TCP_DISCONNECT", sockets[0], "empty", 103)
              /\ UNCHANGED <<table, connMode, prevBuf>>
           \/ At(103) /\ connMode' = "PPP" /\ FreeSlot0 /\ Goes(0) /\ UNCHANGED prevBuf
  /\ UNCHANGED <<adapter, held>>

\* Mistake: the connection that was being opened is not closed.
CutForgetsConnect ==
  /\ Runs("TCP_CUT")
  /\ \/ At(0) /\ ~usedSockets[0] /\ Goes(3) /\ UNCHANGED <<table, connMode>>
     \/ /\ At(2) \/ (At(0) /\ usedSockets[0])
        /\ Command("TCP_DISCONNECT", sockets[0], "empty", 3) /\ UNCHANGED <<table, connMode>>
     \/ /\ At(3) /\ connMode' = "PPP" /\ FreeSlot0 /\ task' = "NONE" /\ taskStep' = 0
        /\ recvCmd' = None
        /\ UNCHANGED <<param, cutCmd, flags, busy, sendCmd, sendSocket, sendText, recvData,
                       recvChunk, tcpConnectRetryCount>>
  /\ UNCHANGED <<adapter, held, prevBuf>>

\* The connection that was being opened when the game called, or the one in
\* use, is closed; a refusal is ignored.
MATASK_TCP_Cut ==
  /\ Runs("TCP_CUT")
  /\ LET connected == cutCmd = "TCP_CONNECT" /\ recvCmd # "ERROR"
     IN \/ /\ At(0) /\ connected
           /\ sockets' = [sockets EXCEPT ![0] = recvData]
           /\ Command("TCP_DISCONNECT", recvData, "empty", 3) /\ UNCHANGED <<usedSockets, connMode>>
        \/ /\ At(0) /\ ~connected /\ ~usedSockets[0]
           /\ Goes(3) /\ UNCHANGED <<table, connMode>>
        \/ /\ At(2) \/ (At(0) /\ ~connected /\ usedSockets[0])
           /\ Command("TCP_DISCONNECT", sockets[0], "empty", 3) /\ UNCHANGED <<table, connMode>>
        \/ /\ At(3) /\ connMode' = "PPP" /\ FreeSlot0 /\ task' = "NONE" /\ taskStep' = 0
           /\ recvCmd' = None
           /\ UNCHANGED <<param, cutCmd, flags, busy, sendCmd, sendSocket, sendText, recvData,
                          recvChunk, tcpConnectRetryCount>>
  /\ UNCHANGED <<adapter, held, prevBuf>>

----------------------------------------------------------------------------
(* The adapter's answers, and the end of a session.                        *)

Reply(cmd, data, chunk) ==
  /\ busy' = FALSE /\ recvCmd' = cmd /\ recvData' = data /\ recvChunk' = chunk
  /\ sendSocket' = 0 /\ sendText' = "empty" /\ UNCHANGED <<sendCmd, tcpConnectRetryCount>>

Good == Reply(sendCmd, Garbage, NoChunk)

\* Mistake: a repeated TCP_CONNECT starts its count again.
RetryForever ==
  /\ recvCmd' = "ERROR" /\ recvData' = Garbage
  /\ UNCHANGED <<busy, sendCmd, sendSocket, sendText, recvChunk, tcpConnectRetryCount>>

\* Mistake: the count has no end.
RetryPastLimit ==
  /\ recvCmd' = "ERROR" /\ recvData' = Garbage
  /\ tcpConnectRetryCount' = tcpConnectRetryCount + 1
  /\ busy' = (sendCmd = "TCP_CONNECT") /\ UNCHANGED <<sendCmd, sendSocket, sendText, recvChunk>>

\* An ERROR reply.  TCP_CONNECT is sent again, five times in all.
Refused ==
  /\ recvCmd' = "ERROR" /\ recvData' = Garbage
  /\ tcpConnectRetryCount' = IF sendCmd = "TCP_CONNECT"
                             THEN tcpConnectRetryCount + 1 ELSE tcpConnectRetryCount
  /\ busy' = (sendCmd = "TCP_CONNECT" /\ tcpConnectRetryCount' # 5)
  /\ UNCHANGED <<sendCmd, sendSocket, sendText, recvChunk>>

\* The adapter refuses what it cannot do, and a connection whose DATA it refuses
\* or ends is no longer there.
MA_ProcessRecvPacket ==
  /\ busy /\ sendCmd \in Commands
  /\ \/ /\ sendCmd = "TCP_CONNECT" /\ online
        /\ \E id \in Ids \ open : Reply(sendCmd, id, NoChunk) /\ Connected(id, sendText)
        /\ UNCHANGED <<online, tcpClosed>>
     \/ /\ sendCmd = "TCP_DISCONNECT" /\ sendSocket \in open
        /\ Good /\ Lost(sendSocket) /\ UNCHANGED <<online, tcpClosed>>
     \/ /\ sendCmd = "DATA" /\ sendSocket \in open
        /\ \/ /\ \E chunk \in Says(Heard(sendSocket, sendText).owes) :
                   Converse(sendSocket, sendText, chunk) /\ Reply(sendCmd, Garbage, chunk)
              /\ UNCHANGED tcpClosed
           \/ /\ \E chunk \in LastWords(sendSocket, sendText) :
                   HangsUp(sendSocket, sendText, chunk) /\ Reply("DATA_END", Garbage, chunk)
              /\ tcpClosed' = TRUE
           \/ Refused /\ Lost(sendSocket) /\ UNCHANGED tcpClosed
        /\ UNCHANGED online
     \/ /\ sendCmd \in {"DATA", "TCP_DISCONNECT"} /\ sendSocket \notin open
        /\ Refused /\ UNCHANGED <<adapter, tcpClosed>>
     \/ sendCmd \in {"TCP_CONNECT", "DNS_REQUEST"} /\ Refused /\ UNCHANGED <<adapter, tcpClosed>>
     \/ sendCmd = "DNS_REQUEST" /\ Good /\ UNCHANGED <<adapter, tcpClosed>>
     \/ /\ sendCmd \in {"PPP_DISCONNECT", "OFFLINE", "END"}
        /\ Good /\ online' = FALSE /\ AllLost /\ UNCHANGED tcpClosed
  /\ UNCHANGED <<table, connMode, api, error, full, smtpSender, prevBuf, held>>

\* The session ends by MA_Stop, or with an error because the adapter no longer
\* answers: MA_Reset, and the adapter drops everything.
SessionEnds ==
  /\ connMode # "OFFLINE" \/ task # "NONE"
  /\ connMode' = "OFFLINE" /\ MAU_Socket_Clear /\ task' = "NONE" /\ taskStep' = 0
  /\ full' = FALSE
  /\ \/ UNCHANGED <<error, smtpSender>>
     \/ error' = TRUE /\ smtpSender' \in {smtpSender, FALSE}
  /\ busy' = FALSE /\ recvCmd' = None /\ sendCmd' = None
  /\ online' = FALSE /\ AllLost /\ held' = {}
  /\ UNCHANGED <<param, cutCmd, tcpClosed, sendSocket, sendText, recvData, recvChunk,
                 tcpConnectRetryCount, prevBuf>>

----------------------------------------------------------------------------

\* The calls and tasks of this module.
SocketCalls ==
  \/ MA_TCP_Connect \/ MA_GetHostAddress
  \/ \E s \in Ids : MA_TCP_Disconnect(s) \/ MA_TCP_SendRecv(s)

SocketTasks ==
  \/ MATASK_TCP_Connect \/ MATASK_TCP_Disconnect \/ MATASK_TCP_SendRecv
  \/ MATASK_GetHostAddress \/ MATASK_Offline \/ MATASK_TCP_Cut

\* The connections in the list.
Used == {sockets[i] : i \in {j \in Slots : usedSockets[j]}}
Idle == task = "NONE"

=============================================================================
