---------------------------- MODULE SessionsLists ----------------------------
(***************************************************************************)
(* The socket list of the library and the connections of the adapter, for  *)
(* every set of connections and every game that holds one socket of its    *)
(* own at a time: no connection is left open that the list does not have,  *)
(* and at rest the list has no connection that is not open.                *)
(***************************************************************************)
EXTENDS SessionsProofs, FiniteSetTheorems

----------------------------------------------------------------------------
(* The life of a connection: before it, asked for, in use, being closed.   *)

\* The connections that somebody must close: a server closes by itself the one it
\* has answered a request on.
Live == {id \in open : peer[id] # "http_answer"}

Quits    == {"SMTP_QUIT", "POP3_QUIT"}
Connects == {"SMTP_CONNECT", "POP3_CONNECT"}

\* Where a task is in the life of the connection it uses: it is not yet asked
\* for, asked for (AwaitsConnect), being closed, or in use in slot 0.
Before(t, step) ==
  \/ t \in SettingsTasks
  \/ t = "TCP_CONNECT" /\ step = 0
  \/ t \in Connects /\ step \in {0, 1}
  \/ t = HttpTask /\ step \in 0..2

Closes(t, step) ==
  \/ t = "TCP_DISCONNECT" /\ step = 1
  \/ t \in MailTasks \cup {HttpTask} /\ step = 241
  \/ t \in Quits \cup {"TCP_CUT"} /\ step = 3
  \/ t = "OFFLINE" /\ step = 103

Uses(t, step) ==
  \/ t \in MailTasks \cup {HttpTask} /\ ~Before(t, step) /\ ~AwaitsConnect(t, step) /\ ~Closes(t, step)
  \/ t = "OFFLINE" /\ step \in 100..102
  \/ t = "TCP_SENDRECV"

\* The reply to TCP_CONNECT has come and brings a connection.
Arrived  == ~busy /\ recvCmd = "TCP_CONNECT"
Arriving == IF Arrived THEN {recvData} ELSE {}

\* The server of the connection in use has closed it, or it refused the DATA.
Gone == tcpClosed \/ Nega({"DATA"})

InSlot0 == usedSockets[0] /\ Live \subseteq {sockets[0]}
Talks   == busy => sendCmd = "DATA" /\ sendSocket = sockets[0]

\* The commands of the provider's connection itself.
Leaving == {"PPP_DISCONNECT", "OFFLINE", "END"}

RestList ==
  task = "NONE" =>
    /\ connMode = "PPP" => Live \subseteq Used /\ held = Used /\ Used \subseteq open
    /\ connMode \in {"SMTP", "POP3"} => InSlot0 /\ held = {} /\ sockets[0] \in open
    /\ connMode = "HTTP" => InSlot0 /\ held = {}
    /\ ~error => ~Nega({"DATA", "TCP_CONNECT", "DNS_REQUEST"})

BeforeList ==
  Before(task, taskStep) =>
    /\ Live = {} /\ ~Nega({"DATA"}) /\ (busy => sendCmd \notin {"DATA", "TCP_CONNECT"})
    /\ task \in SettingsTasks => ~Nega({"TCP_CONNECT", "DNS_REQUEST"}) /\ (busy => sendCmd # "DNS_REQUEST")

AwaitList ==
  AwaitsConnect(task, taskStep) =>
    /\ Live \subseteq Arriving /\ (Arrived => recvData \in Live)
    /\ ~tcpClosed

UseList ==
  Uses(task, taskStep) =>
    /\ InSlot0 /\ Talks /\ ~Nega({"TCP_CONNECT", "DNS_REQUEST"})
    /\ task \in MailTasks \cup {"TCP_SENDRECV"} => (sockets[0] \in open <=> ~Gone)
    /\ task \in Connects => sendCmd = "DATA"

CloseList ==
  Closes(task, taskStep) =>
    /\ busy \/ task # "TCP_CUT" => sendCmd = "TCP_DISCONNECT"
    /\ Live \subseteq IF busy THEN {sendSocket} ELSE {}
    /\ busy /\ task \notin {"TCP_CUT", "TCP_DISCONNECT"} => usedSockets[0] /\ sendSocket = sockets[0]

TcpList ==
  /\ task \in TcpTasks => taskStep \in {0, 1} /\ (busy => taskStep = 1)
  /\ task = "TCP_CONNECT" => Used = {} /\ held = {}
  /\ task = "GETHOSTADDRESS" =>
       /\ Live \subseteq Used /\ held = Used /\ Used \subseteq open
       /\ ~Nega({"DATA", "TCP_CONNECT"}) /\ (busy => sendCmd = "DNS_REQUEST")
  /\ task = "TCP_DISCONNECT" => usedSockets[0] /\ sockets[0] = param /\ held = {} /\ Live \subseteq {param}
  /\ task = "TCP_SENDRECV" => sockets[0] = param /\ held = {param}

EndList ==
  /\ task = "OFFLINE" => taskStep \in (0..3) \cup (100..103)
  /\ task = "OFFLINE" /\ taskStep \in 0..3 =>
       /\ Live \subseteq Used
       /\ IF taskStep = 0 THEN ~busy ELSE sendCmd \in Leaving
       /\ taskStep > 1 \/ (taskStep = 1 /\ ~busy) => Live = {}
  /\ task = "TCP_CUT" => taskStep \in {0, 2, 3}
  /\ task = "TCP_CUT" /\ taskStep = 0 => Live \subseteq IF cutCmd = "TCP_CONNECT" THEN Arriving ELSE Used
  /\ task = "TCP_CUT" /\ taskStep = 0 /\ busy /\ sendCmd = "DATA" => sendSocket \in Used
  /\ task = "TCP_CUT" /\ taskStep = 2 => ~busy /\ Live \subseteq {sockets[0]}

SlotList ==
  /\ ~usedSockets[1] /\ sockets[1] = 0
  /\ connMode = "OFFLINE" => Live = {} /\ held = {} /\ ~usedSockets[0]
  /\ task \notin TcpTasks \cup {"NONE"} => held = {}

ListInv ==
  /\ SlotList /\ RestList /\ BeforeList /\ AwaitList /\ UseList /\ CloseList /\ TcpList /\ EndList

\* Where MATASK_SMTP_Send goes on after step 50.
NextInv == task = "SMTP_SEND" /\ taskStep = 50 => mail.next \in {1, 2, 3, 101}

----------------------------------------------------------------------------
(* What is said in a page's connection.                                    *)

\* The server of the connection in slot 0, while it is there.
Peer0 == peer[sockets[0]]
There == usedSockets[0] /\ sockets[0] \in open

\* No answer is due, and nothing is being said (Ready), or one of the texts X (Said).
Ready(Q)        == ~busy /\ due = "nothing" /\ Peer0 \in Q
Said(X, P)      == busy /\ sendText \in X /\ due = "nothing" /\ Peer0 \in P
SaidOr(X, P, Q) == Said(X, P) \/ Ready(Q)

PortOf(t) == CASE t = "TCP_CONNECT" -> "own" [] t = "SMTP_CONNECT" -> "SMTP"
               [] t = "POP3_CONNECT" -> "POP3" [] OTHER -> "HTTP"

\* TCP_CONNECT brings a server of the kind the task has asked for.
ArrivedTalk ==
  AwaitsConnect(task, taskStep) =>
    /\ busy => sendText = PortOf(task)
    /\ Arrived => /\ peer[recvData] = Ports[PortOf(task)]
                  /\ task \in Connects => due = "reply"
                  /\ task = HttpTask => due = "nothing"

\* The header of the answer is there, or has been; what the server waits for
\* then; the steps that wait for the header.
HeadSaid == http.headFound \/ (~busy /\ ~tcpClosed /\ recvChunk.line \in Headers)
Wanted   == IF GetRequestType = "GET" THEN "http_get" ELSE "http_post"
Heading  == taskStep = 8 \/ (taskStep = 50 /\ http.next = 8)

\* The task counts the requests that have been answered.
PageKnows ==
  /\ taskStep \in (0..3) \cup (5..8) \cup {50, 100, 110, 240, 241, 255}
  /\ taskStep = 50 => http.next \in {5, 6, 7, 8, 100}
  /\ http.auth \in Suited[http.method] /\ (http.headEnd => http.headFound)
  /\ taskStep = 100 \/ (taskStep = 50 /\ http.next \in {8, 100}) => SendsData /\ ~http.headFound
  /\ taskStep \in (0..7) \cup {100, 110} \/ (taskStep = 50 /\ http.next # 8) => answered = http.step
  /\ Heading => answered = http.step + IF HeadSaid THEN 1 ELSE 0
  /\ taskStep = 255 => Live = {}

\* What the task says is what the server waits for; nothing after the last line
\* of the request.
PageTalk ==
  /\ taskStep = 50 /\ http.next = 5 => SaidOr({GetRequestType}, {"http"}, {Wanted})
  /\ taskStep = 50 /\ http.next \in {6, 7} => SaidOr({"path"}, {Wanted}, {Wanted})
  /\ taskStep \in {5, 6, 7} => Ready({Wanted})
  /\ taskStep = 100 => SaidOr({CreateHttpRequestHeader}, {"http_post"}, {"http_content"})
  /\ taskStep = 50 /\ http.next = 100 => SaidOr({"text"}, {"http_content"}, {"http_content"})
  /\ Heading =>
       \/ ~http.headFound /\ IF taskStep = 50 THEN Said({"end"}, {"http_content"})
                             ELSE ~SendsData /\ Said({CreateHttpRequestHeader}, {Wanted})
       \/ /\ Peer0 = "http_answer" /\ (busy => sendText = "empty")
          /\ due = IF HeadSaid THEN "rest" ELSE "page"
  /\ taskStep = 110 => Peer0 = "http_answer" /\ due = "rest" /\ (busy => sendText = "empty")

WaitTalk ==
  Idle /\ connMode = "HTTP" =>
    /\ answered = http.step /\ (There => Peer0 = "http_answer" /\ due = "rest")
    /\ http.auth \in Suited[http.method] /\ (http.headEnd => http.headFound)

HttpInv == ArrivedTalk /\ (task = HttpTask => PageKnows /\ (There => PageTalk)) /\ WaitTalk

\* A command goes out on a connection that is not known to be closed.
Unclosed == busy => ~tcpClosed

ConnInv == ListInv /\ NextInv /\ HttpInv /\ Unclosed

USE DEF None, Closed, HttpTask

----------------------------------------------------------------------------
(* The list, over the steps of the tasks.                                  *)

LEMMA UsedSlot0 ==
  /\ TypeList /\ ~usedSockets[1] => Used = IF usedSockets[0] THEN {sockets[0]} ELSE {}
  /\ TypeList' /\ ~usedSockets'[1] => Used' = IF usedSockets'[0] THEN {sockets'[0]} ELSE {}
<1> USE DEF TypeList, Slots, NUM_SOCKETS, Used
<1>1. 0 .. 1 = {0, 1}
  OBVIOUS
<1> QED
  BY <1>1

LEMMA SameLive == UNCHANGED adapter \/ UNCHANGED peer => Live' = Live /\ open' = open
BY DEF adapter, Live, open

\* A task is in one phase at a time.
LEMMA Phases ==
  ASSUME NEW t, NEW step
  PROVE  /\ Before(t, step) => ~AwaitsConnect(t, step) /\ ~Uses(t, step) /\ ~Closes(t, step)
                               /\ t \notin {"NONE", "OFFLINE", "TCP_CUT"} /\ (t \in TcpTasks => t = "TCP_CONNECT")
         /\ AwaitsConnect(t, step) => ~Uses(t, step) /\ ~Closes(t, step)
                               /\ t \notin {"NONE", "OFFLINE", "TCP_CUT"} /\ (t \in TcpTasks => t = "TCP_CONNECT")
         /\ Uses(t, step) => ~Closes(t, step) /\ t \notin {"NONE", "TCP_CUT"}
                               /\ (t \in TcpTasks => t = "TCP_SENDRECV")
                               /\ (t = "OFFLINE" => step \in 100..102)
         /\ Closes(t, step) => t # "NONE" /\ (t \in TcpTasks => t = "TCP_DISCONNECT")
                               /\ (t = "OFFLINE" => step = 103) /\ (t = "TCP_CUT" => step = 3)
<1> USE DEF Before, Closes, Uses, AwaitsConnect, TcpTasks, MailTasks, SettingsTasks, Quits, Connects
<1>1. Before(t, step) => ~AwaitsConnect(t, step) /\ ~Uses(t, step) /\ ~Closes(t, step)
                        /\ t \notin {"NONE", "OFFLINE", "TCP_CUT"} /\ (t \in TcpTasks => t = "TCP_CONNECT")
  OBVIOUS
<1>2. AwaitsConnect(t, step) => ~Uses(t, step) /\ ~Closes(t, step)
                        /\ t \notin {"NONE", "OFFLINE", "TCP_CUT"} /\ (t \in TcpTasks => t = "TCP_CONNECT")
  OBVIOUS
<1>3. Uses(t, step) => ~Closes(t, step) /\ t \notin {"NONE", "TCP_CUT"}
                        /\ (t \in TcpTasks => t = "TCP_SENDRECV") /\ (t = "OFFLINE" => step \in 100..102)
  OBVIOUS
<1>4. Closes(t, step) => t # "NONE" /\ (t \in TcpTasks => t = "TCP_DISCONNECT")
                        /\ (t = "OFFLINE" => step = 103) /\ (t = "TCP_CUT" => step = 3)
  OBVIOUS
<1> QED
  BY <1>1, <1>2, <1>3, <1>4

\* Each phase has a part of ListInv; the others say nothing of it.
LEMMA PhaseLists ==
  ASSUME SlotList'
  PROVE  /\ task' = "NONE" /\ RestList' => ListInv'
         /\ Before(task', taskStep') /\ task' # "TCP_CONNECT" /\ BeforeList' => ListInv'
         /\ AwaitsConnect(task', taskStep') /\ task' # "TCP_CONNECT" /\ AwaitList' => ListInv'
         /\ Uses(task', taskStep') /\ task' # "TCP_SENDRECV" /\ UseList' => ListInv'
         /\ Closes(task', taskStep') /\ task' # "TCP_DISCONNECT" /\ CloseList' => ListInv'
         /\ task' \in TcpTasks /\ BeforeList' /\ AwaitList' /\ UseList' /\ CloseList' /\ TcpList' => ListInv'
         /\ task' = "OFFLINE" /\ taskStep' \in 0..3 /\ EndList' => ListInv'
         /\ task' = "TCP_CUT" /\ taskStep' \in {0, 2} /\ EndList' => ListInv'
<1>0. /\ ~Before("NONE", taskStep') /\ ~AwaitsConnect("NONE", taskStep') /\ ~Uses("NONE", taskStep')
      /\ ~Closes("NONE", taskStep') /\ "NONE" \notin TcpTasks
  BY Phases DEF TcpTasks
<1>1. task' = "NONE" /\ RestList' => ListInv'
  BY <1>0 DEF ListInv, BeforeList, AwaitList, UseList, CloseList, TcpList, EndList
<1>2. Before(task', taskStep') /\ task' # "TCP_CONNECT" /\ BeforeList' => ListInv'
  BY Phases DEF ListInv, RestList, AwaitList, UseList, CloseList, TcpList, EndList, TcpTasks
<1>3. AwaitsConnect(task', taskStep') /\ task' # "TCP_CONNECT" /\ AwaitList' => ListInv'
  BY Phases DEF ListInv, RestList, BeforeList, UseList, CloseList, TcpList, EndList, TcpTasks
<1>4. Uses(task', taskStep') /\ task' # "TCP_SENDRECV" /\ UseList' => ListInv'
  <2>1. Uses(task', taskStep') /\ task' # "TCP_SENDRECV" => RestList' /\ BeforeList' /\ AwaitList' /\ CloseList'
    BY Phases DEF RestList, BeforeList, AwaitList, CloseList
  <2>2. Uses(task', taskStep') /\ task' # "TCP_SENDRECV" => TcpList' /\ EndList'
    BY Phases DEF TcpList, EndList, TcpTasks
  <2> QED
    BY <2>1, <2>2 DEF ListInv
<1>5. Closes(task', taskStep') /\ task' # "TCP_DISCONNECT" /\ CloseList' => ListInv'
  <2>1. Closes(task', taskStep') /\ task' # "TCP_DISCONNECT" => RestList' /\ BeforeList' /\ AwaitList' /\ UseList'
    BY Phases DEF RestList, BeforeList, AwaitList, UseList
  <2>2. Closes(task', taskStep') /\ task' # "TCP_DISCONNECT" => TcpList' /\ EndList'
    BY Phases DEF TcpList, EndList, TcpTasks
  <2> QED
    BY <2>1, <2>2 DEF ListInv
<1>6. task' \in TcpTasks /\ BeforeList' /\ AwaitList' /\ UseList' /\ CloseList' /\ TcpList' => ListInv'
  BY DEF ListInv, RestList, EndList, TcpTasks
<1>7. \/ task' = "OFFLINE" /\ taskStep' \in 0..3
      \/ task' = "TCP_CUT" /\ taskStep' \in {0, 2}
      => /\ ~Before(task', taskStep') /\ ~AwaitsConnect(task', taskStep') /\ ~Uses(task', taskStep')
         /\ ~Closes(task', taskStep') /\ task' # "NONE" /\ task' \notin TcpTasks
  BY Phases DEF TcpTasks, Uses, MailTasks
<1>8. \/ task' = "OFFLINE" /\ taskStep' \in 0..3
      \/ task' = "TCP_CUT" /\ taskStep' \in {0, 2}
      => (EndList' => ListInv')
  BY <1>7 DEF ListInv, RestList, BeforeList, AwaitList, UseList, CloseList, TcpList, TcpTasks
<1> QED
  BY <1>1, <1>2, <1>3, <1>4, <1>5, <1>6, <1>8

LEMMA HostLists ==
  ASSUME TaskInv, ListInv, TypeList', MATASK_GetHostAddress
  PROVE  ListInv'
<1> USE SameLive, UsedSlot0 DEF Runs, At, Nega
<1>0. /\ TypeList /\ connMode = "PPP" /\ task = "GETHOSTADDRESS" /\ task \in TcpTasks
      /\ SlotList /\ Live \subseteq Used /\ held = Used /\ Used \subseteq open
      /\ ~Nega({"DATA", "TCP_CONNECT"}) /\ UNCHANGED <<table, connMode, held, adapter>>
  BY RunsInEach DEF TaskInv, IInv, TypeOK, ModeInv, ListInv, TcpList, MATASK_GetHostAddress, TcpTasks
<1>1. Live' = Live /\ open' = open /\ Used' = Used
  BY <1>0 DEF SlotList, table
<1>2. CASE TaskFails \/ (~Nega({"DNS_REQUEST"}) /\ TaskEnds)
  <2>1. task' = "NONE" /\ SlotList'
    BY <1>0, <1>1, <1>2 DEF SlotList, TaskFails, SetApiError, TaskEnds, TaskDone, table, TcpTasks
  <2>2. error' \/ ~Nega({"DATA", "TCP_CONNECT", "DNS_REQUEST"})'
    BY <1>0, <1>2 DEF TaskFails, SetApiError, TaskEnds, TaskDone, bios
  <2> QED
    BY <1>0, <1>1, <2>1, <2>2, PhaseLists DEF RestList
<1>3. CASE Command("DNS_REQUEST", 0, "empty", 1)
  <2>1. SlotList' /\ TcpList' /\ task' = task /\ taskStep' = 1
    BY <1>0, <1>1, <1>3 DEF SlotList, TcpList, Command, Send, table, TcpTasks
  <2> QED
    BY <1>0, <1>1, <2>1, PhaseLists DEF BeforeList, AwaitList, UseList, CloseList,
       Before, Closes, Uses, AwaitsConnect, TcpTasks, MailTasks, SettingsTasks, Quits, Connects
<1> QED
  BY <1>0, <1>2, <1>3 DEF MATASK_GetHostAddress

\* MAU_Socket_Add on an empty list, and MAU_Socket_Delete of the socket in slot 0.
LEMMA Slot0Ops ==
  ASSUME TypeList, ~usedSockets[1]
  PROVE  /\ \A s : ~usedSockets[0] /\ MAU_Socket_Add(s) =>
                     usedSockets'[0] /\ sockets'[0] = s /\ ~usedSockets'[1] /\ sockets'[1] = sockets[1]
         /\ LET new == MAU_Socket_Delete(sockets[0]) IN new \in [Slots -> BOOLEAN] /\ ~new[0] /\ ~new[1]
         /\ FreeSlot0 \/ FreeSlot => ~usedSockets'[0] /\ ~usedSockets'[1] /\ sockets'[1] = sockets[1]
         /\ MAU_Socket_Clear => ~usedSockets'[0] /\ ~usedSockets'[1] /\ sockets'[1] = sockets[1]
<1>0. /\ 0 \in Slots /\ 1 \in Slots /\ \A i \in Slots : 0 <= i /\ i \in Int
      /\ usedSockets \in [Slots -> BOOLEAN] /\ DOMAIN sockets = Slots
  BY DEF Slots, NUM_SOCKETS, TypeList
<1>1. ASSUME NEW S \in SUBSET Slots, 0 \in S PROVE Lowest(S) = 0
  <2>1. \A i \in S : (\A j \in S : i <= j) => i = 0
    BY <1>0, <1>1
  <2>2. \A j \in S : 0 <= j
    BY <1>0
  <2> QED
    BY <1>1, <2>1, <2>2 DEF Lowest
<1>2. ASSUME NEW s, ~usedSockets[0], MAU_Socket_Add(s)
      PROVE  usedSockets'[0] /\ sockets'[0] = s /\ ~usedSockets'[1] /\ sockets'[1] = sockets[1]
  <2>1. FreeSlots \in SUBSET Slots /\ 0 \in FreeSlots
    BY <1>0, <1>2 DEF FreeSlots
  <2>2. Lowest(FreeSlots) = 0
    BY <1>1, <2>1
  <2>3. usedSockets' = [usedSockets EXCEPT ![0] = TRUE] /\ sockets' = [sockets EXCEPT ![0] = s]
    BY <1>2, <2>1, <2>2 DEF MAU_Socket_Add
  <2> QED
    BY <1>0, <2>3
<1>3. MAU_Socket_Delete(sockets[0]) = [usedSockets EXCEPT ![0] = FALSE]
  <2>1. Holding(sockets[0]) \in SUBSET Slots /\ 0 \in Holding(sockets[0])
    BY <1>0 DEF Holding
  <2>2. Lowest(Holding(sockets[0])) = 0
    BY <1>1, <2>1
  <2> QED
    BY <2>1, <2>2 DEF MAU_Socket_Delete
<1>4. FreeSlot0 \/ FreeSlot => ~usedSockets'[0] /\ ~usedSockets'[1] /\ sockets'[1] = sockets[1]
  BY <1>0 DEF FreeSlot0, FreeSlot
<1>5. MAU_Socket_Clear => ~usedSockets'[0] /\ ~usedSockets'[1] /\ sockets'[1] = sockets[1]
  BY <1>0 DEF MAU_Socket_Clear
<1>6. LET new == MAU_Socket_Delete(sockets[0]) IN new \in [Slots -> BOOLEAN] /\ ~new[0] /\ ~new[1]
  BY <1>0, <1>3
<1> QED
  BY <1>2, <1>4, <1>5, <1>6

\* What the parts of a task come to, for the list.
LEMMA PartsList ==
  /\ \A cmd, socket, text, step : Command(cmd, socket, text, step) =>
       /\ task' = task /\ taskStep' = step /\ param' = param /\ cutCmd' = cutCmd /\ error' = error
       /\ busy' /\ sendCmd' = cmd /\ sendSocket' = socket /\ sendText' = text
       /\ recvCmd' = "none" /\ recvChunk' = NoChunk /\ ~tcpClosed' /\ full' = full /\ smtpSender' = smtpSender
  /\ \A step : Goes(step) =>
       /\ taskStep' = step /\ task' = task /\ param' = param /\ cutCmd' = cutCmd /\ error' = error
       /\ busy' = busy /\ sendCmd' = sendCmd /\ sendSocket' = sendSocket /\ sendText' = sendText
       /\ recvCmd' = recvCmd /\ recvData' = recvData /\ recvChunk' = recvChunk /\ tcpClosed' = tcpClosed
       /\ full' = full /\ smtpSender' = smtpSender
  /\ TaskDone => task' = "NONE" /\ error' = error /\ sendCmd' = sendCmd /\ recvCmd' = recvCmd
                 /\ busy' = busy /\ full' = full /\ recvChunk' = recvChunk
  /\ TaskFails => task' = "NONE" /\ error' /\ ~full' /\ ~busy'
BY DEF Command, Send, Goes, TaskDone, TaskFails, SetApiError, api, flags, bios

LEMMA ConnectLists ==
  ASSUME TaskInv, ListInv, TypeList', MATASK_TCP_Connect
  PROVE  ListInv'
<1> USE SameLive, UsedSlot0 DEF Runs, At, Nega
<1>0. /\ TypeList /\ connMode = "PPP" /\ task = "TCP_CONNECT" /\ task \in TcpTasks
      /\ SlotList /\ ~usedSockets[0] /\ held = {} /\ taskStep \in {0, 1}
      /\ (taskStep = 0 => Live = {} /\ ~Nega({"DATA"})) /\ UNCHANGED adapter
      /\ (taskStep = 1 => Live \subseteq Arriving /\ (Arrived => recvData \in Live)
                          /\ sendCmd = "TCP_CONNECT" /\ recvCmd \in {"ERROR", "TCP_CONNECT"})
  <2>1. task = "TCP_CONNECT" /\ ~busy /\ UNCHANGED adapter
    BY DEF MATASK_TCP_Connect
  <2>2. TypeList /\ connMode = "PPP" /\ Answered /\ Awaited
    BY <2>1, RunsInEach DEF TaskInv, IInv, TypeOK, ModeInv, TcpTasks, Running
  <2>3. SlotList /\ ~usedSockets[0] /\ held = {} /\ taskStep \in {0, 1}
    BY <2>1, <2>2 DEF ListInv, TcpList, SlotList, TcpTasks
  <2>4. taskStep = 0 => Live = {} /\ ~Nega({"DATA"})
    BY <2>1 DEF ListInv, BeforeList, Before
  <2>5. taskStep = 1 => AwaitsConnect(task, taskStep)
    BY <2>1 DEF AwaitsConnect
  <2>6. taskStep = 1 => /\ Live \subseteq Arriving /\ (Arrived => recvData \in Live)
                        /\ sendCmd = "TCP_CONNECT" /\ recvCmd \in {"ERROR", "TCP_CONNECT"}
    BY <2>1, <2>2, <2>5 DEF ListInv, AwaitList, Awaited, Answered
  <2> QED
    BY <2>1, <2>2, <2>3, <2>4, <2>6 DEF TcpTasks
<1>1. Live' = Live /\ open' = open /\ Live \subseteq open
  BY <1>0 DEF Live
<1>2. CASE Nega({"TCP_CONNECT"}) /\ connMode' = "PPP" /\ TaskFails /\ UNCHANGED <<table, held>>
  <2>1. task' = "NONE" /\ error' /\ Used' = {} /\ SlotList'
    BY <1>0, <1>1, <1>2, PartsList DEF SlotList, table, TcpTasks
  <2>2. Live = {}
    BY <1>0, <1>2 DEF Arriving, Arrived
  <2> QED
    BY <1>0, <1>1, <1>2, <2>1, <2>2, PhaseLists DEF RestList
<1>3. CASE Command("TCP_CONNECT", 0, "own", 1) /\ At(0) /\ UNCHANGED <<table, connMode, held>>
  <2>1. Used' = {} /\ SlotList' /\ TcpList' /\ task' = task /\ taskStep' = 1 /\ ~tcpClosed' /\ Arriving' = {} /\ ~Arrived'
    BY <1>0, <1>1, <1>3, PartsList DEF SlotList, TcpList, table, TcpTasks, Arriving, Arrived
  <2> QED
    BY <1>0, <1>1, <1>3, <2>1, PhaseLists DEF BeforeList, AwaitList, UseList, CloseList,
       Before, Closes, Uses, AwaitsConnect, TcpTasks, MailTasks, SettingsTasks, Quits, Connects
<1>4. CASE /\ ~Nega({"TCP_CONNECT"}) /\ At(1) /\ MAU_Socket_Add(recvData) /\ held' = held \cup {recvData}
           /\ TaskEnds /\ UNCHANGED connMode
  <2>1. /\ usedSockets'[0] /\ sockets'[0] = recvData /\ ~usedSockets'[1] /\ sockets'[1] = 0
        /\ task' = "NONE" /\ sendCmd' = "TCP_CONNECT" /\ recvCmd' = "TCP_CONNECT"
    BY <1>0, <1>4, Slot0Ops, PartsList DEF SlotList, TaskEnds
  <2>2. SlotList' /\ Used' = {recvData}
    BY <1>0, <1>4, <2>1 DEF SlotList, TcpTasks
  <2>3. Live \subseteq {recvData} /\ recvData \in open
    BY <1>0, <1>1, <1>4, MainRuns DEF Arriving, Arrived, MATASK_TCP_Connect
  <2> QED
    BY <1>0, <1>1, <1>4, <2>1, <2>2, <2>3, PhaseLists DEF RestList
<1> QED
  BY <1>0, <1>2, <1>3, <1>4 DEF MATASK_TCP_Connect

LEMMA DisconnectLists ==
  ASSUME TaskInv, ListInv, TypeList', MATASK_TCP_Disconnect
  PROVE  ListInv'
<1> USE SameLive, UsedSlot0 DEF Runs, At, Nega
<1>0. /\ TypeList /\ connMode = "PPP" /\ task = "TCP_DISCONNECT" /\ task \in TcpTasks
      /\ SlotList /\ usedSockets[0] /\ sockets[0] = param /\ held = {} /\ Live \subseteq {param}
      /\ UNCHANGED <<adapter, held>>
      /\ (taskStep = 1 => Live = {} /\ sendCmd = "TCP_DISCONNECT")
  BY RunsInEach DEF TaskInv, IInv, TypeOK, ModeInv, ListInv, TcpList, CloseList, Closes,
     MATASK_TCP_Disconnect, TcpTasks
<1>1. Live' = Live /\ open' = open
  BY <1>0
<1>2. CASE At(0) /\ Command("TCP_DISCONNECT", param, "empty", 1) /\ UNCHANGED <<table, connMode>>
  <2>1. /\ SlotList' /\ TcpList' /\ task' = task /\ taskStep' = 1
        /\ busy' /\ sendCmd' = "TCP_DISCONNECT" /\ sendSocket' = param
    BY <1>0, <1>1, <1>2, PartsList DEF SlotList, TcpList, table, TcpTasks
  <2> QED
    BY <1>0, <1>1, <1>2, <2>1, PhaseLists DEF BeforeList, AwaitList, UseList, CloseList,
       Before, Closes, Uses, AwaitsConnect, TcpTasks, MailTasks, SettingsTasks, Quits, Connects
<1>3. CASE /\ At(1) /\ usedSockets' = [MAU_Socket_Delete(param) EXCEPT ![0] = FALSE]
           /\ sockets' = [sockets EXCEPT ![0] = 0] /\ connMode' = "PPP" /\ TaskEnds
  <2>1. ~usedSockets'[0] /\ ~usedSockets'[1] /\ sockets'[1] = 0
    <3>1. DOMAIN sockets = Slots /\ 0 \in Slots /\ 1 \in Slots
      BY <1>0 DEF TypeList, Slots, NUM_SOCKETS
    <3> QED
      BY <1>0, <1>3, <3>1, Slot0Ops DEF SlotList
  <2>2. task' = "NONE" /\ sendCmd' = "TCP_DISCONNECT" /\ SlotList' /\ Used' = {}
    BY <1>0, <1>3, <2>1, PartsList DEF SlotList, TaskEnds, TcpTasks
  <2> QED
    BY <1>0, <1>1, <1>3, <2>2, PhaseLists DEF RestList
<1> QED
  BY <1>0, <1>2, <1>3 DEF MATASK_TCP_Disconnect

LEMMA SendRecvLists ==
  ASSUME TaskInv, ListInv, TypeList', MATASK_TCP_SendRecv
  PROVE  ListInv'
<1> USE SameLive, UsedSlot0 DEF Runs, At, Nega
<1>0. /\ TypeList /\ connMode = "PPP" /\ task = "TCP_SENDRECV" /\ task \in TcpTasks /\ ~busy
      /\ SlotList /\ InSlot0 /\ sockets[0] = param /\ held = {param}
      /\ (sockets[0] \in open <=> ~Gone) /\ ~Nega({"TCP_CONNECT", "DNS_REQUEST"})
      /\ UNCHANGED <<adapter, connMode>>
  BY RunsInEach DEF TaskInv, IInv, TypeOK, ModeInv, ListInv, TcpList, UseList, Uses, Talks,
     MATASK_TCP_SendRecv, TcpTasks
<1>1. Live' = Live /\ open' = open /\ Live \subseteq open
  BY <1>0 DEF Live
<1>2. CASE /\ Nega({"DATA"}) \/ tcpClosed
           /\ usedSockets' = MAU_Socket_Delete(param) /\ UNCHANGED sockets
           /\ held' = held \ {param} /\ TaskFails
  <2>1. task' = "NONE" /\ error' /\ ~usedSockets'[0] /\ ~usedSockets'[1] /\ sockets'[1] = 0 /\ held' = {}
    BY <1>0, <1>2, PartsList, Slot0Ops DEF SlotList
  <2>2. Live = {}
    BY <1>0, <1>1, <1>2 DEF Gone, InSlot0
  <2>3. SlotList' /\ Used' = {}
    BY <1>0, <1>1, <2>1 DEF SlotList, TcpTasks
  <2> QED
    BY <1>0, <1>1, <2>1, <2>2, <2>3, PhaseLists DEF RestList
<1>3. CASE ~(Nega({"DATA"}) \/ tcpClosed) /\ Command("DATA", param, "empty", 1) /\ UNCHANGED <<table, held>>
  <2>1. /\ SlotList' /\ TcpList' /\ task' = task /\ taskStep' = 1 /\ param' = param
        /\ busy' /\ sendCmd' = "DATA" /\ sendSocket' = param /\ ~tcpClosed' /\ recvCmd' = "none"
    BY <1>0, <1>1, <1>3, PartsList DEF SlotList, TcpList, table, TcpTasks
  <2>2. UseList'
    <3>1. InSlot0' /\ Talks' /\ ~Nega({"TCP_CONNECT", "DNS_REQUEST"})' /\ ~Gone'
      BY <1>0, <1>1, <1>3, <2>1 DEF InSlot0, Talks, Gone, table
    <3>2. sockets'[0] \in open'
      BY <1>0, <1>1, <1>3 DEF table, Gone
    <3> QED
      BY <1>0, <2>1, <3>1, <3>2 DEF UseList, Connects
  <2> QED
    BY <1>0, <1>1, <2>1, <2>2, PhaseLists DEF BeforeList, AwaitList, CloseList,
       Before, Closes, AwaitsConnect, TcpTasks, MailTasks, SettingsTasks, Quits, Connects
<1>4. CASE ~(Nega({"DATA"}) \/ tcpClosed) /\ TaskEnds /\ UNCHANGED <<table, held>>
  <2>1. task' = "NONE" /\ ~Nega({"DATA", "TCP_CONNECT", "DNS_REQUEST"})'
    BY <1>0, <1>4, PartsList DEF TaskEnds
  <2>2. SlotList' /\ Used' = {param} /\ held' = {param} /\ param \in open /\ Live \subseteq {param}
    BY <1>0, <1>1, <1>4, <2>1 DEF SlotList, table, TcpTasks, InSlot0, Gone
  <2> QED
    BY <1>0, <1>1, <2>1, <2>2, PhaseLists DEF RestList
<1> QED
  BY <1>0, <1>2, <1>3, <1>4 DEF MATASK_TCP_SendRecv

LEMMA OfflineLists ==
  ASSUME TaskInv, ListInv, TypeList', MATASK_Offline
  PROVE  ListInv'
<1> USE SameLive, UsedSlot0 DEF Runs, At, Nega
<1>0. /\ TypeList /\ task = "OFFLINE" /\ task \notin TcpTasks /\ ~busy /\ connMode \in {"PPP", "SMTP", "POP3"}
      /\ SlotList /\ held = {} /\ taskStep \in (0..3) \cup (100..103)
      /\ (taskStep \in 0..3 => Live \subseteq Used) /\ (taskStep \in 1..3 => sendCmd \in Leaving /\ Live = {})
      /\ (taskStep \in 100..102 => InSlot0 /\ ~Nega({"TCP_CONNECT", "DNS_REQUEST"}))
      /\ (taskStep = 103 => Live = {} /\ sendCmd = "TCP_DISCONNECT") /\ UNCHANGED <<adapter, held>>
  <2>1. task = "OFFLINE" /\ ~busy /\ UNCHANGED <<adapter, held>>
    BY DEF MATASK_Offline
  <2>2. TypeList /\ connMode \in {"PPP", "SMTP", "POP3"}
    BY <2>1, RunsInEach DEF TaskInv, IInv, TypeOK, ModeInv
  <2>3. SlotList /\ held = {} /\ EndList
    BY <2>1 DEF ListInv, SlotList, TcpTasks
  <2>4. taskStep \in 100..102 => InSlot0 /\ ~Nega({"TCP_CONNECT", "DNS_REQUEST"})
    BY <2>1 DEF ListInv, UseList, Uses
  <2>5. taskStep = 103 => Live = {} /\ sendCmd = "TCP_DISCONNECT"
    BY <2>1 DEF ListInv, CloseList, Closes
  <2>6. /\ taskStep \in (0..3) \cup (100..103)
        /\ (taskStep \in 0..3 => Live \subseteq Used) /\ (taskStep \in 1..3 => sendCmd \in Leaving /\ Live = {})
    BY <2>1, <2>3 DEF EndList
  <2> QED
    BY <2>1, <2>2, <2>3, <2>4, <2>5, <2>6 DEF TcpTasks
<1>1. Live' = Live /\ open' = open
  BY <1>0
<1>2. InSlot0 => Live \subseteq Used
  BY <1>0 DEF SlotList, InSlot0
<1>3. ASSUME NEW cmd \in Leaving, NEW step \in 1..3, Command(cmd, 0, "empty", step),
             UNCHANGED <<table, connMode>>, Live \subseteq Used, step > 1 => Live = {}
      PROVE  ListInv'
  <2>1. task' = task /\ taskStep' = step /\ busy' /\ sendCmd' = cmd
    BY <1>3, PartsList
  <2>2. SlotList' /\ Used' = Used
    BY <1>0, <1>1, <1>3, <2>1 DEF SlotList, table
  <2>3. EndList'
    BY <1>0, <1>1, <1>3, <2>1, <2>2 DEF EndList
  <2> QED
    BY <1>0, <2>1, <2>2, <2>3, PhaseLists
<1>4. ASSUME NEW text, NEW step \in {101}, taskStep \in 100..101, Command("DATA", sockets[0], text, step),
             UNCHANGED <<table, connMode>>
      PROVE  ListInv'
  <2>1. task' = task /\ taskStep' = 101 /\ busy' /\ sendCmd' = "DATA" /\ sendSocket' = sockets'[0] /\ recvCmd' = "none"
    BY <1>4, PartsList DEF table
  <2>2. SlotList' /\ InSlot0' /\ Uses(task', taskStep')
    BY <1>0, <1>1, <1>4, <2>1 DEF SlotList, table, Uses, InSlot0
  <2>3. UseList'
    BY <1>0, <2>1, <2>2 DEF UseList, Talks, MailTasks, Connects
  <2> QED
    BY <1>0, <2>1, <2>2, <2>3, PhaseLists
<1>5. CASE Nega({"DATA"}) \/ At(0)
  BY <1>0, <1>2, <1>3, <1>5 DEF MATASK_Offline, Leaving
<1>6. CASE At(1) /\ Command("OFFLINE", 0, "empty", 2) /\ UNCHANGED <<table, connMode, prevBuf>>
  BY <1>0, <1>3, <1>6 DEF Leaving
<1>7. CASE At(2) /\ Command("END", 0, "empty", 3) /\ UNCHANGED <<table, connMode, prevBuf>>
  BY <1>0, <1>3, <1>7 DEF Leaving
<1>8. CASE At(3) /\ connMode' = "OFFLINE" /\ MAU_Socket_Clear /\ TaskEnds
  <2>1. task' = "NONE" /\ sendCmd' \in Leaving /\ ~usedSockets'[0] /\ ~usedSockets'[1] /\ sockets'[1] = 0
    BY <1>0, <1>8, PartsList, Slot0Ops DEF SlotList, TaskEnds
  <2>2. SlotList' /\ RestList'
    BY <1>0, <1>1, <1>8, <2>1 DEF SlotList, RestList, Leaving
  <2> QED
    BY <2>1, <2>2, PhaseLists
<1>9. CASE At(100) /\ SayLine("QUIT", 101) /\ UNCHANGED <<table, connMode>>
  BY <1>4, <1>9 DEF SayLine
<1>10. CASE At(101) /\ ReadOn /\ UNCHANGED <<table, connMode>>
  BY <1>4, <1>10 DEF ReadOn
<1>11. CASE At(101) /\ Goes(102) /\ UNCHANGED <<table, connMode>>
  <2>1. task' = task /\ taskStep' = 102 /\ ~busy' /\ sendCmd' = sendCmd /\ recvCmd' = recvCmd
    BY <1>0, <1>11, PartsList
  <2>2. SlotList' /\ InSlot0' /\ Uses(task', taskStep')
    BY <1>0, <1>1, <1>11, <2>1 DEF SlotList, table, Uses, InSlot0
  <2>3. UseList'
    BY <1>0, <1>11, <2>1, <2>2 DEF UseList, Talks, MailTasks, Connects
  <2> QED
    BY <1>0, <2>1, <2>2, <2>3, PhaseLists
<1>12. CASE At(102) /\ Command("TCP_DISCONNECT", sockets[0], "empty", 103) /\ UNCHANGED <<table, connMode, prevBuf>>
  <2>1. task' = task /\ taskStep' = 103 /\ busy' /\ sendCmd' = "TCP_DISCONNECT" /\ sendSocket' = sockets[0]
    BY <1>12, PartsList
  <2>2. SlotList' /\ CloseList' /\ Closes(task', taskStep')
    BY <1>0, <1>1, <1>12, <2>1 DEF SlotList, table, Closes, InSlot0, CloseList
  <2> QED
    BY <1>0, <2>1, <2>2, PhaseLists
<1>13. CASE At(103) /\ connMode' = "PPP" /\ FreeSlot0 /\ Goes(0)
  <2>1. task' = task /\ taskStep' = 0 /\ ~busy' /\ ~usedSockets'[1] /\ sockets'[1] = 0
    BY <1>0, <1>13, PartsList, Slot0Ops DEF SlotList
  <2>2. SlotList' /\ EndList'
    BY <1>0, <1>1, <1>13, <2>1 DEF SlotList, EndList
  <2> QED
    BY <1>0, <2>1, <2>2, PhaseLists
<1> QED
  BY <1>0, <1>5, <1>6, <1>7, <1>8, <1>9, <1>10, <1>11, <1>12, <1>13 DEF MATASK_Offline

LEMMA CutLists ==
  ASSUME TaskInv, ListInv, TypeList', MATASK_TCP_Cut
  PROVE  ListInv'
<1> USE SameLive, UsedSlot0 DEF Runs, At
<1>0. /\ TypeList /\ task = "TCP_CUT" /\ task \notin TcpTasks /\ ~busy /\ connMode # "OFFLINE"
      /\ SlotList /\ held = {} /\ UNCHANGED <<adapter, held>>
      /\ (taskStep = 0 => Live \subseteq IF cutCmd = "TCP_CONNECT" THEN Arriving ELSE Used)
      /\ (taskStep = 2 => Live \subseteq {sockets[0]}) /\ (taskStep = 3 => Live = {})
  <2>1. task = "TCP_CUT" /\ ~busy /\ UNCHANGED <<adapter, held>>
    BY DEF MATASK_TCP_Cut
  <2>2. TypeList /\ connMode # "OFFLINE"
    BY <2>1, RunsInEach DEF TaskInv, IInv, TypeOK, ModeInv
  <2>3. SlotList /\ held = {} /\ EndList
    BY <2>1 DEF ListInv, SlotList, TcpTasks
  <2>4. taskStep = 3 => Live = {}
    BY <2>1 DEF ListInv, CloseList, Closes
  <2>5. /\ (taskStep = 0 => Live \subseteq IF cutCmd = "TCP_CONNECT" THEN Arriving ELSE Used)
        /\ (taskStep = 2 => Live \subseteq {sockets[0]})
    BY <2>1, <2>3 DEF EndList
  <2> QED
    BY <2>1, <2>2, <2>3, <2>4, <2>5 DEF TcpTasks
<1>1. Live' = Live /\ open' = open
  BY <1>0
<1> DEFINE connected == cutCmd = "TCP_CONNECT" /\ recvCmd # "ERROR"
<1>2. ASSUME NEW socket, Command("TCP_DISCONNECT", socket, "empty", 3), Live \subseteq {socket},
             UNCHANGED <<usedSockets, connMode>>, sockets'[1] = sockets[1]
      PROVE  ListInv'
  <2>1. task' = task /\ taskStep' = 3 /\ busy' /\ sendCmd' = "TCP_DISCONNECT" /\ sendSocket' = socket
    BY <1>2, PartsList
  <2>2. SlotList' /\ CloseList' /\ Closes(task', taskStep')
    BY <1>0, <1>1, <1>2, <2>1 DEF SlotList, table, Closes, CloseList
  <2> QED
    BY <1>0, <2>1, <2>2, PhaseLists
<1>3. CASE /\ At(0) /\ connected
           /\ sockets' = [sockets EXCEPT ![0] = recvData]
           /\ Command("TCP_DISCONNECT", recvData, "empty", 3) /\ UNCHANGED <<usedSockets, connMode>>
  <2>1. DOMAIN sockets = Slots /\ 0 \in Slots /\ 1 \in Slots
    BY <1>0 DEF TypeList, Slots, NUM_SOCKETS
  <2> QED
    BY <1>0, <1>2, <1>3, <2>1 DEF Arriving
<1>4. CASE At(0) /\ ~connected /\ ~usedSockets[0] /\ Goes(3) /\ UNCHANGED <<table, connMode>>
  <2>1. task' = task /\ taskStep' = 3 /\ ~busy'
    BY <1>0, <1>4, PartsList
  <2>2. Live = {}
    BY <1>0, <1>4 DEF Arriving, Arrived, SlotList
  <2>3. SlotList' /\ CloseList' /\ Closes(task', taskStep')
    BY <1>0, <1>1, <1>4, <2>1, <2>2 DEF SlotList, table, Closes, CloseList
  <2> QED
    BY <1>0, <2>1, <2>3, PhaseLists
<1>5. CASE /\ At(2) \/ (At(0) /\ ~connected /\ usedSockets[0])
           /\ Command("TCP_DISCONNECT", sockets[0], "empty", 3) /\ UNCHANGED <<table, connMode>>
  <2>1. Live \subseteq {sockets[0]}
    BY <1>0, <1>5 DEF Arriving, Arrived, SlotList
  <2> QED
    BY <1>2, <1>5, <2>1 DEF table
<1>6. CASE At(3) /\ connMode' = "PPP" /\ FreeSlot0 /\ task' = "NONE" /\ recvCmd' = "none"
  <2>1. ~usedSockets'[0] /\ ~usedSockets'[1] /\ sockets'[1] = 0
    BY <1>0, <1>6, Slot0Ops DEF SlotList
  <2>2. SlotList' /\ Used' = {}
    BY <1>0, <1>1, <1>6, <2>1 DEF SlotList
  <2>3. RestList'
    BY <1>0, <1>1, <1>6, <2>2 DEF RestList, Nega
  <2> QED
    BY <1>6, <2>2, <2>3, PhaseLists
<1> QED
  BY <1>0, <1>3, <1>4, <1>5, <1>6 DEF MATASK_TCP_Cut

LEMMA MailPhases ==
  /\ \A t \in MailTasks \ (Connects \cup Quits) : \A step : Uses(t, step) <=> step # 241
  /\ \A t \in Quits : \A step : Uses(t, step) <=> step \notin {3, 241}
  /\ \A t \in Connects : \A step : Uses(t, step) <=> step \notin {0, 1, 2, 241}
  /\ \A t \in MailTasks : \A step :
       Uses(t, step) \/ Closes(t, step) \/ (t \in Connects /\ (Before(t, step) \/ AwaitsConnect(t, step)))
  /\ \A t \in MailTasks : Closes(t, 241)
<1> USE DEF Uses, Before, Closes, AwaitsConnect, MailTasks, SettingsTasks, Quits, Connects
<1>1. \A t \in MailTasks \ (Connects \cup Quits) : \A step : Uses(t, step) <=> step # 241
  OBVIOUS
<1>2. \A t \in Quits : \A step : Uses(t, step) <=> step \notin {3, 241}
  OBVIOUS
<1>3. \A t \in Connects : \A step : Uses(t, step) <=> step \notin {0, 1, 2, 241}
  OBVIOUS
<1>4. \A t \in MailTasks : \A step :
       Uses(t, step) \/ Closes(t, step) \/ (t \in Connects /\ (Before(t, step) \/ AwaitsConnect(t, step)))
  OBVIOUS
<1>5. \A t \in MailTasks : Closes(t, 241)
  OBVIOUS
<1> QED
  BY <1>1, <1>2, <1>3, <1>4, <1>5

\* A step of a mail task that goes on with its connection, or is over.
Carries ==
  /\ UNCHANGED <<table, connMode, adapter, held>>
  /\ \/ \E text, step : Command("DATA", sockets[0], text, step) /\ Uses(task, step)
     \/ task' = task /\ Uses(task, taskStep') /\ UNCHANGED <<tcpClosed, bios>>
     \/ task' = "NONE" /\ UNCHANGED <<error, sendCmd, recvCmd>>

LEMMA CarriesLists ==
  ASSUME TaskInv, ListInv, TypeList', task \in MailTasks, Uses(task, taskStep), ~busy, ~Gone, Carries,
         task' = "NONE" => connMode \in {"SMTP", "POP3"}
  PROVE  ListInv'
<1> USE SameLive DEF Nega
<1>0. /\ SlotList /\ InSlot0 /\ sockets[0] \in open /\ held = {} /\ task \notin TcpTasks \cup {"NONE"}
      /\ ~Nega({"DATA", "TCP_CONNECT", "DNS_REQUEST"}) /\ connMode # "OFFLINE"
      /\ (task \in Connects => sendCmd = "DATA")
  <2>1. task \notin TcpTasks \cup {"NONE"}
    BY DEF TcpTasks, MailTasks
  <2>2. connMode # "OFFLINE"
    BY RunsInEach DEF TaskInv, ModeInv, MailTasks
  <2>3. UseList /\ SlotList
    BY DEF ListInv
  <2> QED
    BY <2>1, <2>2, <2>3 DEF UseList, SlotList, Gone
<1>1. Live' = Live /\ open' = open /\ UNCHANGED <<table, connMode, held>>
  BY DEF Carries
<1>2. CASE task' = "NONE" /\ UNCHANGED <<error, sendCmd, recvCmd>>
  <2>1. SlotList' /\ InSlot0'
    BY <1>0, <1>1, <1>2 DEF SlotList, InSlot0, table
  <2>2. RestList'
    BY <1>0, <1>1, <1>2, <2>1 DEF RestList, table
  <2> QED
    BY <1>2, <2>1, <2>2, PhaseLists
<1>3. ASSUME task' = task, Uses(task, taskStep'), Talks', ~Gone', ~Nega({"TCP_CONNECT", "DNS_REQUEST"})',
             task \in Connects => sendCmd' = "DATA"
      PROVE  ListInv'
  <2>1. SlotList' /\ InSlot0' /\ sockets'[0] \in open'
    BY <1>0, <1>1, <1>3 DEF SlotList, InSlot0, table
  <2>2. UseList'
    BY <1>3, <2>1 DEF UseList
  <2> QED
    BY <1>0, <1>3, <2>1, <2>2, PhaseLists DEF TcpTasks
<1>4. CASE task' = task /\ Uses(task, taskStep') /\ UNCHANGED <<tcpClosed, bios>>
  BY <1>0, <1>3, <1>4 DEF Talks, Gone, bios
<1>5. ASSUME NEW text, NEW step, Command("DATA", sockets[0], text, step), Uses(task, step)
      PROVE  ListInv'
  BY <1>1, <1>3, <1>5, PartsList DEF Talks, Gone, table
<1> QED
  BY <1>2, <1>4, <1>5 DEF Carries

LEMMA TroubleLists ==
  ASSUME TaskInv, ListInv, TypeList', NEW t \in MailTasks, MailTrouble(t)
  PROVE  ListInv'
<1> USE SameLive, UsedSlot0 DEF Runs, At, Nega
<1>0. /\ TypeList /\ task = t /\ task \in MailTasks /\ ~busy /\ ~error /\ SlotList /\ held = {} /\ UNCHANGED <<adapter, held>>
      /\ task \notin TcpTasks \cup {"NONE"} /\ connMode # "OFFLINE"
  <2>1. task = t /\ ~busy /\ ~error /\ UNCHANGED <<adapter, held>>
    BY DEF MailTrouble
  <2>2. task \notin TcpTasks \cup {"NONE"}
    BY <2>1 DEF TcpTasks, MailTasks
  <2>3. connMode # "OFFLINE"
    BY <2>1, RunsInEach DEF TaskInv, ModeInv, MailTasks
  <2> QED
    BY <2>1, <2>2, <2>3 DEF ListInv, SlotList, TaskInv, IInv, TypeOK
<1>1. Live' = Live /\ open' = open /\ Live \subseteq open
  BY <1>0 DEF Live
<1>2. Before(task, taskStep) => Live = {} /\ ~Nega({"DATA"})
  BY DEF ListInv, BeforeList
<1>3. AwaitsConnect(task, taskStep) => ~tcpClosed /\ sendCmd = "TCP_CONNECT" /\ (recvCmd = "ERROR" => Live = {})
  BY DEF ListInv, AwaitList, TaskInv, IInv, Running, Awaited, Arriving, Arrived
<1>4. Closes(task, taskStep) => Live = {} /\ sendCmd = "TCP_DISCONNECT"
  BY <1>0 DEF ListInv, CloseList, MailTasks
<1>5. Uses(task, taskStep) =>
        InSlot0 /\ ~Nega({"TCP_CONNECT", "DNS_REQUEST"}) /\ (sockets[0] \in open <=> ~Gone)
  BY <1>0 DEF ListInv, UseList
<1>6. \/ Uses(task, taskStep) \/ Closes(task, taskStep) \/ Before(task, taskStep) \/ AwaitsConnect(task, taskStep)
  BY <1>0, MailPhases
<1>7. ASSUME connMode' = "PPP", TaskFails, ~usedSockets'[0], ~usedSockets'[1], sockets'[1] = 0, Live = {}
      PROVE  ListInv'
  <2>1. task' = "NONE" /\ error'
    BY <1>7, PartsList
  <2>2. SlotList' /\ Used' = {}
    BY <1>0, <1>1, <1>7, <2>1 DEF SlotList
  <2>3. RestList'
    BY <1>0, <1>1, <1>7, <2>1, <2>2 DEF RestList
  <2> QED
    BY <2>1, <2>2, <2>3, PhaseLists
<1>8. CASE MailClosed
  <2>1. Live = {}
    BY <1>1, <1>2, <1>3, <1>4, <1>5, <1>6, <1>8 DEF MailClosed, Gone, InSlot0
  <2>2. ~usedSockets'[0] /\ ~usedSockets'[1] /\ sockets'[1] = 0
    BY <1>0, <1>8, Slot0Ops DEF MailClosed, SlotList
  <2> QED
    BY <1>7, <1>8, <2>1, <2>2 DEF MailClosed
<1>9. CASE (Nega({"DATA"}) \/ At(240)) /\ MailGivenUp
  <2>1. Uses(task, taskStep)
    <3>1. CASE Nega({"DATA"})
      BY <1>2, <1>3, <1>4, <1>6, <3>1
    <3>2. CASE At(240)
      BY <1>0, <3>2 DEF Uses, Before, AwaitsConnect, Closes, MailTasks, SettingsTasks, Quits, Connects
    <3> QED
      BY <1>9, <3>1, <3>2
  <2>2. /\ task' = task /\ taskStep' = 241 /\ busy' /\ sendCmd' = "TCP_DISCONNECT" /\ sendSocket' = sockets[0]
        /\ UNCHANGED <<table, connMode>>
    BY <1>9, PartsList DEF MailGivenUp
  <2>3. SlotList' /\ CloseList' /\ Closes(task', taskStep')
    BY <1>0, <1>1, <1>5, <2>1, <2>2, MailPhases DEF SlotList, table, CloseList, InSlot0
  <2> QED
    BY <1>0, <2>2, <2>3, PhaseLists DEF TcpTasks
<1>10. CASE (Nega({"TCP_CONNECT", "DNS_REQUEST"}) \/ (At(241) /\ ~Nega({"DATA"}))) /\ MailFails
  <2>1. Live = {}
    <3>1. At(241) => ~Uses(task, taskStep) /\ ~Before(task, taskStep) /\ ~AwaitsConnect(task, taskStep)
      BY <1>0 DEF Uses, Before, AwaitsConnect, Closes, MailTasks, SettingsTasks, Quits, Connects
    <3> QED
      BY <1>2, <1>3, <1>4, <1>5, <1>6, <1>10, <3>1
  <2>2. ~usedSockets'[0] /\ ~usedSockets'[1] /\ sockets'[1] = 0
    BY <1>0, <1>10, Slot0Ops DEF MailFails, SlotList, FreeSlot
  <2> QED
    BY <1>7, <1>10, <2>1, <2>2 DEF MailFails
<1> QED
  BY <1>8, <1>9, <1>10 DEF MailTrouble

\* The parts of mail tasks that say or read something.
LEMMA PartsCarry ==
  ASSUME Same, UNCHANGED <<adapter, held>>
  PROVE  /\ \A text, step : Uses(task, step) /\ SayLine(text, step) => Carries
         /\ \A text, step : Uses(task, step) /\ Command("DATA", sockets[0], text, step) => Carries
         /\ Uses(task, taskStep) /\ ReadOn => Carries
         /\ \A step : Uses(task, step) /\ Goes(step) => Carries
         /\ TaskDone => Carries
         /\ \A chunk : Overflow(chunk) => Carries
<1> USE DEF Same
<1>1. ASSUME NEW text, NEW step, Uses(task, step), Command("DATA", sockets[0], text, step)
      PROVE  Carries
  BY <1>1, Zenon DEF Carries
<1>2. ASSUME NEW step, Uses(task, step), Goes(step) PROVE Carries
  <2>1. task' = task /\ Uses(task, taskStep') /\ UNCHANGED <<tcpClosed, bios>>
    BY <1>2 DEF Goes, flags
  <2> QED
    BY <2>1, Zenon DEF Carries
<1>3. TaskDone => Carries
  BY DEF TaskDone, Carries, bios
<1>4. ASSUME NEW chunk, Overflow(chunk) PROVE Carries
  BY <1>4 DEF Overflow, KeepRest, Carries
<1> QED
  BY <1>1, <1>2, <1>3, <1>4 DEF SayLine, ReadOn

LEMMA ReadsCarry ==
  ASSUME UNCHANGED <<adapter, held>>, NEW s, Uses(task, s), Uses(task, 240)
  PROVE  /\ \A text, step : Uses(task, step) /\ Reads(s, SayLine(text, step)) => Carries
         /\ \A step : Uses(task, step) /\ Reads(s, ReadTo(step)) => Carries
BY PartsCarry DEF Reads, ReadTo, At

LEMMA MailTasksLists ==
  ASSUME TaskInv, ListInv, NextInv, TypeList', MAAPI_Main, MailTasksStep
  PROVE  ListInv'
<1> USE DEF Runs, At
<1>0. /\ task \in MailTasks /\ TypeList /\ 0 \in Slots /\ 1 \in Slots /\ DOMAIN sockets = Slots
      /\ usedSockets \in [Slots -> BOOLEAN] /\ ~busy
  BY TasksOf, MainRuns DEF TaskInv, IInv, TypeOK, TypeList, Slots, NUM_SOCKETS
<1>1. ASSUME NEW t, MailTrouble(t) PROVE ListInv'
  BY <1>0, <1>1, TroubleLists DEF MailTrouble
<1>2. ASSUME NEW t, MailRuns(t) PROVE task = t /\ UNCHANGED <<adapter, held>> /\ ~Gone
  BY <1>2 DEF MailRuns, Gone, Nega
<1>3. ASSUME NEW t, MailRuns(t), Uses(task, taskStep), Carries, task' = "NONE" => connMode \in {"SMTP", "POP3"}
      PROVE  ListInv'
  BY <1>0, <1>2, <1>3, CarriesLists
<1>4. task \notin Connects => connMode \in {"SMTP", "POP3"}
  BY <1>0, RunsInEach DEF TaskInv, ModeInv, MailTasks, Connects
<1>5. \A text : \A step : Uses(task, step) => "NONE" # task
  BY <1>0 DEF MailTasks
<1>6. ASSUME NEW t \in MailTasks \ (Connects \cup Quits), MailRuns(t), taskStep # 241, Carries
      PROVE  ListInv'
  BY <1>2, <1>3, <1>4, <1>6, MailPhases
<1>7. CASE MATASK_SMTP_Sender
  <2>1. CASE MailTrouble("SMTP_SENDER")
    BY <1>1, <2>1
  <2> SUFFICES ASSUME ~MailTrouble("SMTP_SENDER") PROVE ListInv'
    BY <2>1
  <2>2. MailRuns("SMTP_SENDER") /\ \A step : Uses(task, step) <=> step # 241
    BY <1>2, <1>7, MailPhases DEF MATASK_SMTP_Sender, MailTasks, Connects, Quits
  <2>3. Carries /\ taskStep # 241
    BY <1>2, <1>7, <2>2, PartsCarry, ReadsCarry DEF MATASK_SMTP_Sender, Reads
  <2> QED
    BY <1>6, <2>2, <2>3 DEF MailTasks, Connects, Quits
<1>8. CASE MATASK_SMTP_Send
  <2>1. CASE MailTrouble("SMTP_SEND")
    BY <1>1, <2>1
  <2> SUFFICES ASSUME ~MailTrouble("SMTP_SEND") PROVE ListInv'
    BY <2>1
  <2>2. task = "SMTP_SEND" /\ MailRuns("SMTP_SEND") /\ \A step : Uses(task, step) <=> step # 241
    BY <1>2, <1>8, MailPhases DEF MATASK_SMTP_Send, MailTasks, Connects, Quits
  <2>3. Reads(2, ReadTo(3)) \/ Reads(101, ReadTo(1)) => Carries /\ taskStep # 241
    BY <1>2, <2>2, PartsCarry, ReadsCarry DEF Reads
  <2>4. ASSUME SendSteps, Same PROVE Carries /\ taskStep # 241
    <3>1. taskStep \in {0, 1, 3, 50, 100}
      BY <2>4 DEF SendSteps
    <3>2. CASE taskStep' = 100 /\ UNCHANGED <<task, tcpClosed, bios>>
      BY <1>2, <2>2, <2>4, <3>1, <3>2 DEF Carries, Same
    <3>3. CASE SendPiece
      BY <1>2, <2>2, <2>4, <3>1, <3>3, PartsCarry DEF SendPiece
    <3>4. CASE At(50) /\ Goes(mail.next)
      BY <1>2, <2>2, <2>4, <3>1, <3>4, PartsCarry DEF NextInv
    <3>5. CASE At(3) /\ TaskEnds
      BY <1>2, <2>2, <2>4, <3>1, <3>5, PartsCarry DEF TaskEnds
    <3>6. CASE At(100) /\ SayLine("DATA", 50)
      BY <1>2, <2>2, <2>4, <3>1, <3>6, PartsCarry
    <3> QED
      BY <2>4, <3>2, <3>3, <3>4, <3>5, <3>6 DEF SendSteps
  <2> QED
    BY <1>6, <1>8, <2>2, <2>3, <2>4 DEF MATASK_SMTP_Send, MailTasks, Connects, Quits
<1>9. ASSUME NEW t \in DOMAIN [POP3_STAT |-> 2, POP3_LIST |-> 100, POP3_DELE |-> 2], NEW command, NEW end \in {2, 100},
             Asks(t, command, end)
      PROVE  ListInv'
  <2>1. CASE MailTrouble(t)
    BY <1>1, <2>1
  <2> SUFFICES ASSUME ~MailTrouble(t) PROVE ListInv'
    BY <2>1
  <2>2. t \in MailTasks \ (Connects \cup Quits) /\ MailRuns(t) /\ \A step : Uses(task, step) <=> step # 241
    BY <1>2, <1>9, MailPhases DEF Asks, MailTasks, Connects, Quits
  <2>3. Ends(end) => Carries /\ taskStep # 241
    BY <1>2, <2>2, PartsCarry DEF Ends, TaskEnds, Same
  <2>4. Carries /\ taskStep # 241
    BY <1>2, <1>9, <2>2, <2>3, PartsCarry, ReadsCarry DEF Asks, Reads
  <2> QED
    BY <1>6, <2>2, <2>4
<1>10. CASE MATASK_POP3_Retr
  <2>1. CASE MailTrouble("POP3_RETR")
    BY <1>1, <2>1
  <2> SUFFICES ASSUME ~MailTrouble("POP3_RETR") PROVE ListInv'
    BY <2>1
  <2>2. MailRuns("POP3_RETR") /\ \A step : Uses(task, step) <=> step # 241
    <3>1. MailRuns("POP3_RETR")
      BY <1>10, Zenon DEF MATASK_POP3_Retr
    <3> QED
      BY <1>2, <3>1, MailPhases DEF MailTasks, Connects, Quits
  <2>3. ASSUME NEW chunk, Same PROVE (Poll => Carries) /\ (EndTest(chunk) => Carries)
    <3>1. Poll => Carries
      BY <1>2, <2>2, <2>3, PartsCarry DEF Poll
    <3>2. EndTest(chunk) => Goes(100) \/ Poll
      BY DEF EndTest
    <3> QED
      BY <1>2, <2>2, <2>3, <3>1, <3>2, PartsCarry
  <2>4. ASSUME NEW chunk, Same, RetrStore(chunk) PROVE Carries
    BY <1>2, <2>2, <2>3, <2>4, PartsCarry DEF RetrStore
  <2>5. Carries /\ taskStep # 241
    <3>1. CASE At(1) /\ Same /\ \E chunk \in SeenAs : RetrStore(chunk)
      BY <2>4, <3>1
    <3>2. CASE (At(0) /\ SayLine(mail.text, 1) /\ Same) \/ Ends(100)
      BY <1>2, <2>2, <3>2, PartsCarry DEF Ends, TaskEnds, Same
    <3> QED
      BY <1>10, <3>1, <3>2, Zenon DEF MATASK_POP3_Retr
  <2> QED
    BY <1>6, <2>2, <2>5 DEF MailTasks, Connects, Quits
<1>11. ASSUME NEW t \in Quits, MailTrouble(t) \/ (MailRuns(t) /\ QuitSteps)
      PROVE  ListInv'
  <2>1. CASE MailTrouble(t)
    BY <1>1, <2>1
  <2> SUFFICES ASSUME MailRuns(t), QuitSteps PROVE ListInv'
    BY <1>11, <2>1
  <2>2. /\ task = t /\ task \in Quits /\ (\A step : Uses(task, step) <=> step \notin {3, 241})
        /\ UNCHANGED <<adapter, held>> /\ ~Gone /\ connMode \in {"SMTP", "POP3"} /\ t \notin Connects
    BY <1>2, <1>4, <1>11, MailPhases DEF MailTasks, Connects, Quits
  <2>3. CASE Same /\ ~At(3) /\ ~At(2)
    <3>1. Carries /\ Uses(task, taskStep)
      BY <2>2, <2>3, PartsCarry DEF QuitSteps, ReadTo
    <3> QED
      BY <1>3, <2>2, <3>1
  <2>4. SlotList /\ held = {} /\ task \notin TcpTasks \cup {"NONE"} /\ Live' = Live /\ open' = open
    BY <2>2, SameLive DEF ListInv, SlotList, TcpTasks, Quits
  <2>5. CASE At(2) /\ Command("TCP_DISCONNECT", sockets[0], "empty", 3) /\ UNCHANGED <<table, connMode, prevBuf>>
    <3>1. InSlot0
      BY <2>2, <2>5 DEF ListInv, UseList
    <3>2. task' = task /\ taskStep' = 3 /\ busy' /\ sendCmd' = "TCP_DISCONNECT" /\ sendSocket' = sockets[0]
      BY <2>5, PartsList
    <3>3. SlotList' /\ CloseList' /\ Closes(task', taskStep')
      BY <2>2, <2>4, <2>5, <3>1, <3>2 DEF SlotList, table, CloseList, InSlot0, Closes
    <3> QED
      BY <2>4, <3>2, <3>3, PhaseLists DEF TcpTasks
  <2>6. CASE At(3) /\ connMode' = "PPP" /\ FreeSlot0 /\ TaskEnds
    <3>1. Live = {} /\ sendCmd = "TCP_DISCONNECT"
      <4>1. Closes(task, taskStep)
        BY <2>2, <2>6 DEF Closes
      <4> QED
        BY <1>0, <2>2, <4>1 DEF ListInv, CloseList, Quits
    <3>2. ~usedSockets'[0] /\ ~usedSockets'[1] /\ sockets'[1] = 0
      BY <1>0, <2>4, <2>6, Slot0Ops DEF SlotList
    <3>3. task' = "NONE" /\ sendCmd' = "TCP_DISCONNECT"
      BY <2>6, <3>1, PartsList DEF TaskEnds
    <3>4. SlotList' /\ Used' = {}
      BY <2>2, <2>4, <2>6, <3>1, <3>2, <3>3, UsedSlot0 DEF SlotList
    <3>5. RestList'
      BY <2>2, <2>4, <2>6, <3>1, <3>3, <3>4 DEF RestList, Nega
    <3> QED
      BY <3>3, <3>4, <3>5, PhaseLists
  <2> QED
    BY <2>3, <2>5, <2>6 DEF QuitSteps, Same
<1>12. ASSUME NEW t \in Connects, MailRuns(t), NEW port, Opens(port) PROVE ListInv'
  <2>1. task = t /\ UNCHANGED <<adapter, held>> /\ ~Gone /\ ~Nega({"TCP_CONNECT"}) /\ t \in MailTasks
    BY <1>2, <1>12 DEF MailRuns, Nega, Connects, MailTasks
  <2>2. /\ SlotList /\ held = {} /\ task \notin TcpTasks \cup SettingsTasks \cup {"NONE"} /\ Live' = Live /\ open' = open
        /\ Live \subseteq open /\ connMode # "OFFLINE"
    <3>1. task \notin TcpTasks \cup SettingsTasks \cup {"NONE"}
      BY <2>1 DEF TcpTasks, SettingsTasks, Connects
    <3>2. connMode # "OFFLINE"
      BY <2>1, RunsInEach DEF TaskInv, ModeInv, Connects
    <3>3. Live' = Live /\ open' = open /\ Live \subseteq open
      BY <2>1, SameLive DEF Live
    <3> QED
      BY <3>1, <3>2, <3>3 DEF ListInv, SlotList
  <2>3. CASE At(0) /\ Command("DNS_REQUEST", 0, "empty", 1) /\ UNCHANGED <<table, connMode, prevBuf>>
    <3>1. task' = task /\ taskStep' = 1 /\ busy' /\ sendCmd' = "DNS_REQUEST" /\ recvCmd' = "none"
      BY <2>3, PartsList
    <3>2. Live = {}
      BY <2>1, <2>3 DEF ListInv, BeforeList, Before
    <3>3. SlotList' /\ BeforeList' /\ Before(task', taskStep')
      BY <2>1, <2>2, <2>3, <3>1, <3>2 DEF SlotList, table, BeforeList, Before, Nega
    <3> QED
      BY <2>2, <3>1, <3>3, PhaseLists DEF TcpTasks
  <2>4. CASE At(1) /\ Command("TCP_CONNECT", 0, port, 2) /\ UNCHANGED <<table, connMode, prevBuf>>
    <3>1. task' = task /\ taskStep' = 2 /\ busy' /\ sendCmd' = "TCP_CONNECT" /\ recvCmd' = "none" /\ ~tcpClosed'
      BY <2>4, PartsList
    <3>2. Live = {}
      BY <2>1, <2>4 DEF ListInv, BeforeList, Before
    <3>3. SlotList' /\ AwaitList' /\ AwaitsConnect(task', taskStep')
      BY <2>1, <2>2, <2>4, <3>1, <3>2 DEF SlotList, table, AwaitList, AwaitsConnect, Connects, Arrived, Arriving
    <3> QED
      BY <2>2, <3>1, <3>3, PhaseLists DEF TcpTasks
  <2>5. CASE /\ At(2) /\ Command("DATA", recvData, "empty", 3) /\ UNCHANGED connMode
             /\ usedSockets' = [usedSockets EXCEPT ![0] = TRUE]
             /\ sockets' = [sockets EXCEPT ![0] = recvData]
    <3>1. /\ task' = task /\ taskStep' = 3 /\ busy' /\ sendCmd' = "DATA" /\ recvCmd' = "none" /\ ~tcpClosed'
          /\ sendSocket' = recvData
      BY <2>5, PartsList
    <3>2. /\ usedSockets'[0] /\ sockets'[0] = recvData /\ usedSockets'[1] = usedSockets[1]
          /\ sockets'[1] = sockets[1]
      BY <1>0, <2>5
    <3>3. AwaitsConnect(task, taskStep)
      BY <2>1, <2>5 DEF AwaitsConnect, Connects
    <3>4. Arrived
      BY <1>0, <2>1, <3>3 DEF Arrived, Nega, TaskInv, IInv, Running, Awaited, Answered
    <3>5. Live \subseteq {recvData} /\ recvData \in open
      BY <2>2, <3>3, <3>4 DEF ListInv, AwaitList, Arriving
    <3>6. SlotList' /\ UseList' /\ Uses(task', taskStep')
      <4>1. Uses(task', taskStep') /\ SlotList'
        BY <1>12, <2>1, <2>2, <2>5, <3>1, <3>2, MailPhases DEF SlotList
      <4>2. InSlot0' /\ Talks' /\ ~Gone' /\ sockets'[0] \in open' /\ ~Nega({"TCP_CONNECT", "DNS_REQUEST"})'
        BY <2>2, <3>1, <3>2, <3>5 DEF InSlot0, Talks, Gone, Nega
      <4> QED
        BY <3>1, <4>1, <4>2 DEF UseList
    <3> QED
      BY <2>2, <3>1, <3>6, PhaseLists DEF TcpTasks
  <2> QED
    BY <1>12, <2>3, <2>4, <2>5 DEF Opens
<1>13. ASSUME NEW t \in Connects, MailRuns(t), NEW s \in {3, 4, 5}, NEW step \in {4, 5, 6},
              (\E text : Reads(s, SayLine(text, step))) \/ Reads(s, ReadTo(step))
       PROVE  ListInv'
  <2>1. task = t /\ UNCHANGED <<adapter, held>> /\ \A n : Uses(task, n) <=> n \notin {0, 1, 2, 241}
    BY <1>2, <1>13, MailPhases DEF Connects, MailTasks
  <2>2. Carries /\ Uses(task, taskStep)
    BY <1>13, <2>1, ReadsCarry DEF Reads, At
  <2>3. task' # "NONE"
    BY <1>0, <1>13, <2>1, PartsList DEF MailTasks, Reads, ReadOn, SayLine, ReadTo
  <2> QED
    BY <1>3, <1>13, <2>2, <2>3
<1>14. ASSUME NEW t \in Connects, MailRuns(t), NEW step \in {5, 6}, NEW mode \in {"SMTP", "POP3"}, Opened(step, mode)
       PROVE  ListInv'
  <2>1. /\ task = t /\ UNCHANGED <<adapter, held, table>> /\ Uses(task, taskStep) /\ ~Gone /\ connMode' = mode
        /\ task \notin TcpTasks \cup {"NONE"}
    BY <1>2, <1>14, MailPhases DEF Connects, MailTasks, Opened, TcpTasks
  <2>2. InSlot0 /\ sockets[0] \in open /\ sendCmd = "DATA" /\ SlotList /\ held = {}
    BY <1>0, <1>14, <2>1 DEF ListInv, UseList, SlotList
  <2>3. Live' = Live /\ open' = open /\ task' = "NONE" /\ recvCmd' = recvCmd /\ sendCmd' = sendCmd /\ ~Nega({"DATA"})
    BY <1>14, <2>1, SameLive, PartsList DEF Opened, TaskEnds, Gone
  <2>4. SlotList' /\ RestList'
    BY <2>1, <2>2, <2>3 DEF SlotList, RestList, table, InSlot0, Nega
  <2> QED
    BY <2>3, <2>4, PhaseLists
<1>15. CASE MATASK_SMTP_Connect
  <2>1. CASE MailTrouble("SMTP_CONNECT")
    BY <1>1, <2>1
  <2>2. CASE MailRuns("SMTP_CONNECT") /\ (Opens("SMTP") \/ Opened(5, "SMTP"))
    BY <1>12, <1>14, <2>2 DEF Connects
  <2>3. CASE MailRuns("SMTP_CONNECT") /\ (Reads(3, SayLine("HELO", 4)) \/ Reads(4, ReadTo(5)))
    BY <1>13, <2>3 DEF Connects
  <2> QED
    BY <1>15, <2>1, <2>2, <2>3 DEF MATASK_SMTP_Connect
<1>16. CASE MATASK_POP3_Connect
  <2>1. CASE MailTrouble("POP3_CONNECT")
    BY <1>1, <2>1
  <2>2. CASE MailRuns("POP3_CONNECT") /\ (Opens("POP3") \/ Opened(6, "POP3"))
    BY <1>12, <1>14, <2>2 DEF Connects
  <2>3. CASE /\ MailRuns("POP3_CONNECT")
             /\ Reads(3, SayLine("USER", 4)) \/ Reads(4, SayLine("PASS", 5)) \/ Reads(5, ReadTo(6))
    BY <1>13, <2>3 DEF Connects
  <2> QED
    BY <1>16, <2>1, <2>2, <2>3 DEF MATASK_POP3_Connect
<1>17. CASE MATASK_SMTP_POP3_Quit
  BY <1>11, <1>17 DEF MATASK_SMTP_POP3_Quit, Quits
<1>18. MATASK_POP3_Stat \/ MATASK_POP3_List \/ MATASK_POP3_Dele => ListInv'
  BY <1>9 DEF MATASK_POP3_Stat, MATASK_POP3_List, MATASK_POP3_Dele
<1> QED
  BY <1>7, <1>8, <1>10, <1>15, <1>16, <1>17, <1>18 DEF MailTasksStep

LEMMA SettingsTasksLists ==
  ASSUME TaskInv, ListInv, TypeList', MAAPI_Main,
         MATASK_TelServer \/ MATASK_GetEEPROMData \/ MATASK_EEPROM_Read \/ MATASK_EEPROM_Write
  PROVE  ListInv'
<1> DEFINE asked == sendCmd' \notin {"DATA", "TCP_CONNECT", "DNS_REQUEST"}
<1>0. /\ task \in SettingsTasks /\ ~busy /\ UNCHANGED <<table, held, adapter>> /\ TypeList /\ connMode = "OFFLINE"
      /\ task \notin TcpTasks \cup {"NONE"}
  <2>1. task \in SettingsTasks /\ ~busy
    BY TasksOf, MainRuns
  <2>2. UNCHANGED <<table, held, adapter>>
    BY DEF MATASK_TelServer, MATASK_GetEEPROMData, MATASK_EEPROM_Read, MATASK_EEPROM_Write, SettingsTask
  <2> QED
    BY <2>1, <2>2, RunsInEach DEF TaskInv, IInv, TypeOK, ModeInv, SettingsTasks, TcpTasks
<1>1. /\ SlotList /\ Live = {} /\ held = {} /\ ~usedSockets[0] /\ Live' = {} /\ Used' = {} /\ open' = open
      /\ ~Nega({"DATA", "TCP_CONNECT", "DNS_REQUEST"})
  <2>1. SlotList /\ Live = {} /\ held = {} /\ ~usedSockets[0] /\ ~Nega({"DATA", "TCP_CONNECT", "DNS_REQUEST"})
    BY <1>0 DEF ListInv, SlotList, BeforeList, Before, Nega
  <2> QED
    BY <1>0, <2>1, SameLive, UsedSlot0 DEF SlotList, table
<1>2. ASSUME task' = task, ~Nega({"DATA", "TCP_CONNECT", "DNS_REQUEST"})',
             busy' => asked
      PROVE  ListInv'
  <2>1. SlotList' /\ BeforeList' /\ Before(task', taskStep')
    BY <1>0, <1>1, <1>2 DEF SlotList, BeforeList, Before, table, Nega
  <2> QED
    BY <1>0, <1>2, <2>1, PhaseLists DEF TcpTasks
<1>3. ASSUME task' = "NONE", error' \/ ~Nega({"DATA", "TCP_CONNECT", "DNS_REQUEST"})', connMode' \in {"OFFLINE", "PPP"}
      PROVE  ListInv'
  <2>1. SlotList' /\ RestList'
    BY <1>0, <1>1, <1>3 DEF SlotList, RestList, table
  <2> QED
    BY <1>3, <2>1, PhaseLists
<1>4. ASSUME NEW cmd \in AllCommands \ {"DATA", "TCP_CONNECT", "DNS_REQUEST"}, NEW socket, NEW text, NEW step,
             Command(cmd, socket, text, step)
      PROVE  ListInv'
  BY <1>2, <1>4, PartsList DEF Nega
<1>5. ASSUME NEW step, Goes(step) PROVE ListInv'
  BY <1>0, <1>1, <1>2, <1>5, PartsList DEF Nega
<1>6. TaskFails /\ connMode' = "OFFLINE" => ListInv'
  BY <1>3, PartsList
<1>7. TaskEnds /\ connMode' \in {"OFFLINE", "PPP"} => ListInv'
  BY <1>1, <1>3, PartsList DEF TaskEnds, Nega
<1>8. {"START", "CHANGE_CLOCK", "CHECK_STATUS", "TEL", "PPP_CONNECT", "EEPROM_READ", "EEPROM_WRITE", "END", "OFFLINE"}
        \subseteq AllCommands \ {"DATA", "TCP_CONNECT", "DNS_REQUEST"}
  BY DEF AllCommands, Commands
<1> USE <1>4, <1>5, <1>6, <1>7, <1>8 DEF SettingsTask, Aborts, Opening, Ask, Closing
<1>9. CASE MATASK_EEPROM_Read
  BY <1>9 DEF MATASK_EEPROM_Read
<1>10. CASE MATASK_EEPROM_Write
  BY <1>10 DEF MATASK_EEPROM_Write
<1>11. CASE MATASK_GetEEPROMData
  BY <1>11 DEF MATASK_GetEEPROMData, FirstPart, SecondPart, Rejected
<1>12. CASE MATASK_TelServer
  BY <1>12 DEF MATASK_TelServer, FirstPart, SecondPart, Rejected
<1> QED
  BY <1>9, <1>10, <1>11, <1>12

----------------------------------------------------------------------------
(* Where MATASK_SMTP_Send goes on, and the flag of a closed connection.    *)

LEMMA TasksName == MAAPI_Main => task' \in {task, "NONE"}
<1>1. ASSUME NEW chunk, Overflow(chunk) PROVE task' = "NONE"
  BY <1>1 DEF Overflow, KeepRest
<1> QED
  BY <1>1, TasksMove, PlainEffects DEF TaskMoves

\* A game whose call is running can only cut it, or take note of an error.
LEMMA GameWaits == Game => task = "NONE" \/ MA_TCP_Cut \/ MAAPI_ErrorCheck
<1> USE DEF AtRest
<1>1. SocketCalls \/ GoesOffline \/ MA_ApiPreExe => task = "NONE"
  BY DEF SocketCalls, MA_TCP_Connect, MA_GetHostAddress, MA_TCP_Disconnect, MA_TCP_SendRecv, GoesOffline,
         MA_Offline, MA_ApiPreExe
<1>2. MailCalls => task = "NONE"
  <2>1. ASSUME NEW text, NEW room, NewMail(text, room) PROVE task = "NONE"
    BY <2>1 DEF NewMail
  <2>2. ASSUME NEW room, SameMail(room) PROVE task = "NONE"
    BY <2>2 DEF SameMail
  <2> QED
    BY <2>1, <2>2 DEF MailCalls, MA_SMTP_Connect, MA_SMTP_Sender, MA_SMTP_Send, MA_SMTP_Quit,
       MA_POP3_Connect, MA_POP3_Quit, MA_POP3_Stat, MA_POP3_List, MA_POP3_Dele, MA_POP3_Ask,
       MA_POP3_Retr, MA_POP3_Head
<1>3. MA_HTTP_GetPost => task = "NONE"
  <2>1. ASSUME NEW room, SamePage(room) PROVE task = "NONE"
    BY <2>1 DEF SamePage
  <2> QED
    BY <2>1 DEF MA_HTTP_GetPost, NewPage
<1>4. MA_TelServer \/ MA_GetEEPROMData \/ MA_EEPROMRead \/ MA_EEPROMWrite => task = "NONE"
  BY DEF MA_TelServer, MA_GetEEPROMData, MA_EEPROMRead, MA_EEPROMWrite
<1> QED
  BY <1>1, <1>2, <1>3, <1>4 DEF Game

LEMMA UnclosedKept ==
  ASSUME TaskInv, Unclosed, [Next]_vars
  PROVE  Unclosed'
<1> USE DEF Unclosed
<1>1. CASE Game
  <2>1. CASE MAAPI_ErrorCheck
    BY <2>1, Zenon DEF MAAPI_ErrorCheck, bios
  <2>2. CASE MA_TCP_Cut
    BY <2>2, Zenon DEF MA_TCP_Cut, bios
  <2>3. CASE ~MAAPI_ErrorCheck /\ ~MA_TCP_Cut
    <3>1. ~busy
      BY <1>1, <2>3, GameWaits DEF TaskInv, IInv, Running, TaskAlone
    <3> QED
      BY <1>1, <2>3, <3>1, GameSilent DEF Silenced, Silent
  <2> QED
    BY <2>1, <2>2, <2>3
<1>2. CASE MAAPI_Main
  <2>1. ~busy
    BY <1>2, MainRuns
  <2>2. ASSUME NEW cmd, NEW socket, NEW text, NEW step, Command(cmd, socket, text, step) PROVE ~tcpClosed'
    BY <2>2 DEF Command, Send
  <2>3. TaskFails \/ Settles => ~busy'
    BY <2>1, Zenon DEF TaskFails, SetApiError, Settles
  <2>4. ASSUME NEW chunk, Overflow(chunk) PROVE ~busy'
    BY <2>1, <2>4, Zenon DEF Overflow, KeepRest
  <2> QED
    BY <1>2, <2>2, <2>3, <2>4, TasksMove DEF TaskMoves, PlainMoves
<1>3. CASE Answer
  <2>1. ASSUME NEW cmd, NEW data, NEW chunk, Reply(cmd, data, chunk) PROVE ~busy'
    BY <2>1 DEF Reply
  <2>2. busy
    BY <1>3 DEF Answer, MA_ProcessRecvPacket, SettingsAnswers
  <2>3. UNCHANGED tcpClosed => Unclosed'
    BY <2>2
  <2> QED
    BY <1>3, <2>1, <2>3 DEF Answer, MA_ProcessRecvPacket, SettingsAnswers, Good, flags
<1>4. CASE ServerCloses \/ UNCHANGED vars
  BY <1>4, Zenon DEF ServerCloses, vars, socketVars, bios, flags
<1>5. CASE Leaves
  BY <1>5 DEF Leaves, SessionEnds
<1> QED
  BY <1>1, <1>2, <1>3, <1>4, <1>5 DEF Next

LEMMA SendNext ==
  ASSUME TypeMail, NextInv, MATASK_SMTP_Send, task' # "NONE"
  PROVE  NextInv'
<1> USE DEF At
<1>1. /\ \A n : [mail EXCEPT !.next = n].next = n
      /\ \A k, n : [mail EXCEPT !.left = k, !.next = n].next = n
  BY DEF TypeMail
<1>2. MailTrouble("SMTP_SEND") => taskStep' = 241
  BY PartsList DEF MailTrouble, MailClosed, MailGivenUp, MailFails
<1>3. ASSUME SendSteps PROVE NextInv'
  <2>1. CASE taskStep' # 50 \/ task' # "SMTP_SEND" \/ mail'.next \in {1, 2, 3, 101}
    BY <2>1 DEF NextInv
  <2>2. CASE SendPiece
    <3>1. (\E k : mail' = [mail EXCEPT !.left = k, !.next = 1]) \/ (\E n \in {2, 3} : mail' = [mail EXCEPT !.next = n])
      BY <2>2, Zenon DEF SendPiece
    <3>2. ASSUME NEW k, mail' = [mail EXCEPT !.left = k, !.next = 1] PROVE mail'.next = 1
      <4>1. [mail EXCEPT !.left = k, !.next = 1].next = 1
        BY <1>1
      <4> QED
        BY <3>2, <4>1
    <3>3. ASSUME NEW n \in {2, 3}, mail' = [mail EXCEPT !.next = n] PROVE mail'.next = n
      <4>1. [mail EXCEPT !.next = n].next = n
        BY <1>1
      <4> QED
        BY <3>3, <4>1
    <3>4. mail'.next \in {1, 2, 3}
      BY <3>1, <3>2, <3>3
    <3> QED
      BY <2>1, <3>4
  <2>3. CASE At(50) /\ Goes(mail.next)
    BY <2>1, <2>3, PartsList DEF NextInv
  <2>4. CASE TaskEnds
    BY <2>4, PartsList DEF TaskEnds
  <2>5. CASE mail' = [mail EXCEPT !.next = 101]
    BY <1>1, <2>1, <2>5
  <2> QED
    BY <1>3, <2>1, <2>2, <2>3, <2>4, <2>5 DEF SendSteps
<1>4. Reads(2, ReadTo(3)) \/ Reads(101, ReadTo(1)) => taskStep' # 50
  BY PartsList DEF Reads, ReadTo, ReadOn
<1> QED
  BY <1>2, <1>3, <1>4 DEF MATASK_SMTP_Send, NextInv

LEMMA NextKept ==
  ASSUME TaskInv, NextInv, [Next]_vars
  PROVE  NextInv'
<1>1. CASE Game
  <2>1. task' # "SMTP_SEND" \/ taskStep' = 0 \/ UNCHANGED <<task, taskStep, mail>>
    <3> DEFINE Goal == task' # "SMTP_SEND" \/ taskStep' = 0 \/ UNCHANGED <<task, taskStep, mail>>
    <3> USE CallsMode DEF AtRest
    <3>1. CASE SocketCalls
      BY <3>1 DEF SocketCalls, MA_TCP_Connect, MA_GetHostAddress, MA_TCP_Disconnect, MA_TCP_SendRecv
    <3>2. CASE GoesOffline
      BY <3>2 DEF GoesOffline, MA_Offline
    <3>3. CASE MA_TCP_Cut \/ MA_ApiPreExe
      BY <3>3 DEF MA_TCP_Cut, MA_ApiPreExe
    <3>4. CASE MailCalls
      <4>1. ASSUME NEW text, NEW room, NewMail(text, room) PROVE Goal
        BY <4>1 DEF NewMail
      <4>2. ASSUME NEW room, SameMail(room) PROVE Goal
        BY <4>2 DEF SameMail
      <4>3. MA_SMTP_Send => Begin("SMTP_SEND", 0, 0)
        BY Zenon DEF MA_SMTP_Send
      <4>4. MA_SMTP_Connect \/ MA_SMTP_Sender \/ MA_SMTP_Quit => Goal
        BY DEF MA_SMTP_Connect, MA_SMTP_Sender, MA_SMTP_Quit
      <4>5. MA_POP3_Connect \/ MA_POP3_Quit \/ MA_POP3_Stat \/ MA_POP3_List \/ MA_POP3_Dele => Goal
        BY DEF MA_POP3_Connect, MA_POP3_Quit, MA_POP3_Stat, MA_POP3_List, MA_POP3_Dele, MA_POP3_Ask
      <4> QED
        BY <3>4, <4>1, <4>2, <4>3, <4>4, <4>5 DEF MailCalls, MA_POP3_Retr, MA_POP3_Head
    <3>5. CASE MA_HTTP_GetPost
      <4>1. ASSUME NEW room, SamePage(room) PROVE Goal
        BY <4>1 DEF SamePage
      <4> QED
        BY <3>5, <4>1 DEF MA_HTTP_GetPost, NewPage
    <3>6. CASE MA_TelServer \/ MA_GetEEPROMData \/ MA_EEPROMRead \/ MA_EEPROMWrite
      BY <3>6 DEF MA_TelServer, MA_GetEEPROMData, MA_EEPROMRead, MA_EEPROMWrite
    <3>7. CASE MAAPI_ErrorCheck /\ UNCHANGED mailVars
      BY <3>7 DEF MAAPI_ErrorCheck, api, mailVars
    <3> QED
      BY <1>1, <3>1, <3>2, <3>3, <3>4, <3>5, <3>6, <3>7 DEF Game
  <2> QED
    BY <2>1 DEF NextInv
<1>2. CASE MAAPI_Main
  <2>1. CASE task' = "NONE"
    BY <2>1 DEF NextInv
  <2>2. CASE task' = "SMTP_SEND"
    <3>1. task = "SMTP_SEND"
      BY <1>2, <2>2, TasksName
    <3>2. MailTasksStep
      BY <1>2, <3>1, TasksOf DEF MAAPI_Main, SettingsTasks, TcpTasks, MATASK_HTTP_GetPost, Runs
    <3>3. MATASK_SMTP_Send
      BY <3>1, <3>2 DEF MailTasksStep, MATASK_SMTP_Connect, MATASK_SMTP_Sender, MATASK_SMTP_Send,
         MATASK_SMTP_POP3_Quit, MATASK_POP3_Connect, MATASK_POP3_Stat, MATASK_POP3_List,
         MATASK_POP3_Dele, MATASK_POP3_Retr, Asks, MailTrouble, MailRuns, Runs
    <3> QED
      BY <2>2, <3>3, SendNext DEF TaskInv, IInv, TypeOK
  <2> QED
    BY <1>2, <2>1, <2>2, TasksName DEF NextInv
<1>3. CASE Answer \/ ServerCloses \/ UNCHANGED vars
  <2>1. UNCHANGED mail
    BY <1>3 DEF Answer, SettingsAnswers, ServerCloses, vars, mailVars
  <2> QED
    BY <1>3, <2>1, AnswersStay DEF NextInv
<1>4. CASE Leaves
  BY <1>4 DEF Leaves, SessionEnds, NextInv
<1> QED
  BY <1>1, <1>2, <1>3, <1>4 DEF Next

----------------------------------------------------------------------------
(* The list, over the adapter's answers.                                   *)

LEMMA HeardStays ==
  ASSUME TypeAdapter, NEW id \in open, NEW text
  PROVE  Heard(id, text).waits # Closed
<1> DEFINE Fits_(d) == d[1] = peer[id] /\ d[2] = text
           d == CHOOSE d \in Dialogue : Fits_(d)
           Stays_(e) == e[4] # "closed"
<1>0. peer[id] # "closed"
  BY DEF open
<1>1. \A e \in Dialogue : Stays_(e)
  <2>1. \A a, b, c, w : w # "closed" => Stays_(<<a, b, c, w>>)
    OBVIOUS
  <2>2. \A e \in MailDialogue : Stays_(e)
    <3>1. ASSUME NEW e \in {<<"pop3_ready", c, "reply", "pop3_ready">> : c \in MailCommands} PROVE Stays_(e)
      BY <2>1, <3>1
    <3>2. ASSUME NEW e \in {<<s, "QUIT", "reply", "bye">> : s \in {"smtp", "smtp_ready", "smtp_from", "smtp_to",
                                               "pop3", "pop3_user", "pop3_ready"}} PROVE Stays_(e)
      BY <2>1, <3>2
    <3> QED
      BY <2>1, <3>1, <3>2 DEF MailDialogue
  <2>3. \A c : \A e \in HttpDialogue(c) : Stays_(e)
    BY <2>1 DEF HttpDialogue
  <2> QED
    BY <2>2, <2>3 DEF Dialogue
<1>2. CASE due = "nothing" /\ \E e \in Dialogue : Fits_(e)
  <2>1. d \in Dialogue
    BY <1>2
  <2>2. d[4] # "closed"
    BY <1>1, <2>1
  <2>3. d = CHOOSE e \in Dialogue : e[1] = peer[id] /\ e[2] = text
    OBVIOUS
  <2> HIDE DEF d
  <2>4. Heard(id, text).waits \in {"own", peer[id], d[4]}
    BY <1>2, <2>3 DEF Heard
  <2> QED
    BY <1>0, <2>2, <2>4
<1>3. CASE ~(due = "nothing" /\ \E e \in Dialogue : Fits_(e))
  <2>1. Heard(id, text).waits \in {"own", peer[id], "confused"}
    BY <1>3 DEF Heard
  <2> QED
    BY <1>0, <2>1
<1> QED
  BY <1>2, <1>3

LEMMA PeerMoves ==
  ASSUME peer \in [Ids -> Waits], NEW id \in Ids, NEW w, peer' = [peer EXCEPT ![id] = w]
  PROVE  /\ w = "closed" => open' = open \ {id} /\ Live' = Live \ {id}
         /\ w # "closed" => open' = open \cup {id} /\ Live' \subseteq Live \cup {id}
         /\ w \notin {"closed", "http_answer"} => id \in Live'
BY DEF open, Live

\* What an answer does to the connections, by the command it answers.
AnswerMoves ==
  /\ sendCmd' = sendCmd /\ UNCHANGED <<table, connMode, api, held>>
  /\ busy' => sendCmd = "TCP_CONNECT" /\ recvCmd' = "ERROR"
  /\ Live' \subseteq Live \cup (IF recvCmd' = "TCP_CONNECT" THEN {recvData'}
                                ELSE IF sendCmd = "DATA" THEN {sendSocket} ELSE {})
  /\ recvCmd' = "TCP_CONNECT" => recvData' \in Live' /\ sendCmd = "TCP_CONNECT"
  /\ sendCmd = "TCP_DISCONNECT" => sendSocket \notin Live'
  /\ sendCmd = "DATA" => (sendSocket \in open' <=> ~(tcpClosed' \/ recvCmd' = "ERROR"))
  /\ sendCmd \in Leaving => Live' = {}
  /\ sendCmd \notin {"DATA", "TCP_DISCONNECT"} \cup Leaving => open \subseteq open'
  /\ sendCmd # "DATA" => tcpClosed' = tcpClosed

LEMMA AnswerLive ==
  ASSUME IInv, Unclosed, Answer
  PROVE  busy /\ AnswerMoves
<1>0. busy /\ UNCHANGED <<table, connMode, api, held>> /\ ~tcpClosed /\ peer \in [Ids -> Waits] /\ TypeAdapter
      /\ (sendCmd = "TCP_CONNECT" => sendText \in DOMAIN Ports) /\ Live \subseteq open
  BY DEF Answer, MA_ProcessRecvPacket, SettingsAnswers, Unclosed, IInv, TypeOK, TypeAdapter, Running, Sending, Live
<1>1. \A cmd, data, chunk : Reply(cmd, data, chunk) =>
        ~busy' /\ sendCmd' = sendCmd /\ recvCmd' = cmd /\ recvData' = data
  BY DEF Reply
<1>2. Refused => sendCmd' = sendCmd /\ recvCmd' = "ERROR" /\ (busy' => sendCmd = "TCP_CONNECT")
  BY DEF Refused
<1>3. sendSocket \in open => sendSocket \in Ids
  BY DEF open
<1>4. CASE sendCmd = "TCP_CONNECT" /\ \E id \in Ids \ open : Reply(sendCmd, id, NoChunk) /\ Connected(id, sendText) /\ UNCHANGED tcpClosed
  <2>1. PICK id \in Ids : Reply(sendCmd, id, NoChunk) /\ Connected(id, sendText)
    BY <1>4
  <2>2. Ports[sendText] \notin {"closed", "http_answer"}
    <3>1. DOMAIN Ports = {"own", "SMTP", "POP3", "HTTP"}
      BY DEF Ports
    <3>2. Ports["own"] = "own" /\ Ports["SMTP"] = "smtp" /\ Ports["POP3"] = "pop3" /\ Ports["HTTP"] = "http"
      BY DEF Ports
    <3>3. sendText \in {"own", "SMTP", "POP3", "HTTP"}
      BY <1>0, <1>4, <3>1
    <3> QED
      BY <3>2, <3>3
  <2>3. open' = open \cup {id} /\ Live' \subseteq Live \cup {id} /\ id \in Live'
    BY <1>0, <2>1, <2>2, PeerMoves DEF Connected
  <2>4. recvCmd' = "TCP_CONNECT" /\ recvData' = id /\ ~busy' /\ sendCmd' = sendCmd
    BY <1>1, <1>4, <2>1
  <2> QED
    BY <1>0, <1>4, <2>3, <2>4 DEF AnswerMoves, Leaving
<1>5. ASSUME sendSocket \in open, Lost(sendSocket), UNCHANGED tcpClosed,
             \/ sendCmd = "DATA" /\ Refused
             \/ sendCmd = "TCP_DISCONNECT" /\ Good
      PROVE  AnswerMoves
  <2>1. open' = open \ {sendSocket} /\ Live' = Live \ {sendSocket}
    BY <1>0, <1>3, <1>5, PeerMoves DEF Lost
  <2>2. /\ sendCmd' = sendCmd /\ ~busy' /\ (sendCmd = "DATA" => recvCmd' = "ERROR") /\ recvCmd' # "TCP_CONNECT"
        /\ sendCmd \notin {"TCP_CONNECT"} \cup Leaving
    BY <1>1, <1>2, <1>5 DEF Good, Leaving
  <2> QED
    BY <1>0, <1>5, <2>1, <2>2 DEF AnswerMoves
<1>6. ASSUME sendSocket \in open, sendCmd = "DATA", NEW chunk, Converse(sendSocket, sendText, chunk),
             Reply(sendCmd, Garbage, chunk), UNCHANGED tcpClosed
      PROVE  AnswerMoves
  <2>1. open' = open /\ Live' \subseteq Live \cup {sendSocket}
    <3>1. peer' = [peer EXCEPT ![sendSocket] = Heard(sendSocket, sendText).waits]
      BY <1>6 DEF Converse
    <3>2. Heard(sendSocket, sendText).waits # "closed"
      BY <1>0, <1>6, HeardStays
    <3>3. open' = open \cup {sendSocket} /\ Live' \subseteq Live \cup {sendSocket}
      BY <1>0, <1>3, <1>6, <3>1, <3>2, PeerMoves
    <3> QED
      BY <1>6, <3>3
  <2> QED
    BY <1>0, <1>1, <1>6, <2>1 DEF AnswerMoves, Leaving
<1>7. ASSUME sendSocket \in open, sendCmd = "DATA", NEW chunk, HangsUp(sendSocket, sendText, chunk),
             Reply("DATA_END", Garbage, chunk), tcpClosed' = TRUE
      PROVE  AnswerMoves
  <2>1. open' = open \ {sendSocket} /\ Live' = Live \ {sendSocket}
    BY <1>0, <1>3, <1>7, PeerMoves DEF HangsUp
  <2> QED
    BY <1>0, <1>1, <1>7, <2>1 DEF AnswerMoves, Leaving
<1>8. ASSUME UNCHANGED <<peer, tcpClosed>>, Refused, sendCmd \in {"DATA", "TCP_DISCONNECT"} => sendSocket \notin open,
             sendCmd \notin Leaving
      PROVE  AnswerMoves
  <2>1. open' = open /\ Live' = Live
    BY <1>8, SameLive
  <2> QED
    BY <1>0, <1>2, <1>8, <2>1 DEF AnswerMoves
<1>9. ASSUME UNCHANGED <<peer, tcpClosed>>, NEW data, NEW chunk, Reply(sendCmd, data, chunk),
             sendCmd \notin {"TCP_CONNECT", "DATA", "TCP_DISCONNECT"} \cup Leaving
      PROVE  AnswerMoves
  <2>1. open' = open /\ Live' = Live
    BY <1>9, SameLive
  <2> QED
    BY <1>0, <1>1, <1>9, <2>1 DEF AnswerMoves
<1>10. CASE sendCmd \in Leaving /\ Good /\ AllLost /\ UNCHANGED tcpClosed
  <2>1. open' = {} /\ Live' = {}
    BY <1>10 DEF AllLost, open, Live
  <2> QED
    BY <1>0, <1>1, <1>10, <2>1 DEF AnswerMoves, Leaving, Good
<1>11. CASE MA_ProcessRecvPacket
  BY <1>4, <1>5, <1>6, <1>7, <1>8, <1>9, <1>10, <1>11 DEF MA_ProcessRecvPacket, Leaving, Good, adapter
<1>12. CASE SettingsAnswers
  <2>1. UNCHANGED <<peer, tcpClosed>> /\ sendCmd \notin {"TCP_CONNECT", "DATA", "TCP_DISCONNECT"} \cup Leaving
    BY <1>12 DEF SettingsAnswers, flags, Commands, Leaving
  <2>2. Refused \/ \E data, chunk : Reply(sendCmd, data, chunk)
    BY <1>12 DEF SettingsAnswers, Good
  <2>3. Refused => AnswerMoves
    BY <1>8, <2>1
  <2>4. ASSUME NEW data, NEW chunk, Reply(sendCmd, data, chunk) PROVE AnswerMoves
    BY <1>9, <2>1, <2>4
  <2> QED
    BY <1>0, <2>2, <2>3, <2>4
<1> QED
  BY <1>0, <1>11, <1>12 DEF Answer

LEMMA AnswerLists ==
  ASSUME TaskInv, ListInv, Unclosed, Answer
  PROVE  ListInv'
<1> USE DEF Nega
<1>0. /\ busy /\ AnswerMoves /\ task # "NONE" /\ ~tcpClosed
      /\ UNCHANGED <<task, taskStep, param, cutCmd, usedSockets, sockets, held, connMode>> /\ Used' = Used
  <2>1. busy /\ AnswerMoves
    BY AnswerLive DEF TaskInv
  <2> QED
    BY <2>1 DEF AnswerMoves, table, api, Used, TaskInv, IInv, Running, TaskAlone, Unclosed
<1>1. SlotList'
  <2>1. connMode = "OFFLINE" => Live = {} /\ sendCmd \notin {"DATA", "TCP_CONNECT"}
    <3>1. connMode = "OFFLINE" => task \in SettingsTasks
      BY <1>0, RunsInEach DEF TaskInv, ModeInv, IInv, Running, TypeRun, AllTasks, MailTasks, TcpTasks
    <3> QED
      BY <1>0, <3>1 DEF ListInv, BeforeList, Before
  <2> QED
    BY <1>0, <2>1 DEF ListInv, SlotList, AnswerMoves
<1>2. RestList'
  BY <1>0 DEF RestList
<1>3. BeforeList'
  BY <1>0 DEF ListInv, BeforeList, AnswerMoves
<1>4. AwaitList'
  BY <1>0 DEF ListInv, AwaitList, AnswerMoves, TaskInv, IInv, Running, Awaited, Arrived, Arriving
<1>5. UseList'
  <2>1. CASE ~Uses(task, taskStep)
    BY <1>0, <2>1 DEF UseList
  <2>2. CASE Uses(task, taskStep)
    <3>1. InSlot0 /\ sendCmd = "DATA" /\ sendSocket = sockets[0]
      BY <1>0, <2>2 DEF ListInv, UseList, Talks
    <3>2. ~busy' /\ sendCmd' = "DATA" /\ (sockets[0] \in open' <=> ~Gone')
      BY <1>0, <3>1 DEF AnswerMoves, Gone
    <3>3. InSlot0'
      BY <1>0, <3>1 DEF AnswerMoves, InSlot0
    <3> QED
      BY <1>0, <3>2, <3>3 DEF UseList, Talks
  <2> QED
    BY <2>1, <2>2
<1>6. CloseList'
  BY <1>0 DEF ListInv, CloseList, AnswerMoves
<1>7. TcpList'
  <2>1. /\ task \in TcpTasks => taskStep \in {0, 1} /\ (busy => taskStep = 1)
        /\ task = "TCP_CONNECT" => Used = {} /\ held = {}
        /\ task = "GETHOSTADDRESS" =>
            /\ Live \subseteq Used /\ held = Used /\ Used \subseteq open /\ sendCmd = "DNS_REQUEST"
        /\ task = "TCP_DISCONNECT" =>
             usedSockets[0] /\ sockets[0] = param /\ held = {} /\ Live \subseteq {param} /\ sendCmd = "TCP_DISCONNECT"
        /\ task = "TCP_SENDRECV" => sockets[0] = param /\ held = {param}
    <3>1. TcpList
      BY DEF ListInv
    <3>2. task = "TCP_DISCONNECT" => sendCmd = "TCP_DISCONNECT"
      BY <1>0, <3>1 DEF ListInv, CloseList, Closes, TcpList, TcpTasks
    <3> QED
      BY <1>0, <3>1, <3>2 DEF TcpList
  <2>2. task = "GETHOSTADDRESS" => Live' \subseteq Used /\ Used \subseteq open' /\ ~busy' /\ sendCmd' = "DNS_REQUEST"
    BY <1>0, <2>1 DEF AnswerMoves, Leaving
  <2>3. task = "TCP_DISCONNECT" => Live' \subseteq {param}
    BY <1>0, <2>1 DEF AnswerMoves
  <2>4. task \in TcpTasks => taskStep' \in {0, 1} /\ (busy' => taskStep' = 1)
    BY <1>0, <2>1
  <2> QED
    BY <1>0, <2>1, <2>2, <2>3, <2>4 DEF TcpList
<1>8. EndList'
  <2>1. EndList
    BY DEF ListInv
  <2>2. task = "OFFLINE" /\ taskStep \in 0..3 => Live' = {} /\ sendCmd' \in Leaving /\ taskStep # 0
    BY <1>0, <2>1 DEF EndList, AnswerMoves
  <2>3. task = "TCP_CUT" /\ taskStep = 0 =>
          /\ Live' \subseteq IF cutCmd = "TCP_CONNECT" THEN Arriving' ELSE Used
          /\ busy' => sendCmd' # "DATA"
    <3>1. task = "TCP_CUT" /\ taskStep = 0 => cutCmd = sendCmd
      BY DEF TaskInv, IInv, Running, Awaited
    <3> QED
      BY <1>0, <2>1, <3>1 DEF EndList, AnswerMoves, Arriving, Arrived
  <2> QED
    BY <1>0, <2>1, <2>2, <2>3 DEF EndList
<1> QED
  BY <1>1, <1>2, <1>3, <1>4, <1>5, <1>6, <1>7, <1>8 DEF ListInv

LEMMA ClosingLists ==
  ASSUME TaskInv, ListInv, ServerCloses
  PROVE  ListInv'
<1>0. PICK id \in Ids \ Used : peer[id] = "http_answer" /\ peer' = [peer EXCEPT ![id] = "closed"]
  BY DEF ServerCloses
<1>1. Live' = Live /\ open' = open \ {id}
  <2>1. peer \in [Ids -> Waits]
    BY DEF TaskInv, IInv, TypeOK, TypeAdapter
  <2> QED
    BY <1>0, <2>1, PeerMoves DEF Live
<1>2. UNCHANGED <<table, connMode, api, flags, bios, held>> /\ Used' = Used
  BY DEF ServerCloses, table, Used
<1>3. usedSockets[0] => sockets[0] # id
  BY <1>0, SlotTyped DEF Used, TaskInv, IInv, TypeOK
<1>4. SlotList' /\ BeforeList' /\ CloseList' /\ EndList'
  BY <1>1, <1>2 DEF ListInv, SlotList, BeforeList, CloseList, EndList, Arriving, Arrived, Nega, table, api, bios
<1>5. AwaitList'
  BY <1>1, <1>2 DEF ListInv, AwaitList, Arriving, Arrived, api, bios, flags
<1>6. RestList' /\ TcpList'
  BY <1>0, <1>1, <1>2, <1>3 DEF ListInv, RestList, TcpList, InSlot0, Nega, table, api, bios, flags
<1>7. UseList'
  BY <1>1, <1>2, <1>3 DEF ListInv, UseList, InSlot0, Talks, Gone, Nega, table, api, bios, flags
<1> QED
  BY <1>4, <1>5, <1>6, <1>7 DEF ListInv

LEMMA LeavingLists ==
  ASSUME TaskInv, ListInv, SessionEnds
  PROVE  ListInv'
<1>1. Live' = {} /\ held' = {} /\ task' = "NONE" /\ connMode' = "OFFLINE" /\ recvCmd' = "none"
  BY DEF SessionEnds, AllLost, Live, open
<1>2. ~usedSockets'[0] /\ ~usedSockets'[1] /\ sockets'[1] = 0
  BY Slot0Ops DEF SessionEnds, TaskInv, IInv, TypeOK, ListInv, SlotList
<1>3. SlotList' /\ RestList'
  BY <1>1, <1>2 DEF SlotList, RestList, Nega
<1> QED
  BY <1>1, <1>3, PhaseLists

----------------------------------------------------------------------------
(* The list, over the calls.                                               *)

\* What a call finds and leaves: nothing runs, and nothing is sent or closed.
Called ==
  /\ task = "NONE" /\ ~error /\ ~busy
  /\ UNCHANGED <<usedSockets, sockets, busy, sendCmd, sendSocket, recvCmd, recvData, peer>>

LEMMA CalledFacts ==
  ASSUME TaskInv, ListInv, Called
  PROVE  /\ task = "NONE" /\ ~error /\ ~busy /\ ~busy' /\ SlotList /\ RestList /\ TypeList /\ Live' = Live
         /\ open' = open /\ ~Nega({"DATA", "TCP_CONNECT", "DNS_REQUEST"}) /\ sendCmd' = sendCmd /\ recvCmd' = recvCmd
         /\ usedSockets' = usedSockets /\ sockets' = sockets /\ Used' = Used
<1>1. task = "NONE" /\ ~error /\ ~busy /\ ~busy' /\ Live' = Live /\ open' = open /\ Used' = Used
  BY SameLive DEF Called, Used
<1>2. SlotList /\ RestList /\ TypeList
  BY DEF ListInv, TaskInv, IInv, TypeOK
<1> QED
  BY <1>1, <1>2 DEF Called, RestList

\* Nothing starts.
LEMMA RestCalled ==
  ASSUME TaskInv, ListInv, Called, task' = "NONE", UNCHANGED <<connMode, held>>
  PROVE  ListInv'
<1> USE DEF Nega
<1>1. SlotList'
  BY CalledFacts DEF SlotList
<1>2. RestList'
  BY CalledFacts DEF RestList, InSlot0
<1> QED
  BY <1>1, <1>2, PhaseLists

\* A connection will be asked for, and there is none.
LEMMA FirstCalled ==
  ASSUME TaskInv, ListInv, Called, connMode = "PPP", held = {}, held' = {}, connMode' \in {"PPP", "HTTP"},
         task' \in Connects \cup {HttpTask, "TCP_CONNECT"}, Before(task', taskStep')
  PROVE  ListInv'
<1> USE DEF Nega
<1>1. Live = {} /\ Used = {} /\ task' \notin SettingsTasks \cup {"NONE"}
  BY CalledFacts DEF RestList, Connects, SettingsTasks
<1>2. SlotList' /\ BeforeList'
  BY <1>1, CalledFacts DEF SlotList, BeforeList
<1>3. CASE task' # "TCP_CONNECT"
  BY <1>2, <1>3, PhaseLists
<1>4. CASE task' = "TCP_CONNECT"
  <2>1. taskStep' = 0 /\ task' \in TcpTasks
    BY <1>4 DEF Before, Connects, SettingsTasks, TcpTasks
  <2>2. TcpList'
    BY <1>1, <1>4, <2>1, CalledFacts DEF TcpList
  <2>3. AwaitList' /\ UseList' /\ CloseList'
    BY Phases DEF AwaitList, UseList, CloseList
  <2> QED
    BY <1>2, <2>1, <2>2, <2>3, PhaseLists
<1> QED
  BY <1>3, <1>4

LEMMA SettingsCalled ==
  ASSUME TaskInv, ListInv, Called, connMode = "OFFLINE", connMode' = connMode, held' = held, task' \in SettingsTasks
  PROVE  ListInv'
<1> USE DEF Nega
<1>1. SlotList' /\ BeforeList' /\ Before(task', taskStep') /\ task' # "TCP_CONNECT"
  BY CalledFacts DEF SlotList, BeforeList, Before, SettingsTasks
<1> QED
  BY <1>1, PhaseLists

\* A call on the mail session.
LEMMA MailCalled ==
  ASSUME TaskInv, ListInv, Called, connMode \in {"SMTP", "POP3"}, connMode' = connMode, held' = {}, ~tcpClosed',
         task' \in (MailTasks \ Connects) \cup {"OFFLINE"}, Uses(task', taskStep')
  PROVE  ListInv'
<1>1. InSlot0' /\ sockets'[0] \in open'
  BY CalledFacts DEF RestList, InSlot0
<1>2. task' # "TCP_SENDRECV" /\ task' \notin Connects
  BY DEF MailTasks, Connects
<1>3. SlotList'
  BY CalledFacts DEF SlotList
<1>4. ~Gone' /\ ~busy' /\ ~Nega({"TCP_CONNECT", "DNS_REQUEST"})'
  BY CalledFacts DEF Gone, Nega
<1>5. UseList'
  BY <1>1, <1>2, <1>4 DEF UseList, Talks
<1> QED
  BY <1>2, <1>3, <1>5, PhaseLists

LEMMA PageCalled ==
  ASSUME TaskInv, ListInv, Called, connMode = "HTTP", connMode' = connMode, held' = {}, task' = HttpTask, taskStep' = 110
  PROVE  ListInv'
<1>1. InSlot0' /\ Uses(task', taskStep')
  BY CalledFacts DEF RestList, InSlot0, Uses, Before, AwaitsConnect, Closes, SettingsTasks, MailTasks, Connects, Quits
<1>2. SlotList' /\ UseList'
  BY <1>1, CalledFacts DEF SlotList, UseList, Talks, MailTasks, Connects, Nega
<1> QED
  BY <1>1, <1>2, PhaseLists

LEMMA OfflineCalled ==
  ASSUME TaskInv, ListInv, Called, connMode = "PPP", connMode' = connMode, held' = {}, task' = "OFFLINE", taskStep' = 0
  PROVE  ListInv'
<1>1. SlotList' /\ EndList'
  BY CalledFacts DEF SlotList, EndList, RestList
<1> QED
  BY <1>1, PhaseLists

LEMMA HostCalled ==
  ASSUME TaskInv, ListInv, Called, connMode = "PPP", connMode' = connMode, held' = held, task' = "GETHOSTADDRESS",
         taskStep' = 0
  PROVE  ListInv'
<1>1. SlotList' /\ TcpList'
  BY CalledFacts DEF SlotList, TcpList, RestList, TcpTasks, Nega
<1>2. BeforeList' /\ AwaitList' /\ UseList' /\ CloseList'
  BY Phases DEF BeforeList, AwaitList, UseList, CloseList, TcpTasks
<1> QED
  BY <1>1, <1>2, PhaseLists DEF TcpTasks

LEMMA StartCalls ==
  /\ \A t, step, arg : Starts(t, step, arg) =>
       /\ UNCHANGED <<usedSockets, sockets, busy, sendCmd, sendSocket, recvCmd, recvData, peer>>
       /\ task' = t /\ taskStep' = step /\ param' = arg
  /\ \A t, step, arg : Begin(t, step, arg) => Starts(t, step, arg) /\ ~tcpClosed' /\ connMode' = connMode
  /\ \A t, step, room, way : RestGiven(t, step, room, way) => Starts(t, step, 0)
  /\ \A t, step, room, empty : RestRefused(t, step, room, empty) => Starts(t, step, 0)
  /\ \A room : RestFills(room) =>
       /\ UNCHANGED <<usedSockets, sockets, busy, sendCmd, sendSocket, recvCmd, recvData, peer>>
       /\ task' = task /\ taskStep' = taskStep /\ param' = param
<1>1. ASSUME NEW t, NEW step, NEW arg, Starts(t, step, arg)
      PROVE  /\ UNCHANGED <<usedSockets, sockets, busy, sendCmd, sendSocket, recvCmd, recvData, peer>>
             /\ task' = t /\ taskStep' = step /\ param' = arg
  BY <1>1 DEF Starts, table, bios
<1>2. ASSUME NEW t, NEW step, NEW arg, Begin(t, step, arg)
      PROVE  Starts(t, step, arg) /\ ~tcpClosed' /\ connMode' = connMode
  BY <1>2 DEF Begin
<1>3. ASSUME NEW t, NEW step, NEW room, NEW way, RestGiven(t, step, room, way) PROVE Starts(t, step, 0)
  BY <1>3 DEF RestGiven
<1>4. ASSUME NEW t, NEW step, NEW room, NEW empty, RestRefused(t, step, room, empty) PROVE Starts(t, step, 0)
  BY <1>4 DEF RestRefused
<1>5. ASSUME NEW room, RestFills(room)
      PROVE  /\ UNCHANGED <<usedSockets, sockets, busy, sendCmd, sendSocket, recvCmd, recvData, peer>>
             /\ task' = task /\ taskStep' = taskStep /\ param' = param
  BY <1>5 DEF RestFills, table, bios, api
<1> QED
  BY <1>1, <1>2, <1>3, <1>4, <1>5

LEMMA AtRestCalls == ASSUME TaskInv, NEW mode, AtRest(mode) PROVE task = "NONE" /\ ~error /\ ~busy /\ connMode = mode
BY DEF AtRest, TaskInv, IInv, Running, TaskAlone

LEMMA MailCallsLists ==
  ASSUME TaskInv, ListInv, MailCalls
  PROVE  ListInv'
<1> USE AtRestCalls, StartCalls
<1>1. RestList /\ TypeOK
  BY DEF ListInv, TaskInv, IInv
<1>2. ASSUME NEW t \in Connects, AtRest("PPP"), held = {}, Begin(t, 0, 0), held' = held PROVE ListInv'
  <2>1. Called /\ task' = t /\ taskStep' = 0 /\ connMode' = "PPP" /\ connMode = "PPP" /\ held' = {}
    BY <1>2 DEF Called
  <2>2. Before(task', taskStep')
    BY <1>2, <2>1 DEF Before
  <2> QED
    BY <1>2, <2>1, <2>2, FirstCalled
<1>3. ASSUME NEW t \in MailTasks \ Connects, NEW step \in {0, 1}, NEW mode \in {"SMTP", "POP3"},
             AtRest(mode), Starts(t, step, 0), ~tcpClosed', connMode' = connMode, held' = held
      PROVE  ListInv'
  <2>1. Called /\ task' = t /\ taskStep' = step /\ connMode \in {"SMTP", "POP3"} /\ held' = {}
    BY <1>1, <1>3 DEF Called, RestList
  <2>2. Uses(task', taskStep')
    BY <1>3, <2>1 DEF Uses, Before, AwaitsConnect, Closes, MailTasks, Connects, SettingsTasks, Quits
  <2> QED
    BY <1>3, <2>1, <2>2, MailCalled
<1>4. ASSUME NEW room, RestFills(room), AtRest("POP3"), UNCHANGED <<connMode, held>> PROVE ListInv'
  BY <1>4, RestCalled DEF Called
<1>5. MA_SMTP_Connect \/ MA_POP3_Connect => ListInv'
  BY <1>2 DEF MA_SMTP_Connect, MA_POP3_Connect, Connects
<1>6. MA_SMTP_Sender \/ MA_SMTP_Send \/ MA_SMTP_Quit => ListInv'
  <2>1. MA_SMTP_Send => AtRest("SMTP") /\ Begin("SMTP_SEND", 0, 0) /\ held' = held
    BY Zenon DEF MA_SMTP_Send
  <2>2. \A t \in {"SMTP_SENDER", "SMTP_SEND", "SMTP_QUIT"} : t \in MailTasks \ Connects
    BY DEF MailTasks, Connects
  <2> QED
    BY <1>3, <2>1, <2>2 DEF MA_SMTP_Sender, MA_SMTP_Quit
<1>7. ASSUME NEW t \in {"POP3_STAT", "POP3_LIST", "POP3_DELE", "POP3_QUIT"},
             AtRest("POP3"), Begin(t, 0, 0), held' = held
      PROVE  ListInv'
  BY <1>3, <1>7 DEF MailTasks, Connects
<1>8. MA_POP3_Quit \/ MA_POP3_Stat \/ MA_POP3_List \/ MA_POP3_Dele => ListInv'
  BY <1>7 DEF MA_POP3_Quit, MA_POP3_Stat, MA_POP3_List, MA_POP3_Dele, MA_POP3_Ask
<1>9. "POP3_RETR" \in MailTasks \ Connects
  BY DEF MailTasks, Connects
<1>10. ASSUME NEW text, NEW room, NewMail(text, room) PROVE ListInv'
  BY <1>3, <1>9, <1>10 DEF NewMail
<1>11. ASSUME NEW room, SameMail(room) PROVE ListInv'
  <2>1. AtRest("POP3") /\ ~tcpClosed' /\ connMode' = connMode /\ held' = held
    BY <1>11 DEF SameMail
  <2>2. Starts("POP3_RETR", 1, 0) \/ RestFills(room)
    BY <1>11 DEF SameMail
  <2> QED
    BY <1>3, <1>4, <1>9, <2>1, <2>2
<1> QED
  BY <1>5, <1>6, <1>8, <1>10, <1>11 DEF MailCalls, MA_POP3_Retr, MA_POP3_Head

LEMMA HttpCallsLists ==
  ASSUME TaskInv, ListInv, MA_HTTP_GetPost
  PROVE  ListInv'
<1> USE AtRestCalls, StartCalls
<1>1. RestList
  BY DEF ListInv
<1>2. CASE NewPage
  <2>1. AtRest("PPP") /\ held = {} /\ connMode' = "HTTP" /\ held' = held
    BY <1>2 DEF NewPage, MA_HTTP_GetPost
  <2>2. PICK step \in {0, 2} : Starts(HttpTask, step, 0)
    BY <1>2 DEF NewPage
  <2>3. Called /\ task' = HttpTask /\ taskStep' = step /\ connMode = "PPP" /\ held' = {}
    BY <2>1, <2>2 DEF Called
  <2>4. Before(task', taskStep')
    BY <2>3 DEF Before
  <2> QED
    BY <2>1, <2>3, <2>4, FirstCalled
<1>3. CASE ~NewPage
  <2>1. PICK room : SamePage(room)
    BY <1>3 DEF MA_HTTP_GetPost
  <2>2. AtRest("HTTP") /\ connMode' = connMode /\ held' = held
    BY <2>1 DEF SamePage, MA_HTTP_GetPost
  <2>3. Starts(HttpTask, 110, 0) \/ RestFills(room)
    BY <2>1 DEF SamePage
  <2>4. CASE Starts(HttpTask, 110, 0)
    <3>1. Called /\ task' = HttpTask /\ taskStep' = 110 /\ connMode = "HTTP" /\ held' = {}
      BY <1>1, <2>2, <2>4 DEF Called, RestList
    <3> QED
      BY <2>2, <3>1, PageCalled
  <2>5. CASE RestFills(room)
    BY <2>2, <2>5, RestCalled DEF Called
  <2> QED
    BY <2>3, <2>4, <2>5
<1> QED
  BY <1>2, <1>3

LEMMA SettingsCallsLists ==
  ASSUME TaskInv, ListInv, MA_TelServer \/ MA_GetEEPROMData \/ MA_EEPROMRead \/ MA_EEPROMWrite
  PROVE  ListInv'
<1> USE AtRestCalls, StartCalls
<1>1. ASSUME NEW t \in SettingsTasks \cup {"NONE"}, NEW step, NEW arg,
             AtRest("OFFLINE"), Begin(t, step, arg), UNCHANGED held
      PROVE  ListInv'
  <2>1. Called /\ task' = t /\ connMode = "OFFLINE" /\ connMode' = connMode /\ held' = held
    BY <1>1 DEF Called
  <2> QED
    BY <2>1, SettingsCalled, RestCalled
<1>2. \A t \in {"TELSERVER", "GETEEPROMDATA", "EEPROM_READ", "EEPROM_WRITE", "NONE"} : t \in SettingsTasks \cup {"NONE"}
  BY DEF SettingsTasks
<1>3. MA_EEPROMWrite => \E arg : Begin("EEPROM_WRITE", 0, arg) /\ AtRest("OFFLINE") /\ UNCHANGED held
  BY DEF MA_EEPROMWrite, Aside
<1>4. MA_GetEEPROMData =>
        AtRest("OFFLINE") /\ UNCHANGED held /\ (Begin("GETEEPROMDATA", 0, 0) \/ Begin("NONE", taskStep, param))
  BY DEF MA_GetEEPROMData, Aside
<1>5. MA_TelServer => AtRest("OFFLINE") /\ UNCHANGED held /\ Begin("TELSERVER", 0, 0)
  BY DEF MA_TelServer, Aside
<1>6. MA_EEPROMRead => AtRest("OFFLINE") /\ UNCHANGED held /\ Begin("EEPROM_READ", 0, 0)
  BY DEF MA_EEPROMRead, Aside
<1> QED
  BY <1>1, <1>2, <1>3, <1>4, <1>5, <1>6

LEMMA RefuseCalled ==
  ASSUME TaskInv, ListInv, task = "NONE", ~error, Refuse, UNCHANGED held
  PROVE  ListInv'
<1>1. ~busy
  BY DEF TaskInv, IInv, Running, TaskAlone
<1>2. busy' = busy
  BY <1>1, Zenon DEF Refuse, SetApiError, TaskInv, IInv, TypeOK, TypeFlags
<1>3. Called /\ task' = "NONE" /\ connMode' = connMode
  BY <1>1, <1>2 DEF Called, Refuse, SetApiError, Forgotten, table, adapter
<1> QED
  BY <1>3, RestCalled

LEMMA HeldIsSlot0 ==
  ASSUME TypeOK, SlotList, NEW s \in held, held = Used
  PROVE  usedSockets[0] /\ sockets[0] = s /\ held = {s} /\ Used = {s} /\ Listed(s)
<1>1. usedSockets[0] /\ sockets[0] = s /\ held = {s} /\ Used = {s}
  BY UsedSlot0 DEF TypeOK, SlotList
<1>2. 0 \in Slots /\ Slots = {0, 1}
  BY DEF Slots, NUM_SOCKETS
<1>3. MAU_Socket_GetNum # 0
  <2>1. {i \in Slots : usedSockets[i]} = {0}
    BY <1>1, <1>2 DEF SlotList
  <2>2. Cardinality({0}) = 1
    BY FS_Singleton, Zenon
  <2> QED
    BY <2>1, <2>2 DEF MAU_Socket_GetNum
<1>4. MAU_Socket_Search(s)
  BY <1>1, <1>2 DEF MAU_Socket_Search, Holding
<1> QED
  BY <1>1, <1>3, <1>4 DEF Listed

LEMMA SocketCallsLists ==
  ASSUME TaskInv, ListInv, MaxHeld <= 1, SocketCalls
  PROVE  ListInv'
<1> USE AtRestCalls, StartCalls, SameLive DEF Nega
<1>0. AtRest("PPP") =>
        /\ task = "NONE" /\ ~busy /\ connMode = "PPP" /\ SlotList /\ TypeOK /\ Live \subseteq Used /\ held = Used
        /\ Used \subseteq open /\ ~error /\ ~Nega({"DATA", "TCP_CONNECT", "DNS_REQUEST"})
  <2>1. SlotList /\ RestList /\ TypeOK
    BY DEF ListInv, TaskInv, IInv
  <2> QED
    BY <2>1 DEF RestList
<1>1. CASE MA_TCP_Connect
  <2>1. ASSUME Begin("TCP_CONNECT", 0, 0), Cardinality(held) < MaxHeld PROVE ListInv'
    <3>1. held = {}
      <4>1. IsFiniteSet(held)
        BY SocketsAssumption, FS_Subset DEF TaskInv, IInv, TypeOK, TypeList
      <4>2. Cardinality(held) \in Nat
        BY <4>1, FS_CardinalityType
      <4>3. Cardinality(held) = 0
        <5>1. MaxHeld \in Nat /\ MaxHeld <= 1 /\ Cardinality(held) < MaxHeld
          BY <2>1, SocketsAssumption
        <5> QED
          BY <4>2, <5>1
      <4> QED
        BY <4>1, <4>3, FS_EmptySet
    <3>2. Called /\ task' = "TCP_CONNECT" /\ taskStep' = 0 /\ connMode' = connMode /\ connMode = "PPP" /\ held' = {}
      BY <1>1, <2>1, <3>1 DEF MA_TCP_Connect, Called
    <3> QED
      BY <3>1, <3>2, FirstCalled DEF Before
  <2>2. Refuse => ListInv'
    BY <1>0, <1>1, RefuseCalled DEF MA_TCP_Connect
  <2> QED
    BY <1>1, <2>1, <2>2 DEF MA_TCP_Connect
<1>2. CASE MA_GetHostAddress
  <2>1. Called /\ task' = "GETHOSTADDRESS" /\ taskStep' = 0 /\ connMode = "PPP" /\ connMode' = connMode /\ held' = held
    BY <1>2 DEF MA_GetHostAddress, Called
  <2> QED
    BY <2>1, HostCalled
<1>3. ASSUME NEW s \in Ids, MA_TCP_Disconnect(s) PROVE ListInv'
  <2>1. AtRest("PPP") /\ s \in held
    BY <1>3 DEF MA_TCP_Disconnect
  <2>2. usedSockets[0] /\ sockets[0] = s /\ held = {s} /\ Used = {s} /\ Listed(s)
    BY <1>0, <2>1, HeldIsSlot0
  <2>3. Begin("TCP_DISCONNECT", 0, s) /\ held' = {}
    BY <1>3, <2>2 DEF MA_TCP_Disconnect
  <2>4. Called /\ task' = "TCP_DISCONNECT" /\ taskStep' = 0 /\ param' = s /\ connMode' = "PPP"
    BY <1>0, <2>1, <2>3 DEF Called
  <2>5. SlotList'
    BY <2>3, <2>4, CalledFacts DEF SlotList, TcpTasks
  <2>6. TcpList'
    BY <1>0, <2>1, <2>2, <2>3, <2>4, CalledFacts DEF TcpList, TcpTasks
  <2>7. BeforeList' /\ AwaitList' /\ UseList' /\ CloseList'
    BY <2>4, Phases DEF BeforeList, AwaitList, UseList, CloseList, TcpTasks, Closes, Quits, MailTasks
  <2> QED
    BY <2>4, <2>5, <2>6, <2>7, PhaseLists DEF TcpTasks
<1>4. ASSUME NEW s \in Ids, MA_TCP_SendRecv(s) PROVE ListInv'
  <2>1. AtRest("PPP") /\ s \in held
    BY <1>4 DEF MA_TCP_SendRecv
  <2>2. usedSockets[0] /\ sockets[0] = s /\ held = {s} /\ Used = {s} /\ Listed(s)
    BY <1>0, <2>1, HeldIsSlot0
  <2>3. Begin("TCP_SENDRECV", 0, s) /\ held' = {s}
    BY <1>4, <2>2 DEF MA_TCP_SendRecv
  <2>4. Called /\ task' = "TCP_SENDRECV" /\ taskStep' = 0 /\ param' = s /\ connMode' = "PPP" /\ ~tcpClosed'
    BY <1>0, <2>1, <2>3 DEF Called
  <2>5. SlotList'
    BY <2>3, <2>4, CalledFacts DEF SlotList, TcpTasks
  <2>6. TcpList'
    BY <1>0, <2>1, <2>2, <2>3, <2>4, CalledFacts DEF TcpList, TcpTasks
  <2>7. BeforeList' /\ AwaitList' /\ CloseList'
    BY <2>4, Phases DEF BeforeList, AwaitList, CloseList, TcpTasks
  <2>8. InSlot0' /\ sockets'[0] \in open' /\ ~Gone' /\ ~busy' /\ ~Nega({"TCP_CONNECT", "DNS_REQUEST"})'
    BY <1>0, <2>1, <2>2, <2>4, CalledFacts DEF InSlot0, Gone
  <2>9. UseList'
    BY <2>4, <2>8 DEF UseList, Talks, Connects
  <2> QED
    BY <2>4, <2>5, <2>6, <2>7, <2>9, PhaseLists DEF TcpTasks
<1> QED
  BY <1>1, <1>2, <1>3, <1>4 DEF SocketCalls

LEMMA OfflineCallLists ==
  ASSUME TaskInv, ListInv, MA_Offline
  PROVE  ListInv'
<1> USE AtRestCalls, StartCalls
<1>1. PICK mode \in {"PPP", "SMTP", "POP3"} :
        AtRest(mode) /\ Begin("OFFLINE", IF mode = "PPP" THEN 0 ELSE 100, 0)
  BY DEF MA_Offline
<1>2. Called /\ task' = "OFFLINE" /\ taskStep' = (IF mode = "PPP" THEN 0 ELSE 100) /\ connMode' = connMode
      /\ connMode = mode /\ ~tcpClosed' /\ held' = {}
  BY <1>1 DEF Called, MA_Offline
<1>3. CASE mode = "PPP"
  BY <1>2, <1>3, OfflineCalled
<1>4. CASE mode # "PPP"
  <2>1. Uses(task', taskStep')
    BY <1>2, <1>4 DEF Uses, MailTasks
  <2> QED
    BY <1>1, <1>2, <1>4, <2>1, MailCalled
<1> QED
  BY <1>3, <1>4

LEMMA CutCallLists ==
  ASSUME TaskInv, ListInv, "unstored" \notin Risks, MA_TCP_Cut
  PROVE  ListInv'
<1> USE SameLive DEF Nega
<1>0. /\ task' = "TCP_CUT" /\ cutCmd' = sendCmd /\ taskStep' = (IF ~busy /\ connMode # "PPP" THEN 2 ELSE 0)
      /\ UNCHANGED <<usedSockets, sockets, connMode, busy, sendCmd, sendSocket, recvCmd, recvData, held>>
      /\ Live' = Live /\ open' = open /\ Used' = Used
  BY DEF MA_TCP_Cut, table, bios, Used
<1>1. /\ task # "TCP_CUT"
      /\ connMode \in {"HTTP", "SMTP", "POP3"} \/ (connMode = "PPP" /\ task \in MailTasks)
      /\ ~(task = HttpTask /\ taskStep = 3 /\ ~busy)
  BY DEF MA_TCP_Cut
<1>2. /\ SlotList /\ RestList /\ BeforeList /\ AwaitList /\ UseList /\ CloseList /\ TypeList /\ connMode \in RunsIn(task)
      /\ task \in AllTasks /\ TaskAlone /\ Awaited /\ Used = IF usedSockets[0] THEN {sockets[0]} ELSE {}
  BY UsedSlot0 DEF ListInv, TaskInv, IInv, TypeOK, Running, ModeInv, TypeRun, SlotList
<1>3. /\ task \notin TcpTasks \cup SettingsTasks
      /\ connMode = "PPP" => task \in Connects
  BY <1>1, <1>2, RunsInEach DEF TcpTasks, SettingsTasks, MailTasks, Connects
<1>4. /\ task = "OFFLINE" => taskStep \in (0..3) \cup (100..103)
      /\ task = "OFFLINE" /\ taskStep \in 0..3 => Live \subseteq Used /\ (busy => sendCmd \in Leaving)
  BY DEF ListInv, EndList
<1>5. held = {}
  BY <1>1, <1>2, <1>3 DEF SlotList, RestList, Connects
<1>6. \/ task = "NONE" \/ Before(task, taskStep) \/ AwaitsConnect(task, taskStep) \/ Uses(task, taskStep)
      \/ Closes(task, taskStep) \/ (task = "OFFLINE" /\ taskStep \in 0..3)
  BY <1>1, <1>2, <1>3, <1>4 DEF AllTasks, Uses, Closes
<1>7. CASE ~busy /\ connMode # "PPP"
  <2>1. ~AwaitsConnect(task, taskStep)
    BY <1>1, <1>2, <1>3, <1>7, RunsInEach DEF AwaitsConnect, TcpTasks
  <2>2. Live \subseteq {sockets[0]}
    BY <1>1, <1>2, <1>4, <1>6, <1>7, <2>1 DEF RestList, BeforeList, UseList, CloseList, InSlot0
  <2>3. SlotList' /\ EndList'
    BY <1>0, <1>2, <1>5, <1>7, <2>2 DEF SlotList, EndList
  <2> QED
    BY <1>0, <1>7, <2>3, PhaseLists
<1>8. CASE busy \/ connMode = "PPP"
  <2>1. Live \subseteq IF sendCmd = "TCP_CONNECT" THEN Arriving ELSE Used
    <3>1. AwaitsConnect(task, taskStep) => sendCmd = "TCP_CONNECT" /\ Live \subseteq Arriving
      BY <1>2 DEF Awaited, AwaitList
    <3>2. Before(task, taskStep) => Live = {}
      BY <1>2 DEF BeforeList
    <3>3. Uses(task, taskStep) => sendCmd = "DATA" /\ Live \subseteq Used
      BY <1>2, <1>3, <1>8 DEF UseList, InSlot0, Talks
    <3>4. Closes(task, taskStep) => sendCmd = "TCP_DISCONNECT" /\ Live \subseteq Used
      BY <1>1, <1>2, <1>3, <1>8 DEF CloseList, TcpTasks
    <3>5. task # "NONE"
      BY <1>2, <1>3, <1>8 DEF TaskAlone, Connects
    <3>6. task = "OFFLINE" /\ taskStep \in 0..3 => sendCmd # "TCP_CONNECT" /\ Live \subseteq Used
      BY <1>3, <1>4, <1>8 DEF Leaving, Connects
    <3> QED
      BY <1>6, <3>1, <3>2, <3>3, <3>4, <3>5, <3>6
  <2>2. busy /\ sendCmd = "DATA" => sendSocket \in Used
    <3>1. busy => task # "NONE"
      BY <1>2 DEF TaskAlone
    <3> QED
      BY <1>1, <1>2, <1>3, <1>4, <1>6, <3>1 DEF Awaited, BeforeList, UseList, CloseList, Talks, InSlot0, Leaving, TcpTasks
  <2>3. Arriving' = Arriving
    BY <1>0 DEF Arriving, Arrived
  <2>4. SlotList' /\ EndList' /\ taskStep' = 0
    BY <1>0, <1>2, <1>5, <1>8, <2>1, <2>2, <2>3 DEF SlotList, EndList
  <2> QED
    BY <1>0, <2>4, PhaseLists
<1> QED
  BY <1>7, <1>8

LEMMA ErrorLists ==
  ASSUME TaskInv, ListInv, MAAPI_ErrorCheck
  PROVE  ListInv'
<1> USE SameLive DEF Nega
<1>1. task = "NONE" /\ ~busy /\ SlotList /\ RestList
  BY DEF TaskInv, IInv, Running, TaskAlone, MAAPI_ErrorCheck, ListInv
<1>2. sendCmd' = "none" /\ recvCmd' = "none"
  BY <1>1 DEF MAAPI_ErrorCheck
<1>3. task' = "NONE" /\ UNCHANGED <<usedSockets, sockets, connMode, held>> /\ Live' = Live /\ open' = open /\ Used' = Used
  BY <1>1 DEF MAAPI_ErrorCheck, table, api, Used
<1>4. SlotList' /\ RestList'
  BY <1>1, <1>2, <1>3 DEF SlotList, RestList, InSlot0
<1> QED
  BY <1>3, <1>4, PhaseLists

LEMMA GameLists ==
  ASSUME TaskInv, ListInv, MaxHeld <= 1, "unstored" \notin Risks, Game
  PROVE  ListInv'
<1>1. CASE MA_ApiPreExe
  BY <1>1, RefuseCalled DEF MA_ApiPreExe
<1> QED
  BY <1>1, SocketCallsLists, OfflineCallLists, CutCallLists, ErrorLists, MailCallsLists, HttpCallsLists, SettingsCallsLists
     DEF Game, GoesOffline

----------------------------------------------------------------------------
(* What an HTTP server hears.                                              *)

\* An entry of the dialogue is known by what the server waits for and hears.
LEMMA OneAnswer ==
  ASSUME NEW id, NEW p, NEW t, NEW o, NEW w, <<p, t, o, w>> \in Dialogue,
         \A a, b : <<p, t, a, b>> \in Dialogue => a = o /\ b = w,
         \A d \in Dialogue : d = <<d[1], d[2], d[3], d[4]>>,
         peer[id] = p, p # "own", t # "empty", due = "nothing"
  PROVE  Heard(id, t).owes = o /\ Heard(id, t).waits = w
<1> DEFINE Fits_(d) == d[1] = peer[id] /\ d[2] = t
           d == CHOOSE d \in Dialogue : Fits_(d)
<1>1. <<p, t, o, w>>[1] = p /\ <<p, t, o, w>>[2] = t /\ <<p, t, o, w>>[3] = o /\ <<p, t, o, w>>[4] = w
  OBVIOUS
<1>2. \E e \in Dialogue : Fits_(e)
  BY <1>1
<1>3. d \in Dialogue /\ d[1] = p /\ d[2] = t
  BY <1>2
<1>4. d[3] = o /\ d[4] = w
  BY <1>3
<1>5. d = CHOOSE e \in Dialogue : e[1] = peer[id] /\ e[2] = t
  OBVIOUS
<1> HIDE DEF d
<1>6. Heard(id, t) = [owes |-> d[3], waits |-> d[4]]
  BY <1>2, <1>5 DEF Heard
<1> QED
  BY <1>4, <1>6

HttpWaits == {"http", "http_get", "http_post", "http_content"}

LEMMA MailEntries ==
  /\ \A d \in MailDialogue : d = <<d[1], d[2], d[3], d[4]>>
  /\ \A p, t, o, w : <<p, t, o, w>> \in MailDialogue => p \notin HttpWaits
<1> DEFINE Four(d) == d = <<d[1], d[2], d[3], d[4]>>
           Other(d) == \E p, t, o, w : d = <<p, t, o, w>> /\ p \notin HttpWaits
<1>1. \A p, t, o, w : Four(<<p, t, o, w>>)
  OBVIOUS
<1>2. \A p, t, o, w : p \notin HttpWaits => Other(<<p, t, o, w>>)
  OBVIOUS
<1>3. \A d : Other(d) => Four(d)
  BY <1>1
<1>4. \A p, t, o, w, q, u, v, x : <<p, t, o, w>> = <<q, u, v, x>> => p = q
  OBVIOUS
<1>5. \A p, t, o, w : Other(<<p, t, o, w>>) => p \notin HttpWaits
  BY <1>4
<1> HIDE DEF Four, Other
<1>6. ASSUME NEW d \in MailDialogue PROVE Other(d)
  <2>1. ASSUME NEW c \in MailCommands, d = <<"pop3_ready", c, "reply", "pop3_ready">> PROVE Other(d)
    BY <1>2, <2>1 DEF HttpWaits
  <2>2. ASSUME NEW s \in {"smtp", "smtp_ready", "smtp_from", "smtp_to", "pop3", "pop3_user", "pop3_ready"},
               d = <<s, "QUIT", "reply", "bye">>
        PROVE  Other(d)
    BY <1>2, <2>2 DEF HttpWaits
  <2> QED
    BY <1>2, <1>6, <2>1, <2>2 DEF MailDialogue, HttpWaits
<1>7. \A p, t, o, w : <<p, t, o, w>> \in MailDialogue => p \notin HttpWaits
  BY <1>5, <1>6
<1>8. \A d \in MailDialogue : Four(d)
  BY <1>3, <1>6
<1> QED
  BY <1>7, <1>8 DEF Four

LEMMA HttpEntries ==
  ASSUME NEW c \in {"plain", "authorization", "id"}
  PROVE  /\ \A d \in HttpDialogue(c) : d = <<d[1], d[2], d[3], d[4]>>
         /\ \A p, t, o, w, a, b :
              <<p, t, o, w>> \in HttpDialogue(c) /\ <<p, t, a, b>> \in HttpDialogue(c) => a = o /\ b = w
         /\ \A p, t, o, w : <<p, t, o, w>> \in HttpDialogue(c) => p # "own" /\ t # "empty"
<1> DEFINE l == WithLength[c]
<1>1. l \in {"plain+length", "authorization+length", "id+length"}
  BY DEF WithLength
<1>2. HttpDialogue(c) =
        {<<"http", "GET", "nothing", "http_get">>, <<"http", "POST", "nothing", "http_post">>,
         <<"http_get", "path", "nothing", "http_get">>, <<"http_post", "path", "nothing", "http_post">>,
         <<"http_get", c, "page", "http_answer">>, <<"http_post", c, "page", "http_answer">>,
         <<"http_post", l, "nothing", "http_content">>, <<"http_content", "text", "nothing", "http_content">>,
         <<"http_content", "end", "page", "http_answer">>}
  BY DEF HttpDialogue
<1> HIDE DEF l
<1>3. \A p, t, o, w, q, u, v, x : <<p, t, o, w>> = <<q, u, v, x>> => p = q /\ t = u /\ o = v /\ w = x
  OBVIOUS
<1>4. \A p, t, o, w : <<p, t, o, w>> \in HttpDialogue(c) =>
        \/ p = "http" /\ t = "GET" /\ o = "nothing" /\ w = "http_get"
        \/ p = "http" /\ t = "POST" /\ o = "nothing" /\ w = "http_post"
        \/ p \in {"http_get", "http_post"} /\ t = "path" /\ o = "nothing" /\ w = p
        \/ p \in {"http_get", "http_post"} /\ t = c /\ o = "page" /\ w = "http_answer"
        \/ p = "http_post" /\ t = l /\ o = "nothing" /\ w = "http_content"
        \/ p = "http_content" /\ t = "text" /\ o = "nothing" /\ w = "http_content"
        \/ p = "http_content" /\ t = "end" /\ o = "page" /\ w = "http_answer"
  <2> SUFFICES ASSUME NEW p, NEW t, NEW o, NEW w, <<p, t, o, w>> \in HttpDialogue(c)
               PROVE  \/ p = "http" /\ t = "GET" /\ o = "nothing" /\ w = "http_get"
                      \/ p = "http" /\ t = "POST" /\ o = "nothing" /\ w = "http_post"
                      \/ p \in {"http_get", "http_post"} /\ t = "path" /\ o = "nothing" /\ w = p
                      \/ p \in {"http_get", "http_post"} /\ t = c /\ o = "page" /\ w = "http_answer"
                      \/ p = "http_post" /\ t = l /\ o = "nothing" /\ w = "http_content"
                      \/ p = "http_content" /\ t = "text" /\ o = "nothing" /\ w = "http_content"
                      \/ p = "http_content" /\ t = "end" /\ o = "page" /\ w = "http_answer"
    OBVIOUS
  <2> QED
    BY <1>2, <1>3
<1>5. \A p, t, o, w, a, b :
        <<p, t, o, w>> \in HttpDialogue(c) /\ <<p, t, a, b>> \in HttpDialogue(c) => a = o /\ b = w
  <2> SUFFICES ASSUME NEW p, NEW t, NEW o, NEW w, NEW a, NEW b,
                      <<p, t, o, w>> \in HttpDialogue(c), <<p, t, a, b>> \in HttpDialogue(c)
               PROVE  a = o /\ b = w
    OBVIOUS
  <2>3. c \notin {"GET", "POST", "path", "text", "end"} /\ l \notin {"GET", "POST", "path", "text", "end"} /\ c # l
    BY <1>1
  <2> DEFINE One(p_, t_, o_, w_) ==
        \/ p_ = "http" /\ t_ = "GET" /\ o_ = "nothing" /\ w_ = "http_get"
        \/ p_ = "http" /\ t_ = "POST" /\ o_ = "nothing" /\ w_ = "http_post"
        \/ p_ \in {"http_get", "http_post"} /\ t_ = "path" /\ o_ = "nothing" /\ w_ = p_
        \/ p_ \in {"http_get", "http_post"} /\ t_ = c /\ o_ = "page" /\ w_ = "http_answer"
        \/ p_ = "http_post" /\ t_ = l /\ o_ = "nothing" /\ w_ = "http_content"
        \/ p_ = "http_content" /\ t_ = "text" /\ o_ = "nothing" /\ w_ = "http_content"
        \/ p_ = "http_content" /\ t_ = "end" /\ o_ = "page" /\ w_ = "http_answer"
  <2>4. One(p, t, o, w) /\ One(p, t, a, b)
    BY <1>4
  <2>1. /\ p = "http" /\ t = "GET" => a = o /\ b = w
        /\ p = "http" /\ t = "POST" => a = o /\ b = w
        /\ t = "path" => a = o /\ b = w
        /\ t = c => a = o /\ b = w
        /\ t = l => a = o /\ b = w
        /\ p = "http_content" => a = o /\ b = w
    BY <2>3, <2>4
  <2>2. (p = "http" /\ t \in {"GET", "POST"}) \/ t = "path" \/ t = c \/ t = l \/ p = "http_content"
    BY <1>4
  <2> QED
    BY <2>1, <2>2
<1>6. \A d \in HttpDialogue(c) : d = <<d[1], d[2], d[3], d[4]>>
  <2> DEFINE Four(d) == d = <<d[1], d[2], d[3], d[4]>>
  <2>1. \A p, t, o, w : w # "closed" => Four(<<p, t, o, w>>)
    OBVIOUS
  <2> HIDE DEF Four
  <2>2. \A d \in HttpDialogue(c) : Four(d)
    <3>1. ASSUME NEW d \in HttpDialogue(c) PROVE Four(d)
      BY <2>1, <3>1 DEF HttpDialogue
    <3> QED
      BY <3>1
  <2> QED
    BY <2>2 DEF Four
<1>7. \A p, t, o, w : <<p, t, o, w>> \in HttpDialogue(c) => p # "own" /\ t # "empty"
  BY <1>1, <1>4
<1> QED
  BY <1>5, <1>6, <1>7

LEMMA HttpHears ==
  ASSUME TypeAdapter, answered < 3, due = "nothing", NEW id, NEW p \in HttpWaits, peer[id] = p,
         NEW t, NEW o, NEW w, <<p, t, o, w>> \in HttpDialogue(Credentials[answered + 1])
  PROVE  Heard(id, t).owes = o /\ Heard(id, t).waits = w
<1> DEFINE c == Credentials[answered + 1]
<1>1. c \in {"plain", "authorization", "id"}
  BY DEF Credentials, TypeAdapter
<1>2. Dialogue = MailDialogue \cup HttpDialogue(c)
  BY DEF Dialogue
<1>3. <<p, t, o, w>> \in HttpDialogue(c)
  OBVIOUS
<1> HIDE DEF c
<1>4. \A a, b : <<p, t, a, b>> \in Dialogue => a = o /\ b = w
  BY <1>1, <1>2, <1>3, MailEntries, HttpEntries
<1>5. \A d \in Dialogue : d = <<d[1], d[2], d[3], d[4]>>
  BY <1>1, <1>2, MailEntries, HttpEntries
<1>6. p # "own" /\ t # "empty" /\ <<p, t, o, w>> \in Dialogue
  BY <1>1, <1>2, <1>3, HttpEntries
<1> QED
  BY <1>4, <1>5, <1>6, OneAnswer

\* What an answer to DATA in the connection of slot 0 does: the connection is
\* gone, or its server has heard the text and says something.
Heard0 == Heard(sockets[0], sendText)

Spoke ==
  /\ There /\ There' /\ ~tcpClosed' /\ recvChunk' \in Says(Heard0.owes) /\ Peer0' = Heard0.waits
  /\ Peer0 # "own" => due' = Owes(Heard0.owes, recvChunk')
  /\ sent' = sent + Len(recvChunk'.bytes)
  /\ answered' = IF Heard0.owes = "page" /\ recvChunk'.line \in Headers THEN answered + 1 ELSE answered

LEMMA Conversed ==
  ASSUME IInv, Out, Unclosed, busy, sendCmd = "DATA", sendSocket = sockets[0], usedSockets[0], Answer
  PROVE  /\ ~busy' /\ UNCHANGED <<table, connMode, api, held, http>>
         /\ \/ ~There' /\ UNCHANGED answered /\ (tcpClosed' \/ recvChunk' = NoChunk)
            \/ Spoke
<1>0. /\ ~tcpClosed /\ recvChunk = NoChunk /\ peer \in [Ids -> Waits] /\ TypeAdapter
      /\ UNCHANGED <<table, connMode, api, held, http>> /\ MA_ProcessRecvPacket
      /\ usedSockets' = usedSockets /\ sockets' = sockets
  BY DEF Out, Unclosed, IInv, TypeOK, TypeAdapter, Answer, SettingsAnswers, MA_ProcessRecvPacket, Commands, table
<1>1. \A cmd, data, chunk : Reply(cmd, data, chunk) => ~busy' /\ recvChunk' = chunk
  BY DEF Reply
<1>2. Refused => ~busy' /\ recvChunk' = recvChunk
  BY Zenon DEF Refused
<1>3. CASE sendSocket \in open
  <2>0. sockets[0] \in Ids /\ There
    BY <1>3 DEF open, There
  <2>1. CASE Refused /\ Lost(sendSocket) /\ UNCHANGED tcpClosed
    <3>1. open' = open \ {sendSocket} /\ UNCHANGED answered
      BY <1>0, <2>0, <2>1, PeerMoves DEF Lost
    <3> QED
      BY <1>0, <1>2, <2>1, <3>1 DEF There
  <2>2. ASSUME NEW chunk \in Says(Heard(sendSocket, sendText).owes), Converse(sendSocket, sendText, chunk),
               Reply(sendCmd, Garbage, chunk), UNCHANGED tcpClosed
        PROVE  ~busy' /\ Spoke
    <3>1. Heard0.waits # "closed"
      BY <1>0, <1>3, HeardStays DEF Heard0
    <3>2. peer' = [peer EXCEPT ![sockets[0]] = Heard0.waits] /\ recvChunk' = chunk
      BY <1>1, <2>2 DEF Converse, Heard0
    <3>3. There' /\ Peer0' = Heard0.waits
      <4>1. open' = open \cup {sockets[0]}
        BY <1>0, <2>0, <3>1, <3>2, PeerMoves
      <4> QED
        BY <1>0, <2>0, <3>2, <4>1 DEF There, Peer0
    <3>4. /\ Peer0 # "own" => due' = Owes(Heard0.owes, recvChunk')
          /\ sent' = sent + Len(recvChunk'.bytes)
          /\ answered' = IF Heard0.owes = "page" /\ recvChunk'.line \in Headers THEN answered + 1 ELSE answered
      BY <2>2, <3>2 DEF Converse, Heard0, Peer0
    <3>5. recvChunk' \in Says(Heard0.owes)
      BY <2>2, <3>2 DEF Heard0
    <3> QED
      BY <1>0, <1>1, <2>0, <2>2, <3>3, <3>4, <3>5 DEF Spoke
  <2>3. ASSUME NEW chunk, HangsUp(sendSocket, sendText, chunk), Reply("DATA_END", Garbage, chunk), tcpClosed' = TRUE
        PROVE  ~busy' /\ ~There' /\ UNCHANGED answered /\ tcpClosed'
    <3>1. open' = open \ {sendSocket}
      BY <1>0, <2>0, <2>3, PeerMoves DEF HangsUp
    <3> QED
      BY <1>0, <1>1, <2>3, <3>1 DEF There, HangsUp
  <2> QED
    BY <1>0, <1>3, <2>1, <2>2, <2>3 DEF MA_ProcessRecvPacket
<1>4. CASE sendSocket \notin open
  <2>1. Refused /\ UNCHANGED adapter
    BY <1>0, <1>4 DEF MA_ProcessRecvPacket
  <2>2. ~There' /\ UNCHANGED answered
    BY <1>0, <1>4, <2>1, SameLive DEF There, adapter
  <2> QED
    BY <1>0, <1>2, <2>1, <2>2
<1> QED
  BY <1>3, <1>4

LEMMA OtherAnswers ==
  ASSUME busy, sendCmd # "DATA", Answer
  PROVE  UNCHANGED answered
BY DEF Answer, SettingsAnswers, MA_ProcessRecvPacket, Connected, Lost, AllLost, adapter

\* The credential a request carries is the one the server expects.
LEMMA Expected ==
  ASSUME TypeHttp, http.step < Requests[http.auth], answered = http.step
  PROVE  /\ answered \in 0..2
         /\ Credentials[answered + 1] \in {"plain", "authorization", "id"}
         /\ CreateHttpRequestHeader =
              IF SendsData THEN WithLength[Credentials[answered + 1]] ELSE Credentials[answered + 1]
<1>1. http.auth \in {"UNKNOWN", "UTILITY", "DOWNLOAD", "UPLOAD", "RANKING"} /\ http.step \in 0..3
  BY DEF TypeHttp, Suited
<1>2. answered \in 0..2 /\ (http.auth = "UNKNOWN" => answered = 0)
  BY <1>1 DEF Requests
<1>3. Credentials[1] = "plain" /\ Credentials[2] = "authorization" /\ Credentials[3] = "id"
  BY DEF Credentials
<1> QED
  BY <1>2, <1>3 DEF CreateHttpRequestHeader

\* What the server of a page does, by the step that has sent it the text.
LEMMA ServerAnswers ==
  ASSUME TaskInv, BodyInv, HttpInv, task = HttpTask, busy, There, taskStep \in {8, 50, 100, 110}
  PROVE  /\ taskStep = 50 /\ http.next = 5 => Heard0.owes = "nothing" /\ Heard0.waits = Wanted
         /\ taskStep = 50 /\ http.next \in {6, 7} => Heard0.owes = "nothing" /\ Heard0.waits = Wanted
         /\ taskStep = 100 => Heard0.owes = "nothing" /\ Heard0.waits = "http_content"
         /\ taskStep = 50 /\ http.next = 100 => Heard0.owes = "nothing" /\ Heard0.waits = "http_content"
         /\ Heading /\ ~http.headFound => Heard0.owes = "page" /\ Heard0.waits = "http_answer"
         /\ Heading /\ http.headFound => Heard0.owes = "rest" /\ Heard0.waits = "http_answer"
         /\ taskStep = 110 => Heard0.owes = "rest" /\ Heard0.waits = "http_answer"
<1>0. /\ TypeHttp /\ TypeAdapter /\ PageKnows /\ PageTalk
      /\ taskStep # 110 => http.step < Requests[http.auth]
  BY DEF TaskInv, IInv, TypeOK, HttpInv, HttpProgress, RequestSteps
<1> DEFINE c == Credentials[answered + 1]
<1>1. ASSUME answered = http.step, taskStep # 110
      PROVE  /\ answered < 3 /\ c \in {"plain", "authorization", "id"}
             /\ CreateHttpRequestHeader = IF SendsData THEN WithLength[c] ELSE c
  BY <1>0, <1>1, Expected
<1>2. GetRequestType \in {"GET", "POST"} /\ (SendsData => Wanted = "http_post")
  <2>1. http.auth \in Suited[http.method] /\ http.method \in {"GET", "POST"}
    BY <1>0 DEF PageKnows, TypeHttp, Suited
  <2>2. Suited["GET"] = {"UNKNOWN", "DOWNLOAD", "UTILITY"} /\ Suited["POST"] = {"UNKNOWN", "UPLOAD", "RANKING"}
    BY DEF Suited
  <2>3. http.step \in 0..3
    BY <1>0 DEF TypeHttp
  <2> QED
    BY <2>1, <2>2, <2>3 DEF GetRequestType, SendsData, Wanted
<1> HIDE DEF c
<1>3. /\ <<"http", GetRequestType, "nothing", Wanted>> \in HttpDialogue(c)
      /\ <<Wanted, "path", "nothing", Wanted>> \in HttpDialogue(c)
      /\ <<Wanted, c, "page", "http_answer">> \in HttpDialogue(c)
      /\ <<"http_post", WithLength[c], "nothing", "http_content">> \in HttpDialogue(c)
      /\ <<"http_content", "text", "nothing", "http_content">> \in HttpDialogue(c)
      /\ <<"http_content", "end", "page", "http_answer">> \in HttpDialogue(c)
  BY <1>2 DEF HttpDialogue, Wanted
<1>15. "http" \in HttpWaits /\ "http_post" \in HttpWaits /\ "http_content" \in HttpWaits
  BY DEF HttpWaits
<1>4. Wanted \in HttpWaits
  BY DEF Wanted, HttpWaits
<1>5. ASSUME answered = http.step, taskStep # 110, due = "nothing", Peer0 \in HttpWaits,
             NEW o, NEW w, <<Peer0, sendText, o, w>> \in HttpDialogue(c)
      PROVE  Heard0.owes = o /\ Heard0.waits = w
  <2>1. TypeAdapter /\ answered < 3 /\ peer[sockets[0]] = Peer0
        /\ <<Peer0, sendText, o, w>> \in HttpDialogue(Credentials[answered + 1])
    BY <1>0, <1>1, <1>5 DEF c, Peer0
  <2>2. Heard(sockets[0], sendText).owes = o /\ Heard(sockets[0], sendText).waits = w
    BY <1>5, <2>1, HttpHears
  <2> QED
    BY <2>2 DEF Heard0
<1>6. taskStep = 50 /\ http.next = 5 => Heard0.owes = "nothing" /\ Heard0.waits = Wanted
  <2> SUFFICES ASSUME taskStep = 50, http.next = 5 PROVE Heard0.owes = "nothing" /\ Heard0.waits = Wanted
    OBVIOUS
  <2>2. answered = http.step
    BY <1>0 DEF PageKnows
  <2>3. SaidOr({GetRequestType}, {"http"}, {Wanted})
    BY <1>0 DEF PageTalk
  <2>1. due = "nothing" /\ Peer0 = "http" /\ sendText = GetRequestType
    BY <2>3 DEF SaidOr, Said, Ready
  <2> QED
    <3>1. <<Peer0, sendText, "nothing", Wanted>> \in HttpDialogue(c)
      BY <1>3, <2>1
    <3>2. Peer0 \in HttpWaits
      BY <1>15, <2>1
    <3>3. taskStep # 110
      OBVIOUS
    <3> QED
      BY <1>5, <2>1, <2>2, <3>1, <3>2, <3>3
<1>7. taskStep = 50 /\ http.next \in {6, 7} => Heard0.owes = "nothing" /\ Heard0.waits = Wanted
  <2> SUFFICES ASSUME taskStep = 50, http.next \in {6, 7} PROVE Heard0.owes = "nothing" /\ Heard0.waits = Wanted
    OBVIOUS
  <2>2. answered = http.step
    BY <1>0 DEF PageKnows
  <2>3. SaidOr({"path"}, {Wanted}, {Wanted})
    BY <1>0 DEF PageTalk
  <2>1. due = "nothing" /\ Peer0 = Wanted /\ sendText = "path"
    BY <2>3 DEF SaidOr, Said, Ready
  <2> QED
    <3>1. <<Peer0, sendText, "nothing", Wanted>> \in HttpDialogue(c)
      BY <1>3, <2>1
    <3> QED
      BY <1>4, <1>5, <2>1, <2>2, <3>1
<1>8. taskStep = 100 => Heard0.owes = "nothing" /\ Heard0.waits = "http_content"
  <2> SUFFICES ASSUME taskStep = 100 PROVE Heard0.owes = "nothing" /\ Heard0.waits = "http_content"
    OBVIOUS
  <2>1. answered = http.step /\ due = "nothing" /\ Peer0 = "http_post" /\ sendText = CreateHttpRequestHeader /\ SendsData
    BY <1>0 DEF PageKnows, PageTalk, SaidOr, Said, Ready
  <2> QED
    <3>0. taskStep # 110
      OBVIOUS
    <3>1. sendText = WithLength[c]
      BY <1>1, <2>1, <3>0
    <3>2. <<Peer0, sendText, "nothing", "http_content">> \in HttpDialogue(c)
      BY <1>3, <2>1, <3>1
    <3>3. Peer0 \in HttpWaits
      BY <1>15, <2>1
    <3>4. \A o, w : <<Peer0, sendText, o, w>> \in HttpDialogue(c) => Heard0.owes = o /\ Heard0.waits = w
      BY <1>5, <2>1, <3>0, <3>3
    <3> QED
      <4> DEFINE o_ == "nothing"
                 w_ == "http_content"
      <4>1. <<Peer0, sendText, o_, w_>> \in HttpDialogue(c)
        BY <3>2
      <4> HIDE DEF o_, w_
      <4>2. Heard0.owes = o_ /\ Heard0.waits = w_
        BY <3>4, <4>1
      <4> QED
        BY <4>2 DEF o_, w_
<1>9. taskStep = 50 /\ http.next = 100 => Heard0.owes = "nothing" /\ Heard0.waits = "http_content"
  <2> SUFFICES ASSUME taskStep = 50, http.next = 100 PROVE Heard0.owes = "nothing" /\ Heard0.waits = "http_content"
    OBVIOUS
  <2>2. answered = http.step
    BY <1>0 DEF PageKnows
  <2>3. SaidOr({"text"}, {"http_content"}, {"http_content"})
    BY <1>0 DEF PageTalk
  <2>1. due = "nothing" /\ Peer0 = "http_content" /\ sendText = "text"
    BY <2>3 DEF SaidOr, Said, Ready
  <2> QED
    <3>1. <<Peer0, sendText, "nothing", "http_content">> \in HttpDialogue(c)
      BY <1>3, <2>1
    <3>2. Peer0 \in HttpWaits
      BY <1>15, <2>1
    <3>3. taskStep # 110
      OBVIOUS
    <3>4. \A o, w : <<Peer0, sendText, o, w>> \in HttpDialogue(c) => Heard0.owes = o /\ Heard0.waits = w
      BY <1>5, <2>1, <2>2, <3>2, <3>3
    <3> QED
      <4> DEFINE o_ == "nothing"
                 w_ == "http_content"
      <4>1. <<Peer0, sendText, o_, w_>> \in HttpDialogue(c)
        BY <3>1
      <4> HIDE DEF o_, w_
      <4>2. Heard0.owes = o_ /\ Heard0.waits = w_
        BY <3>4, <4>1
      <4> QED
        BY <4>2 DEF o_, w_
<1>10. ASSUME Peer0 = "http_answer", sendText = "empty" PROVE Heard0.owes = due /\ Heard0.waits = "http_answer"
  BY <1>10 DEF Heard0, Heard, Peer0
<1>11. Heading => (HeadSaid <=> http.headFound)
  BY DEF HeadSaid
<1>12. Heading /\ ~http.headFound => Heard0.owes = "page" /\ Heard0.waits = "http_answer"
  <2> SUFFICES ASSUME Heading, ~http.headFound PROVE Heard0.owes = "page" /\ Heard0.waits = "http_answer"
    OBVIOUS
  <2>1. answered = http.step + IF HeadSaid THEN 1 ELSE 0
    BY <1>0 DEF PageKnows
  <2>2. answered = http.step
    BY <1>0, <1>11, <2>1 DEF TypeHttp
  <2>3. taskStep # 110
    BY DEF Heading
  <2>4. CASE Peer0 = "http_answer" /\ sendText = "empty" /\ due = "page"
    BY <1>10, <2>4
  <2>5. CASE taskStep = 50 /\ Said({"end"}, {"http_content"})
    <3>1. due = "nothing" /\ Peer0 = "http_content" /\ sendText = "end"
      BY <2>5 DEF Said
    <3>2. <<Peer0, sendText, "page", "http_answer">> \in HttpDialogue(c)
      BY <1>3, <3>1
    <3>3. Peer0 \in HttpWaits
      BY <1>15, <3>1
    <3> QED
      BY <1>5, <2>2, <2>3, <3>1, <3>2, <3>3
  <2>6. CASE ~SendsData /\ Said({CreateHttpRequestHeader}, {Wanted})
    <3>1. due = "nothing" /\ Peer0 = Wanted /\ sendText = c
      BY <1>1, <2>2, <2>3, <2>6 DEF Said
    <3>2. <<Peer0, sendText, "page", "http_answer">> \in HttpDialogue(c)
      BY <1>3, <3>1
    <3> QED
      BY <1>4, <1>5, <2>2, <2>3, <3>1, <3>2
  <2> QED
    BY <1>0, <1>11, <2>4, <2>5, <2>6 DEF PageTalk
<1>13. Heading /\ http.headFound => Heard0.owes = "rest" /\ Heard0.waits = "http_answer"
  BY <1>0, <1>10, <1>11 DEF PageTalk
<1>14. taskStep = 110 => Heard0.owes = "rest" /\ Heard0.waits = "http_answer"
  BY <1>0, <1>10 DEF PageTalk
<1> QED
  BY <1>6, <1>7, <1>8, <1>9, <1>12, <1>13, <1>14

\* The server whose answer a page waits for is no program of the game's own.
LEMMA NotOwn ==
  ASSUME PageKnows, PageTalk, taskStep \in {8, 50, 100, 110}
  PROVE  Peer0 # "own"
<1>1. Wanted # "own"
  BY DEF Wanted
<1>2. CASE taskStep = 50 /\ http.next # 8
  <2>1. http.next \in {5, 6, 7, 100}
    BY <1>2 DEF PageKnows
  <2> QED
    BY <1>1, <1>2, <2>1 DEF PageTalk, SaidOr, Said, Ready
<1>3. CASE Heading
  BY <1>1, <1>3 DEF PageTalk, Said
<1>4. CASE taskStep \in {100, 110}
  BY <1>4 DEF PageTalk, SaidOr, Said, Ready
<1> QED
  BY <1>2, <1>3, <1>4 DEF Heading

LEMMA ArrivedAnswers ==
  ASSUME TaskInv, HttpInv, Unclosed, Answer
  PROVE  ArrivedTalk'
<1>0. busy /\ UNCHANGED <<task, taskStep>> /\ ArrivedTalk /\ Awaited /\ peer \in [Ids -> Waits]
  <2>1. busy /\ AnswerMoves
    BY AnswerLive DEF TaskInv
  <2> QED
    BY <2>1 DEF AnswerMoves, api, HttpInv, TaskInv, IInv, Running, TypeOK, TypeAdapter
<1>1. CASE ~AwaitsConnect(task, taskStep)
  BY <1>0, <1>1 DEF ArrivedTalk
<1>2. CASE AwaitsConnect(task, taskStep)
  <2>1. sendCmd = "TCP_CONNECT" /\ sendText = PortOf(task) /\ MA_ProcessRecvPacket
    BY <1>0, <1>2 DEF Awaited, ArrivedTalk, Answer, SettingsAnswers, Commands
  <2>2. CASE Refused
    BY <1>0, <2>1, <2>2 DEF Refused, ArrivedTalk, Arrived
  <2>3. ASSUME NEW id \in Ids, Reply(sendCmd, id, NoChunk), Connected(id, sendText) PROVE ArrivedTalk'
    <3>1. ~busy' /\ recvData' = id
      BY <2>3 DEF Reply
    <3>2. peer'[id] = Ports[sendText]
      BY <1>0, <2>3 DEF Connected
    <3>3. task \in Connects => sendText \in {"SMTP", "POP3"}
      BY <2>1 DEF PortOf, Connects
    <3>4. task = HttpTask => sendText = "HTTP"
      BY <2>1 DEF PortOf
    <3>5. (sendText \in {"SMTP", "POP3"} => due' = "reply") /\ (sendText = "HTTP" => due' = "nothing")
      BY <2>3 DEF Connected
    <3> QED
      BY <1>0, <2>1, <3>1, <3>2, <3>3, <3>4, <3>5 DEF ArrivedTalk
  <2> QED
    BY <2>1, <2>2, <2>3 DEF MA_ProcessRecvPacket
<1> QED
  BY <1>1, <1>2

\* The rest of ConnInv that concerns a page, over the adapter's answers.
LEMMA HttpAnswers ==
  ASSUME TaskInv, BodyInv, ConnInv, Answer
  PROVE  HttpInv'
<1>0. busy /\ UNCHANGED <<task, taskStep, http>> /\ Live' \subseteq Live \cup Live' /\ task # "NONE"
  <2>1. busy /\ AnswerMoves
    BY AnswerLive DEF TaskInv, ConnInv
  <2> QED
    BY <2>1 DEF AnswerMoves, api, Answer, SettingsAnswers, TaskInv, IInv, Running, TaskAlone
<1>1. ArrivedTalk'
  BY ArrivedAnswers DEF ConnInv
<1>2. WaitTalk'
  BY <1>0 DEF WaitTalk, Idle
<1>3. ASSUME task = HttpTask PROVE PageKnows' /\ (There' => PageTalk')
  <2>0. /\ PageKnows /\ (There => PageTalk) /\ OutThen /\ TypeHttp /\ TypeFlags /\ Unclosed /\ ListInv
    BY <1>3 DEF ConnInv, HttpInv, BodyInv, PageInv, TaskInv, IInv, TypeOK
  <2>1. CASE taskStep \notin {8, 50, 100, 110}
    <3>1. taskStep \in {1, 3, 241} /\ sendCmd # "DATA"
      BY <1>0, <2>0, <2>1 DEF OutThen
    <3>2. answered' = answered
      BY <1>0, <3>1, OtherAnswers
    <3>3. GetRequestType' = GetRequestType /\ SendsData' = SendsData
      BY <1>0 DEF GetRequestType, SendsData
    <3>4. PageKnows'
      BY <1>0, <2>0, <3>1, <3>2, <3>3 DEF PageKnows, Heading
    <3>6. taskStep' \notin {5, 6, 7, 8, 50, 100, 110} /\ ~Heading'
      BY <1>0, <3>1 DEF Heading
    <3>5. PageTalk'
      BY <3>6 DEF PageTalk
    <3> QED
      BY <3>4, <3>5
  <2>2. CASE taskStep \in {8, 50, 100, 110}
    <3>1. sendCmd = "DATA" /\ Uses(task, taskStep)
      BY <1>0, <1>3, <2>0, <2>2 DEF OutThen, Uses, Before, AwaitsConnect, Closes, MailTasks, Quits, Connects, SettingsTasks
    <3>2. sendSocket = sockets[0] /\ usedSockets[0]
      BY <1>0, <2>0, <3>1 DEF ListInv, UseList, Talks, InSlot0
    <3>3. /\ ~busy' /\ UNCHANGED table
          /\ (~There' /\ UNCHANGED answered /\ (tcpClosed' \/ recvChunk' = NoChunk)) \/ Spoke
      BY <1>0, <3>1, <3>2, Conversed DEF TaskInv, BodyInv, ConnInv
    <3>4. /\ GetRequestType' = GetRequestType /\ SendsData' = SendsData /\ Wanted' = Wanted /\ Heading' = Heading
          /\ CreateHttpRequestHeader' = CreateHttpRequestHeader
      BY <1>0 DEF GetRequestType, SendsData, Wanted, Heading, CreateHttpRequestHeader
    <3>5. HeadSaid <=> http.headFound
      BY <1>0 DEF HeadSaid
    <3>6. CASE ~There' /\ UNCHANGED answered /\ (tcpClosed' \/ recvChunk' = NoChunk)
      <4>1. HeadSaid' <=> http.headFound
        BY <1>0, <3>6 DEF HeadSaid, NoChunk, Headers
      <4>2. PageKnows'
        BY <1>0, <2>0, <2>2, <3>4, <3>5, <3>6, <4>1 DEF PageKnows
      <4> QED
        BY <3>6, <4>2
    <3>7. CASE Spoke
      <4>0. There /\ There' /\ ~tcpClosed'
        BY <3>7 DEF Spoke
      <4>1. Peer0 # "own"
        BY <2>0, <2>2, <4>0, NotOwn
      <4>2. /\ Peer0' = Heard0.waits
            /\ due' = Owes(Heard0.owes, recvChunk')
            /\ answered' = IF Heard0.owes = "page" /\ recvChunk'.line \in Headers THEN answered + 1 ELSE answered
        BY <3>7, <4>1 DEF Spoke
      <4>3. /\ taskStep = 50 /\ http.next = 5 => Heard0.owes = "nothing" /\ Heard0.waits = Wanted
            /\ taskStep = 50 /\ http.next \in {6, 7} => Heard0.owes = "nothing" /\ Heard0.waits = Wanted
            /\ taskStep = 100 => Heard0.owes = "nothing" /\ Heard0.waits = "http_content"
            /\ taskStep = 50 /\ http.next = 100 => Heard0.owes = "nothing" /\ Heard0.waits = "http_content"
            /\ Heading /\ ~http.headFound => Heard0.owes = "page" /\ Heard0.waits = "http_answer"
            /\ Heading /\ http.headFound => Heard0.owes = "rest" /\ Heard0.waits = "http_answer"
            /\ taskStep = 110 => Heard0.owes = "rest" /\ Heard0.waits = "http_answer"
        BY <1>0, <1>3, <2>2, <4>0, ServerAnswers DEF ConnInv
      <4>4. /\ Heard0.owes = "nothing" => due' = "nothing"
            /\ Heard0.owes = "rest" => due' = "rest"
            /\ Heard0.owes = "page" => due' = IF recvChunk'.line \in Headers THEN "rest" ELSE "page"
        BY <4>2 DEF Owes
      <4>5. HeadSaid' <=> http.headFound \/ recvChunk'.line \in Headers
        BY <1>0, <3>3, <4>0 DEF HeadSaid
      <4>6. PageKnows'
        <5>1. Heading => answered = http.step + IF HeadSaid THEN 1 ELSE 0
          BY <2>0 DEF PageKnows
        <5>2. Heading' => answered' = http.step' + IF HeadSaid' THEN 1 ELSE 0
          <6>1. answered \in Int /\ http.step \in Int
            BY <2>0 DEF TypeHttp, TaskInv, IInv, TypeOK, TypeAdapter
          <6>2. CASE http.headFound
            BY <1>0, <3>4, <3>5, <4>2, <4>3, <4>5, <5>1, <6>1, <6>2
          <6>3. CASE ~http.headFound
            <7>1. Heading => answered = http.step /\ Heard0.owes = "page"
              <8>1. Heading => answered = http.step
                BY <3>5, <5>1, <6>1, <6>3
              <8>2. Heading => Heard0.owes = "page"
                BY <4>3, <6>3
              <8> QED
                BY <8>1, <8>2
            <7>2. HeadSaid' <=> recvChunk'.line \in Headers
              BY <4>5, <6>3
            <7>3. CASE recvChunk'.line \in Headers
              BY <1>0, <3>4, <4>2, <7>1, <7>2, <7>3
            <7>4. CASE recvChunk'.line \notin Headers
              BY <1>0, <3>4, <4>2, <6>1, <7>1, <7>2, <7>4
            <7> QED
              BY <7>3, <7>4
          <6> QED
            BY <6>2, <6>3
        <5>3. taskStep \in {100, 110} \/ (taskStep = 50 /\ http.next # 8) => answered' = answered
          <6>1. taskStep = 50 => http.next \in {5, 6, 7, 8, 100}
            BY <2>0 DEF PageKnows
          <6> QED
            BY <4>2, <4>3, <6>1
        <5> QED
          BY <1>0, <2>0, <2>2, <3>4, <5>2, <5>3 DEF PageKnows
      <4>7. PageTalk'
        <5>1. Heading' => Peer0' = "http_answer" /\ due' = IF HeadSaid' THEN "rest" ELSE "page"
          BY <3>4, <4>2, <4>3, <4>4, <4>5
        <5>2. /\ taskStep = 50 /\ http.next \in {5, 6, 7} => Peer0' = Wanted' /\ due' = "nothing"
              /\ taskStep = 100 \/ (taskStep = 50 /\ http.next = 100) => Peer0' = "http_content" /\ due' = "nothing"
              /\ taskStep = 110 => Peer0' = "http_answer" /\ due' = "rest"
          BY <3>4, <4>2, <4>3, <4>4
        <5>3. CASE Heading'
          <6>1. taskStep' \in {8, 50} /\ (taskStep' = 50 => http'.next = 8)
            BY <5>3 DEF Heading
          <6>2. taskStep' \notin {5, 6, 7, 100, 110} /\ ~(taskStep' = 50 /\ http'.next \in {5, 6, 7, 100})
            BY <6>1
          <6>3. Peer0' = "http_answer" /\ ~busy' /\ due' = IF HeadSaid' THEN "rest" ELSE "page"
            BY <3>3, <5>1, <5>3
          <6> QED
            BY <6>2, <6>3 DEF PageTalk
        <5>4. CASE ~Heading'
          <6>1. taskStep' \in {50, 100, 110} /\ taskStep' = taskStep /\ http' = http
            BY <1>0, <2>2, <5>4 DEF Heading
          <6>2. taskStep' \notin {5, 6, 7} /\ (taskStep' = 50 => http'.next \in {5, 6, 7, 100})
            BY <1>0, <2>0, <5>4, <6>1 DEF PageKnows, Heading
          <6>3. taskStep' = 50 /\ http'.next \in {5, 6, 7} => Ready({Wanted})'
            BY <3>3, <5>2, <6>1 DEF Ready
          <6>4. taskStep' = 100 \/ (taskStep' = 50 /\ http'.next = 100) => Ready({"http_content"})'
            BY <3>3, <5>2, <6>1 DEF Ready
          <6>5. taskStep' = 110 => Peer0' = "http_answer" /\ due' = "rest" /\ ~busy'
            BY <3>3, <5>2, <6>1
          <6> QED
            BY <5>4, <6>2, <6>3, <6>4, <6>5 DEF PageTalk, SaidOr
        <5> QED
          BY <5>3, <5>4
      <4> QED
        BY <4>6, <4>7
    <3> QED
      BY <3>3, <3>6, <3>7
  <2> QED
    BY <2>1, <2>2
<1> QED
  BY <1>0, <1>1, <1>2, <1>3 DEF HttpInv

----------------------------------------------------------------------------
(* A page's connection, over the calls.                                    *)

LEMMA CallsAwaitNothing == ASSUME TaskInv, Game PROVE ~AwaitsConnect(task', taskStep')
<1> DEFINE Goal == \/ task' = "NONE" \/ taskStep' = 0 \/ task' \in {"POP3_RETR", "TCP_CUT", "OFFLINE"}
                   \/ task' = HttpTask /\ taskStep' \in {2, 110}
<1>0. Goal => ~AwaitsConnect(task', taskStep')
  BY DEF AwaitsConnect
<1> USE CallsMode
<1>1. \A mode : AtRest(mode) => task = "NONE"
  BY DEF AtRest
<1>2. SocketCalls => Goal
  BY DEF SocketCalls, MA_TCP_Connect, MA_GetHostAddress, MA_TCP_Disconnect, MA_TCP_SendRecv
<1>3. GoesOffline => Goal
  BY DEF GoesOffline, MA_Offline
<1>4. MA_TCP_Cut \/ MA_ApiPreExe => Goal
  BY DEF MA_TCP_Cut, MA_ApiPreExe
<1>5. CASE MailCalls
  <2>1. ASSUME NEW text, NEW room, NewMail(text, room) PROVE Goal
    BY <2>1 DEF NewMail
  <2>2. ASSUME NEW room, SameMail(room) PROVE Goal
    BY <1>1, <2>2 DEF SameMail
  <2>3. MA_SMTP_Send => Begin("SMTP_SEND", 0, 0)
    BY Zenon DEF MA_SMTP_Send
  <2>4. MA_SMTP_Connect \/ MA_SMTP_Sender \/ MA_SMTP_Quit => Goal
    BY DEF MA_SMTP_Connect, MA_SMTP_Sender, MA_SMTP_Quit
  <2>5. MA_POP3_Connect \/ MA_POP3_Quit \/ MA_POP3_Stat \/ MA_POP3_List \/ MA_POP3_Dele => Goal
    BY DEF MA_POP3_Connect, MA_POP3_Quit, MA_POP3_Stat, MA_POP3_List, MA_POP3_Dele, MA_POP3_Ask
  <2> QED
    BY <1>0, <1>5, <2>1, <2>2, <2>3, <2>4, <2>5 DEF MailCalls, MA_POP3_Retr, MA_POP3_Head
<1>6. CASE MA_HTTP_GetPost
  <2>1. ASSUME NEW room, SamePage(room) PROVE Goal
    BY <1>1, <2>1 DEF SamePage
  <2>2. NewPage => Goal
    BY DEF NewPage
  <2> QED
    BY <1>0, <1>6, <2>1, <2>2 DEF MA_HTTP_GetPost
<1>7. MA_TelServer \/ MA_GetEEPROMData \/ MA_EEPROMRead \/ MA_EEPROMWrite => Goal
  BY DEF MA_TelServer, MA_GetEEPROMData, MA_EEPROMRead, MA_EEPROMWrite
<1>8. CASE MAAPI_ErrorCheck /\ UNCHANGED recv
  BY <1>0, <1>8 DEF MAAPI_ErrorCheck, api, TaskInv, IInv, Running, TaskAlone
<1> QED
  BY <1>0, <1>2, <1>3, <1>4, <1>5, <1>6, <1>7, <1>8 DEF Game

\* A call that leaves the api at rest in a page's session.
LEMMA HttpRests ==
  ASSUME TaskInv, Game, ~MA_HTTP_GetPost, task' = "NONE", connMode' = "HTTP"
  PROVE  task = "NONE" /\ connMode = "HTTP" /\ UNCHANGED <<adapter, table, http>>
<1> USE CallsMode DEF AtRest
<1>1. MA_ApiPreExe /\ UNCHANGED http => task = "NONE" /\ connMode = "HTTP" /\ UNCHANGED <<adapter, table, http>>
  BY DEF MA_ApiPreExe, Refuse
<1>2. MAAPI_ErrorCheck /\ UNCHANGED http => task = "NONE" /\ connMode = "HTTP" /\ UNCHANGED <<adapter, table, http>>
  BY DEF MAAPI_ErrorCheck, TaskInv, IInv, Running, TaskAlone
<1>3. ~SocketCalls
  BY DEF SocketCalls, MA_TCP_Connect, MA_GetHostAddress, MA_TCP_Disconnect, MA_TCP_SendRecv
<1>4. ~GoesOffline /\ ~MA_TCP_Cut
  BY DEF GoesOffline, MA_Offline, MA_TCP_Cut
<1>5. ~MailCalls
  <2>1. ASSUME NEW text, NEW room, NewMail(text, room) PROVE FALSE
    BY <2>1 DEF NewMail
  <2>2. ASSUME NEW room, SameMail(room) PROVE FALSE
    BY <2>2 DEF SameMail
  <2>3. MA_SMTP_Send => AtRest("SMTP") /\ Begin("SMTP_SEND", 0, 0)
    BY Zenon DEF MA_SMTP_Send
  <2>4. ~MA_SMTP_Connect /\ ~MA_SMTP_Sender /\ ~MA_SMTP_Quit /\ ~MA_SMTP_Send
    BY <2>3 DEF MA_SMTP_Connect, MA_SMTP_Sender, MA_SMTP_Quit
  <2>5. ~MA_POP3_Connect /\ ~MA_POP3_Quit /\ ~MA_POP3_Stat /\ ~MA_POP3_List /\ ~MA_POP3_Dele
    BY DEF MA_POP3_Connect, MA_POP3_Quit, MA_POP3_Stat, MA_POP3_List, MA_POP3_Dele, MA_POP3_Ask
  <2> QED
    BY <2>1, <2>2, <2>4, <2>5 DEF MailCalls, MA_POP3_Retr, MA_POP3_Head
<1>6. ~MA_TelServer /\ ~MA_GetEEPROMData /\ ~MA_EEPROMRead /\ ~MA_EEPROMWrite
  BY DEF MA_TelServer, MA_GetEEPROMData, MA_EEPROMRead, MA_EEPROMWrite
<1> QED
  BY <1>1, <1>2, <1>3, <1>4, <1>5, <1>6 DEF Game

LEMMA NewPageHttp ==
  ASSUME NewPage
  PROVE  /\ task' = HttpTask /\ taskStep' \in {0, 2} /\ answered' = 0
         /\ http'.step = 0 /\ ~http'.headEnd /\ ~http'.headFound /\ http'.auth \in Suited[http'.method]
<1>1. PICK method \in DOMAIN Suited, pieces \in Pieces :
        \E auth \in Suited[method] :
          http' = [NoPage EXCEPT !.method = method, !.auth = auth, !.pieces = pieces]
  BY DEF NewPage
<1>3. PICK auth \in Suited[method] :
        http' = [NoPage EXCEPT !.method = method, !.auth = auth, !.pieces = pieces]
  BY <1>1
<1>2. http'.step = 0 /\ ~http'.headEnd /\ ~http'.headFound /\ http'.auth = auth /\ http'.method = method
  BY <1>3 DEF NoPage
<1> QED
  BY <1>2, CallsMode DEF NewPage

LEMMA SamePageHttp ==
  ASSUME NEW room, SamePage(room)
  PROVE  /\ task = "NONE" /\ connMode = "HTTP" /\ UNCHANGED <<table, connMode, answered, http, peer, due>>
         /\ busy' = busy
         /\ task' = "NONE" \/ (task' = HttpTask /\ taskStep' = 110)
BY CallsMode DEF SamePage, AtRest, RestGiven, RestRefused, RestFills, Starts, bios, api

LEMMA GameHttp ==
  ASSUME TaskInv, ListInv, HttpInv, Game
  PROVE  HttpInv'
<1>0. UNCHANGED <<peer, due>> /\ UNCHANGED table /\ Live' = Live /\ open' = open
  BY GameRestarts, GameList, SameLive DEF Restarts
<1>1. ArrivedTalk'
  BY CallsAwaitNothing DEF ArrivedTalk
<1>2. CASE NewPage
  <2>1. PageKnows'
    BY <1>2, NewPageHttp DEF PageKnows, Heading
  <2>2. taskStep' \notin {5, 6, 7, 8, 50, 100, 110} /\ ~Heading' /\ task' = HttpTask
    BY <1>2, NewPageHttp DEF Heading
  <2>3. PageTalk'
    BY <2>2 DEF PageTalk
  <2>4. WaitTalk'
    BY <2>2 DEF WaitTalk, Idle
  <2> QED
    BY <1>1, <2>1, <2>3, <2>4 DEF HttpInv
<1>3. ASSUME NEW room, SamePage(room) PROVE HttpInv'
  <2>1. /\ answered = http.step /\ (There => Peer0 = "http_answer" /\ due = "rest")
        /\ http.auth \in Suited[http.method] /\ (http.headEnd => http.headFound) /\ ~busy
    BY <1>3, SamePageHttp DEF HttpInv, WaitTalk, Idle, TaskInv, IInv, Running, TaskAlone
  <2>2. /\ There' = There /\ Peer0' = Peer0 /\ due' = due /\ http' = http /\ answered' = answered
        /\ busy' = busy /\ (task' = "NONE" \/ (task' = HttpTask /\ taskStep' = 110))
    BY <1>0, <1>3, SamePageHttp DEF There, Peer0, table
  <2>3. WaitTalk'
    BY <2>1, <2>2 DEF WaitTalk
  <2>4. ASSUME task' = HttpTask, taskStep' = 110 PROVE PageKnows' /\ (There' => PageTalk')
    <3>2. ~Heading' /\ taskStep' \notin (0..8) \cup {50, 100, 255}
      BY <2>4 DEF Heading
    <3>1. PageKnows'
      BY <2>1, <2>2, <2>4, <3>2 DEF PageKnows
    <3>4. There' => Peer0' = "http_answer" /\ due' = "rest" /\ ~busy'
      BY <2>1, <2>2
    <3>5. taskStep' \notin {5, 6, 7, 50, 100}
      BY <2>4
    <3>3. There' => PageTalk'
      BY <3>2, <3>4, <3>5 DEF PageTalk
    <3> QED
      BY <3>1, <3>3
  <2> QED
    BY <1>1, <2>2, <2>3, <2>4 DEF HttpInv
<1>4. CASE ~MA_HTTP_GetPost
  <2>1. task' # HttpTask
    BY <1>4, OtherCalls DEF MAAPI_ErrorCheck, api, TaskInv, IInv, Running, TaskAlone
  <2>2. WaitTalk'
    <3> SUFFICES ASSUME task' = "NONE", connMode' = "HTTP"
                 PROVE  /\ answered' = http'.step /\ (There' => Peer0' = "http_answer" /\ due' = "rest")
                        /\ http'.auth \in Suited[http'.method] /\ (http'.headEnd => http'.headFound)
      BY DEF WaitTalk, Idle
    <3>1. task = "NONE" /\ connMode = "HTTP" /\ UNCHANGED <<adapter, table, http>>
      BY <1>4, HttpRests
    <3>2. There' = There /\ Peer0' = Peer0
      BY <1>0 DEF There, Peer0, table
    <3> QED
      BY <3>1, <3>2 DEF HttpInv, WaitTalk, Idle, adapter
  <2> QED
    BY <1>1, <2>1, <2>2 DEF HttpInv
<1> QED
  BY <1>2, <1>3, <1>4 DEF MA_HTTP_GetPost

LEMMA ClosingHttp ==
  ASSUME TaskInv, ListInv, HttpInv, ServerCloses
  PROVE  HttpInv'
<1>0. PICK id \in Ids \ Used : peer[id] = "http_answer" /\ peer' = [peer EXCEPT ![id] = "closed"]
  BY DEF ServerCloses
<1>1. peer \in [Ids -> Waits] /\ TypeList
  BY DEF TaskInv, IInv, TypeOK, TypeAdapter
<1>2. Live' = Live /\ open' = open \ {id}
  BY <1>0, <1>1, PeerMoves DEF Live
<1>3. UNCHANGED <<due, answered, table, connMode, api, flags, bios, http>>
  BY DEF ServerCloses
<1>4. usedSockets[0] => sockets[0] # id
  BY <1>0, <1>1, SlotTyped DEF Used
<1>5. There' => There /\ Peer0' = Peer0
  <2>1. sockets' = sockets /\ usedSockets' = usedSockets
    BY <1>3 DEF table
  <2>2. There' => There /\ sockets[0] \in Ids /\ sockets[0] # id
    BY <1>2, <1>4, <2>1 DEF There, open
  <2>3. There' => peer'[sockets[0]] = peer[sockets[0]]
    BY <1>0, <1>1, <2>2
  <2> QED
    BY <2>1, <2>2, <2>3 DEF Peer0
<1>6. ArrivedTalk'
  <2>1. Ports[PortOf(task)] # "http_answer"
    BY DEF PortOf, Ports
  <2>2. Arrived /\ AwaitsConnect(task, taskStep) => recvData # id
    BY <1>0, <2>1 DEF HttpInv, ArrivedTalk
  <2>3. Arrived' = Arrived /\ recvData' = recvData /\ task' = task /\ taskStep' = taskStep /\ busy' = busy
        /\ sendText' = sendText /\ due' = due
    BY <1>3 DEF Arrived, bios, api
  <2>4. Arrived /\ recvData # id => peer'[recvData] = peer[recvData]
    BY <1>0, <1>1 DEF Arrived, TaskInv, IInv, Running, Answered
  <2> QED
    BY <2>2, <2>3, <2>4 DEF HttpInv, ArrivedTalk
<1>7. WaitTalk'
  BY <1>3, <1>5 DEF HttpInv, WaitTalk, Idle, api
<1>8. PageKnows => PageKnows'
  BY <1>2, <1>3 DEF PageKnows, Heading, HeadSaid, SendsData, api, bios, flags
<1>9. There' => (PageTalk => PageTalk')
  <2> SUFFICES ASSUME There', PageTalk PROVE PageTalk'
    OBVIOUS
  <2>1. Peer0' = Peer0 /\ UNCHANGED <<due, taskStep, http, busy, sendText, tcpClosed, recvChunk>>
    BY <1>3, <1>5 DEF api, bios, flags
  <2> QED
    BY <2>1 DEF PageTalk, SaidOr, Said, Ready, Heading, HeadSaid, Wanted, GetRequestType, CreateHttpRequestHeader, SendsData
<1>10. task' = task
  BY <1>3 DEF api
<1> QED
  BY <1>5, <1>6, <1>7, <1>8, <1>9, <1>10 DEF HttpInv

LEMMA LeavingHttp == ASSUME SessionEnds PROVE HttpInv'
BY DEF SessionEnds, HttpInv, ArrivedTalk, WaitTalk, AwaitsConnect

\* A task that is not a page's: what it asks TCP_CONNECT for.
LEMMA AsksConnect ==
  ASSUME MAAPI_Main, task # HttpTask, task' # HttpTask, AwaitsConnect(task', taskStep')
  PROVE  busy' /\ recvCmd' = "none" /\ sendText' = PortOf(task')
<1> USE DEF Runs, At
<1> DEFINE Goal == busy' /\ recvCmd' = "none" /\ sendText' = PortOf(task')
<1>1. task' = task /\ task \in {"TCP_CONNECT", "SMTP_CONNECT", "POP3_CONNECT"}
  BY TasksName DEF AwaitsConnect
<1>2. CASE task = "TCP_CONNECT"
  <2>1. taskStep' = 1
    BY <1>1, <1>2 DEF AwaitsConnect
  <2>2. MATASK_TCP_Connect
    <3>1. ~MailTasksStep /\ ~MATASK_HTTP_GetPost /\ ~MATASK_TelServer /\ ~MATASK_GetEEPROMData
          /\ ~MATASK_EEPROM_Read /\ ~MATASK_EEPROM_Write
      BY <1>2, TasksOf DEF MailTasks, SettingsTasks, MATASK_HTTP_GetPost
    <3> QED
      BY <1>2, <3>1 DEF MAAPI_Main, SocketTasks, MATASK_TCP_Disconnect, MATASK_TCP_SendRecv,
         MATASK_GetHostAddress, MATASK_Offline, MATASK_TCP_Cut
  <2>3. Command("TCP_CONNECT", 0, "own", 1)
    BY <1>1, <1>2, <2>2, PartsList DEF MATASK_TCP_Connect, TaskEnds
  <2> QED
    BY <1>1, <1>2, <2>3, PartsList DEF PortOf
<1>3. CASE task \in {"SMTP_CONNECT", "POP3_CONNECT"}
  <2>1. taskStep' = 2
    BY <1>1, <1>3 DEF AwaitsConnect
  <2>2. MailTasksStep
    BY <1>3, TasksOf DEF MAAPI_Main, TcpTasks, SettingsTasks, MATASK_HTTP_GetPost
  <2>3. ASSUME NEW t, MailTrouble(t) \/ MailRuns(t) PROVE task = t
    BY <2>3 DEF MailTrouble, MailRuns
  <2>4. ASSUME NEW t, MailTrouble(t) PROVE FALSE
    BY <1>1, <1>3, <2>1, <2>4, PartsList DEF MailTrouble, MailClosed, MailGivenUp, MailFails
  <2>5. ASSUME NEW s \in {3, 4, 5}, At(s), ReadOn PROVE FALSE
    BY <2>1, <2>5, PartsList DEF ReadOn
  <2>10. ASSUME NEW text, NEW step \in {4, 5}, SayLine(text, step) PROVE FALSE
    BY <2>1, <2>10, PartsList DEF SayLine
  <2>11. ASSUME NEW step \in {5, 6, 240}, Goes(step) PROVE FALSE
    BY <2>1, <2>11, PartsList
  <2>6. ASSUME NEW port, Opens(port) PROVE Command("TCP_CONNECT", 0, port, 2)
    BY <2>1, <2>6, PartsList DEF Opens
  <2>7. ASSUME NEW step, NEW mode, Opened(step, mode) PROVE FALSE
    BY <1>1, <1>3, <2>7, PartsList DEF Opened, TaskEnds
  <2>8. CASE MATASK_SMTP_Connect
    <3>1. task = "SMTP_CONNECT"
      BY <2>3, <2>8 DEF MATASK_SMTP_Connect
    <3>2. Command("TCP_CONNECT", 0, "SMTP", 2)
      BY <2>4, <2>5, <2>6, <2>7, <2>8, <2>10, <2>11 DEF MATASK_SMTP_Connect, Reads, ReadTo
    <3> QED
      BY <1>1, <3>1, <3>2, PartsList DEF PortOf
  <2>9. CASE MATASK_POP3_Connect
    <3>1. task = "POP3_CONNECT"
      BY <2>3, <2>9 DEF MATASK_POP3_Connect
    <3>2. Command("TCP_CONNECT", 0, "POP3", 2)
      BY <2>4, <2>5, <2>6, <2>7, <2>9, <2>10, <2>11 DEF MATASK_POP3_Connect, Reads, ReadTo
    <3> QED
      BY <1>1, <3>1, <3>2, PartsList DEF PortOf
  <2> QED
    BY <1>3, <2>2, <2>3, <2>8, <2>9 DEF MailTasksStep, MATASK_SMTP_Sender, MATASK_SMTP_Send,
       MATASK_SMTP_POP3_Quit, MATASK_POP3_Stat, MATASK_POP3_List, MATASK_POP3_Dele, MATASK_POP3_Retr, Asks
<1> QED
  BY <1>1, <1>2, <1>3

LEMMA OtherTasksHttp ==
  ASSUME TaskInv, MAAPI_Main, ~MATASK_HTTP_GetPost
  PROVE  HttpInv'
<1>1. task # "NONE" /\ task # HttpTask /\ task' # HttpTask
  <2>1. task # "NONE" /\ task # HttpTask
    BY MainRuns, TasksOf DEF MAAPI_Main, MailTasks, TcpTasks, SettingsTasks
  <2> QED
    BY <2>1, TasksName
<1>2. ArrivedTalk'
  BY <1>1, AsksConnect DEF ArrivedTalk, Arrived
<1>3. WaitTalk'
  <2> SUFFICES ASSUME task' = "NONE", connMode' = "HTTP" PROVE FALSE
    BY DEF WaitTalk, Idle
  <2>1. connMode = "HTTP"
    BY HttpModeKept
  <2>2. task = "TCP_CUT"
    BY <1>1, <2>1, RunsInEach DEF TaskInv, ModeInv, IInv, TypeOK, TypeRun, AllTasks, MailTasks
  <2>3. MATASK_TCP_Cut
    BY <2>2, TasksOf DEF MAAPI_Main, SocketTasks, MailTasks, SettingsTasks, MATASK_TCP_Connect,
       MATASK_TCP_Disconnect, MATASK_TCP_SendRecv, MATASK_GetHostAddress, MATASK_Offline, Runs
  <2> QED
    BY <2>1, <2>2, <2>3, PartsList DEF MATASK_TCP_Cut
<1> QED
  BY <1>1, <1>2, <1>3 DEF HttpInv

----------------------------------------------------------------------------
(* The task of a page.                                                     *)

LEMMA PagePhases ==
  \A step : /\ step \in 0..2 => Before(HttpTask, step)
            /\ step = 3 => AwaitsConnect(HttpTask, step)
            /\ step = 241 => Closes(HttpTask, step)
            /\ step \notin (0..3) \cup {241} => Uses(HttpTask, step)
            /\ step # 3 => ~AwaitsConnect(HttpTask, step)
BY DEF Before, AwaitsConnect, Closes, Uses, MailTasks, SettingsTasks, Quits, Connects

\* Where a step of the task begins.
PageRuns ==
  /\ TypeList /\ TypeHttp /\ task = HttpTask /\ task \notin TcpTasks \cup SettingsTasks \cup MailTasks \cup Connects \cup {"NONE"}
  /\ ~busy /\ connMode = "HTTP" /\ SlotList /\ held = {} /\ PageKnows /\ (There => PageTalk)
  /\ taskStep \in 0..2 => Live = {} /\ ~Nega({"DATA"})
  /\ taskStep = 3 => /\ Live \subseteq Arriving /\ (Arrived => recvData \in Live)
                     /\ ~tcpClosed /\ sendCmd = "TCP_CONNECT" /\ recvCmd \in {"ERROR", "TCP_CONNECT"}
                     /\ Arrived => peer[recvData] = "http" /\ due = "nothing"
  /\ taskStep \notin (0..3) \cup {241} => InSlot0 /\ ~Nega({"TCP_CONNECT", "DNS_REQUEST"})
  /\ taskStep = 241 => Live = {} /\ sendCmd = "TCP_DISCONNECT"

LEMMA PageBegins ==
  ASSUME TaskInv, ListInv, HttpInv, MATASK_HTTP_GetPost
  PROVE  PageRuns /\ UNCHANGED <<adapter, held>> /\ Live' = Live /\ open' = open /\ Live \subseteq open
<1>1. task = HttpTask /\ ~busy /\ UNCHANGED <<adapter, held>>
  BY DEF MATASK_HTTP_GetPost, Runs
<1>2. task \notin TcpTasks \cup SettingsTasks \cup MailTasks \cup Connects \cup {"NONE"}
  BY <1>1 DEF TcpTasks, SettingsTasks, MailTasks, Connects
<1>3. TypeList /\ TypeHttp /\ connMode = "HTTP"
  BY <1>1, RunsInEach DEF TaskInv, IInv, TypeOK, ModeInv
<1>4. SlotList /\ held = {}
  BY <1>1, <1>2 DEF ListInv, SlotList
<1>5. PageKnows /\ (There => PageTalk)
  BY <1>1 DEF HttpInv
<1>6. taskStep \in 0..2 => Live = {} /\ ~Nega({"DATA"})
  BY <1>1, PagePhases DEF ListInv, BeforeList
<1>7. taskStep = 3 => /\ Live \subseteq Arriving /\ (Arrived => recvData \in Live)
                      /\ ~tcpClosed /\ sendCmd = "TCP_CONNECT" /\ recvCmd \in {"ERROR", "TCP_CONNECT"}
  BY <1>1, PagePhases DEF ListInv, AwaitList, TaskInv, IInv, Running, Awaited, Answered
<1>10. taskStep = 3 => (Arrived => peer[recvData] = "http" /\ due = "nothing")
  BY <1>1, PagePhases DEF HttpInv, ArrivedTalk, PortOf, Ports
<1>8. taskStep \notin (0..3) \cup {241} => InSlot0 /\ ~Nega({"TCP_CONNECT", "DNS_REQUEST"})
  BY <1>1, PagePhases DEF ListInv, UseList
<1>9. taskStep = 241 => Live = {} /\ sendCmd = "TCP_DISCONNECT"
  BY <1>1, PagePhases DEF ListInv, CloseList
<1> QED
  BY <1>1, <1>2, <1>3, <1>4, <1>5, <1>6, <1>7, <1>8, <1>9, <1>10, SameLive DEF PageRuns, Live

\* What is asked for depends on the kind of page and the requests answered.
SameKind == http'.auth = http.auth /\ http'.method = http.method /\ http'.step = http.step

LEMMA KindTexts ==
  ASSUME SameKind
  PROVE  /\ GetRequestType' = GetRequestType /\ Wanted' = Wanted /\ SendsData' = SendsData
         /\ CreateHttpRequestHeader' = CreateHttpRequestHeader
<1>1. GetRequestType' = GetRequestType
  BY DEF SameKind, GetRequestType
<1>2. SendsData' = SendsData
  BY DEF SameKind, SendsData
<1>3. Wanted' = Wanted
  BY <1>1 DEF Wanted
<1>4. CreateHttpRequestHeader' = CreateHttpRequestHeader
  BY <1>2 DEF SameKind, CreateHttpRequestHeader
<1> QED
  BY <1>1, <1>2, <1>3, <1>4

\* The task goes on with its connection.
PageGoesOn ==
  /\ task' = HttpTask /\ taskStep' \notin (0..3) \cup {241} /\ UNCHANGED <<connMode, held>>
  /\ \/ busy' /\ sendCmd' = "DATA" /\ sendSocket' = sockets'[0] /\ recvCmd' = "none"
     \/ ~busy' /\ UNCHANGED <<sendCmd, recvCmd>> /\ taskStep \notin (0..3) \cup {241}

LEMMA PageGoesLists ==
  ASSUME PageRuns, PageGoesOn, InSlot0', ~usedSockets'[1], sockets'[1] = 0
  PROVE  ListInv'
<1>1. SlotList' /\ Uses(task', taskStep')
  BY PagePhases DEF PageRuns, PageGoesOn, SlotList
<1>2. Talks' /\ ~Nega({"TCP_CONNECT", "DNS_REQUEST"})'
  BY DEF PageRuns, PageGoesOn, Talks, Nega
<1>3. UseList'
  BY <1>1, <1>2 DEF UseList, PageRuns, PageGoesOn
<1> QED
  BY <1>1, <1>3, PhaseLists DEF PageGoesOn

LEMMA PageGoesHttp ==
  /\ task' = HttpTask /\ taskStep' # 3 /\ PageKnows' /\ (There' => PageTalk') => HttpInv'
  /\ task' = "NONE" /\ connMode' # "HTTP" => HttpInv'
BY DEF HttpInv, ArrivedTalk, WaitTalk, Idle, AwaitsConnect

\* A server that has answered closes its connection by itself.
LEMMA AnsweredLive == InSlot0 /\ (There => Peer0 = "http_answer") => Live = {}
BY DEF InSlot0, There, Peer0, Live

LEMMA TalksLess == taskStep' \notin (5..8) \cup {50, 100, 110} => PageTalk'
<1>1. taskStep' \notin (5..8) \cup {50, 100, 110} => ~Heading' /\ taskStep' \notin {5, 6, 7, 50, 100, 110}
  BY DEF Heading
<1> QED
  BY <1>1 DEF PageTalk

LEMMA TroubleConn ==
  ASSUME PageRuns, Live' = Live, UNCHANGED <<adapter, held, http>>, HttpTrouble, TypeList'
  PROVE  ListInv' /\ HttpInv'
<1> USE DEF PageRuns, At, Nega
<1>1. CASE (Nega({"DATA"}) \/ At(240)) /\ Command("TCP_DISCONNECT", sockets[0], "empty", 241) /\ UNCHANGED <<table, connMode>>
  <2>1. task' = HttpTask /\ taskStep' = 241 /\ busy' /\ sendCmd' = "TCP_DISCONNECT" /\ sendSocket' = sockets[0]
    BY <1>1, PartsList
  <2>2. InSlot0
    BY <1>1
  <2>3. SlotList' /\ CloseList' /\ Closes(task', taskStep')
    BY <1>1, <2>1, <2>2, PagePhases DEF SlotList, table, CloseList, InSlot0
  <2>4. PageKnows'
    BY <2>1 DEF PageKnows, Heading
  <2>5. PageTalk'
    BY <2>1, TalksLess
  <2> QED
    BY <2>1, <2>3, <2>4, <2>5, PhaseLists, PageGoesHttp
<1>2. CASE /\ Nega({"TCP_CONNECT", "DNS_REQUEST"}) \/ (At(241) /\ ~Nega({"DATA"}))
           /\ connMode' = "PPP" /\ TaskFails /\ FreeSlot
  <2>1. Live = {}
    BY <1>2 DEF Arriving, Arrived
  <2>2. ~usedSockets'[0] /\ ~usedSockets'[1] /\ sockets'[1] = 0
    BY <1>2, Slot0Ops DEF SlotList
  <2>3. task' = "NONE" /\ error'
    BY <1>2, PartsList
  <2>4. SlotList' /\ Used' = {}
    BY <1>2, <2>1, <2>2, <2>3, UsedSlot0 DEF SlotList
  <2>5. RestList'
    BY <1>2, <2>1, <2>2, <2>3, <2>4 DEF RestList
  <2> QED
    BY <1>2, <2>3, <2>4, <2>5, PhaseLists, PageGoesHttp
<1> QED
  BY <1>1, <1>2 DEF HttpTrouble

LEMMA StartsConn ==
  ASSUME PageRuns, Live' = Live, UNCHANGED <<adapter, held, http, table, connMode>>,
         (At(0) /\ Command("DNS_REQUEST", 0, "empty", 1)) \/ ((At(1) \/ At(2)) /\ Command("TCP_CONNECT", 0, "HTTP", 3))
  PROVE  ListInv' /\ HttpInv'
<1> USE DEF PageRuns, At, Nega
<1>0. SlotList' /\ answered = http.step /\ UNCHANGED answered
  <2>1. task' = task
    BY PartsList
  <2> QED
    BY <2>1 DEF SlotList, table, adapter, PageKnows
<1>1. ASSUME NEW step \in {1, 3}, taskStep' = step PROVE PageKnows' /\ PageTalk'
  <2>1. PageTalk'
    BY <1>1, TalksLess
  <2>2. ~Heading' /\ taskStep' \in 0..3
    BY <1>1 DEF Heading
  <2>3. PageKnows'
    BY <1>0, <1>1, <2>2 DEF PageKnows
  <2> QED
    BY <2>1, <2>3
<1>2. CASE At(0) /\ Command("DNS_REQUEST", 0, "empty", 1)
  <2>1. task' = HttpTask /\ taskStep' = 1 /\ busy' /\ sendCmd' = "DNS_REQUEST" /\ recvCmd' = "none"
    BY <1>2, PartsList
  <2>2. BeforeList' /\ Before(task', taskStep')
    BY <1>2, <2>1, PagePhases DEF BeforeList
  <2> QED
    BY <1>0, <1>1, <2>1, <2>2, PhaseLists, PageGoesHttp DEF TcpTasks
<1>3. CASE (At(1) \/ At(2)) /\ Command("TCP_CONNECT", 0, "HTTP", 3)
  <2>1. task' = HttpTask /\ taskStep' = 3 /\ busy' /\ sendText' = "HTTP" /\ recvCmd' = "none" /\ ~tcpClosed'
    BY <1>3, PartsList
  <2>2. AwaitList' /\ AwaitsConnect(task', taskStep')
    BY <1>3, <2>1, PagePhases DEF AwaitList, Arrived
  <2>3. ArrivedTalk'
    BY <2>1 DEF ArrivedTalk, Arrived, PortOf
  <2>4. HttpInv'
    BY <1>1, <2>1, <2>3 DEF HttpInv, WaitTalk, Idle
  <2> QED
    BY <1>0, <2>1, <2>2, <2>4, PhaseLists DEF TcpTasks
<1> QED
  BY <1>2, <1>3

LEMMA EndsConn ==
  ASSUME PageRuns, TypeList', Live' = Live, UNCHANGED <<adapter, held>>, PageEnds,
         ~Nega({"DATA", "TCP_CONNECT", "DNS_REQUEST"})
  PROVE  ListInv' /\ HttpInv'
<1> USE DEF PageRuns, At, Nega
<1>1. Live = {} /\ connMode' = "PPP" /\ FreeSlot /\ (TaskFails \/ TaskEnds)
  BY DEF PageEnds, PageKnows
<1>2. ~usedSockets'[0] /\ ~usedSockets'[1] /\ sockets'[1] = 0
  BY <1>1, Slot0Ops DEF SlotList
<1>3. task' = "NONE" /\ (error' \/ ~Nega({"DATA", "TCP_CONNECT", "DNS_REQUEST"})')
  BY <1>1, PartsList DEF TaskEnds
<1>4. SlotList' /\ Used' = {}
  BY <1>1, <1>2, <1>3, UsedSlot0 DEF SlotList
<1>5. RestList'
  BY <1>1, <1>2, <1>3, <1>4 DEF RestList
<1> QED
  BY <1>1, <1>3, <1>4, <1>5, PhaseLists, PageGoesHttp

LEMMA TalkParts ==
  ASSUME PageTalk
  PROVE  /\ taskStep = 50 /\ http.next = 5 => SaidOr({GetRequestType}, {"http"}, {Wanted})
         /\ taskStep = 50 /\ http.next \in {6, 7} => SaidOr({"path"}, {Wanted}, {Wanted})
         /\ taskStep \in {5, 6, 7} => Ready({Wanted})
         /\ taskStep = 100 => SaidOr({CreateHttpRequestHeader}, {"http_post"}, {"http_content"})
         /\ taskStep = 50 /\ http.next = 100 => SaidOr({"text"}, {"http_content"}, {"http_content"})
<1> HIDE DEF SaidOr, Ready, Said
<1> QED
  BY DEF PageTalk

\* After a step has been waited for, nothing is being said any more.
LEMMA TalkOver ==
  ASSUME PageTalk, ~busy
  PROVE  /\ taskStep = 50 /\ http.next \in {5, 6, 7} => due = "nothing" /\ Peer0 = Wanted
         /\ taskStep \in {5, 6, 7} => due = "nothing" /\ Peer0 = Wanted
         /\ taskStep = 100 \/ (taskStep = 50 /\ http.next = 100) => due = "nothing" /\ Peer0 = "http_content"
         /\ Heading => Peer0 = "http_answer" /\ due = IF HeadSaid THEN "rest" ELSE "page"
<1>1. taskStep = 50 /\ http.next \in {5, 6, 7} => due = "nothing" /\ Peer0 = Wanted
  BY TalkParts DEF SaidOr, Said, Ready
<1>2. taskStep \in {5, 6, 7} => due = "nothing" /\ Peer0 = Wanted
  BY TalkParts DEF Ready
<1>3. taskStep = 100 \/ (taskStep = 50 /\ http.next = 100) => due = "nothing" /\ Peer0 = "http_content"
  BY TalkParts DEF SaidOr, Said, Ready
<1>4. Heading => Peer0 = "http_answer" /\ due = IF HeadSaid THEN "rest" ELSE "page"
  <2>1. ASSUME Heading
        PROVE  \/ IF taskStep = 50 THEN Said({"end"}, {"http_content"})
                  ELSE Said({CreateHttpRequestHeader}, {Wanted})
               \/ Peer0 = "http_answer" /\ due = IF HeadSaid THEN "rest" ELSE "page"
    BY <2>1, Zenon DEF PageTalk
  <2> QED
    BY <2>1, Zenon DEF Said
<1> QED
  BY <1>1, <1>2, <1>3, <1>4

\* A page that sends data is asked for by POST.
LEMMA SendersPost ==
  ASSUME TypeHttp, http.auth \in Suited[http.method], SendsData
  PROVE  Wanted = "http_post"
<1>1. http.method = "POST" /\ http.auth \in {"UNKNOWN", "UPLOAD", "RANKING"} /\ http.step \in 0..3
  BY StepsTyped DEF SendsData, Suited
<1>2. GetRequestType = "POST"
  BY <1>1 DEF GetRequestType, SendsData
<1> QED
  BY <1>2 DEF Wanted

\* The server has heard the whole request.
LEMMA StepEight == taskStep' = 8 => taskStep' \notin {5, 6, 7, 50, 100, 110}
OBVIOUS

LEMMA HeadingTalks ==
  ASSUME taskStep' = 8, Peer0' = "http_answer", busy' => sendText' = "empty",
         due' = IF HeadSaid' THEN "rest" ELSE "page"
  PROVE  PageTalk'
<1>1. taskStep' \notin {5, 6, 7, 50, 100, 110}
  BY StepEight, Zenon
<1> QED
  BY <1>1, Zenon DEF PageTalk

\* The request, line by line.
LEMMA RequestConn ==
  ASSUME PageRuns, Live' = Live, open' = open, UNCHANGED <<adapter, held, connMode>>, Request,
         ~Nega({"DATA", "TCP_CONNECT", "DNS_REQUEST"}),
         IF At(3) THEN /\ usedSockets' = [usedSockets EXCEPT ![0] = TRUE]
                       /\ sockets' = [sockets EXCEPT ![0] = recvData]
         ELSE UNCHANGED table
  PROVE  ListInv' /\ HttpInv'
<1> USE DEF At
<1> DEFINE Texts == /\ GetRequestType' = GetRequestType /\ Wanted' = Wanted /\ SendsData' = SendsData
                    /\ CreateHttpRequestHeader' = CreateHttpRequestHeader
<1>0. /\ TypeHttp /\ ~busy /\ PageKnows /\ (There => PageTalk) /\ task = HttpTask /\ taskStep # 4
      /\ due' = due /\ answered' = answered /\ http.step \in 0..3 /\ ~usedSockets[1] /\ sockets[1] = 0
      /\ http.auth \in Suited[http.method] /\ (http.headEnd => http.headFound)
  BY StepsTyped DEF PageRuns, PageKnows, adapter, SlotList
<1>1. taskStep # 3 => /\ There' = There /\ Peer0' = Peer0 /\ ~usedSockets'[1] /\ sockets'[1] = 0
                      /\ (taskStep # 241 /\ taskStep \notin 0..2 => InSlot0')
  <2>1. taskStep # 3 => UNCHANGED <<sockets, usedSockets, peer>>
    BY DEF table, adapter
  <2> QED
    BY <1>0, <2>1 DEF PageRuns, There, Peer0, InSlot0
<1>7. taskStep # 3 => (There' => PageTalk) /\ Peer0' = Peer0
  <2>1. taskStep # 3 => (There' <=> There) /\ Peer0' = Peer0
    BY <1>1
  <2> QED
    BY <1>0, <2>1, Zenon
<1>2. ASSUME NEW n, NEW k, http' = [http EXCEPT !.next = n, !.left = k]
      PROVE  /\ SameKind /\ http'.next = n /\ http'.headFound = http.headFound /\ http'.headEnd = http.headEnd
             /\ http'.step = http.step /\ http'.auth = http.auth /\ http'.method = http.method /\ Texts
  <2>1. /\ SameKind /\ http'.next = n /\ http'.headFound = http.headFound /\ http'.headEnd = http.headEnd
        /\ http'.step = http.step /\ http'.auth = http.auth /\ http'.method = http.method
    BY <1>0, <1>2 DEF TypeHttp, SameKind
  <2> QED
    BY <2>1, KindTexts
<1>3. ASSUME task' = HttpTask, taskStep' \in (5..8) \cup {50, 100},
             \/ busy' /\ sendCmd' = "DATA" /\ sendSocket' = sockets'[0] /\ recvCmd' = "none"
             \/ ~busy' /\ UNCHANGED <<sendCmd, recvCmd>> /\ taskStep = 50,
             InSlot0', ~usedSockets'[1], sockets'[1] = 0, PageKnows', There' => PageTalk'
      PROVE  ListInv' /\ HttpInv'
  <2>1. PageGoesOn
    BY <1>3 DEF PageGoesOn
  <2> QED
    BY <1>3, <2>1, PageGoesLists, PageGoesHttp
\* A line said from slot 0.
<1>4. ASSUME NEW text, NEW step \in (5..8) \cup {50, 100}, taskStep \in {5, 6, 7, 100},
             Command("DATA", sockets[0], text, step), PageKnows', There' => PageTalk'
      PROVE  ListInv' /\ HttpInv'
  <2>1. /\ task' = HttpTask /\ taskStep' = step /\ busy' /\ sendCmd' = "DATA" /\ sendSocket' = sockets[0]
        /\ recvCmd' = "none"
    BY <1>0, <1>4, PartsList
  <2>2. sockets' = sockets
    BY <1>4 DEF table
  <2> QED
    BY <1>1, <1>3, <1>4, <2>1, <2>2
<1>5. CASE At(3)
  <2>1. Command("DATA", recvData, GetRequestType, 50) /\ http' = [http EXCEPT !.next = 5, !.left = http.pieces]
    BY <1>5 DEF Request
  <2>2. /\ task' = HttpTask /\ taskStep' = 50 /\ busy' /\ sendCmd' = "DATA" /\ sendSocket' = recvData
        /\ sendText' = GetRequestType /\ recvCmd' = "none"
    BY <1>0, <2>1, PartsList
  <2>3. Arrived /\ Live \subseteq {recvData}
    BY <1>5 DEF PageRuns, Nega, Arriving, Arrived
  <2>4. usedSockets'[0] /\ sockets'[0] = recvData /\ ~usedSockets'[1] /\ sockets'[1] = 0
    <3>1. DOMAIN usedSockets = {0, 1} /\ DOMAIN sockets = {0, 1}
      <4>1. 0 .. 1 = {0, 1}
        OBVIOUS
      <4> QED
        BY <4>1 DEF PageRuns, TypeList, Slots, NUM_SOCKETS
    <3> QED
      BY <1>0, <1>5, <3>1
  <2>5. InSlot0'
    BY <2>3, <2>4 DEF InSlot0
  <2>6. SameKind /\ http'.next = 5 /\ http'.step = http.step /\ Texts
        /\ http'.auth \in Suited[http'.method] /\ (http'.headEnd => http'.headFound)
    BY <1>0, <1>2, <2>1
  <2>7. PageKnows'
    <3>1. answered = http.step
      BY <1>0, <1>5 DEF PageKnows
    <3> QED
      BY <1>0, <2>2, <2>6, <3>1 DEF PageKnows, Heading
  <2>8. PageTalk'
    <3>1. peer[recvData] = "http" /\ due = "nothing"
      BY <1>0, <1>5, <2>3 DEF PageRuns
    <3>2. Peer0' = "http"
      BY <2>4, <3>1 DEF Peer0, adapter
    <3>3. SaidOr({GetRequestType}, {"http"}, {Wanted})'
      BY <1>0, <2>2, <2>6, <3>1, <3>2 DEF SaidOr, Said
    <3>4. ~Heading' /\ taskStep' \notin {5, 6, 7, 100, 110} /\ http'.next \notin {6, 7, 100}
      BY <2>2, <2>6 DEF Heading
    <3> QED
      BY <2>2, <3>3, <3>4 DEF PageTalk
  <2> QED
    BY <1>3, <2>2, <2>4, <2>5, <2>7, <2>8
<1>6. CASE At(5) \/ At(6)
  <2>1. \E n \in {6, 7} : \E k : Says_("path", 50, n, k)
    BY <1>6, <1>0 DEF Request
  <2>2. PICK n \in {6, 7} : \E k : Says_("path", 50, n, k)
    BY <2>1
  <2>3. PICK k : Says_("path", 50, n, k)
    BY <2>2
  <2>4. Command("DATA", sockets[0], "path", 50) /\ http' = [http EXCEPT !.next = n, !.left = k]
    BY <2>3 DEF Says_
  <2>5. /\ taskStep' = 50 /\ busy' /\ sendText' = "path"
    BY <2>4, PartsList
  <2>6. SameKind /\ http'.next \in {6, 7} /\ http'.step = http.step /\ Texts
        /\ http'.auth \in Suited[http'.method] /\ (http'.headEnd => http'.headFound)
    BY <1>0, <1>2, <2>4
  <2>7. PageKnows'
    <3>1. answered = http.step
      BY <1>0, <1>6 DEF PageKnows
    <3> QED
      BY <1>0, <2>5, <2>6, <3>1 DEF PageKnows, Heading
  <2>8. There' => PageTalk'
    <3> SUFFICES ASSUME There' PROVE PageTalk'
      OBVIOUS
    <3>4. taskStep \in {5, 6}
      BY <1>6
    <3>5. PageTalk /\ Peer0' = Peer0
      BY <1>7, <3>4
    <3>6. due' = "nothing" /\ Peer0' = Wanted
      BY <1>0, <3>4, <3>5, TalkOver
    <3>2. SaidOr({"path"}, {Wanted}, {Wanted})'
      BY <2>5, <2>6, <3>6 DEF SaidOr, Said
    <3>3. ~Heading' /\ taskStep' \notin {5, 6, 7, 100, 110} /\ http'.next \notin {5, 100}
      BY <2>5, <2>6 DEF Heading
    <3> QED
      BY <2>5, <3>2, <3>3 DEF PageTalk
  <2> QED
    BY <1>4, <1>6, <2>4, <2>7, <2>8
\* The reading of the header begins anew.
<1>8. ASSUME NoHeader = http' \/ http' = [NoHeader EXCEPT !.next = 8]
      PROVE  /\ SameKind /\ ~http'.headFound /\ ~http'.headEnd /\ http'.step = http.step /\ Texts
             /\ http'.auth \in Suited[http'.method] /\ (http' = NoHeader \/ http'.next = 8)
  <2>1. /\ NoHeader.auth = http.auth /\ NoHeader.method = http.method /\ NoHeader.step = http.step
    BY <1>0 DEF TypeHttp, NoHeader
  <2>2. NoHeader \in HttpRecord
    BY <1>0, NoHeaderTyped DEF TypeHttp, HttpRecord
  <2>3. ASSUME NEW r \in HttpRecord
        PROVE  LET h == [r EXCEPT !.next = 8] IN h.auth = r.auth /\ h.method = r.method /\ h.step = r.step
    BY DEF HttpRecord
  <2> HIDE DEF NoHeader
  <2>4. http'.auth = http.auth /\ http'.method = http.method /\ http'.step = http.step
    BY <1>8, <2>1, <2>2, <2>3
  <2>5. ~http'.headFound /\ ~http'.headEnd /\ (http' = NoHeader \/ http'.next = 8)
    BY <1>0, <1>8, HttpFields
  <2> QED
    BY <1>0, <2>4, <2>5, KindTexts DEF SameKind
<1>9. CASE At(7)
  <2>1. Command("DATA", sockets[0], CreateHttpRequestHeader, HttpGetNextStep[1]) /\ http' = NoHeader
    BY <1>9, <1>0 DEF Request
  <2>2. HttpGetNextStep[1] = IF SendsData THEN 100 ELSE 8
    BY DEF HttpGetNextStep
  <2>3. taskStep' = HttpGetNextStep[1] /\ busy' /\ sendText' = CreateHttpRequestHeader
    BY <2>1, PartsList
  <2>4. /\ SameKind /\ ~http'.headFound /\ ~http'.headEnd /\ http'.step = http.step /\ Texts
        /\ http'.auth \in Suited[http'.method]
    BY <1>8, <2>1
  <2>5. answered' = http'.step
    BY <1>0, <1>9, <2>4 DEF PageKnows
  <2>6. ~HeadSaid'
    BY <2>3, <2>4 DEF HeadSaid
  <2>7. There' => due' = "nothing" /\ Peer0' = Wanted
    <3> SUFFICES ASSUME There' PROVE due' = "nothing" /\ Peer0' = Wanted
      OBVIOUS
    <3>1. PageTalk /\ Peer0' = Peer0
      BY <1>7, <1>9
    <3> QED
      BY <1>0, <1>9, <3>1, TalkOver
  <2>8. ASSUME SendsData PROVE taskStep' = 100 /\ PageKnows' /\ (There' => PageTalk')
    <3>1. taskStep' = 100 /\ ~Heading'
      BY <2>2, <2>3, <2>8 DEF Heading
    <3>2. PageKnows'
      BY <1>0, <2>4, <2>5, <2>8, <3>1 DEF PageKnows
    <3>3. Wanted = "http_post"
      BY <1>0, <2>8, SendersPost
    <3>4. ASSUME There' PROVE PageTalk'
      <4>1. SaidOr({CreateHttpRequestHeader}, {"http_post"}, {"http_content"})'
        BY <2>3, <2>4, <2>7, <3>3, <3>4 DEF SaidOr, Said
      <4>2. taskStep' \notin {5, 6, 7, 50, 110}
        BY <3>1
      <4> QED
        BY <3>1, <4>1, <4>2 DEF PageTalk
    <3> QED
      BY <3>1, <3>2, <3>4
  <2>9. ASSUME ~SendsData PROVE taskStep' = 8 /\ PageKnows' /\ (There' => PageTalk')
    <3>1. taskStep' = 8 /\ Heading'
      BY <2>2, <2>3, <2>9 DEF Heading
    <3>2. PageKnows'
      <4>1. answered' = http'.step + IF HeadSaid' THEN 1 ELSE 0
        BY <1>0, <2>5, <2>6, <2>4
      <4> QED
        BY <2>4, <3>1, <4>1 DEF PageKnows
    <3>4. ASSUME There' PROVE PageTalk'
      <4>1. Said({CreateHttpRequestHeader}, {Wanted})'
        BY <2>3, <2>4, <2>7, <3>4 DEF Said
      <4>2. ~http'.headFound /\ ~SendsData'
        BY <2>4, <2>9
      <4>3. taskStep' \notin {5, 6, 7, 50, 100, 110}
        BY <3>1
      <4> QED
        BY <4>1, <4>2, <4>3, Zenon DEF PageTalk
    <3> QED
      BY <3>1, <3>2, <3>4
  <2>10. taskStep' \in {8, 100} /\ PageKnows' /\ (There' => PageTalk')
    BY <2>8, <2>9
  <2> QED
    <3>1. /\ task' = HttpTask /\ busy' /\ sendCmd' = "DATA" /\ sendSocket' = sockets'[0] /\ recvCmd' = "none"
      <4>1. sockets' = sockets
        BY <1>9 DEF table
      <4> QED
        BY <1>0, <2>1, <4>1, PartsList
    <3> QED
      BY <1>1, <1>3, <1>9, <2>10, <3>1
<1>10. CASE At(100)
  <2>0. SendsData /\ ~http.headFound /\ answered = http.step
    BY <1>0, <1>10 DEF PageKnows
  <2>7. There' => due' = "nothing" /\ Peer0' = "http_content"
    <3> SUFFICES ASSUME There' PROVE due' = "nothing" /\ Peer0' = "http_content"
      OBVIOUS
    <3>1. PageTalk /\ Peer0' = Peer0
      BY <1>7, <1>10
    <3> QED
      BY <1>0, <1>10, <3>1, TalkOver
  <2>1. CASE http.left > 1 /\ Says_("text", 50, 100, http.left - 1)
    <3>1. Command("DATA", sockets[0], "text", 50) /\ http' = [http EXCEPT !.next = 100, !.left = http.left - 1]
      BY <2>1 DEF Says_
    <3>2. taskStep' = 50 /\ busy' /\ sendText' = "text"
      BY <3>1, PartsList
    <3>3. /\ SameKind /\ http'.next = 100 /\ http'.step = http.step /\ Texts /\ ~http'.headFound /\ SendsData'
          /\ http'.auth \in Suited[http'.method] /\ (http'.headEnd => http'.headFound)
      BY <1>0, <1>2, <2>0, <3>1
    <3>4. ~Heading' /\ taskStep' \notin {5, 6, 7, 100, 110} /\ http'.next \notin {5, 6, 7, 8}
      BY <3>2, <3>3 DEF Heading
    <3>5. PageKnows'
      BY <1>0, <2>0, <3>2, <3>3, <3>4 DEF PageKnows
    <3>6. ASSUME There' PROVE PageTalk'
      <4>1. SaidOr({"text"}, {"http_content"}, {"http_content"})'
        BY <2>7, <3>2, <3>6 DEF SaidOr, Said
      <4> QED
        BY <3>4, <4>1 DEF PageTalk
    <3> QED
      BY <1>4, <1>10, <3>1, <3>5, <3>6
  <2>2. CASE Command("DATA", sockets[0], "end", 50) /\ http' = [NoHeader EXCEPT !.next = 8]
    <3>2. taskStep' = 50 /\ busy' /\ sendText' = "end"
      BY <2>2, PartsList
    <3>3. /\ SameKind /\ ~http'.headFound /\ ~http'.headEnd /\ http'.step = http.step /\ Texts
          /\ http'.auth \in Suited[http'.method] /\ SendsData'
      BY <1>8, <2>0, <2>2
    <3>8. http'.next = 8
      BY <1>0, <2>2, HttpFields
    <3>4. Heading' /\ ~HeadSaid' /\ taskStep' \notin {5, 6, 7, 100, 110} /\ http'.next \notin {5, 6, 7, 100}
      BY <3>2, <3>3, <3>8 DEF Heading, HeadSaid
    <3>5. PageKnows'
      <4>1. answered' = http'.step + IF HeadSaid' THEN 1 ELSE 0
        BY <1>0, <2>0, <3>3, <3>4
      <4> QED
        BY <3>2, <3>3, <3>4, <3>8, <4>1 DEF PageKnows
    <3>6. ASSUME There' PROVE PageTalk'
      <4>1. Said({"end"}, {"http_content"})'
        BY <2>7, <3>2, <3>6 DEF Said
      <4>2. \/ ~http'.headFound /\ IF taskStep' = 50 THEN Said({"end"}, {"http_content"})'
                                   ELSE ~SendsData' /\ Said({CreateHttpRequestHeader}, {Wanted})'
            \/ /\ Peer0' = "http_answer" /\ (busy' => sendText' = "empty")
               /\ due' = IF HeadSaid' THEN "rest" ELSE "page"
        BY <3>2, <3>3, <4>1, Zenon
      <4> QED
        BY <3>4, <4>2 DEF PageTalk
    <3> QED
      BY <1>4, <1>10, <2>2, <3>5, <3>6
  <2> QED
    BY <1>0, <1>10, <2>1, <2>2 DEF Request
<1>11. CASE At(50)
  <2>1. Goes(http.next) /\ http' = http
    BY <1>11, <1>0 DEF Request
  <2>2. /\ task' = HttpTask /\ taskStep' = http.next /\ ~busy' /\ UNCHANGED <<sendCmd, recvCmd, tcpClosed, recvChunk>>
    BY <1>0, <2>1, PartsList
  <2>3. http.next \in {5, 6, 7, 8, 100}
    BY <1>0, <1>11 DEF PageKnows
  <2>4. SameKind /\ Texts
    BY <2>1, KindTexts DEF SameKind
  <2>5. PageKnows' /\ (There' => PageTalk')
    <3>1. CASE http.next \in {5, 6, 7}
      <4>1. PageKnows'
        <5>1. answered = http.step /\ ~Heading'
          BY <1>0, <1>11, <2>2, <3>1 DEF PageKnows, Heading
        <5> QED
          BY <1>0, <2>1, <2>2, <3>1, <5>1 DEF PageKnows
      <4>2. ASSUME There' PROVE PageTalk'
        <5>1. PageTalk /\ Peer0' = Peer0
          BY <1>7, <1>11, <4>2
        <5>2. Ready({Wanted})'
          BY <1>0, <1>11, <2>2, <2>4, <3>1, <5>1, TalkOver DEF Ready
        <5>3. ~Heading' /\ taskStep' \notin {50, 100, 110}
          BY <2>2, <3>1 DEF Heading
        <5> QED
          BY <5>2, <5>3 DEF PageTalk
      <4> QED
        BY <4>1, <4>2
    <3>2. CASE http.next = 100
      <4>1. PageKnows'
        <5>1. answered = http.step /\ ~Heading' /\ SendsData /\ ~http.headFound
          BY <1>0, <1>11, <2>2, <3>2 DEF PageKnows, Heading
        <5> QED
          BY <1>0, <2>1, <2>2, <2>4, <3>2, <5>1 DEF PageKnows
      <4>2. ASSUME There' PROVE PageTalk'
        <5>1. PageTalk /\ Peer0' = Peer0
          BY <1>7, <1>11, <4>2
        <5>2. SaidOr({CreateHttpRequestHeader}, {"http_post"}, {"http_content"})'
          BY <1>0, <1>11, <2>2, <3>2, <5>1, TalkOver DEF SaidOr, Ready
        <5>3. ~Heading' /\ taskStep' \notin {5, 6, 7, 50, 110}
          BY <2>2, <3>2 DEF Heading
        <5> QED
          BY <5>2, <5>3 DEF PageTalk
      <4> QED
        BY <4>1, <4>2
    <3>3. CASE http.next = 8
      <4>0. Heading /\ Heading' /\ taskStep' = 8 /\ (HeadSaid' <=> HeadSaid)
        BY <1>0, <1>11, <2>1, <2>2, <3>3 DEF Heading, HeadSaid
      <4>1. PageKnows'
        <5>1. answered = http.step + IF HeadSaid THEN 1 ELSE 0
          BY <1>0, <4>0 DEF PageKnows
        <5>2. answered' = http'.step + IF HeadSaid' THEN 1 ELSE 0
          BY <1>0, <2>1, <4>0, <5>1
        <5> QED
          BY <1>0, <2>1, <4>0, <5>2 DEF PageKnows
      <4>2. ASSUME There' PROVE PageTalk'
        <5>1. PageTalk /\ Peer0' = Peer0
          BY <1>7, <1>11, <4>2
        <5>2. Peer0' = "http_answer" /\ due = IF HeadSaid THEN "rest" ELSE "page"
          BY <1>0, <4>0, <5>1, TalkOver
        <5> QED
          BY <1>0, <2>2, <4>0, <5>2, HeadingTalks
      <4> QED
        BY <4>1, <4>2
    <3> QED
      BY <2>3, <3>1, <3>2, <3>3
  <2>6. InSlot0' /\ ~usedSockets'[1] /\ sockets'[1] = 0
    BY <1>1, <1>11
  <2> QED
    BY <1>3, <1>11, <2>2, <2>3, <2>5, <2>6
<1> QED
  BY <1>0, <1>5, <1>6, <1>9, <1>10, <1>11 DEF Request

\* Nothing but the page is due any more.
LEMMA PageSteps == taskStep' \in {110, 255} => ~Heading' /\ taskStep' \notin {5, 6, 7, 50, 100}
BY DEF Heading

LEMMA RestTalks ==
  ASSUME taskStep' \in {110, 255}, Peer0' = "http_answer", due' = "rest", busy' => sendText' = "empty"
  PROVE  PageTalk'
<1>1. ~Heading' /\ taskStep' \notin {5, 6, 7, 50, 100}
  BY PageSteps, Zenon
<1>2. taskStep' = 110 => Peer0' = "http_answer" /\ due' = "rest" /\ (busy' => sendText' = "empty")
  BY Zenon
<1> QED
  BY <1>1, <1>2, Zenon DEF PageTalk

\* Step 8: the header.
LEMMA HeaderConn ==
  ASSUME TaskInv, BodyInv, PageRuns, Live' = Live, open' = open, UNCHANGED <<adapter, held, table, connMode>>,
         Header
  PROVE  ListInv' /\ HttpInv'
<1>0. /\ TypeHttp /\ ~busy /\ PageKnows /\ (There => PageTalk) /\ task = HttpTask /\ taskStep = 8
      /\ due' = due /\ answered' = answered /\ http.step \in 0..3
      /\ http.auth \in Suited[http.method] /\ (http.headEnd => http.headFound) /\ InSlot0
      /\ recvChunk \in [line : ChunkLines, bytes : Seq(Nat)]
  <2>1. taskStep = 8
    BY DEF Header, At
  <2> QED
    BY <2>1, StepsTyped DEF PageRuns, PageKnows, adapter, TaskInv, IInv, Running, TypeRun
<1>1. /\ (There' <=> There) /\ Peer0' = Peer0 /\ ~usedSockets'[1] /\ sockets'[1] = 0 /\ InSlot0' /\ sockets' = sockets
  <2>1. UNCHANGED <<sockets, usedSockets, peer>>
    BY DEF table, adapter
  <2> QED
    BY <1>0, <2>1 DEF PageRuns, There, Peer0, InSlot0, SlotList
<1>2. There => Peer0 = "http_answer" /\ due = IF HeadSaid THEN "rest" ELSE "page"
  <2> SUFFICES ASSUME There PROVE Peer0 = "http_answer" /\ due = IF HeadSaid THEN "rest" ELSE "page"
    OBVIOUS
  <2>1. Heading
    BY <1>0 DEF Heading
  <2>2. PageTalk /\ ~busy
    BY <1>0
  <2> QED
    BY <2>1, <2>2, TalkOver
<1>3. answered = http.step + IF HeadSaid THEN 1 ELSE 0
  BY <1>0 DEF PageKnows, Heading
<1>4. ASSUME task' = HttpTask, taskStep' \in {8, 110, 240, 255},
             \/ busy' /\ sendCmd' = "DATA" /\ sendSocket' = sockets[0] /\ recvCmd' = "none"
             \/ ~busy' /\ UNCHANGED <<sendCmd, recvCmd>>,
             PageKnows', There' => PageTalk'
      PROVE  ListInv' /\ HttpInv'
  <2>1. PageGoesOn
    BY <1>0, <1>1, <1>4 DEF PageGoesOn
  <2> QED
    BY <1>1, <1>4, <2>1, PageGoesLists, PageGoesHttp
<1>5. CASE Goes(240) /\ UNCHANGED http
  <2>1. /\ task' = HttpTask /\ taskStep' = 240 /\ ~busy' /\ UNCHANGED <<sendCmd, recvCmd>>
    BY <1>0, <1>5, PartsList
  <2>2. ~Heading' /\ taskStep' \notin (0..8) \cup {50, 100, 110, 255}
    BY <2>1 DEF Heading
  <2>3. PageKnows'
    BY <1>0, <1>5, <2>1, <2>2 DEF PageKnows
  <2> QED
    BY <1>4, <2>1, <2>2, <2>3, TalksLess
<1>6. CASE http.headEnd /\ Goes(HttpGetNextStep[2]) /\ http' = [http EXCEPT !.step = @ + 1]
  <2>1. HeadSaid /\ answered = http.step + 1
    BY <1>0, <1>3, <1>6 DEF HeadSaid
  <2>2. /\ task' = HttpTask /\ taskStep' = HttpGetNextStep[2] /\ ~busy' /\ UNCHANGED <<sendCmd, recvCmd>>
    BY <1>0, <1>6, PartsList
  <2>3. /\ http'.step = http.step + 1 /\ http'.auth = http.auth /\ http'.method = http.method
        /\ http'.headEnd = http.headEnd /\ http'.headFound = http.headFound
    BY <1>0, <1>6 DEF TypeHttp
  <2>4. taskStep' \in {110, 255}
    BY <2>2 DEF HttpGetNextStep
  <2>5. Live' = {}
    BY <1>0, <1>2, AnsweredLive
  <2>6. ~Heading' /\ taskStep' \notin (0..8) \cup {50, 100}
    BY <2>4 DEF Heading
  <2>7. PageKnows'
    BY <1>0, <2>1, <2>3, <2>4, <2>5, <2>6 DEF PageKnows
  <2>8. ASSUME There' PROVE PageTalk'
    <3>1. Peer0' = "http_answer" /\ due' = "rest"
      BY <1>0, <1>1, <1>2, <2>1, <2>8
    <3> QED
      BY <2>2, <2>4, <3>1, RestTalks
  <2> QED
    BY <1>4, <2>2, <2>4, <2>7, <2>8
\* The header goes on to come, or has just begun or ended.
<1>7. ASSUME taskStep' = 8, busy' => sendText' = "empty", HeadSaid' <=> HeadSaid, SameKind,
             http'.headEnd => http'.headFound, task' = HttpTask,
             \/ busy' /\ sendCmd' = "DATA" /\ sendSocket' = sockets[0] /\ recvCmd' = "none"
             \/ ~busy' /\ UNCHANGED <<sendCmd, recvCmd>>
      PROVE  ListInv' /\ HttpInv'
  <2>1. Heading'
    BY <1>7 DEF Heading
  <2>2. answered' = http'.step + IF HeadSaid' THEN 1 ELSE 0
    BY <1>0, <1>3, <1>7 DEF SameKind
  <2>3. http'.auth \in Suited[http'.method]
    BY <1>0, <1>7 DEF SameKind
  <2>4. PageKnows'
    BY <1>7, <2>1, <2>2, <2>3 DEF PageKnows
  <2>5. ASSUME There' PROVE PageTalk'
    <3>1. Peer0' = "http_answer" /\ due' = IF HeadSaid' THEN "rest" ELSE "page"
      BY <1>0, <1>1, <1>2, <1>7, <2>5
    <3> QED
      BY <1>7, <3>1, HeadingTalks
  <2> QED
    BY <1>4, <1>7, <2>4, <2>5
<1>8. CASE recvChunk.line \notin Headers /\ ~tcpClosed /\ Command("DATA", sockets[0], "empty", 8) /\ UNCHANGED http
  <2>2. /\ task' = HttpTask /\ taskStep' = 8 /\ busy' /\ sendCmd' = "DATA" /\ sendSocket' = sockets[0]
        /\ sendText' = "empty" /\ recvCmd' = "none"
    BY <1>0, <1>8, PartsList
  <2>3. HeadSaid' <=> HeadSaid
    <3>1. HeadSaid <=> http.headFound
      BY <1>8, Zenon DEF HeadSaid
    <3>2. HeadSaid' <=> http.headFound
      BY <1>8, <2>2, Zenon DEF HeadSaid
    <3> QED
      BY <3>1, <3>2, Zenon
  <2>4. SameKind
    BY <1>8 DEF SameKind
  <2>5. http'.headEnd => http'.headFound
    BY <1>0, <1>8
  <2> QED
    BY <1>7, <2>2, <2>3, <2>4, <2>5
\* More is taken for the header.
<1>9. ASSUME HeadSaid, http'.headFound, SameKind, NEW bytes, AfterReply(bytes)
      PROVE  ListInv' /\ HttpInv'
  <2>3. HeadSaid' <=> HeadSaid
    BY <1>9, Zenon DEF HeadSaid
  <2>4. CASE Command("DATA", sockets[0], "empty", 8)
    <3>1. /\ task' = HttpTask /\ taskStep' = 8 /\ busy' /\ sendCmd' = "DATA" /\ sendSocket' = sockets[0]
          /\ sendText' = "empty" /\ recvCmd' = "none"
      BY <1>0, <2>4, PartsList
    <3> QED
      BY <1>7, <1>9, <2>3, <3>1
  <2>5. CASE UNCHANGED <<api, busy, sendCmd, recvCmd>>
    <3>1. task' = HttpTask /\ taskStep' = 8 /\ ~busy' /\ UNCHANGED <<sendCmd, recvCmd>>
      BY <1>0, <2>5 DEF api
    <3> QED
      BY <1>7, <1>9, <2>3, <3>1
  <2> QED
    BY <1>9, <2>4, <2>5 DEF AfterReply
<1>10. CASE HeaderRead /\ ~tcpClosed
  <2>1. PICK status : /\ recvChunk.line \in Headers /\ AfterReply(recvChunk.bytes)
                      /\ http' = [http EXCEPT !.headFound = TRUE, !.headEnd = recvChunk.line # "split",
                                              !.headError = WrongStatus(status),
                                              !.err101 = @ \/ status = "101"]
    BY <1>10, Zenon DEF HeaderRead
  <2>2. http'.headFound
    BY <1>0, <2>1, Zenon DEF TypeHttp
  <2>3. SameKind
    BY <1>0, <2>1 DEF TypeHttp, SameKind
  <2>4. HeadSaid
    BY <1>0, <1>10, <2>1 DEF HeadSaid
  <2> QED
    BY <1>9, <2>1, <2>2, <2>3, <2>4
<1>11. CASE PageTakenForHeader /\ ~http.headEnd /\ ~tcpClosed
  <2>1. http.headFound
    BY <1>0, <1>11 DEF PageTakenForHeader, BodyInv, PageInv, Owing, Searching, Awaiting
  <2>2. PICK n \in 1 .. Len(recvChunk.bytes), end \in BOOLEAN, read \in {"none", "wrong", "101"} :
          /\ http' = [http EXCEPT !.headEnd = end, !.headError = @ \/ read = "wrong",
                                  !.err101 = @ \/ read = "101", !.missed = @ + n]
          /\ AfterReply(SubSeq(recvChunk.bytes, n + 1, Len(recvChunk.bytes)))
    BY <1>11, Zenon DEF PageTakenForHeader
  <2>3. http'.headFound
    BY <1>0, <2>1, <2>2, Zenon DEF TypeHttp
  <2>4. SameKind
    BY <1>0, <2>2 DEF TypeHttp, SameKind
  <2> QED
    BY <1>9, <2>1, <2>2, <2>3, <2>4 DEF HeadSaid
<1>12. \/ Goes(240) /\ UNCHANGED http
       \/ http.headEnd /\ Goes(HttpGetNextStep[2]) /\ http' = [http EXCEPT !.step = @ + 1]
       \/ recvChunk.line \notin Headers /\ ~tcpClosed /\ Command("DATA", sockets[0], "empty", 8) /\ UNCHANGED http
       \/ HeaderRead /\ ~tcpClosed
       \/ PageTakenForHeader /\ ~http.headEnd /\ ~tcpClosed
  BY Zenon DEF Header
<1> QED
  BY <1>5, <1>6, <1>8, <1>10, <1>11, <1>12

\* Step 110: the page.
LEMMA PageConn ==
  ASSUME PageRuns, TypeList', Live' = Live, open' = open, UNCHANGED <<adapter, held, table, connMode>>, Page,
         ~Nega({"DATA", "TCP_CONNECT", "DNS_REQUEST"})
  PROVE  ListInv' /\ HttpInv'
<1>0. /\ TypeHttp /\ ~busy /\ PageKnows /\ (There => PageTalk) /\ task = HttpTask /\ taskStep = 110
      /\ due' = due /\ answered' = answered /\ http' = http /\ InSlot0 /\ answered = http.step
      /\ http.auth \in Suited[http.method] /\ (http.headEnd => http.headFound)
  <2>1. taskStep = 110 /\ http' = http
    BY DEF Page, At
  <2> QED
    BY <2>1 DEF PageRuns, PageKnows, adapter
<1>1. /\ (There' <=> There) /\ Peer0' = Peer0 /\ ~usedSockets'[1] /\ sockets'[1] = 0 /\ InSlot0' /\ sockets' = sockets
  <2>1. UNCHANGED <<sockets, usedSockets, peer>>
    BY DEF table, adapter
  <2> QED
    BY <1>0, <2>1 DEF PageRuns, There, Peer0, InSlot0, SlotList
<1>2. There => Peer0 = "http_answer" /\ due = "rest"
  BY <1>0 DEF PageTalk
<1>3. Live' = {}
  BY <1>0, <1>2, AnsweredLive
<1>4. CASE /\ taskStep' = HttpGetNextStep[3]
           /\ UNCHANGED <<task, param, cutCmd, error, tcpClosed, smtpSender, bios>>
  <2>1. taskStep' \in {2, 255} /\ task' = HttpTask /\ ~busy' /\ UNCHANGED <<sendCmd, recvCmd>>
    BY <1>0, <1>4 DEF HttpGetNextStep, bios
  <2>2. PageKnows' /\ PageTalk'
    <3>1. ~Heading'
      BY <2>1 DEF Heading
    <3>2. PageKnows'
      BY <1>0, <1>3, <2>1, <3>1 DEF PageKnows
    <3> QED
      BY <2>1, <3>2, TalksLess
  <2>3. CASE taskStep' = 255
    <3>1. PageGoesOn
      BY <1>0, <2>1, <2>3 DEF PageGoesOn
    <3> QED
      BY <1>1, <2>1, <2>2, <2>3, <3>1, PageGoesLists, PageGoesHttp
  <2>4. CASE taskStep' = 2
    <3>1. SlotList'
      BY <1>1, <2>1 DEF SlotList, PageRuns
    <3>2. BeforeList' /\ Before(task', taskStep')
      BY <1>3, <2>1, <2>4, PagePhases DEF BeforeList, Nega, SettingsTasks
    <3> QED
      BY <2>1, <2>2, <2>4, <3>1, <3>2, PhaseLists, PageGoesHttp
  <2> QED
    BY <2>1, <2>3, <2>4
<1>5. CASE Command("DATA", sockets[0], "empty", 110)
  <2>1. /\ task' = HttpTask /\ taskStep' = 110 /\ busy' /\ sendCmd' = "DATA" /\ sendSocket' = sockets[0]
        /\ sendText' = "empty" /\ recvCmd' = "none"
    BY <1>0, <1>5, PartsList
  <2>2. ~Heading' /\ taskStep' \notin (0..8) \cup {50, 100, 255}
    BY <2>1 DEF Heading
  <2>3. PageKnows'
    BY <1>0, <2>1, <2>2 DEF PageKnows
  <2>4. ASSUME There' PROVE PageTalk'
    <3>1. Peer0' = "http_answer" /\ due' = "rest"
      BY <1>0, <1>1, <1>2, <2>4
    <3> QED
      BY <2>1, <3>1, RestTalks
  <2>5. PageGoesOn
    BY <1>0, <1>1, <2>1 DEF PageGoesOn
  <2> QED
    BY <1>1, <2>1, <2>3, <2>4, <2>5, PageGoesLists, PageGoesHttp
<1>6. CASE Overflow(recvChunk)
  <2>1. task' = "NONE" /\ ~busy' /\ UNCHANGED <<sendCmd, recvCmd>>
    BY <1>0, <1>6 DEF Overflow, KeepRest
  <2>2. SlotList' /\ connMode' = "HTTP" /\ held' = {}
    BY <1>1, <2>1 DEF SlotList, PageRuns
  <2>3. RestList'
    BY <1>1, <2>1, <2>2 DEF RestList, Nega
  <2>4. HttpInv'
    <3>1. ~AwaitsConnect(task', taskStep') /\ task' # HttpTask
      BY <2>1 DEF AwaitsConnect
    <3>2. WaitTalk'
      BY <1>0, <1>1, <1>2 DEF WaitTalk
    <3> QED
      BY <3>1, <3>2 DEF HttpInv, ArrivedTalk
  <2> QED
    BY <2>1, <2>2, <2>3, <2>4, PhaseLists
<1>7. \/ /\ taskStep' = HttpGetNextStep[3]
         /\ UNCHANGED <<task, param, cutCmd, error, tcpClosed, smtpSender, bios>>
      \/ Command("DATA", sockets[0], "empty", 110)
      \/ Overflow(recvChunk)
  BY Zenon DEF Page
<1> QED
  BY <1>4, <1>5, <1>6, <1>7

LEMMA HttpTaskConn ==
  ASSUME TaskInv, BodyInv, ListInv, HttpInv, TypeList', MATASK_HTTP_GetPost
  PROVE  ListInv' /\ HttpInv'
<1>1. PageRuns /\ UNCHANGED <<adapter, held>> /\ Live' = Live /\ open' = open
  BY PageBegins
<1>2. CASE HttpTrouble /\ UNCHANGED http
  BY <1>1, <1>2, TroubleConn
<1>3. CASE /\ UNCHANGED http /\ Same
           /\ \/ At(0) /\ Command("DNS_REQUEST", 0, "empty", 1)
              \/ (At(1) \/ At(2)) /\ Command("TCP_CONNECT", 0, "HTTP", 3)
  BY <1>1, <1>3, StartsConn DEF Same, table
<1>4. CASE /\ UNCHANGED connMode /\ ~Nega({"DATA", "TCP_CONNECT", "DNS_REQUEST"})
           /\ IF At(3) THEN /\ usedSockets' = [usedSockets EXCEPT ![0] = TRUE]
                            /\ sockets' = [sockets EXCEPT ![0] = recvData]
              ELSE UNCHANGED table
           /\ Request \/ Header
  <2>1. Header => ~At(3)
    BY DEF Header, At
  <2> QED
    BY <1>1, <1>4, <2>1, RequestConn, HeaderConn
<1>5. CASE Page /\ Same /\ ~Nega({"DATA", "TCP_CONNECT", "DNS_REQUEST"})
  BY <1>1, <1>5, PageConn DEF Same
<1>6. CASE PageEnds /\ ~Nega({"DATA", "TCP_CONNECT", "DNS_REQUEST"})
  BY <1>1, <1>6, EndsConn
<1> QED
  BY <1>2, <1>3, <1>4, <1>5, <1>6, Zenon DEF MATASK_HTTP_GetPost

----------------------------------------------------------------------------
(* The list, always.                                                       *)

LEMMA ConnInit == Init => ConnInv
<1> SUFFICES ASSUME Init PROVE ConnInv
  OBVIOUS
<1>1. /\ task = "NONE" /\ connMode = "OFFLINE" /\ usedSockets = [i \in Slots |-> FALSE]
      /\ sockets = [i \in Slots |-> 0] /\ held = {} /\ peer = [id \in Ids |-> "closed"]
      /\ recvCmd = "none" /\ ~busy
  BY DEF Init, SocketsInit, ServersInit
<1>2. 0 \in Slots /\ 1 \in Slots
  BY DEF Slots, NUM_SOCKETS
<1>3. Live = {}
  BY <1>1 DEF Live, open
<1>4. SlotList /\ RestList
  BY <1>1, <1>2, <1>3 DEF SlotList, RestList, Nega
<1>5. /\ ~Before("NONE", taskStep) /\ ~AwaitsConnect("NONE", taskStep) /\ ~Uses("NONE", taskStep)
      /\ ~Closes("NONE", taskStep) /\ "NONE" \notin TcpTasks
  BY Phases DEF TcpTasks
<1>6. ListInv
  BY <1>1, <1>4, <1>5 DEF ListInv, BeforeList, AwaitList, UseList, CloseList, TcpList, EndList
<1>7. NextInv /\ Unclosed
  BY <1>1 DEF NextInv, Unclosed
<1>8. HttpInv
  BY <1>1, <1>5 DEF HttpInv, ArrivedTalk, WaitTalk
<1> QED
  BY <1>6, <1>7, <1>8 DEF ConnInv

LEMMA TasksConn ==
  ASSUME TaskInv, BodyInv, ConnInv, TypeList', MAAPI_Main
  PROVE  ListInv' /\ HttpInv'
<1> USE DEF ConnInv
<1>1. CASE MATASK_HTTP_GetPost
  BY <1>1, HttpTaskConn
<1>2. CASE ~MATASK_HTTP_GetPost
  <2>1. HttpInv'
    BY <1>2, OtherTasksHttp
  <2>2. CASE SocketTasks
    BY <2>1, <2>2, ConnectLists, DisconnectLists, SendRecvLists, HostLists, OfflineLists, CutLists DEF SocketTasks
  <2>3. CASE MailTasksStep
    BY <2>1, <2>3, MailTasksLists
  <2>4. CASE MATASK_TelServer \/ MATASK_GetEEPROMData \/ MATASK_EEPROM_Read \/ MATASK_EEPROM_Write
    BY <2>1, <2>4, SettingsTasksLists
  <2> QED
    BY <1>2, <2>2, <2>3, <2>4 DEF MAAPI_Main
<1> QED
  BY <1>1, <1>2

LEMMA SameConn ==
  ASSUME UNCHANGED vars
  PROVE  /\ ListInv => ListInv'
         /\ HttpInv => HttpInv'
<1>1. UNCHANGED <<usedSockets, sockets, connMode, task, taskStep, param, cutCmd, error, tcpClosed, busy, sendCmd,
                  sendSocket, sendText, recvCmd, recvData, recvChunk, peer, due, answered, held, http>>
  BY DEF vars, socketVars, table, api, flags, bios, adapter
<1>2. Live' = Live /\ open' = open /\ Used' = Used /\ (Arrived' <=> Arrived) /\ Arriving' = Arriving
  BY <1>1 DEF Live, open, Used, Arrived, Arriving
<1>3. (SlotList => SlotList') /\ (RestList => RestList')
  BY <1>1, <1>2 DEF SlotList, RestList, InSlot0, Nega
<1>4. (BeforeList => BeforeList') /\ (AwaitList => AwaitList') /\ (CloseList => CloseList')
  BY <1>1, <1>2 DEF BeforeList, AwaitList, CloseList, Nega
<1>5. (UseList => UseList') /\ (TcpList => TcpList') /\ (EndList => EndList')
  BY <1>1, <1>2 DEF UseList, TcpList, EndList, InSlot0, Talks, Gone, Nega
<1>6. There' = There /\ Peer0' = Peer0
  BY <1>1, <1>2 DEF There, Peer0
<1>7. (ArrivedTalk => ArrivedTalk') /\ (WaitTalk => WaitTalk')
  BY <1>1, <1>2, <1>6 DEF ArrivedTalk, WaitTalk, Idle
<1>8. SameKind /\ (HeadSaid' <=> HeadSaid) /\ (Heading' <=> Heading)
  BY <1>1 DEF SameKind, HeadSaid, Heading
<1>9. PageKnows => PageKnows'
  BY <1>1, <1>2, <1>8, KindTexts DEF PageKnows
<1>10. PageTalk => PageTalk'
  <2> SUFFICES ASSUME PageTalk PROVE PageTalk'
    OBVIOUS
  <2>1. Peer0' = Peer0 /\ UNCHANGED <<due, taskStep, http, busy, sendText, tcpClosed, recvChunk>>
    BY <1>1, <1>6
  <2> QED
    BY <2>1 DEF PageTalk, SaidOr, Said, Ready, Heading, HeadSaid, Wanted, GetRequestType, CreateHttpRequestHeader, SendsData
<1>11. HttpInv => HttpInv'
  BY <1>1, <1>6, <1>7, <1>9, <1>10 DEF HttpInv
<1> QED
  BY <1>3, <1>4, <1>5, <1>11 DEF ListInv

LEMMA ConnInvKept ==
  ASSUME MaxHeld <= 1, "unstored" \notin Risks, TaskInv, BodyInv, ConnInv, [Next]_vars
  PROVE  ConnInv'
<1>1. NextInv' /\ Unclosed' /\ TypeList'
  BY NextKept, UnclosedKept, TaskInvKept DEF ConnInv, TaskInv, IInv, TypeOK
<1>2. CASE Game
  BY <1>1, <1>2, GameLists, GameHttp DEF ConnInv
<1>3. CASE MAAPI_Main
  BY <1>1, <1>3, TasksConn DEF ConnInv
<1>4. CASE Answer
  BY <1>1, <1>4, AnswerLists, HttpAnswers DEF ConnInv
<1>5. CASE ServerCloses
  BY <1>1, <1>5, ClosingLists, ClosingHttp DEF ConnInv
<1>6. CASE Leaves
  BY <1>1, <1>6, LeavingLists, LeavingHttp DEF ConnInv, Leaves
<1>7. CASE UNCHANGED vars
  BY <1>1, <1>7, SameConn DEF ConnInv
<1> QED
  BY <1>2, <1>3, <1>4, <1>5, <1>6, <1>7 DEF Next

LEMMA ConnInvAlways ==
  ASSUME MaxHeld <= 1, "unstored" \notin Risks
  PROVE  Spec => [](TaskInv /\ ConnInv)
<1>1. TaskInv /\ BodyInv /\ ConnInv /\ [Next]_vars => ConnInv'
  BY ConnInvKept
<1>2. Spec => []BodyInv
  BY BodiesInit, BodyInvKept, TaskInvAlways, PTL DEF Spec
<1> QED
  BY <1>1, <1>2, ConnInit, TaskInvAlways, PTL DEF Spec

\* What the list says with no call running.
LEMMA IdleListed ==
  ASSUME TaskInv, ConnInv, Idle
  PROVE  Live \subseteq Used /\ held \subseteq Used
<1>1. TypeList /\ SlotList /\ RestList /\ task = "NONE"
  BY DEF ConnInv, ListInv, TaskInv, IInv, TypeOK, Idle
<1>2. Used = IF usedSockets[0] THEN {sockets[0]} ELSE {}
  BY <1>1, UsedSlot0 DEF SlotList
<1>3. connMode \in {"OFFLINE", "PPP", "SMTP", "POP3", "HTTP"}
  BY <1>1 DEF TypeList
<1> QED
  BY <1>1, <1>2, <1>3 DEF SlotList, RestList, InSlot0

\* OpenIsListed: when no call runs, the list has every connection that only the
\* library can close. MAU_Socket_Add and MAU_Socket_Delete keep up with
\* TCP_CONNECT and TCP_DISCONNECT on every path, the errors and MA_TCP_Cut's too.
\* The moments "unstored" are those at which MA_TCP_Cut finds the reply to
\* TCP_CONNECT come and its socket not yet stored.
THEOREM SessionsOpenIsListed ==
  ASSUME MaxHeld <= 1, "unstored" \notin Risks
  PROVE  Spec => []OpenIsListed
<1>1. TaskInv /\ ConnInv => OpenIsListed
  BY IdleListed DEF OpenIsListed, Live
<1> QED
  BY <1>1, ConnInvAlways, PTL

\* HeldIsListed: a socket the game has been given, and may use, is in the list
\* when no call runs: no call on another connection has taken it out.
THEOREM SessionsHeldIsListed ==
  ASSUME MaxHeld <= 1, "unstored" \notin Risks
  PROVE  Spec => []HeldIsListed
<1>1. TaskInv /\ ConnInv => HeldIsListed
  BY IdleListed DEF HeldIsListed
<1> QED
  BY <1>1, ConnInvAlways, PTL

----------------------------------------------------------------------------
(* Nothing but open connections.                                           *)

\* A page's session is at rest only while the game has a full buffer to take.
RestFull == Idle /\ connMode = "HTTP" => full

LEMMA RestFullKept ==
  ASSUME "refused" \notin Risks, TaskInv, BodyInv, RestFull, [Next]_vars
  PROVE  RestFull'
<1> SUFFICES ASSUME task' = "NONE", connMode' = "HTTP", ~full' PROVE FALSE
  BY DEF RestFull, Idle
<1>1. CASE Game
  <2>1. CASE MA_HTTP_GetPost
    <3>1. ASSUME NEW room, SamePage(room) PROVE FALSE
      <4>1. task = "NONE" /\ full /\ (RestGiven(HttpTask, 110, room, TRUE) \/ RestFills(room) \/ RestRefused(HttpTask, 110, room, TRUE))
        BY <3>1 DEF SamePage, AtRest
      <4> QED
        BY <4>1, CallsMode DEF RestFills
    <3>2. ~NewPage
      BY NewPageHttp
    <3> QED
      BY <2>1, <3>1, <3>2 DEF MA_HTTP_GetPost
  <2>2. CASE ~MA_HTTP_GetPost
    <3>1. task = "NONE" /\ connMode = "HTTP" /\ full
      BY <1>1, <2>2, HttpRests DEF RestFull, Idle
    <3>2. ~MA_ApiPreExe
      BY <3>1 DEF MA_ApiPreExe
    <3>3. ~(MAAPI_ErrorCheck /\ UNCHANGED <<recv, bufferEmpty, mailVars, http, eeprom>>)
      BY <3>1 DEF MAAPI_ErrorCheck
    <3>4. ~SocketCalls /\ ~GoesOffline /\ ~MA_TCP_Cut
      BY <3>1 DEF SocketCalls, MA_TCP_Connect, MA_GetHostAddress, MA_TCP_Disconnect, MA_TCP_SendRecv, AtRest,
         GoesOffline, MA_Offline, MA_TCP_Cut
    <3>5. ~MA_TelServer /\ ~MA_GetEEPROMData /\ ~MA_EEPROMRead /\ ~MA_EEPROMWrite
      BY <3>1, CallsMode DEF AtRest, MA_TelServer, MA_GetEEPROMData, MA_EEPROMRead, MA_EEPROMWrite
    <3>6. ~MailCalls
      <4>1. ASSUME NEW text, NEW room, NewMail(text, room) PROVE FALSE
        BY <3>1, <4>1 DEF NewMail
      <4>2. ASSUME NEW room, SameMail(room) PROVE FALSE
        BY <3>1, <4>2 DEF SameMail, AtRest
      <4> QED
        BY <3>1, <4>1, <4>2 DEF MailCalls, MA_SMTP_Connect, MA_SMTP_Sender, MA_SMTP_Send, MA_SMTP_Quit, AtRest,
           MA_POP3_Connect, MA_POP3_Quit, MA_POP3_Stat, MA_POP3_List, MA_POP3_Dele, MA_POP3_Ask, MA_POP3_Retr, MA_POP3_Head
    <3> QED
      BY <1>1, <2>2, <3>2, <3>3, <3>4, <3>5, <3>6 DEF Game
  <2> QED
    BY <2>1, <2>2
<1>2. CASE MAAPI_Main
  <2>1. connMode = "HTTP" /\ task # "NONE"
    BY <1>2, HttpModeKept, MainRuns
  <2>2. CASE MATASK_HTTP_GetPost
    <3>1. ASSUME Request \/ Header PROVE task' = task
      <4>1. Request => task' = task
        BY PartsList DEF Request, Says_
      <4>2. Header => task' = task
        <5>1. ASSUME NEW bytes, AfterReply(bytes) PROVE task' = task
          BY <5>1, PartsList DEF AfterReply, api
        <5>2. HeaderRead \/ PageTakenForHeader => task' = task
          BY <5>1, Zenon DEF HeaderRead, PageTakenForHeader
        <5> QED
          BY <5>2, PartsList DEF Header
      <4> QED
        BY <3>1, <4>1, <4>2
    <3>2. ASSUME Page PROVE task' = task \/ full'
      <4>1. \/ UNCHANGED <<task, param, cutCmd, error, tcpClosed, smtpSender, bios>>
            \/ Command("DATA", sockets[0], "empty", 110)
            \/ Overflow(recvChunk)
        BY <3>2, Zenon DEF Page
      <4>2. Overflow(recvChunk) => full'
        BY DEF Overflow, KeepRest
      <4> QED
        BY <4>1, <4>2, PartsList
    <3>3. ASSUME PageEnds PROVE connMode' = "PPP"
      BY <3>3 DEF PageEnds
    <3>4. ASSUME HttpTrouble PROVE connMode' = "PPP" \/ task' = task
      BY <3>4, PartsList DEF HttpTrouble
    <3>5. ASSUME NEW cmd, NEW text, NEW step, Command(cmd, 0, text, step) PROVE task' = task
      BY <3>5, PartsList
    <3> QED
      BY <2>1, <2>2, <3>1, <3>2, <3>3, <3>4, <3>5 DEF MATASK_HTTP_GetPost
  <2>3. CASE ~MATASK_HTTP_GetPost
    <3>1. task # HttpTask
      BY <1>2, <2>3, TasksOf DEF MAAPI_Main, MailTasks, TcpTasks, SettingsTasks
    <3>2. task = "TCP_CUT"
      BY <2>1, <3>1, RunsInEach DEF TaskInv, ModeInv, IInv, TypeOK, TypeRun, AllTasks, MailTasks
    <3>3. MATASK_TCP_Cut
      BY <1>2, <3>2, TasksOf DEF MAAPI_Main, SocketTasks, MailTasks, SettingsTasks, MATASK_TCP_Connect,
         MATASK_TCP_Disconnect, MATASK_TCP_SendRecv, MATASK_GetHostAddress, MATASK_Offline, MATASK_HTTP_GetPost, Runs
    <3> QED
      BY <2>1, <3>2, <3>3, PartsList DEF MATASK_TCP_Cut
  <2> QED
    BY <2>2, <2>3
<1>3. CASE Answer
  <2>1. UNCHANGED <<task, connMode, full>>
    BY <1>3, AnswersStay DEF Answer, MA_ProcessRecvPacket, SettingsAnswers, api
  <2> QED
    BY <2>1 DEF RestFull, Idle
<1>4. CASE ServerCloses \/ UNCHANGED vars
  BY <1>4 DEF ServerCloses, vars, socketVars, api, flags, RestFull, Idle
<1>5. CASE Leaves
  BY <1>5 DEF Leaves, SessionEnds
<1> QED
  BY <1>1, <1>2, <1>3, <1>4, <1>5 DEF Next

\* ListedIsOpen: when no call runs, what the list has is open, and MAU_Socket_GetNum
\* counts it. The moments "refused" are those at which MA_HTTP_Get or MA_HTTP_Post
\* is refused while its session waits for a buffer.
THEOREM SessionsListedIsOpen ==
  ASSUME MaxHeld <= 1, "unstored" \notin Risks, "refused" \notin Risks
  PROVE  Spec => []ListedIsOpen
<1>1. TaskInv /\ ConnInv /\ RestFull => ListedIsOpen
  <2> SUFFICES ASSUME TaskInv, ConnInv, RestFull, Idle, ~full
               PROVE  Used \subseteq open /\ MAU_Socket_GetNum = Cardinality(Used)
    BY DEF ListedIsOpen
  <2>1. TypeList /\ SlotList /\ RestList /\ task = "NONE" /\ connMode \in {"OFFLINE", "PPP", "SMTP", "POP3"}
    BY DEF ConnInv, ListInv, TaskInv, IInv, TypeOK, TypeList, RestFull, Idle
  <2>2. Used = IF usedSockets[0] THEN {sockets[0]} ELSE {}
    BY <2>1, UsedSlot0 DEF SlotList
  <2>3. Used \subseteq open
    BY <2>1, <2>2 DEF SlotList, RestList, InSlot0
  <2>4. {i \in Slots : usedSockets[i]} = IF usedSockets[0] THEN {0} ELSE {}
    <3>1. Slots = {0, 1}
      BY DEF Slots, NUM_SOCKETS
    <3>2. ~usedSockets[1]
      BY <2>1 DEF SlotList
    <3> QED
      BY <3>1, <3>2
  <2>5. MAU_Socket_GetNum = Cardinality(Used)
    <3>1. CASE usedSockets[0]
      <4>1. Used = {sockets[0]} /\ {i \in Slots : usedSockets[i]} = {0}
        BY <2>2, <2>4, <3>1
      <4>2. Cardinality({sockets[0]}) = 1 /\ Cardinality({0}) = 1
        BY FS_Singleton, Zenon
      <4> QED
        BY <4>1, <4>2, Zenon DEF MAU_Socket_GetNum
    <3>2. CASE ~usedSockets[0]
      <4>1. Used = {} /\ {i \in Slots : usedSockets[i]} = {}
        BY <2>2, <2>4, <3>2
      <4> QED
        BY <4>1, Zenon DEF MAU_Socket_GetNum
    <3> QED
      BY <3>1, <3>2
  <2> QED
    BY <2>3, <2>5
<1>2. Init => RestFull
  BY DEF Init, SocketsInit, RestFull
<1>3. Spec => []BodyInv
  BY BodiesInit, BodyInvKept, TaskInvAlways, PTL DEF Spec
<1>4. TaskInv /\ BodyInv /\ RestFull /\ [Next]_vars => RestFull'
  BY RestFullKept
<1> QED
  BY <1>1, <1>2, <1>3, <1>4, ConnInvAlways, TaskInvAlways, PTL DEF Spec

==============================================================================
