------------------------------ MODULE SessionsMail ------------------------------
(***************************************************************************)
(* What is said in a mail session, for every set of connections, every cut *)
(* of the replies and every size of mail: no server hears what it does not *)
(* wait for, and between two calls the server is where the library takes   *)
(* it to be.                                                               *)
(***************************************************************************)
EXTENDS SessionsLists

----------------------------------------------------------------------------
(* Where a mail task is in its dialogue, and what is out and due then.     *)

\* The task has said what the server waits for, which then owes o and waits for q.
Posing(o, q) == busy /\ due = "nothing" /\ <<Peer0, sendText, o, q>> \in MailDialogue

\* The server waits for q, and its reply to the line before is there, or to come.
Replying(q) ==
  /\ Peer0 = q /\ (busy => sendText = "empty")
  /\ due = IF ~busy /\ recvChunk.line \in {"good", "bad"} THEN "nothing" ELSE "reply"

\* The step a mail task is at, or goes to when its DATA command is answered.
Doing == IF task = "SMTP_SEND" /\ taskStep = 50 THEN mail.next ELSE taskStep

\* The steps at which a task reads a reply line, and what the server waits for then.
Questions == {"POP3_STAT", "POP3_LIST", "POP3_DELE"}

Awaits(t, s, q) ==
  \/ t = "SMTP_CONNECT" /\ s = 3 /\ q = "smtp"
  \/ t = "SMTP_CONNECT" /\ s = 4 /\ q = "smtp_ready"
  \/ t = "SMTP_SENDER" /\ s = 1 /\ q = "smtp_from"
  \/ t = "SMTP_SENDER" /\ s = 3 /\ q = "smtp_to"
  \/ t = "SMTP_SEND" /\ s = 101 /\ q = "smtp_text"
  \/ t = "SMTP_SEND" /\ s = 2 /\ q = "smtp_ready"
  \/ t = "POP3_CONNECT" /\ s = 3 /\ q = "pop3"
  \/ t = "POP3_CONNECT" /\ s = 4 /\ q = "pop3_user"
  \/ t = "POP3_CONNECT" /\ s = 5 /\ q = "pop3_ready"
  \/ t \in Questions /\ s = 1 /\ q = "pop3_ready"
  \/ t \in Quits /\ s = 1 /\ q = "bye"
  \/ t = "OFFLINE" /\ s = 101 /\ q = "bye"

\* The steps at which nothing is out or due, and what the server may wait for.
Leavable == {"smtp_ready", "smtp_to", "pop3_ready"}

AllStops == {{"smtp_ready"}, {"smtp_from", "smtp_to"}, {"smtp_to"}, {"smtp_text"}, {"pop3_ready"}, Leavable}

Stops(t, s, q) ==
  \/ t = "SMTP_CONNECT" /\ s = 5 /\ q = {"smtp_ready"}
  \/ t = "SMTP_SENDER" /\ s = 0 /\ q = {"smtp_ready"}
  \/ t = "SMTP_SENDER" /\ s = 2 /\ mail.left # 0 /\ q = {"smtp_from", "smtp_to"}
  \/ t = "SMTP_SENDER" /\ s = 2 /\ mail.left = 0 /\ q = {"smtp_to"}
  \/ t = "SMTP_SENDER" /\ s = 4 /\ q = {"smtp_to"}
  \/ t = "SMTP_SEND" /\ s = 0 /\ smtpSender /\ q = {"smtp_to"}
  \/ t = "SMTP_SEND" /\ s = 0 /\ ~smtpSender /\ q = {"smtp_text"}
  \/ t = "SMTP_SEND" /\ s = 100 /\ q = {"smtp_to"}
  \/ t = "SMTP_SEND" /\ s = 3 /\ mail.last /\ q = {"smtp_ready"}
  \/ t = "POP3_CONNECT" /\ s = 6 /\ q = {"pop3_ready"}
  \/ t \in Questions /\ s \in {0, 2, 100} /\ q = {"pop3_ready"}
  \/ t = "POP3_RETR" /\ s \in {0, 100} /\ q = {"pop3_ready"}
  \/ t \in Quits /\ s = 0 /\ q = Leavable
  \/ t = "OFFLINE" /\ s = 100 /\ q = Leavable

\* A piece of a letter is said, or comes next.
Texts == task = "SMTP_SEND" /\ (Doing = 1 \/ (Doing = 3 /\ ~mail.last))

\* A mail is being said, or has been; the last byte that has come is the last
\* one said.
Mailing  == Peer0 = "pop3_ready" /\ due \in {"nothing", "mail", "body"} /\ (due # "nothing" => sent < MailLen)
LastByte == recvChunk.bytes # <<>> => recvChunk.bytes[Len(recvChunk.bytes)] = sent

RetrTalk ==
  task = "POP3_RETR" =>
    /\ taskStep = 0 => sent = 0
    /\ taskStep = 1 => (Posing("mail", "pop3_ready") /\ sent = 0) \/ (Mailing /\ (busy => sendText = "empty"))
    /\ taskStep = 1 => LastByte

LetterState == [none |-> "smtp_ready", addressed |-> "smtp_to", begun |-> "smtp_text"]

RestTalk ==
  Idle =>
    /\ connMode = "SMTP" => Ready({LetterState[letter]})
    /\ connMode = "POP3" => Mailing /\ (~full => due = "nothing") /\ (full => LastByte)

MailTalk ==
  /\ \A q \in Waits : Awaits(task, Doing, q) => Posing("reply", q) \/ Replying(q)
  /\ \A q \in AllStops : Stops(task, taskStep, q) => Ready(q)
  /\ Texts => Posing("nothing", "smtp_text") \/ Ready({"smtp_text"})
  /\ RetrTalk /\ RestTalk

\* What the tasks and the game know, whatever the server does: a line that is
\* being read is not whole yet; a letter is addressed before it is begun.
KnowsLine == (\E q \in Waits : Awaits(task, Doing, q)) => prevBuf.line \in {"none", "part"}

KnowsGame ==
  /\ task = "SMTP_CONNECT" => letter = "none"
  /\ task = "SMTP_SENDER" => letter = "none" /\ (taskStep \in {0, 1} => mail.left # 0)
  /\ task = "SMTP_SEND" =>
       /\ letter # "none" /\ (taskStep = 0 => (smtpSender <=> letter = "addressed"))
       /\ (taskStep \notin {0, 241} => ~smtpSender) /\ (Doing = 2 => mail.last)
       /\ taskStep = 50 /\ mail.next = 3 => ~mail.last
  /\ task = "POP3_RETR" /\ taskStep = 0 => mail.text # "empty"
  /\ Idle /\ connMode = "SMTP" /\ letter # "none" => (smtpSender <=> letter = "addressed")

\* What is out will be understood.
Understood ==
  busy /\ sendCmd = "DATA" /\ sendSocket \in open => Heard(sendSocket, sendText).waits # "confused"

Talk == Understood /\ KnowsLine /\ (There => MailTalk)

TalkInv == Sequenced /\ (task # HttpTask => Understood) /\ KnowsLine /\ KnowsGame /\ (There => MailTalk)

LEMMA HttpClients ==
  ASSUME NEW c \in {"plain", "authorization", "id"}
  PROVE  \A p, t, o, w : <<p, t, o, w>> \in HttpDialogue(c) => p \in HttpWaits
<1>1. \A p, t, o, w, q, u, v, x : <<p, t, o, w>> = <<q, u, v, x>> => p = q
  OBVIOUS
<1> SUFFICES ASSUME NEW p, NEW t, NEW o, NEW w, <<p, t, o, w>> \in HttpDialogue(c) PROVE p \in HttpWaits
  OBVIOUS
<1> DEFINE l == WithLength[c]
<1>2. HttpDialogue(c) =
        {<<"http", "GET", "nothing", "http_get">>, <<"http", "POST", "nothing", "http_post">>,
         <<"http_get", "path", "nothing", "http_get">>, <<"http_post", "path", "nothing", "http_post">>,
         <<"http_get", c, "page", "http_answer">>, <<"http_post", c, "page", "http_answer">>,
         <<"http_post", l, "nothing", "http_content">>, <<"http_content", "text", "nothing", "http_content">>,
         <<"http_content", "end", "page", "http_answer">>}
  BY DEF HttpDialogue
<1> HIDE DEF l
<1> QED
  BY <1>1, <1>2 DEF HttpWaits

----------------------------------------------------------------------------
(* What a mail server hears.                                               *)

\* What a mail server owes and waits for is known by the text alone.
After ==
  [HELO |-> "smtp_ready", MAIL |-> "smtp_from", RCPT |-> "smtp_to", DATA |-> "smtp_text", text |-> "smtp_text",
   end |-> "smtp_ready", USER |-> "pop3_user", PASS |-> "pop3_ready", RETR |-> "pop3_ready", TOP |-> "pop3_ready",
   STAT |-> "pop3_ready", LIST |-> "pop3_ready", DELE |-> "pop3_ready", QUIT |-> "bye"]

Owed(t) == IF t = "text" THEN "nothing" ELSE IF t \in {"RETR", "TOP"} THEN "mail" ELSE "reply"

Means(t, o, w) == t \in DOMAIN After /\ o = Owed(t) /\ w = After[t]

MailPeers == {"smtp", "smtp_ready", "smtp_from", "smtp_to", "smtp_text", "pop3", "pop3_user", "pop3_ready"}

LEMMA MailTexts ==
  /\ \A p, t, o, w : <<p, t, o, w>> \in MailDialogue => p \in MailPeers /\ Means(t, o, w)
  /\ \A t, o, w, a, b : Means(t, o, w) /\ Means(t, a, b) => a = o /\ b = w
  /\ \A t, o, w : Means(t, o, w) => t # "empty" /\ w \notin {"own", "confused", "closed"} /\ o \in {"nothing", "reply", "mail"}
<1>1. \A p, t, o, w, q, u, v, x : <<p, t, o, w>> = <<q, u, v, x>> => p = q /\ t = u /\ o = v /\ w = x
  OBVIOUS
<1>5. /\ Means("HELO", "reply", "smtp_ready") /\ Means("MAIL", "reply", "smtp_from")
      /\ Means("RCPT", "reply", "smtp_to") /\ Means("DATA", "reply", "smtp_text")
      /\ Means("text", "nothing", "smtp_text") /\ Means("end", "reply", "smtp_ready")
      /\ Means("USER", "reply", "pop3_user") /\ Means("PASS", "reply", "pop3_ready")
      /\ Means("RETR", "mail", "pop3_ready") /\ Means("TOP", "mail", "pop3_ready")
      /\ (\A c \in MailCommands : Means(c, "reply", "pop3_ready")) /\ Means("QUIT", "reply", "bye")
  BY DEF Means, After, Owed, MailCommands
<1>2. ASSUME NEW p, NEW t, NEW o, NEW w, <<p, t, o, w>> \in MailDialogue PROVE p \in MailPeers /\ Means(t, o, w)
  <2> DEFINE Letter == {<<"smtp", "HELO", "reply", "smtp_ready">>, <<"smtp_ready", "MAIL", "reply", "smtp_from">>,
                        <<"smtp_from", "RCPT", "reply", "smtp_to">>, <<"smtp_to", "RCPT", "reply", "smtp_to">>,
                        <<"smtp_to", "DATA", "reply", "smtp_text">>, <<"smtp_text", "text", "nothing", "smtp_text">>,
                        <<"smtp_text", "end", "reply", "smtp_ready">>}
             Box    == {<<"pop3", "USER", "reply", "pop3_user">>, <<"pop3_user", "PASS", "reply", "pop3_ready">>,
                        <<"pop3_ready", "RETR", "mail", "pop3_ready">>, <<"pop3_ready", "TOP", "mail", "pop3_ready">>}
             Asked  == {<<"pop3_ready", c, "reply", "pop3_ready">> : c \in MailCommands}
             Left   == {<<s, "QUIT", "reply", "bye">> : s \in {"smtp", "smtp_ready", "smtp_from", "smtp_to",
                                                               "pop3", "pop3_user", "pop3_ready"}}
             d      == <<p, t, o, w>>
  <2>1. CASE d \in Asked
    <3>1. PICK c \in MailCommands : d = <<"pop3_ready", c, "reply", "pop3_ready">>
      BY <2>1
    <3>2. p = "pop3_ready" /\ t = c /\ o = "reply" /\ w = "pop3_ready"
      BY <1>1, <3>1, Zenon
    <3> QED
      BY <1>5, <3>2 DEF MailPeers
  <2>2. CASE d \in Left
    <3>1. PICK s \in {"smtp", "smtp_ready", "smtp_from", "smtp_to", "pop3", "pop3_user", "pop3_ready"} :
            d = <<s, "QUIT", "reply", "bye">>
      BY <2>2
    <3>2. p = s /\ t = "QUIT" /\ o = "reply" /\ w = "bye"
      BY <1>1, <3>1, Zenon
    <3> QED
      BY <1>5, <3>1, <3>2 DEF MailPeers
  <2>3. CASE d \in Letter
    BY <1>1, <1>5, <2>3 DEF MailPeers
  <2>4. CASE d \in Box
    BY <1>1, <1>5, <2>4 DEF MailPeers
  <2>5. MailDialogue = Letter \cup Box \cup Asked \cup Left
    BY DEF MailDialogue
  <2> HIDE DEF Letter, Box, Asked, Left
  <2> QED
    BY <1>2, <2>1, <2>2, <2>3, <2>4, <2>5
<1>3. \A t, o, w, a, b : Means(t, o, w) /\ Means(t, a, b) => a = o /\ b = w
  BY DEF Means
<1>4. \A t, o, w : Means(t, o, w) => t # "empty" /\ w \notin {"own", "confused", "closed"} /\ o \in {"nothing", "reply", "mail"}
  <2>1. DOMAIN After = {"HELO", "MAIL", "RCPT", "DATA", "text", "end", "USER", "PASS", "RETR", "TOP", "STAT", "LIST", "DELE", "QUIT"}
    BY DEF After
  <2>2. \A t \in DOMAIN After : After[t] \notin {"own", "confused", "closed"}
    <3>1. After["HELO"] \notin {"own", "confused", "closed"} /\ After["MAIL"] \notin {"own", "confused", "closed"}
          /\ After["RCPT"] \notin {"own", "confused", "closed"} /\ After["DATA"] \notin {"own", "confused", "closed"}
          /\ After["text"] \notin {"own", "confused", "closed"} /\ After["end"] \notin {"own", "confused", "closed"}
          /\ After["USER"] \notin {"own", "confused", "closed"} /\ After["PASS"] \notin {"own", "confused", "closed"}
          /\ After["QUIT"] \notin {"own", "confused", "closed"}
      BY DEF After
    <3>2. After["RETR"] \notin {"own", "confused", "closed"} /\ After["TOP"] \notin {"own", "confused", "closed"}
          /\ After["STAT"] \notin {"own", "confused", "closed"} /\ After["LIST"] \notin {"own", "confused", "closed"}
          /\ After["DELE"] \notin {"own", "confused", "closed"}
      BY DEF After
    <3> QED
      BY <2>1, <3>1, <3>2
  <2>3. \A t \in DOMAIN After : t # "empty" /\ Owed(t) \in {"nothing", "reply", "mail"}
    BY <2>1 DEF Owed
  <2> QED
    BY <2>2, <2>3 DEF Means
<1> QED
  BY <1>2, <1>3, <1>4

\* A mail server that hears what it waits for, when nothing is due.
LEMMA MailHears ==
  ASSUME TypeAdapter, due = "nothing", NEW id, NEW p, peer[id] = p,
         NEW t, NEW o, NEW w, <<p, t, o, w>> \in MailDialogue
  PROVE  Heard(id, t).owes = o /\ Heard(id, t).waits = w
<1>0. p \in MailPeers /\ Means(t, o, w)
  BY MailTexts
<1>1. p \in MailPeers /\ Means(t, o, w) /\ p \notin HttpWaits /\ p # "own" /\ t # "empty"
  BY <1>0, MailTexts DEF MailPeers, HttpWaits
<1>2. \A a, b : <<p, t, a, b>> \in MailDialogue => a = o /\ b = w
  BY <1>1, MailTexts
<1> DEFINE c == Credentials[answered + 1]
<1>3. answered < 3 => c \in {"plain", "authorization", "id"}
  BY DEF Credentials, TypeAdapter
<1>4. Dialogue = MailDialogue \cup (IF answered < 3 THEN HttpDialogue(c) ELSE {})
  BY DEF Dialogue
<1> HIDE DEF c
<1>5. \A a, b : answered < 3 /\ <<p, t, a, b>> \in HttpDialogue(c) => FALSE
  <2> SUFFICES ASSUME NEW a, NEW b, answered < 3, <<p, t, a, b>> \in HttpDialogue(c) PROVE FALSE
    OBVIOUS
  <2> QED
    BY <1>1, <1>3, HttpClients
<1>6. \A a, b : <<p, t, a, b>> \in Dialogue => a = o /\ b = w
  BY <1>2, <1>4, <1>5
<1>7. \A d \in Dialogue : d = <<d[1], d[2], d[3], d[4]>>
  BY <1>3, <1>4, MailEntries, HttpEntries
<1>8. <<p, t, o, w>> \in Dialogue
  BY <1>4
<1> QED
  BY <1>1, <1>6, <1>7, <1>8, OneAnswer

LEMMA QuietHears ==
  ASSUME NEW id, peer[id] # "own"
  PROVE  Heard(id, "empty").owes = due /\ Heard(id, "empty").waits = peer[id]
BY DEF Heard

\* A server that hears nothing, or what it waits for, is not confused.
LEMMA HeardWell ==
  ASSUME TypeAdapter, NEW id, NEW t, peer[id] # "confused",
         \/ t = "empty"
         \/ peer[id] = "own"
         \/ due = "nothing" /\ \E o, w : <<peer[id], t, o, w>> \in MailDialogue
  PROVE  Heard(id, t).waits # "confused"
<1>1. CASE peer[id] = "own"
  BY <1>1 DEF Heard
<1>2. CASE t = "empty" /\ peer[id] # "own"
  BY <1>2, QuietHears
<1>3. ASSUME due = "nothing", NEW o, NEW w, <<peer[id], t, o, w>> \in MailDialogue
      PROVE  Heard(id, t).waits # "confused"
  <2>1. Heard(id, t).waits = w
    BY <1>3, MailHears
  <2>2. Means(t, o, w)
    BY <1>3, MailTexts
  <2> QED
    BY <2>1, <2>2, MailTexts
<1> QED
  BY <1>1, <1>2, <1>3

----------------------------------------------------------------------------
(* The places of the mail dialogue.                                        *)

\* A place is one of a kind: a line awaited, a stop, a piece of a letter, a mail.
LEMMA AwaitsOnce ==
  \A t, s, q : Awaits(t, s, q) =>
    /\ \A r : Awaits(t, s, r) => r = q
    /\ q \in Waits \ {"own", "confused", "closed"}
    /\ t \in (MailTasks \ {"POP3_RETR"}) \cup {"OFFLINE"} /\ s \in {1, 2, 3, 4, 5, 101}
    /\ t = "SMTP_SEND" => s \in {2, 101}
    /\ t = "SMTP_SENDER" => s \in {1, 3}
    /\ t \in Questions \cup Quits => s = 1
    /\ t = "SMTP_CONNECT" => s \in {3, 4}
    /\ t = "POP3_CONNECT" => s \in {3, 4, 5}
    /\ t = "OFFLINE" => s = 101
<1> USE DEF Awaits, Questions, Quits
<1>1. \A t, s, q, r : Awaits(t, s, q) /\ Awaits(t, s, r) => r = q
  OBVIOUS
<1>2. \A t, s, q : Awaits(t, s, q) => q \in Waits \ {"own", "confused", "closed"}
  BY DEF Waits
<1>3. \A t, s, q : Awaits(t, s, q) => t \in (MailTasks \ {"POP3_RETR"}) \cup {"OFFLINE"} /\ s \in {1, 2, 3, 4, 5, 101}
  BY DEF MailTasks
<1>4. \A t, s, q : Awaits(t, s, q) =>
        /\ t = "SMTP_SEND" => s \in {2, 101}
        /\ t = "SMTP_SENDER" => s \in {1, 3}
        /\ t \in Questions \cup Quits => s = 1
        /\ t = "SMTP_CONNECT" => s \in {3, 4}
        /\ t = "POP3_CONNECT" => s \in {3, 4, 5}
        /\ t = "OFFLINE" => s = 101
  OBVIOUS
<1> QED
  BY <1>1, <1>2, <1>3, <1>4

LEMMA StopsOnce ==
  /\ \A q, r : Stops(task, taskStep, q)' /\ Stops(task, taskStep, r)' => r = q
  /\ \A q : Stops(task, taskStep, q)' =>
       /\ task' \in MailTasks \cup {"OFFLINE"} /\ taskStep' \in {0, 2, 3, 4, 5, 6, 100}
       /\ task' = "SMTP_SEND" => taskStep' \in {0, 100} \/ (taskStep' = 3 /\ mail'.last)
       /\ task' = "SMTP_SENDER" => taskStep' \in {0, 2, 4}
       /\ task' \in Questions => taskStep' \in {0, 2, 100}
       /\ task' = "POP3_RETR" => taskStep' \in {0, 100}
       /\ task' \in Quits => taskStep' = 0
       /\ task' = "SMTP_CONNECT" => taskStep' = 5
       /\ task' = "POP3_CONNECT" => taskStep' = 6
       /\ task' = "OFFLINE" => taskStep' = 100
<1> USE DEF Stops, Questions, Quits
<1>1. \A q, r : Stops(task, taskStep, q)' /\ Stops(task, taskStep, r)' => r = q
  OBVIOUS
<1>2. \A q : Stops(task, taskStep, q)' =>
       /\ task' \in MailTasks \cup {"OFFLINE"} /\ taskStep' \in {0, 2, 3, 4, 5, 6, 100}
  BY DEF MailTasks
<1>3. \A q : Stops(task, taskStep, q)' =>
       /\ task' = "SMTP_SEND" => taskStep' \in {0, 100} \/ (taskStep' = 3 /\ mail'.last)
       /\ task' = "SMTP_SENDER" => taskStep' \in {0, 2, 4}
       /\ task' \in Questions => taskStep' \in {0, 2, 100}
       /\ task' = "POP3_RETR" => taskStep' \in {0, 100}
       /\ task' \in Quits => taskStep' = 0
       /\ task' = "SMTP_CONNECT" => taskStep' = 5
       /\ task' = "POP3_CONNECT" => taskStep' = 6
       /\ task' = "OFFLINE" => taskStep' = 100
  OBVIOUS
<1> QED
  BY <1>1, <1>2, <1>3

LEMMA LineTalks ==
  ASSUME NEW q, Awaits(task, Doing, q)', There' => Posing("reply", q)' \/ Replying(q)', Understood',
         prevBuf'.line \in {"none", "part"}
  PROVE  Talk'
<1>1. /\ Awaits(task', Doing', q) /\ (\A r : Awaits(task', Doing', r) => r = q) /\ task' # "POP3_RETR" /\ task' # "NONE"
      /\ (task' = "SMTP_SEND" => Doing' \in {2, 101})
  BY AwaitsOnce DEF MailTasks
<1>2. \A r : ~Stops(task, taskStep, r)'
  <2>1. Doing' = IF task' = "SMTP_SEND" /\ taskStep' = 50 THEN mail'.next ELSE taskStep'
    BY DEF Doing
  <2>2. CASE task' = "SMTP_SEND"
    BY <1>1, <2>1, <2>2, StopsOnce
  <2>3. CASE task' # "SMTP_SEND"
    <3>1. Doing' = taskStep'
      BY <2>1, <2>3
    <3>2. Awaits(task', taskStep', q)
      BY <1>1, <3>1
    <3> QED
      BY <2>3, <3>2, AwaitsOnce, StopsOnce DEF MailTasks, Questions, Quits
  <2> QED
    BY <2>2, <2>3
<1>3. There' => MailTalk'
  <2> SUFFICES ASSUME There' PROVE MailTalk'
    OBVIOUS
  <2>1. \A r \in Waits : Awaits(task, Doing, r)' => Posing("reply", r)' \/ Replying(r)'
    BY <1>1
  <2>2. ~Texts'
    BY <1>1 DEF Texts
  <2>3. RetrTalk' /\ RestTalk'
    BY <1>1 DEF RetrTalk, RestTalk, Idle
  <2> QED
    BY <1>2, <2>1, <2>2, <2>3 DEF MailTalk
<1> QED
  BY <1>3 DEF Talk, KnowsLine

LEMMA StopTalks ==
  ASSUME NEW Q, Stops(task, taskStep, Q)', There' => Ready(Q)', ~busy',
         task' = "POP3_RETR" /\ taskStep' = 0 => sent' = 0
  PROVE  Talk'
<1>1. /\ \A r : Stops(task, taskStep, r)' => r = Q
      /\ task' # "NONE" /\ (task' = "SMTP_SEND" => taskStep' \in {0, 100} \/ (taskStep' = 3 /\ mail'.last))
      /\ task' = "POP3_RETR" => taskStep' # 1
  BY StopsOnce DEF MailTasks
<1>2. Doing' = taskStep'
  BY <1>1 DEF Doing
<1>3. \A r : ~Awaits(task', taskStep', r)
  BY AwaitsOnce, StopsOnce DEF MailTasks, Questions, Quits
<1>4. KnowsLine' /\ Understood'
  BY <1>2, <1>3 DEF KnowsLine, Understood
<1>5. There' => MailTalk'
  <2> SUFFICES ASSUME There' PROVE MailTalk'
    OBVIOUS
  <2>1. ~Texts'
    BY <1>1, <1>2 DEF Texts
  <2>2. RetrTalk' /\ RestTalk'
    BY <1>1 DEF RetrTalk, RestTalk, Idle
  <2> QED
    BY <1>1, <1>2, <1>3, <2>1, <2>2 DEF MailTalk
<1> QED
  BY <1>4, <1>5 DEF Talk

LEMMA TextTalks ==
  ASSUME Texts', There' => Posing("nothing", "smtp_text")' \/ Ready({"smtp_text"})', Understood'
  PROVE  Talk'
<1>1. task' = "SMTP_SEND" /\ (Doing' = 1 \/ (Doing' = 3 /\ ~mail'.last))
  BY DEF Texts
<1>2. \A r : ~Awaits(task', Doing', r)
  BY <1>1, AwaitsOnce
<1>3. taskStep' \in {1, 50} \/ (taskStep' = 3 /\ ~mail'.last)
  BY <1>1 DEF Doing
<1>4. \A r : ~Stops(task, taskStep, r)'
  BY <1>1, <1>3, StopsOnce
<1>5. RetrTalk' /\ RestTalk'
  BY <1>1 DEF RetrTalk, RestTalk, Idle
<1> QED
  BY <1>2, <1>4, <1>5 DEF Talk, KnowsLine, MailTalk

LEMMA RetrTalks ==
  ASSUME task' = "POP3_RETR", taskStep' = 1, There' => RetrTalk', Understood'
  PROVE  Talk'
<1>1. Doing' = 1
  BY DEF Doing
<1>2. \A r : ~Awaits(task', Doing', r)
  BY AwaitsOnce
<1>3. \A r : ~Stops(task, taskStep, r)'
  BY StopsOnce
<1>4. ~Texts' /\ RestTalk'
  BY DEF Texts, RestTalk, Idle
<1> QED
  BY <1>2, <1>3, <1>4 DEF Talk, KnowsLine, MailTalk

LEMMA RestTalks_ ==
  ASSUME task' = "NONE", There' => RestTalk', ~busy'
  PROVE  Talk'
<1>1. \A r : ~Awaits(task', Doing', r)
  BY AwaitsOnce DEF MailTasks
<1>2. \A r : ~Stops(task, taskStep, r)'
  BY StopsOnce DEF MailTasks
<1>3. ~Texts' /\ RetrTalk'
  BY DEF Texts, RetrTalk
<1> QED
  BY <1>1, <1>2, <1>3 DEF Talk, KnowsLine, MailTalk, Understood

\* Nowhere in it.
Elsewhere ==
  \/ task = "NONE" /\ connMode \notin {"SMTP", "POP3"}
  \/ task \notin MailTasks \cup {"OFFLINE", "NONE"}
  \/ task \in MailTasks /\ taskStep \in {240, 241}
  \/ task \in Quits /\ taskStep \in {2, 3}
  \/ task \in Connects /\ taskStep \in {0, 1, 2}
  \/ task = "OFFLINE" /\ taskStep \in (0..3) \cup {102, 103}

LEMMA ElsewhereTalks ==
  ASSUME Elsewhere'
  PROVE  KnowsLine' /\ MailTalk' /\ (Understood' => Talk') /\ (~busy' \/ sendCmd' # "DATA" => Talk')
<1> USE DEF Elsewhere, Connects, Quits
<1>1. Doing' = taskStep'
  BY DEF Doing, MailTasks
<1>2. \A r : ~Awaits(task', taskStep', r)
  BY AwaitsOnce DEF MailTasks, Questions
<1>3. \A r : ~Stops(task, taskStep, r)'
  BY StopsOnce DEF MailTasks, Questions
<1>4. ~Texts' /\ RetrTalk'
  BY <1>1 DEF Texts, RetrTalk, MailTasks
<1>5. RestTalk'
  BY DEF RestTalk, Idle, MailTasks
<1>6. KnowsLine' /\ MailTalk'
  BY <1>1, <1>2, <1>3, <1>4, <1>5 DEF KnowsLine, MailTalk
<1>7. ~busy' \/ sendCmd' # "DATA" => Understood'
  BY DEF Understood
<1> QED
  BY <1>6, <1>7 DEF Talk

----------------------------------------------------------------------------
(* What the steps of a mail task say and read.                             *)

\* A text said to a server that waits for it, and owes nothing, is understood.
LEMMA SentWell ==
  ASSUME TypeAdapter, Sequenced, UNCHANGED adapter, NEW s, NEW text, NEW step, Command("DATA", s, text, step),
         s \in open => text = "empty" \/ (due = "nothing" /\ \E o, w : <<peer[s], text, o, w>> \in MailDialogue)
  PROVE  Understood'
<1>1. sendSocket' = s /\ sendText' = text /\ UNCHANGED <<peer, due, answered>>
  BY PartsList DEF adapter
<1>2. open' = open /\ (s \in open => s \in Ids)
  BY <1>1 DEF open
<1>3. Heard(sendSocket, sendText)' = Heard(s, text)
  <2>1. Dialogue' = Dialogue
    BY <1>1 DEF Dialogue
  <2> QED
    BY <1>1, <2>1 DEF Heard
<1>4. s \in open => Heard(s, text).waits # "confused"
  <2> SUFFICES ASSUME s \in open PROVE Heard(s, text).waits # "confused"
    OBVIOUS
  <2>1. peer[s] # "confused"
    BY <1>2 DEF Sequenced
  <2> QED
    BY <2>1, HeardWell
<1> QED
  BY <1>1, <1>2, <1>3, <1>4 DEF Understood

\* A step of a task that uses its connection and leaves the list alone.
Attending == TaskInv /\ ConnInv /\ TalkInv /\ Uses(task, taskStep) /\ ~busy /\ UNCHANGED <<table, adapter>>

LEMMA AttendingFacts ==
  ASSUME Attending
  PROVE  /\ TypeAdapter /\ Sequenced /\ KnowsLine /\ KnowsGame /\ (There => MailTalk)
         /\ usedSockets[0] /\ (There' <=> There) /\ (There <=> sockets[0] \in open)
         /\ UNCHANGED <<peer, due, sent, sockets, adapter>> /\ Peer0' = Peer0 /\ task # "NONE"
<1>1. TypeAdapter /\ Sequenced /\ KnowsLine /\ KnowsGame /\ (There => MailTalk)
  BY DEF Attending, TaskInv, IInv, TypeOK, TalkInv
<1>2. UNCHANGED <<peer, due, sent, sockets, usedSockets, adapter>>
  BY DEF Attending, table, adapter
<1>3. usedSockets[0]
  BY DEF Attending, ConnInv, ListInv, UseList, InSlot0
<1>4. open' = open
  BY <1>2 DEF open
<1>5. task # "NONE"
  BY Phases DEF Attending
<1> QED
  BY <1>1, <1>2, <1>3, <1>4, <1>5 DEF There, Peer0

LEMMA SaysTalk ==
  ASSUME Attending, NEW Q, There => Ready(Q), NEW text, NEW step, SayLine(text, step),
         NEW w, \A p \in Q : <<p, text, "reply", w>> \in MailDialogue, Awaits(task, Doing, w)'
  PROVE  Talk'
<1>1. Command("DATA", sockets[0], text, step) /\ prevBuf'.line = "none" /\ busy' /\ sendText' = text
  BY PartsList DEF SayLine, InitPrevBuf, EmptyPrevBuf
<1>2. There => due = "nothing" /\ <<Peer0, text, "reply", w>> \in MailDialogue
  BY DEF Ready
<1>3. Understood'
  <2>1. There => <<peer[sockets[0]], text, "reply", w>> \in MailDialogue
    BY <1>2 DEF Peer0
  <2>2. sockets[0] \in open => due = "nothing" /\ \E o, v : <<peer[sockets[0]], text, o, v>> \in MailDialogue
    BY <1>2, <2>1, AttendingFacts
  <2> QED
    BY <1>1, <2>2, AttendingFacts, SentWell
<1>4. There' => Posing("reply", w)'
  BY <1>1, <1>2, AttendingFacts DEF Posing
<1> QED
  BY <1>1, <1>3, <1>4, LineTalks

\* A piece of a letter, that is not its end.
LEMMA PieceTalk ==
  ASSUME Attending, There => Ready({"smtp_text"}), NEW step, Command("DATA", sockets[0], "text", step), Texts'
  PROVE  Talk'
<1>0. <<"smtp_text", "text", "nothing", "smtp_text">> \in MailDialogue
  BY DEF MailDialogue
<1>1. busy' /\ sendText' = "text"
  BY PartsList
<1>2. There => due = "nothing" /\ <<Peer0, "text", "nothing", "smtp_text">> \in MailDialogue
  BY <1>0 DEF Ready
<1>3. Understood'
  <2>1. There => <<peer[sockets[0]], "text", "nothing", "smtp_text">> \in MailDialogue
    BY <1>2 DEF Peer0
  <2>2. sockets[0] \in open => due = "nothing" /\ \E o, v : <<peer[sockets[0]], "text", o, v>> \in MailDialogue
    BY <1>2, <2>1, AttendingFacts
  <2> QED
    BY <2>2, AttendingFacts, SentWell
<1>4. There' => Posing("nothing", "smtp_text")'
  BY <1>1, <1>2, AttendingFacts DEF Posing
<1> QED
  BY <1>3, <1>4, TextTalks

\* What is known of a reply that is being read.
LEMMA Replies ==
  ASSUME Attending, NEW q, Awaits(task, Doing, q)
  PROVE  /\ There => Replying(q)
         /\ prevBuf.line \in {"none", "part"}
         /\ Read.line = "good" => (There => Ready({q}))
         /\ Read.line \in {"none", "part"} => (There => Peer0 = q /\ due = "reply")
<1>1. q \in Waits
  BY AwaitsOnce
<1>2. There => Replying(q)
  BY <1>1, AttendingFacts DEF MailTalk, Posing, Attending
<1>3. prevBuf.line \in {"none", "part"}
  BY <1>1, AttendingFacts DEF KnowsLine
<1>4. recvChunk.line # "none" => Read.line = recvChunk.line
  BY DEF Read, Attending, TaskInv, IInv, TypeOK, TypePrevBuf
<1>5. recvChunk.line = "none" => Read.line = prevBuf.line
  BY DEF Read
<1> QED
  BY <1>2, <1>3, <1>4, <1>5 DEF Replying, Ready, Attending

\* A reply that is not there yet, or is bad.
LEMMA ReadsTalk ==
  ASSUME Attending, NEW q, Awaits(task, taskStep, q),
         ReadOn \/ (task \in MailTasks /\ Goes(240))
  PROVE  Talk'
<1>1. Doing = taskStep
  BY AwaitsOnce DEF Doing
<1>2. Awaits(task, Doing, q)
  BY <1>1
<1>3. CASE ReadOn
  <2>1. /\ Read.line \in {"none", "part"} /\ prevBuf' = Read /\ Command("DATA", sockets[0], "empty", taskStep)
        /\ task' = task /\ taskStep' = taskStep /\ busy' /\ sendText' = "empty"
    BY <1>3, PartsList DEF ReadOn
  <2>2. Understood'
    BY <2>1, AttendingFacts, SentWell
  <2>3. There' => Replying(q)'
    BY <1>2, <2>1, AttendingFacts, Replies DEF Replying
  <2>4. Awaits(task', taskStep', q)
    BY <2>1
  <2>5. Doing' = taskStep'
    BY <2>4, AwaitsOnce DEF Doing
  <2>6. Awaits(task, Doing, q)'
    BY <2>4, <2>5
  <2> QED
    BY <2>1, <2>2, <2>3, <2>6, LineTalks
<1>4. CASE task \in MailTasks /\ Goes(240)
  <2>1. Elsewhere' /\ ~busy'
    BY <1>4, PartsList DEF Elsewhere, Attending
  <2> QED
    BY <2>1, ElsewhereTalks
<1> QED
  BY <1>3, <1>4

----------------------------------------------------------------------------
(* The mail tasks.                                                         *)

\* Ends in a mail session, with the connection as it was.
LEMMA RestsTalk ==
  ASSUME Attending, TaskDone,
         connMode' \in {"SMTP", "POP3"}, connMode' = "POP3" => ~full,
         There => Ready({IF connMode' = "SMTP" THEN LetterState[letter'] ELSE "pop3_ready"})
  PROVE  Talk'
<1>1. task' = "NONE" /\ ~busy' /\ full' = full
  BY DEF TaskDone, bios, Attending
<1>2. CASE connMode' = "SMTP"
  <2>1. There' => Ready({LetterState[letter]})'
    BY <1>1, <1>2, AttendingFacts DEF Ready
  <2>2. There' => RestTalk'
    BY <1>2, <2>1 DEF RestTalk
  <2> QED
    BY <1>1, <2>2, RestTalks_
<1>3. CASE connMode' = "POP3"
  <2>1. There' => Peer0' = "pop3_ready" /\ due' = "nothing"
    BY <1>3, AttendingFacts DEF Ready
  <2>2. There' => RestTalk'
    BY <1>1, <1>3, <2>1 DEF RestTalk, Mailing
  <2> QED
    BY <1>1, <2>2, RestTalks_
<1> QED
  BY <1>2, <1>3

\* A step that says and reads nothing, and leads to a stop.
LEMMA StopsTalk ==
  ASSUME Attending, ~busy', NEW Q, There => Ready(Q), Stops(task, taskStep, Q)', task' # "POP3_RETR" \/ taskStep' # 0
  PROVE  Talk'
<1>1. There' => Ready(Q)'
  BY AttendingFacts DEF Ready
<1> QED
  BY <1>1, StopTalks

LEMMA TroubleTalk ==
  ASSUME NEW t \in MailTasks, MailTrouble(t)
  PROVE  Talk'
<1>1. task = t /\ ~busy
  BY DEF MailTrouble, Runs
<1>2. CASE MailClosed
  BY <1>2, PartsList, ElsewhereTalks DEF MailClosed, Elsewhere
<1>3. CASE MailGivenUp
  BY <1>1, <1>3, PartsList, ElsewhereTalks DEF MailGivenUp, Elsewhere
<1>4. CASE MailFails
  BY <1>4, PartsList, ElsewhereTalks DEF MailFails, Elsewhere
<1> QED
  BY <1>2, <1>3, <1>4 DEF MailTrouble

\* A mail task that goes on uses its connection, but where it opens or closes it.
LEMMA RunsAttends ==
  ASSUME TaskInv, ConnInv, TalkInv, NEW t \in MailTasks, MailRuns(t), UNCHANGED table, Uses(t, taskStep)
  PROVE  Attending /\ task = t
BY DEF MailRuns, Runs, Attending

\* The first steps of the connect tasks.
LEMMA OpensTalk ==
  ASSUME TaskInv, ConnInv, TalkInv, NEW t \in Connects, MailRuns(t), Opens(PortOf(t))
  PROVE  Talk'
<1>0. task = t /\ ~busy /\ UNCHANGED adapter /\ ~Nega({"TCP_CONNECT"}) /\ TypeAdapter /\ Sequenced
  BY DEF MailRuns, Runs, Nega, TaskInv, IInv, TypeOK, TalkInv
<1>1. CASE Command("DNS_REQUEST", 0, "empty", 1)
  BY <1>0, <1>1, PartsList, ElsewhereTalks DEF Elsewhere, Connects
<1>2. CASE Command("TCP_CONNECT", 0, PortOf(t), 2)
  BY <1>0, <1>2, PartsList, ElsewhereTalks DEF Elsewhere, Connects
<1>3. CASE /\ At(2) /\ InitPrevBuf /\ Command("DATA", recvData, "empty", 3) /\ UNCHANGED connMode
           /\ usedSockets' = [usedSockets EXCEPT ![0] = TRUE]
           /\ sockets' = [sockets EXCEPT ![0] = recvData]
  <2>1. task' = task /\ taskStep' = 3 /\ busy' /\ sendText' = "empty" /\ prevBuf'.line = "none"
    BY <1>3, PartsList DEF InitPrevBuf, EmptyPrevBuf
  <2>2. sockets'[0] = recvData
    BY <1>3 DEF TaskInv, IInv, TypeOK, TypeList, Slots, NUM_SOCKETS
  <2>3. AwaitsConnect(task, taskStep)
    BY <1>0, <1>3 DEF AwaitsConnect, Connects, At
  <2>4. Arrived
    BY <1>0, <2>3 DEF Arrived, Nega, TaskInv, IInv, Running, Awaited, Answered
  <2>5. peer[recvData] = Ports[PortOf(t)] /\ due = "reply"
    BY <1>0, <2>3, <2>4 DEF ConnInv, HttpInv, ArrivedTalk
  <2>6. Understood'
    BY <1>0, <1>3, SentWell
  <2>7. Peer0' = Ports[PortOf(t)] /\ due' = "reply"
    BY <1>0, <2>2, <2>5 DEF Peer0, adapter
  <2>8. Doing' = 3
    BY <1>0, <2>1 DEF Doing, Connects
  <2>9. CASE t = "SMTP_CONNECT"
    <3>1. Awaits(task, Doing, "smtp")' /\ Replying("smtp")'
      BY <1>0, <2>1, <2>7, <2>8, <2>9 DEF Awaits, Replying, PortOf, Ports
    <3> QED
      BY <2>1, <2>6, <3>1, LineTalks
  <2>10. CASE t = "POP3_CONNECT"
    <3>1. Awaits(task, Doing, "pop3")' /\ Replying("pop3")'
      BY <1>0, <2>1, <2>7, <2>8, <2>10 DEF Awaits, Replying, PortOf, Ports
    <3> QED
      BY <2>1, <2>6, <3>1, LineTalks
  <2> QED
    BY <2>9, <2>10 DEF Connects
<1> QED
  BY <1>1, <1>2, <1>3 DEF Opens

\* A line read at step s of task t, after which 'text' is said at the next step.
LEMMA ReadsSays ==
  ASSUME Attending, Same, NEW s, NEW q, Awaits(task, s, q), task \in MailTasks,
         NEW text, NEW step, Reads(s, SayLine(text, step)),
         NEW w, <<q, text, "reply", w>> \in MailDialogue, Awaits(task, step, w)
  PROVE  Talk'
<1>1. taskStep = s /\ Awaits(task, taskStep, q) /\ Awaits(task, Doing, q)
  BY AwaitsOnce DEF Reads, At, Doing
<1>2. CASE ReadOn \/ Goes(240)
  BY <1>1, <1>2, ReadsTalk
<1>3. CASE Read.line = "good" /\ SayLine(text, step)
  <2>1. There => Ready({q})
    BY <1>1, <1>3, Replies
  <2>2. task' = task /\ taskStep' = step
    BY <1>3, PartsList DEF SayLine
  <2>3. Awaits(task', taskStep', w)
    BY <2>2
  <2>4. Awaits(task, Doing, w)'
    BY <2>3, AwaitsOnce DEF Doing
  <2>5. \A p \in {q} : <<p, text, "reply", w>> \in MailDialogue
    OBVIOUS
  <2> QED
    BY <1>3, <2>1, <2>4, <2>5, SaysTalk
<1> QED
  BY <1>2, <1>3 DEF Reads

\* A line read after which a step follows that says and reads nothing.
LEMMA ReadsStops ==
  ASSUME Attending, Same, NEW s, NEW q, Awaits(task, s, q), task \in MailTasks \ {"POP3_RETR"},
         NEW step, Reads(s, ReadTo(step)),
         NEW Q, q \in Q, task' = task /\ taskStep' = step => Stops(task, taskStep, Q)'
  PROVE  Talk'
<1>1. taskStep = s /\ Awaits(task, taskStep, q) /\ Awaits(task, Doing, q)
  BY AwaitsOnce DEF Reads, At, Doing
<1>2. CASE ReadOn \/ Goes(240)
  BY <1>1, <1>2, ReadsTalk
<1>3. CASE Read.line = "good" /\ ReadTo(step)
  <2>1. There => Ready(Q)
    BY <1>1, <1>3, Replies DEF Ready
  <2>2. task' = task /\ taskStep' = step /\ ~busy'
    BY <1>3, PartsList DEF ReadTo, Attending
  <2> QED
    BY <2>1, <2>2, StopsTalk
<1> QED
  BY <1>2, <1>3 DEF Reads

\* The entries of the mail dialogue the tasks rely on.
LEMMA Entries ==
  /\ <<"smtp", "HELO", "reply", "smtp_ready">> \in MailDialogue
  /\ <<"smtp_ready", "MAIL", "reply", "smtp_from">> \in MailDialogue
  /\ <<"smtp_from", "RCPT", "reply", "smtp_to">> \in MailDialogue
  /\ <<"smtp_to", "RCPT", "reply", "smtp_to">> \in MailDialogue
  /\ <<"smtp_to", "DATA", "reply", "smtp_text">> \in MailDialogue
  /\ <<"smtp_text", "end", "reply", "smtp_ready">> \in MailDialogue
  /\ <<"pop3", "USER", "reply", "pop3_user">> \in MailDialogue
  /\ <<"pop3_user", "PASS", "reply", "pop3_ready">> \in MailDialogue
  /\ <<"pop3_ready", "RETR", "mail", "pop3_ready">> \in MailDialogue
  /\ <<"pop3_ready", "TOP", "mail", "pop3_ready">> \in MailDialogue
  /\ \A c \in MailCommands : <<"pop3_ready", c, "reply", "pop3_ready">> \in MailDialogue
  /\ \A p \in Leavable : <<p, "QUIT", "reply", "bye">> \in MailDialogue
<1>1. \A c \in MailCommands : <<"pop3_ready", c, "reply", "pop3_ready">> \in MailDialogue
  BY Zenon DEF MailDialogue
<1>2. \A p \in Leavable : <<p, "QUIT", "reply", "bye">> \in MailDialogue
  <2>1. <<"smtp_ready", "QUIT", "reply", "bye">> \in MailDialogue
    BY DEF MailDialogue
  <2>2. <<"smtp_to", "QUIT", "reply", "bye">> \in MailDialogue
    BY DEF MailDialogue
  <2>3. <<"pop3_ready", "QUIT", "reply", "bye">> \in MailDialogue
    BY DEF MailDialogue
  <2> QED
    BY <2>1, <2>2, <2>3 DEF Leavable
<1>3. /\ <<"smtp", "HELO", "reply", "smtp_ready">> \in MailDialogue
      /\ <<"smtp_ready", "MAIL", "reply", "smtp_from">> \in MailDialogue
      /\ <<"smtp_from", "RCPT", "reply", "smtp_to">> \in MailDialogue
      /\ <<"smtp_to", "RCPT", "reply", "smtp_to">> \in MailDialogue
      /\ <<"smtp_to", "DATA", "reply", "smtp_text">> \in MailDialogue
      /\ <<"smtp_text", "end", "reply", "smtp_ready">> \in MailDialogue
      /\ <<"pop3", "USER", "reply", "pop3_user">> \in MailDialogue
      /\ <<"pop3_user", "PASS", "reply", "pop3_ready">> \in MailDialogue
      /\ <<"pop3_ready", "RETR", "mail", "pop3_ready">> \in MailDialogue
      /\ <<"pop3_ready", "TOP", "mail", "pop3_ready">> \in MailDialogue
  BY DEF MailDialogue
<1> QED
  BY <1>1, <1>2, <1>3

\* What a stop says of the server.
LEMMA AtStop ==
  ASSUME Attending, NEW Q \in AllStops, Stops(task, taskStep, Q)
  PROVE  There => Ready(Q)
BY AttendingFacts DEF MailTalk

LEMMA ConnectTalk ==
  ASSUME TaskInv, ConnInv, TalkInv, FullInv, MATASK_SMTP_Connect \/ MATASK_POP3_Connect
  PROVE  Talk'
<1>1. "SMTP_CONNECT" \in MailTasks /\ "POP3_CONNECT" \in MailTasks /\ "SMTP_CONNECT" \in Connects /\ "POP3_CONNECT" \in Connects
  BY DEF MailTasks, Connects
<1>2. CASE MailTrouble("SMTP_CONNECT") \/ MailTrouble("POP3_CONNECT")
  BY <1>1, <1>2, TroubleTalk
<1>3. PortOf("SMTP_CONNECT") = "SMTP" /\ PortOf("POP3_CONNECT") = "POP3"
  BY DEF PortOf
<1>4. CASE (MailRuns("SMTP_CONNECT") /\ Opens("SMTP")) \/ (MailRuns("POP3_CONNECT") /\ Opens("POP3"))
  BY <1>1, <1>3, <1>4, OpensTalk
<1>5. ASSUME NEW t \in Connects, MailRuns(t), UNCHANGED table, taskStep \in {3, 4, 5, 6}
      PROVE  Attending /\ task = t
  BY <1>5, MailPhases, RunsAttends DEF Connects, MailTasks
<1>6. CASE MailRuns("SMTP_CONNECT") /\ Reads(3, SayLine("HELO", 4))
  <2>1. Attending /\ task = "SMTP_CONNECT" /\ Same
    BY <1>1, <1>5, <1>6 DEF Reads, At, Same
  <2>2. Awaits(task, 3, "smtp") /\ Awaits(task, 4, "smtp_ready")
    BY <2>1 DEF Awaits
  <2> QED
    BY <1>1, <1>6, <2>1, <2>2, Entries, ReadsSays
<1>7. CASE MailRuns("SMTP_CONNECT") /\ Reads(4, ReadTo(5))
  <2>1. Attending /\ task = "SMTP_CONNECT" /\ Same
    BY <1>1, <1>5, <1>7 DEF Reads, At, Same
  <2>2. Awaits(task, 4, "smtp_ready")
    BY <2>1 DEF Awaits
  <2>3. task' = task /\ taskStep' = 5 => Stops(task, taskStep, {"smtp_ready"})'
    BY <2>1 DEF Stops
  <2>4. task \in MailTasks \ {"POP3_RETR"}
    BY <1>1, <2>1
  <2>5. "smtp_ready" \in {"smtp_ready"}
    OBVIOUS
  <2> QED
    BY <1>7, <2>1, <2>2, <2>3, <2>4, <2>5, ReadsStops
<1>8. CASE MailRuns("SMTP_CONNECT") /\ Opened(5, "SMTP") /\ UNCHANGED letter
  <2>1. Attending /\ task = "SMTP_CONNECT" /\ taskStep = 5
    BY <1>1, <1>5, <1>8 DEF Opened, At
  <2>2. Stops(task, taskStep, {"smtp_ready"}) /\ {"smtp_ready"} \in AllStops
    BY <2>1 DEF Stops, AllStops
  <2>3. There => Ready({"smtp_ready"})
    BY <2>1, <2>2, AtStop
  <2>4. LetterState[letter'] = "smtp_ready"
    BY <1>8, <2>1, AttendingFacts DEF KnowsGame, LetterState
  <2> QED
    BY <1>8, <2>1, <2>3, <2>4, RestsTalk DEF Opened, TaskEnds
<1>9. CASE MailRuns("POP3_CONNECT") /\ Reads(3, SayLine("USER", 4))
  <2>1. Attending /\ task = "POP3_CONNECT" /\ Same
    BY <1>1, <1>5, <1>9 DEF Reads, At, Same
  <2>2. Awaits(task, 3, "pop3") /\ Awaits(task, 4, "pop3_user")
    BY <2>1 DEF Awaits
  <2> QED
    BY <1>1, <1>9, <2>1, <2>2, Entries, ReadsSays
<1>10. CASE MailRuns("POP3_CONNECT") /\ Reads(4, SayLine("PASS", 5))
  <2>1. Attending /\ task = "POP3_CONNECT" /\ Same
    BY <1>1, <1>5, <1>10 DEF Reads, At, Same
  <2>2. Awaits(task, 4, "pop3_user") /\ Awaits(task, 5, "pop3_ready")
    BY <2>1 DEF Awaits
  <2> QED
    BY <1>1, <1>10, <2>1, <2>2, Entries, ReadsSays
<1>11. CASE MailRuns("POP3_CONNECT") /\ Reads(5, ReadTo(6))
  <2>1. Attending /\ task = "POP3_CONNECT" /\ Same
    BY <1>1, <1>5, <1>11 DEF Reads, At, Same
  <2>2. Awaits(task, 5, "pop3_ready")
    BY <2>1 DEF Awaits
  <2>3. task' = task /\ taskStep' = 6 => Stops(task, taskStep, {"pop3_ready"})'
    BY <2>1 DEF Stops
  <2>4. task \in MailTasks \ {"POP3_RETR"}
    BY <1>1, <2>1
  <2>5. "pop3_ready" \in {"pop3_ready"}
    OBVIOUS
  <2> QED
    BY <1>11, <2>1, <2>2, <2>3, <2>4, <2>5, ReadsStops
<1>12. CASE MailRuns("POP3_CONNECT") /\ Opened(6, "POP3")
  <2>1. Attending /\ task = "POP3_CONNECT" /\ taskStep = 6
    BY <1>1, <1>5, <1>12 DEF Opened, At
  <2>2. Stops(task, taskStep, {"pop3_ready"}) /\ {"pop3_ready"} \in AllStops
    BY <2>1 DEF Stops, AllStops
  <2>3. There => Ready({"pop3_ready"})
    BY <2>1, <2>2, AtStop
  <2>4. ~full
    BY <2>1 DEF FullInv, Idle
  <2> QED
    BY <1>12, <2>1, <2>3, <2>4, RestsTalk DEF Opened, TaskEnds
<1>13. CASE MATASK_SMTP_Connect
  BY <1>2, <1>4, <1>6, <1>7, <1>8, <1>13, Zenon DEF MATASK_SMTP_Connect, mailVars
<1>14. CASE MATASK_POP3_Connect
  BY <1>2, <1>4, <1>9, <1>10, <1>11, <1>12, <1>14 DEF MATASK_POP3_Connect
<1> QED
  BY <1>13, <1>14

LEMMA AsksTalk ==
  ASSUME TaskInv, ConnInv, TalkInv, FullInv,
         NEW t \in Questions, NEW command \in MailCommands, NEW end \in {2, 100}, Asks(t, command, end)
  PROVE  Talk'
<1>0. t \in MailTasks \ (Connects \cup Quits) /\ t \in MailTasks /\ t \in MailTasks \ {"POP3_RETR"}
  BY DEF Questions, MailTasks, Connects, Quits
<1>1. CASE MailTrouble(t)
  BY <1>0, <1>1, TroubleTalk
<1> SUFFICES ASSUME MailRuns(t), taskStep # 241, Same,
                    (At(0) /\ SayLine(command, 1)) \/ Reads(1, ReadTo(end)) \/ Ends(end)
             PROVE  Talk'
  BY <1>1 DEF Asks, Reads, At, Ends, Same
<1>2. Attending /\ task = t
  BY <1>0, MailPhases, RunsAttends DEF Same
<1>3. Awaits(task, 1, "pop3_ready")
  BY <1>2 DEF Awaits
<1>4. taskStep \in {0, 2, 100} => (There => Ready({"pop3_ready"}))
  <2>1. taskStep \in {0, 2, 100} => Stops(task, taskStep, {"pop3_ready"}) /\ {"pop3_ready"} \in AllStops
    BY <1>2 DEF Stops, AllStops
  <2> QED
    BY <1>2, <2>1, AtStop
<1>5. CASE At(0) /\ SayLine(command, 1)
  <2>1. There => Ready({"pop3_ready"})
    BY <1>4, <1>5 DEF At
  <2>2. task' = task /\ taskStep' = 1
    BY <1>5, PartsList DEF SayLine
  <2>3. Awaits(task', taskStep', "pop3_ready")
    BY <1>3, <2>2
  <2>4. Awaits(task, Doing, "pop3_ready")'
    BY <2>2, <2>3 DEF Doing
  <2> DEFINE q_ == "pop3_ready"
             Q_ == {q_}
  <2>5. \A p \in Q_ : <<p, command, "reply", q_>> \in MailDialogue
    BY Entries
  <2>6. (There => Ready(Q_)) /\ Awaits(task, Doing, q_)'
    BY <2>1, <2>4
  <2> HIDE DEF q_, Q_
  <2> QED
    BY <1>2, <1>5, <2>5, <2>6, SaysTalk
<1>6. CASE Reads(1, ReadTo(end))
  <2>1. task' = task /\ taskStep' = end => Stops(task, taskStep, {"pop3_ready"})'
    BY <1>2 DEF Stops
  <2>2. "pop3_ready" \in {"pop3_ready"}
    OBVIOUS
  <2>3. task \in MailTasks \ {"POP3_RETR"}
    BY <1>0, <1>2
  <2> QED
    BY <1>2, <1>3, <1>6, <2>1, <2>2, <2>3, ReadsStops
<1>7. CASE Ends(end)
  <2>1. There => Ready({"pop3_ready"})
    BY <1>4, <1>7 DEF Ends, At
  <2>2. ~full
    BY <1>2, AttendingFacts DEF FullInv, Idle
  <2>3. connMode' = "POP3"
    BY <1>2, <1>7, RunsInEach DEF Ends, Questions, TaskInv, ModeInv
  <2> QED
    BY <1>2, <1>7, <2>1, <2>2, <2>3, RestsTalk DEF Ends, TaskEnds
<1> QED
  BY <1>5, <1>6, <1>7

\* A line said at a stop.
LEMMA SaysFrom ==
  ASSUME Attending, NEW Q \in AllStops, Stops(task, taskStep, Q), task # "SMTP_SEND",
         NEW text, NEW step, SayLine(text, step),
         NEW w, \A p \in Q : <<p, text, "reply", w>> \in MailDialogue, Awaits(task, step, w)
  PROVE  Talk'
<1>1. There => Ready(Q)
  BY AtStop
<1>2. task' = task /\ taskStep' = step
  BY PartsList DEF SayLine
<1>3. Awaits(task', taskStep', w)
  BY <1>2
<1>4. Awaits(task, Doing, w)'
  BY <1>2, <1>3 DEF Doing
<1> QED
  BY <1>1, <1>4, SaysTalk

LEMMA SenderTalk ==
  ASSUME TaskInv, ConnInv, TalkInv, MATASK_SMTP_Sender
  PROVE  Talk'
<1>0. "SMTP_SENDER" \in MailTasks \ (Connects \cup Quits) /\ "SMTP_SENDER" \in MailTasks
  BY DEF MailTasks, Connects, Quits
<1>1. CASE MailTrouble("SMTP_SENDER")
  BY <1>0, <1>1, TroubleTalk
<1>2. ASSUME MailRuns("SMTP_SENDER"), Same, taskStep # 241
      PROVE  Attending /\ task = "SMTP_SENDER" /\ connMode' = connMode /\ task \in MailTasks \ {"POP3_RETR"}
  BY <1>0, <1>2, MailPhases, RunsAttends DEF Same
<1>3. CASE MailRuns("SMTP_SENDER") /\ At(0) /\ SayLine("MAIL", 1) /\ Same
  <2>1. Attending /\ task = "SMTP_SENDER" /\ taskStep = 0
    BY <1>2, <1>3 DEF At
  <2>2. Stops(task, taskStep, {"smtp_ready"}) /\ {"smtp_ready"} \in AllStops /\ Awaits(task, 1, "smtp_from")
    BY <2>1 DEF Stops, AllStops, Awaits
  <2>3. \A p \in {"smtp_ready"} : <<p, "MAIL", "reply", "smtp_from">> \in MailDialogue
    BY Entries
  <2> QED
    BY <1>3, <2>1, <2>2, <2>3, SaysFrom
<1>4. CASE MailRuns("SMTP_SENDER") /\ Reads(1, ReadTo(2)) /\ UNCHANGED mail
  <2>1. Attending /\ task = "SMTP_SENDER" /\ Same /\ taskStep = 1 /\ task \in MailTasks \ {"POP3_RETR"}
    BY <1>2, <1>4 DEF Reads, At
  <2>2. Awaits(task, 1, "smtp_from")
    BY <2>1 DEF Awaits
  <2>3. mail'.left # 0
    BY <1>4, <2>1, AttendingFacts DEF KnowsGame
  <2>4. task' = task /\ taskStep' = 2 => Stops(task, taskStep, {"smtp_from", "smtp_to"})'
    BY <2>1, <2>3 DEF Stops
  <2>5. "smtp_from" \in {"smtp_from", "smtp_to"}
    OBVIOUS
  <2> QED
    BY <1>4, <2>1, <2>2, <2>4, <2>5, ReadsStops
<1>5. CASE MailRuns("SMTP_SENDER") /\ Reads(3, ReadTo(2)) /\ UNCHANGED mail
  <2>1. Attending /\ task = "SMTP_SENDER" /\ Same /\ taskStep = 3 /\ task \in MailTasks \ {"POP3_RETR"}
    BY <1>2, <1>5 DEF Reads, At
  <2>2. Awaits(task, 3, "smtp_to")
    BY <2>1 DEF Awaits
  <2>3. CASE mail.left # 0
    <3>1. task' = task /\ taskStep' = 2 => Stops(task, taskStep, {"smtp_from", "smtp_to"})'
      BY <1>5, <2>1, <2>3 DEF Stops
    <3>2. "smtp_to" \in {"smtp_from", "smtp_to"}
      OBVIOUS
    <3> QED
      BY <1>5, <2>1, <2>2, <3>1, <3>2, ReadsStops
  <2>4. CASE mail.left = 0
    <3>1. task' = task /\ taskStep' = 2 => Stops(task, taskStep, {"smtp_to"})'
      BY <1>5, <2>1, <2>4 DEF Stops
    <3>2. "smtp_to" \in {"smtp_to"}
      OBVIOUS
    <3> QED
      BY <1>5, <2>1, <2>2, <3>1, <3>2, ReadsStops
  <2> QED
    BY <2>3, <2>4
<1>6. CASE MailRuns("SMTP_SENDER") /\ At(2) /\ mail.left = 0 /\ Goes(4) /\ Same
  <2>1. Attending /\ task = "SMTP_SENDER" /\ taskStep = 2
    BY <1>2, <1>6 DEF At
  <2>2. Stops(task, taskStep, {"smtp_to"}) /\ {"smtp_to"} \in AllStops
    BY <1>6, <2>1 DEF Stops, AllStops
  <2>3. There => Ready({"smtp_to"})
    BY <2>1, <2>2, AtStop
  <2>4. task' = task /\ taskStep' = 4 /\ ~busy'
    BY <1>6, <2>1, PartsList DEF Attending
  <2>5. Stops(task, taskStep, {"smtp_to"})'
    BY <2>1, <2>4 DEF Stops
  <2> QED
    BY <2>1, <2>3, <2>4, <2>5, StopsTalk
<1>7. CASE MailRuns("SMTP_SENDER") /\ At(2) /\ mail.left # 0 /\ SayLine("RCPT", 3) /\ Same
  <2>1. Attending /\ task = "SMTP_SENDER" /\ taskStep = 2
    BY <1>2, <1>7 DEF At
  <2>2. /\ Stops(task, taskStep, {"smtp_from", "smtp_to"}) /\ {"smtp_from", "smtp_to"} \in AllStops
        /\ Awaits(task, 3, "smtp_to")
    BY <1>7, <2>1 DEF Stops, AllStops, Awaits
  <2>3. \A p \in {"smtp_from", "smtp_to"} : <<p, "RCPT", "reply", "smtp_to">> \in MailDialogue
    BY Entries
  <2> QED
    BY <1>7, <2>1, <2>2, <2>3, SaysFrom
<1>8. CASE MailRuns("SMTP_SENDER") /\ At(4) /\ TaskDone /\ letter' = "addressed" /\ Same
  <2>1. Attending /\ task = "SMTP_SENDER" /\ taskStep = 4 /\ connMode' = "SMTP"
    BY <1>2, <1>8, RunsInEach DEF At, TaskInv, ModeInv
  <2>2. Stops(task, taskStep, {"smtp_to"}) /\ {"smtp_to"} \in AllStops
    BY <2>1 DEF Stops, AllStops
  <2>3. There => Ready({"smtp_to"})
    BY <2>1, <2>2, AtStop
  <2>4. LetterState[letter'] = "smtp_to"
    BY <1>8 DEF LetterState
  <2> QED
    BY <1>8, <2>1, <2>3, <2>4, RestsTalk
<1> QED
  BY <1>1, <1>3, <1>4, <1>5, <1>6, <1>7, <1>8 DEF MATASK_SMTP_Sender

LEMMA SendTalk ==
  ASSUME TaskInv, ConnInv, TalkInv, MATASK_SMTP_Send
  PROVE  Talk'
<1> DEFINE t == "SMTP_SEND"
<1>0. t \in MailTasks \ (Connects \cup Quits) /\ t \in MailTasks
  BY DEF MailTasks, Connects, Quits
<1>1. CASE MailTrouble(t)
  BY <1>0, <1>1, TroubleTalk
<1> SUFFICES ASSUME MailRuns(t), Same, taskStep # 241,
                    \/ SendSteps
                    \/ (Reads(2, ReadTo(3)) \/ Reads(101, ReadTo(1))) /\ UNCHANGED <<mail, letter>>
             PROVE  Talk'
  <2>1. SendSteps => At(0) \/ At(1) \/ At(50) \/ At(3) \/ At(100)
    BY Zenon DEF SendSteps
  <2>2. (SendSteps => taskStep # 241) /\ (Reads(2, ReadTo(3)) \/ Reads(101, ReadTo(1)) => Same /\ taskStep # 241)
    BY <2>1 DEF Reads, At
  <2> QED
    BY <1>1, <2>2, Zenon DEF MATASK_SMTP_Send
<1>2. Attending /\ task = "SMTP_SEND" /\ task \in MailTasks /\ task \in MailTasks \ {"POP3_RETR"}
  BY <1>0, MailPhases, RunsAttends DEF Same
<1>3. /\ mail \in [left : 0..2, last : BOOLEAN, next : 0..255, text : {"empty", "RETR", "TOP"}, missed : Nat]
      /\ KnowsGame /\ connMode' = "SMTP" /\ ~busy
  BY <1>2, AttendingFacts, RunsInEach DEF TaskInv, IInv, TypeOK, TypeMail, ModeInv, Same, Attending
<1>4. Texts => (There => Ready({"smtp_text"}))
  BY <1>2, <1>3, AttendingFacts DEF MailTalk, Posing
<1>5. ASSUME NEW Q \in AllStops, Stops(task, taskStep, Q) PROVE There => Ready(Q)
  BY <1>2, <1>5, AtStop
<1>6. {"smtp_to"} \in AllStops /\ {"smtp_text"} \in AllStops /\ {"smtp_ready"} \in AllStops
  BY DEF AllStops
<1>7. CASE At(0) /\ smtpSender /\ taskStep' = 100 /\ task' = task /\ bios' = bios
  <2>1. Stops(task, taskStep, {"smtp_to"}) /\ Stops(task, taskStep, {"smtp_to"})' /\ ~busy'
    BY <1>2, <1>3, <1>7 DEF Stops, At, bios
  <2>2. There => Ready({"smtp_to"})
    BY <1>5, <1>6, <2>1
  <2> QED
    BY <1>2, <1>7, <2>1, <2>2, StopsTalk
<1>8. CASE (At(1) \/ (At(0) /\ ~smtpSender)) /\ SendPiece
  <2>1. There => Ready({"smtp_text"})
    <3>1. CASE At(1)
      BY <1>2, <1>4, <3>1 DEF Texts, Doing, At
    <3>2. CASE At(0) /\ ~smtpSender
      <4>1. Stops(task, taskStep, {"smtp_text"})
        BY <1>2, <3>2 DEF Stops, At
      <4> QED
        BY <1>5, <1>6, <4>1
    <3> QED
      BY <1>8, <3>1, <3>2
  <2>2. CASE Command("DATA", sockets[0], "text", 50) /\ mail'.next = 1
    <3>1. task' = "SMTP_SEND" /\ taskStep' = 50
      BY <1>2, <2>2, PartsList
    <3>2. Texts'
      BY <2>2, <3>1 DEF Texts, Doing
    <3> QED
      BY <1>2, <2>1, <2>2, <3>2, PieceTalk
  <2>3. CASE mail.last /\ SayLine("end", 50) /\ mail'.next = 2
    <3>1. task' = "SMTP_SEND" /\ taskStep' = 50
      BY <1>2, <2>3, PartsList DEF SayLine
    <3>2. Awaits(task, Doing, "smtp_ready")'
      BY <2>3, <3>1 DEF Awaits, Doing
    <3>3. \A p \in {"smtp_text"} : <<p, "end", "reply", "smtp_ready">> \in MailDialogue
      BY Entries
    <3> QED
      BY <1>2, <2>1, <2>3, <3>2, <3>3, SaysTalk
  <2>4. CASE ~mail'.last /\ SayLine("text", 50) /\ mail'.next = 3
    <3>1. task' = "SMTP_SEND" /\ taskStep' = 50 /\ Command("DATA", sockets[0], "text", 50)
      BY <1>2, <2>4, PartsList DEF SayLine
    <3>2. Texts'
      BY <2>4, <3>1 DEF Texts, Doing
    <3> QED
      BY <1>2, <2>1, <3>1, <3>2, PieceTalk
  <2>5. SendPiece => \/ Command("DATA", sockets[0], "text", 50) /\ mail'.next = 1
                     \/ mail.last /\ SayLine("end", 50) /\ mail'.next = 2
                     \/ ~mail'.last /\ SayLine("text", 50) /\ mail'.next = 3
    BY <1>3 DEF SendPiece
  <2> QED
    BY <1>8, <2>2, <2>3, <2>4, <2>5
<1>9. CASE At(50) /\ Goes(mail.next) /\ UNCHANGED <<prevBuf, mail>>
  <2>1. mail.next \in {1, 2, 3, 101} /\ Doing = mail.next
    BY <1>2, <1>9 DEF ConnInv, NextInv, At, Doing
  <2>2. task' = "SMTP_SEND" /\ taskStep' = mail.next /\ busy' = busy /\ recvChunk' = recvChunk
    BY <1>2, <1>9, PartsList
  <2>3. Doing' = mail.next
    BY <2>1, <2>2 DEF Doing
  <2>4. Understood'
    BY <1>3, <2>2 DEF Understood
  <2>5. ASSUME NEW q, Awaits(task, Doing, q) PROVE Talk'
    <3>1. (There => Replying(q)) /\ prevBuf.line \in {"none", "part"}
      BY <1>2, <2>5, Replies
    <3>2. There' => Replying(q)'
      BY <1>2, <1>3, <2>2, <3>1, AttendingFacts DEF Replying
    <3>3. Awaits(task, Doing, q)'
      BY <1>2, <2>1, <2>2, <2>3, <2>5
    <3> QED
      BY <1>9, <2>4, <3>1, <3>2, <3>3, LineTalks
  <2>6. CASE mail.next = 2
    <3>1. Awaits(task, Doing, "smtp_ready")
      BY <1>2, <2>1, <2>6 DEF Awaits
    <3> QED
      BY <2>5, <3>1
  <2>7. CASE mail.next = 101
    <3>1. Awaits(task, Doing, "smtp_text")
      BY <1>2, <2>1, <2>7 DEF Awaits
    <3> QED
      BY <2>5, <3>1
  <2>8. CASE mail.next \in {1, 3}
    <3>1. mail.next = 3 => ~mail.last
      BY <1>2, <1>3, <1>9 DEF KnowsGame, At
    <3>2. Texts
      BY <1>2, <2>1, <2>8, <3>1 DEF Texts
    <3>3. Texts'
      BY <1>9, <2>2, <2>3, <2>8, <3>1 DEF Texts
    <3>4. There' => Ready({"smtp_text"})'
      BY <1>2, <1>3, <1>4, <2>2, <3>2, AttendingFacts DEF Ready
    <3> QED
      BY <2>4, <3>3, <3>4, TextTalks
  <2> QED
    BY <2>1, <2>6, <2>7, <2>8
<1>10. CASE At(3) /\ TaskEnds /\ letter' = IF mail.last THEN "none" ELSE "begun"
  <2>1. CASE mail.last
    <3>1. Stops(task, taskStep, {"smtp_ready"})
      BY <1>2, <1>10, <2>1 DEF Stops, At
    <3>2. There => Ready({"smtp_ready"})
      BY <1>5, <1>6, <3>1
    <3>3. LetterState[letter'] = "smtp_ready"
      BY <1>10, <2>1 DEF LetterState
    <3> QED
      BY <1>2, <1>3, <1>10, <3>2, <3>3, RestsTalk DEF TaskEnds
  <2>2. CASE ~mail.last
    <3>1. Texts
      BY <1>2, <1>10, <2>2 DEF Texts, Doing, At
    <3>2. There => Ready({"smtp_text"})
      BY <1>4, <3>1
    <3>3. LetterState[letter'] = "smtp_text"
      BY <1>10, <2>2 DEF LetterState
    <3> QED
      BY <1>2, <1>3, <1>10, <3>2, <3>3, RestsTalk DEF TaskEnds
  <2> QED
    BY <2>1, <2>2
<1>11. CASE At(100) /\ SayLine("DATA", 50) /\ mail' = [mail EXCEPT !.next = 101]
  <2>1. Stops(task, taskStep, {"smtp_to"})
    BY <1>2, <1>11 DEF Stops, At
  <2>2. There => Ready({"smtp_to"})
    BY <1>5, <1>6, <2>1
  <2>3. task' = "SMTP_SEND" /\ taskStep' = 50 /\ mail'.next = 101
    BY <1>2, <1>3, <1>11, PartsList DEF SayLine
  <2>4. Awaits(task, Doing, "smtp_text")'
    BY <2>3 DEF Awaits, Doing
  <2>5. \A p \in {"smtp_to"} : <<p, "DATA", "reply", "smtp_text">> \in MailDialogue
    BY Entries
  <2> QED
    BY <1>2, <1>11, <2>2, <2>4, <2>5, SaysTalk
<1>12. CASE Reads(2, ReadTo(3)) /\ UNCHANGED mail
  <2>1. Awaits(task, 2, "smtp_ready")
    BY <1>2 DEF Awaits
  <2>2. mail.last
    BY <1>2, <1>3, <1>12 DEF KnowsGame, Reads, At, Doing
  <2>3. task' = task /\ taskStep' = 3 => Stops(task, taskStep, {"smtp_ready"})'
    BY <1>2, <1>12, <2>2 DEF Stops
  <2>4. "smtp_ready" \in {"smtp_ready"}
    OBVIOUS
  <2> QED
    BY <1>2, <1>12, <2>1, <2>3, <2>4, ReadsStops
<1>13. CASE Reads(101, ReadTo(1)) /\ UNCHANGED mail
  <2>1. taskStep = 101 /\ Awaits(task, taskStep, "smtp_text") /\ Awaits(task, Doing, "smtp_text")
    BY <1>2, <1>13 DEF Awaits, Reads, At, Doing
  <2>2. CASE ReadOn \/ Goes(240)
    BY <1>2, <2>1, <2>2, ReadsTalk
  <2>3. CASE Read.line = "good" /\ ReadTo(1)
    <3>1. There => Ready({"smtp_text"})
      BY <1>2, <2>1, <2>3, Replies
    <3>2. task' = "SMTP_SEND" /\ taskStep' = 1 /\ busy' = busy
      BY <1>2, <2>3, PartsList DEF ReadTo
    <3>3. Texts' /\ Understood'
      BY <1>3, <3>2 DEF Texts, Doing, Understood
    <3>4. There' => Ready({"smtp_text"})'
      BY <1>2, <1>3, <3>1, <3>2, AttendingFacts DEF Ready
    <3> QED
      BY <3>3, <3>4, TextTalks
  <2> QED
    BY <1>13, <2>2, <2>3 DEF Reads
<1> QED
  BY <1>7, <1>8, <1>9, <1>10, <1>11, <1>12, <1>13 DEF SendSteps

LEMMA LastOf ==
  ASSUME NEW a \in Seq(Nat), NEW b \in Seq(Nat), Len(a) = 5, Len(b) > 0
  PROVE  a \o b \in Seq(Nat) /\ Len(a \o b) = 5 + Len(b) /\ (a \o b)[Len(a \o b)] = b[Len(b)]
<1>1. \A c, d \in Seq(Nat) :
        /\ c \o d \in Seq(Nat) /\ Len(c \o d) = Len(c) + Len(d)
        /\ \A i \in 1 .. Len(d) : (c \o d)[Len(c) + i] = d[i]
  OBVIOUS
<1>2. /\ a \o b \in Seq(Nat) /\ Len(a \o b) = Len(a) + Len(b)
      /\ \A i \in 1 .. Len(b) : (a \o b)[Len(a) + i] = b[i]
  BY <1>1, Zenon
<1>3. Len(b) \in 1 .. Len(b)
  OBVIOUS
<1>4. (a \o b)[Len(a) + Len(b)] = b[Len(b)]
  BY <1>2, <1>3, Zenon
<1> QED
  BY <1>2, <1>4

\* What is taken for a reply ends with the last byte that has come.
LEMMA SeenLast ==
  ASSUME recvChunk \in Chunks, NEW chunk \in SeenAs, chunk.bytes # <<>>
  PROVE  /\ recvChunk.bytes # <<>>
         /\ chunk.bytes[Len(chunk.bytes)] = recvChunk.bytes[Len(recvChunk.bytes)]
<1>1. CASE chunk.bytes = recvChunk.bytes
  BY <1>1
<1>2. ASSUME NEW j \in 2 .. Len(recvChunk.bytes) \cup {0},
             j = 0 => chunk = NoChunk,
             j # 0 => chunk.bytes = SubSeq(recvChunk.bytes, j + 1, Len(recvChunk.bytes))
      PROVE  /\ recvChunk.bytes # <<>>
             /\ chunk.bytes[Len(chunk.bytes)] = recvChunk.bytes[Len(recvChunk.bytes)]
  <2>1. PICK s \in Seq(Nat) : s = recvChunk.bytes
    BY DEF Chunks
  <2>2. j \in 2 .. Len(s) /\ chunk.bytes = SubSeq(s, j + 1, Len(s))
    BY <1>2, <2>1 DEF NoChunk
  <2>3. Len(chunk.bytes) = Len(s) - j /\ \A i \in 1 .. Len(s) - j : chunk.bytes[i] = s[j + i]
    BY <2>2, PartTyped, PartBytes
  <2>4. Len(s) - j \in 1 .. Len(s) - j
    <3>1. chunk.bytes \in Seq(Nat)
      BY <2>2, PartTyped
    <3>2. Len(chunk.bytes) # 0
      BY <3>1
    <3>3. Len(s) \in Nat
      OBVIOUS
    <3> QED
      BY <2>2, <2>3, <3>2, <3>3
  <2>5. chunk.bytes[Len(s) - j] = s[j + (Len(s) - j)]
    BY <2>3, <2>4
  <2>6. j + (Len(s) - j) = Len(s) /\ s # <<>>
    <3>1. Len(s) \in Nat /\ Len(<<>>) = 0
      OBVIOUS
    <3> QED
      BY <2>2, <3>1
  <2> QED
    BY <2>1, <2>3, <2>5, <2>6
<1> QED
  BY <1>1, <1>2, SeenParts

\* A mail's end is found only where the last byte said is its last one.
LEMMA EndFound ==
  ASSUME TypeMail, NEW chunk \in Chunks, "stale_end" \notin Risks,
         chunk.bytes # <<>> \/ (chunk.line # "none" /\ ~NewReply),
         endLineBuf' \in LastBytes(chunk), IsEndMultiLine(endLineBuf')
  PROVE  chunk.bytes # <<>> /\ chunk.bytes[Len(chunk.bytes)] = MailLen
<1> DEFINE bytes == chunk.bytes
           zeros == <<0, 0, 0, 0, 0>>
<1>1. MailLen \in Nat /\ MailLen >= 5 /\ bytes \in Seq(Nat)
  BY ServersAssumption DEF Chunks
<1>2. endLineBuf'[5] = MailLen
  BY DEF IsEndMultiLine
<1>3. zeros \in Seq(Nat) /\ Len(zeros) = 5 /\ zeros[5] = 0
  OBVIOUS
<1>4. ~Overreads(chunk)
  BY <1>1, <1>2, <1>3 DEF LastBytes
<1>5. ASSUME NEW x \in Seq(Nat), x # <<>>, endLineBuf' = MakeEndLineBuffer(x) PROVE x[Len(x)] = MailLen
  <2> DEFINE s == endLineBuf \o x
  <2>1. endLineBuf \in Seq(Nat) /\ Len(endLineBuf) = 5 /\ Len(x) \in Nat /\ Len(x) > 0
    BY <1>5 DEF TypeMail
  <2>2. s \in Seq(Nat) /\ Len(s) = 5 + Len(x) /\ s[Len(s)] = x[Len(x)]
    BY <2>1, LastOf
  <2>3. LastFive(s)[5] = s[Len(s)]
    BY <2>1, <2>2 DEF LastFive
  <2>4. endLineBuf'[5] \in {LastFive(s)[5], 0}
    BY <1>5 DEF MakeEndLineBuffer
  <2> QED
    BY <1>1, <1>2, <2>2, <2>3, <2>4
<1>6. endLineBuf' = MakeEndLineBuffer(IF chunk.line = "none" \/ NewReply THEN bytes ELSE zeros \o bytes)
  BY <1>4, Zenon DEF LastBytes
<1>7. CASE chunk.line = "none" \/ NewReply
  BY <1>1, <1>5, <1>6, <1>7
<1>8. CASE ~(chunk.line = "none" \/ NewReply)
  <2>1. zeros \o bytes \in Seq(Nat) /\ Len(zeros \o bytes) = 5 + Len(bytes) /\ Len(bytes) \in Nat
    BY <1>1, <1>3
  <2>2. zeros \o bytes # <<>>
    BY <2>1
  <2>3. (zeros \o bytes)[Len(zeros \o bytes)] = MailLen
    BY <1>5, <1>6, <1>8, <2>1, <2>2
  <2>4. bytes # <<>>
    <3> SUFFICES ASSUME bytes = <<>> PROVE FALSE
      OBVIOUS
    <3>1. (zeros \o bytes)[5] = zeros[5] /\ Len(zeros \o bytes) = 5
      BY <1>3, <2>1
    <3> QED
      BY <1>1, <1>3, <2>3, <3>1
  <2>5. (zeros \o bytes)[Len(zeros \o bytes)] = bytes[Len(bytes)]
    BY <1>1, <1>3, <2>1, <2>4, LastOf
  <2> QED
    BY <2>3, <2>4, <2>5
<1> QED
  BY <1>7, <1>8

\* How the end of a mail is found in a reply.
Finds(chunk) ==
  /\ chunk.bytes # <<>> \/ (chunk.line # "none" /\ ~NewReply)
  /\ endLineBuf' \in LastBytes(chunk) /\ IsEndMultiLine(endLineBuf') /\ Goes(100)

LEMMA EndParts ==
  ASSUME NEW chunk, EndTest(chunk)
  PROVE  Poll \/ Finds(chunk)
BY Zenon DEF EndTest, Finds

LEMMA RetrStoreParts ==
  ASSUME NEW chunk, RetrStore(chunk)
  PROVE  Poll \/ Goes(240) \/ Overflow(chunk) \/ Finds(chunk)
BY EndParts, Zenon DEF RetrStore

LEMMA RetrStepTalk ==
  ASSUME TaskInv, ConnInv, TalkInv, FullInv, "stale_end" \notin Risks, MATASK_POP3_Retr
  PROVE  Talk'
<1> DEFINE t == "POP3_RETR"
<1>0. t \in MailTasks \ (Connects \cup Quits) /\ t \in MailTasks
  BY DEF MailTasks, Connects, Quits
<1>1. CASE MailTrouble(t)
  BY <1>0, <1>1, TroubleTalk
<1> DEFINE Stores == \E chunk \in SeenAs : RetrStore(chunk)
<1> SUFFICES ASSUME MailRuns(t), UNCHANGED <<table, connMode>>, taskStep # 241,
                    (At(0) /\ SayLine(mail.text, 1)) \/ (At(100) /\ TaskEnds) \/ (At(1) /\ Stores)
             PROVE  Talk'
  <2>1. MATASK_POP3_Retr /\ ~MailTrouble(t) =>
          /\ MailRuns(t) /\ UNCHANGED <<table, connMode>>
          /\ (At(0) /\ SayLine(mail.text, 1)) \/ (At(100) /\ TaskEnds) \/ (At(1) /\ Stores)
    BY Zenon DEF MATASK_POP3_Retr, Ends, Same
  <2>2. At(0) \/ At(100) \/ At(1) => taskStep # 241
    BY DEF At
  <2> QED
    BY <1>1, <2>1, <2>2
<1>2. Attending /\ task = "POP3_RETR" /\ connMode' = "POP3" /\ ~busy
  BY <1>0, MailPhases, RunsAttends, RunsInEach DEF TaskInv, ModeInv, Attending
<1>3. /\ KnowsGame /\ (There => MailTalk) /\ TypeMail /\ recvChunk \in Chunks /\ ~full /\ sent \in Nat
      /\ UNCHANGED <<peer, due, sent, sockets>> /\ (There' <=> There) /\ Peer0' = Peer0
  BY <1>2, AttendingFacts DEF TaskInv, IInv, TypeOK, TypeRun, TypeAdapter, FullInv, Idle, Chunks
<1>4. {"pop3_ready"} \in AllStops
  BY DEF AllStops
<1>5. NoChunk.bytes = <<>>
  BY DEF NoChunk
<1>6. CASE At(0) /\ SayLine(mail.text, 1)
  <2>1. Stops(task, taskStep, {"pop3_ready"})
    BY <1>2, <1>6 DEF Stops, At
  <2>2. There => Ready({"pop3_ready"}) /\ sent = 0
    BY <1>2, <1>3, <1>4, <1>6, <2>1, AtStop DEF MailTalk, RetrTalk, At
  <2>3. <<"pop3_ready", mail.text, "mail", "pop3_ready">> \in MailDialogue
    <3>1. mail.text \in {"RETR", "TOP"}
      BY <1>2, <1>3, <1>6 DEF KnowsGame, TypeMail, At
    <3> QED
      BY <3>1, Entries
  <2>4. Command("DATA", sockets[0], mail.text, 1)
    BY <1>6 DEF SayLine
  <2>5. task' = "POP3_RETR" /\ taskStep' = 1 /\ busy' /\ sendText' = mail.text /\ recvChunk'.bytes = <<>>
    BY <1>2, <1>5, <2>4, PartsList
  <2>6. There => due = "nothing" /\ <<Peer0, mail.text, "mail", "pop3_ready">> \in MailDialogue
    BY <2>2, <2>3 DEF Ready
  <2>7. Understood'
    <3>1. sockets[0] \in open => due = "nothing" /\ \E o, v : <<peer[sockets[0]], mail.text, o, v>> \in MailDialogue
      BY <1>2, <2>6, AttendingFacts DEF Peer0
    <3> QED
      BY <1>2, <2>4, <3>1, AttendingFacts, SentWell
  <2>8. There' => Posing("mail", "pop3_ready")' /\ sent' = 0
    BY <1>3, <2>2, <2>5, <2>6 DEF Posing
  <2>9. There' => RetrTalk'
    BY <2>5, <2>8 DEF RetrTalk, LastByte
  <2> QED
    BY <2>5, <2>7, <2>9, RetrTalks
<1>7. CASE At(100) /\ TaskEnds
  <2>1. Stops(task, taskStep, {"pop3_ready"})
    BY <1>2, <1>7 DEF Stops, At
  <2>2. There => Ready({"pop3_ready"})
    BY <1>2, <1>4, <2>1, AtStop
  <2> QED
    BY <1>2, <1>3, <1>7, <2>2, RestsTalk DEF TaskEnds
<1>8. ASSUME At(1), NEW chunk \in SeenAs, RetrStore(chunk) PROVE Talk'
  <2>0. chunk \in Chunks
    BY <1>3, SeenParts
  <2>1. There => Mailing /\ LastByte
    BY <1>2, <1>3, <1>8 DEF MailTalk, RetrTalk, Posing, At
  <2>2. CASE Poll
    <3>1. task' = "POP3_RETR" /\ taskStep' = 1 /\ busy' /\ sendText' = "empty" /\ recvChunk'.bytes = <<>>
      BY <1>2, <1>5, <2>2, PartsList DEF Poll
    <3>2. Understood'
      BY <1>2, <2>2, AttendingFacts, SentWell DEF Poll
    <3>3. There' => Mailing'
      BY <1>3, <2>1 DEF Mailing
    <3>4. There' => RetrTalk'
      BY <3>1, <3>3 DEF RetrTalk, LastByte
    <3> QED
      BY <3>1, <3>2, <3>4, RetrTalks
  <2>3. CASE Goes(240)
    <3>1. Elsewhere' /\ ~busy'
      BY <1>0, <1>2, <2>3, PartsList DEF Elsewhere
    <3> QED
      BY <3>1, ElsewhereTalks
  <2>4. CASE Overflow(chunk)
    <3>1. task' = "NONE" /\ ~busy' /\ recvChunk' = chunk /\ full'
      BY <1>2, <2>4 DEF Overflow, KeepRest
    <3>2. There' => Mailing' /\ LastByte'
      BY <1>3, <2>1, <3>1, SeenLast DEF Mailing, LastByte
    <3>3. There' => RestTalk'
      BY <1>2, <3>1, <3>2 DEF RestTalk
    <3> QED
      BY <3>1, <3>3, RestTalks_
  <2>5. CASE Finds(chunk)
    <3>1. recvChunk.bytes # <<>> /\ recvChunk.bytes[Len(recvChunk.bytes)] = MailLen
      <4>1. chunk.bytes # <<>> /\ chunk.bytes[Len(chunk.bytes)] = MailLen
        BY <1>3, <2>0, <2>5, EndFound DEF Finds
      <4> QED
        BY <1>3, <4>1, SeenLast
    <3>2. There => Ready({"pop3_ready"})
      BY <1>2, <2>1, <3>1, ServersAssumption DEF Mailing, LastByte, Ready
    <3>3. task' = "POP3_RETR" /\ taskStep' = 100 /\ ~busy'
      BY <1>2, <2>5, PartsList DEF Finds
    <3>4. Stops(task, taskStep, {"pop3_ready"})'
      BY <3>3 DEF Stops
    <3> QED
      BY <1>2, <3>2, <3>3, <3>4, StopsTalk
  <2> QED
    BY <1>8, <2>2, <2>3, <2>4, <2>5, RetrStoreParts
<1> QED
  BY <1>6, <1>7, <1>8

LEMMA QuitTalk ==
  ASSUME TaskInv, ConnInv, TalkInv, MATASK_SMTP_POP3_Quit
  PROVE  Talk'
<1>1. PICK t \in {"SMTP_QUIT", "POP3_QUIT"} : MailTrouble(t) \/ (MailRuns(t) /\ QuitSteps)
  BY DEF MATASK_SMTP_POP3_Quit
<1>2. t \in MailTasks /\ t \in Quits
  BY DEF MailTasks, Quits
<1>3. CASE MailTrouble(t)
  BY <1>2, <1>3, TroubleTalk
<1>4. ASSUME MailRuns(t), Same, taskStep \in {0, 1} PROVE Attending /\ task = t
  BY <1>2, <1>4, MailPhases, RunsAttends DEF Same
<1>5. MailRuns(t) => task = t /\ ~busy
  BY DEF MailRuns, Runs
<1>6. CASE MailRuns(t) /\ At(0) /\ SayLine("QUIT", 1) /\ Same
  <2>1. Attending /\ task = t /\ taskStep = 0
    BY <1>4, <1>6 DEF At
  <2>2. Stops(task, taskStep, Leavable) /\ Leavable \in AllStops /\ Awaits(task, 1, "bye") /\ task # "SMTP_SEND"
    BY <1>2, <2>1 DEF Stops, AllStops, Awaits
  <2>3. \A p \in Leavable : <<p, "QUIT", "reply", "bye">> \in MailDialogue
    BY Entries
  <2> QED
    BY <1>6, <2>1, <2>2, <2>3, SaysFrom
<1>7. CASE MailRuns(t) /\ At(1) /\ ReadOn /\ Same
  <2>1. Attending /\ task = t /\ taskStep = 1
    BY <1>4, <1>7 DEF At
  <2>2. Awaits(task, taskStep, "bye")
    BY <1>2, <2>1 DEF Awaits
  <2> QED
    BY <1>7, <2>1, <2>2, ReadsTalk
<1>8. CASE MailRuns(t) /\ At(1) /\ ReadTo(2)
  BY <1>2, <1>5, <1>8, PartsList, ElsewhereTalks DEF Elsewhere, ReadTo
<1>9. CASE MailRuns(t) /\ Command("TCP_DISCONNECT", sockets[0], "empty", 3)
  <2>1. task' = t /\ taskStep' = 3 /\ sendCmd' = "TCP_DISCONNECT"
    BY <1>5, <1>9, PartsList
  <2> QED
    BY <1>2, <2>1, ElsewhereTalks DEF Elsewhere
<1>10. CASE MailRuns(t) /\ connMode' = "PPP" /\ TaskEnds
  <2>1. task' = "NONE" /\ ~busy'
    BY <1>5, <1>10, PartsList DEF TaskEnds
  <2> QED
    BY <1>10, <2>1, ElsewhereTalks DEF Elsewhere
<1> QED
  BY <1>1, <1>3, <1>6, <1>7, <1>8, <1>9, <1>10 DEF QuitSteps

LEMMA OfflineTalk ==
  ASSUME TaskInv, ConnInv, TalkInv, MATASK_Offline
  PROVE  Talk'
<1>0. task = "OFFLINE" /\ ~busy /\ UNCHANGED adapter
  BY DEF MATASK_Offline, Runs
<1>1. ASSUME NEW cmd \in {"PPP_DISCONNECT", "OFFLINE", "END", "TCP_DISCONNECT"}, NEW socket,
             NEW step \in {1, 2, 3, 103}, Command(cmd, socket, "empty", step)
      PROVE  Talk'
  <2>1. task' = "OFFLINE" /\ taskStep' = step /\ sendCmd' = cmd
    BY <1>0, <1>1, PartsList
  <2> QED
    BY <2>1, ElsewhereTalks DEF Elsewhere
<1>2. ASSUME UNCHANGED table, taskStep \in {100, 101} PROVE Attending
  BY <1>0, <1>2 DEF Attending, Uses
<1>3. CASE At(3) /\ connMode' = "OFFLINE" /\ TaskEnds
  <2>1. task' = "NONE" /\ ~busy'
    BY <1>0, <1>3, PartsList DEF TaskEnds
  <2> QED
    BY <1>3, <2>1, ElsewhereTalks DEF Elsewhere
<1>4. CASE At(100) /\ SayLine("QUIT", 101) /\ UNCHANGED table
  <2>1. Attending /\ taskStep = 100
    BY <1>2, <1>4 DEF At
  <2>2. Stops(task, taskStep, Leavable) /\ Leavable \in AllStops /\ Awaits(task, 101, "bye") /\ task # "SMTP_SEND"
    BY <1>0, <2>1 DEF Stops, AllStops, Awaits
  <2>3. \A p \in Leavable : <<p, "QUIT", "reply", "bye">> \in MailDialogue
    BY Entries
  <2> QED
    BY <1>4, <2>1, <2>2, <2>3, SaysFrom
<1>5. CASE At(101) /\ ReadOn /\ UNCHANGED table
  <2>1. Attending /\ taskStep = 101
    BY <1>2, <1>5 DEF At
  <2>2. Awaits(task, taskStep, "bye")
    BY <1>0, <2>1 DEF Awaits
  <2> QED
    BY <1>5, <2>1, <2>2, ReadsTalk
<1>6. ASSUME NEW step \in {0, 102}, Goes(step) PROVE Talk'
  <2>1. task' = "OFFLINE" /\ taskStep' = step /\ ~busy'
    BY <1>0, <1>6, PartsList
  <2> QED
    BY <2>1, ElsewhereTalks DEF Elsewhere
<1> QED
  BY <1>1, <1>3, <1>4, <1>5, <1>6 DEF MATASK_Offline

LEMMA TcpTalk ==
  ASSUME TaskInv, ConnInv, TalkInv, SocketTasks, ~MATASK_Offline
  PROVE  Talk'
<1> USE DEF Elsewhere, TcpTasks
<1>0. ~busy /\ UNCHANGED adapter /\ TypeAdapter /\ Sequenced
  BY DEF SocketTasks, MATASK_TCP_Connect, MATASK_TCP_Disconnect, MATASK_TCP_SendRecv, MATASK_GetHostAddress,
         MATASK_Offline, MATASK_TCP_Cut, Runs, TaskInv, IInv, TypeOK, TalkInv
<1>1. \A t \in TcpTasks \cup {"TCP_CUT"} : t \notin MailTasks \cup {"OFFLINE", "NONE"}
  BY DEF MailTasks
<1>2. ASSUME task \in TcpTasks \cup {"TCP_CUT"}, NEW cmd \in {"TCP_CONNECT", "TCP_DISCONNECT", "DNS_REQUEST"},
             NEW socket, NEW text, NEW step, Command(cmd, socket, text, step)
      PROVE  Talk'
  <2>1. task' = task /\ sendCmd' # "DATA"
    BY <1>2, PartsList
  <2> QED
    BY <1>1, <1>2, <2>1, ElsewhereTalks
<1>3. ASSUME connMode' = "PPP", TaskFails \/ TaskEnds PROVE Talk'
  <2>1. task' = "NONE" /\ ~busy'
    BY <1>0, <1>3, PartsList DEF TaskEnds
  <2> QED
    BY <1>3, <2>1, ElsewhereTalks
<1>4. task \in TcpTasks => connMode = "PPP"
  BY RunsInEach DEF TaskInv, ModeInv
<1>5. CASE MATASK_TCP_Connect
  BY <1>2, <1>3, <1>4, <1>5 DEF MATASK_TCP_Connect, Runs
<1>6. CASE MATASK_TCP_Disconnect
  BY <1>2, <1>3, <1>4, <1>6 DEF MATASK_TCP_Disconnect, Runs
<1>7. CASE MATASK_GetHostAddress
  BY <1>2, <1>3, <1>4, <1>7 DEF MATASK_GetHostAddress, Runs
<1>8. CASE MATASK_TCP_SendRecv
  <2>1. task = "TCP_SENDRECV" /\ connMode' = connMode
    BY <1>8 DEF MATASK_TCP_SendRecv, Runs
  <2>2. CASE Command("DATA", param, "empty", 1)
    <3>1. Understood' /\ task' = "TCP_SENDRECV"
      BY <1>0, <2>1, <2>2, PartsList, SentWell
    <3> QED
      BY <1>1, <3>1, ElsewhereTalks
  <2> QED
    BY <1>3, <1>4, <1>8, <2>1, <2>2 DEF MATASK_TCP_SendRecv
<1>9. CASE MATASK_TCP_Cut
  <2>1. task = "TCP_CUT"
    BY <1>9 DEF MATASK_TCP_Cut, Runs
  <2>2. CASE Goes(3)
    <3>1. task' = "TCP_CUT" /\ ~busy'
      BY <1>0, <2>1, <2>2, PartsList
    <3> QED
      BY <1>1, <3>1, ElsewhereTalks
  <2>3. CASE connMode' = "PPP" /\ task' = "NONE" /\ busy' = busy
    BY <1>0, <2>3, ElsewhereTalks
  <2>4. \/ Command("TCP_DISCONNECT", recvData, "empty", 3) \/ Command("TCP_DISCONNECT", sockets[0], "empty", 3)
        \/ Goes(3) \/ (connMode' = "PPP" /\ task' = "NONE" /\ busy' = busy)
    BY <1>9 DEF MATASK_TCP_Cut
  <2> QED
    BY <1>2, <2>1, <2>2, <2>3, <2>4
<1> QED
  BY <1>5, <1>6, <1>7, <1>8, <1>9 DEF SocketTasks

LEMMA MailTasksTalk ==
  ASSUME TaskInv, ConnInv, TalkInv, FullInv, "stale_end" \notin Risks, MailTasksStep
  PROVE  Talk'
<1>1. "POP3_STAT" \in Questions /\ "POP3_LIST" \in Questions /\ "POP3_DELE" \in Questions
  BY DEF Questions
<1>2. "STAT" \in MailCommands /\ "LIST" \in MailCommands /\ "DELE" \in MailCommands
  BY DEF MailCommands
<1>3. MATASK_POP3_Stat \/ MATASK_POP3_List \/ MATASK_POP3_Dele => Talk'
  BY <1>1, <1>2, AsksTalk DEF MATASK_POP3_Stat, MATASK_POP3_List, MATASK_POP3_Dele
<1> QED
  BY <1>3, ConnectTalk, SenderTalk, SendTalk, QuitTalk, RetrStepTalk DEF MailTasksStep

\* A task that has nothing to do with mail.
LEMMA AwayMode ==
  ASSUME TaskInv, MAAPI_Main, ~SocketTasks, ~MailTasksStep
  PROVE  /\ task' \in {task, "NONE"} /\ task \in SettingsTasks \cup {HttpTask}
         /\ connMode' \notin {"SMTP", "POP3"} /\ Elsewhere'
<1> DEFINE Settling == MATASK_TelServer \/ MATASK_GetEEPROMData \/ MATASK_EEPROM_Read \/ MATASK_EEPROM_Write
<1>0. Settling \/ MATASK_HTTP_GetPost
  BY DEF MAAPI_Main
<1>1. task' \in {task, "NONE"} /\ task \in SettingsTasks \cup {HttpTask}
  BY <1>0, TasksName, TasksOf DEF MATASK_HTTP_GetPost, Runs
<1>2. connMode' \notin {"SMTP", "POP3"}
  <2>1. connMode \in {"OFFLINE", "HTTP"}
    BY <1>1, RunsInEach DEF TaskInv, ModeInv
  <2>2. Settling => connMode' = connMode \/ connMode' \in {"OFFLINE", "PPP"}
    BY DEF MATASK_TelServer, MATASK_GetEEPROMData, MATASK_EEPROM_Read, MATASK_EEPROM_Write, SettingsTask,
           Opening, Aborts, Closing, Ask, Rejected, FirstPart, SecondPart
  <2>3. MATASK_HTTP_GetPost => connMode' = connMode \/ connMode' = "PPP"
    BY DEF MATASK_HTTP_GetPost, HttpTrouble, PageEnds, Same
  <2> QED
    BY <1>0, <2>1, <2>2, <2>3
<1>3. Elsewhere'
  <2>1. \A t \in SettingsTasks \cup {HttpTask} : t \notin MailTasks \cup {"OFFLINE", "NONE"}
    BY DEF SettingsTasks, MailTasks, HttpTask
  <2> QED
    BY <1>1, <1>2, <2>1 DEF Elsewhere
<1> QED
  BY <1>1, <1>2, <1>3

LEMMA AwayTalk ==
  ASSUME TaskInv, TaskInv', ConnInv', MAAPI_Main, ~SocketTasks, ~MailTasksStep
  PROVE  KnowsLine' /\ (There' => MailTalk') /\ (task' # HttpTask => Understood')
<1>1. task' \in {task, "NONE"} /\ task \in SettingsTasks \cup {HttpTask} /\ Elsewhere'
  BY AwayMode
<1>2. task' = "NONE" => ~busy'
  BY DEF TaskInv, IInv, Running, TaskAlone
<1>3. task' \in SettingsTasks /\ busy' => sendCmd' # "DATA"
  <2>1. task' \in SettingsTasks => Before(task', taskStep')
    BY DEF Before
  <2> QED
    BY <2>1 DEF ConnInv, ListInv, BeforeList
<1>4. task' # HttpTask => Understood'
  BY <1>1, <1>2, <1>3 DEF Understood
<1> QED
  BY <1>1, <1>4, ElsewhereTalks

----------------------------------------------------------------------------
(* What the tasks and the game know of a letter and of a mail.             *)

LEMMA KnowsElse ==
  /\ task' \notin {"SMTP_CONNECT", "SMTP_SENDER", "SMTP_SEND", "POP3_RETR"}
     /\ (task' = "NONE" => connMode' # "SMTP" \/ letter' = "none") => KnowsGame'
  /\ letter' = "none" /\ task' \notin {"SMTP_SENDER", "SMTP_SEND", "POP3_RETR"} => KnowsGame'
  /\ task' = "POP3_RETR" /\ (taskStep' = 0 => mail'.text # "empty") => KnowsGame'
BY DEF KnowsGame, Idle

LEMMA TroubleKnows ==
  ASSUME KnowsGame, NEW t \in MailTasks, MailTrouble(t)
  PROVE  KnowsGame'
<1>1. CASE MailClosed
  <2>1. task' = "NONE" /\ connMode' = "PPP"
    BY <1>1, PartsList DEF MailClosed
  <2> QED
    BY <2>1, KnowsElse
<1>2. CASE MailFails
  <2>1. task' = "NONE" /\ connMode' = "PPP"
    BY <1>2, PartsList DEF MailFails
  <2> QED
    BY <2>1, KnowsElse
<1>3. CASE MailGivenUp
  <2>1. task' = task /\ taskStep' = 241 /\ mail' = mail /\ letter' = letter /\ task # "NONE"
    BY <1>3, PartsList DEF MailTrouble, MailGivenUp, mailVars, Runs, MailTasks
  <2> QED
    BY <2>1 DEF KnowsGame, Doing, Idle
<1> QED
  BY <1>1, <1>2, <1>3 DEF MailTrouble

LEMMA SenderKnows ==
  ASSUME TypeMail, KnowsGame, MATASK_SMTP_Sender
  PROVE  KnowsGame'
<1>1. CASE MailTrouble("SMTP_SENDER")
  BY <1>1, TroubleKnows DEF MailTasks
<1> SUFFICES ASSUME MailRuns("SMTP_SENDER"), ~MailTrouble("SMTP_SENDER") PROVE KnowsGame'
  BY <1>1 DEF MATASK_SMTP_Sender
<1>2. task = "SMTP_SENDER" /\ letter = "none" /\ (taskStep \in {0, 1} => mail.left # 0)
  BY DEF MailRuns, Runs, KnowsGame
<1>3. CASE At(4) /\ TaskDone /\ smtpSender' = TRUE /\ letter' = "addressed"
  <2>1. task' = "NONE"
    BY <1>3, PartsList
  <2> QED
    BY <1>3, <2>1 DEF KnowsGame, Idle
<1>4. CASE /\ \/ At(0) /\ SayLine("MAIL", 1) /\ Same
              \/ Reads(1, ReadTo(2))
              \/ At(2) /\ mail.left = 0 /\ Goes(4) /\ UNCHANGED prevBuf /\ Same
              \/ Reads(3, ReadTo(2))
           /\ UNCHANGED <<mail, letter>>
  <2>1. task' = task /\ (taskStep' \in {0, 1} => taskStep \in {0, 1})
    BY <1>4, PartsList DEF SayLine, Reads, ReadOn, ReadTo, At
  <2> QED
    BY <1>2, <1>4, <2>1 DEF KnowsGame, Idle
<1>5. CASE At(2) /\ mail.left # 0 /\ SayLine("RCPT", 3) /\ letter' = letter
  <2>1. task' = task /\ taskStep' = 3
    BY <1>5, PartsList DEF SayLine
  <2> QED
    BY <1>2, <1>5, <2>1 DEF KnowsGame, Idle
<1> QED
  BY <1>3, <1>4, <1>5 DEF MATASK_SMTP_Sender

LEMMA SendKnows ==
  ASSUME TypeMail, KnowsGame, NextInv, MATASK_SMTP_Send
  PROVE  KnowsGame'
<1>1. CASE MailTrouble("SMTP_SEND")
  BY <1>1, TroubleKnows DEF MailTasks
<1> SUFFICES ASSUME MailRuns("SMTP_SEND"), SendSteps \/ ((Reads(2, ReadTo(3)) \/ Reads(101, ReadTo(1))) /\ UNCHANGED <<mail, letter>>)
             PROVE  KnowsGame'
  BY <1>1, Zenon DEF MATASK_SMTP_Send
<1>2. /\ task = "SMTP_SEND" /\ letter # "none" /\ (taskStep = 0 => (smtpSender <=> letter = "addressed"))
      /\ (taskStep \notin {0, 241} => ~smtpSender) /\ (Doing = 2 => mail.last)
      /\ (taskStep = 50 /\ mail.next = 3 => ~mail.last)
  BY DEF MailRuns, Runs, KnowsGame
<1>3. ASSUME task' = "SMTP_SEND", letter' = letter, taskStep' # 0, ~smtpSender', Doing' = 2 => mail'.last,
             taskStep' = 50 /\ mail'.next = 3 => ~mail'.last
      PROVE  KnowsGame'
  BY <1>2, <1>3 DEF KnowsGame, Idle
<1>4. mail \in [left : 0..2, last : BOOLEAN, next : 0..255, text : {"empty", "RETR", "TOP"}, missed : Nat]
  BY DEF TypeMail
<1>5. CASE At(0) /\ smtpSender' = FALSE /\ taskStep' = 100 /\ task' = task /\ letter' = letter
  <2>1. Doing' = 100
    BY <1>5 DEF Doing
  <2> QED
    BY <1>2, <1>3, <1>5, <2>1
<1>6. CASE (At(1) \/ (At(0) /\ ~smtpSender)) /\ SendPiece /\ UNCHANGED letter
  <2>0. ~smtpSender
    BY <1>2, <1>6 DEF At
  <2>1. task' = task /\ taskStep' = 50 /\ smtpSender' = smtpSender
    BY <1>6, PartsList DEF SendPiece, SayLine
  <2>2. Doing' = mail'.next
    BY <1>2, <2>1 DEF Doing
  <2>3. CASE mail' = [mail EXCEPT !.left = @ - 1, !.next = 1]
    <3>1. mail'.next = 1
      BY <1>4, <2>3
    <3> QED
      BY <1>2, <1>3, <1>6, <2>0, <2>1, <2>2, <3>1
  <2>4. CASE mail' = [mail EXCEPT !.next = IF mail.last THEN 2 ELSE 3]
    <3>1. mail'.next = (IF mail.last THEN 2 ELSE 3) /\ mail'.last = mail.last
      BY <1>4, <2>4, Zenon
    <3>2. (mail'.next = 2 => mail'.last) /\ (mail'.next = 3 => ~mail'.last)
      <4>1. CASE mail.last
        BY <3>1, <4>1
      <4>2. CASE ~mail.last
        BY <3>1, <4>2
      <4> QED
        BY <4>1, <4>2
    <3> QED
      BY <1>2, <1>3, <1>6, <2>0, <2>1, <2>2, <3>2
  <2> QED
    BY <1>6, <2>3, <2>4 DEF SendPiece
<1>7. CASE At(50) /\ Goes(mail.next) /\ UNCHANGED <<mail, letter>>
  <2>1. task' = task /\ taskStep' = mail.next /\ smtpSender' = smtpSender /\ mail.next \in {1, 2, 3, 101}
    BY <1>2, <1>7, PartsList DEF NextInv, At
  <2>2. Doing' = Doing /\ taskStep' \notin {0, 50}
    BY <1>2, <1>7, <2>1 DEF Doing, At
  <2> QED
    BY <1>2, <1>3, <1>7, <2>1, <2>2 DEF At
<1>8. CASE At(3) /\ TaskEnds /\ letter' = IF mail.last THEN "none" ELSE "begun"
  <2>1. task' = "NONE" /\ ~smtpSender'
    BY <1>2, <1>8, PartsList DEF TaskEnds, At
  <2>2. letter' \in {"none", "begun"}
    BY <1>8, Zenon
  <2> QED
    BY <2>1, <2>2 DEF KnowsGame, Idle
<1>9. CASE At(100) /\ SayLine("DATA", 50) /\ mail' = [mail EXCEPT !.next = 101] /\ UNCHANGED letter
  <2>1. task' = task /\ taskStep' = 50 /\ smtpSender' = smtpSender /\ mail'.next = 101
    BY <1>4, <1>9, PartsList DEF SayLine
  <2>2. Doing' = 101
    BY <1>2, <2>1 DEF Doing
  <2> QED
    BY <1>2, <1>3, <1>9, <2>1, <2>2 DEF At
<1>10. CASE (Reads(2, ReadTo(3)) \/ Reads(101, ReadTo(1))) /\ UNCHANGED <<mail, letter>>
  <2>1. task' = task /\ smtpSender' = smtpSender /\ taskStep' \in {taskStep, 240, 3, 1} /\ taskStep \in {2, 101}
    BY <1>10, PartsList DEF Reads, ReadOn, ReadTo, At
  <2>2. taskStep' \notin {0, 50} /\ (Doing' = 2 => Doing = 2)
    BY <1>10, <2>1 DEF Doing
  <2> QED
    BY <1>2, <1>3, <1>10, <2>1, <2>2
<1>11. SendSteps =>
         \/ At(0) /\ smtpSender' = FALSE /\ taskStep' = 100 /\ task' = task /\ letter' = letter
         \/ (At(1) \/ (At(0) /\ ~smtpSender)) /\ SendPiece /\ UNCHANGED letter
         \/ At(50) /\ Goes(mail.next) /\ UNCHANGED <<mail, letter>>
         \/ At(3) /\ TaskEnds /\ letter' = IF mail.last THEN "none" ELSE "begun"
         \/ At(100) /\ SayLine("DATA", 50) /\ mail' = [mail EXCEPT !.next = 101] /\ UNCHANGED letter
  BY Zenon DEF SendSteps
<1> QED
  BY <1>5, <1>6, <1>7, <1>8, <1>9, <1>10, <1>11

\* The tasks.
LEMMA TasksKnow ==
  ASSUME TaskInv, NextInv, KnowsGame, MAAPI_Main
  PROVE  KnowsGame'
<1>0. TypeMail
  BY DEF TaskInv, IInv, TypeOK
<1>1. CASE ~SocketTasks /\ ~MailTasksStep
  <2>1. \A t \in SettingsTasks \cup {HttpTask, "NONE"} : t \notin {"SMTP_CONNECT", "SMTP_SENDER", "SMTP_SEND", "POP3_RETR"}
    BY DEF SettingsTasks, HttpTask
  <2> QED
    BY <1>1, <2>1, AwayMode, KnowsElse
<1>2. CASE SocketTasks
  <2>1. task \in TcpTasks \cup {"OFFLINE", "TCP_CUT"} /\ task' \in {task, "NONE"}
    BY <1>2, TasksOf, TasksName
  <2>2. task' = "NONE" => connMode' # "SMTP"
    <3>1. task \in TcpTasks => connMode = "PPP"
      BY RunsInEach DEF TaskInv, ModeInv
    <3>2. CASE MATASK_TCP_Connect \/ MATASK_TCP_Disconnect \/ MATASK_TCP_SendRecv \/ MATASK_GetHostAddress
      <4>1. task \in TcpTasks /\ connMode' \in {connMode, "PPP"}
        BY <3>2 DEF MATASK_TCP_Connect, MATASK_TCP_Disconnect, MATASK_TCP_SendRecv, MATASK_GetHostAddress, Runs, TcpTasks
      <4> QED
        BY <3>1, <4>1
    <3>3. CASE MATASK_Offline \/ MATASK_TCP_Cut
      BY <3>3, PartsList DEF MATASK_Offline, MATASK_TCP_Cut, Runs, SayLine, ReadOn
    <3> QED
      BY <1>2, <3>2, <3>3 DEF SocketTasks
  <2>3. \A t \in TcpTasks \cup {"OFFLINE", "TCP_CUT", "NONE"} : t \notin {"SMTP_CONNECT", "SMTP_SENDER", "SMTP_SEND", "POP3_RETR"}
    BY DEF TcpTasks
  <2> QED
    BY <2>1, <2>2, <2>3, KnowsElse
<1>3. CASE MailTasksStep /\ ~MATASK_SMTP_Sender /\ ~MATASK_SMTP_Send
  <2>2. CASE MATASK_SMTP_Connect
    <3>1. CASE MailTrouble("SMTP_CONNECT")
      BY <3>1, TroubleKnows DEF MailTasks
    <3>2. CASE MailRuns("SMTP_CONNECT") /\ UNCHANGED mailVars
      <4>1. letter' = "none" /\ task = "SMTP_CONNECT"
        BY <3>2 DEF MailRuns, Runs, KnowsGame, mailVars
      <4> QED
        BY <4>1, TasksName, KnowsElse
    <3> QED
      BY <2>2, <3>1, <3>2 DEF MATASK_SMTP_Connect
  <2>3. CASE MATASK_SMTP_POP3_Quit
    <3>1. PICK q \in {"SMTP_QUIT", "POP3_QUIT"} : MailTrouble(q) \/ (MailRuns(q) /\ QuitSteps)
      BY <2>3 DEF MATASK_SMTP_POP3_Quit
    <3>2. CASE MailTrouble(q)
      BY <3>2, TroubleKnows DEF MailTasks
    <3>3. CASE MailRuns(q) /\ QuitSteps
      <4>1. task = q /\ task # "NONE"
        BY <3>3 DEF MailRuns, Runs
      <4>2. task' = "NONE" => connMode' = "PPP"
        BY <3>3, <4>1, PartsList DEF QuitSteps, SayLine, ReadOn, ReadTo
      <4> QED
        BY <4>1, <4>2, TasksName, KnowsElse
    <3> QED
      BY <3>1, <3>2, <3>3
  <2>4. CASE MATASK_POP3_Connect
    <3>1. CASE MailTrouble("POP3_CONNECT")
      BY <3>1, TroubleKnows DEF MailTasks
    <3>2. CASE /\ MailRuns("POP3_CONNECT")
               /\ \/ Opens("POP3")
                  \/ Reads(3, SayLine("USER", 4)) \/ Reads(4, SayLine("PASS", 5)) \/ Reads(5, ReadTo(6))
                  \/ Opened(6, "POP3")
      <4>1. task = "POP3_CONNECT"
        BY <3>2 DEF MailRuns, Runs
      <4>2. task' = "NONE" => connMode' = "POP3"
        BY <3>2, <4>1, PartsList DEF Opens, Reads, SayLine, ReadOn, ReadTo, Opened
      <4> QED
        BY <4>1, <4>2, TasksName, KnowsElse
    <3> QED
      BY <2>4, <3>1, <3>2 DEF MATASK_POP3_Connect
  <2>5. ASSUME NEW q \in Questions, NEW command, NEW end, Asks(q, command, end)
        PROVE  KnowsGame'
    <3>1. CASE MailTrouble(q)
      BY <3>1, TroubleKnows DEF MailTasks, Questions
    <3>2. CASE MailRuns(q) /\ Same
      <4>1. task \in Questions /\ connMode = "POP3"
        BY <3>2, RunsInEach DEF MailRuns, Runs, TaskInv, ModeInv, Questions
      <4> QED
        BY <3>2, <4>1, TasksName, KnowsElse DEF Questions, Same
    <3> QED
      BY <2>5, <3>1, <3>2 DEF Asks, Reads, Ends, Same
  <2>6. CASE MATASK_POP3_Retr
    <3>1. CASE MailTrouble("POP3_RETR")
      BY <3>1, TroubleKnows DEF MailTasks
    <3>2. CASE /\ MailRuns("POP3_RETR")
               /\ \/ (At(0) /\ SayLine(mail.text, 1) /\ Same) \/ Ends(100)
                  \/ At(1) /\ Same /\ \E chunk \in SeenAs : RetrStore(chunk)
      <4>1. task = "POP3_RETR" /\ connMode = "POP3" /\ connMode' = connMode
        BY <3>2, RunsInEach DEF MailRuns, Runs, TaskInv, ModeInv, Same, Ends
      <4>2. ASSUME NEW chunk, RetrStore(chunk) PROVE KnowsGame'
        <5>1. \/ Poll \/ Goes(240) \/ Overflow(chunk) \/ Goes(100)
          BY <4>2, RetrStoreParts DEF Finds
        <5>2. task' = "NONE" \/ (task' = task /\ taskStep' # 0)
          BY <5>1, PartsList, PartsStay DEF Poll
        <5> QED
          BY <4>1, <5>2, KnowsElse
      <4>3. CASE SayLine(mail.text, 1) \/ Ends(100)
        <5>1. task' = "NONE" \/ (task' = task /\ taskStep' # 0)
          BY <4>3, PartsList DEF SayLine, Ends, TaskEnds
        <5> QED
          BY <4>1, <5>1, KnowsElse
      <4> QED
        BY <3>2, <4>2, <4>3
    <3> QED
      BY <2>6, <3>1, <3>2, Zenon DEF MATASK_POP3_Retr
  <2>7. MATASK_POP3_Stat \/ MATASK_POP3_List \/ MATASK_POP3_Dele => KnowsGame'
    BY <2>5 DEF MATASK_POP3_Stat, MATASK_POP3_List, MATASK_POP3_Dele, Questions
  <2> QED
    BY <1>3, <2>2, <2>3, <2>4, <2>6, <2>7 DEF MailTasksStep
<1> QED
  BY <1>0, <1>1, <1>2, <1>3, SenderKnows, SendKnows DEF MAAPI_Main

----------------------------------------------------------------------------
(* The calls.                                                              *)

Calling ==
  /\ TaskInv /\ TalkInv /\ task = "NONE" /\ ~busy /\ ~busy'
  /\ UNCHANGED <<usedSockets, sockets, peer, due>>

LEMMA GameCalls ==
  ASSUME TaskInv, TalkInv, Game, ~MA_TCP_Cut
  PROVE  Calling
<1>1. error => task = "NONE"
  BY DEF TaskInv, IInv, Running, TaskAlone
<1>2. task = "NONE"
  BY <1>1, GameWaits DEF MAAPI_ErrorCheck
<1>3. ~busy
  BY <1>2 DEF TaskInv, IInv, Running, TaskAlone
<1>4. CASE MAAPI_ErrorCheck
  <2>1. busy' = busy
    BY <1>3, <1>4 DEF MAAPI_ErrorCheck
  <2> QED
    BY <1>2, <1>3, <2>1, GameRestarts, GameList DEF Calling, Restarts, table
<1>5. CASE ~MAAPI_ErrorCheck
  BY <1>2, <1>3, <1>5, GameSilent, GameRestarts, GameList DEF Calling, Restarts, table, Silenced, Silent
<1> QED
  BY <1>4, <1>5

LEMMA CallingFacts ==
  ASSUME Calling
  PROVE  /\ (There' <=> There) /\ Peer0' = Peer0 /\ due' = due /\ KnowsGame /\ (There => RestTalk)
         /\ connMode = "SMTP" => (There => due = "nothing" /\ Peer0 = LetterState[letter])
         /\ connMode = "POP3" => (There => Mailing /\ (~full => due = "nothing"))
<1>1. peer' = peer /\ sockets' = sockets /\ usedSockets' = usedSockets /\ due' = due
  BY DEF Calling
<1>2. open' = open
  BY <1>1, SameLive
<1>3. KnowsGame /\ (There => RestTalk) /\ task = "NONE"
  BY DEF Calling, TalkInv, MailTalk
<1> QED
  BY <1>1, <1>2, <1>3 DEF There, Peer0, RestTalk, Ready, Idle

LEMMA StopCalled ==
  ASSUME Calling, NEW Q, There => due = "nothing" /\ Peer0 \in Q, Stops(task, taskStep, Q)',
         task' = "POP3_RETR" /\ taskStep' = 0 => sent' = 0
  PROVE  Talk'
<1>1. There' => Ready(Q)'
  BY CallingFacts DEF Calling, Ready
<1>2. ~busy'
  BY DEF Calling
<1> QED
  BY <1>1, <1>2, StopTalks

LEMMA RestCalledTalk ==
  ASSUME Calling, task' = "NONE", UNCHANGED <<connMode, letter, full, sent, recvChunk>>
  PROVE  Talk'
<1>1. There' => RestTalk'
  <2>1. UNCHANGED <<connMode, letter, full, sent, recvChunk, due>> /\ Peer0' = Peer0 /\ ~busy /\ ~busy' /\ task = "NONE"
    BY CallingFacts DEF Calling
  <2> QED
    BY <2>1, CallingFacts DEF RestTalk, Ready, Mailing, LastByte, Idle
<1> QED
  BY <1>1, RestTalks_ DEF Calling

LEMMA ElseCalled ==
  ASSUME Calling, Elsewhere'
  PROVE  Talk'
BY ElsewhereTalks DEF Calling

\* How a mail call finds the server.
LEMMA MailCallTalk ==
  ASSUME "abandoned" \notin Risks, Calling, MailCalls
  PROVE  Talk' /\ KnowsGame'
<1> USE AtRestCalls, StartCalls
<1>0. TaskInv /\ KnowsGame /\ task = "NONE" /\ (There => RestTalk) /\ ~busy' /\ TypeMail
  BY CallingFacts DEF Calling, TaskInv, IInv, TypeOK
<1>1. LetterState["none"] = "smtp_ready" /\ LetterState["addressed"] = "smtp_to" /\ LetterState["begun"] = "smtp_text"
  BY DEF LetterState
<1>2. letter \in {"none", "addressed", "begun"}
  BY <1>0 DEF TypeMail
<1>3. ASSUME NEW t \in Connects, Begin(t, 0, 0), NotMailing PROVE Talk' /\ KnowsGame'
  <2>1. task' = t /\ taskStep' = 0 /\ letter' = "none"
    BY <1>3 DEF NotMailing
  <2>2. Elsewhere'
    BY <1>3, <2>1 DEF Elsewhere
  <2> QED
    BY <1>3, <2>1, <2>2, ElseCalled, KnowsElse DEF Connects
<1>4. CASE MA_SMTP_Sender
  <2>1. AtRest("SMTP") /\ letter = "none" /\ Begin("SMTP_SENDER", 0, 0) /\ letter' = letter
    BY <1>4 DEF MA_SMTP_Sender
  <2>2. task' = "SMTP_SENDER" /\ taskStep' = 0 /\ connMode = "SMTP"
    BY <1>0, <2>1
  <2>3. There => due = "nothing" /\ Peer0 \in {"smtp_ready"}
    BY <1>1, <2>1, <2>2, CallingFacts
  <2>4. Stops(task, taskStep, {"smtp_ready"})'
    BY <2>2 DEF Stops
  <2>5. mail'.left # 0
    <3>1. PICK n \in 1..2 : mail' = [NoMail EXCEPT !.left = n]
      BY <1>4 DEF MA_SMTP_Sender
    <3> QED
      BY <3>1 DEF NoMail
  <2>6. KnowsGame'
    BY <2>1, <2>2, <2>5 DEF KnowsGame, Idle
  <2> QED
    BY <2>2, <2>3, <2>4, <2>6, StopCalled
<1>5. CASE MA_SMTP_Send
  <2>1. AtRest("SMTP") /\ letter # "none" /\ Begin("SMTP_SEND", 0, 0) /\ letter' = letter
    BY <1>5, Zenon DEF MA_SMTP_Send
  <2>2. task' = "SMTP_SEND" /\ taskStep' = 0 /\ connMode = "SMTP" /\ smtpSender' = smtpSender
    BY <1>0, <2>1 DEF Begin, Starts
  <2>3. smtpSender <=> letter = "addressed"
    BY <1>0, <2>1, <2>2 DEF KnowsGame, Idle
  <2>4. KnowsGame'
    BY <2>1, <2>2, <2>3 DEF KnowsGame, Idle, Doing
  <2>5. CASE smtpSender
    <3>1. Stops(task, taskStep, {"smtp_to"})'
      BY <2>2, <2>5 DEF Stops
    <3>2. There => due = "nothing" /\ Peer0 \in {"smtp_to"}
      BY <1>1, <2>2, <2>3, <2>5, CallingFacts
    <3> QED
      BY <2>2, <2>4, <3>1, <3>2, StopCalled
  <2>6. CASE ~smtpSender
    <3>1. Stops(task, taskStep, {"smtp_text"})'
      BY <2>2, <2>6 DEF Stops
    <3>2. There => due = "nothing" /\ Peer0 \in {"smtp_text"}
      BY <1>1, <1>2, <2>1, <2>2, <2>3, <2>6, CallingFacts
    <3> QED
      BY <2>2, <2>4, <3>1, <3>2, StopCalled
  <2> QED
    BY <2>5, <2>6
<1>6. CASE MA_SMTP_Quit
  <2>1. AtRest("SMTP") /\ letter # "begun" /\ Begin("SMTP_QUIT", 0, 0) /\ letter' = "none"
    BY <1>6 DEF MA_SMTP_Quit, NotMailing
  <2>2. task' = "SMTP_QUIT" /\ taskStep' = 0 /\ connMode = "SMTP"
    BY <1>0, <2>1
  <2>3. There => due = "nothing" /\ Peer0 \in Leavable
    BY <1>1, <1>2, <2>1, <2>2, CallingFacts DEF Leavable
  <2>4. Stops(task, taskStep, Leavable)'
    BY <2>2 DEF Stops, Quits
  <2> QED
    BY <2>1, <2>2, <2>3, <2>4, StopCalled, KnowsElse
<1>7. ASSUME NEW t \in Questions \cup {"POP3_QUIT"}, AtRest("POP3"), Reading, Begin(t, 0, 0), NotMailing
      PROVE  Talk' /\ KnowsGame'
  <2>1. task' = t /\ taskStep' = 0 /\ connMode = "POP3" /\ ~full /\ letter' = "none"
    BY <1>0, <1>7 DEF Reading, NotMailing
  <2>2. There => due = "nothing" /\ Peer0 \in {"pop3_ready"} /\ Peer0 \in Leavable
    BY <2>1, CallingFacts DEF Leavable, Mailing
  <2>3. KnowsGame'
    BY <1>7, <2>1, KnowsElse DEF Questions
  <2>4. CASE t \in Questions
    <3>1. Stops(task, taskStep, {"pop3_ready"})' /\ task' # "POP3_RETR"
      BY <2>1, <2>4 DEF Stops, Questions
    <3> QED
      BY <2>2, <2>3, <3>1, StopCalled
  <2>5. CASE t = "POP3_QUIT"
    <3>1. Stops(task, taskStep, Leavable)' /\ task' # "POP3_RETR"
      BY <2>1, <2>5 DEF Stops, Quits
    <3> QED
      BY <2>2, <2>3, <3>1, StopCalled
  <2> QED
    BY <1>7, <2>4, <2>5
<1>8. ASSUME NEW text \in {"RETR", "TOP"}, NEW room, NewMail(text, room) PROVE Talk' /\ KnowsGame'
  <2>1. AtRest("POP3") /\ ~full /\ Starts("POP3_RETR", 0, 0) /\ sent' = 0 /\ mail' = [NoMail EXCEPT !.text = text]
    BY <1>8 DEF NewMail
  <2>2. task' = "POP3_RETR" /\ taskStep' = 0 /\ connMode = "POP3" /\ mail'.text # "empty"
    BY <1>0, <1>8, <2>1 DEF NoMail
  <2>3. There => due = "nothing" /\ Peer0 \in {"pop3_ready"}
    BY <2>1, <2>2, CallingFacts DEF Mailing
  <2>4. Stops(task, taskStep, {"pop3_ready"})'
    BY <2>2 DEF Stops
  <2> QED
    BY <2>1, <2>2, <2>3, <2>4, StopCalled, KnowsElse
<1>9. ASSUME NEW room, SameMail(room) PROVE Talk' /\ KnowsGame'
  <2>1. AtRest("POP3") /\ full /\ UNCHANGED <<sent, connMode, letter>>
    BY <1>9 DEF SameMail, mailVars
  <2>2. connMode = "POP3"
    BY <1>0, <2>1
  <2>3. CASE Starts("POP3_RETR", 1, 0)
    <3>1. task' = "POP3_RETR" /\ taskStep' = 1 /\ recvChunk' = recvChunk
      BY <2>3, PartsSilent DEF Silent
    <3>2. There => Mailing /\ LastByte
      BY <1>0, <2>1, <2>2 DEF RestTalk, Idle
    <3>3. There' => RetrTalk'
      <4>1. There' => Mailing' /\ LastByte'
        BY <2>1, <3>1, <3>2, CallingFacts DEF Mailing, LastByte
      <4> QED
        BY <1>0, <3>1, <4>1 DEF RetrTalk
    <3>4. Understood'
      BY <1>0 DEF Understood
    <3> QED
      BY <3>1, <3>3, <3>4, RetrTalks, KnowsElse
  <2>4. CASE RestFills(room)
    <3>1. task' = "NONE" /\ recvChunk' = recvChunk /\ full' = full
      BY <1>0, <2>4, PartsSilent DEF RestFills, Silent
    <3>2. connMode' # "SMTP"
      BY <2>1, <2>2
    <3> QED
      BY <2>1, <3>1, <3>2, RestCalledTalk, KnowsElse
  <2> QED
    BY <1>9, <2>3, <2>4 DEF SameMail
<1>10. MA_SMTP_Connect \/ MA_POP3_Connect => Talk' /\ KnowsGame'
  BY <1>3 DEF MA_SMTP_Connect, MA_POP3_Connect, Connects
<1>11. MA_POP3_Quit \/ MA_POP3_Stat \/ MA_POP3_List \/ MA_POP3_Dele => Talk' /\ KnowsGame'
  BY <1>7 DEF MA_POP3_Quit, MA_POP3_Stat, MA_POP3_List, MA_POP3_Dele, MA_POP3_Ask, Questions
<1>12. MA_POP3_Retr \/ MA_POP3_Head => Talk' /\ KnowsGame'
  BY <1>8, <1>9 DEF MA_POP3_Retr, MA_POP3_Head
<1> QED
  BY <1>4, <1>5, <1>6, <1>10, <1>11, <1>12 DEF MailCalls

\* The other calls.
LEMMA OtherCallTalk ==
  ASSUME "abandoned" \notin Risks, "refused" \notin Risks, Calling, Game, ~MailCalls, ~MA_TCP_Cut
  PROVE  Talk' /\ KnowsGame'
<1> USE AtRestCalls, StartCalls
<1>0. TaskInv /\ KnowsGame /\ task = "NONE" /\ (There => RestTalk) /\ ~busy' /\ TypeMail
  BY CallingFacts DEF Calling, TaskInv, IInv, TypeOK
<1>1. \A t \in TcpTasks \cup SettingsTasks \cup {HttpTask} : t \notin MailTasks \cup {"NONE", "OFFLINE"}
  BY DEF TcpTasks, SettingsTasks, HttpTask, MailTasks
<1>2. ASSUME task' \in TcpTasks \cup SettingsTasks \cup {HttpTask} PROVE Talk' /\ KnowsGame'
  <2>1. Elsewhere'
    BY <1>1, <1>2 DEF Elsewhere
  <2>2. task' \notin {"SMTP_CONNECT", "SMTP_SENDER", "SMTP_SEND", "POP3_RETR", "NONE"}
    BY <1>1, <1>2 DEF MailTasks
  <2> QED
    BY <2>1, <2>2, ElseCalled, KnowsElse
<1>3. ASSUME task' = "NONE", connMode' \notin {"SMTP", "POP3"} PROVE Talk' /\ KnowsGame'
  BY <1>3, ElseCalled, KnowsElse DEF Elsewhere
<1>4. CASE SocketCalls
  <2>1. \/ \E t \in TcpTasks : \E arg : Begin(t, 0, arg)
        \/ AtRest("PPP") /\ Refuse
    BY <1>4 DEF SocketCalls, MA_TCP_Connect, MA_GetHostAddress, MA_TCP_Disconnect, MA_TCP_SendRecv, TcpTasks
  <2> QED
    BY <1>0, <1>2, <1>3, <2>1, CallsMode
<1>5. CASE GoesOffline /\ NotMailing
  <2>1. PICK mode \in {"PPP", "SMTP", "POP3"} :
          AtRest(mode) /\ Begin("OFFLINE", IF mode = "PPP" THEN 0 ELSE 100, 0)
    BY <1>5 DEF GoesOffline, MA_Offline
  <2>2. /\ task' = "OFFLINE" /\ connMode = mode /\ taskStep' = IF mode = "PPP" THEN 0 ELSE 100
        /\ (connMode = "SMTP" => letter # "begun") /\ ~full /\ letter' = "none"
    BY <1>0, <1>5, <2>1 DEF GoesOffline, Reading, NotMailing
  <2>3. CASE mode = "PPP"
    BY <2>2, <2>3, ElseCalled, KnowsElse DEF Elsewhere
  <2>4. CASE mode # "PPP"
    <3>1. There => due = "nothing" /\ Peer0 \in Leavable
      <4>1. letter \in {"none", "addressed", "begun"}
        BY <1>0 DEF TypeMail
      <4> QED
        BY <2>2, <2>4, <4>1, CallingFacts DEF Leavable, LetterState, Mailing
    <3>2. Stops(task, taskStep, Leavable)'
      BY <2>2, <2>4 DEF Stops
    <3> QED
      BY <2>2, <3>1, <3>2, StopCalled, KnowsElse
  <2> QED
    BY <2>3, <2>4
<1>6. CASE MA_ApiPreExe /\ UNCHANGED mailVars
  <2>1. ~smtpSender /\ ~full /\ Refuse /\ letter' = letter
    BY <1>6 DEF MA_ApiPreExe, mailVars
  <2>2. task' = "NONE" /\ ~full' /\ ~smtpSender' /\ connMode' = connMode /\ UNCHANGED <<sent, recvChunk>>
    BY <2>1 DEF Refuse, SetApiError, Forgotten, adapter
  <2>3. full \in BOOLEAN /\ full' \in BOOLEAN /\ full' = FALSE
    BY <1>0, <2>1 DEF TaskInv, IInv, TypeOK, TypeFlags, Refuse, SetApiError
  <2>4. full' = full
    BY <2>1, <2>3
  <2>5. KnowsGame'
    BY <1>0, <2>1, <2>2 DEF KnowsGame, Idle
  <2> QED
    BY <2>1, <2>2, <2>4, <2>5, RestCalledTalk
<1>7. CASE MAAPI_ErrorCheck /\ UNCHANGED mailVars
  <2>1. UNCHANGED <<connMode, task, taskStep, full, smtpSender, recvChunk, sent, letter, mail>>
    BY <1>0, <1>7 DEF MAAPI_ErrorCheck, api, adapter, mailVars, bios
  <2>2. KnowsGame'
    BY <1>0, <2>1 DEF KnowsGame, Idle, Doing
  <2> QED
    BY <1>0, <2>1, <2>2, RestCalledTalk
<1>8. CASE MA_HTTP_GetPost
  <2>1. CASE NewPage
    <3>1. PICK step \in {0, 2} : Starts(HttpTask, step, 0)
      BY <2>1 DEF NewPage
    <3> QED
      BY <1>2, <3>1
  <2>2. ASSUME NEW room, SamePage(room) PROVE Talk' /\ KnowsGame'
    <3>1. task' = "NONE" \/ task' = HttpTask
      BY <2>2, SamePageHttp
    <3>2. connMode' = "HTTP"
      BY <1>0, <2>2 DEF SamePage
    <3> QED
      BY <1>2, <1>3, <3>1, <3>2
  <2> QED
    BY <1>8, <2>1, <2>2 DEF MA_HTTP_GetPost
<1>9. CASE MA_TelServer \/ MA_GetEEPROMData \/ MA_EEPROMRead \/ MA_EEPROMWrite
  <2>1. \E t \in SettingsTasks \cup {"NONE"} : \E step, arg : AtRest("OFFLINE") /\ Begin(t, step, arg)
    BY <1>9 DEF MA_TelServer, MA_GetEEPROMData, MA_EEPROMRead, MA_EEPROMWrite, SettingsTasks
  <2>2. task' \in SettingsTasks \cup {"NONE"} /\ connMode' = "OFFLINE"
    BY <1>0, <2>1
  <2> QED
    BY <1>2, <1>3, <2>2
<1> QED
  BY <1>4, <1>5, <1>6, <1>7, <1>8, <1>9 DEF Game

\* While a page is got, what is out will be understood.
LEMMA PageUnderstood ==
  ASSUME TaskInv, BodyInv, ConnInv, task = HttpTask
  PROVE  Understood
<1> SUFFICES ASSUME busy, sendCmd = "DATA", sendSocket \in open
             PROVE  Heard(sendSocket, sendText).waits # "confused"
  BY DEF Understood
<1>1. taskStep \in {8, 50, 100, 110} /\ HttpInv /\ PageKnows
  BY DEF BodyInv, PageInv, OutThen, ConnInv, HttpInv
<1>2. sendSocket = sockets[0] /\ usedSockets[0]
  <2>1. Uses(task, taskStep)
    BY <1>1, PagePhases
  <2> QED
    BY <2>1 DEF ConnInv, ListInv, UseList, Talks, InSlot0
<1>3. There
  BY <1>2 DEF There
<1>4. Heard0.waits \in {Wanted, "http_content", "http_answer"}
  <2>1. taskStep = 50 => http.next \in {5, 6, 7, 8, 100}
    BY <1>1 DEF PageKnows
  <2> QED
    BY <1>1, <1>3, <2>1, ServerAnswers DEF Heading
<1>5. Wanted \in {"http_get", "http_post"}
  BY DEF Wanted
<1> QED
  BY <1>2, <1>4, <1>5 DEF Heard0

LEMMA AllUnderstood == TaskInv /\ BodyInv /\ ConnInv /\ TalkInv => Understood
BY PageUnderstood DEF TalkInv

\* The call that may be made at any moment.
LEMMA CutTalk ==
  ASSUME TaskInv, BodyInv, ConnInv, TalkInv, MA_TCP_Cut
  PROVE  Talk' /\ KnowsGame'
<1>1. task' = "TCP_CUT" /\ UNCHANGED <<bios, adapter>>
  BY DEF MA_TCP_Cut
<1>2. Understood'
  <2>1. Understood
    BY AllUnderstood
  <2> QED
    BY <1>1, <2>1 DEF Understood, bios, adapter, Heard, Dialogue, open
<1>3. Elsewhere'
  BY <1>1 DEF Elsewhere, MailTasks
<1> QED
  BY <1>1, <1>2, <1>3, ElsewhereTalks, KnowsElse

LEMMA GameTalk ==
  ASSUME "abandoned" \notin Risks, "refused" \notin Risks, TaskInv, BodyInv, ConnInv, TalkInv, Game
  PROVE  TalkInv'
<1>1. Talk' /\ KnowsGame'
  <2>1. CASE MA_TCP_Cut
    BY <2>1, CutTalk
  <2>2. CASE ~MA_TCP_Cut
    BY <2>2, GameCalls, MailCallTalk, OtherCallTalk
  <2> QED
    BY <2>1, <2>2
<1>2. Sequenced'
  <2>1. peer' = peer
    BY GameRestarts DEF Restarts
  <2> QED
    BY <2>1 DEF TalkInv, Sequenced
<1> QED
  BY <1>1, <1>2 DEF Talk, TalkInv

----------------------------------------------------------------------------
(* The answers, and the end of a connection or of the session.             *)

LEMMA SequencedMoves ==
  ASSUME Sequenced, peer \in [Ids -> Waits], NEW id, NEW w, w # "confused", peer' = [peer EXCEPT ![id] = w]
  PROVE  Sequenced'
BY DEF Sequenced

LEMMA AnswerSequenced ==
  ASSUME IInv, Sequenced, Understood, Answer
  PROVE  Sequenced'
<1>0. peer \in [Ids -> Waits] /\ busy /\ (sendCmd = "TCP_CONNECT" => sendText \in DOMAIN Ports)
  BY DEF IInv, TypeOK, TypeAdapter, Running, Sending, Answer, MA_ProcessRecvPacket, SettingsAnswers
<1>1. UNCHANGED peer => Sequenced'
  BY DEF Sequenced
<1>2. ASSUME sendCmd = "TCP_CONNECT", NEW id, Connected(id, sendText) PROVE Sequenced'
  <2>1. DOMAIN Ports = {"own", "SMTP", "POP3", "HTTP"}
    BY DEF Ports
  <2>2. Ports["own"] # "confused" /\ Ports["SMTP"] # "confused" /\ Ports["POP3"] # "confused" /\ Ports["HTTP"] # "confused"
    BY DEF Ports
  <2>3. Ports[sendText] # "confused"
    BY <1>0, <1>2, <2>1, <2>2
  <2> QED
    BY <1>0, <1>2, <2>3, SequencedMoves DEF Connected
<1>3. ASSUME NEW id, Lost(id) PROVE Sequenced'
  BY <1>0, <1>3, SequencedMoves DEF Lost, Closed
<1>4. ASSUME sendSocket \in open, sendCmd = "DATA", NEW chunk, Converse(sendSocket, sendText, chunk) PROVE Sequenced'
  <2>1. Heard(sendSocket, sendText).waits # "confused"
    BY <1>0, <1>4 DEF Understood
  <2>2. peer' = [peer EXCEPT ![sendSocket] = Heard(sendSocket, sendText).waits]
    BY <1>4 DEF Converse
  <2> QED
    BY <1>0, <2>1, <2>2, SequencedMoves
<1>5. ASSUME NEW chunk, HangsUp(sendSocket, sendText, chunk) PROVE Sequenced'
  BY <1>0, <1>5, SequencedMoves DEF HangsUp, Closed
<1>6. AllLost => Sequenced'
  BY DEF AllLost, Sequenced, Closed
<1>7. CASE MA_ProcessRecvPacket
  BY <1>1, <1>2, <1>3, <1>4, <1>5, <1>6, <1>7 DEF MA_ProcessRecvPacket, adapter
<1>8. CASE SettingsAnswers
  BY <1>1, <1>8 DEF SettingsAnswers
<1> QED
  BY <1>7, <1>8 DEF Answer

\* What an answer leaves.
LEMMA AnswerLeaves ==
  ASSUME Answer \/ ServerCloses \/ UNCHANGED vars
  PROVE  /\ UNCHANGED <<task, taskStep, connMode, full, prevBuf, smtpSender, letter, mail, usedSockets, sockets>>
         /\ KnowsGame => KnowsGame'
         /\ KnowsLine => KnowsLine'
         /\ \A q : Awaits(task, Doing, q)' <=> Awaits(task, Doing, q)
         /\ \A Q : Stops(task, taskStep, Q)' <=> Stops(task, taskStep, Q)
         /\ Texts' <=> Texts
<1>1. UNCHANGED <<task, taskStep, connMode, full, prevBuf, usedSockets, sockets>>
  BY AnswersStay
<1>2. UNCHANGED <<smtpSender, letter, mail>>
  BY DEF Answer, ServerCloses, vars, MA_ProcessRecvPacket, SettingsAnswers, mailVars, flags, socketVars
<1>3. Doing' = Doing
  BY <1>1, <1>2 DEF Doing
<1>4. KnowsGame => KnowsGame'
  BY <1>1, <1>2, <1>3 DEF KnowsGame, Idle
<1>5. \A q : Awaits(task, Doing, q)' <=> Awaits(task, Doing, q)
  BY <1>1, <1>3 DEF Awaits
<1>6. \A Q : Stops(task, taskStep, Q)' <=> Stops(task, taskStep, Q)
  BY <1>1, <1>2 DEF Stops
<1>7. Texts' <=> Texts
  BY <1>1, <1>2, <1>3 DEF Texts
<1>8. KnowsLine => KnowsLine'
  BY <1>1, <1>5 DEF KnowsLine
<1> QED
  BY <1>1, <1>2, <1>4, <1>5, <1>6, <1>7, <1>8

\* A reply, or a part of it.
LEMMA ReplyComes ==
  ASSUME sent \in Nat, NEW chunk \in Says("reply")
  PROVE  /\ chunk.line \in {"none", "part", "good", "bad"}
         /\ Owes("reply", chunk) = IF chunk.line \in {"good", "bad"} THEN "nothing" ELSE "reply"
<1>1. Says("reply") = Lines({"none", "part", "good", "bad"})
  BY DEF Says
<1>2. chunk.line \in {"none", "part", "good", "bad"}
  BY <1>1 DEF Lines
<1>3. CASE chunk.line \in {"good", "bad"}
  BY <1>2, <1>3 DEF Owes
<1>4. CASE chunk.line \notin {"good", "bad"}
  BY <1>2, <1>4 DEF Owes
<1> QED
  BY <1>2, <1>3, <1>4

\* A piece of a mail.
LEMMA MailComes ==
  ASSUME TypeAdapter, NEW owes \in {"nothing", "mail", "body"}, NEW chunk \in Says(owes),
         owes # "nothing" => sent < MailLen
  PROVE  /\ chunk.bytes \in Seq(Nat)
         /\ Owes(owes, chunk) \in {"nothing", "mail", "body"}
         /\ Owes(owes, chunk) # "nothing" => sent + Len(chunk.bytes) < MailLen
         /\ chunk.bytes # <<>> => chunk.bytes[Len(chunk.bytes)] = sent + Len(chunk.bytes)
<1>0. sent \in Nat /\ MailLen \in Nat /\ owes \in Dues
  BY ServersAssumption DEF TypeAdapter, Dues
<1>1. chunk.bytes \in Seq(Nat) /\ Follow(chunk.bytes, sent)
  BY <1>0, SaysTyped, SaysWhat DEF Chunks
<1>2. chunk.bytes # <<>> => chunk.bytes[Len(chunk.bytes)] = sent + Len(chunk.bytes)
  BY <1>1 DEF Follow
<1>3. CASE owes = "nothing"
  <2>1. chunk = NoChunk
    BY <1>0, <1>3, SaysWhat
  <2>2. Owes("nothing", chunk) = "nothing"
    BY DEF Owes
  <2> QED
    BY <1>1, <1>2, <1>3, <2>2
<1>4. ASSUME owes # "nothing", NEW S, chunk \in Follows(S, MailLen)
      PROVE  sent + Len(chunk.bytes) <= MailLen
  <2>1. PICK l \in S, k \in {n \in ChunkSizes : sent + n <= MailLen} : chunk = [line |-> l, bytes |-> Bytes(k)]
    BY <1>4 DEF Follows
  <2>2. k \in Nat /\ sent + k <= MailLen /\ chunk.bytes = Bytes(k)
    BY <2>1, ServersAssumption
  <2>3. Len(chunk.bytes) = k
    BY <2>2 DEF Bytes
  <2> QED
    BY <2>2, <2>3
<1>5. ASSUME NEW S, chunk \in Lines(S) PROVE chunk.bytes = <<>> /\ chunk.line \in S
  BY <1>5 DEF Lines
<1>6. CASE owes = "body"
  <2>1. chunk \in Follows({"none"}, MailLen)
    BY <1>6 DEF Says
  <2>2. sent + Len(chunk.bytes) <= MailLen
    BY <1>4, <1>6, <2>1
  <2>3. Owes("body", chunk) = IF sent + Len(chunk.bytes) = MailLen THEN "nothing" ELSE "body"
    BY DEF Owes
  <2> QED
    BY <1>0, <1>1, <1>2, <1>6, <2>2, <2>3
<1>7. CASE owes = "mail"
  <2>1. chunk \in Lines({"none", "part", "cut", "bad"}) \cup Follows({"good"}, MailLen)
    BY <1>7 DEF Says
  <2>2. CASE chunk \in Lines({"none", "part", "cut", "bad"})
    <3>1. chunk.bytes = <<>> /\ chunk.line \in {"none", "part", "cut", "bad"} /\ Len(<<>>) = 0
      BY <1>5, <2>2
    <3>2. Owes("mail", chunk) \in {"nothing", "mail", "body"}
      BY <3>1 DEF Owes
    <3> QED
      BY <1>0, <1>1, <1>2, <1>7, <3>1, <3>2
  <2>3. CASE chunk \in Follows({"good"}, MailLen)
    <3>1. chunk.line = "good"
      BY <2>3 DEF Follows
    <3>2. sent + Len(chunk.bytes) <= MailLen
      BY <1>4, <1>7, <2>3
    <3>3. Owes("mail", chunk) = IF sent + Len(chunk.bytes) = MailLen THEN "nothing" ELSE "body"
      BY <3>1 DEF Owes
    <3> QED
      BY <1>0, <1>1, <1>2, <1>7, <3>2, <3>3
  <2> QED
    BY <2>1, <2>2, <2>3
<1> QED
  BY <1>3, <1>6, <1>7

\* What the server says to what has been said to it.
LEMMA SpokenTalk ==
  ASSUME TaskInv, TalkInv, busy, ~busy', Spoke, Answer
  PROVE  MailTalk'
<1>0. /\ TypeAdapter /\ There /\ MailTalk /\ TaskAlone /\ sent \in Nat /\ sent' = sent + Len(recvChunk'.bytes)
      /\ recvChunk' \in Says(Heard0.owes) /\ Peer0' = Heard0.waits
      /\ (Peer0 # "own" => due' = Owes(Heard0.owes, recvChunk'))
  BY DEF Spoke, TaskInv, IInv, TypeOK, TypeAdapter, Running, TalkInv
<1>1. task # "NONE" /\ task' = task /\ taskStep' = taskStep
  BY <1>0, AnswerLeaves DEF TaskAlone
<1>2. \A o, w : Posing(o, w) => Heard0.owes = o /\ Heard0.waits = w /\ Peer0 # "own"
  <2> SUFFICES ASSUME NEW o, NEW w, Posing(o, w) PROVE Heard0.owes = o /\ Heard0.waits = w /\ Peer0 # "own"
    OBVIOUS
  <2>1. due = "nothing" /\ <<Peer0, sendText, o, w>> \in MailDialogue
    BY DEF Posing
  <2>2. Peer0 # "own"
    BY <2>1, MailTexts DEF MailPeers
  <2>3. peer[sockets[0]] = Peer0
    BY DEF Peer0
  <2>4. Heard(sockets[0], sendText).owes = o /\ Heard(sockets[0], sendText).waits = w
    BY <1>0, <2>1, <2>3, MailHears
  <2> QED
    BY <2>2, <2>4 DEF Heard0
<1>3. sendText = "empty" /\ Peer0 # "own" => Heard0.owes = due /\ Heard0.waits = Peer0
  BY QuietHears DEF Heard0, Peer0
<1>4. \A q \in Waits : Awaits(task, Doing, q)' => Replying(q)'
  <2> SUFFICES ASSUME NEW q \in Waits, Awaits(task, Doing, q) PROVE Replying(q)'
    BY AnswerLeaves
  <2>1. Posing("reply", q) \/ Replying(q)
    BY <1>0 DEF MailTalk
  <2>2. q # "own"
    BY AwaitsOnce
  <2>3. Heard0.owes = "reply" /\ Heard0.waits = q /\ Peer0 # "own"
    <3>1. CASE Posing("reply", q)
      BY <1>2, <3>1
    <3>2. CASE Replying(q)
      BY <1>3, <2>2, <3>2 DEF Replying
    <3> QED
      BY <2>1, <3>1, <3>2
  <2>4. due' = IF recvChunk'.line \in {"good", "bad"} THEN "nothing" ELSE "reply"
    BY <1>0, <2>3, ReplyComes
  <2> QED
    BY <1>0, <2>3, <2>4 DEF Replying
<1>5. \A q : ~Stops(task, taskStep, q)' \/ q \notin AllStops
  <2> SUFFICES ASSUME NEW q \in AllStops, Stops(task, taskStep, q) PROVE FALSE
    BY AnswerLeaves
  <2> QED
    BY <1>0 DEF MailTalk, Ready
<1>6. Texts' => Ready({"smtp_text"})'
  <2> SUFFICES ASSUME Texts PROVE Ready({"smtp_text"})'
    BY AnswerLeaves
  <2>1. Posing("nothing", "smtp_text")
    BY <1>0 DEF MailTalk, Ready
  <2>2. Heard0.owes = "nothing" /\ Heard0.waits = "smtp_text" /\ Peer0 # "own"
    BY <1>2, <2>1
  <2>3. Owes("nothing", recvChunk') = "nothing"
    BY DEF Owes
  <2> QED
    BY <1>0, <2>2, <2>3 DEF Ready
<1>7. RetrTalk'
  <2> SUFFICES ASSUME task = "POP3_RETR" PROVE RetrTalk'
    BY <1>1 DEF RetrTalk
  <2>1. taskStep # 0
    <3>1. {"pop3_ready"} \in AllStops /\ (taskStep = 0 => Stops(task, taskStep, {"pop3_ready"}))
      BY DEF AllStops, Stops
    <3> QED
      BY <1>0, <3>1 DEF MailTalk, Ready
  <2>2. CASE taskStep = 1
    <3>1. (Posing("mail", "pop3_ready") /\ sent = 0) \/ (Mailing /\ sendText = "empty")
      BY <1>0, <2>2 DEF MailTalk, RetrTalk
    <3>2. MailLen > 0 /\ MailLen \in Nat
      BY ServersAssumption
    <3>3. /\ Heard0.owes \in {"nothing", "mail", "body"} /\ Heard0.waits = "pop3_ready" /\ Peer0 # "own"
          /\ (Heard0.owes # "nothing" => sent < MailLen)
      <4>1. CASE Posing("mail", "pop3_ready") /\ sent = 0
        BY <1>2, <3>2, <4>1
      <4>2. CASE Mailing /\ sendText = "empty"
        BY <1>3, <4>2 DEF Mailing
      <4> QED
        BY <3>1, <4>1, <4>2
    <3>4. /\ due' \in {"nothing", "mail", "body"} /\ (due' # "nothing" => sent' < MailLen)
          /\ (recvChunk'.bytes # <<>> => recvChunk'.bytes[Len(recvChunk'.bytes)] = sent')
      BY <1>0, <3>3, MailComes
    <3> QED
      BY <1>0, <1>1, <2>2, <3>3, <3>4 DEF RetrTalk, Mailing, LastByte
  <2> QED
    BY <1>1, <2>1, <2>2 DEF RetrTalk
<1>8. RestTalk'
  BY <1>1 DEF RestTalk, Idle
<1> QED
  BY <1>4, <1>5, <1>6, <1>7, <1>8 DEF MailTalk

LEMMA AnswerTalk ==
  ASSUME TaskInv, BodyInv, ConnInv, TalkInv, Answer
  PROVE  TalkInv'
<1>0. /\ busy /\ AnswerMoves /\ IInv /\ Unclosed /\ Out /\ KnowsLine' /\ KnowsGame' /\ task' = task /\ taskStep' = taskStep
  BY AnswerLive, AnswerLeaves DEF TaskInv, ConnInv, BodyInv, TalkInv
<1>1. Sequenced'
  BY <1>0, AllUnderstood, AnswerSequenced DEF TalkInv
<1>2. Understood'
  BY <1>0 DEF AnswerMoves, Understood
<1>3. task # "NONE"
  BY <1>0 DEF IInv, Running, TaskAlone
<1>4. There' => MailTalk'
  <2>1. CASE task \in MailTasks \cup {"OFFLINE"} /\ Uses(task, taskStep)
    <3>1. sendCmd = "DATA" /\ sendSocket = sockets[0] /\ usedSockets[0]
      BY <1>0, <2>1 DEF ConnInv, ListInv, UseList, Talks, InSlot0
    <3>2. ~busy' /\ (~There' \/ Spoke)
      BY <1>0, <3>1, Conversed
    <3> QED
      BY <1>0, <3>2, SpokenTalk
  <2>2. CASE ~(task \in MailTasks \cup {"OFFLINE"} /\ Uses(task, taskStep))
    <3>1. Elsewhere'
      <4>1. CASE task \in MailTasks
        <5>1. task \notin Connects \cup Quits => taskStep = 241
          BY <2>2, <4>1, MailPhases
        <5>2. task \in Quits => taskStep \in {3, 241}
          BY <2>2, <4>1, MailPhases
        <5>3. task \in Connects => taskStep \in {0, 1, 2, 241}
          BY <2>2, <4>1, MailPhases
        <5> QED
          BY <1>0, <4>1, <5>1, <5>2, <5>3 DEF Elsewhere
      <4>2. CASE task = "OFFLINE"
        <5>1. taskStep \in (0..3) \cup {103}
          BY <2>2, <4>2 DEF Uses, ConnInv, ListInv, EndList
        <5> QED
          BY <1>0, <4>2, <5>1 DEF Elsewhere
      <4>3. CASE task \notin MailTasks \cup {"OFFLINE"}
        BY <1>0, <1>3, <4>3 DEF Elsewhere
      <4> QED
        BY <4>1, <4>2, <4>3
    <3> QED
      BY <3>1, ElsewhereTalks
  <2> QED
    BY <2>1, <2>2
<1> QED
  BY <1>0, <1>1, <1>2, <1>4 DEF TalkInv

\* A server closes a page's connection.
LEMMA ClosingTalk ==
  ASSUME TaskInv, ConnInv, TalkInv, ServerCloses
  PROVE  TalkInv'
<1>0. PICK id \in Ids \ Used : peer[id] = "http_answer" /\ peer' = [peer EXCEPT ![id] = "closed"]
  BY DEF ServerCloses, Closed
<1>1. peer \in [Ids -> Waits] /\ TypeList
  BY DEF TaskInv, IInv, TypeOK, TypeAdapter
<1>2. open' = open \ {id}
  BY <1>0, <1>1, PeerMoves
<1>3. UNCHANGED <<due, sent, answered, bios, api, flags>>
  BY DEF ServerCloses
<1>4. usedSockets[0] => sockets[0] # id
  BY <1>0, <1>1, SlotTyped DEF Used
<1>5. UNCHANGED <<task, taskStep, connMode, full, prevBuf, smtpSender, letter, mail, usedSockets, sockets>>
      /\ KnowsGame' /\ KnowsLine'
  BY AnswerLeaves DEF TalkInv
<1>6. There' => There /\ Peer0' = Peer0
  <2>1. There' => There /\ sockets[0] \in Ids /\ sockets[0] # id
    BY <1>2, <1>4, <1>5 DEF There, open
  <2>2. There' => peer'[sockets[0]] = peer[sockets[0]]
    BY <1>0, <1>1, <2>1
  <2> QED
    BY <1>5, <2>1, <2>2 DEF Peer0
<1>7. Sequenced'
  BY <1>0, <1>1, SequencedMoves DEF TalkInv
<1>8. task' # HttpTask => Understood'
  <2> SUFFICES ASSUME task # HttpTask, busy, sendCmd = "DATA", sendSocket \in open'
               PROVE  Heard(sendSocket, sendText)'.waits # "confused"
    BY <1>3, <1>5 DEF Understood, bios
  <2>1. sendSocket \in open /\ sendSocket \in Ids /\ sendSocket # id
    BY <1>2 DEF open
  <2>2. peer'[sendSocket] = peer[sendSocket]
    BY <1>0, <1>1, <2>1
  <2>3. Heard(sendSocket, sendText)' = Heard(sendSocket, sendText)
    BY <1>3, <2>2 DEF Heard, Dialogue, bios
  <2> QED
    BY <2>1, <2>3 DEF TalkInv, Understood
<1>9. There' => MailTalk'
  <2> SUFFICES ASSUME There' PROVE MailTalk'
    OBVIOUS
  <2>0. MailTalk /\ Peer0' = Peer0 /\ UNCHANGED <<due, sent, busy, sendText, recvChunk, task, taskStep, connMode, full, letter>>
    BY <1>3, <1>5, <1>6 DEF TalkInv, bios
  <2>1. \A o, q : Posing(o, q)' <=> Posing(o, q)
    BY <2>0 DEF Posing
  <2>2. \A q : Replying(q)' <=> Replying(q)
    BY <2>0 DEF Replying
  <2>3. \A Q : Ready(Q)' <=> Ready(Q)
    BY <2>0 DEF Ready
  <2>4. (Mailing' <=> Mailing) /\ (LastByte' <=> LastByte)
    BY <2>0 DEF Mailing, LastByte
  <2>5. RetrTalk'
    BY <2>0, <2>1, <2>4 DEF MailTalk, RetrTalk
  <2>6. RestTalk'
    BY <2>0, <2>3, <2>4 DEF MailTalk, RestTalk, Idle
  <2> QED
    BY <2>0, <2>1, <2>2, <2>3, <2>5, <2>6, AnswerLeaves DEF MailTalk
<1> QED
  BY <1>5, <1>7, <1>8, <1>9 DEF TalkInv

\* The session ends.
LEMMA LeavingTalk ==
  ASSUME SessionEnds
  PROVE  TalkInv'
<1>1. task' = "NONE" /\ connMode' = "OFFLINE" /\ ~busy' /\ peer' = [id \in Ids |-> "closed"]
  BY DEF SessionEnds, AllLost, Closed
<1>2. Sequenced'
  BY <1>1 DEF Sequenced
<1>3. Elsewhere'
  BY <1>1 DEF Elsewhere
<1>4. KnowsGame'
  BY <1>1, KnowsElse
<1> QED
  BY <1>1, <1>2, <1>3, <1>4, ElsewhereTalks DEF TalkInv, Talk

LEMMA SameTalk ==
  ASSUME TalkInv, UNCHANGED vars
  PROVE  TalkInv'
<1>1. /\ UNCHANGED <<task, taskStep, connMode, full, prevBuf, smtpSender, letter, mail, usedSockets, sockets>>
      /\ KnowsGame' /\ KnowsLine'
  BY AnswerLeaves DEF TalkInv
<1>2. UNCHANGED <<busy, sendCmd, sendSocket, sendText, recvChunk, peer, due, sent, answered>>
  BY DEF vars, socketVars, bios, adapter
<1>3. Sequenced' /\ (There' <=> There)
  BY <1>1, <1>2 DEF TalkInv, Sequenced, There, open
<1>5. task' # HttpTask => Understood'
  <2>1. \A id, text : Heard(id, text)' = Heard(id, text)
    BY <1>2 DEF Heard, Dialogue
  <2> QED
    BY <1>1, <1>2, <2>1 DEF TalkInv, Understood, open
<1>4. There' => MailTalk'
  <2> SUFFICES ASSUME There' PROVE MailTalk'
    OBVIOUS
  <2>0. MailTalk /\ Peer0' = Peer0 /\ UNCHANGED <<task, taskStep, connMode, full, letter>>
    BY <1>1, <1>2, <1>3 DEF TalkInv, Peer0
  <2>1. \A o, q : Posing(o, q)' <=> Posing(o, q)
    BY <1>2, <2>0 DEF Posing
  <2>2. \A q : Replying(q)' <=> Replying(q)
    BY <1>2, <2>0 DEF Replying
  <2>3. \A Q : Ready(Q)' <=> Ready(Q)
    BY <1>2, <2>0 DEF Ready
  <2>4. (Mailing' <=> Mailing) /\ (LastByte' <=> LastByte)
    BY <1>2, <2>0 DEF Mailing, LastByte
  <2>5. RetrTalk'
    BY <1>1, <1>2, <2>0, <2>1, <2>4 DEF MailTalk, RetrTalk
  <2>6. RestTalk'
    BY <1>2, <2>0, <2>3, <2>4 DEF MailTalk, RestTalk, Idle
  <2> QED
    BY <2>0, <2>1, <2>2, <2>3, <2>5, <2>6, AnswerLeaves DEF MailTalk
<1> QED
  BY <1>1, <1>3, <1>4, <1>5 DEF TalkInv

LEMMA TasksTalk ==
  ASSUME "stale_end" \notin Risks, TaskInv, TaskInv', FullInv, ConnInv, ConnInv', TalkInv, MAAPI_Main
  PROVE  TalkInv'
<1>1. KnowsGame'
  BY TasksKnow DEF TalkInv, ConnInv
<1>2. Sequenced'
  BY TasksKeepAdapter DEF TalkInv, Sequenced, adapter
<1>3. CASE ~SocketTasks /\ ~MailTasksStep
  BY <1>1, <1>2, <1>3, AwayTalk DEF TalkInv
<1>4. CASE MATASK_Offline \/ SocketTasks \/ MailTasksStep
  <2>1. Talk'
    BY <1>4, OfflineTalk, TcpTalk, MailTasksTalk
  <2> QED
    BY <1>1, <1>2, <2>1 DEF TalkInv, Talk
<1> QED
  BY <1>3, <1>4

LEMMA TalkInit == Init => TalkInv
<1> SUFFICES ASSUME Init PROVE TalkInv
  OBVIOUS
<1>1. /\ task = "NONE" /\ connMode = "OFFLINE" /\ usedSockets = [i \in Slots |-> FALSE] /\ taskStep = 0
      /\ peer = [id \in Ids |-> "closed"] /\ ~busy
  BY DEF Init, SocketsInit, ServersInit, Closed
<1>2. ~There
  BY <1>1 DEF There, Slots, NUM_SOCKETS
<1>3. Doing = 0
  BY <1>1 DEF Doing
<1>4. \A q : ~Awaits(task, Doing, q)
  BY <1>1, AwaitsOnce DEF MailTasks, Questions
<1> QED
  BY <1>1, <1>2, <1>4 DEF TalkInv, Sequenced, Understood, KnowsLine, KnowsGame, Idle

LEMMA TalkInvKept ==
  ASSUME MaxHeld <= 1, Risks = {}, TaskInv, BodyInv, FullInv, ConnInv, TalkInv, [Next]_vars
  PROVE  TalkInv'
<1>1. TaskInv' /\ ConnInv'
  BY TaskInvKept, ConnInvKept
<1>2. CASE Game
  BY <1>2, GameTalk
<1>3. CASE MAAPI_Main
  BY <1>1, <1>3, TasksTalk
<1>4. CASE Answer
  BY <1>4, AnswerTalk
<1>5. CASE ServerCloses
  BY <1>5, ClosingTalk
<1>6. CASE Leaves
  BY <1>6, LeavingTalk DEF Leaves
<1>7. CASE UNCHANGED vars
  BY <1>7, SameTalk
<1> QED
  BY <1>2, <1>3, <1>4, <1>5, <1>6, <1>7 DEF Next

LEMMA TalkInvAlways ==
  ASSUME MaxHeld <= 1, Risks = {}
  PROVE  Spec => [](TaskInv /\ ConnInv /\ TalkInv)
<1>1. TaskInv /\ BodyInv /\ FullInv /\ ConnInv /\ TalkInv /\ [Next]_vars => TalkInv'
  BY TalkInvKept
<1>2. TaskInv /\ FullInv /\ [Next]_vars => FullInv'
  BY BufferInvKept DEF TaskInv
<1>3. Init => FullInv
  BY BufferInit
<1>4. Spec => []BodyInv
  BY BodiesInit, BodyInvKept, TaskInvAlways, PTL DEF Spec
<1>5. Spec => [](TaskInv /\ ConnInv)
  BY ConnInvAlways
<1>6. Spec => []FullInv
  BY <1>2, <1>3, TaskInvAlways, PTL DEF Spec
<1> QED
  BY <1>1, <1>4, <1>5, <1>6, TalkInit, PTL DEF Spec

\* SessionMatches: between two mail calls the connection in slot 0 is open, and
\* its server stands where the mode says: an SMTP server where the letter's last
\* call has left it, a POP3 server where it takes commands, with nothing left to
\* say unless the game has a full buffer to take.  MA_SMTP_Sender, MA_SMTP_Send
\* and the POP3 calls may then begin with a command of their own.
THEOREM SessionsSessionMatches ==
  ASSUME MaxHeld <= 1, Risks = {}
  PROVE  Spec => []SessionMatches
<1>1. TaskInv /\ ConnInv /\ TalkInv => SessionMatches
  <2> SUFFICES ASSUME TaskInv, ConnInv, TalkInv, Idle, connMode \in {"SMTP", "POP3"}
               PROVE  /\ usedSockets[0] /\ sockets[0] \in open
                      /\ peer[sockets[0]] \in IF connMode = "POP3" THEN {"pop3_ready"}
                                              ELSE {"smtp_ready", "smtp_to", "smtp_text"}
                      /\ full \/ due = "nothing"
    BY DEF SessionMatches
  <2>1. usedSockets[0] /\ sockets[0] \in open
    BY DEF ConnInv, ListInv, RestList, InSlot0, Idle
  <2>2. RestTalk
    BY <2>1 DEF TalkInv, There, MailTalk
  <2>3. letter \in {"none", "addressed", "begun"}
    BY DEF TaskInv, IInv, TypeOK, TypeMail
  <2>4. CASE connMode = "SMTP"
    <3>1. Ready({LetterState[letter]})
      BY <2>2, <2>4 DEF RestTalk
    <3>2. LetterState[letter] \in {"smtp_ready", "smtp_to", "smtp_text"}
      BY <2>3 DEF LetterState
    <3> QED
      BY <2>1, <2>4, <3>1, <3>2 DEF Ready, Peer0
  <2>5. CASE connMode = "POP3"
    BY <2>1, <2>2, <2>5 DEF RestTalk, Mailing, Peer0
  <2> QED
    BY <2>4, <2>5
<1> QED
  BY <1>1, TalkInvAlways, PTL

\* Sequenced: no server is ever told what its protocol does not expect then. A
\* task says its next line only when the whole reply to the line before has been
\* read, whatever pieces it came in, and the text of a letter only after DATA; a
\* call left early (by MA_TCP_Cut, an error, the end of the session) leaves no
\* connection in which another goes on.
THEOREM SessionsSequenced ==
  ASSUME MaxHeld <= 1, Risks = {}
  PROVE  Spec => []Sequenced
<1>1. TalkInv => Sequenced
  BY DEF TalkInv
<1> QED
  BY <1>1, TalkInvAlways, PTL

----------------------------------------------------------------------------
(* A mail, from the server to the buffer of the game.                      *)

\* Of a mail that goes into one buffer, but for what its reply line has swallowed:
\* the bytes in the buffer, those that have come and are not looked at, and what
\* the flags tell then.
MailHeld == Holds(mail.missed, mail.missed) /\ Len(recv.cells) = recv.size

MailCounted ==
  /\ recv.at = recv.size /\ recv.at + recv.room = recv.given /\ recv.given # 0
  /\ ~respFound => recv.size = 0
  /\ ~bufferEmpty

\* The reply line is over, or its end is what comes next.
LineOver == respFound \/ prevBuf.line = "cut" \/ recvChunk.line \in {"good", "cut"}

MailComing ==
  /\ LineOver => ComingAfter(mail.missed, recvChunk.bytes)
  /\ Len(recvChunk.bytes) # 1
  /\ recvChunk.line \in {"part", "cut"} => recvChunk.bytes = <<>>
  /\ due = "mail" => sent = 0 /\ mail.missed = 0 /\ recvChunk.bytes = <<>>
  /\ busy /\ sendText # "empty" => mail.missed = 0

MailBody ==
  task = "POP3_RETR" /\ recv.wanted /\ recv.taken = 0 =>
    /\ taskStep \in {0, 1, 100} => MailHeld
    /\ taskStep \in {0, 1} => MailCounted
    /\ taskStep = 0 => ~respFound /\ mail.missed = 0
    /\ taskStep = 1 /\ There => MailComing
    /\ taskStep = 100 => recv.size + mail.missed = MailLen

\* A game that is asked for another buffer has something in its first.
WaitMail == full /\ connMode = "POP3" => Taken > 0

MailInv == MailBody /\ WaitMail

\* What a buffer holds that is all in order.
LEMMA MailWhole ==
  ASSUME NEW cells \in Seq(Nat), NEW m \in Nat, NEW n \in Nat, Len(cells) = n,
         \A i \in 1 .. n : cells[i] = m + i
  PROVE  cells = [i \in 1 .. n |-> m + i]
<1>1. cells = [i \in 1 .. Len(cells) |-> cells[i]]
  OBVIOUS
<1> QED
  BY <1>1

\* What comes next when the first j bytes that have come are missed.
LEMMA ComingLater ==
  ASSUME NEW s \in Seq(Nat), NEW m \in Nat, NEW j \in Nat, j <= Len(s), Taken \in Nat, ComingAfter(m, s)
  PROVE  /\ ComingAfter(m + j, SubSeq(s, j + 1, Len(s)))
         /\ Taken + (m + j) + Len(SubSeq(s, j + 1, Len(s))) = sent
<1> DEFINE rest == SubSeq(s, j + 1, Len(s))
<1>0. Len(s) \in Nat
  OBVIOUS
<1>1. Len(rest) = Len(s) - j /\ \A i \in 1 .. Len(s) - j : rest[i] = s[j + i]
  BY PartTyped, PartBytes, Zenon
<1>2. Taken + m + Len(s) = sent /\ \A i \in 1 .. Len(s) : s[i] = Taken + m + i
  BY DEF ComingAfter, Follow
<1>3. ASSUME NEW i \in 1 .. Len(s) - j PROVE rest[i] = Taken + (m + j) + i
  <2>1. j + i \in 1 .. Len(s) /\ i \in Nat
    BY <1>0
  <2> QED
    BY <1>1, <1>2, <2>1
<1> HIDE DEF rest
<1>4. Taken + (m + j) + Len(rest) = sent
  BY <1>0, <1>1, <1>2
<1> QED
  BY <1>1, <1>3, <1>4 DEF ComingAfter, Follow, rest

LEMMA StoredMail ==
  ASSUME TypeRecv, sent \in Nat, NEW bytes \in Seq(Nat), NEW m \in Nat,
         recv.size = 0 \/ m = mail.missed, MailHeld, MailCounted, ComingAfter(m, bytes),
         Fits(bytes), Store(bytes)
  PROVE  /\ Holds(m, m)' /\ Len(recv'.cells) = recv'.size /\ Taken' + m = sent
         /\ recv'.at = recv'.size /\ recv'.at + recv'.room = recv'.given /\ recv'.given # 0
         /\ recv'.taken = recv.taken /\ recv'.wanted = recv.wanted
<1> DEFINE all == Write(recv.cells, recv.at, bytes)
<1>1. recv.at = recv.size /\ recv.at + recv.room = recv.given /\ recv.given # 0
  BY DEF MailCounted
<1>2. Holds(m, m)
  BY DEF MailHeld, Holds
<1>3. Holds(m, m)' /\ recv'.at = recv'.size /\ Taken' + m = sent /\ recv'.wanted = recv.wanted
  BY <1>1, <1>2, StoredBodies
<1>4. /\ recv'.cells = all /\ recv'.at = recv.at + Len(bytes) /\ recv'.size = recv.size + Len(bytes)
      /\ recv'.room = recv.room - Len(bytes) /\ recv'.given = recv.given /\ recv'.taken = recv.taken
  BY DEF Store, TypeRecv
<1>5. recv.cells \in Seq(Nat) /\ recv.at \in Nat /\ recv.size \in Nat /\ recv.room \in Nat /\ Len(bytes) \in Nat
  BY DEF TypeRecv
<1>6. Len(all) = recv.at + Len(bytes)
  <2>1. Len(all) = IF recv.at + Len(bytes) > Len(recv.cells) THEN recv.at + Len(bytes) ELSE Len(recv.cells)
    BY <1>5, WriteLen
  <2>2. Len(recv.cells) = recv.size
    BY DEF MailHeld
  <2> QED
    BY <1>1, <1>5, <2>1, <2>2
<1> QED
  BY <1>1, <1>3, <1>4, <1>5, <1>6

LEMMA FilledMail ==
  ASSUME TypeRecv, recv.taken = 0 => MailCounted, NEW chunk, Overflow(chunk)
  PROVE  Taken' > 0 /\ task' = "NONE"
<1>1. recv'.size = recv.size + recv.room /\ recv'.taken = recv.taken /\ task' = "NONE"
  BY DEF Overflow, KeepRest, TypeRecv
<1>2. recv.size \in Nat /\ recv.room \in Nat /\ recv.taken \in Nat /\ recv.at \in Nat /\ recv.given \in Nat
  BY DEF TypeRecv
<1>3. recv.taken = 0 => recv.size + recv.room > 0
  BY <1>2 DEF MailCounted
<1> QED
  BY <1>1, <1>2, <1>3 DEF Taken

\* What comes of a mail: its first bytes with the reply line.
LEMMA MailArrives ==
  ASSUME 1 \notin ChunkSizes, TypeAdapter, NEW owes \in {"nothing", "mail", "body"}, NEW chunk \in Says(owes)
  PROVE  /\ Len(chunk.bytes) # 1
         /\ chunk.line \in {"good", "cut"} => owes = "mail"
         /\ chunk.line \in {"part", "cut"} => chunk.bytes = <<>>
         /\ Owes(owes, chunk) = "mail" => owes = "mail" /\ chunk.bytes = <<>>
<1>1. ASSUME NEW S, chunk \in Lines(S) PROVE chunk.bytes = <<>> /\ Len(chunk.bytes) = 0 /\ chunk.line \in S
  BY <1>1 DEF Lines
<1>2. ASSUME NEW S, chunk \in Follows(S, MailLen) PROVE Len(chunk.bytes) # 1 /\ chunk.line \in S
  <2>1. PICK l \in S, k \in {n \in ChunkSizes : sent + n <= MailLen} : chunk = [line |-> l, bytes |-> Bytes(k)]
    BY <1>2 DEF Follows
  <2>2. k \in Nat /\ k # 1 /\ chunk.bytes = Bytes(k) /\ chunk.line = l
    BY <2>1, ServersAssumption
  <2>3. Len(chunk.bytes) = k
    BY <2>2 DEF Bytes
  <2> QED
    BY <2>2, <2>3
<1>3. CASE owes = "nothing"
  <2>1. chunk.line = "none" /\ chunk.bytes = <<>> /\ Len(<<>>) = 0
    BY <1>3 DEF Says, NoChunk
  <2>2. Owes("nothing", chunk) = "nothing"
    BY DEF Owes
  <2> QED
    BY <1>3, <2>1, <2>2
<1>4. CASE owes = "body"
  <2>1. chunk \in Follows({"none"}, MailLen)
    BY <1>4 DEF Says
  <2>2. Len(chunk.bytes) # 1 /\ chunk.line = "none"
    BY <1>2, <2>1
  <2>3. Owes("body", chunk) \in {"nothing", "body"}
    BY DEF Owes
  <2> QED
    BY <1>4, <2>2, <2>3
<1>5. CASE owes = "mail"
  <2>1. chunk \in Lines({"none", "part", "cut", "bad"}) \cup Follows({"good"}, MailLen)
    BY <1>5 DEF Says
  <2>2. CASE chunk \in Lines({"none", "part", "cut", "bad"})
    BY <1>1, <1>5, <2>2
  <2>3. CASE chunk \in Follows({"good"}, MailLen)
    <3>1. Len(chunk.bytes) # 1 /\ chunk.line = "good"
      BY <1>2, <2>3
    <3>2. Owes("mail", chunk) \in {"nothing", "body"}
      BY <3>1 DEF Owes
    <3> QED
      BY <1>5, <3>1, <3>2
  <2> QED
    BY <2>1, <2>2, <2>3
<1> QED
  BY <1>3, <1>4, <1>5

\* A mail's parameters and buffer, while nothing of them changes.
LEMMA MailElse ==
  task' # "POP3_RETR" \/ taskStep' \in {240, 241} => MailBody'
BY DEF MailBody

\* The calls.
LEMMA GameMail ==
  ASSUME Risks = {}, TaskInv, TalkInv, FullInv, WaitMail, Game
  PROVE  MailInv'
<1> DEFINE NotReading == task' # "POP3_RETR" /\ (full' => full /\ UNCHANGED <<recv, connMode>>)
<1>0. TypeRecv /\ Buffers
  BY DEF TaskInv, IInv, TypeOK, Buffers
<1>1. NotReading => MailInv'
  BY MailElse DEF MailInv, WaitMail, Taken
<1> HIDE DEF NotReading
<1>2. CASE MA_TCP_Cut
  BY <1>1, <1>2 DEF MA_TCP_Cut, NotReading
<1>3. task = "NONE" \/ MA_TCP_Cut
  BY GameCalls DEF Calling
<1>4. CASE MA_POP3_Retr \/ MA_POP3_Head
  <2>1. ASSUME NEW text, NEW room \in Rooms, NewMail(text, room), ~bufferEmpty' PROVE MailInv'
    <3>1. task' = "POP3_RETR" /\ taskStep' = 0 /\ ~full' /\ ~respFound' /\ mail'.missed = 0
          /\ recv' = GivenBuffer(room, 0) /\ room \in Nat /\ room # 0
      BY <2>1, CallsMode, ReceiveAssumption DEF NewMail, NoMail
    <3>2. /\ recv'.cells = <<>> /\ recv'.at = 0 /\ recv'.size = 0 /\ recv'.room = room /\ recv'.given = room
          /\ recv'.taken = 0
      BY <3>1 DEF GivenBuffer
    <3>3. MailHeld' /\ MailCounted'
      BY <2>1, <3>1, <3>2 DEF MailHeld, Holds, MailCounted
    <3> QED
      BY <3>1, <3>3 DEF MailInv, MailBody, WaitMail
  <2>2. ASSUME NEW room \in Rooms, SameMail(room) PROVE MailInv'
    <3>0. full /\ connMode = "POP3" /\ connMode' = connMode /\ room \in Nat /\ Taken > 0 /\ Taken \in Nat /\ task = "NONE"
      BY <1>0, <2>2, AtRestCalls, ReceiveAssumption DEF SameMail, WaitMail, TypeRecv, Taken
    <3>1. CASE RestGiven("POP3_RETR", 1, room, FALSE)
      <4>1. recv'.taken = Taken /\ ~full'
        BY <3>1 DEF RestGiven, GivenBuffer
      <4> QED
        BY <3>0, <4>1 DEF MailInv, MailBody, WaitMail
    <3>2. CASE RestFills(room)
      <4>1. recv'.taken = Taken /\ recv'.size = room /\ task' = "NONE"
        BY <3>0, <3>2, CallsMode DEF RestFills, GivenBuffer
      <4>2. Taken' > 0
        BY <3>0, <4>1 DEF Taken
      <4> QED
        BY <4>1, <4>2 DEF MailInv, MailBody, WaitMail
    <3>3. CASE RestRefused("POP3_RETR", 1, room, FALSE)
      <4>1. ~recv'.wanted /\ ~full'
        BY <3>3 DEF RestRefused, GivenBuffer
      <4> QED
        BY <4>1 DEF MailInv, MailBody, WaitMail
    <3> QED
      BY <2>2, <3>1, <3>2, <3>3 DEF SameMail
  <2> QED
    BY <1>4, <2>1, <2>2 DEF MA_POP3_Retr, MA_POP3_Head
<1>5. CASE MA_HTTP_GetPost
  <2>1. NewPage => task' = HttpTask /\ ~full'
    BY CallsMode DEF NewPage
  <2>2. ASSUME NEW room, SamePage(room) PROVE task' # "POP3_RETR" /\ connMode' = "HTTP"
    BY <2>2, SamePageHttp DEF HttpTask
  <2> QED
    BY <1>5, <2>1, <2>2, MailElse DEF MA_HTTP_GetPost, MailInv, WaitMail, HttpTask
<1>6. ASSUME NEW t, t # "POP3_RETR", NEW step, NEW arg, Begin(t, step, arg),
             connMode \in {"OFFLINE", "PPP", "SMTP"} \/ Reading
      PROVE  NotReading
  BY <1>6, CallsMode DEF Begin, FullInv, Reading, NotReading
<1>7. Refuse => NotReading
  BY DEF Refuse, SetApiError, NotReading
<1>8. CASE SocketCalls
  BY <1>1, <1>6, <1>7, <1>8 DEF SocketCalls, MA_TCP_Connect, MA_GetHostAddress, MA_TCP_Disconnect, MA_TCP_SendRecv, AtRest
<1>9. CASE GoesOffline \/ MA_ApiPreExe
  BY <1>1, <1>6, <1>7, <1>9 DEF GoesOffline, MA_Offline, MA_ApiPreExe
<1>10. CASE MAAPI_ErrorCheck /\ recv' = recv /\ ~MA_TCP_Cut
  BY <1>1, <1>3, <1>10 DEF MAAPI_ErrorCheck, api, NotReading
<1>11. CASE MA_SMTP_Connect \/ MA_SMTP_Sender \/ MA_SMTP_Send \/ MA_SMTP_Quit
  <2>1. MA_SMTP_Send => AtRest("SMTP") /\ Begin("SMTP_SEND", 0, 0)
    BY Zenon DEF MA_SMTP_Send
  <2> QED
    BY <1>1, <1>6, <1>11, <2>1 DEF MA_SMTP_Connect, MA_SMTP_Sender, MA_SMTP_Quit, AtRest
<1>12. CASE MA_POP3_Connect \/ MA_POP3_Quit \/ MA_POP3_Stat \/ MA_POP3_List \/ MA_POP3_Dele
  BY <1>1, <1>6, <1>12 DEF MA_POP3_Connect, MA_POP3_Quit, MA_POP3_Stat, MA_POP3_List, MA_POP3_Dele, MA_POP3_Ask, AtRest
<1>13. CASE MA_TelServer \/ MA_GetEEPROMData \/ MA_EEPROMRead \/ MA_EEPROMWrite
  BY <1>1, <1>6, <1>13 DEF MA_TelServer, MA_GetEEPROMData, MA_EEPROMRead, MA_EEPROMWrite, AtRest
<1> QED
  BY <1>2, <1>4, <1>5, <1>8, <1>9, <1>10, <1>11, <1>12, <1>13 DEF Game, MailCalls

\* A reply line that is not whole brings no bytes of the mail.
LEMMA UnendedLine ==
  ASSUME recvChunk \in Chunks, NEW chunk \in SeenAs, chunk.line \in {"none", "part", "cut"}, NewReply,
         recvChunk.line \in {"part", "cut"} => recvChunk.bytes = <<>>
  PROVE  chunk.bytes = <<>> /\ Len(chunk.bytes) = 0
<1>1. NoChunk.bytes = <<>> /\ Len(<<>>) = 0
  BY DEF NoChunk
<1>2. CASE recvChunk.line = "none"
  <2>1. PICK j \in FirstCRLF(recvChunk.bytes) :
          chunk = IF j = 0 THEN NoChunk
                  ELSE [line |-> IF prevBuf.line = "cut" THEN "good" ELSE "bad",
                        bytes |-> SubSeq(recvChunk.bytes, j + 1, Len(recvChunk.bytes))]
    BY <1>2 DEF SeenAs
  <2>2. j # 0 => chunk.line \in {"good", "bad"}
    BY <2>1
  <2> QED
    BY <1>1, <2>1, <2>2
<1>3. CASE recvChunk.line # "none"
  <2>1. chunk = recvChunk
    BY <1>3, SeenParts
  <2> QED
    BY <1>1, <1>3, <2>1
<1> QED
  BY <1>2, <1>3

\* MATASK_POP3_Retr, step 1.
LEMMA StoreMail ==
  ASSUME TaskInv, ConnInv, TalkInv, MailInv, "stale_end" \notin Risks, task = "POP3_RETR", taskStep = 1,
         There, ~busy, ~full, MailRuns("POP3_RETR"), UNCHANGED table, ~bufferEmpty',
         NEW chunk \in SeenAs, RetrStore(chunk),
         mail' = [mail EXCEPT !.missed = @ + Len(recvChunk.bytes) - Len(chunk.bytes)]
  PROVE  MailInv'
<1>0. Attending
  <2>1. Uses(task, taskStep)
    BY MailPhases DEF MailTasks, Connects, Quits
  <2> QED
    BY <2>1, RunsAttends DEF Attending, MailTasks
<1>1. /\ TypeRecv /\ TypeMail /\ recvChunk \in Chunks /\ sent \in Nat
      /\ UNCHANGED <<due, sent>> /\ There' /\ Mailing /\ LastByte
  <2>1. MailTalk /\ (There' <=> There) /\ UNCHANGED <<due, sent>>
    BY <1>0, AttendingFacts
  <2>2. (Posing("mail", "pop3_ready") /\ sent = 0) \/ Mailing
    BY <2>1 DEF MailTalk, RetrTalk
  <2> QED
    BY <2>1, <2>2 DEF MailTalk, RetrTalk, Posing, TaskInv, IInv, TypeOK, TypeRun, TypeAdapter, Chunks
<1>2. /\ chunk \in Chunks /\ chunk.bytes \in Seq(Nat) /\ recvChunk.bytes \in Seq(Nat)
      /\ Len(recvChunk.bytes) - Len(chunk.bytes) \in Nat
  BY <1>1, SeenLength DEF Chunks
<1>3. PICK m \in Nat : m = mail.missed
  BY <1>1 DEF TypeMail
<1>4. PICK m2 \in Nat : m2 = mail'.missed /\ m2 = m + (Len(recvChunk.bytes) - Len(chunk.bytes))
  <2>1. mail'.missed = m + Len(recvChunk.bytes) - Len(chunk.bytes)
    BY <1>1, <1>3 DEF TypeMail
  <2>2. Len(recvChunk.bytes) \in Nat /\ Len(chunk.bytes) \in Nat
    BY <1>2
  <2>3. \A a, b \in Nat : a - b \in Nat => m + a - b = m + (a - b) /\ m + (a - b) \in Nat
    OBVIOUS
  <2>4. mail'.missed = m + (Len(recvChunk.bytes) - Len(chunk.bytes)) /\ mail'.missed \in Nat
    BY <1>2, <2>1, <2>2, <2>3
  <2> QED
    BY <2>4
<1>5. ASSUME recv.wanted, recv.taken = 0
      PROVE  MailHeld /\ MailCounted /\ MailComing
  BY <1>5 DEF MailInv, MailBody
<1>6. ASSUME Poll \/ Goes(240) \/ Goes(100) PROVE WaitMail'
  <2>1. ~full'
    BY <1>6, PartsList DEF Poll
  <2> QED
    BY <2>1 DEF WaitMail
<1>7. ASSUME Poll
      PROVE  /\ taskStep' = 1 /\ busy' /\ sendText' = "empty" /\ recvChunk' = NoChunk
             /\ recvChunk'.line = "none" /\ recvChunk'.bytes = <<>> /\ Len(recvChunk'.bytes) = 0
  <2>1. taskStep' = 1 /\ busy' /\ sendText' = "empty" /\ recvChunk' = NoChunk
    BY <1>7, PartsList DEF Poll
  <2>2. recvChunk'.line = "none" /\ recvChunk'.bytes = <<>> /\ Len(<<>>) = 0
    BY <2>1 DEF NoChunk
  <2> QED
    BY <2>1, <2>2
\* What is to hold when more of the mail is asked for.
<1>8. ASSUME Poll, respFound' \/ prevBuf'.line = "cut" => Taken' + m2 = sent,
             due = "mail" => sent = 0 /\ m2 = 0
      PROVE  MailComing'
  <2>1. LineOver' => ComingAfter(mail.missed, recvChunk.bytes)'
    <3> SUFFICES ASSUME LineOver' PROVE ComingAfter(mail.missed, recvChunk.bytes)'
      OBVIOUS
    <3>1. Taken' + m2 = sent
      BY <1>7, <1>8 DEF LineOver
    <3>2. Taken' + m2 + Len(recvChunk'.bytes) = sent'
      BY <1>1, <1>7, <1>8, <3>1
    <3>3. Follow(recvChunk'.bytes, Taken' + m2)
      BY <1>7, <1>8 DEF Follow
    <3> QED
      BY <1>4, <3>2, <3>3 DEF ComingAfter
  <2>2. due' = "mail" => sent' = 0 /\ mail'.missed = 0
    BY <1>1, <1>4, <1>8
  <2>3. Len(recvChunk'.bytes) # 1 /\ recvChunk'.line \notin {"part", "cut"}
    <3>1. Len(recvChunk'.bytes) = 0 /\ recvChunk'.line = "none"
      BY <1>7, <1>8, Zenon
    <3> QED
      BY <3>1
  <2> QED
    BY <1>7, <1>8, <2>1, <2>2, <2>3, Zenon DEF MailComing
<1>9. CASE Overflow(chunk) /\ NewData
  <2>1. recv.taken = 0 => MailCounted
    BY <1>5, <1>9 DEF NewData
  <2>2. Taken' > 0 /\ task' = "NONE"
    BY <1>1, <1>9, <2>1, FilledMail
  <2> QED
    BY <2>2 DEF MailInv, MailBody, WaitMail
<1>10. CASE Goes(240)
  BY <1>6, <1>10, PartsList, MailElse DEF MailInv
\* The reply line is not whole yet.
<1>11. CASE /\ NewReply /\ chunk.line \in {"none", "part", "cut"}
            /\ prevBuf' = IF prevBuf.line = "bad" THEN prevBuf ELSE Read
            /\ Poll /\ UNCHANGED <<recv, respFound>>
  <2> SUFFICES ASSUME recv.wanted, recv.taken = 0
               PROVE  MailHeld' /\ MailCounted' /\ MailComing'
    BY <1>6, <1>7, <1>11 DEF MailInv, MailBody
  <2>1. MailHeld /\ MailCounted /\ MailComing /\ ~respFound /\ recv.size = 0
    BY <1>5, <1>11 DEF NewReply, MailCounted
  <2>2. MailHeld' /\ MailCounted'
    BY <1>11, <2>1 DEF MailHeld, Holds, MailCounted
  <2>3. chunk.bytes = <<>> /\ Len(chunk.bytes) = 0
    BY <1>1, <1>11, <2>1, UnendedLine DEF MailComing
  <2>4. prevBuf'.line = "cut" => LineOver
    BY <1>11 DEF LineOver, Read
  <2>5. LineOver => Taken + m + Len(recvChunk.bytes) = sent
    BY <1>3, <2>1 DEF MailComing, ComingAfter
  <2>6. Taken \in Nat /\ Taken' = Taken /\ Len(recvChunk.bytes) \in Nat
    BY <1>1, <1>2, <1>11 DEF Taken, TypeRecv
  <2>7. due = "mail" => sent = 0 /\ m2 = 0
    <3>1. Len(<<>>) = 0
      OBVIOUS
    <3> QED
      BY <1>3, <1>4, <2>1, <2>3, <3>1 DEF MailComing
  <2>8. prevBuf'.line = "cut" => Taken' + m2 = sent
    BY <1>4, <2>3, <2>4, <2>5, <2>6
  <2>9. MailComing'
    BY <1>8, <1>11, <2>1, <2>7, <2>8
  <2> QED
    BY <2>2, <2>9
\* The bytes are stored.
<1>12. CASE /\ NewReply => chunk.line = "good"
            /\ NewData /\ Fits(chunk.bytes) /\ respFound' /\ Store(chunk.bytes) /\ EndTest(chunk)
  <2>0. WaitMail'
    BY <1>6, <1>12, EndParts DEF Finds
  <2> SUFFICES ASSUME recv'.wanted, recv'.taken = 0, task' = "POP3_RETR" PROVE MailBody'
    BY <2>0 DEF MailInv, MailBody
  <2>1. recv.wanted /\ recv.taken = 0
    BY <1>1, <1>12 DEF Store, TypeRecv
  <2>2. MailHeld /\ MailCounted /\ MailComing /\ Taken \in Nat
    BY <1>1, <1>5, <2>1 DEF Taken, TypeRecv
  <2>3. /\ ComingAfter(m2, chunk.bytes) /\ (recv.size = 0 \/ m2 = mail.missed)
        /\ (due = "mail" => sent = 0 /\ m2 = 0)
    <3>1. CASE chunk = recvChunk
      <4>1. m2 = m /\ m = mail.missed
        BY <1>2, <1>3, <1>4, <3>1
      <4>2. LineOver
        BY <1>12, <3>1 DEF LineOver, NewReply
      <4> QED
        BY <2>2, <3>1, <4>1, <4>2 DEF MailComing
    <3>2. CASE chunk # recvChunk
      <4>1. /\ NewReply /\ prevBuf.line = "cut" /\ recvChunk.line = "none"
            /\ \E j \in 2 .. Len(recvChunk.bytes) \cup {0} :
                 /\ j = 0 => chunk = NoChunk
                 /\ j # 0 => chunk.bytes = SubSeq(recvChunk.bytes, j + 1, Len(recvChunk.bytes))
        BY <1>1, <1>12, <3>2, SeenParts DEF NoChunk
      <4>2. PICK j \in 2 .. Len(recvChunk.bytes) : chunk.bytes = SubSeq(recvChunk.bytes, j + 1, Len(recvChunk.bytes))
        BY <1>12, <4>1 DEF NoChunk
      <4>3. PICK s \in Seq(Nat) : s = recvChunk.bytes
        BY <1>2
      <4>4. j \in Nat /\ j <= Len(s) /\ Len(s) \in Nat /\ chunk.bytes = SubSeq(s, j + 1, Len(s))
        BY <4>2, <4>3
      <4>5. Len(chunk.bytes) = Len(s) - j
        BY <4>4, PartTyped
      <4>6. m2 = m + j
        BY <1>4, <4>3, <4>4, <4>5
      <4>7. ComingAfter(m, s)
        BY <1>3, <2>2, <4>1, <4>3 DEF MailComing, LineOver
      <4>8. ComingAfter(m2, chunk.bytes)
        BY <2>2, <4>4, <4>6, <4>7, ComingLater
      <4>9. recv.size = 0
        BY <2>2, <4>1 DEF MailCounted, NewReply
      <4>10. due # "mail"
        <5>1. Len(<<>>) = 0 /\ Len(s) # 0
          BY <4>2, <4>3
        <5> QED
          BY <2>2, <4>3, <5>1 DEF MailComing
      <4> QED
        BY <4>8, <4>9, <4>10
    <3> QED
      BY <3>1, <3>2
  <2>4. /\ Holds(m2, m2)' /\ Len(recv'.cells) = recv'.size /\ Taken' + m2 = sent
        /\ recv'.at = recv'.size /\ recv'.at + recv'.room = recv'.given /\ recv'.given # 0
    BY <1>1, <1>2, <1>12, <2>2, <2>3, StoredMail
  <2>5. MailHeld' /\ MailCounted'
    BY <1>4, <1>12, <2>4 DEF MailHeld, Holds, MailCounted
  <2>6. CASE Poll
    <3>1. MailComing'
      BY <1>8, <2>3, <2>4, <2>6
    <3> QED
      BY <1>7, <2>5, <2>6, <3>1 DEF MailBody
  <2>7. CASE Finds(chunk)
    <3>1. chunk.bytes # <<>> /\ chunk.bytes[Len(chunk.bytes)] = MailLen
      BY <1>1, <1>2, <2>7, EndFound DEF Finds
    <3>2. recvChunk.bytes # <<>> /\ recvChunk.bytes[Len(recvChunk.bytes)] = MailLen
      BY <1>1, <3>1, SeenLast
    <3>3. sent = MailLen
      BY <1>1, <3>2 DEF LastByte
    <3>4. recv'.size + mail'.missed = MailLen
      <4>1. recv'.taken + recv'.size + m2 = sent /\ recv'.size \in Nat
        BY <1>1, <1>2, <1>12, <2>4 DEF Taken, Store, TypeRecv
      <4>2. recv'.taken = 0
        OBVIOUS
      <4>3. recv'.size + m2 = MailLen
        BY <3>3, <4>1, <4>2
      <4> QED
        BY <1>4, <4>3
    <3>5. taskStep' = 100
      BY <2>7, PartsList DEF Finds
    <3>6. taskStep' # 0 /\ taskStep' # 1 /\ taskStep' \notin {0, 1}
      BY <3>5
    <3> QED
      BY <2>5, <3>4, <3>6, Zenon DEF MailBody
  <2> QED
    BY <1>12, <2>6, <2>7, EndParts
\* There is nothing to store.
<1>13. CASE /\ ~NewData /\ EndTest(chunk) /\ UNCHANGED <<recv, respFound>>
            /\ prevBuf' = IF chunk.line = "part" THEN [prevBuf EXCEPT !.line = "bad"] ELSE prevBuf
  <2>0. WaitMail'
    BY <1>6, <1>13, EndParts DEF Finds
  <2> SUFFICES ASSUME recv.wanted, recv.taken = 0, task' = "POP3_RETR" PROVE MailBody'
    BY <1>13, <2>0 DEF MailInv, MailBody
  <2>1. MailHeld /\ MailCounted /\ MailComing
    BY <1>5
  <2>2. chunk = recvChunk /\ m2 = m
    <3>1. chunk = recvChunk
      BY <1>1, <1>13, SeenParts DEF NewReply
    <3> QED
      BY <1>2, <1>4, <3>1
  <2>3. MailHeld' /\ MailCounted'
    BY <1>3, <1>4, <1>13, <2>1, <2>2 DEF MailHeld, Holds, MailCounted
  <2>4. recvChunk.line = "none" /\ ~(Len(recvChunk.bytes) > 1)
    BY <1>13, <2>1 DEF NewData, MailCounted
  <2>5. Len(recvChunk.bytes) = 0
    <3>1. Len(recvChunk.bytes) \in Nat
      BY <1>2
    <3>2. Len(recvChunk.bytes) # 1
      BY <2>1 DEF MailComing
    <3>0. \A n \in Nat : n # 1 /\ ~(n > 1) => n = 0
      OBVIOUS
    <3>3. ~(Len(recvChunk.bytes) > 1) => Len(recvChunk.bytes) = 0
      BY <3>0, <3>1, <3>2, Zenon
    <3> QED
      BY <2>4, <3>3, Zenon
  <2>6. CASE Poll
    <3>1. respFound' \/ prevBuf'.line = "cut" => respFound \/ prevBuf.line = "cut"
      <4>1. [prevBuf EXCEPT !.line = "bad"].line = "bad"
        BY DEF TaskInv, IInv, TypeOK, TypePrevBuf
      <4> QED
        BY <1>13, <4>1
    <3>2. respFound \/ prevBuf.line = "cut" => Taken + m = sent
      <4>1. Taken \in Nat
        BY <1>1 DEF Taken, TypeRecv
      <4>2. respFound \/ prevBuf.line = "cut" => Taken + m + Len(recvChunk.bytes) = sent
        BY <1>3, <2>1 DEF MailComing, LineOver, ComingAfter
      <4> QED
        BY <2>5, <4>1, <4>2
    <3>3. Taken' = Taken
      BY <1>13 DEF Taken
    <3>4. due = "mail" => sent = 0 /\ m2 = 0
      BY <1>3, <2>1, <2>2 DEF MailComing
    <3>5. MailComing'
      BY <1>8, <2>2, <2>6, <3>1, <3>2, <3>3, <3>4
    <3> QED
      BY <1>7, <2>3, <2>6, <3>5 DEF MailBody
  <2>7. CASE Finds(chunk)
    <3>1. recvChunk.bytes # <<>>
      BY <1>1, <1>2, <2>2, <2>7, EndFound DEF Finds
    <3> QED
      BY <1>2, <2>5, <3>1
  <2> QED
    BY <1>13, <2>6, <2>7, EndParts
<1>14. \/ /\ NewReply /\ chunk.line \in {"none", "part", "cut"}
          /\ prevBuf' = IF prevBuf.line = "bad" THEN prevBuf ELSE Read
          /\ Poll /\ UNCHANGED <<recv, respFound>>
       \/ Goes(240)
       \/ /\ NewReply => chunk.line = "good"
          /\ NewData /\ Fits(chunk.bytes) /\ respFound' /\ Store(chunk.bytes) /\ EndTest(chunk)
       \/ Overflow(chunk) /\ NewData
       \/ /\ ~NewData /\ EndTest(chunk) /\ UNCHANGED <<recv, respFound>>
          /\ prevBuf' = IF chunk.line = "part" THEN [prevBuf EXCEPT !.line = "bad"] ELSE prevBuf
  BY Zenon DEF RetrStore
<1> QED
  BY <1>9, <1>10, <1>11, <1>12, <1>13, <1>14

LEMMA RetrMail ==
  ASSUME TaskInv, ConnInv, TalkInv, FullInv, MailInv, "stale_end" \notin Risks, MATASK_POP3_Retr
  PROVE  MailInv'
<1>0. task = "POP3_RETR" /\ ~full
  BY DEF MATASK_POP3_Retr, MailTrouble, MailRuns, Runs, FullInv, Idle
<1>1. CASE MailTrouble("POP3_RETR")
  <2>1. ~full' /\ (task' # "POP3_RETR" \/ taskStep' \in {240, 241})
    BY <1>0, <1>1, PartsList DEF MailTrouble, MailClosed, MailGivenUp, MailFails, TaskFails, SetApiError
  <2> QED
    BY <2>1, MailElse DEF MailInv, WaitMail
<1> DEFINE Stores(chunk) ==
             /\ RetrStore(chunk)
             /\ mail' = [mail EXCEPT !.missed = @ + Len(recvChunk.bytes) - Len(chunk.bytes)]
<1> SUFFICES ASSUME MailRuns("POP3_RETR"), UNCHANGED <<table, connMode>>,
                    \/ At(0) /\ SayLine(mail.text, 1) /\ UNCHANGED <<recv, bufferEmpty, respFound, mail>>
                    \/ At(100) /\ TaskEnds
                    \/ At(1) /\ ~bufferEmpty' /\ \E chunk \in SeenAs : Stores(chunk)
             PROVE  MailInv'
  <2>1. MATASK_POP3_Retr /\ ~MailTrouble("POP3_RETR") =>
          /\ MailRuns("POP3_RETR") /\ UNCHANGED <<table, connMode>>
          /\ \/ At(0) /\ SayLine(mail.text, 1) /\ UNCHANGED <<recv, bufferEmpty, respFound, mail>>
             \/ At(100) /\ TaskEnds
             \/ At(1) /\ ~bufferEmpty' /\ \E chunk \in SeenAs : Stores(chunk)
    BY DEF MATASK_POP3_Retr, Ends, Same
  <2> QED
    BY <1>1, <2>1
<1>2. ~tcpClosed /\ ~Nega({"DATA"}) /\ ~busy
  BY DEF MailRuns, Runs, Nega
<1>3. taskStep \in {0, 1} => There
  <2>1. taskStep \in {0, 1} => Uses(task, taskStep)
    BY <1>0, MailPhases DEF MailTasks, Connects, Quits
  <2> QED
    BY <1>0, <1>2, <2>1 DEF ConnInv, ListInv, UseList, Gone, InSlot0, There, MailTasks
<1>4. CASE At(0) /\ SayLine(mail.text, 1) /\ UNCHANGED <<recv, bufferEmpty, respFound, mail>>
  <2>0. KnowsGame /\ TypeRecv /\ sent \in Nat /\ adapter' = adapter
    BY DEF TalkInv, TaskInv, IInv, TypeOK, TypeAdapter, MailRuns
  <2>1. taskStep' = 1 /\ busy' /\ sendText' = mail.text /\ recvChunk' = NoChunk /\ ~full'
        /\ prevBuf'.line = "none"
    BY <1>0, <1>4, PartsList DEF SayLine, InitPrevBuf, EmptyPrevBuf
  <2>2. mail.text # "empty"
    BY <1>0, <1>4, <2>0 DEF KnowsGame, At
  <2>3. recvChunk'.line = "none" /\ recvChunk'.bytes = <<>> /\ Len(<<>>) = 0
    BY <2>1 DEF NoChunk
  <2>4. ASSUME recv.wanted, recv.taken = 0
        PROVE  MailHeld' /\ MailCounted' /\ MailComing'
    <3>1. MailHeld /\ MailCounted /\ ~respFound /\ mail.missed = 0
      BY <1>0, <1>4, <2>4 DEF MailInv, MailBody, At
    <3>2. sent = 0 /\ sent' = sent
      <4>1. MailTalk /\ taskStep = 0
        BY <1>3, <1>4 DEF At, TalkInv
      <4> QED
        BY <1>0, <2>0, <4>1 DEF MailTalk, RetrTalk, adapter
    <3> QED
      BY <1>4, <2>1, <2>2, <2>3, <3>1, <3>2 DEF MailHeld, Holds, MailCounted, MailComing, LineOver
  <2> QED
    BY <1>4, <2>1, <2>4 DEF MailInv, MailBody, WaitMail
<1>5. CASE At(100) /\ TaskEnds
  <2>1. task' = "NONE" /\ ~full'
    BY <1>0, <1>5, PartsList DEF TaskEnds
  <2> QED
    BY <2>1, MailElse DEF MailInv, WaitMail
<1>6. ASSUME At(1), ~bufferEmpty', NEW chunk \in SeenAs, Stores(chunk) PROVE MailInv'
  BY <1>0, <1>2, <1>3, <1>6, StoreMail DEF At
<1> QED
  BY <1>4, <1>5, <1>6

\* The other tasks.
LEMMA TasksMail ==
  ASSUME TaskInv, FullInv, MAAPI_Main, ~MATASK_POP3_Retr
  PROVE  MailInv'
<1>1. task # "POP3_RETR"
  <2>1. task \in TcpTasks \cup {"OFFLINE", "TCP_CUT"} \cup SettingsTasks \cup {HttpTask} => task # "POP3_RETR"
    BY DEF TcpTasks, SettingsTasks, HttpTask
  <2>2. MATASK_HTTP_GetPost => task = HttpTask
    BY DEF MATASK_HTTP_GetPost, Runs, HttpTask
  <2> QED
    BY <2>1, <2>2, TasksOf DEF MAAPI_Main
<1>2. task' # "POP3_RETR"
  BY <1>1, TasksName
<1>3. ~full
  BY MainRuns DEF FullInv, Idle
<1>4. ASSUME NEW chunk PROVE Spared \/ Stored(chunk) => ~full'
  BY <1>3 DEF Spared, Stored
<1>5. ASSUME NEW chunk, Filled(chunk) PROVE connMode' = "HTTP"
  BY <1>1, <1>5, RunsInEach DEF Filled, TaskInv, ModeInv, HttpTask
<1>6. Running
  BY DEF TaskInv, IInv
<1>7. ~full' \/ connMode' = "HTTP"
  BY <1>4, <1>5, <1>6, TasksStore DEF Grown
<1> QED
  BY <1>2, <1>7, MailElse DEF MailInv, WaitMail

\* A piece of the mail comes.
LEMMA PieceMail ==
  ASSUME TaskInv, TalkInv, Out, MailInv, 1 \notin ChunkSizes, busy, ~busy', Spoke, Answer,
         task = "POP3_RETR", taskStep = 1, recv.wanted, recv.taken = 0
  PROVE  MailComing'
<1>0. /\ TypeAdapter /\ TypeRecv /\ There /\ MailTalk /\ sent \in Nat /\ sent' = sent + Len(recvChunk'.bytes)
      /\ recvChunk' \in Says(Heard0.owes) /\ recvChunk = NoChunk
      /\ (Peer0 # "own" => due' = Owes(Heard0.owes, recvChunk'))
  BY DEF Spoke, TaskInv, IInv, TypeOK, TypeAdapter, TalkInv, Out
<1>1. MailComing /\ MailCounted
  BY <1>0 DEF MailInv, MailBody
<1>2. UNCHANGED <<recv, bufferEmpty, respFound, prevBuf, mail>>
  BY AnswersStay DEF Answer, SettingsAnswers, mailVars
<1>3. (Posing("mail", "pop3_ready") /\ sent = 0) \/ (Mailing /\ sendText = "empty")
  BY <1>0 DEF MailTalk, RetrTalk
<1>4. ASSUME Posing("mail", "pop3_ready") PROVE Heard0.owes = "mail" /\ Peer0 # "own"
  <2>1. due = "nothing" /\ <<Peer0, sendText, "mail", "pop3_ready">> \in MailDialogue
    BY <1>4 DEF Posing
  <2>2. Peer0 # "own"
    BY <2>1, MailTexts DEF MailPeers
  <2>3. peer[sockets[0]] = Peer0
    BY DEF Peer0
  <2> QED
    BY <1>0, <2>1, <2>2, <2>3, MailHears DEF Heard0
<1>5. ASSUME Mailing, sendText = "empty" PROVE Heard0.owes = due /\ Peer0 # "own" /\ due \in {"nothing", "mail", "body"}
  <2>1. Peer0 # "own" /\ due \in {"nothing", "mail", "body"}
    BY <1>5 DEF Mailing
  <2>2. peer[sockets[0]] = Peer0
    BY DEF Peer0
  <2> QED
    BY <1>5, <2>1, <2>2, QuietHears DEF Heard0
<1>6. /\ Heard0.owes \in {"nothing", "mail", "body"} /\ due' = Owes(Heard0.owes, recvChunk')
      /\ Heard0.owes = "mail" => sent = 0 /\ mail.missed = 0
      /\ sendText # "empty" => Heard0.owes = "mail"
  <2>1. Posing("mail", "pop3_ready") => sendText # "empty"
    BY MailTexts DEF Posing
  <2> QED
    BY <1>0, <1>1, <1>3, <1>4, <1>5, <2>1 DEF MailComing
<1>7. /\ Len(recvChunk'.bytes) # 1
      /\ recvChunk'.line \in {"good", "cut"} => Heard0.owes = "mail"
      /\ recvChunk'.line \in {"part", "cut"} => recvChunk'.bytes = <<>>
      /\ due' = "mail" => Heard0.owes = "mail" /\ recvChunk'.bytes = <<>>
  BY <1>0, <1>6, MailArrives
<1>8. Follow(recvChunk'.bytes, sent)
  <2>1. Heard0.owes \in Dues
    BY <1>6 DEF Dues
  <2> QED
    BY <1>0, <2>1, SaysWhat
<1>9. PICK m \in Nat : m = mail.missed
  BY DEF TaskInv, IInv, TypeOK, TypeMail
<1>10. respFound \/ prevBuf.line = "cut" => Taken + m = sent
  <2>1. NoChunk.bytes = <<>> /\ Len(<<>>) = 0
    BY DEF NoChunk
  <2>2. respFound \/ prevBuf.line = "cut" => Taken + m + 0 = sent
    BY <1>0, <1>1, <1>9, <2>1 DEF MailComing, LineOver, ComingAfter
  <2>3. Taken \in Nat
    BY <1>0 DEF Taken, TypeRecv
  <2> QED
    BY <2>2, <2>3
<1>11. recvChunk'.line \in {"good", "cut"} => Taken + m = sent
  <2>1. CASE respFound
    BY <1>10, <2>1
  <2>2. CASE ~respFound
    <3>1. Taken = 0
      BY <1>1, <2>2 DEF MailCounted, Taken
    <3> QED
      BY <1>6, <1>7, <1>9, <3>1
  <2> QED
    BY <2>1, <2>2
<1>12. LineOver' => ComingAfter(mail.missed, recvChunk.bytes)'
  <2>1. Taken' = Taken
    BY <1>2 DEF Taken
  <2>2. LineOver' => Taken + m = sent
    BY <1>2, <1>10, <1>11 DEF LineOver
  <2> QED
    BY <1>0, <1>2, <1>8, <1>9, <2>1, <2>2 DEF ComingAfter
<1>13. due' = "mail" => sent' = 0 /\ mail'.missed = 0 /\ recvChunk'.bytes = <<>>
  <2>1. Len(<<>>) = 0
    OBVIOUS
  <2> QED
    BY <1>0, <1>2, <1>6, <1>7, <2>1
<1> QED
  BY <1>2, <1>7, <1>12, <1>13 DEF MailComing

LEMMA AnswerMail ==
  ASSUME TaskInv, BodyInv, ConnInv, TalkInv, MailInv, 1 \notin ChunkSizes, Answer
  PROVE  MailInv'
<1>1. UNCHANGED <<task, taskStep, recv, full, connMode, bufferEmpty>>
  BY AnswersStay
<1>2. UNCHANGED <<respFound, mail>>
  BY DEF Answer, SettingsAnswers, mailVars
<1>3. WaitMail'
  BY <1>1 DEF MailInv, WaitMail, Taken
<1>4. ASSUME task = "POP3_RETR", taskStep = 1, recv.wanted, recv.taken = 0, There' PROVE MailComing'
  <2>1. busy /\ IInv /\ Unclosed /\ Out
    BY AnswerLive DEF TaskInv, ConnInv, BodyInv
  <2>2. Uses(task, taskStep)
    BY <1>4, MailPhases DEF MailTasks, Connects, Quits
  <2>3. sendCmd = "DATA" /\ sendSocket = sockets[0] /\ usedSockets[0]
    BY <1>4, <2>1, <2>2 DEF ConnInv, ListInv, UseList, Talks, InSlot0, MailTasks
  <2>4. ~busy' /\ (~There' \/ Spoke)
    BY <2>1, <2>3, Conversed
  <2> QED
    BY <1>4, <2>1, <2>4, PieceMail
<1>5. MailBody'
  <2> SUFFICES ASSUME task = "POP3_RETR", recv.wanted, recv.taken = 0 PROVE MailBody'
    BY <1>1 DEF MailBody
  <2>1. taskStep \in {0, 1, 100} => MailHeld'
    BY <1>1, <1>2 DEF MailInv, MailBody, MailHeld, Holds
  <2>2. taskStep \in {0, 1} => MailCounted'
    BY <1>1, <1>2 DEF MailInv, MailBody, MailCounted
  <2>3. (taskStep = 0 => ~respFound' /\ mail'.missed = 0) /\ (taskStep = 100 => recv'.size + mail'.missed = MailLen)
    BY <1>1, <1>2 DEF MailInv, MailBody
  <2> QED
    BY <1>1, <1>4, <2>1, <2>2, <2>3 DEF MailBody
<1> QED
  BY <1>3, <1>5 DEF MailInv

\* Nothing of it changes when a page's connection is closed.
LEMMA SameMail_ ==
  ASSUME TaskInv, MailInv, ServerCloses \/ UNCHANGED vars
  PROVE  MailInv'
<1>1. UNCHANGED <<task, taskStep, recv, full, connMode, bufferEmpty, usedSockets, sockets>>
  BY AnswersStay
<1>2. UNCHANGED <<respFound, mail, prevBuf, busy, sendText, recvChunk, due, sent>>
  BY AnswersStay DEF ServerCloses, vars, socketVars, bios, adapter, mailVars
<1>3. open' \subseteq open
  <2>1. CASE ServerCloses
    <3>1. PICK id \in Ids \ Used : peer[id] = "http_answer" /\ peer' = [peer EXCEPT ![id] = "closed"]
      BY <2>1 DEF ServerCloses, Closed
    <3>2. peer \in [Ids -> Waits]
      BY DEF TaskInv, IInv, TypeOK, TypeAdapter
    <3> QED
      BY <3>1, <3>2, PeerMoves
  <2>2. CASE UNCHANGED vars
    BY <2>2 DEF vars, socketVars, adapter, open
  <2> QED
    BY <2>1, <2>2
<1>4. There' => There
  BY <1>1, <1>3 DEF There
<1>5. (MailHeld' <=> MailHeld) /\ (MailCounted' <=> MailCounted)
  BY <1>1, <1>2 DEF MailHeld, Holds, MailCounted
<1>6. /\ WaitMail' <=> WaitMail
      /\ LineOver' <=> LineOver
      /\ ComingAfter(mail.missed, recvChunk.bytes)' <=> ComingAfter(mail.missed, recvChunk.bytes)
  BY <1>1, <1>2 DEF WaitMail, LineOver, ComingAfter, Taken
<1>7. MailComing' <=> MailComing
  BY <1>1, <1>2, <1>6 DEF MailComing
<1>8. MailBody => MailBody'
  BY <1>1, <1>2, <1>4, <1>5, <1>7 DEF MailBody
<1> QED
  BY <1>6, <1>8 DEF MailInv

LEMMA MailInvKept ==
  ASSUME Risks = {}, 1 \notin ChunkSizes, TaskInv, BodyInv, FullInv, ConnInv, TalkInv, MailInv, [Next]_vars
  PROVE  MailInv'
<1>1. CASE Game
  BY <1>1, GameMail DEF MailInv
<1>2. CASE MAAPI_Main
  BY <1>2, TasksMail, RetrMail
<1>3. CASE Answer
  BY <1>3, AnswerMail
<1>4. CASE ServerCloses \/ UNCHANGED vars
  BY <1>4, SameMail_
<1>5. CASE Leaves
  <2>1. task' = "NONE" /\ ~full'
    BY <1>5 DEF Leaves, SessionEnds
  <2> QED
    BY <2>1, MailElse DEF MailInv, WaitMail
<1> QED
  BY <1>1, <1>2, <1>3, <1>4, <1>5 DEF Next

\* MailInOrder: when MA_POP3_Retr or MA_POP3_Head ends with the mail in its first
\* buffer, the buffer holds the mail to its last byte, each byte once and at its
\* place, whatever pieces the server sent it in.  It holds it from the byte after
\* mail.missed, which SeenAs alone makes more than 0: a reply line cut between CR
\* and LF has taken the first line of the mail with it, and nothing else is lost.
THEOREM SessionsMailInOrder ==
  ASSUME MaxHeld <= 1, Risks = {}, 1 \notin ChunkSizes
  PROVE  Spec => []MailInOrder
<1>1. Init => MailInv
  <2>1. Init => task = "NONE" /\ ~full
    BY DEF Init, SocketsInit
  <2> QED
    BY <2>1 DEF MailInv, MailBody, WaitMail
<1>2. TaskInv /\ BodyInv /\ FullInv /\ ConnInv /\ TalkInv /\ MailInv /\ [Next]_vars => MailInv'
  BY MailInvKept
<1>3. TaskInv /\ MailInv => MailInOrder
  <2> SUFFICES ASSUME TaskInv, MailInv, task = "POP3_RETR", taskStep = 100, recv.wanted, recv.taken = 0
               PROVE  /\ recv.size = MailLen - mail.missed
                      /\ recv.cells = [i \in 1 .. MailLen - mail.missed |-> mail.missed + i]
    BY DEF MailInOrder
  <2>1. MailHeld /\ recv.size + mail.missed = MailLen
    BY DEF MailInv, MailBody
  <2>2. recv.cells \in Seq(Nat) /\ recv.size \in Nat /\ mail.missed \in Nat /\ MailLen \in Nat
    BY ServersAssumption DEF TaskInv, IInv, TypeOK, TypeRecv, TypeMail
  <2>3. recv.size = MailLen - mail.missed /\ Len(recv.cells) = recv.size
    BY <2>1, <2>2 DEF MailHeld
  <2>4. \A i \in 1 .. recv.size : recv.cells[i] = mail.missed + i
    BY <2>1, <2>2 DEF MailHeld, Holds
  <2>5. recv.cells = [i \in 1 .. recv.size |-> mail.missed + i]
    BY <2>2, <2>3, <2>4, MailWhole
  <2> QED
    BY <2>3, <2>5
<1>4. Spec => []BodyInv
  BY BodiesInit, BodyInvKept, TaskInvAlways, PTL DEF Spec
<1>5. Spec => []FullInv
  <2>1. TaskInv /\ FullInv /\ [Next]_vars => FullInv'
    BY BufferInvKept DEF TaskInv
  <2>2. Init => FullInv
    BY BufferInit
  <2> QED
    BY <2>1, <2>2, TaskInvAlways, PTL DEF Spec
<1>6. Spec => [](TaskInv /\ ConnInv /\ TalkInv)
  BY TalkInvAlways
<1> QED
  BY <1>1, <1>2, <1>3, <1>4, <1>5, <1>6, PTL DEF Spec

==============================================================================
