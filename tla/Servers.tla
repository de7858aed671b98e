-------------------------------- MODULE Servers --------------------------------
(***************************************************************************)
(* What is at the other end of the connections: mail servers (SMTP, POP3), *)
(* an HTTP server, and the programs the game itself talks to.  None of it  *)
(* is in the repository.  It is modelled from what the tasks of ma_api.c   *)
(* send and from the answers they look for.                                *)
(*                                                                         *)
(* A server hears one text in each DATA command and says, whenever it      *)
(* likes, the answer that is due.  A text that is not one it waits for, or *)
(* one that comes while an answer is still due, leaves it confused.        *)
(***************************************************************************)
EXTENDS Integers, Sequences

CONSTANTS
  Ids,         \* the numbers the adapter gives to its connections
  ChunkSizes,  \* how many bytes of a mail or a page one DATA reply may carry
  MailLen,     \* the length of a mail, the five bytes of its end included
  PageLen      \* the length of the answers to one HTTP call, together

ASSUME ServersAssumption ==
  /\ Ids \subseteq Nat
  /\ ChunkSizes \subseteq Nat /\ 0 \in ChunkSizes
  /\ MailLen \in Nat \ 0..4 /\ PageLen \in Nat

VARIABLES
  online,    \* the adapter has dialled in
  peer,      \* for each connection, what the server at its end waits for
  due,       \* what the server of the mail or HTTP connection has to say
  sent,      \* how many bytes of the mail or page it has said
  answered   \* how many requests of an HTTP call it has answered

adapter == <<online, peer, due, sent, answered>>

Closed == "closed"
open   == {id \in Ids : peer[id] # Closed}

----------------------------------------------------------------------------
(* The protocols.                                                          *)

\* What a server on each port waits for at first; a mail server greets.
Ports == [own |-> "own", SMTP |-> "smtp", POP3 |-> "pop3", HTTP |-> "http"]

MailCommands == {"STAT", "LIST", "DELE"}

\* Who is the client: on the first request of a page nobody, then the holder
\* of an authorization, then of the id got for it.
Credentials == <<"plain", "authorization", "id">>
WithLength  == [plain |-> "plain+length", authorization |-> "authorization+length",
                id |-> "id+length"]

\* What a server that waits for the first of these, and hears the second, owes
\* and waits for then.
MailDialogue ==
  {<<"smtp", "HELO", "reply", "smtp_ready">>,
   <<"smtp_ready", "MAIL", "reply", "smtp_from">>,
   <<"smtp_from", "RCPT", "reply", "smtp_to">>, <<"smtp_to", "RCPT", "reply", "smtp_to">>,
   <<"smtp_to", "DATA", "reply", "smtp_text">>,
   <<"smtp_text", "text", "nothing", "smtp_text">>,
   <<"smtp_text", "end", "reply", "smtp_ready">>,
   <<"pop3", "USER", "reply", "pop3_user">>, <<"pop3_user", "PASS", "reply", "pop3_ready">>,
   <<"pop3_ready", "RETR", "mail", "pop3_ready">>, <<"pop3_ready", "TOP", "mail", "pop3_ready">>}
  \cup {<<"pop3_ready", c, "reply", "pop3_ready">> : c \in MailCommands}
  \cup {<<s, "QUIT", "reply", "bye">> : s \in {"smtp", "smtp_ready", "smtp_from", "smtp_to",
                                               "pop3", "pop3_user", "pop3_ready"}}

HttpDialogue(credential) ==
  {<<"http", "GET", "nothing", "http_get">>, <<"http", "POST", "nothing", "http_post">>,
   <<"http_get", "path", "nothing", "http_get">>, <<"http_post", "path", "nothing", "http_post">>,
   <<"http_get", credential, "page", "http_answer">>,
   <<"http_post", credential, "page", "http_answer">>,
   <<"http_post", WithLength[credential], "nothing", "http_content">>,
   <<"http_content", "text", "nothing", "http_content">>,
   <<"http_content", "end", "page", "http_answer">>}

Dialogue == MailDialogue \cup (IF answered < 3 THEN HttpDialogue(Credentials[answered + 1]) ELSE {})

\* What is due, and what the server waits for, once it has heard a text; an
\* empty DATA command says nothing.
Heard(id, text) ==
  IF peer[id] = "own" THEN [owes |-> "nothing", waits |-> "own"]
  ELSE IF text = "empty" THEN [owes |-> due, waits |-> peer[id]]
  ELSE IF due = "nothing" /\ \E d \in Dialogue : d[1] = peer[id] /\ d[2] = text
       THEN LET d == CHOOSE d \in Dialogue : d[1] = peer[id] /\ d[2] = text
            IN [owes |-> d[3], waits |-> d[4]]
       ELSE [owes |-> due, waits |-> "confused"]

----------------------------------------------------------------------------
(* What a DATA reply carries: a reply line or a header, perhaps only a part *)
(* of it, and some bytes of what follows it, named by their positions.      *)

NoChunk == [line |-> "none", bytes |-> <<>>]

Bytes(k) == [i \in 1..k |-> sent + i]
Lines(S) == {[line |-> l, bytes |-> <<>>] : l \in S}
Follows(S, len) ==
  {[line |-> l, bytes |-> Bytes(k)] : l \in S, k \in {n \in ChunkSizes : sent + n <= len}}

\* A header that is whole but for the empty line after it is "split", whatever
\* its status; "other" is any status the client has not asked for, and a status
\* line no reply has whole; "101" is the centre's warning.
Headers == {"ok", "denied", "101", "other", "split"}

\* Of the good reply to RETR or TOP, and of what comes before a mail, all but
\* the LF of its line is "cut": the LF comes with the bytes that follow.  (A bad
\* reply cut there is "part" for ever: the client finds no end of it.)

Says(owes) ==
  CASE owes = "nothing" -> {NoChunk}
    [] owes = "reply"   -> Lines({"none", "part", "good", "bad"})
    [] owes = "mail"    -> Lines({"none", "part", "cut", "bad"}) \cup Follows({"good"}, MailLen)
    [] owes = "body"    -> Follows({"none"}, MailLen)
    [] owes = "page"    -> Lines({"none", "part", "split"}) \cup Follows(Headers \ {"split"}, PageLen)
    [] owes = "rest"    -> Follows({"none"}, PageLen)

\* What is due after that.
Owes(owes, chunk) ==
  CASE owes = "reply" /\ chunk.line \in {"good", "bad"} -> "nothing"
    [] owes = "mail" /\ chunk.line = "bad" -> "nothing"
    [] owes = "mail" /\ chunk.line = "cut" -> "body"
    [] owes \in {"mail", "body"} /\ (owes = "body" \/ chunk.line = "good") ->
         IF sent + Len(chunk.bytes) = MailLen THEN "nothing" ELSE "body"
    [] owes = "page" /\ chunk.line \in Headers -> "rest"
    [] OTHER -> owes

\* A server hears a text and answers as it likes, all of this at once.
Converse(id, text, chunk) ==
  LET h == Heard(id, text)
  IN /\ due' = IF peer[id] = "own" THEN due ELSE Owes(h.owes, chunk)
     /\ peer' = [peer EXCEPT ![id] = h.waits]
     /\ sent' = sent + Len(chunk.bytes)
     /\ answered' = IF h.owes = "page" /\ chunk.line \in Headers THEN answered + 1 ELSE answered

\* The last words of a server that closes the connection.
LastWords(id, text) ==
  LET owes == Heard(id, text).owes
  IN IF owes \in {"page", "rest"} THEN Says(owes) ELSE {NoChunk}

HangsUp(id, text, chunk) ==
  /\ due' = IF peer[id] = "own" THEN due ELSE "nothing"
  /\ peer' = [peer EXCEPT ![id] = Closed]
  /\ sent' = sent + Len(chunk.bytes) /\ UNCHANGED answered

Connected(id, port) ==
  /\ peer' = [peer EXCEPT ![id] = Ports[port]]
  /\ due' = CASE port \in {"SMTP", "POP3"} -> "reply" [] port = "HTTP" -> "nothing" [] OTHER -> due
  /\ UNCHANGED <<sent, answered>>

\* The connection is gone, whoever closed it.
Lost(id) ==
  /\ due' = IF peer[id] = "own" THEN due ELSE "nothing"
  /\ peer' = [peer EXCEPT ![id] = Closed]
  /\ UNCHANGED <<sent, answered>>

AllLost ==
  /\ peer' = [id \in Ids |-> Closed] /\ due' = "nothing" /\ UNCHANGED <<sent, answered>>

ServersInit ==
  /\ online = FALSE /\ peer = [id \in Ids |-> Closed]
  /\ due = "nothing" /\ sent = 0 /\ answered = 0

=============================================================================
