--------------------------------- MODULE Http ----------------------------------
(***************************************************************************)
(* MA_HTTP_Get and MA_HTTP_Post of ma_api.c, and their task.  A page of    *)
(* the service's own centre takes two or three requests, each on its own   *)
(* connection: the first is denied, the second carries an authorization,   *)
(* the third the id the centre gave for it.  Everything the servers send   *)
(* after a header goes into the game's buffer.                             *)
(***************************************************************************)
EXTENDS Mail

CONSTANT Pieces   \* how many DATA commands a path takes, or the data of a POST

ASSUME HttpAssumption == Pieces \subseteq Nat \ {0}

VARIABLE http    \* param.http_getpost and STATUS_GBCENTER_ERR_101

\* left and next: the pieces of the path or of the data still to send, and
\* nextStep; pieces: how many there are of each.  missed is not in the code: how
\* many bytes of the pages have been taken for lines of a header.
NoPage == [method |-> "GET", auth |-> "UNKNOWN", step |-> 0, headEnd |-> FALSE,
           headError |-> FALSE, headFound |-> FALSE, err101 |-> FALSE,
           pieces |-> 1, left |-> 0, next |-> 0, missed |-> 0]

HttpInit == http = NoPage

\* Which kind of page goes with which method; the others are refused.
Suited == [GET |-> {"UNKNOWN", "DOWNLOAD", "UTILITY"}, POST |-> {"UNKNOWN", "UPLOAD", "RANKING"}]

----------------------------------------------------------------------------
(* The calls.                                                              *)

NewPage ==
  /\ AtRest("PPP") /\ "HTTP" \in Calls /\ held = {}
  /\ connMode' = "HTTP" /\ InitPrevBuf /\ full' = FALSE /\ bufferEmpty' = FALSE
  /\ \E method \in DOMAIN Suited, pieces \in Pieces : \E auth \in Suited[method] :
       http' = [NoPage EXCEPT !.method = method, !.auth = auth, !.pieces = pieces]
  /\ \E room \in Rooms : recv' = GivenBuffer(room, 0)
  /\ \E step \in {0, 2} : Starts(HttpTask, step, 0)
  /\ sent' = 0 /\ answered' = 0 /\ UNCHANGED tcpClosed

SamePage(room) ==
  /\ AtRest("HTTP") /\ full
  /\ \/ RestGiven(HttpTask, 110, room, TRUE) \/ RestFills(room)
     \/ RestRefused(HttpTask, 110, room, TRUE)
  /\ UNCHANGED <<tcpClosed, connMode, sent, answered, http>>

MA_HTTP_GetPost ==
  /\ \/ NewPage /\ NotMailing
     \/ \E room \in Rooms : SamePage(room) /\ UNCHANGED mailVars
  /\ UNCHANGED held

----------------------------------------------------------------------------
(* What the task asks for, by the kind of page and the number of requests  *)
(* already answered.                                                       *)

Centre == {"DOWNLOAD", "UPLOAD", "RANKING"}

GetRequestType ==
  CASE http.auth = "UNKNOWN" -> http.method
    [] http.auth \in {"DOWNLOAD", "UPLOAD"} /\ http.step = 2 -> "POST"
    [] http.auth = "RANKING" /\ http.step # 0 -> "POST"
    [] OTHER -> "GET"

SendsData ==
  /\ http.method = "POST"
  /\ http.auth = "UPLOAD" => http.step = 2
  /\ http.auth = "RANKING" => http.step = 1

CreateHttpRequestHeader ==
  LET credential == IF http.auth = "UNKNOWN" THEN "plain" ELSE Credentials[http.step + 1]
  IN IF SendsData THEN WithLength[credential] ELSE credential

\* After the request, after its header, and after its page.
HttpGetNextStep ==
  <<IF SendsData THEN 100 ELSE 8,
    IF http.auth \in Centre /\ http.step = 2 THEN 255 ELSE 110,
    IF http.auth = "UNKNOWN" \/ (http.auth = "UTILITY" /\ http.step = 2) THEN 255 ELSE 2>>

----------------------------------------------------------------------------
(* The task.                                                               *)

NoHeader == [http EXCEPT !.headEnd = FALSE, !.headError = FALSE, !.headFound = FALSE]

\* Steps 4 to 7: the request line by line; 100: the data of a POST.
Says_(text, step, next, left) ==
  /\ Command("DATA", sockets[0], text, step)
  /\ http' = [http EXCEPT !.next = next, !.left = left] /\ UNCHANGED prevBuf

Request ==
  \/ /\ At(3) \/ At(4)
     /\ Command("DATA", IF At(3) THEN recvData ELSE sockets[0], GetRequestType, 50)
     /\ http' = [http EXCEPT !.next = 5, !.left = http.pieces] /\ UNCHANGED prevBuf
  \/ /\ At(5) \/ At(6)
     /\ IF http.left > 1 THEN Says_("path", 50, 6, http.left - 1)
        ELSE Says_("path", 50, 7, http.pieces)
  \/ /\ At(7) /\ InitPrevBuf /\ http' = NoHeader
     /\ Command("DATA", sockets[0], CreateHttpRequestHeader, HttpGetNextStep[1])
  \/ At(50) /\ Goes(http.next) /\ UNCHANGED <<http, prevBuf>>
  \/ At(100) /\ http.left > 1 /\ Says_("text", 50, 100, http.left - 1)
  \/ /\ At(100) /\ http.left <= 1 /\ InitPrevBuf
     /\ Command("DATA", sockets[0], "end", 50) /\ http' = [NoHeader EXCEPT !.next = 8]

\* A status other than the one expected at this request is an error.
WrongStatus(line) ==
  IF http.auth # "UNKNOWN" /\ http.step = 0 THEN line # "denied" ELSE line \notin {"ok", "101"}

\* After a reply at step 8: what follows the end of the header stays in recvBuf
\* for the page; if nothing does, the next reply is asked for.
AfterReply(bytes) ==
  IF http'.headEnd /\ bytes # <<>>
  THEN /\ recvChunk' = [line |-> "none", bytes |-> bytes]
       /\ UNCHANGED <<api, flags, busy, sendCmd, sendSocket, sendText, recvCmd, recvData,
                      tcpConnectRetryCount>>
  ELSE Command("DATA", sockets[0], "empty", 8)

\* A header, with its status.  One cut before its empty line is not over.
HeaderRead ==
  /\ recvChunk.line \in Headers /\ prevBuf' = [prevBuf EXCEPT !.line = "none"]
  /\ \E status \in IF recvChunk.line = "split" THEN Headers \ {"split"} ELSE {recvChunk.line} :
       http' = [http EXCEPT !.headFound = TRUE, !.headEnd = recvChunk.line # "split",
                            !.headError = WrongStatus(status), !.err101 = @ \/ status = "101"]
  /\ AfterReply(recvChunk.bytes)

\* Then the empty line ends the line before it, and the page is read as lines of
\* the header, up to the first empty line in it; they may look like statuses.
PageTakenForHeader ==
  /\ recvChunk.line \notin Headers /\ recvChunk.bytes # <<>> /\ UNCHANGED prevBuf
  /\ \E n \in 1 .. Len(recvChunk.bytes), end \in BOOLEAN, read \in {"none", "wrong", "101"} :
       /\ ~end => n = Len(recvChunk.bytes)
       /\ http' = [http EXCEPT !.headEnd = end, !.headError = @ \/ read = "wrong",
                               !.err101 = @ \/ read = "101", !.missed = @ + n]
       /\ AfterReply(SubSeq(recvChunk.bytes, n + 1, Len(recvChunk.bytes)))

\* Step 8: once the header has ended the page follows, or the task is over; a
\* connection closed before is an error, whatever has come with its end.
Header ==
  /\ At(8)
  /\ \/ /\ http.headEnd /\ UNCHANGED prevBuf
        /\ IF http.headError THEN Goes(240) /\ UNCHANGED http
           ELSE Goes(HttpGetNextStep[2]) /\ http' = [http EXCEPT !.step = @ + 1]
     \/ ~http.headEnd /\ tcpClosed /\ Goes(240) /\ UNCHANGED <<http, prevBuf>>
     \/ /\ ~http.headEnd /\ ~tcpClosed
        /\ \/ /\ recvChunk.line \notin Headers /\ recvChunk.bytes = <<>> /\ prevBuf' = Read
              /\ Command("DATA", sockets[0], "empty", 8) /\ UNCHANGED http
           \/ HeaderRead \/ PageTakenForHeader

\* Step 110: the page, to the end of the connection.
Page ==
  LET new   == ~bufferEmpty /\ recv.wanted /\ recvChunk.bytes # <<>>
      next  == IF tcpClosed
               THEN /\ full' = FALSE /\ taskStep' = HttpGetNextStep[3]
                    /\ UNCHANGED <<task, param, cutCmd, error, tcpClosed, smtpSender, bios>>
               ELSE Command("DATA", sockets[0], "empty", 110)
  IN /\ At(110) /\ bufferEmpty' = FALSE /\ UNCHANGED http
     /\ \/ ~new /\ next /\ UNCHANGED <<recv, prevBuf>>
        \/ new /\ Fits(recvChunk.bytes) /\ Store(recvChunk.bytes) /\ next /\ UNCHANGED prevBuf
        \/ new /\ ~Fits(recvChunk.bytes) /\ Overflow(recvChunk)

FreeSlot == usedSockets' = [usedSockets EXCEPT ![0] = FALSE] /\ UNCHANGED sockets

\* Step 0xff.  The connection is left to the server to close.
PageEnds ==
  /\ At(255) /\ connMode' = "PPP" /\ FreeSlot /\ UNCHANGED prevBuf
  /\ IF http.err101 THEN TaskFails /\ http' = [http EXCEPT !.err101 = FALSE]
     ELSE TaskEnds /\ UNCHANGED http

\* 0xf0, also reached when DATA is refused, and 0xf1.
HttpTrouble ==
  \/ /\ Nega({"DATA"}) \/ At(240)
     /\ Command("TCP_DISCONNECT", sockets[0], "empty", 241) /\ UNCHANGED <<table, connMode>>
  \/ /\ Nega({"TCP_CONNECT", "DNS_REQUEST"}) \/ (At(241) /\ ~Nega({"DATA"}))
     /\ connMode' = "PPP" /\ TaskFails /\ FreeSlot

MATASK_HTTP_GetPost ==
  /\ Runs(HttpTask) /\ UNCHANGED <<adapter, held, mailVars>>
  /\ \/ HttpTrouble /\ UNCHANGED <<prevBuf, recv, bufferEmpty, http>>
     \/ /\ ~Nega({"DATA", "TCP_CONNECT", "DNS_REQUEST"})
        /\ \/ /\ UNCHANGED <<prevBuf, recv, bufferEmpty, http>> /\ Same
              /\ \/ At(0) /\ Command("DNS_REQUEST", 0, "empty", 1)
                 \/ (At(1) \/ At(2)) /\ Command("TCP_CONNECT", 0, "HTTP", 3)
           \/ /\ UNCHANGED <<recv, bufferEmpty>> /\ UNCHANGED connMode
              /\ IF At(3) THEN /\ usedSockets' = [usedSockets EXCEPT ![0] = TRUE]
                               /\ sockets' = [sockets EXCEPT ![0] = recvData]
                 ELSE UNCHANGED table
              /\ Request \/ Header
           \/ Page /\ Same
           \/ PageEnds /\ UNCHANGED <<recv, bufferEmpty>>

=============================================================================
