# A verification of libma

libma is the library a game links to drive a Mobile Adapter GB from a Game Boy
Advance: it dials a provider or a peer over a mobile phone, and speaks TCP,
DNS, SMTP, POP3 and HTTP through the adapter. This directory holds TLA+ modules
that model it, TLC configurations that check them on small instances, and
theorems with proofs that TLAPS checks.

## The system

libma runs on one processor, without threads. Three things touch its state, the
global structure `gMA`:

* **the game**, which calls the functions of `libma.h` from its main loop;
* **the timer-3 interrupt**, `MA_IntrTimer`;
* **the serial interrupt**, `MA_IntrSerialIO`, raised when a transfer of one
  byte (BYTE mode) or four (WORD mode) with the adapter has completed.

| Component | Source | State | Operations |
|---|---|---|---|
| shared state | `ma_var.h`, `libma.h` | `gMA`, its words `status` and `condition` | `MA_Reset`, `MA_SetCondition` |
| serial protocol (bios) | `ma_bios.c` | `intrMode`, `sendIoBuf`, `recvIoBuf`, `retryCount`, `counter`, `timeout`, `sioMode`, `sendCmd`, `recvCmd` | both handlers, the commands `MABIOS_*`, retry, timeout, restart, keep-alive |
| packets, checksums | `ma_bios.c` | none | `MA_CreatePacket`, `MA_CalcCheckSum` |
| timer tables | `ma_bios.c` | `timerIntInter`, `timeout` | `MA_SetInterval`, `MA_SetTimeoutCount`, interval tables |
| api core | `ma_api.c` | `task`, `taskStep`, `taskError`, `error`, APIWAIT, ERROR | `MA_ApiPreExe`, `MAAPI_Main`, `MA_InitLibrary`, `MA_InitLibrary2`, `MA_End`, `MA_Stop`, `MAAPI_ErrorCheck` |
| dialling a provider | `ma_api.c` | `connMode`, cached EEPROM contents | `MA_TelServer`, `MA_Offline` |
| peer-to-peer | `ma_api.c`, `ma_bios.c` | `prevBuf`, PTP_GET, PTP_SEND, PTP_SEND_DONE | `MA_Tel`, `MA_Receive`, `MA_SData`, `MA_GData`, `MATASK_P2P`, the polling in `MA_IntrTimer_SIOIdle` |
| line condition | `ma_api.c` | the upper byte of `condition` | `MA_Condition`, `MA_Condition2` |
| EEPROM | `ma_api.c` | `prevBuf` as a cache | `MA_EEPROMRead`, `MA_EEPROMWrite`, `MA_GetTel`, `MA_GetUserID`, `MA_GetMailID` |
| TCP and DNS | `ma_api.c`, `ma_sub.c` | the socket table | `MA_TCP_Connect`, `_Disconnect`, `_SendRecv`, `_Cut`, `MA_GetHostAddress` |
| mail | `ma_api.c` | `smtpSender`, `prevBuf`, `endLineBuf`, BUFFER_FULL, task parameters | `MA_SMTP_*`, `MA_POP3_*` |
| HTTP | `ma_api.c` | `prevBuf`, BUFFER_FULL, task parameters | `MA_HTTP_Get`, `MA_HTTP_Post`, `HttpGetNextStep` |
| authentication | `ma_ango.c`, `md5c.c` | none | Base64, MD5 |
| string helpers | `ma_sub.c` | none | `MAU_*` |
| archive data | `ardata.c` | none | constant data |

**How they interact.** A call that is accepted sets `MA_CONDITION_APIWAIT` and a
task, and returns; the game polls the flag. The timer handler runs
`MAAPI_Main`, which, when the bios is not busy, runs one step of the task; a step
usually starts one command, and the bios is busy (`MA_CONDITION_BIOS_BUSY`) until
its reply has been received and interpreted. The timer handler starts one
transfer at a time and clears `STATUS_TIMER_ENABLED` when it does; the serial
handler interprets what the transfer brought and sets the flag again. This
handshake is all that keeps the library running.

The tasks above TCP share three things as well: the socket list, in which mail
and HTTP always take slot 0; `prevBuf`, which holds the reply line read so far,
or what of a mail or page did not fit into the game's buffer, or a copy of the
EEPROM; and the union `gMA.param`, so that one call's parameters end with the
next call.

**What is hard here.** There is no concurrency inside a handler, but everything is
shared and every path must restore the handshake. Timeouts, retries after a
refused footer, retries after a bad checksum, the restart of the session after a
timeout, the keep-alive and the polling of the peer all use the same few flags;
a flag that outlives the exchange it belongs to disturbs the next one. `MA_Stop`
may come at any moment. An error ends the call but not the interrupts. Above TCP
every step of a task may meet a refusal, a reply that is not complete or a
server that has hung up, and must leave the connection closed or in the list.
`PROJECT.json` lists these hazards line by line, with the properties that
watch them.

**What makes each component correct.**

* bios: one command at a time, and BUSY exactly while one is under way; a reply
  is handed on only if it answers the command sent; retries are bounded; a
  restart that was asked for takes place; no reply byte is dropped; the
  keep-alive ends.
* api core: a call ends; it ends once, and an error beside it means it is over;
  the error has a code, and keeps it until read; a task belongs to a call.
* connections: the api counts on a connection only while the bios has a session.
* TCP, mail, HTTP: between calls the list of sockets says what the adapter has
  open; a connection attempt is repeated a bounded number of times; nothing is
  said to a server out of turn; a mail or a page is in the game's buffers whole
  and in order.
* EEPROM: settings come from a copy that is whole.
* texts: what one conversion writes, its inverse reads.
* peer-to-peer: `prevBuf` is large enough for all that can still arrive, and
  only whole messages are announced.

## The modules

| Module | Models | Remarks |
|---|---|---|
| `MaVar` | `ma_var.h`, flags of `libma.h` | `gMA` as a record, its type `MaType`, `Zero`, `MA_Reset` |
| `MaBios` | `ma_bios.c` | one operator per C function, from `gMA` to the next `gMA` |
| `MaApi` | `ma_api.c` | one operator per call and per task |
| `LibMa` | game, interrupts and adapter around them | the state machine: variables `gMA` and `rx`, actions, fairness |
| `LibMaProps` | | the properties, and the refinement mapping to `ApiRequest` |
| `ApiRequest` | | the abstract specification: what the api promises a game |
| `Servers` | the servers at the other end | external; what they wait for, what they may say |
| `Sockets` | the socket list, the TCP and DNS calls, `MA_TCP_Cut`, `MA_Offline` | commands sent and answered in one step each |
| `Receive` | how bytes get into the game's buffer, and what does not fit | shared by mail and HTTP |
| `Mail` | the SMTP and POP3 calls and tasks | |
| `Http` | `MA_HTTP_Get`, `MA_HTTP_Post` and their task | |
| `Settings` | the EEPROM, its copy in `prevBuf`, `MA_TelServer` | |
| `Sessions` | a game that uses all of these | the state machine, its properties and fairness |
| `Codes` | Base64, the secret code, numbers as text | operators and recursive functions |
| `HeaderLines` | how the lines of an HTTP header are found | a header cut into replies |
| `P2PBuffer` | `prevBuf` during a peer-to-peer session | sizes instead of bytes |
| `MCLibMa`, `MCTexts` | | constants for TLC; `MCTexts` runs `Codes` and `HeaderLines` side by side |
| `MaApiProofs`, `LibMaProofs` | | theorems about `LibMa`, their lemmas operator by operator |
| `SessionsTypes`, `SessionsProofs`, `SessionsLists`, `SessionsMail` | | theorems about `Sessions`: types; buffers, the EEPROM copy and pages; the socket list; the mail dialogue and the bytes of a mail |
| `P2PProofs`, `CodesProofs` | | theorems about `P2PBuffer` and `Codes` |

`MaBios` and `MaApi` declare no variables. The C functions call one another on one
structure, and the operators do the same: `MA_SetError(MA_Reset(m), e)` is the
call sequence. The names are those of the source. An operator with no name of
the source is a part several functions share (`StartSend`, `AwaitReply`,
`FooterRetry`, `ReportAndReset`), and `PROJECT.json` gives the lines of every
one.

`LibMa` turns them into steps. `Game` has one action per function of the api,
`Timer` one per branch of `MA_IntrTimer`, `Serial` one per branch of
`MA_IntrSerialIO`. `rx` is the position within a WORD transfer whose bytes are
being interpreted.

`Servers`, `Sockets`, `Receive`, `Mail`, `Http`, `Settings` and `Sessions` extend
one another in this order, each with the variables of its part, and stand
beside `LibMa`: what a command's exchange does on the serial line is `LibMa`'s
subject, what a sequence of commands does to connections and data is theirs.
`Game` has one action per call, `MAAPI_Main` one per task, with a disjunct for
each `case` of its `switch`; a task's test of an ERROR reply and of TCPCLOSED
comes before its steps, as in the code. The head and the way out that all mail
tasks have in common are `MailTrouble`, the moment their own steps run is
`MailRuns`. `MA_ProcessRecvPacket` and `SettingsAnswers` are the adapter's
answer together with what the bios does with it, the repetition of TCP_CONNECT
included.

A server (`Servers`) is a small protocol machine. It knows what it waits for,
and says, whenever it likes, as much as it likes of what is due: nothing, part
of a line, a good or a bad reply, a header with some bytes of its page. It may
also stop where the code is not prepared for it: between the CR and the LF of the
line before a mail ("cut"), and before the empty line that ends a header
("split"). It may refuse or hang up at any DATA command. What it does not expect confuses it.

### What is abstracted

* **A call or a timer handler is one step.** The calls of the api mask both
  interrupts while they work (`SetApiCallFlag`, `ResetApiCallFlag`), and the
  handlers do not nest. Two places are finer in the code than in the model:
  `MA_ConditionMain` runs the first step of its task after it has released the
  interrupts (the timer is stopped then), and `MAAPI_ErrorCheck` clears the
  error flag with a read-modify-write. Both are listed as hazards. The flags
  `STATUS_API_CALL`, `STATUS_INTR_TIMER` and `STATUS_INTR_SIO`, which say that
  a call or a handler is running, are therefore not in the model. `MA_Stop`
  before the first `MA_InitLibrary` leaves STATUS_API_CALL set in the code;
  `MA_InitLibrary` clears it.
* **A WORD transfer is four steps**, one for each byte, so that the adapter may
  choose the meaning of each. Nothing else runs between them.
* **Packets are lengths.** A request takes two transfers in BYTE mode and one in
  WORD mode; what matters is where the footer is looked at. A reply has the two
  magic bytes, four header bytes, a body of 0, 1 or 2 bytes (padded to four in
  WORD mode), the checksum and the footer, all of them read in the states of
  `MA_IntrSio_Recv`.
* **Contents are named by what the code does with them** (`Answers`): the line
  state of CHECK_STATUS, the verdict on EEPROM contents, the reason in an ERROR
  reply, the amount of peer data.
* **Delays are not modelled.** A running timer expires at some later moment, so
  every relation of intervals is allowed. `counter` and its limits are.
* **In `Sockets` and the modules above it an exchange is one step**, and so is the
  end of a session by MA_Stop or because the adapter is gone: `LibMa` models
  these in full. The game calls only when the previous call is over
  (`MA_TCP_Cut` excepted), and makes no mail or HTTP call while it has a socket
  of its own, which the code neither refuses nor survives. Calls with illegal
  parameters are refused like those made in a wrong state (`MA_ApiPreExe`).
* **A text is what the other side makes of it**: a command of a protocol, a reply
  line that is good, bad or not complete, a header with the status the task
  looks for or another. The bytes of a mail or page are their positions, so
  that a byte lost, doubled or out of place shows. Where its lines end is chosen
  when the code looks for it (`FirstCRLF`, `PageTakenForHeader`), but for the
  last two of a mail. `endLineBuf` keeps of the last five bytes those that may
  still be part of an end. The bytes behind a reply are taken to be no newline.
* **Two fields are not in the code**: `mail.missed` and `http.missed` count the
  bytes of a mail or page that the code has taken for its reply line or header.
  No guard reads them.
* **The game goes on with a page or mail in the same call** while its buffer is
  full, and gives any of the sizes in `Rooms`.
* **An EEPROM is two parts with the version each belongs to**; parts of different
  versions do not have the right sum. A setting is what its version says.
* **In `Codes` a byte is the set of its bits**, and digits are numbers. The MD5 hash
  that the secret code starts from is left out. In `HeaderLines` a character is
  a symbol; only the newlines matter.
* **The adapter is arbitrary** within the sets a configuration gives: the footers
  it answers with, the commands it refuses and why, the noise on the line, the
  contents of its replies. It never answers with another command's reply, which
  is its side of the protocol.

An operator whose comment begins with "Mistake:" is not part of the model. It is
the operator that follows it with a slip a programmer could have made, and is
there to show that a property notices it; `PROJECT.json` pairs them with the
properties.

## The runs

| Run | Question | States |
|---|---|---|
| `LibMa_offline` | do bios and api stay in step against every kind of bad adapter, and does every call end? | 68 000 |
| `LibMa_internet` | a provider session with its EEPROM reading, keep-alive and cancellation: is it `ApiRequest`, do calls end, do flags stay with their exchange? | 110 000 |
| `LibMa_peer` | a peer session with polling, messages and an adapter that goes away: is it `ApiRequest`, and is the session the bios's? | 16 000 |
| `LibMa_misuse` | any call at any moment, legal or not: does the state keep its type, and is a failed call over? | 1 150 000 |
| `Sessions_mail` | sockets and mail: is no connection left behind, is the server never spoken to out of turn, does a mail arrive in order and, where its reply line allows, whole? | 588 000 |
| `Sessions_http` | sockets, mail connections, pages, settings: do list and connections agree, is a page in order, do calls end? | 882 000 |
| `Texts_small` | do the conversions invert each other, and are the lines of a header found? | 37 000 |
| `P2PBuffer_small` | does `prevBuf` hold what may still arrive? | 744 |

What the properties say:

* `NoLostWakeup`: a pending call always has an interrupt to come that will run
  its task. `BusyOwned`: BIOS_BUSY exactly while an exchange is under way.
  `ReplyMatches`, `OneCommandAtATime`: replies and commands are not mixed up.
* `KeepAliveEnds`, `RetryBounded`, `FreshStart`, `NoByteDropped`: the flags and
  counters of keep-alive, retry, transfer mode and error do not outlive what
  they belong to.
* `SessionOwned`, `TaskOwned`: the layers agree on whether there is a session and
  whose task is running.
* `ErrorEndsCall`, `ErrorNamed`, `ErrorKept`: a failed call is over, its error
  has a code and keeps it.
* `ApiSpec`: every step of the library is a step of `ApiRequest` or none. Cancelled
  requests, lost sessions and errors that no call caused are in `ApiRequest`.
* `CallEnds`: a pending call ends.
* `OpenIsListed`, `ListedIsOpen`, `HeldIsListed`: between calls the list of
  sockets, the connections of the adapter and those the game counts on agree.
  Exempt are the connection of a page, which the code leaves to the server to
  close, and, in `ListedIsOpen`, the time a page waits for a buffer.
  `TransferEnds`: the TCP calls, `MA_TCP_Cut` and the reading of settings end.
* `SessionMatches`: a mail session the game may go on with has its connection in
  slot 0, and its server has said all that was due. `Sequenced`: no server ever
  hears what it does not wait for: no command before the reply to the last one
  is complete, no text before DATA.
* `MailInOrder`, `HttpBodyInOrder`: the game's buffers hold the mail or page in
  order, no byte twice and none lost but those of `missed`, to the last one.
  These are lost in one way each, in the code too: to a reply line that came cut
  between CR and LF, and to a header that came cut before its empty line (see
  below). After any other cut `missed` is 0 and the mail or page is whole.
  `BufferKept`: nothing is written behind a buffer, and a call waits for another
  one only while there is a rest.
* `CacheWhole`: both parts of the copy of the EEPROM are of one version, and a
  registered one, whenever it counts or is dialled with.
* `Base64RoundTrip`, `NumberRoundTrip`, `CodeReversible`: decoding undoes encoding.
  `HeaderRead`: the lines of a header, each once and whole, and the page behind.
* `NoOverrun`, `WholeMessage`, `Room`: see the proofs.

### Bounds

`TimeoutCounter` is 5 for every timeout, instead of some hundreds: enough for the
longest body (four bytes in WORD mode) and an idle transfer before it, and small
enough that every kind of exchange can run out of it. `NullCounter` is 1 and
`P2PCounter` 0: ticks between two keep-alives and two polls. `MaxRubbish` is 1
instead of 20. `U16` is 5 instead of 65536: the only use of the modulus is the
`-2` given to `retryCount` for an internal error, which becomes 3 instead of
65534, still larger than the 2 of the other refusals. `counter` cannot grow
without end: the code resets it or gives up. In `P2PBuffer` a message has at most
3 bytes, a reply brings at most 4, and the capacity is 11, the least that the
assumption allows (the code has 128, 254 and 637, where 636 would do).

In the `Sessions_*` runs the adapter has two numbers for its connections, 0 among
them, which the code also writes into a free slot, and `MaxHeld`, the number of
sockets the game uses at a time, is 1; in `Sessions_two` it is 2, with a third
number so that a connection lost from the list does not stop the adapter from
opening others. A mail has seven bytes, five of them its end, and a DATA reply
carries 0, 2, 5 or 7 of them, so that it comes in one piece or in several and
its end may be cut. The buffers have 0, 2 or 7 bytes: the game wants none of it,
or goes on at least twice, or has room for all. The pages of a call have three
bytes together, which come 1 or 3 at a time, and go into buffers of 0 or 2: two
small replies fit one buffer, a third or a large one does not, a buffer of none
leaves a rest larger than the next one, and what is missed of a page may be any
part of it. With longer pages (five bytes, 1 or 5 at a time) the invariants hold
as well, but the search for a call that does not end takes too long. A letter
has one or two recipients and takes one or two calls of one or two pieces; a
path or the data of a POST take two DATA commands. All calls in one run would
take more than ten million states, so mail and POP3 are in one run, pages and
settings in the other, and sockets of the game, SMTP connections,
`MA_TCP_Cut` and refused calls in both.

`Risks` names moments with trouble the code is known to have; the passing runs
leave them out, so that they show what holds otherwise. Each of them, added to
a run, breaks a property there: "unstored" is MA_TCP_Cut between the reply to
an HTTP task's TCP_CONNECT and the step that stores its socket (`OpenIsListed`);
"refused" a refused call between MA_SMTP_Sender and MA_SMTP_Send, or while a page
waits for a buffer (`Sequenced`, `ListedIsOpen`); "abandoned" another POP3 call
while a buffer is full (`BufferKept`); "stale_end" memory behind the received
bytes that reads as the end of a mail, or what a mail that was cut short has left
in `endLineBuf` and the first bytes of the next complete to one (`MailInOrder`);
"stale_empty" MA_POP3_Head while a call that MA_TCP_Cut has cut has left
STATUS_BUFFER_EMPTY set (`MailInOrder`). Three more are guards of
the game: no QUIT and no MA_Offline in the middle of a letter, where the server
would take it for text; no mail or HTTP call while a socket is held; and no
chunk of one byte, which `dataLen > 1` (`ma_api.c:2795`) loses.

`Texts_small` tries every string of up to four of six bytes, among them none of
the bits, all of them and the sign, and every pair of them as a number of 16
bits. A header has one or two lines of one to three characters and either kind
of newline. `Cuts` allows a reply to end after a line or once in it. Where a
line is cut twice, a newline is cut or the empty line comes by itself the code
loses a beginning, keeps a CR, or misses the end of the header
(`ma_api.c:4115`-`4142`).

Each configuration restricts what the adapter may do to the sets that its
question needs; together they use every footer, noise, refusal and answer of the
model. Deadlock is checked everywhere but in `Texts_small`, where strings and headers
have an end.

### Fairness

`FairSpec` adds weak fairness of `Timer` and of `Serial`: a running timer
expires, and a transfer that was started completes. Both are the hardware's. The
console is the master of the serial line and clocks each transfer itself, so it
completes even with no adapter attached. Nothing is assumed of the game, nor
that the adapter ever answers.

In `Sessions`, `FairSpec` adds weak fairness of `MAAPI_Main` and of `Answer`:
the timer runs the api, and a command is answered or, as `LibMa` shows, given up.
Mail and HTTP calls need not end: a server that says nothing is polled for ever,
and the code leaves it to the game to cut the connection, so `TransferEnds` is
about the others.

`CallEnds` has two exceptions the configurations leave out. `MA_Receive` waits
for a call as long as nobody calls (WAIT_CALL refused with reason 0), which is
its purpose. And in WORD mode a slow adapter whose reply runs into the timeout
in its body can keep the library busy for ever: MA_IntrSerialIO hands the four
bytes of a transfer to MA_IntrSio_Recv one by one, the first one past the timeout
asks for a restart (MA_CancelRequest), and the next one, past it again, turns the
restart into a stop (MA_BiosStop): the START is never sent. In the session runs
the adapter is therefore one that either answers at once or stays silent
("silence"); in `LibMa_offline`, which keeps to BYTE mode, it may be slow as well.

### Where the code and its comments disagree

Four runs check one property each and find it violated; the counterexamples are
behaviours of the code.

* `LibMa_keepalive_refused`: a keep-alive the adapter refuses does not
  disconnect it, as `ma_var.h:30` says. `STATUS_CONNTEST` stays set, and no task
  runs again.
* `LibMa_condition_hungup`: `MA_Condition` in a session whose line was hung up.
  `gMA.status = 0` (`ma_bios.c:1887`) also clears TIMER_ENABLED while no transfer
  is in flight; the call never ends.
* `LibMa_stale_restart`: the adapter disappears during a restart; the flag
  BIOS_RESTART survives the error and the next call's START is taken for the
  restart's: the session is open and not CONNECTED.
* `Sessions_two`: `MA_TCP_Disconnect` frees slot 0 as well as the slot of its socket
  (`ma_api.c:672`). With two sockets the other one is lost: the adapter has it
  open and the list does not.

Others are known from the models but have no run of their own: those of `Risks` and
`Cuts` above, and these.

* `MA_Stop` during `MA_SData`: the end of the sending clears APIWAIT while the STOP
  task is still to run (`ma_api.c:1333`).
* `MA_POP3_Retr` with a second buffer copies the rest of the mail into it and stores
  what comes next over it (`ma_api.c:2709`; `MA_HTTP_GetPost` advances its pointer,
  3439). `MailInOrder` is therefore about mails that fit into one buffer.
* A `+OK` line cut between CR and LF loses the first line of its mail: the end of the
  line is sought in the new reply alone (`ma_api.c:2797`), not in what `prevBuf` has
  of it and the reply together, and so is found at the end of the mail's first
  line. No error is reported.
* A header cut before its empty line loses the beginning of its page: the empty line is
  recognised only behind a line of the same reply (`ma_api.c:4115`). The page is
  then read as lines of the header, up to the first empty line in it, and what is
  behind that is delivered as the page without an error; a page without one ends
  in an error when the connection is closed.
* `MA_POP3_Head` does not reset STATUS_BUFFER_EMPTY, as `MA_POP3_Retr` does
  (`ma_api.c:2735`). Left by a call that was cut, it drops the first reply: the
  call fails, or, when the whole mail is in that reply, ends with an empty buffer.
* The last page of the centre is not disconnected: step 0xff (`ma_api.c:4235`) frees
  the slot and trusts the server to close.
* MATASK_Tel, MATASK_Receive and MATASK_GetEEPROMData report `gMA.errorDetail` where
  they stored `taskErrorDetail` (`ma_api.c:1153`, 1248, 4370).
* The 401 page of a centre's first request goes into the game's buffer, before the
  page asked for.

## What is proved

* `LibMaTypeOK`, `LibMaErrorEndsCall` (`LibMaProofs`): the properties `TypeOK` and
  `ErrorEndsCall` of `Spec`, for every set of calls, every adapter, every table
  of timeouts and every modulus. They assume `MaBiosAssumption` and
  `LibMaAssumption`, which only give the constants their types.

  The invariant is `IInv`: `GoodMa(gMA)` and `rx \in 0..3`. `GoodMa` has three
  parts. `MaType` is the type, field by field. `CallOver` is `ErrorEndsCall` for
  any state of `gMA`: it is needed in intermediate states too, where one function
  has set an error and its caller goes on. `BodyPending` says that a byte is
  missing while a body is received; without it `readCnt`, which the code
  decrements before it looks at it, could go below zero, and the type would not
  be inductive. `MaApiProofs` shows for each operator that it
  maps good states to good states, callees first; where an operator needs more,
  its lemma says so: `MA_ApiPreExe` and a task set by `MA_TaskSet` need that no
  error is unread, which every call of the api tests first. `LibMaProofs` then
  has one case per action.

* `LibMaBusyOwned`, `LibMaReplyMatches`, `LibMaRetryBounded`, `LibMaTaskOwned` and the
  action property `LibMaOneCommandAtATime` (`LibMaProofs`): the exchanges of the bios
  for every game with `~Misuse`, that is, one that calls a function when the last
  call is over and the library would not refuse it (MA_Stop at any moment). The
  adapter is arbitrary but in `LibMaRetryBounded`, which excludes the footer
  "internal": its `retryCount = -2` is a large number, in the code as in the model.
  `LibMaTaskOwned` excludes `{"STOP", "SDATA"} \subseteq Calls`, which breaks
  `TaskOwned` in the code as well (see above).

  None of these properties is inductive. `Inv` consists of `Sound(gMA)` and what
  remains of a WORD transfer, and `Sound` of `GoodMa`, `Exchange` and `Calling`.
  `Exchange` ties BUSY, the interrupt mode and SIO_RECV_DONE together and follows
  the reply from its command byte to the end, where `ReplyMatches` speaks of the
  end only; it also says that no SIO_RETRY is left while a reply comes. `Calling`
  relates the exchange to the call and the session it belongs to: whose task it
  is (`TaskAwaited`), that nothing runs between calls without a session
  (`QuietOffline`), when a START or a poll with the game's data may be in
  flight (`StartOpens`, `SendAwaited`), and that only the keep-alive runs beside
  an unread error (`UnreadKeepAlive`). Without it a call could begin while a
  command is in flight, or a poll end a call that is not MA_SData's. `Wire` is
  needed because the bytes of a transfer are interpreted one by one: the reply may
  be complete, or its request given up, before the last of them. `Retry` adds to
  `Inv` that a retry that has been used up is not taken up again. The lemmas have
  the shape of `Kept(m, op(m))`, one for each operator that a step consists of.

* `LibMaKeepAliveEnds`, `LibMaNoByteDropped` and the action property `LibMaErrorKept`
  (`LibMaProofs`): what becomes of the keep-alive and of an error nobody has read
  yet, for `~Misuse` and an adapter that does not refuse CHECK_STATUS. A refused
  keep-alive keeps STATUS_CONNTEST and lets the library go on beside its error, in
  the code too: the run `LibMa_keepalive_refused` shows it.

  `Sound` has one more part for them, `Quiet`. `Retreat` follows a request that is
  given up: a timeout of it has still to be reported or waits for the stop, a stop
  that is not yet sent waits outside any exchange, and the bios rests in WAIT without
  any of these only after END or CHANGE_CLOCK. `Checked` has what depends on
  CHECK_STATUS being answered: an unread error has ended the session and no command
  runs beside it, the flag of the keep-alive lasts as long as its exchange or until its
  timeout is reported, and no restart is left over in a session that is idle. The last is what
  keeps a restart from running beside the next keep-alive. `ErrorKept` speaks of a
  step, which may set an error in one operator and go on with another; `ErrorStep` has
  one case per action, and `EndsError` says of an operator that it leaves an error
  alone unless it is the first.

* `LibMaNoLostWakeup` and `LibMaImplementsApi` (`LibMaProofs`): a pending call always
  has an interrupt to come, and the whole library, tasks, retries and restarts
  included, implements `ApiRequest`. They assume `~Misuse`; that CHECK_STATUS is not
  refused; and that the adapter never says the line is lost or the game never calls
  MA_Condition, since a lost line found by MA_Condition in a session stops the timer
  for good, in the code too (`LibMa_condition_hungup`). `LibMaImplementsApi` excludes
  `{"STOP", "SDATA"} \subseteq Calls` as `LibMaTaskOwned` does.

  The invariant is `Ready`: `Inv`; that timer 3 runs while a call is pending or there
  is a session, and that its handler is enabled or a transfer in flight but between
  the bytes of one (`Awake`); and `Told`, what the library must remember to tell the
  game the truth. Of its parts, `Asked` says that in the session of a game without
  MA_Condition only the keep-alive asks for the state of the line, so that a line
  that is lost ends what is pending with an error. `Leaving` says that MA_Offline has been answered when it
  resets the session, or that it timed out and fails. `Answered` says that no refusal
  is left over from the last call: the first step of the next one, which runs before
  its START is sent, would take it for its own.

  Each operator has a lemma that says what it is to the game. A turn of a task goes
  on, fails or completes its call (`Turn`); a handler of the bios is not seen or
  breaks the call off (`Fares`, `Hears`); a call is accepted, cancels another, or reads
  an error (`Moves`). `UnseenApi`, `BreaksApi`, `CompletesApi` and `MovesApi` map these
  to the steps of `ApiRequest`, a step that is not seen to a stutter. That is also
  where `TaskOwned` is needed: without it a call could complete twice.

* `P2PTypeOK`, `P2PRoom`, `P2PNoOverrun`, `P2PWholeMessage` (`P2PProofs`): the peer's
  data never runs past the end of `prevBuf`, and a message is announced only when it
  is there in full, for all sizes with `Capacity >= MaxP2P + 2 * MaxRecv`.

  `NoOverrun` is not inductive: it does not say what is still to come. `Room` does.
  While no whole message waits the buffer holds at most one message's bytes, and
  its size together with what the exchange in flight and an unsent message of the
  game may still bring (`Owed`) is at most `MaxP2P + 2 * MaxRecv`. TLC checks
  `Room` in `P2PBuffer_small`. `WholeMessage` is needed in it because a message
  taken before it is complete would make the size negative.

* `CodesReversible` (`CodesProofs`): the secret code loses no bit, for every string of
  bytes of every length. Each byte of the shuffled key has the even or the odd bits
  of two bytes of the key, and the lemma finds the place of every bit again by
  arithmetic on positions; the moves of bits inside a byte are a permutation; and
  `Xor` with the key undoes itself. All of it holds position by position, so that
  no induction over the string is needed.

* `SessionsTypeOK` (`SessionsTypes`): the type of a session's whole state, for every
  set of connections, every size of buffer, chunk and page, and all `Risks`.

  The type alone is not inductive, since a task takes its next value from a place
  that must hold one: the socket from the last reply, the settings from the last
  EEPROM_READ, the next credentials from a table. `IInv` therefore adds `Running`
  (a task at a step that stores a reply has sent the command this reply answers,
  and a task's parameters are those of its call), `HttpProgress` (a page has taken
  fewer requests than its centre has credentials for) and `PageDue` (the server
  has answered no more of them).

* `SessionsBufferKept` (`SessionsProofs`): `BufferKept`. `TaskInv` adds to `IInv` in
  which connection mode a task may run (`ModeInv`) and that the place a task writes
  to and what it may still write stay in the buffer (`RoomInv`); `FullInv` says
  what a call that waits for a buffer has left over. It assumes
  `"abandoned" \notin Risks`: with another POP3 call in the middle of a mail the
  property fails, in the model and in the code (see Bounds).

* `SessionsCacheWhole` (`SessionsProofs`): `CacheWhole`, for every call and answer.
  `CacheInv` follows the copy through the tasks that share `prevBuf`: the flag is
  down before the first reply line is read over it and while it is filled, and up
  only when both parts have come and agree.

* `SessionsHttpBodyInOrder` (`SessionsProofs`): `HttpBodyInOrder`, without assumptions
  but the types of the constants; it holds with a header cut before its empty line
  as well. What has to be invariant is where each byte of the page is. `PageInv`
  says it for a running task, according to what the task is at (asking, looking for
  the end of the header, having found it, reading the page): the bytes taken by
  earlier buffers, those in this one, those missed and those in the reply not yet
  looked at (`ComingAfter`) are together the bytes the server has sent, in order.
  Several connections of one call may each miss some, so that `Holds` gives a byte's
  position between two bounds, and that positions grow. `WaitInv` says it for a call that waits for another buffer, where the
  rest is in `prevBuf`, and `Out` that a command goes out with the reply buffer
  empty. An invariant about the buffer alone would not survive the step that
  refills it.

* `SessionsOpenIsListed`, `SessionsHeldIsListed`, `SessionsListedIsOpen` (`SessionsLists`):
  the socket list and the adapter's connections agree whenever no call runs. They
  assume `MaxHeld <= 1`, since with two sockets they fail, in the model and in the
  code (`Sessions_two`), and `"unstored" \notin Risks`, the last one
  `"refused" \notin Risks` too, moments that break them (see Bounds).

  At rest the properties are invariant, but in between a task has an open
  connection that is in no list, or a listed one that is closed. `ListInv` says
  which, by the phase the running task is in: it has no connection yet
  (`BeforeList`), has asked for one (`AwaitList`), uses the one in slot 0
  (`UseList`), or closes it (`CloseList`); `TcpList` and `EndList` say it for the
  game's own sockets, MA_Offline and MA_TCP_Cut. `UseList` has that a connection is
  open unless the task has been told that it is not, which is what a task that
  gives up relies on when it frees the slot without a TCP_DISCONNECT.

  A page is closed by its server, once it has answered, and the task frees the slot
  and closes nothing. That this leaves no connection open needs the whole dialogue
  of a page as an invariant too: what the task has said, what the server waits for,
  and what of the answer is there (`HttpInv`). It holds because the task says
  nothing after the last line of its request and the server is of the kind that
  was asked for. `RestFull` adds that a page rests in the middle only with a full
  buffer. TLC checks `ConnInv`, all of these together, in `Sessions_mail` and
  `Sessions_http`.

* `SessionsSessionMatches` and `SessionsSequenced` (`SessionsMail`): a mail server is
  where the library takes it to be between two calls, and no server ever hears what
  it does not wait for. They assume `MaxHeld <= 1` and `Risks = {}`: a refused
  call between MA_SMTP_Sender and MA_SMTP_Send clears `smtpSender`, so that the game
  may name a sender again to a server that waits for recipients, and the other risks
  break the list or the buffer these rest on.

  Neither says anything of the middle of a call, where both are decided. `TalkInv`
  does, by the place of the task in its dialogue: where it reads a reply line
  (`Awaits`), where all is read and it may go on or end (`Stops`), where it sends the
  text of a letter (`Texts`), where it takes a mail (`RetrTalk`), and between two
  calls (`RestTalk`). At each it has what the server waits for and still owes,
  beside what the task has said and what of the reply has come: a task that has read
  a good line knows that nothing is due, even when the line came in two replies
  (`KnowsLine`); a mail's last five bytes are found only where the server has said
  its last one (`EndFound`), which is what makes the next command legal.
  `Understood` says of a text that is out that the server will understand it, so
  that the answer, a step of the server's, keeps `Sequenced`; for a page it follows
  from `HttpInv`. `KnowsGame` ties what the game may call to the letter it has begun.
  All of it is conditional on the connection being open, since a server may vanish
  at any moment; that a task does not go on then is `ConnInv`'s.

* `SessionsMailInOrder` (`SessionsMail`): a mail that ends in the first buffer the game
  gave is there in order and to its last byte, from the one after `mail.missed`, which
  is the first unless the reply line was cut between CR and LF. Besides the
  hypotheses above it assumes `1 \notin ChunkSizes`: a chunk of one byte is lost by
  the code (`ma_api.c:2795`). `MailInv` adds to `TalkInv` that bytes missed, buffer
  and reply together are what the server has sent once the reply line is over or
  its end comes next (`LineOver`), that bytes come with or after the reply line and
  never before it, that STATUS_BUFFER_EMPTY is down in a first buffer, and, for a call that goes on with another buffer, that something was
  stored in the one before (`WaitMail`): otherwise the second would pass for the
  first. TLC checks `TalkInv` and `MailInv` in `Sessions_mail`, and `TalkInv` in
  `Sessions_http`.

Checked by TLC only:

* Liveness: `CallEnds` and `TransferEnds`, and the fairness under them (`ENABLED`).
* `Base64RoundTrip`, `NumberRoundTrip` and `HeaderRead`. Their operators are recursive
  functions over a text (no module declares a RECURSIVE operator), and what these
  give for every text would need an induction over data, which is out of the
  prover's reach.
* `LibMa`'s other properties, `FreshStart`, `SessionOwned` and `ErrorNamed`. They hold
  of restricted adapters only and would need those restrictions as hypotheses; see
  the plan.
* `NoLostWakeup` where CHECK_STATUS may be refused or the line lost while there is no
  session (`LibMa_offline`): the theorem's hypotheses leave that out.

## What is not modelled, and the plan

1. **Proofs about `LibMa`**: `SessionOwned`, `FreshStart` and `ErrorNamed` with the
   restrictions on the adapter under which they hold.
2. **TCP over the bios**: TCP_CONNECT among the commands of `MaBios`. Its repetition
   sets STATUS_SIO_RETRY without a retryCount, so that a footer refused during it
   is retried 65535 times (`ma_bios.c:2066`); and the delay between TCP exchanges.
3. **Finer interleavings**: `MAAPI_ErrorCheck` split into its read and its write,
   and `MA_ConditionMain` split at the point where it releases the interrupts.

Not planned: packets and checksums, the timer tables, MD5 and the string helpers
that copy and compare, which compute on data and keep no state, the parts of a
URL, and `ardata.c`, which is data. `MABIOS_Null`, `MABIOS_ReInit`,
`MABIOS_TestMode` and the UDP commands are called by nothing in the library.
Content-Length is not modelled because the code ignores it.

## Running it

    tlc -workers 2 -config LibMa_peer.cfg MCLibMa.tla
    tlapm LibMaProofs.tla

The `LibMa_*` configurations belong to `MCLibMa`, `Sessions_*` to `Sessions`,
`Texts_small.cfg` to `MCTexts` and `P2PBuffer_small.cfg` to `P2PBuffer`.
