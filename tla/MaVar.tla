-------------------------------- MODULE MaVar --------------------------------
(***************************************************************************)
(* The private state shared by the two layers of libma (ma_var.h): the     *)
(* global structure gMA, its flag words and the macros that reset it.      *)
(*                                                                         *)
(* gMA is one record.  A function of the library that only reads and       *)
(* writes gMA is an operator from such a record to the next one, so that a *)
(* call inside a call is an application inside an application.  The two    *)
(* flag words `status' and `condition' are sets of flag names: `|=' is     *)
(* union and `&= ~' is difference.                                         *)
(*                                                                         *)
(* Two fields stand for hardware registers the code reads and writes: tm3  *)
(* (timer 3 is running) and sio (a serial transfer is in flight, or has    *)
(* completed and its interrupt is pending).  Delays are not modelled: a    *)
(* running timer expires at some later moment.                             *)
(***************************************************************************)
EXTENDS Integers, FiniteSets

StatusFlags ==
  {"CONNECTED", "TIMER_ENABLED", "CONNTEST", "SIO_RETRY", "SIO_ERR_CHECKSUM",
   "SIO_RECV_DONE", "CONN_PTP", "PTP_SEND_DONE", "BIOS_STOP", "BIOS_RESTART",
   "PTP_SEND", "SIO_SEND_TIMEOUT"}

ConditionFlags ==
  {"APIWAIT", "ERROR", "BUFFER_FULL", "PTP_GET", "CONNECT", "BIOS_BUSY",
   "TCPCLOSED"}

\* The upper byte of gMA.condition, written by MA_SetCondition.
Lines == {"IDLE", "PPP", "P2P_SEND", "P2P_RECV", "LOST"}

ConnModes == {"OFFLINE", "PPP", "P2P_SEND", "P2P_RECV"}

Tasks ==
  {"NONE", "INITLIBRARY", "INITLIBRARY2", "TELSERVER", "TEL", "RECEIVE",
   "CONDITION", "CONDITION2", "OFFLINE", "EEPROM_READ", "STOP"}

\* Commands of the serial protocol that the modelled tasks send.
Commands ==
  {"START", "END", "TEL", "OFFLINE", "WAIT_CALL", "DATA", "CHECK_STATUS",
   "CHANGE_CLOCK", "EEPROM_READ", "PPP_CONNECT", "PPP_DISCONNECT"}

\* What a reply can be: MAPROT_REPLY | command, and the two answers that are
\* not the echo of a command.
Replies == Commands \cup {"ERROR", "DATA_END"}

None == "none"   \* the value 0 (or -1, for error) of a field that holds nothing

Errors ==
  {None, "MA_NOT_FOUND", "CALL_FAILED", "BUSY", "CONNECT", "EEPROM_SUM",
   "SYSTEM", "CANNOT_EXECUTE_LOW", "ILLEGAL_PARAMETER_LOW",
   "ILLEGAL_PARAMETER", "CANNOT_EXECUTE", "PPP_CONNECT", "OFFLINE",
   "TCP_CONNECT", "REGISTRATION", "TIMEOUT", "PROT_ILLEGAL_CMD",
   "PROT_CHECKSUM", "PROT_INTERNAL"}

IntrModes == {"IDLE", "SEND", "RECV", "WAIT"}
SioModes  == {"BYTE", "WORD"}
SendStates == {"IDLE", "PRESTART", "START", "DATA"}
RecvStates == {"IDLE", "START", "HEADER", "DATA", "CHECKSUM", "FOOTER"}
Timeouts  == {"02", "10", "30", "90"}

\* Second byte of an ERROR reply: the reason the adapter gives.
NegaErrs == {"0", "1", "2", "3", "4"}

\* What the body of a reply says, as far as the code looks into it: the line
\* state of CHECK_STATUS, the verdict on EEPROM contents, the amount of peer
\* data in DATA.
Answers ==
  {None, "lost", "hungup", "busy", "good", "unregistered", "badsum",
   "part", "whole"} \cup NegaErrs

\* The type of gMA, one conjunct per field.
MaFields ==
  {"condition", "line", "status", "error", "apiMagic", "intrMode", "sioMode",
   "sendState", "sendLeft", "recvState", "readCnt", "recvSize", "bufSize",
   "retryCount", "counter", "timeout", "rubbish", "sendCmd", "recvCmd",
   "negaResCmd", "negaResErr", "answer", "connMode", "task", "taskStep",
   "taskError", "offline", "eepromCached", "tm3", "sio"}

MaType(m) ==
  /\ DOMAIN m = MaFields
  /\ m.condition \in SUBSET ConditionFlags /\ m.line \in Lines
  /\ m.status \in SUBSET StatusFlags
  /\ m.error \in Errors /\ m.taskError \in Errors
  /\ m.apiMagic \in BOOLEAN
  /\ m.intrMode \in IntrModes /\ m.sioMode \in SioModes
  /\ m.sendState \in SendStates /\ m.sendLeft \in Int
  /\ m.recvState \in RecvStates /\ m.readCnt \in Nat
  /\ m.recvSize \in Nat /\ m.bufSize \in Nat
  /\ m.retryCount \in Nat /\ m.counter \in Nat /\ m.rubbish \in Nat
  /\ m.timeout \in Timeouts
  /\ m.sendCmd \in Commands \cup {None}
  /\ m.recvCmd \in Replies \cup {None}
  /\ m.negaResCmd \in Commands \cup {None} /\ m.negaResErr \in Answers
  /\ m.answer \in Answers
  /\ m.connMode \in ConnModes
  /\ m.task \in Tasks /\ m.taskStep \in 0..255
  /\ m.offline \in BOOLEAN /\ m.eepromCached \in BOOLEAN
  /\ m.tm3 \in BOOLEAN /\ m.sio \in BOOLEAN

\* gMA as the startup code, MA_End and the head of MA_InitLibrary leave it:
\* every byte zero, the timer and the serial port off.
Zero ==
  [condition |-> {}, line |-> "IDLE", status |-> {}, error |-> None,
   apiMagic |-> FALSE, intrMode |-> "IDLE", sioMode |-> "BYTE",
   sendState |-> "IDLE", sendLeft |-> 0, recvState |-> "IDLE",
   readCnt |-> 0, recvSize |-> 0, bufSize |-> 0, retryCount |-> 0,
   counter |-> 0, timeout |-> "02", rubbish |-> 0,
   sendCmd |-> None, recvCmd |-> None, negaResCmd |-> None, negaResErr |-> None,
   answer |-> None, connMode |-> "OFFLINE", task |-> "NONE", taskStep |-> 0,
   taskError |-> None, offline |-> FALSE, eepromCached |-> FALSE,
   tm3 |-> FALSE, sio |-> FALSE]

MA_SetCondition(m, cond) == [m EXCEPT !.line = cond]

\* Mistake: the adapter is left in WORD mode.
ResetInWordMode(m) ==
  [m EXCEPT !.connMode = "OFFLINE", !.counter = 0,
            !.intrMode = "IDLE", !.line = "IDLE",
            !.status = @ \ {"CONNECTED", "CONN_PTP", "PTP_SEND_DONE",
                            "PTP_SEND", "CONNTEST"},
            !.condition = @ \ {"PTP_GET", "CONNECT"}]

\* Mistake: CONNECTED survives the session, and with it the keep-alive.
ResetStaysConnected(m) ==
  [m EXCEPT !.connMode = "OFFLINE", !.sioMode = "BYTE", !.counter = 0,
            !.intrMode = "IDLE", !.line = "IDLE",
            !.status = @ \ {"CONN_PTP", "PTP_SEND_DONE", "PTP_SEND", "CONNTEST"},
            !.condition = @ \ {"PTP_GET", "CONNECT"}]

\* The MA_Reset() macro.  What it leaves alone matters: BIOS_BUSY, ERROR and
\* APIWAIT, the flags of a cancellation (BIOS_RESTART, BIOS_STOP,
\* SIO_SEND_TIMEOUT), SIO_RECV_DONE, and the task.
MA_Reset(m) ==
  [m EXCEPT !.connMode = "OFFLINE", !.sioMode = "BYTE", !.counter = 0,
            !.intrMode = "IDLE", !.line = "IDLE",
            !.status = @ \ {"CONNECTED", "CONN_PTP", "PTP_SEND_DONE",
                            "PTP_SEND", "CONNTEST"},
            !.condition = @ \ {"PTP_GET", "CONNECT"}]

=============================================================================
