------------------------------ MODULE LibMaProps -----------------------------
(***************************************************************************)
(* What libma must guarantee to the game that uses it and to the adapter   *)
(* it drives.                                                              *)
(***************************************************************************)
EXTENDS LibMa

\* gMA has its type and rx is the position of a byte in a transfer.
TypeOK == MaType(gMA) /\ rx \in 0..3

\* A call that is waiting has a timer that will run its task: timer 3 is on,
\* and either its handler is enabled or a transfer is in flight whose
\* interrupt enables it.  (No code polls; MA_IntrTimer, ma_bios.c:2097, is
\* all that ever runs a task.)
NoLostWakeup ==
  "APIWAIT" \in gMA.condition =>
    gMA.tm3 /\ ("TIMER_ENABLED" \in gMA.status \/ gMA.sio \/ rx # 0)

\* BIOS_BUSY says that an exchange with the adapter is under way, neither
\* less (a second request would overwrite sendPacket) nor more (the task
\* would never get its next turn).
BusyOwned ==
  "BIOS_BUSY" \in gMA.condition <=>
    (gMA.intrMode # "IDLE" \/ "SIO_RECV_DONE" \in gMA.status)

\* The flag of the keep-alive check lasts as long as its exchange: MAAPI_Main
\* runs no task while it is set.
KeepAliveEnds ==
  "CONNTEST" \in gMA.status => "BIOS_BUSY" \in gMA.condition

\* A reply that is handed on answers the command that was sent last.
ReplyMatches ==
  "SIO_RECV_DONE" \in gMA.status => gMA.recvCmd \in RepliesTo(gMA.sendCmd)

\* The wake-up byte and the START packet after it are sent in BYTE mode,
\* which the adapter is in when no session is open.
FreshStart == gMA.sendState \in {"PRESTART", "START"} => gMA.sioMode = "BYTE"

\* The api counts on an open connection only while the bios has a session.
SessionOwned == gMA.connMode # "OFFLINE" => "CONNECTED" \in gMA.status

\* A task belongs to a call the game is waiting for.
TaskOwned == gMA.task # "NONE" => "APIWAIT" \in gMA.condition

\* A failed call is over: nothing is pending beside an unread error.
ErrorEndsCall ==
  "ERROR" \in gMA.condition => Settled /\ gMA.task = "NONE"

\* An error that is reported has a code.
ErrorNamed == "ERROR" \in gMA.condition => gMA.error # None

\* A refused request is sent again at most twice.
RetryBounded == gMA.retryCount <= 2

\* A reply in WORD mode is never received while an error is unread, for then
\* MA_IntrSerialIO (ma_bios.c:2543) drops its bytes.
NoByteDropped ==
  gMA.intrMode = "RECV" /\ gMA.sioMode = "WORD" => "ERROR" \notin gMA.condition

\* A command in flight is replaced by nothing but the START that restarts the
\* session.
OneCommandAtATime ==
  [][ "BIOS_BUSY" \in gMA.condition /\ gMA.sendCmd' # gMA.sendCmd
        => gMA.sendCmd' = "START" /\ "BIOS_RESTART" \in gMA.status ]_vars

\* The code of an error stays until MAAPI_ErrorCheck has read it.
ErrorKept ==
  [][ {"ERROR"} \subseteq gMA.condition \cap gMA'.condition
        => gMA'.error = gMA.error ]_vars

\* A keep-alive check that fails disconnects the adapter (STATUS_CONNTEST,
\* ma_var.h:30).
KeepAliveFailureDisconnects ==
  [][ {"CONNTEST", "SIO_RECV_DONE"} \subseteq gMA.status
      /\ gMA.recvCmd = "ERROR" /\ "SIO_RECV_DONE" \notin gMA'.status
        => "CONNECTED" \notin gMA'.status ]_vars

\* Every call that the game waits for ends, as long as the console's timer and
\* serial port go on.
CallEnds == "APIWAIT" \in gMA.condition ~> Settled

----------------------------------------------------------------------------
(* The api as the game sees it: ApiRequest, read off gMA.                  *)

Req ==
  CASE "ERROR" \in gMA.condition -> "failed"
    [] "ERROR" \notin gMA.condition /\ "APIWAIT" \in gMA.condition -> "pending"
    [] OTHER -> "idle"

\* MA_SData waits without a task.
Pending ==
  CASE Req # "pending" -> "none"
    [] Req = "pending" /\ gMA.task = "NONE" -> "SDATA"
    [] OTHER -> gMA.task

Api == INSTANCE ApiRequest
         WITH req <- Req, call <- Pending, session <- gMA.connMode # "OFFLINE"

\* libma implements ApiRequest.
ApiSpec == Api!Spec

=============================================================================
