------------------------------ MODULE ApiRequest -----------------------------
(***************************************************************************)
(* What libma's api promises to a game, without the adapter, the serial    *)
(* protocol or the tasks.  A game has at most one request pending          *)
(* (APIWAIT); a request ends by being done or by failing; a failure stays  *)
(* until the game has read it; and the session is opened and closed by the *)
(* requests that say so, or lost with an error.                            *)
(***************************************************************************)
EXTENDS Naturals

VARIABLES
  req,      \* the state of the last request
  call,     \* the request that is pending
  session   \* is there a connection to a peer or a provider?

vars == <<req, call, session>>

Opening == {"TELSERVER", "TEL", "RECEIVE"}
Closing == {"OFFLINE", "STOP"}
Asking  == {"CONDITION", "CONDITION2"}
Starting == {"INITLIBRARY", "INITLIBRARY2"}
Alone   == Starting \cup {"EEPROM_READ"}   \* need no session
Peer    == {"SDATA"}

\* Whether a request may be made depends on the session.
Allowed ==
  IF session THEN Closing \cup Asking \cup Peer ELSE Opening \cup Asking \cup Alone

Init == req = "idle" /\ call = "none" /\ session = FALSE

\* To start the library again also does away with an error.
Request ==
  /\ req' = "pending" /\ call' \in Allowed /\ UNCHANGED session
  /\ req = "idle" \/ (req = "failed" /\ call' \in Starting)

\* The one request that may be made while another is pending.
Cancel ==
  /\ req = "pending" /\ call' = "STOP" /\ UNCHANGED <<req, session>>

\* Asking for the line state may find that the session is gone.
Ends(c, s) ==
  CASE c \in Opening -> s = TRUE
    [] c \in Closing \cup Alone -> s = FALSE
    [] c \in Asking -> s \in {session, FALSE}
    [] OTHER -> s = session

Complete ==
  /\ req = "pending" /\ req' = "idle" /\ call' = "none"
  /\ session' \in BOOLEAN /\ Ends(call, session')

\* A failure never opens a session, pending request or not.
Fail ==
  /\ req = "pending" \/ (req = "idle" /\ session)
  /\ req' = "failed" /\ call' = "none"
  /\ session' \in {session, FALSE}

Acknowledge ==
  /\ req = "failed" /\ req' = "idle" /\ UNCHANGED <<call, session>>

Next == Request \/ Cancel \/ Complete \/ Fail \/ Acknowledge

Spec == Init /\ [][Next]_vars

=============================================================================
