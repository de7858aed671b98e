------------------------------- MODULE MCLibMa -------------------------------
(***************************************************************************)
(* LibMa on small instances: counters of the code's tables scaled down so  *)
(* that every one of them runs out, and the sets of what the game and the  *)
(* adapter may do chosen for each configuration.                           *)
(***************************************************************************)
EXTENDS LibMaProps

\* Enough for a padded WORD body (4 bytes) and one idle transfer before it.
MCTimeoutCounter == [t \in Timeouts |-> 5]

=============================================================================
