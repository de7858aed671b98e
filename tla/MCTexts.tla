--------------------------------- MODULE MCTexts ---------------------------------
(***************************************************************************)
(* Instances of Codes and HeaderLines for TLC: each runs while the other   *)
(* has not begun.                                                          *)
(***************************************************************************)
EXTENDS Codes, HeaderLines

\* None, all, the sign bit, and three mixtures.
SomeBytes == {{}, 0..7, {7}, {0, 3, 5}, {1, 2, 6, 7}, {3, 4, 6}}

SomeTexts == {<<"x">>, <<"x", "y">>, <<"x", "y", "z">>}

Init == CodesInit /\ HeaderInit

Next ==
  \/ pos = 0 /\ Grow /\ UNCHANGED headerVars
  \/ data = <<>> /\ HeaderReply /\ UNCHANGED data

Spec == Init /\ [][Next]_<<data, headerVars>>

=============================================================================
