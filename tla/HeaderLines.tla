------------------------------- MODULE HeaderLines -------------------------------
(***************************************************************************)
(* How MATASK_HTTP_GetPost finds the lines of a header, and its end, in    *)
(* the DATA replies it comes in (step 8, with MAU_strncpy_CRLF_LF).  The   *)
(* server sends one header and the beginning of a page, and the network    *)
(* cuts them where it likes; Http takes the lines as they come out here.   *)
(***************************************************************************)
EXTENDS Integers, Sequences, SequencesExt

CONSTANTS
  Texts,    \* the lines a server sends, as sequences of characters
  Cuts      \* the kinds of place where a reply may end

ASSUME HeaderAssumption ==
  Cuts \subseteq {"in a line", "in a line again", "after a line", "in a newline", "before the end"}

CR == "CR"
LF == "LF"
Newlines == {<<CR, LF>>, <<LF>>}

VARIABLES
  sentLines,   \* the lines of the header, without their newlines
  newline,     \* and the newline the server writes
  pos,         \* how much of it the server has sent
  prevLine,    \* prevBuf: the beginning of a line
  foundLines,  \* the lines the code has looked at
  headEnd,
  body         \* what it takes for the page

headerVars == <<sentLines, newline, pos, prevLine, foundLines, headEnd, body>>

Page_ == <<"p", "p">>
Sent  == FlattenSeq([i \in DOMAIN sentLines |-> sentLines[i] \o newline]) \o newline \o Page_
HeaderSize == Len(Sent) - Len(Page_)

HeaderInit ==
  /\ sentLines \in UNION {[1..n -> Texts] : n \in 1..2} /\ newline \in Newlines
  /\ pos = 0 /\ prevLine = <<>> /\ foundLines = <<>> /\ headEnd = FALSE /\ body = <<>>

----------------------------------------------------------------------------
(* Where a reply ends.                                                     *)

LineStart(p) ==
  LET ends == {q \in 1..p : Sent[q] = LF}
  IN IF ends = {} THEN 0 ELSE CHOOSE q \in ends : \A r \in ends : r <= q

Kind(p) ==
  IF p >= HeaderSize THEN "after a line"
  ELSE CASE Sent[p] = CR -> "in a newline"
         [] Sent[p] = LF /\ p = HeaderSize - Len(newline) -> "before the end"
         [] Sent[p] = LF /\ p # HeaderSize - Len(newline) -> "after a line"
         [] Sent[p] \notin {CR, LF} /\ LineStart(p) < pos -> "in a line again"
         [] Sent[p] \notin {CR, LF} /\ LineStart(p) >= pos -> "in a line"

----------------------------------------------------------------------------
(* Step 8 on one reply.                                                    *)

\* MAU_strncpy_CRLF_LF: where the first newline from p on begins, and where the
\* text goes on behind it; 0 when there is none.
IsNewline(c, p) ==
  p <= Len(c) /\ (c[p] = LF \/ (c[p] = CR /\ p < Len(c) /\ c[p + 1] = LF))

NewlineAt(c, p) ==
  LET at == {q \in p .. Len(c) : IsNewline(c, q)}
  IN IF at = {} THEN 0 ELSE CHOOSE q \in at : \A r \in at : q <= r

Behind(c, q) == IF c[q] = CR THEN q + 2 ELSE q + 1

\* Mistake: the piece of a line kept from the reply before stays in prevBuf.
LinesKeepPiece(c, first) ==
  LET from[p \in 1 .. Len(c) + 1] ==
        LET q == NewlineAt(c, p)
        IN IF q = 0
           THEN [lines |-> <<>>, end |-> FALSE, rest |-> SubSeq(c, p, Len(c))]
           ELSE LET line == first \o SubSeq(c, p, q - 1)
                    next == Behind(c, q)
                IN IF IsNewline(c, next)
                   THEN [lines |-> <<line>>, end |-> TRUE,
                         rest |-> SubSeq(c, Behind(c, next), Len(c))]
                   ELSE [from[next] EXCEPT !.lines = <<line>> \o @]
  IN from[1]

\* The loop: the lines found, whether an empty line follows the last of them,
\* and what is left then.  The bytes behind a reply are taken to be no newline.
Lines(c, first) ==
  LET from[p \in 1 .. Len(c) + 1] ==
        LET q == NewlineAt(c, p)
        IN IF q = 0
           THEN [lines |-> <<>>, end |-> FALSE, rest |-> SubSeq(c, p, Len(c))]
           ELSE LET line == (IF p = 1 THEN first ELSE <<>>) \o SubSeq(c, p, q - 1)
                    next == Behind(c, q)
                IN IF IsNewline(c, next)
                   THEN [lines |-> <<line>>, end |-> TRUE,
                         rest |-> SubSeq(c, Behind(c, next), Len(c))]
                   ELSE [from[next] EXCEPT !.lines = <<line>> \o @]
  IN from[1]

\* A reply.  What is left takes the place of what prevBuf held.
HeaderReply ==
  /\ pos < Len(Sent) /\ ~headEnd
  /\ \E p \in pos + 1 .. Len(Sent) :
       /\ Kind(p) \in Cuts
       /\ LET found == Lines(SubSeq(Sent, pos + 1, p), prevLine)
          IN /\ foundLines' = foundLines \o found.lines
             /\ headEnd' = found.end
             /\ body' = IF found.end THEN found.rest ELSE <<>>
             /\ prevLine' = IF ~found.end /\ found.rest # <<>> THEN found.rest
                            ELSE IF found.lines # <<>> THEN <<>> ELSE prevLine
       /\ pos' = p
  /\ UNCHANGED <<sentLines, newline>>

\* However a header is cut, as long as no line is cut twice, no newline is cut
\* and the empty line comes with the newline before it: its lines are found,
\* each once and whole, and what follows it is the page.
HeaderRead ==
  /\ IsPrefix(foundLines, sentLines)
  /\ headEnd <=> pos >= HeaderSize
  /\ headEnd => foundLines = sentLines /\ body = SubSeq(Sent, HeaderSize + 1, pos)

=============================================================================
