-------------------------- MODULE MCStreamRestorer --------------------------
(* StreamRestorer on every stream of at most MaxLen characters, with three *)
(* placeholders: two that begin alike, the second of a value that does not *)
(* encode, and one of a value that ends in the beginning of the first.     *)
EXTENDS StreamRestorer

CONSTANTS a, b, R1, R2, R3, MaxLen

MCChar == {OPEN, CLOSE, a, b}
MCOpaque == {R1, R2, R3}
MCLone == {R2}
\* The first two as EXODUS:email:1 and EXODUS:email:12, which begin alike.
MCRev == <<<<OPEN, a, CLOSE>>, <<OPEN, a, b, CLOSE>>, <<OPEN, b, CLOSE>>>>
MCValue == [t \in Tokens |-> CASE t = Rev[1] -> <<R1>>
                              [] t = Rev[2] -> <<R2>>
                              [] t = Rev[3] -> <<R3, OPEN, a>>]
\* The longer streams are of valid UTF-8, the shorter ones of any bytes.
MCStreams == BoundedSeq(MCChar, MaxLen) \cup BoundedSeq(MCChar \cup {Bad}, MaxLen - 2)

\* Where only plain values are put back, replacing in place is what the loop does.
ASSUME \A s \in BoundedSeq(MCChar, MaxLen) :
  ~Tangled(s) => OneByOne(s) = Visible(InPlace(s))

\* Where a value ends in the beginning of a placeholder, what feed has put back
\* and holds is restored once more, and a cut before the last character shows.
ASSUME
  LET first == <<OPEN, b, CLOSE>> last == <<CLOSE>>
  IN  OneByOne(OneByOne(first) \o last) # OneByOne(first \o last)
=============================================================================
