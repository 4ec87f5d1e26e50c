--------------------------- MODULE StreamRestorer ---------------------------
(***************************************************************************)
(* StreamRestorer of src/exodus/transform/pseudonymize.py: the response of *)
(* the upstream arrives in chunks cut anywhere, and the placeholders of    *)
(* the vault are replaced by the real values on the fly.                   *)
(*                                                                         *)
(* A text is a sequence of cells.  A cell is a character, an opaque run of *)
(* characters that no placeholder begins, ends or is cut by, or Gone, a    *)
(* cell of width zero.  The value of nearly every placeholder is one       *)
(* opaque cell, and a text in which only such placeholders occur is        *)
(* restored in place: what its cells spell is what the loop of restore     *)
(* returns, and the restored text is as long as the text it comes from.    *)
(***************************************************************************)
EXTENDS Naturals, SequencesExt

CONSTANTS
  Char,      \* the characters of a text
  OPEN,      \* the sentinel a placeholder begins with
  CLOSE,     \* the sentinel a placeholder ends with
  Wide,      \* the characters of several bytes, which a chunk may cut in two
  Opaque,    \* runs of other characters that real values are made of
  Lone,      \* those among them with half a surrogate pair, which do not encode
  Rev,       \* _rev: the placeholders of the vault, in the order they were minted
  Value,     \* _rev: the real value of each placeholder, a sequence of cells
  Gone,      \* the cell of width zero
  Bad,       \* bytes of the stream that are not UTF-8
  Streams    \* the streams an upstream may send

Sentinels == {OPEN, CLOSE}
Tokens == {Rev[i] : i \in 1..Len(Rev)}
ValueCells(t) == {Value[t][i] : i \in 1..Len(Value[t])}
Cell == Char \cup {Gone, Bad} \cup UNION {ValueCells(t) : t \in Tokens}

\* The shape placeholder_for gives a token: sentinels at its ends, none inside.
ASSUME TokenShape ==
  /\ OPEN \in Char /\ CLOSE \in Char /\ OPEN # CLOSE
  /\ Sentinels \subseteq Wide /\ Wide \subseteq Char
  /\ Rev \in Seq(Seq(Char))
  /\ \A t \in Tokens :
       /\ Len(t) > 1 /\ t[1] = OPEN /\ t[Len(t)] = CLOSE
       /\ \A k \in 2..Len(t) - 1 : t[k] \notin Sentinels

\* A real value is any text: a detector may match sentinels and lone surrogates.
ASSUME CellKinds ==
  /\ Value \in [Tokens -> Seq(Char \cup Opaque)]
  /\ Opaque \cap (Char \cup {Gone, Bad}) = {} /\ Lone \subseteq Opaque
  /\ Gone \notin Char /\ Bad \notin Char /\ Gone # Bad

ASSUME StreamsType == Streams \subseteq Seq(Char \cup {Bad})

VARIABLES
  stream,    \* what the upstream sends, in characters
  decoded,   \* how many of its characters the decoder has returned
  partial,   \* the decoder holds the first bytes of the next character
  buf,       \* _buf: the text held back
  out,       \* all the text feed and flush have returned
  state      \* "streaming", "flushed", or "failed" when a call raised

vars == <<stream, decoded, partial, buf, out, state>>

-----------------------------------------------------------------------------
(* Vault.restore *)

\* Placeholder t occurs in s at position i.
TokenAt(s, i, t) ==
  /\ i + Len(t) - 1 <= Len(s)
  /\ \A k \in 1..Len(t) : s[i + k - 1] = t[k]

Starts(s, i) == \E t \in Tokens : TokenAt(s, i, t)
Inside(s, i) == \E j \in 1..i - 1 : \E t \in Tokens : TokenAt(s, j, t) /\ i < j + Len(t)

\* The value of t holds no sentinel and is no part of a placeholder.
Plain(t) == Len(Value[t]) = 1 /\ Value[t][1] \in Opaque

\* A placeholder occurs in s whose value may join the text around it.
Tangled(s) == \E i \in 1..Len(s) : \E t \in Tokens : TokenAt(s, i, t) /\ ~Plain(t)

\* Every occurrence replaced where it is: those of plain values do not overlap
\* and make no new one, so the order of the loop does not show.
InPlace(s) ==
  [i \in 1..Len(s) |->
     IF Starts(s, i) THEN Value[CHOOSE t \in Tokens : TokenAt(s, i, t)][1]
     ELSE IF Inside(s, i) THEN Gone
     ELSE s[i]]

Join(s, t) == s \o t
Joined(pieces) == FoldLeft(Join, <<>>, pieces)

Visible(s) == Joined([i \in 1..Len(s) |-> IF s[i] = Gone THEN <<>> ELSE <<s[i]>>])

\* What text.replace(token, real) makes of each text.
Replacing(t) == [text \in Seq(Cell) |->
  LET Covered(i) == \E j \in 1..i - 1 : TokenAt(text, j, t) /\ i < j + Len(t)
  IN  Joined([i \in 1..Len(text) |->
        IF TokenAt(text, i, t) THEN Value[t]
        ELSE IF Covered(i) THEN <<>>
        ELSE <<text[i]>>])]

\* The loop as it stands: each replacement works on what the ones before made.
PutBack(text, t) == Replacing(t)[text]
OneByOne(s) == FoldLeft(PutBack, Visible(s), Rev)

\* Faulty variant: the maps of the vault swapped, a token is put for itself.
RestoreFromFwd(s) ==
  [i \in 1..Len(s) |->
     IF Starts(s, i) THEN CHOOSE t \in Tokens : TokenAt(s, i, t)
     ELSE IF Inside(s, i) THEN Gone
     ELSE s[i]]

Restore(s) == IF Tangled(s) THEN OneByOne(s) ELSE InPlace(s)

-----------------------------------------------------------------------------
\* Faulty variants: nothing is held back; find in place of rfind.
NeverDangling(s) == {}
FirstOpenDangling(s) ==
  {i \in 1..Len(s) :
     /\ s[i] = OPEN /\ \A j \in 1..i - 1 : s[j] # OPEN
     /\ \A j \in i + 1..Len(s) : s[j] # CLOSE}

\* The last OPEN of s, when no CLOSE follows it: rfind(_OPEN) and the test on it.
Dangling(s) ==
  {i \in 1..Len(s) : s[i] = OPEN /\ \A j \in i + 1..Len(s) : s[j] \notin Sentinels}

\* What the decoder returns for a chunk that ends m characters further.
Decode(m) == SubSeq(stream, decoded + 1, decoded + m)

\* A chunk may end inside the next character when it has several bytes; one
\* that is broken looks the same until more bytes, or the end, arrive.
MayEndInside(n) == n < Len(stream) /\ stream[n + 1] \in Wide \cup {Bad}

\* Faulty variant: each chunk decoded on its own, with no incremental decoder.
DecodableAlone(m) == ~partial /\ \A i \in decoded + 1..decoded + m : stream[i] # Bad

Decodable(m) == \A i \in decoded + 1..decoded + m : stream[i] # Bad

Init ==
  /\ stream \in Streams
  /\ decoded = 0 /\ partial = FALSE
  /\ buf = <<>> /\ out = <<>>
  /\ state = "streaming"

\* out.encode("utf-8"), the last thing a call does: half a surrogate pair in a
\* value that was put back makes it raise, after _buf has been assigned.
Encodes(text) == \A i \in 1..Len(text) : text[i] \notin Lone

Return(text, next) ==
  /\ out' = IF Encodes(text) THEN out \o text ELSE out
  /\ state' = IF Encodes(text) THEN next ELSE "failed"

\* feed(data) where data completes m characters, and leaves p behind.
Feed(m, p) ==
  /\ state = "streaming"
  /\ Decodable(m)
  /\ p => MayEndInside(decoded + m)
  /\ m = 0 => (p \/ ~partial)
  /\ decoded' = decoded + m
  /\ partial' = p
  /\ LET text == Restore(buf \o Decode(m)) IN
       IF Dangling(text) = {}
       THEN Return(text, "streaming") /\ buf' = <<>>
       ELSE \E i \in Dangling(text) :
              /\ Return(SubSeq(text, 1, i - 1), "streaming")
              /\ buf' = SubSeq(text, i, Len(text))
  /\ UNCHANGED stream

\* The decoder raises on a chunk that holds bytes that are not UTF-8: nothing
\* of the chunk reaches the buffer, and the exception ends the response.
FeedFails(m) ==
  /\ state = "streaming"
  /\ ~Decodable(m)
  /\ state' = "failed"
  /\ UNCHANGED <<stream, decoded, partial, buf, out>>

\* Faulty variant: the stream ends with no flush of the buffer.
FlushNothing ==
  /\ state = "streaming"
  /\ decoded = Len(stream)
  /\ state' = "flushed"
  /\ UNCHANGED <<stream, decoded, partial, buf, out>>

\* flush() at the end of the stream.
Flush ==
  /\ state = "streaming"
  /\ decoded = Len(stream)
  /\ Return(Restore(buf), "flushed")
  /\ buf' = <<>>
  /\ UNCHANGED <<stream, decoded, partial>>

\* flush() with a broken character left in the decoder: decode(final) raises.
FlushFails ==
  /\ state = "streaming"
  /\ partial /\ decoded + 1 = Len(stream) /\ stream[decoded + 1] = Bad
  /\ state' = "failed"
  /\ UNCHANGED <<stream, decoded, partial, buf, out>>

Next ==
  \/ \E m \in 0..Len(stream) - decoded :
       \/ \E p \in BOOLEAN : Feed(m, p)
       \/ FeedFails(m)
  \/ Flush
  \/ FlushFails

\* The proxy iterates the response until it ends or a call raises.
Fairness == WF_vars(Next)

Spec == Init /\ [][Next]_vars
FairSpec == Spec /\ Fairness

-----------------------------------------------------------------------------
TypeOK ==
  /\ stream \in Streams
  /\ decoded \in 0..Len(stream)
  /\ partial \in BOOLEAN
  /\ buf \in Seq(Cell) /\ out \in Seq(Cell)
  /\ state \in {"streaming", "flushed", "failed"}

Untangled == ~Tangled(stream)
ValidUtf8 == \A i \in 1..Len(stream) : stream[i] # Bad
Answered(t) == \E i \in 1..Len(stream) : TokenAt(stream, i, t)
HoldsLone(t) == ValueCells(t) \cap Lone # {}

\* INV-3 on the wire: wherever the chunks are cut, the client has been sent a
\* prefix of the text it would get had the whole response come in one piece,
\* unless the response repeats a placeholder whose value may join the text around
\* it: what feed puts back and holds is restored once more with the next chunk.
ChunkIndependence == Untangled => out = SubSeq(Restore(stream), 1, Len(out))

\* Once flushed, the client has the whole restored response.
FlushedIsWhole == Untangled /\ state = "flushed" => out = Restore(stream)

\* A call raises on bytes that are not UTF-8 and on a value that does not encode
\* again, and on nothing else: never on a character that a chunk cut in two, and
\* never on a value the response does not repeat, but where a value that holds
\* sentinels may spell its placeholder.
OnlyBadTextFails ==
  state = "failed" =>
    \/ ~ValidUtf8
    \/ \E t \in Tokens : HoldsLone(t) /\ (Untangled => Answered(t))

\* feed holds back no more than it must: all that was decoded has been restored
\* and sent, but for an opening sentinel that no sentinel follows any more and
\* the text behind it, placeholders restored there included.
OnlyUnclosedIsHeld == Untangled /\ state = "streaming" =>
  /\ out \o buf = Restore(SubSeq(stream, 1, decoded))
  /\ buf # <<>> => buf[1] = OPEN /\ \A i \in 2..Len(buf) : buf[i] \notin Sentinels

\* A stream of valid UTF-8 ends with its whole restored text at the client, if
\* the values it repeats encode and hold no sentinel.
EverythingArrives ==
  (ValidUtf8 /\ Untangled /\ \A t \in Tokens : Answered(t) => ~HoldsLone(t))
    ~> (state = "flushed" /\ out = Restore(stream))
=============================================================================
