------------------------------ MODULE Masking ------------------------------
(***************************************************************************)
(* The deterministic firewall: sanitize_request_body of                    *)
(* src/exodus/transform/pipeline.py walks the strings of a request body,   *)
(* and each detected value is forwarded, replaced by a placeholder of the  *)
(* request's vault, or blocked, as the policy says.  The vault, the        *)
(* overlap resolution and the replacement are those of pseudonymize.py.    *)
(*                                                                         *)
(* A text is a sequence of cells: characters, placeholders and block       *)
(* marks, each one cell.  Positions count from 1 and "end" is the position *)
(* after the last, as in the slices of the code.                           *)
(***************************************************************************)
EXTENDS Policy, SequencesExt

CONSTANTS
  Scanners,     \* the kinds of value, in the order scan tries them
  Detectable,   \* the characters a detected value may hold
  Escaped,      \* the characters JSON escapes in a string
  ESC,          \* the character it escapes them with
  Surrogates,   \* the characters JSON can escape and UTF-8 cannot encode
  Bodies,       \* the request bodies: sequences of leaves
  Files,        \* the policy files
  MaxFound      \* bound: values scan finds in one text

\* The cells of the bodies, characters and what reads like a placeholder.
Cells == UNION {UNION {Range(b[i].text) : i \in 1..Len(b)} : b \in Bodies}

ASSUME BodiesType == Bodies \subseteq Seq([text : Seq(Cells), str : BOOLEAN])
ASSUME ScannersType == Scanners \in Seq(Range(Scanners)) /\ MaxFound \in Nat

VARIABLES
  policy,
  json,       \* the body parses as JSON
  body,       \* the leaves: [text, str], str FALSE for keys, numbers and null
  found,      \* what scan returned, by text
  masked,     \* the leaves done
  pc,         \* "walk", "replace", "done" or "failed"
  queue,      \* the detections chosen in the leaf at hand, still to be done
  repls,      \* its replacements so far
  fwd, rev,   \* the vault: value -> placeholder, and the pairs in order of insertion
  applied     \* <<kind, action>> of every value replaced

vault == <<fwd, rev>>
vars == <<policy, json, body, found, masked, pc, queue, repls, fwd, rev, applied>>

-----------------------------------------------------------------------------
(* The vault.                                                              *)

Token(kind, n) == <<"EXODUS", kind, n>>
BlockMark(kind) == <<"EXODUS-BLOCKED", kind>>
Marks == ({"EXODUS"} \X Range(Scanners) \X Nat) \cup ({"EXODUS-BLOCKED"} \X Range(Scanners))

ASSUME MarksAreNotDetected == Detectable \cap Marks = {}
ASSUME EscapesAreCharacters == ESC \in Escaped /\ Escaped \cap Marks = {}

\* Faulty variant: the value is not looked up first.
AlwaysNextToken(real, kind) == Token(kind, Cardinality(DOMAIN fwd) + 1)

\* The token placeholder_for(real, kind) returns.
PlaceholderFor(real, kind) ==
  IF real \in DOMAIN fwd THEN fwd[real] ELSE Token(kind, Cardinality(DOMAIN fwd) + 1)

\* Faulty variant: a value is given a new placeholder each time it is met.
RememberAgain(real, kind) ==
  LET token == Token(kind, Len(rev) + 1)
  IN  /\ fwd' = Overlay(fwd, [r \in {real} |-> token])
      /\ rev' = Append(rev, [token |-> token, real |-> real])

\* Faulty variant: the first placeholder is number 0.
RememberFromZero(real, kind) ==
  IF real \in DOMAIN fwd THEN UNCHANGED vault
  ELSE LET token == Token(kind, Cardinality(DOMAIN fwd))
       IN  /\ fwd' = Overlay(fwd, [r \in {real} |-> token])
           /\ rev' = Append(rev, [token |-> token, real |-> real])

\* What placeholder_for(real, kind) leaves in the vault.
Remember(real, kind) ==
  IF real \in DOMAIN fwd THEN UNCHANGED vault
  ELSE LET token == Token(kind, Cardinality(DOMAIN fwd) + 1)
       IN  /\ fwd' = Overlay(fwd, [r \in {real} |-> token])
           /\ rev' = Append(rev, [token |-> token, real |-> real])

\* str.replace(token, real)
ReplaceToken(text, token, real) ==
  FlattenSeq([i \in 1..Len(text) |-> IF text[i] = token THEN real ELSE <<text[i]>>])

\* One turn of the loop of restore.
PutBack(text, e) == ReplaceToken(text, e.token, e.real)

\* Vault.restore: one pass over the text for each placeholder, oldest first.
Restore(text) == FoldLeft(PutBack, text, rev)

-----------------------------------------------------------------------------
(* Detections: scan, resolve_overlaps, apply_replacements.                 *)

Detections(text) ==
  {d \in [start : 1..Len(text), end : 2..Len(text) + 1, kind : Range(Scanners)] :
     /\ d.start < d.end
     /\ \A i \in d.start..d.end - 1 : text[i] \in Detectable}

Overlap(d, e) == d.start < e.end /\ e.start < d.end

\* What scan may return: the matches of one pattern do not overlap.
Scans(text) ==
  {D \in {{}} \cup {Range(s) : s \in [1..MaxFound -> Detections(text)]} :
     \A d, e \in D : d # e /\ d.kind = e.kind => ~Overlap(d, e)}

ScanOrder(kind) == CHOOSE i \in 1..Len(Scanners) : Scanners[i] = kind

\* Earliest first, longest first among those, then in the order of scan.
Before(d, e) ==
  \/ d.start < e.start
  \/ d.start = e.start /\ d.end > e.end
  \/ d.start = e.start /\ d.end = e.end /\ ScanOrder(d.kind) < ScanOrder(e.kind)

\* sorted(detections, ...)
Ordered(D) ==
  LET places == 1..Cardinality(D)
  IN  CHOOSE s \in [places -> D] :
        Range(s) = D /\ \A i, j \in places : i < j => Before(s[i], s[j])

\* One turn of the loop of resolve_overlaps.
Keep(chosen, d) ==
  IF chosen = <<>> \/ d.start >= Last(chosen).end THEN Append(chosen, d) ELSE chosen

\* Faulty variant: a value that touches the one before it is dropped.
ResolveApart(D) ==
  FoldLeft(LAMBDA c, d : IF c = <<>> \/ d.start > Last(c).end THEN Append(c, d) ELSE c,
           <<>>, Ordered(D))

\* Faulty variant: no overlap is resolved.
ResolveNothing(D) == Ordered(D)

ResolveOverlaps(D) == FoldLeft(Keep, <<>>, Ordered(D))

Splice(text, r) ==
  SubSeq(text, 1, r.start - 1) \o r.new \o SubSeq(text, r.end, Len(text))

\* Faulty variant: the edits made left to right, at offsets they have moved.
ApplyLeftToRight(text, rs) == FoldLeft(Splice, text, rs)

\* The edits made right to left; the replacements are in order of position.
ApplyReplacements(text, rs) == FoldLeft(Splice, text, Reverse(rs))

-----------------------------------------------------------------------------
Leaf == body[Len(masked) + 1]

Init ==
  /\ policy \in {FromYaml(file) : file \in {f \in Files : Loads(f)}}
  /\ json \in BOOLEAN
  /\ body \in Bodies
  /\ found = [t \in {} |-> {}]
  /\ masked = <<>> /\ pc = "walk"
  /\ queue = <<>> /\ repls = <<>>
  /\ fwd = [r \in {} |-> <<>>] /\ rev = <<>>
  /\ applied = <<>>

\* An empty body, or one that is not JSON, is forwarded as it came.
PassThrough ==
  /\ pc = "walk" /\ masked = <<>> /\ (~json \/ body = <<>>)
  /\ masked' = [i \in 1..Len(body) |-> body[i].text]
  /\ pc' = "done"
  /\ UNCHANGED <<policy, json, body, found, queue, repls, vault, applied>>

\* _walk comes to a key, or to a value that is not a string.
KeepLeaf ==
  /\ pc = "walk" /\ json /\ Len(masked) < Len(body)
  /\ ~Leaf.str
  /\ masked' = Append(masked, Leaf.text)
  /\ UNCHANGED <<policy, json, body, found, pc, queue, repls, vault, applied>>

\* _transform scans a string; scan is a function of its text.
ScanLeaf ==
  /\ pc = "walk" /\ json /\ Len(masked) < Len(body)
  /\ Leaf.str
  /\ \E D \in IF Leaf.text \in DOMAIN found THEN {found[Leaf.text]} ELSE Scans(Leaf.text) :
       /\ found' = Overlay(found, [t \in {Leaf.text} |-> D])
       /\ queue' = ResolveOverlaps(D)
  /\ repls' = <<>>
  /\ pc' = "replace"
  /\ UNCHANGED <<policy, json, body, masked, vault, applied>>

\* One turn of _transform's loop.
ReplaceNext ==
  /\ pc = "replace" /\ queue # <<>>
  /\ LET d == Head(queue)
         real == SubSeq(Leaf.text, d.start, d.end - 1)
         action == ActionForKind(policy, d.kind)
         With(new) == repls' = Append(repls, [start |-> d.start, end |-> d.end, new |-> <<new>>])
     IN  \/ /\ action = "pseudonymize"
            /\ Remember(real, d.kind)
            /\ With(PlaceholderFor(real, d.kind))
            /\ applied' = Append(applied, <<d.kind, action>>)
         \/ /\ action = "block"
            /\ With(BlockMark(d.kind))
            /\ applied' = Append(applied, <<d.kind, action>>)
            /\ UNCHANGED vault
         \/ /\ action = "forward"
            /\ UNCHANGED <<repls, vault, applied>>
  /\ queue' = Tail(queue)
  /\ UNCHANGED <<policy, json, body, found, masked, pc>>

\* _transform returns the text with its replacements.
FinishLeaf ==
  /\ pc = "replace" /\ queue = <<>>
  /\ masked' = Append(masked, ApplyReplacements(Leaf.text, repls))
  /\ repls' = <<>>
  /\ pc' = "walk"
  /\ UNCHANGED <<policy, json, body, found, queue, vault, applied>>

\* A body in which nothing was replaced is returned as it came, not encoded.
Encodes == applied = <<>> \/ \A i \in 1..Len(masked) : Range(masked[i]) \cap Surrogates = {}

\* sanitize_request_body returns, or raises because the body does not encode.
Finish ==
  /\ pc = "walk" /\ json /\ body # <<>> /\ Len(masked) = Len(body)
  /\ \/ Encodes /\ pc' = "done"
     \/ ~Encodes /\ pc' = "failed"
  /\ UNCHANGED <<policy, json, body, found, masked, queue, repls, vault, applied>>

Next == PassThrough \/ KeepLeaf \/ ScanLeaf \/ ReplaceNext \/ FinishLeaf \/ Finish

Spec == Init /\ [][Next]_vars

-----------------------------------------------------------------------------
(* The way back: the upstream repeats a masked text in its JSON answer, the *)
(* restorer works on the bytes of it, and the client parses the result.     *)

Encode(text) ==
  FlattenSeq([i \in 1..Len(text) |-> IF text[i] \in Escaped THEN <<ESC, text[i]>> ELSE <<text[i]>>])

ReadCell(p, c) ==
  IF p.esc THEN [p EXCEPT !.esc = FALSE, !.text = Append(@, c)]
  ELSE IF c = ESC THEN [p EXCEPT !.esc = TRUE]
  ELSE IF c \in Escaped THEN [p EXCEPT !.ok = FALSE]
  ELSE [p EXCEPT !.text = Append(@, c)]

\* What a JSON parser makes of the string; ok FALSE if it is not one.
Parse(wire) == FoldLeft(ReadCell, [text |-> <<>>, esc |-> FALSE, ok |-> TRUE], wire)

Returned(text) == Parse(Restore(Encode(text)))

-----------------------------------------------------------------------------
Chosen(text) == Range(ResolveOverlaps(found[text]))
Does(action, d) == ActionForKind(policy, d.kind) = action
Walked == IF json THEN {i \in 1..Len(masked) : body[i].str} ELSE {}

\* Where the value v stands in a text.
Occurrences(v, text) ==
  {i \in 1..Len(text) - Len(v) + 1 : SubSeq(text, i, i + Len(v) - 1) = v}

\* Of the word of d, the masked leaf holds no more than what stood in the leaf
\* where no detection of D begins: each of those is hidden.
HiddenAmong(D, d, i) ==
  LET v == SubSeq(body[i].text, d.start, d.end - 1)
  IN  Cardinality(Occurrences(v, masked[i]))
        <= Cardinality(Occurrences(v, body[i].text) \ {e.start : e \in D})

\* What the policy protects of the values found in a leaf, except where it
\* forwards one that overlaps and was kept.
Protected(i) ==
  {d \in found[body[i].text] :
     /\ ~Does("forward", d)
     /\ \A e \in Chosen(body[i].text) : Does("forward", e) => ~Overlap(d, e)}

TypeOK ==
  /\ pc \in {"walk", "replace", "done", "failed"}
  /\ Len(masked) <= Len(body)
  /\ \A r \in DOMAIN fwd :
       \E k \in Range(Scanners) : \E n \in 1..Cardinality(DOMAIN fwd) : fwd[r] = Token(k, n)
  /\ \A i \in 1..Len(repls) : repls[i].start < repls[i].end
  /\ \A i \in 1..Len(applied) : applied[i] \in Range(Scanners) \X {"pseudonymize", "block"}

\* Placeholders are stable and unique: the two maps of the vault are inverse to
\* each other, whatever the order and the kinds the values are met in.
VaultIsBijective ==
  /\ Len(rev) = Cardinality(DOMAIN fwd)
  /\ \A k \in 1..Len(rev) : rev[k].real \in DOMAIN fwd /\ fwd[rev[k].real] = rev[k].token
  /\ \A k, l \in 1..Len(rev) : rev[k].token = rev[l].token => k = l

\* resolve_overlaps keeps a value unless one that starts earlier, or as early
\* and ends no sooner, is kept and overlaps it; what it keeps does not overlap.
EarliestLongestWins ==
  \A text \in DOMAIN found :
    /\ \A d, e \in Chosen(text) : d # e => ~Overlap(d, e)
    /\ \A d \in found[text] \ Chosen(text) :
         \E e \in Chosen(text) : Overlap(d, e) /\ (e.start < d.start \/ (e.start = d.start /\ e.end >= d.end))

\* INV-1, as far as the overlap rule lets it hold: no detected value that the
\* policy protects stays whole in its text, a value met more than once included,
\* unless one that the policy forwards was kept in its place.
ProtectedNeverWhole ==
  \A i \in Walked : \A d \in Protected(i) : HiddenAmong(Protected(i), d, i)

\* The cells of the body and of the vault that the round trip may trip over.
LiteralFree ==
  \A i \in 1..Len(body) : \A k \in 1..Len(rev) : rev[k].token \notin Range(body[i].text)
EscapeFree ==
  \A k \in 1..Len(rev) : (Escaped \cup Surrogates) \cap Range(rev[k].real) = {}

RoundTrips(i) ==
  (\A d \in Chosen(body[i].text) : ~Does("block", d)) =>
    Returned(masked[i]) = [text |-> body[i].text, esc |-> FALSE, ok |-> TRUE]

\* INV-3: an answer that repeats the masked text is restored, on the wire, to
\* the very text the client sent; for bodies with no text that reads like one of
\* their own placeholders, and values JSON writes as they are.
CleanRoundTrip == LiteralFree /\ EscapeFree => \A i \in Walked : RoundTrips(i)

BlockFree ==
  \A i \in 1..Len(body) : \A k \in Range(Scanners) : BlockMark(k) \notin Range(body[i].text)

\* Where the cells of M stand in the leaves done: <<leaf, position>>.
PlacesOf(M) ==
  {x \in UNION {{i} \X (1..Len(masked[i])) : i \in 1..Len(masked)} : masked[x[1]][x[2]] \in M}

\* The audit trail says what was done: one record per placeholder and per block
\* mark in the masked body, no more and no fewer; for bodies that held no text
\* that reads like one of them.
AuditMatchesBody ==
  LET records(action) == {i \in 1..Len(applied) : applied[i][2] = action}
  IN  LiteralFree /\ BlockFree /\ pc # "replace" =>
        /\ Cardinality(PlacesOf({rev[k].token : k \in 1..Len(rev)}))
             = Cardinality(records("pseudonymize"))
        /\ Cardinality(PlacesOf({BlockMark(k) : k \in Range(Scanners)}))
             = Cardinality(records("block"))

\* SECURITY.md, INV-1: "No real value of a detected secret crosses egress".
SecretsNeverCross ==
  \A i \in Walked :
    LET secrets == {d \in found[body[i].text] : d.kind \in SecretKinds}
    IN  \A d \in secrets : HiddenAmong(secrets, d, i)

\* SECURITY.md, INV-3: a restored value "round-trips exactly".
RoundTripsExactly == \A i \in Walked : RoundTrips(i)
=============================================================================
