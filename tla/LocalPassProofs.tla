-------------------------- MODULE LocalPassProofs ---------------------------
(***************************************************************************)
(* What the local pass returns, for every body and every model.            *)
(*                                                                         *)
(* The argument: the pieces behind the loop are settled.  Each is as it    *)
(* came or, if it is the user's, a rewriting or the block mark; it is one  *)
(* of the latter when the model failed on it or called it sensitive; and   *)
(* then there is a status that makes the pass return what it built         *)
(* (Settled).  Nothing was asked about the pieces ahead (Asking).  The     *)
(* status of a text stands at its rank among the texts of the user, and    *)
(* says what was kept for it (Told).                                       *)
(***************************************************************************)
EXTENDS LocalPass, FiniteSetTheorems, SequenceTheorems, TLAPS

Words == {"skipped", "forwarded", "abstracted", "blocked"}
Harmless == Rewritings \cup {BlockMark}
Texts == Harmless \cup UNION {Range(Contents(b)) : b \in Bodies}
Sensitive(words) == words = {} \/ \E w \in words : TierOf(w) >= MinTier

Types ==
  /\ up \in BOOLEAN /\ flips \in 0..MaxFlips
  /\ body \in Bodies
  /\ at \in 1..Len(body.pieces) + 1
  /\ stage \in {"next", "classify", "rewrite", "returned", "failed"}
  /\ out \in Seq(Texts) /\ Len(out) = at - 1
  /\ statuses \in Seq(Words) /\ Len(statuses) < at
  /\ said \in [DOMAIN said -> SUBSET TierWords]
  /\ DOMAIN said \subseteq engaged /\ raised \subseteq engaged

Asking ==
  /\ engaged \subseteq 1..at
  /\ at \in engaged =>
       /\ stage \in {"classify", "rewrite"} /\ body.form = "messages"
       /\ at <= Len(body.pieces) /\ ForModel(body.pieces[at])
       /\ at \notin raised /\ (stage = "classify" => at \notin DOMAIN said)
  /\ stage \in {"classify", "rewrite"} => at \in engaged
  /\ body.form # "messages" => engaged = {}

SettledPiece(i) ==
  /\ i \in raised => out[i] = BlockMark /\ Changed(statuses)
  /\ i \in DOMAIN said /\ Sensitive(said[i]) => out[i] \in Harmless /\ Changed(statuses)
  /\ out[i] # body.pieces[i].text => ForModel(body.pieces[i]) /\ out[i] \in Harmless

Settled == \A i \in 1..at - 1 : SettledPiece(i)

Outcome == Returned =>
  \/ /\ body.form # "messages" \/ ~Changed(statuses)
     /\ result.contents = Contents(body)
  \/ /\ body.form = "messages" /\ at = Len(body.pieces) + 1
     /\ result.contents = out

IInv == Types /\ Asking /\ Settled /\ Outcome

LEMMA ParseTierBounds ==
  ASSUME NEW words \in SUBSET TierWords, ParseTier(words) < MinTier
  PROVE  ~Sensitive(words)
<1>1. \A w \in TierWords : TierOf(w) \in {PUBLIC, LOW, MEDIUM, HIGH}
  BY DEF TierWords, TierOf
<1>2. words # {}
  BY BoundsAreSound DEF ParseTier, HIGH, PUBLIC
<1> DEFINE T == {TierOf(w) : w \in words}
<1>3. T \in SUBSET {0, 1, 2, 3} /\ T # {}
  BY <1>1, <1>2 DEF PUBLIC, LOW, MEDIUM, HIGH
<1>4. \E x \in T : \A y \in T : x >= y
  <2> HIDE DEF T
  <2>1. CASE 3 \in T  BY <1>3, <2>1
  <2>2. CASE 3 \notin T /\ 2 \in T  BY <1>3, <2>2
  <2>3. CASE 3 \notin T /\ 2 \notin T /\ 1 \in T  BY <1>3, <2>3
  <2>4. CASE T \subseteq {0}
    <3>1. 0 \in T  BY <1>3, <2>4
    <3> QED  BY <2>4, <3>1
  <2> QED  BY <1>3, <2>1, <2>2, <2>3, <2>4
<1>5. \A y \in T : Max(T) >= y
  <2> HIDE DEF T
  <2> QED  BY <1>4 DEF Max
<1>6. Max(T) = ParseTier(words)  BY <1>2 DEF ParseTier
<1>7. ASSUME NEW w \in words PROVE ~(TierOf(w) >= MinTier)
  <2>1. TierOf(w) \in T  OBVIOUS
  <2>2. Max(T) \in {0, 1, 2, 3}
    <3> HIDE DEF T
    <3> QED  BY <1>3, <1>4 DEF Max
  <2>3. TierOf(w) \in {0, 1, 2, 3}  BY <1>3, <2>1
  <2> HIDE DEF T
  <2> QED  BY <1>5, <1>6, <2>1, <2>2, <2>3, BoundsAreSound DEF PUBLIC, HIGH
<1> QED  BY <1>2, <1>7 DEF Sensitive

LEMMA HarmlessTexts ==
  /\ BlockMark \in Harmless /\ Rewritings \subseteq Harmless /\ Harmless \subseteq Texts
  /\ Words = {"skipped", "forwarded", "abstracted", "blocked"}
<1>1. Harmless \subseteq Texts  BY Zenon DEF Texts
<1> QED  BY <1>1 DEF Harmless, Words

LEMMA BodyTexts ==
  ASSUME NEW b \in Bodies
  PROVE  /\ b.pieces \in Seq(Range(b.pieces)) /\ Len(b.pieces) \in Nat
         /\ \A i \in 1..Len(b.pieces) : b.pieces[i].text \in Texts
<1>1. b.pieces \in Seq(Range(b.pieces)) /\ Len(b.pieces) \in Nat
  BY BodiesHavePieces, LenProperties
<1>2. ASSUME NEW i \in 1..Len(b.pieces) PROVE b.pieces[i].text \in Texts
  <2>1. b.pieces[i].text \in Range(Contents(b))  BY DEF Contents, Range
  <2> QED  BY <2>1 DEF Texts
<1> QED  BY <1>1, <1>2

LEMMA InitInv == Init => IInv
<1> SUFFICES ASSUME Init PROVE IInv  OBVIOUS
<1>1. Len(body.pieces) \in Nat  BY BodyTexts DEF Init
<1>2. out \in Seq(Texts) /\ statuses \in Seq(Words) /\ Len(out) = 0 /\ Len(statuses) = 0
  BY EmptySeq DEF Init
<1>3. said \in [DOMAIN said -> SUBSET TierWords] /\ DOMAIN said = {}  BY DEF Init
<1>4. Types  BY <1>1, <1>2, <1>3, BoundsAreSound DEF Init, Types
<1>5. Asking /\ Settled /\ Outcome  BY DEF Init, Asking, Settled, Outcome, Returned
<1> QED  BY <1>4, <1>5 DEF IInv

LEMMA ChangedGrows ==
  ASSUME NEW s \in Seq(Words), NEW t \in Seq(Words), Changed(s) \/ Changed(t)
  PROVE  Changed(s \o t)
<1>1. /\ Len(s \o t) = Len(s) + Len(t) /\ Len(s) \in Nat /\ Len(t) \in Nat
      /\ \A i \in 1..Len(s) + Len(t) : (s \o t)[i] = IF i <= Len(s) THEN s[i] ELSE t[i - Len(s)]
  BY ConcatProperties, LenProperties
<1>2. CASE Changed(s)
  <2>1. PICK i \in 1..Len(s) : s[i] \in {"abstracted", "blocked"}  BY <1>2 DEF Changed
  <2> QED  BY <1>1, <2>1 DEF Changed
<1>3. CASE Changed(t)
  <2>1. PICK i \in 1..Len(t) : t[i] \in {"abstracted", "blocked"}  BY <1>3 DEF Changed
  <2>2. Len(s) + i \in 1..Len(s) + Len(t) /\ ~(Len(s) + i <= Len(s)) /\ Len(s) + i - Len(s) = i
    BY <1>1
  <2>3. (s \o t)[Len(s) + i] = t[i]  BY <1>1, <2>2
  <2> QED  BY <1>1, <2>1, <2>2, <2>3 DEF Changed
<1> QED  BY <1>2, <1>3

\* The loop goes on to the next piece, with content for this one that settles it.
LEMMA PutKeeps ==
  ASSUME IInv, Looping, stage \in {"next", "classify", "rewrite"},
         NEW c \in Texts, NEW ss, ss = <<>> \/ \E w \in Words : ss = <<w>>,
         Put(c, ss), engaged' = engaged,
         DOMAIN said \subseteq DOMAIN said', DOMAIN said' \subseteq DOMAIN said \cup {at},
         \A i \in DOMAIN said : said'[i] = said[i] \/ i = at,
         said' \in [DOMAIN said' -> SUBSET TierWords],
         raised \subseteq raised', raised' \subseteq raised \cup {at},
         at \in DOMAIN said' \cup raised' => at \in engaged,
         at \in raised' => c = BlockMark /\ ss = <<"blocked">>,
         at \in DOMAIN said' /\ Sensitive(said'[at]) =>
           c \in Harmless /\ (ss = <<"blocked">> \/ ss = <<"abstracted">>),
         c # body.pieces[at].text => ForModel(body.pieces[at]) /\ c \in Harmless
  PROVE  IInv'
<1> USE DEF IInv
<1>1. Len(body.pieces) \in Nat /\ at \in 1..Len(body.pieces) /\ body.form = "messages"
  BY BodyTexts DEF Types, Looping
<1>2. /\ out' = Append(out, c) /\ statuses' = statuses \o ss /\ at' = at + 1
      /\ stage' = "next" /\ UNCHANGED <<up, flips, body, result>>
  BY DEF Put
<1>3. ss \in Seq(Words) /\ Len(ss) \in 0..1
  <2>1. CASE ss = <<>>  BY <2>1, EmptySeq
  <2>2. ASSUME NEW w \in Words, ss = <<w>> PROVE ss \in Seq(Words) /\ Len(ss) = 1  BY <2>2
  <2> QED  BY <2>1, <2>2
<1>4. /\ out' \in Seq(Texts) /\ Len(out') = at
      /\ out'[at] = c /\ \A i \in 1..at - 1 : out'[i] = out[i]
  BY <1>1, <1>2 DEF Types
<1>5. statuses' \in Seq(Words) /\ Len(statuses') = Len(statuses) + Len(ss) /\ Len(statuses) \in Nat
  BY <1>2, <1>3, ConcatProperties, LenProperties DEF Types
<1>6. Changed(statuses) \/ ss = <<"blocked">> \/ ss = <<"abstracted">> => Changed(statuses')
  <2>1. ss = <<"blocked">> \/ ss = <<"abstracted">> => Changed(ss)  BY DEF Changed
  <2> QED  BY <1>2, <1>3, <2>1, ChangedGrows DEF Types
<1>7. Types'
  <2>1. Len(statuses') < at'
    <3>1. Len(statuses) < at  BY DEF Types
    <3>2. Len(ss) \in 0..1 /\ at \in Nat /\ Len(statuses) \in Nat  BY <1>1, <1>3, <1>5
    <3>3. \A k, m \in Nat : \A l \in 0..1 : k < m => k + l < m + 1  OBVIOUS
    <3>4. Len(statuses) + Len(ss) < at + 1  BY <3>1, <3>2, <3>3, Zenon
    <3> QED  BY <1>2, <1>5, <3>4
  <2>2. DOMAIN said' \subseteq engaged' /\ raised' \subseteq engaged'  BY DEF Types
  <2>3. at' \in 1..Len(body'.pieces) + 1 /\ Len(out') = at' - 1  BY <1>1, <1>2, <1>4
  <2>4. out' \in Seq(Texts) /\ statuses' \in Seq(Words)  BY <1>4, <1>5
  <2>5. said' \in [DOMAIN said' -> SUBSET TierWords]  OBVIOUS
  <2> QED  BY <1>2, <2>1, <2>2, <2>3, <2>4, <2>5 DEF Types
<1>8. Asking'
  BY <1>1, <1>2 DEF Asking, Types
<1>9. Settled'
  <2> SUFFICES ASSUME NEW i \in 1..at PROVE SettledPiece(i)'
    BY <1>1, <1>2 DEF Settled
  <2>1. CASE i = at
    BY <1>2, <1>4, <1>6, <2>1 DEF SettledPiece
  <2>2. CASE i # at
    <3>1. i \in 1..at - 1 /\ SettledPiece(i)  BY <1>1, <2>2 DEF Settled
    <3> QED  BY <1>2, <1>4, <1>6, <2>2, <3>1 DEF SettledPiece
  <2> QED  BY <2>1, <2>2
<1>10. Outcome'
  BY <1>2 DEF Outcome, Returned
<1> QED  BY <1>7, <1>8, <1>9, <1>10

LEMMA KeepKeeps == IInv /\ Keep => IInv'
<1> SUFFICES ASSUME IInv, Keep PROVE IInv'  OBVIOUS
<1>1. body.pieces[at].text \in Texts  BY BodyTexts DEF Keep, Looping, IInv, Types
<1>2. at \notin engaged  BY DEF Keep, IInv, Asking
<1> QED  BY <1>1, <1>2, PutKeeps DEF Keep, IInv, Types

LEMMA SkipKeeps == IInv /\ Skip => IInv'
<1> SUFFICES ASSUME IInv, Skip PROVE IInv'  OBVIOUS
<1>1. body.pieces[at].text \in Texts  BY BodyTexts DEF Skip, Looping, IInv, Types
<1>2. at \notin engaged  BY DEF Skip, IInv, Asking
<1>3. "skipped" \in Words  BY DEF Words
<1> QED  BY <1>1, <1>2, <1>3, PutKeeps DEF Skip, IInv, Types

LEMMA EngageKeeps == IInv /\ Engage => IInv'
<1> SUFFICES ASSUME IInv, Engage PROVE IInv'  OBVIOUS
<1> USE DEF IInv, Engage, Looping
<1>1. at \notin engaged  BY DEF Asking
<1>2. Types'  BY DEF Types
<1>3. Asking'  BY <1>1 DEF Asking, Types
<1>4. Settled'  BY DEF Settled, SettledPiece
<1>5. Outcome'  BY DEF Outcome, Returned
<1> QED  BY <1>2, <1>3, <1>4, <1>5

LEMMA ClassifyKeeps == IInv /\ Classify => IInv'
<1> SUFFICES ASSUME IInv, Classify PROVE IInv'  OBVIOUS
<1>1. at \in engaged /\ at \notin DOMAIN said /\ at \notin raised /\ ForModel(body.pieces[at])
  BY DEF Classify, IInv, Asking
<1>2. PICK words \in SUBSET TierWords :
        /\ said' = [i \in DOMAIN said \cup {at} |-> IF i = at THEN words ELSE said[i]]
        /\ IF ParseTier(words) < MinTier
           THEN Put(body.pieces[at].text, <<"forwarded">>)
           ELSE stage' = "rewrite" /\ UNCHANGED <<up, flips, body, at, out, statuses, result>>
  BY DEF Classify
<1>3. /\ DOMAIN said' = DOMAIN said \cup {at} /\ said'[at] = words
      /\ \A i \in DOMAIN said : said'[i] = said[i] \/ i = at
      /\ said' \in [DOMAIN said' -> SUBSET TierWords]
  BY <1>2 DEF IInv, Types
<1>4. CASE ParseTier(words) < MinTier
  <2>1. ~Sensitive(said'[at])  BY <1>3, <1>4, ParseTierBounds
  <2>2. body.pieces[at].text \in Texts  BY BodyTexts DEF Classify, Looping, IInv, Types
  <2>3. "forwarded" \in Words  BY DEF Words
  <2>4. Looping /\ stage = "classify" /\ UNCHANGED <<engaged, raised>>  BY DEF Classify
  <2> QED  BY <1>1, <1>2, <1>3, <1>4, <2>1, <2>2, <2>3, <2>4, PutKeeps
<1>5. CASE ~(ParseTier(words) < MinTier)
  <2>1. stage' = "rewrite" /\ UNCHANGED <<up, flips, body, at, out, statuses, result, engaged, raised>>
    BY <1>2, <1>5 DEF Classify
  <2>2. Types'  BY <1>1, <1>3, <2>1 DEF IInv, Types
  <2>3. Asking'  BY <1>1, <2>1 DEF IInv, Asking
  <2>4. Settled'
    <3> SUFFICES ASSUME NEW i \in 1..at - 1 PROVE SettledPiece(i)'  BY <2>1 DEF Settled
    <3>1. SettledPiece(i) /\ i # at  BY DEF IInv, Settled, Types
    <3>2. said'[i] = said[i] \/ i \notin DOMAIN said'  BY <1>3, <3>1
    <3>3. i \in DOMAIN said' => i \in DOMAIN said  BY <1>3, <3>1
    <3> QED  BY <2>1, <3>1, <3>2, <3>3 DEF SettledPiece
  <2>5. Outcome'  BY <2>1 DEF Outcome, Returned
  <2> QED  BY <2>2, <2>3, <2>4, <2>5 DEF IInv
<1> QED  BY <1>4, <1>5

LEMMA AbstractKeeps == IInv /\ Abstract => IInv'
<1> SUFFICES ASSUME IInv, Abstract PROVE IInv'  OBVIOUS
<1>1. at \in engaged /\ at \notin raised /\ ForModel(body.pieces[at])
  BY DEF Abstract, IInv, Asking
<1>2. Looping /\ stage = "rewrite" /\ UNCHANGED <<said, engaged, raised>>  BY DEF Abstract
<1>3. said \in [DOMAIN said -> SUBSET TierWords]  BY DEF IInv, Types
<1>4. CASE Put(BlockMark, <<"blocked">>)
  <2>1. BlockMark \in Texts /\ BlockMark \in Harmless /\ "blocked" \in Words
    BY HarmlessTexts
  <2> QED  BY <1>1, <1>2, <1>3, <1>4, <2>1, PutKeeps
<1>5. ASSUME NEW c \in Rewritings, Put(c, <<"abstracted">>) PROVE IInv'
  <2>1. c \in Texts /\ c \in Harmless /\ "abstracted" \in Words  BY HarmlessTexts
  <2> QED  BY <1>1, <1>2, <1>3, <1>5, <2>1, PutKeeps
<1> QED  BY <1>4, <1>5 DEF Abstract

LEMMA FailsKeeps == IInv /\ Fails => IInv'
<1> SUFFICES ASSUME IInv, Fails PROVE IInv'  OBVIOUS
<1>1. at \in engaged /\ ForModel(body.pieces[at])  BY DEF Fails, IInv, Asking
<1>2. /\ Looping /\ stage \in {"classify", "rewrite"} /\ Put(BlockMark, <<"blocked">>)
      /\ raised' = raised \cup {at} /\ UNCHANGED <<said, engaged>>
  BY DEF Fails
<1>3. said \in [DOMAIN said -> SUBSET TierWords]  BY DEF IInv, Types
<1>4. BlockMark \in Texts /\ BlockMark \in Harmless /\ "blocked" \in Words
  BY HarmlessTexts
<1> QED  BY <1>1, <1>2, <1>3, <1>4, PutKeeps

\* The steps that return.
LEMMA ReturnKeeps == IInv /\ (PassThrough \/ Return) => IInv'
<1> SUFFICES ASSUME IInv, PassThrough \/ Return PROVE IInv'  OBVIOUS
<1> USE DEF IInv, PassThrough, Return
<1>1. at \notin engaged /\ stage' \in {"returned", "failed"}  BY DEF Asking
<1>2. Types'  BY <1>1 DEF Types
<1>3. Asking'  BY <1>1 DEF Asking
<1>4. Settled'  BY DEF Settled, SettledPiece
<1>5. Outcome'
  <2>1. body \in Bodies /\ Len(body.pieces) \in Nat /\ at \in 1..Len(body.pieces) + 1
    BY BodyTexts DEF Types
  <2>2. CASE PassThrough
    <3>1. body' = body /\ body.form # "messages" /\ result'.contents = Contents(body)  BY <2>2
    <3> QED  BY <3>1 DEF Outcome
  <2>3. CASE Return
    <3>1. at > Len(body.pieces) /\ body.form = "messages"  BY <2>3, Zenon
    <3>2. UNCHANGED <<body, at, out, statuses>>  BY <2>3, Zenon
    <3>3. \/ ~Changed(statuses) /\ result' = [encoding |-> "as received", contents |-> Contents(body)]
          \/ result' = [encoding |-> "dumped", contents |-> out]
          \/ stage' = "failed"
      BY <2>3, Zenon
    <3> HIDE DEF Return
    <3>4. at = Len(body.pieces) + 1  BY <2>1, <3>1
    <3>5. (body.form = "messages" /\ at = Len(body.pieces) + 1)'  BY <3>1, <3>2, <3>4
    <3>6. CASE ~Changed(statuses) /\ result' = [encoding |-> "as received", contents |-> Contents(body)]
      BY <3>2, <3>6 DEF Outcome
    <3>7. CASE result' = [encoding |-> "dumped", contents |-> out]
      BY <3>2, <3>5, <3>7 DEF Outcome
    <3>8. CASE stage' = "failed"  BY <3>8 DEF Outcome, Returned
    <3> QED  BY <3>3, <3>6, <3>7, <3>8
  <2> QED  BY <2>2, <2>3
<1> QED  BY <1>2, <1>3, <1>4, <1>5

LEMMA StepInv == IInv /\ [Next]_vars => IInv'
<1> SUFFICES ASSUME IInv, [Next]_vars PROVE IInv'  OBVIOUS
<1>1. CASE Flip
  BY <1>1, BoundsAreSound
     DEF Flip, IInv, Types, Asking, Settled, SettledPiece, Outcome, Returned
<1>2. CASE UNCHANGED vars
  BY <1>2 DEF vars, IInv, Types, Asking, Settled, SettledPiece, Outcome, Returned
<1> QED
  BY <1>1, <1>2, KeepKeeps, SkipKeeps, EngageKeeps, ClassifyKeeps, AbstractKeeps, FailsKeeps,
     ReturnKeeps DEF Next, Pass

LEMMA Invariance == Spec => []IInv
BY InitInv, StepInv, PTL DEF Spec

\* Every value has its type, and there is content for every piece returned.
THEOREM PassTypes == Spec => []TypeOK
<1>1. IInv => TypeOK
  <2> SUFFICES ASSUME IInv PROVE TypeOK  OBVIOUS
  <2>1. Range(statuses) \subseteq Words  BY DEF IInv, Types, Range
  <2>2. Returned => Len(result.contents) = Len(body.pieces)
    BY BodyTexts DEF IInv, Outcome, Types, Contents
  <2> QED  BY <2>1, <2>2 DEF IInv, Types, TypeOK, Words
<1> QED  BY Invariance, <1>1, PTL

\* INV-4: what the model failed on is blocked.
THEOREM FailureBlocks == Spec => []FailedIsBlocked
<1>1. IInv => FailedIsBlocked
  <2> SUFFICES ASSUME IInv, Returned, NEW i \in raised PROVE result.contents[i] = BlockMark
    BY DEF FailedIsBlocked
  <2>1. i \in engaged /\ body.form = "messages"  BY DEF IInv, Types, Asking
  <2>2. i \in 1..at - 1  BY <2>1 DEF IInv, Types, Asking, Returned
  <2> QED  BY <2>1, <2>2 DEF IInv, Settled, SettledPiece, Outcome
<1> QED  BY Invariance, <1>1, PTL

\* A text the model called sensitive, or could not place, is not returned raw.
THEOREM SensitiveIsRewritten == Spec => []SensitiveNeverRaw
<1>1. IInv => SensitiveNeverRaw
  <2> SUFFICES ASSUME IInv, Returned, NEW i \in DOMAIN said, Sensitive(said[i])
               PROVE  result.contents[i] \in Harmless
    BY DEF SensitiveNeverRaw, Sensitive, Harmless
  <2>1. i \in engaged /\ body.form = "messages"  BY DEF IInv, Types, Asking
  <2>2. i \in 1..at - 1  BY <2>1 DEF IInv, Types, Asking, Returned
  <2> QED  BY <2>1, <2>2 DEF IInv, Settled, SettledPiece, Outcome
<1> QED  BY Invariance, <1>1, PTL

-----------------------------------------------------------------------------
(* The statuses.                                                           *)

\* What the status w says of the piece i with the new content c.
Tells(w, i, c) ==
  /\ w \in {"skipped", "forwarded"} => c = body.pieces[i].text
  /\ w = "abstracted" => c \in Rewritings
  /\ w = "blocked" => c = BlockMark

\* One status for each text of the user behind the loop, in their order.
Told ==
  /\ Len(statuses) = Cardinality(UsersTexts(at - 1))
  /\ \A i \in UsersTexts(at - 1) : Tells(StatusOf(i), i, out[i])
  /\ Changed(statuses) => \E i \in UsersTexts(at - 1) : StatusOf(i) \in {"abstracted", "blocked"}

ToldInTheEnd == Returned /\ body.form = "messages" =>
  /\ at = Len(body.pieces) + 1
  /\ IF Changed(statuses)
     THEN result.encoding = "dumped" /\ result.contents = out
     ELSE result.encoding = "as received" /\ result.contents = Contents(body)

LEMMA Ranks ==
  ASSUME NEW n \in Nat
  PROVE  /\ IsFiniteSet(UsersTexts(n)) /\ Cardinality(UsersTexts(n)) \in Nat
         /\ UsersTexts(n + 1) =
              IF ForModel(body.pieces[n + 1]) THEN UsersTexts(n) \cup {n + 1} ELSE UsersTexts(n)
         /\ Cardinality(UsersTexts(n + 1)) =
              IF ForModel(body.pieces[n + 1]) THEN Cardinality(UsersTexts(n)) + 1
                                             ELSE Cardinality(UsersTexts(n))
         /\ \A i \in UsersTexts(n) :
              i \in 1..n /\ Cardinality(UsersTexts(i)) \in 1..Cardinality(UsersTexts(n))
<1>1. \A k \in Nat : IsFiniteSet(UsersTexts(k)) /\ Cardinality(UsersTexts(k)) \in Nat
  <2> SUFFICES ASSUME NEW k \in Nat
               PROVE  IsFiniteSet(UsersTexts(k)) /\ Cardinality(UsersTexts(k)) \in Nat
    OBVIOUS
  <2>1. IsFiniteSet(1..k)  BY FS_Interval
  <2>2. UsersTexts(k) \in SUBSET (1..k)  BY DEF UsersTexts
  <2>3. IsFiniteSet(UsersTexts(k))  BY <2>1, <2>2, FS_Subset
  <2> QED  BY <2>3, FS_CardinalityType
<1>2. UsersTexts(n + 1) =
        IF ForModel(body.pieces[n + 1]) THEN UsersTexts(n) \cup {n + 1} ELSE UsersTexts(n)
  BY DEF UsersTexts
<1>3. n + 1 \notin UsersTexts(n)  BY DEF UsersTexts
<1>4. Cardinality(UsersTexts(n) \cup {n + 1}) = Cardinality(UsersTexts(n)) + 1
  BY <1>1, <1>3, FS_AddElement
<1>5. ASSUME NEW i \in UsersTexts(n)
      PROVE  i \in 1..n /\ Cardinality(UsersTexts(i)) \in 1..Cardinality(UsersTexts(n))
  <2>1. i \in 1..n  BY DEF UsersTexts
  <2>2. UsersTexts(i) \in SUBSET UsersTexts(n) /\ i \in UsersTexts(i)  BY <2>1 DEF UsersTexts
  <2>3. /\ Cardinality(UsersTexts(i)) \in Nat /\ Cardinality(UsersTexts(n)) \in Nat
        /\ IsFiniteSet(UsersTexts(i)) /\ IsFiniteSet(UsersTexts(n))
    BY <1>1, <2>1
  <2>4. Cardinality(UsersTexts(i)) <= Cardinality(UsersTexts(n))  BY <2>2, <2>3, FS_Subset
  <2>5. Cardinality(UsersTexts(i)) # 0  BY <2>2, <2>3, FS_EmptySet
  <2> QED  BY <2>1, <2>3, <2>4, <2>5
<1> QED  BY <1>1, <1>2, <1>4, <1>5

\* The loop goes on to the next piece, with a status if that is the user's.
LEMMA PutTells ==
  ASSUME Types, Told, Looping, NEW c, NEW ss, Put(c, ss),
         IF ForModel(body.pieces[at]) THEN \E w \in Words : ss = <<w>> /\ Tells(w, at, c)
                                      ELSE ss = <<>>
  PROVE  Told'
<1>1. at \in Nat \ {0} /\ at - 1 \in Nat /\ (at - 1) + 1 = at /\ out \in Seq(Texts) /\ Len(out) = at - 1
      /\ statuses \in Seq(Words) /\ Len(statuses) \in Nat
  BY BodyTexts, LenProperties DEF Types
<1>2. /\ out' = Append(out, c) /\ statuses' = statuses \o ss /\ at' = at + 1 /\ body' = body
      /\ at' - 1 = at
  BY <1>1 DEF Put
<1>3. \A n : UsersTexts(n)' = UsersTexts(n)  BY <1>2 DEF UsersTexts
<1>4. PICK m : m = at - 1  OBVIOUS
<1>5. /\ m \in Nat /\ m + 1 = at
      /\ UsersTexts(at) = IF ForModel(body.pieces[at]) THEN UsersTexts(m) \cup {at} ELSE UsersTexts(m)
      /\ Cardinality(UsersTexts(at)) = IF ForModel(body.pieces[at]) THEN Cardinality(UsersTexts(m)) + 1
                                                                   ELSE Cardinality(UsersTexts(m))
      /\ \A i \in UsersTexts(m) :
           i \in 1..m /\ Cardinality(UsersTexts(i)) \in 1..Cardinality(UsersTexts(m))
  BY <1>1, <1>4, Ranks
<1>6. PICK k : k = Len(statuses)  OBVIOUS
<1>7. /\ k \in Nat /\ k = Cardinality(UsersTexts(m))
      /\ \A i \in UsersTexts(m) : Tells(StatusOf(i), i, out[i])
      /\ Changed(statuses) => \E i \in UsersTexts(m) : StatusOf(i) \in {"abstracted", "blocked"}
  BY <1>1, <1>4, <1>6 DEF Told
<1>8. out'[at] = c /\ \A i \in 1..m : out'[i] = out[i]
  <2>1. \A i \in 1..m : i \in 1..Len(out)  BY <1>1, <1>4
  <2> QED  BY <1>1, <1>2, <1>4, <2>1
<1>9. CASE ~ForModel(body.pieces[at])
  <2>1. ss = <<>> /\ statuses' = statuses /\ UsersTexts(at) = UsersTexts(m)
    BY <1>1, <1>2, <1>5, <1>9
  <2>2. \A i : StatusOf(i)' = StatusOf(i)  BY <1>3, <2>1 DEF StatusOf
  <2>3. \A i \in UsersTexts(m) : Tells(StatusOf(i), i, out[i])'
    BY <1>2, <1>5, <1>7, <1>8, <2>2 DEF Tells
  <2>4. Len(statuses') = Cardinality(UsersTexts(at))  BY <1>6, <1>7, <2>1
  <2> QED  BY <1>2, <1>3, <1>7, <2>1, <2>2, <2>3, <2>4 DEF Told, Changed
<1>10. CASE ForModel(body.pieces[at])
  <2>1. PICK w \in Words : ss = <<w>> /\ Tells(w, at, c)  BY <1>10
  <2>2. statuses' = Append(statuses, w)  BY <1>1, <1>2, <2>1
  <2>3. PICK t : t = statuses'  OBVIOUS
  <2>4. Len(t) = k + 1 /\ t[k + 1] = w /\ \A j \in 1..k : t[j] = statuses[j]
    BY <1>1, <1>6, <2>2, <2>3, AppendProperties
  <2>5. UsersTexts(at) = UsersTexts(m) \cup {at} /\ Cardinality(UsersTexts(at)) = k + 1
    BY <1>5, <1>7, <1>10
  <2>6. \A i \in UsersTexts(m) : StatusOf(i)' = StatusOf(i)
    BY <1>3, <1>5, <1>7, <2>3, <2>4 DEF StatusOf
  <2>7. PICK n : n = at  OBVIOUS
  <2>8. StatusOf(n)' = w
    <3>1. StatusOf(n)' = t[Cardinality(UsersTexts(n))]  BY <1>3, <2>3 DEF StatusOf
    <3> QED  BY <2>4, <2>5, <2>7, <3>1
  <2>9. Tells(w, n, c)'  BY <1>2, <2>1, <2>7 DEF Tells
  <2>10. ASSUME NEW i \in UsersTexts(at)
         PROVE  Tells(StatusOf(i), i, out[i])'
    <3>1. CASE i \in UsersTexts(m)
      <4>1. /\ StatusOf(i)' = StatusOf(i) /\ out'[i] = out[i] /\ body' = body
            /\ Tells(StatusOf(i), i, out[i])
        BY <1>2, <1>5, <1>7, <1>8, <2>6, <3>1
      <4> QED  BY <4>1 DEF Tells
    <3>2. CASE i = n
      <4>1. StatusOf(i)' = w /\ out'[i] = c /\ body' = body /\ Tells(w, i, c)
        BY <1>2, <1>8, <2>1, <2>7, <2>8, <3>2
      <4> QED  BY <4>1 DEF Tells
    <3> QED  BY <2>5, <2>7, <3>1, <3>2
  <2>11. ASSUME Changed(statuses')
         PROVE  \E i \in UsersTexts(at) : StatusOf(i)' \in {"abstracted", "blocked"}
    <3>1. PICK j \in 1..Len(t) : t[j] \in {"abstracted", "blocked"}  BY <2>3, <2>11 DEF Changed
    <3>2. CASE j = k + 1
      <4>1. StatusOf(n)' \in {"abstracted", "blocked"} /\ n \in UsersTexts(at)
        BY <2>4, <2>5, <2>7, <2>8, <3>1, <3>2
      <4> QED  BY <4>1
    <3>3. CASE j # k + 1
      <4>1. j \in 1..k  BY <1>7, <2>4, <3>3
      <4>2. Changed(statuses)  BY <1>6, <2>4, <3>1, <4>1 DEF Changed
      <4>3. PICK i \in UsersTexts(m) : StatusOf(i) \in {"abstracted", "blocked"}  BY <1>7, <4>2
      <4> QED  BY <2>5, <2>6, <4>3
    <3> QED  BY <3>2, <3>3
  <2>12. Len(statuses') = Cardinality(UsersTexts(at))  BY <2>3, <2>4, <2>5
  <2>13. (UsersTexts(at - 1))' = UsersTexts(at)  BY <1>2 DEF UsersTexts
  <2>14. (Changed(statuses))' => Changed(statuses')  BY DEF Changed
  <2> QED  BY <2>10, <2>11, <2>12, <2>13, <2>14 DEF Told
<1> QED  BY <1>9, <1>10

LEMMA TellingInit == Init => Told /\ ToldInTheEnd
<1> SUFFICES ASSUME Init PROVE Told /\ ToldInTheEnd  OBVIOUS
<1>1. at - 1 = 0 /\ statuses = <<>> /\ Len(statuses) = 0 /\ stage = "next"  BY DEF Init
<1>2. UsersTexts(at - 1) = {} /\ Cardinality({}) = 0
  <2>1. UsersTexts(0) = {}  BY DEF UsersTexts
  <2> QED  BY <1>1, <2>1, FS_EmptySet
<1>3. ~Changed(statuses)  BY <1>1 DEF Changed
<1>4. Told  BY <1>1, <1>2, <1>3 DEF Told
<1> QED  BY <1>1, <1>4 DEF ToldInTheEnd, Returned

LEMMA TellingStep == Types /\ Asking /\ Told /\ ToldInTheEnd /\ [Next]_vars => Told' /\ ToldInTheEnd'
<1> SUFFICES ASSUME Types, Asking, Told, ToldInTheEnd, [Next]_vars
             PROVE  Told' /\ ToldInTheEnd'
  OBVIOUS
<1>1. ASSUME NEW c, NEW ss, Looping, Put(c, ss),
             IF ForModel(body.pieces[at]) THEN \E w \in Words : ss = <<w>> /\ Tells(w, at, c)
                                          ELSE ss = <<>>
      PROVE  Told' /\ ToldInTheEnd'
  <2>1. Told'  BY <1>1, PutTells
  <2>2. stage' = "next"  BY <1>1 DEF Put
  <2> QED  BY <2>1, <2>2 DEF ToldInTheEnd, Returned
<1>2. ASSUME UNCHANGED <<body, at, out, statuses>>, stage' # "returned"
      PROVE  Told' /\ ToldInTheEnd'
  <2>1. Told'  BY <1>2 DEF Told, UsersTexts, StatusOf, Tells, Changed
  <2> QED  BY <1>2, <2>1 DEF ToldInTheEnd, Returned
<1>3. stage \in {"classify", "rewrite"} => ForModel(body.pieces[at])  BY DEF Asking
<1>4. CASE Keep  BY <1>1, <1>4 DEF Keep
<1>5. CASE Skip
  <2>1. "skipped" \in Words /\ Tells("skipped", at, body.pieces[at].text)  BY DEF Words, Tells
  <2> QED  BY <1>1, <1>5, <2>1 DEF Skip
<1>6. CASE Engage  BY <1>2, <1>6 DEF Engage
<1>7. CASE Classify
  <2>1. "forwarded" \in Words /\ Tells("forwarded", at, body.pieces[at].text)  BY DEF Words, Tells
  <2>2. CASE Put(body.pieces[at].text, <<"forwarded">>)
    BY <1>1, <1>3, <1>7, <2>1, <2>2 DEF Classify
  <2>3. CASE stage' = "rewrite" /\ UNCHANGED <<up, flips, body, at, out, statuses, result>>
    BY <1>2, <2>3
  <2> QED  BY <1>7, <2>2, <2>3 DEF Classify
<1>8. ASSUME Looping, ForModel(body.pieces[at]), Put(BlockMark, <<"blocked">>)
      PROVE  Told' /\ ToldInTheEnd'
  <2>1. "blocked" \in Words /\ Tells("blocked", at, BlockMark)  BY DEF Words, Tells
  <2> QED  BY <1>1, <1>8, <2>1
<1>9. CASE Abstract
  <2>1. ASSUME NEW c \in Rewritings, Put(c, <<"abstracted">>) PROVE Told' /\ ToldInTheEnd'
    <3>1. "abstracted" \in Words /\ Tells("abstracted", at, c)  BY DEF Words, Tells
    <3> QED  BY <1>1, <1>3, <1>9, <2>1, <3>1 DEF Abstract
  <2> QED  BY <1>3, <1>8, <1>9, <2>1 DEF Abstract
<1>10. CASE Fails  BY <1>3, <1>8, <1>10 DEF Fails
<1>11. CASE PassThrough \/ Return
  <2>1. UNCHANGED <<body, at, out, statuses>>  BY <1>11 DEF PassThrough, Return
  <2>2. Told'  BY <2>1 DEF Told, UsersTexts, StatusOf, Tells, Changed
  <2>3. ToldInTheEnd'
    <3>1. CASE PassThrough  BY <2>1, <3>1 DEF PassThrough, ToldInTheEnd
    <3>2. CASE Return
      <4>1. at = Len(body.pieces) + 1
        <5>1. Len(body.pieces) \in Nat /\ at \in 1..Len(body.pieces) + 1  BY BodyTexts DEF Types
        <5>2. at > Len(body.pieces)  BY <3>2, Zenon DEF Return
        <5> QED  BY <5>1, <5>2
      <4>2. CASE ~Changed(statuses)
        <5>1. result' = [encoding |-> "as received", contents |-> Contents(body)] /\ ~Changed(statuses')
          BY <2>1, <3>2, <4>2 DEF Return, Changed
        <5> QED  BY <2>1, <4>1, <5>1 DEF ToldInTheEnd, Contents
      <4>3. CASE Changed(statuses)
        <5>1. /\ Changed(statuses')
              /\ stage' = "failed" \/ result' = [encoding |-> "dumped", contents |-> out]
          BY <2>1, <3>2, <4>3 DEF Return, Changed
        <5> QED  BY <2>1, <4>1, <5>1 DEF ToldInTheEnd, Returned
      <4> QED  BY <4>2, <4>3
    <3> QED  BY <1>11, <3>1, <3>2
  <2> QED  BY <2>2, <2>3
<1>12. CASE Flip \/ UNCHANGED vars
  <2>1. UNCHANGED <<body, at, stage, out, statuses, result>>  BY <1>12 DEF Flip, vars
  <2>2. Told'  BY <2>1 DEF Told, UsersTexts, StatusOf, Tells, Changed
  <2> QED  BY <2>1, <2>2 DEF ToldInTheEnd, Returned, Changed, Contents
<1> QED  BY <1>4, <1>5, <1>6, <1>7, <1>9, <1>10, <1>11, <1>12 DEF Next, Pass

\* The statuses the pass hands to the log tell what was returned for each text
\* (pipeline.py, contextual_pass; server.py logs them).
THEOREM StatusesAreTrue == Spec => []StatusesTellAll
<1>1. ASSUME Types, Told, ToldInTheEnd PROVE StatusesTellAll
  <2> SUFFICES ASSUME Returned, body.form = "messages" PROVE StatusesTellAll
    BY DEF StatusesTellAll
  <2>1. PICK n : n = Len(body.pieces)  OBVIOUS
  <2>2. n \in Nat /\ at - 1 = n /\ statuses \in Seq(Words) /\ Len(statuses) \in Nat
    <3>1. n \in Nat  BY <1>1, <2>1, BodyTexts DEF Types
    <3>2. at = n + 1  BY <1>1, <2>1 DEF ToldInTheEnd
    <3>3. statuses \in Seq(Words) /\ Len(statuses) \in Nat  BY <1>1, LenProperties DEF Types
    <3> QED  BY <3>1, <3>2, <3>3
  <2>3. /\ Len(statuses) = Cardinality(UsersTexts(n))
        /\ \A i \in UsersTexts(n) : Tells(StatusOf(i), i, out[i])
        /\ Changed(statuses) => \E i \in UsersTexts(n) : StatusOf(i) \in {"abstracted", "blocked"}
    BY <1>1, <2>2 DEF Told
  <2>4. ASSUME NEW i \in UsersTexts(n) PROVE StatusOf(i) \in {"abstracted", "blocked"} => Changed(statuses)
    <3>1. Cardinality(UsersTexts(i)) \in 1..Len(statuses)  BY <2>2, <2>3, Ranks
    <3> QED  BY <3>1 DEF StatusOf, Changed
  <2>5. \A i \in UsersTexts(n) : i \in 1..n  BY DEF UsersTexts
  <2>6. CASE Changed(statuses)
    <3>1. result.encoding = "dumped" /\ result.contents = out  BY <1>1, <2>6 DEF ToldInTheEnd
    <3> QED  BY <2>1, <2>3, <2>6, <3>1 DEF StatusesTellAll, Tells, Raw
  <2>7. CASE ~Changed(statuses)
    <3>1. result.encoding = "as received" /\ result.contents = Contents(body)
      BY <1>1, <2>7 DEF ToldInTheEnd
    <3>2. \A i \in 1..n : Raw(i)  BY <2>1, <3>1 DEF Raw, Contents
    <3>3. \A i \in UsersTexts(n) : StatusOf(i) \notin {"abstracted", "blocked"}  BY <2>4, <2>7
    <3> QED  BY <2>1, <2>3, <2>5, <3>1, <3>2, <3>3 DEF StatusesTellAll
  <2> QED  BY <2>6, <2>7
<1>2. IInv => Types /\ Asking  BY DEF IInv
<1> QED  BY <1>1, <1>2, Invariance, TellingInit, TellingStep, PTL DEF Spec

-----------------------------------------------------------------------------
(* The abstract pass.                                                      *)

\* What is returned differs from what came in texts of the user alone.
OnlyUsersTexts == Returned =>
  /\ result.contents = [i \in 1..Len(body.pieces) |-> result.contents[i]]
  /\ \A i \in 1..Len(body.pieces) :
       result.contents[i] # body.pieces[i].text =>
         body.form = "messages" /\ ForModel(body.pieces[i]) /\ result.contents[i] \in Harmless

LEMMA OthersAreKept == IInv => OnlyUsersTexts
<1> SUFFICES ASSUME IInv, Returned PROVE OnlyUsersTexts  BY DEF OnlyUsersTexts
<1>1. Len(body.pieces) \in Nat  BY BodyTexts DEF IInv, Types
<1>2. CASE result.contents = Contents(body)
  <2>1. \A i \in 1..Len(body.pieces) : result.contents[i] = body.pieces[i].text
    BY <1>2 DEF Contents
  <2> DEFINE C == result.contents
  <2>2. DOMAIN C = 1..Len(body.pieces) /\ C = [i \in DOMAIN C |-> C[i]]  BY <1>2 DEF Contents
  <2>3. C = [i \in 1..Len(body.pieces) |-> C[i]]
    <3> HIDE DEF C
    <3> QED  BY <2>2
  <2> QED  BY <2>1, <2>3 DEF OnlyUsersTexts
<1>3. CASE body.form = "messages" /\ at = Len(body.pieces) + 1 /\ result.contents = out
  <2>1. out = [i \in 1..Len(body.pieces) |-> out[i]]  BY <1>1, <1>3, LenProperties DEF IInv, Types
  <2>2. \A i \in 1..Len(body.pieces) : SettledPiece(i)  BY <1>1, <1>3 DEF IInv, Settled
  <2>3. \A i \in 1..Len(body.pieces) :
          out[i] # body.pieces[i].text => ForModel(body.pieces[i]) /\ out[i] \in Harmless
    BY <2>2 DEF SettledPiece
  <2> QED  BY <1>3, <2>1, <2>3, Zenon DEF OnlyUsersTexts
<1> QED  BY <1>2, <1>3 DEF IInv, Outcome

\* LocalPass implements Minimization, but for the promise that the pass ends:
\* every step is invisible, or the one by which texts of the user are replaced.
THEOREM StepsMinimize ==
  Spec => Minimized!Init /\ [][Minimized!Minimize \/ Minimized!Fail]_(Minimized!vars)
<1>1. Init => Minimized!Init
  BY DEF Init, Minimized!Init, Running, Returned
<1>2. IInv /\ OnlyUsersTexts' /\ [Next]_vars => [Minimized!Minimize \/ Minimized!Fail]_(Minimized!vars)
  <2> SUFFICES ASSUME IInv, OnlyUsersTexts', [Next]_vars
               PROVE  Minimized!Minimize \/ Minimized!Fail \/ UNCHANGED Minimized!vars
    OBVIOUS
  <2>1. CASE PassThrough \/ Return
    <3>1. Running /\ stage' \in {"returned", "failed"} /\ body' = body
      BY <2>1 DEF PassThrough, Return, Running
    <3>2. CASE stage' = "failed"
      BY <3>1, <3>2 DEF Minimized!Fail, Running, Returned
    <3>3. CASE stage' = "returned"
      <4> DEFINE C == result'.contents
                 T == {i \in 1..Len(body.pieces) : C[i] # body.pieces[i].text}
                 replaced == [i \in 1..Len(body.pieces) |-> IF i \in T THEN C[i] ELSE BlockMark]
      <4>1. /\ C = [i \in 1..Len(body.pieces) |-> C[i]]
            /\ \A i \in T : body.form = "messages" /\ ForModel(body.pieces[i]) /\ C[i] \in Harmless
        <5>1. Returned'  BY <3>3 DEF Returned
        <5> QED  BY <3>1, <5>1 DEF OnlyUsersTexts, ForModel
      <4>2. replaced \in [1..Len(body.pieces) -> Rewritings \cup {BlockMark}]
        BY <4>1 DEF Harmless
      <4>3. T \in SUBSET {i \in 1..Len(body.pieces) :
                            body.form = "messages" /\ Minimized!UsersText(body.pieces[i])}
        BY <4>1 DEF ForModel, Minimized!UsersText
      <4>4. C = [i \in 1..Len(body.pieces) |-> IF i \in T THEN replaced[i] ELSE body.pieces[i].text]
        BY <4>1
      <4> HIDE DEF C, T, replaced
      <4>5. Returned' /\ ~Running' /\ stage' = "returned"  BY <3>3 DEF Returned, Running
      <4> QED  BY <3>1, <4>2, <4>3, <4>4, <4>5 DEF Minimized!Minimize, C
    <3> QED  BY <3>1, <3>2, <3>3
  <2>2. CASE Keep \/ Skip \/ Engage \/ Classify \/ Abstract \/ Fails
    <3>1. Running /\ Running' /\ body' = body
      BY <2>2 DEF Keep, Skip, Engage, Classify, Abstract, Fails, Put, Looping, Running
    <3> QED  BY <3>1 DEF Minimized!vars, Running, Returned
  <2>3. CASE Flip \/ UNCHANGED vars
    BY <2>3 DEF Flip, vars, Minimized!vars, Running, Returned
  <2> QED  BY <2>1, <2>2, <2>3 DEF Next, Pass
<1> QED  BY Invariance, OthersAreKept, <1>1, <1>2, PTL DEF Spec
=============================================================================
