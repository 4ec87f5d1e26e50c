---------------------------- MODULE ProxyProofs ----------------------------
(***************************************************************************)
(* What the proxy sends upstream and to its clients, for any number of     *)
(* requests, bodies, policies and pool size, and any upstream.             *)
(*                                                                         *)
(* The argument is by provenance.  The protected values a masked body      *)
(* shows are those that stood bare in the body, where the firewall does    *)
(* not look; an upstream can write those and no others, so any other       *)
(* protected value can only come into an answer out of the request's own   *)
(* vault, and the vault holds values of the request's own body.            *)
(*                                                                         *)
(* Then that nothing leaves unaudited, by folding the audit file, and that *)
(* an echo comes back as it was, since the placeholders of a body differ.  *)
(***************************************************************************)
EXTENDS Proxy, FiniteSetTheorems, SequenceTheorems, TLAPS

Placeholders == ({"EXODUS"} \X Range(Kind) \X Nat) \cup ({"EXODUS-BLOCKED"} \X Range(Kind))
Text == Prose \cup Values \cup BareItems
Item == Text \cup Guesses \cup Placeholders
Vaults == UNION {[T -> Values] : T \in SUBSET Placeholders}

Bared(s) == {v \in Protected : Bare(v) \in Range(s)}
Places ==
  {"idle", "arrived", "prepared", "ready", "sent", "answered", "streaming", "done", "broken",
   "failed", "lost"}
WentOut == {"sent", "answered", "streaming", "done", "broken"}

Types ==
  /\ pc \in [Requests -> Places]
  /\ body \in [Requests -> Seq(Text)]
  /\ work \in [Requests -> Seq(Text)]
  /\ masked \in [Requests -> Seq(Item)]
  /\ answer \in [Requests -> Seq(Item)]
  /\ delivered \in [Requests -> Seq(Item)]
  /\ vault \in [Requests -> Vaults]
  /\ \A e \in egress : e.body \in Seq(Item)

Holds(q) ==
  /\ Shows(masked[q]) \subseteq Bared(body[q])
  /\ Shows(answer[q]) \subseteq SentRaw
  /\ Range(work[q]) \cap (Values \cup BareItems) \subseteq Range(body[q])
  /\ \A t \in DOMAIN vault[q] : vault[q][t] \in Range(body[q])
  /\ Shows(delivered[q]) \subseteq Shows(body[q]) \cup SentRaw
  /\ NoRestore => Shows(delivered[q]) \subseteq SentRaw
  /\ pc[q] = "idle" => DOMAIN vault[q] = {} /\ delivered[q] = <<>> /\ masked[q] = <<>>
  /\ pc[q] \in WentOut => [req |-> q, body |-> masked[q]] \in egress

IInv ==
  /\ Types
  /\ \A q \in Requests : Holds(q)

-----------------------------------------------------------------------------
(* Placeholders, masking and restoring.                                    *)

LEMMA NumberIsNat == ASSUME NEW b \in Seq(Text), NEW v PROVE Number(b, v) \in Nat
<1> DEFINE J == {k \in 1..Len(b) : b[k] \in Reversible /\ \A l \in 1..k - 1 : b[l] # v}
<1>1. IsFiniteSet(1..Len(b))  BY LenProperties, FS_Interval
<1>2. IsFiniteSet(J)  BY <1>1, FS_Subset
<1>3. IsFiniteSet({b[j] : j \in J})
  <2> DEFINE f == [j \in J |-> b[j]]
             T == {b[j] : j \in J}
  <2>1. f \in Surjection(J, T)  BY DEF Surjection
  <2> HIDE DEF f, J
  <2> QED  BY <1>2, <2>1, FS_Surjection
<1> QED  BY <1>3, FS_CardinalityType DEF Number

LEMMA TokenIsPlaceholder ==
  ASSUME NEW b \in Seq(Text), NEW v \in Values
  PROVE  Token(b, v) \in {"EXODUS"} \X Range(Kind) \X Nat
<1>1. Kind[v] \in Range(Kind)  BY DEF Values, Range
<1> QED  BY <1>1, NumberIsNat DEF Token

LEMMA PlaceholdersAreApart == Placeholders \cap (Values \cup BareItems) = {}
<1>1. ASSUME NEW x \in Placeholders PROVE x \notin BareItems
  <2>1. x[1] # "bare"  BY DEF Placeholders
  <2>2. \A y \in BareItems : y[1] = "bare"  BY DEF BareItems, Bare
  <2> QED  BY <2>1, <2>2
<1> QED  BY <1>1, TokensAreNew DEF Placeholders

LEMMA MaskHides ==
  ASSUME NEW b \in Seq(Text)
  PROVE  Mask(b) \in Seq(Item) /\ Shows(Mask(b)) \subseteq Bared(b)
<1> DEFINE n == Len(b)
<1>1. n \in Nat /\ DOMAIN b = 1..n /\ DOMAIN Mask(b) = 1..n  BY LenProperties DEF Mask
<1>2. ASSUME NEW i \in 1..n
      PROVE  Mask(b)[i] \in Item \ Protected /\ (Mask(b)[i] \in BareItems => Mask(b)[i] = b[i])
  <2>1. b[i] \in Text  BY ElementOfSeq
  <2>2. CASE b[i] \in Reversible
    <3>1. Mask(b)[i] = Token(b, b[i])  BY <2>2 DEF Mask
    <3>2. Token(b, b[i]) \in Placeholders
      BY <2>2, TokenIsPlaceholder DEF Reversible, Placeholders
    <3> QED  BY <3>1, <3>2, PlaceholdersAreApart DEF Item, Protected
  <2>3. CASE b[i] \in Protected \ Reversible
    <3>1. Mask(b)[i] = Mark(b[i])  BY <2>3 DEF Mask
    <3>2. Mark(b[i]) \in {"EXODUS-BLOCKED"} \X Range(Kind)  BY <2>3 DEF Mark, Protected, Values, Range
    <3>3. Mark(b[i]) \in Placeholders  BY <3>2 DEF Placeholders
    <3> QED  BY <3>1, <3>3, PlaceholdersAreApart DEF Item, Protected
  <2>4. CASE b[i] \notin Reversible /\ b[i] \notin Protected
    BY <2>1, <2>4 DEF Mask, Item
  <2> QED  BY <2>2, <2>3, <2>4
<1>3. Mask(b) \in Seq(Item)  BY <1>1, <1>2, IsASeq DEF Mask
<1>4. ASSUME NEW v \in Shows(Mask(b)) PROVE v \in Bared(b)
  <2>1. v \in Protected /\ Bare(v) \in BareItems  BY <1>4 DEF Shows, Protected, BareItems
  <2>2. v \notin Range(Mask(b))  BY <1>1, <1>2, <2>1 DEF Range
  <2>3. Bare(v) \in Range(Mask(b))  BY <1>4, <2>2 DEF Shows
  <2>4. PICK i \in 1..n : Mask(b)[i] = Bare(v)  BY <1>1, <2>3 DEF Range
  <2>5. b[i] = Bare(v)  BY <1>2, <2>1, <2>4
  <2> QED  BY <1>1, <2>1, <2>5 DEF Bared, Range
<1> QED  BY <1>3, <1>4

LEMMA VaultIsVault == ASSUME NEW b \in Seq(Text) PROVE VaultOf(b) \in Vaults
<1> DEFINE kept == Range(b) \cap Reversible
           T == {Token(b, v) : v \in kept}
<1>1. T \in SUBSET Placeholders  BY TokenIsPlaceholder DEF Placeholders, Reversible
<1>2. ASSUME NEW t \in T PROVE (CHOOSE v \in kept : Token(b, v) = t) \in Values
  <2>1. \E v \in kept : Token(b, v) = t  OBVIOUS
  <2>2. (CHOOSE v \in kept : Token(b, v) = t) \in kept  BY <2>1
  <2> QED  BY <2>2 DEF Reversible
<1>3. VaultOf(b) = [t \in T |-> CHOOSE v \in kept : Token(b, v) = t]  BY DEF VaultOf
<1> HIDE DEF T, kept
<1>4. VaultOf(b) \in [T -> Values]  BY <1>2, <1>3
<1> QED  BY <1>1, <1>4 DEF Vaults

LEMMA VaultHoldsOwn ==
  ASSUME NEW b, NEW t \in DOMAIN VaultOf(b)
  PROVE  VaultOf(b)[t] \in Range(b) \cap Values
<1>1. PICK v \in Range(b) \cap Reversible : Token(b, v) = t  BY DEF VaultOf
<1> QED  BY <1>1 DEF VaultOf, Reversible

\* Restoring an answer brings in values of the vault and nothing else that is
\* protected, and keeps its length.
LEMMA RestoreBringsOwn ==
  ASSUME NEW v, NEW b, NEW s \in Seq(Item),
         \A t \in DOMAIN v : v[t] \in Range(b) /\ v[t] \in Values
  PROVE  /\ Restore(v, s) \in Seq(Item) /\ Len(Restore(v, s)) = Len(s)
         /\ Shows(Restore(v, s)) \subseteq Shows(b) \cup Shows(s)
<1>1. Len(s) \in Nat /\ DOMAIN s = 1..Len(s) /\ DOMAIN Restore(v, s) = 1..Len(s)
  BY LenProperties DEF Restore
<1>2. ASSUME NEW i \in 1..Len(s)
      PROVE  Restore(v, s)[i] \in Item /\ Restore(v, s)[i] \in Range(b) \cup Range(s)
  <2>1. CASE s[i] \in DOMAIN v
    <3>1. Restore(v, s)[i] = v[s[i]]  BY <2>1 DEF Restore
    <3> QED  BY <2>1, <3>1 DEF Item, Text
  <2>2. CASE s[i] \notin DOMAIN v
    <3>1. Restore(v, s)[i] = s[i]  BY <2>2 DEF Restore
    <3>2. s[i] \in Range(s) /\ s[i] \in Item  BY <1>1, ElementOfSeq DEF Range
    <3> QED  BY <3>1, <3>2
  <2> QED  BY <2>1, <2>2
<1>3. Restore(v, s) \in Seq(Item)  BY <1>1, <1>2, IsASeq DEF Restore
<1>4. Range(Restore(v, s)) \subseteq Range(b) \cup Range(s)  BY <1>1, <1>2 DEF Range
<1>5. Shows(Restore(v, s)) \subseteq Shows(b) \cup Shows(s)  BY <1>4 DEF Shows
<1> QED  BY <1>1, <1>3, <1>5, LenProperties

LEMMA PrefixRange ==
  ASSUME NEW s \in Seq(Item), NEW n \in 0..Len(s)
  PROVE  SubSeq(s, 1, n) \in Seq(Item) /\ Range(SubSeq(s, 1, n)) \subseteq Range(s)
<1>1. Len(s) \in Nat /\ DOMAIN s = 1..Len(s)  BY LenProperties
<1>2. SubSeq(s, 1, n) \in Seq(Item)  BY <1>1, SubSeqProperties
<1>3. DOMAIN SubSeq(s, 1, n) = 1..n /\ \A i \in 1..n : SubSeq(s, 1, n)[i] = s[i]
  BY <1>1, SubSeqProperties
<1> QED  BY <1>1, <1>2, <1>3 DEF Range

\* What the client may be sent of an answer.
LEMMA ShownIsOwn ==
  ASSUME NEW r \in Requests, NEW s \in Seq(Item), Shows(s) \subseteq SentRaw, Types, Holds(r),
         NEW n \in 0..Len(s)
  PROVE  LET d == SubSeq(Shown(r, s), 1, n) IN
           /\ Shown(r, s) \in Seq(Item) /\ Len(Shown(r, s)) = Len(s)
           /\ Shows(Shown(r, s)) \subseteq Shows(body[r]) \cup SentRaw
           /\ NoRestore => Shows(Shown(r, s)) \subseteq SentRaw
           /\ d \in Seq(Item) /\ Shows(d) \subseteq Shows(body[r]) \cup SentRaw
           /\ NoRestore => Shows(d) \subseteq SentRaw
<1>1. \A t \in DOMAIN vault[r] : vault[r][t] \in Range(body[r]) /\ vault[r][t] \in Values
  BY DEF Holds, Types, Vaults
<1>2. /\ Shown(r, s) \in Seq(Item) /\ Len(Shown(r, s)) = Len(s)
      /\ Shows(Shown(r, s)) \subseteq Shows(body[r]) \cup SentRaw
      /\ NoRestore => Shows(Shown(r, s)) \subseteq SentRaw
  <2>1. CASE NoRestore  BY <2>1 DEF Shown
  <2>2. CASE ~NoRestore
    <3>1. Shown(r, s) = Restore(vault[r], s)  BY <2>2 DEF Shown
    <3> QED  BY <1>1, <2>2, <3>1, RestoreBringsOwn
  <2> QED  BY <2>1, <2>2
<1>3. /\ SubSeq(Shown(r, s), 1, n) \in Seq(Item)
      /\ Range(SubSeq(Shown(r, s), 1, n)) \subseteq Range(Shown(r, s))
  BY <1>2, PrefixRange
<1>4. Shows(SubSeq(Shown(r, s), 1, n)) \subseteq Shows(Shown(r, s))  BY <1>3 DEF Shows
<1> QED  BY <1>2, <1>3, <1>4

-----------------------------------------------------------------------------
(* The invariant.                                                          *)

LEMMA InitHolds == Init => IInv
<1> SUFFICES ASSUME Init PROVE IInv
  OBVIOUS
<1>1. <<>> \in Seq(Item) /\ <<>> \in Seq(Text) /\ Range(<<>>) = {}
  BY DEF Range
<1>2. Types
  <2>1. vault \in [Requests -> Vaults]
    <3>1. [t \in {} |-> t] \in [{} -> Values] /\ {} \in SUBSET Placeholders  OBVIOUS
    <3>2. [t \in {} |-> t] \in Vaults  BY <3>1 DEF Vaults
    <3> QED  BY <3>2 DEF Init
  <2>2. pc \in [Requests -> Places]  BY DEF Init, Places
  <2>3. body \in [Requests -> Seq(Text)]  BY <1>1 DEF Init
  <2>4. work \in [Requests -> Seq(Text)]  BY <1>1 DEF Init
  <2>5. masked \in [Requests -> Seq(Item)]  BY <1>1 DEF Init
  <2>6. answer \in [Requests -> Seq(Item)]  BY <1>1 DEF Init
  <2>7. delivered \in [Requests -> Seq(Item)]  BY <1>1 DEF Init
  <2>8. \A e \in egress : e.body \in Seq(Item)  BY DEF Init
  <2> QED  BY <2>1, <2>2, <2>3, <2>4, <2>5, <2>6, <2>7, <2>8 DEF Types
<1>3. ASSUME NEW q \in Requests PROVE Holds(q)
  BY <1>1 DEF Init, Holds, Shows, WentOut
<1> QED  BY <1>2, <1>3 DEF Init, IInv

\* What went upstream stays there.
LEMMA SentGrows == egress \subseteq egress' => SentRaw \subseteq SentRaw'
BY DEF SentRaw, Shows

\* A request nothing of which changes keeps what holds of it.
LEMMA Frame ==
  ASSUME NEW q \in Requests, Holds(q), egress \subseteq egress',
         body'[q] = body[q], work'[q] = work[q], masked'[q] = masked[q], vault'[q] = vault[q],
         answer'[q] = answer[q], delivered'[q] = delivered[q],
         pc'[q] = "idle" => pc[q] = "idle", pc'[q] \in WentOut => pc[q] \in WentOut
  PROVE  Holds(q)'
<1>1. SentRaw \subseteq SentRaw'  BY SentGrows
<1>2. /\ Shows(masked[q])' = Shows(masked[q]) /\ Shows(answer[q])' = Shows(answer[q])
      /\ Shows(delivered[q])' = Shows(delivered[q]) /\ Shows(body[q])' = Shows(body[q])
      /\ Bared(body[q])' = Bared(body[q])
  BY DEF Shows, Bared
<1> QED  BY <1>1, <1>2 DEF Holds

LEMMA ArriveStep == ASSUME IInv, NEW r \in Requests, Arrive(r) PROVE IInv'
<1> USE DEF IInv, Types
<1>1. PICK b \in Bodies : body' = [body EXCEPT ![r] = b] /\ work' = [work EXCEPT ![r] = b]
  BY DEF Arrive
<1>2. b \in Seq(Text)  BY BodiesType DEF Text
<1>3. /\ pc[r] = "idle" /\ pc' = [pc EXCEPT ![r] = "arrived"]
      /\ UNCHANGED <<masked, vault, answer, delivered, egress>>
  BY DEF Arrive, Goto
<1>4. Types'  BY <1>1, <1>2, <1>3 DEF Places
<1>5. ASSUME NEW q \in Requests PROVE Holds(q)'
  <2>1. CASE q # r  BY <1>1, <1>3, <2>1, Frame DEF Holds
  <2>2. CASE q = r
    <3>1. body'[r] = b /\ work'[r] = b /\ pc'[r] = "arrived"  BY <1>1, <1>3
    <3>2. DOMAIN vault[r] = {} /\ delivered[r] = <<>> /\ masked[r] = <<>>  BY <1>3 DEF Holds
    <3>3. Shows(<<>>) = {}  BY DEF Shows, Range
    <3>4. SentRaw' = SentRaw  BY <1>3 DEF SentRaw, Shows
    <3> QED  BY <1>3, <2>2, <3>1, <3>2, <3>3, <3>4 DEF Holds, WentOut
  <2> QED  BY <2>1, <2>2
<1> QED  BY <1>3, <1>4, <1>5

LEMMA PrepareStep == ASSUME IInv, NEW r \in Requests, Prepare(r) PROVE IInv'
<1> USE DEF IInv, Types
<1>1. PICK T : work' = [work EXCEPT ![r] =
                 [i \in 1..Len(work[r]) |-> IF i \in T THEN Rewritten ELSE work[r][i]]]
  BY DEF Prepare
<1>2. /\ pc[r] = "arrived" /\ pc' = [pc EXCEPT ![r] = "prepared"]
      /\ UNCHANGED <<body, masked, vault, answer, delivered, egress>>
  BY DEF Prepare, Goto
<1> DEFINE w == [i \in 1..Len(work[r]) |-> IF i \in T THEN Rewritten ELSE work[r][i]]
<1>3. Len(work[r]) \in Nat /\ DOMAIN work[r] = 1..Len(work[r])  BY LenProperties
<1>4. \A i \in 1..Len(work[r]) : w[i] \in Text /\ (w[i] \in Values \cup BareItems => w[i] = work[r][i])
  BY <1>3, ElementOfSeq, ProseIsProse DEF Text
<1>5. w \in Seq(Text)  BY <1>3, <1>4, IsASeq
<1>6. Range(w) \cap (Values \cup BareItems) \subseteq Range(work[r])  BY <1>3, <1>4 DEF Range
<1>7. work'[r] = w  BY <1>1
<1> HIDE DEF w
<1>8. Types'  BY <1>1, <1>2, <1>5, <1>7 DEF Places
<1>9. ASSUME NEW q \in Requests PROVE Holds(q)'
  <2>1. CASE q # r  BY <1>1, <1>2, <2>1, Frame DEF Holds
  <2>2. CASE q = r
    <3>1. SentRaw' = SentRaw  BY <1>2 DEF SentRaw, Shows
    <3> QED  BY <1>2, <1>6, <1>7, <2>2, <3>1 DEF Holds, WentOut
  <2> QED  BY <2>1, <2>2
<1> QED  BY <1>2, <1>8, <1>9

LEMMA SanitizeStep == ASSUME IInv, NEW r \in Requests, Sanitize(r) PROVE IInv'
<1> USE DEF IInv, Types
<1>1. /\ pc[r] = "prepared" /\ pc' = [pc EXCEPT ![r] = "ready"]
      /\ masked' = [masked EXCEPT ![r] = Mask(work[r])]
      /\ vault' = [vault EXCEPT ![r] = VaultOf(work[r])]
      /\ UNCHANGED <<body, work, answer, delivered, egress>>
  BY DEF Sanitize, Goto
<1>2. work[r] \in Seq(Text)  OBVIOUS
<1>3. Mask(work[r]) \in Seq(Item) /\ Shows(Mask(work[r])) \subseteq Bared(work[r])
  BY <1>2, MaskHides
<1>4. DOMAIN vault = Requests  OBVIOUS
<1>5. vault' \in [Requests -> Vaults]  BY <1>1, <1>2, VaultIsVault
<1>6. Types'  BY <1>1, <1>3, <1>5 DEF Places
<1>7. ASSUME NEW q \in Requests PROVE Holds(q)'
  <2>1. CASE q # r  BY <1>1, <1>4, <2>1, Frame DEF Holds
  <2>2. CASE q = r
    <3>1. masked'[r] = Mask(work[r]) /\ pc'[r] = "ready"  BY <1>1
    <3>2. vault'[r] = VaultOf(work[r])  BY <1>1, <1>4
    <3>3. \A t \in DOMAIN vault'[r] : vault'[r][t] \in Range(body[r])
      BY <3>2, VaultHoldsOwn DEF Holds
    <3>4. Bared(work[r]) \subseteq Bared(body[r])
      <4>1. \A v \in Protected : Bare(v) \in BareItems  BY DEF Protected, BareItems
      <4> QED  BY <4>1 DEF Holds, Bared
    <3>5. SentRaw' = SentRaw  BY <1>1 DEF SentRaw, Shows
    <3>6. Shows(masked'[r]) \subseteq Bared(body[r])  BY <1>3, <3>1, <3>4
    <3> QED  BY <1>1, <2>2, <3>1, <3>3, <3>5, <3>6 DEF Holds, WentOut
  <2> QED  BY <2>1, <2>2
<1> QED  BY <1>1, <1>6, <1>7

LEMMA SendStep == ASSUME IInv, NEW r \in Requests, Send(r) PROVE IInv'
<1> USE DEF IInv, Types
<1>1. /\ pc' = [pc EXCEPT ![r] = "sent"]
      /\ egress' = egress \cup {[req |-> r, body |-> masked[r]]}
      /\ UNCHANGED <<body, work, masked, vault, answer, delivered>>
  BY DEF Send, Goto
<1>2. \A e \in egress' : e.body \in Seq(Item)  BY <1>1
<1>3. Types'  BY <1>1, <1>2 DEF Places
<1>4. ASSUME NEW q \in Requests PROVE Holds(q)'
  <2>1. CASE q # r  BY <1>1, <2>1, Frame DEF Holds
  <2>2. CASE q = r
    <3>1. SentRaw \subseteq SentRaw'  BY <1>1, SentGrows
    <3> QED  BY <1>1, <2>2, <3>1 DEF Holds, WentOut
  <2> QED  BY <2>1, <2>2
<1> QED  BY <1>3, <1>4

\* An upstream can write no protected value it was not sent.
LEMMA UtterableIsSent ==
  ASSUME IInv, NEW x \in Utterable
  PROVE  x \in Item /\ \A v \in Protected : x \in {v, Bare(v)} => v \in SentRaw
<1>1. \A v \in Protected : v \in Values /\ Bare(v) \in BareItems  BY DEF Protected, BareItems
<1>2. CASE x \in Prose \cup Guesses
  BY <1>1, <1>2, ProseIsProse, GuessesAreNoValues DEF Item, Text
<1>3. CASE x \in SentRaw
  <2>1. x \in Values  BY <1>1, <1>3 DEF SentRaw, Shows
  <2> QED  BY <1>1, <1>3, <2>1, BareIsApart DEF Item, Text
<1>4. CASE \E e \in egress : x \in Range(e.body)
  <2>1. PICK e \in egress : x \in Range(e.body)  BY <1>4
  <2>2. e.body \in Seq(Item)  BY DEF IInv, Types
  <2>3. x \in Item  BY <2>1, <2>2, LenProperties, ElementOfSeq DEF Range
  <2> QED  BY <2>1, <2>3 DEF SentRaw, Shows
<1> QED  BY <1>2, <1>3, <1>4 DEF Utterable

LEMMA RelayStep == ASSUME IInv, NEW r \in Requests, Relay(r) PROVE IInv'
<1> USE DEF IInv, Types
<1>1. PICK item \in Utterable :
        LET s == Append(answer[r], item) IN
          /\ answer' = [answer EXCEPT ![r] = s]
          /\ \E n \in IF NoRestore THEN {Len(s)} ELSE Len(delivered[r])..Len(s) :
               delivered' = [delivered EXCEPT ![r] = SubSeq(Shown(r, s), 1, n)]
  BY DEF Relay
<1> DEFINE s == Append(answer[r], item)
<1>2. item \in Item /\ \A v \in Protected : item \in {v, Bare(v)} => v \in SentRaw
  BY UtterableIsSent
<1>3. s \in Seq(Item) /\ Len(s) \in Nat /\ Shows(s) \subseteq SentRaw
  <2>1. answer[r] \in Seq(Item) /\ Shows(answer[r]) \subseteq SentRaw  BY DEF Holds
  <2>2. /\ s \in Seq(Item) /\ Len(s) = Len(answer[r]) + 1 /\ s[Len(answer[r]) + 1] = item
        /\ \A i \in 1..Len(answer[r]) : s[i] = answer[r][i]
    BY <1>2, <2>1, AppendProperties
  <2>3. Len(answer[r]) \in Nat /\ DOMAIN answer[r] = 1..Len(answer[r]) /\ DOMAIN s = 1..Len(s)
    BY <2>1, <2>2, LenProperties
  <2> HIDE DEF s
  <2>4. ASSUME NEW i \in 1..Len(s) PROVE s[i] \in Range(answer[r]) \cup {item}
    <3>1. CASE i = Len(answer[r]) + 1  BY <2>2, <3>1
    <3>2. CASE i \in 1..Len(answer[r])  BY <2>2, <2>3, <3>2 DEF Range
    <3> QED  BY <2>2, <2>3, <3>1, <3>2
  <2>5. Range(s) \subseteq Range(answer[r]) \cup {item}  BY <2>3, <2>4 DEF Range
  <2>6. Shows(s) \subseteq SentRaw  BY <1>2, <2>1, <2>5 DEF Shows
  <2> QED  BY <2>2, <2>3, <2>6
<1>4. PICK n \in 0..Len(s) : delivered' = [delivered EXCEPT ![r] = SubSeq(Shown(r, s), 1, n)]
  <2>1. PICK n \in IF NoRestore THEN {Len(s)} ELSE Len(delivered[r])..Len(s) :
          delivered' = [delivered EXCEPT ![r] = SubSeq(Shown(r, s), 1, n)]
    BY <1>1
  <2>2. Len(delivered[r]) \in Nat  BY LenProperties
  <2> HIDE DEF s
  <2>3. n \in 0..Len(s)  BY <1>3, <2>1, <2>2
  <2> QED  BY <2>1, <2>3
<1>5. answer' = [answer EXCEPT ![r] = s] /\ UNCHANGED <<pc, body, work, masked, vault, egress>>
  BY <1>1 DEF Relay
<1> HIDE DEF s
<1> DEFINE d == SubSeq(Shown(r, s), 1, n)
<1>6. /\ d \in Seq(Item) /\ Shows(d) \subseteq Shows(body[r]) \cup SentRaw
      /\ NoRestore => Shows(d) \subseteq SentRaw
  BY <1>3, ShownIsOwn
<1> HIDE DEF d
<1>7. delivered' = [delivered EXCEPT ![r] = d]  BY <1>4 DEF d
<1>8. pc[r] = "streaming"  BY DEF Relay
<1>9. Types'  BY <1>3, <1>5, <1>6, <1>7 DEF Places
<1>10. ASSUME NEW q \in Requests PROVE Holds(q)'
  <2>1. CASE q # r  BY <1>5, <1>7, <2>1, Frame DEF Holds
  <2>2. CASE q = r
    <3>1. answer'[r] = s /\ delivered'[r] = d  BY <1>5, <1>7
    <3>2. SentRaw' = SentRaw  BY <1>5 DEF SentRaw, Shows
    <3> QED  BY <1>3, <1>5, <1>6, <1>8, <2>2, <3>1, <3>2 DEF Holds
  <2> QED  BY <2>1, <2>2
<1> QED  BY <1>5, <1>9, <1>10

LEMMA CompleteStep == ASSUME IInv, NEW r \in Requests, Complete(r) PROVE IInv'
<1> USE DEF IInv, Types
<1> DEFINE d == Shown(r, answer[r])
<1>1. /\ pc[r] = "streaming" /\ pc' = [pc EXCEPT ![r] = "done"]
      /\ delivered' = [delivered EXCEPT ![r] = d]
      /\ UNCHANGED <<body, work, masked, vault, answer, egress>>
  BY DEF Complete, Goto
<1>2. /\ d \in Seq(Item) /\ Shows(d) \subseteq Shows(body[r]) \cup SentRaw
      /\ NoRestore => Shows(d) \subseteq SentRaw
  <2>1. answer[r] \in Seq(Item) /\ Shows(answer[r]) \subseteq SentRaw  BY DEF Holds
  <2>2. 0 \in 0..Len(answer[r])  BY <2>1, LenProperties
  <2> QED  BY <2>1, <2>2, ShownIsOwn
<1> HIDE DEF d
<1>3. Types'  BY <1>1, <1>2 DEF Places
<1>4. ASSUME NEW q \in Requests PROVE Holds(q)'
  <2>1. CASE q # r  BY <1>1, <2>1, Frame DEF Holds
  <2>2. CASE q = r
    <3>1. delivered'[r] = d /\ pc'[r] = "done"  BY <1>1
    <3>2. SentRaw' = SentRaw  BY <1>1 DEF SentRaw, Shows
    <3> QED  BY <1>1, <1>2, <2>2, <3>1, <3>2 DEF Holds, WentOut
  <2> QED  BY <2>1, <2>2
<1> QED  BY <1>1, <1>3, <1>4

\* The other steps of the handler move it on and touch no data.
LEMMA Moved ==
  ASSUME IInv, NEW r \in Requests, NEW from \in Places, NEW to \in Places, Goto(r, from, to),
         to # "idle", to \in WentOut => from \in WentOut,
         UNCHANGED <<body, work, masked, vault, answer, delivered, egress>>
  PROVE  IInv'
<1> USE DEF IInv, Types
<1>1. Types'  BY DEF Goto, Places
<1>2. ASSUME NEW q \in Requests PROVE Holds(q)'
  <2>1. pc'[q] = IF q = r THEN to ELSE pc[q]  BY DEF Goto
  <2> QED  BY <2>1, Frame DEF Goto
<1> QED  BY <1>1, <1>2

LEMMA MoveStep ==
  ASSUME IInv, NEW r \in Requests,
         PrepareFails(r) \/ AuditFails(r) \/ SendFails(r) \/ Answered(r) \/ Start(r) \/ StartFails(r)
           \/ BreakOff(r)
  PROVE  IInv'
<1> USE DEF WentOut, Places
<1>1. CASE PrepareFails(r)  BY <1>1, Moved DEF PrepareFails
<1>2. CASE AuditFails(r)  BY <1>2, Moved DEF AuditFails
<1>3. CASE SendFails(r)  BY <1>3, Moved DEF SendFails
<1>4. CASE Answered(r)  BY <1>4, Moved DEF Answered
<1>5. CASE Start(r)  BY <1>5, Moved DEF Start
<1>6. CASE StartFails(r)  BY <1>6, Moved DEF StartFails
<1>7. CASE BreakOff(r)  BY <1>7, Moved DEF BreakOff
<1> QED  BY <1>1, <1>2, <1>3, <1>4, <1>5, <1>6, <1>7

LEMMA CrashStep == ASSUME IInv, Crash PROVE IInv'
<1> USE DEF IInv, Types
<1>1. UNCHANGED <<body, work, masked, vault, answer, delivered, egress>>  BY DEF Crash
<1>2. Types'  BY <1>1 DEF Crash, Ended, Places
<1>3. ASSUME NEW q \in Requests PROVE Holds(q)'
  <2>1. pc'[q] = pc[q] \/ pc'[q] = "lost"  BY DEF Crash
  <2> QED  BY <1>1, <2>1, Frame DEF WentOut
<1> QED  BY <1>1, <1>2, <1>3

LEMMA StepHolds == IInv /\ [Next]_vars => IInv'
<1> SUFFICES ASSUME IInv, [Next]_vars PROVE IInv'
  OBVIOUS
<1>1. ASSUME NEW r \in Requests, Arrive(r) \/ Handle(r) PROVE IInv'
  BY <1>1, ArriveStep, PrepareStep, SanitizeStep, SendStep, RelayStep, CompleteStep, MoveStep
  DEF Handle
<1>2. CASE Crash  BY <1>2, CrashStep
<1>3. CASE UNCHANGED vars
  <2>1. \A q \in Requests : Holds(q)'  BY <1>3, Frame DEF vars, IInv
  <2>2. Types'  BY <1>3 DEF vars, IInv, Types
  <2> QED  BY <2>1, <2>2 DEF IInv
<1> QED  BY <1>1, <1>2, <1>3 DEF Next

LEMMA InvHolds == Spec => []IInv
BY InitHolds, StepHolds, PTL DEF Spec

-----------------------------------------------------------------------------
(* The inspection log: an exchange is recorded when its request is done,   *)
(* and no step of a handler starts from there.                             *)

LogInv == InspectionIsTrue /\ \A e \in log : e.req \in Requests

LEMMA StepNotOfDone ==
  ASSUME NEW r \in Requests, Arrive(r) \/ Handle(r)
  PROVE  pc[r] # "done"
BY DEF Handle, Arrive, Prepare, PrepareFails, Sanitize, AuditFails, Send, SendFails, Answered,
  Start, StartFails, Relay, Complete, BreakOff, Goto

\* A step of one request leaves the others alone.
LEMMA StepIsOfOne ==
  ASSUME IInv, NEW r \in Requests, Arrive(r) \/ Handle(r), NEW q \in Requests \ {r}
  PROVE  /\ egress \subseteq egress'
         /\ pc'[q] = pc[q] /\ body'[q] = body[q] /\ work'[q] = work[q] /\ masked'[q] = masked[q]
         /\ vault'[q] = vault[q] /\ answer'[q] = answer[q] /\ delivered'[q] = delivered[q]
<1> USE DEF IInv, Types
<1>1. CASE Arrive(r)  BY <1>1 DEF Arrive, Goto
<1>2. CASE Prepare(r) \/ PrepareFails(r) \/ Sanitize(r) \/ AuditFails(r)
  BY <1>2 DEF Prepare, PrepareFails, Sanitize, AuditFails, Goto
<1>3. CASE Send(r) \/ SendFails(r) \/ Answered(r) \/ Start(r) \/ StartFails(r)
  BY <1>3 DEF Send, SendFails, Answered, Start, StartFails, Goto
<1>4. CASE Relay(r)
  <2>1. PICK d : delivered' = [delivered EXCEPT ![r] = d]  BY <1>4 DEF Relay
  <2> QED  BY <1>4, <2>1 DEF Relay
<1>5. CASE Complete(r) \/ BreakOff(r)
  BY <1>5 DEF Complete, BreakOff, Goto
<1> QED  BY <1>1, <1>2, <1>3, <1>4, <1>5 DEF Handle

LEMMA LogStep == ASSUME IInv, LogInv, [Next]_vars PROVE LogInv'
<1> USE DEF LogInv
<1>1. ASSUME NEW r \in Requests, Arrive(r) \/ Handle(r) PROVE LogInv'
  <2>1. ASSUME NEW e \in log
        PROVE  /\ e.req \in Requests /\ pc'[e.req] = "done"
               /\ [req |-> e.req, body |-> e.sent] \in egress'
               /\ e.received = delivered'[e.req] /\ e.wrote = body'[e.req]
    <3>1. /\ e.req \in Requests /\ pc[e.req] = "done"
          /\ [req |-> e.req, body |-> e.sent] \in egress
          /\ e.received = delivered[e.req] /\ e.wrote = body[e.req]
      BY DEF InspectionIsTrue
    <3>2. r # e.req  BY <1>1, <3>1, StepNotOfDone
    <3> QED  BY <1>1, <3>1, <3>2, StepIsOfOne
  <2>2. CASE log' = log  BY <2>1, <2>2 DEF InspectionIsTrue
  <2>3. CASE log' # log
    <3>1. Complete(r)
      BY <1>1, <2>3 DEF Handle, Arrive, Prepare, PrepareFails, Sanitize, AuditFails, Send, SendFails,
        Answered, Start, StartFails, Relay, BreakOff
    <3> DEFINE new == [req |-> r, wrote |-> body[r], sent |-> masked[r], received |-> delivered'[r]]
    <3>2. log' = log \cup {new}  BY <2>3, <3>1 DEF Complete
    <3>3. pc[r] = "streaming" /\ pc'[r] = "done" /\ UNCHANGED <<body, egress>>
      BY <3>1 DEF Complete, Goto, IInv, Types
    <3>4. [req |-> r, body |-> masked[r]] \in egress
      BY <3>3 DEF IInv, Holds, WentOut
    <3> QED  BY <2>1, <3>2, <3>3, <3>4 DEF InspectionIsTrue
  <2> QED  BY <2>2, <2>3
<1>2. CASE Crash
  <2>1. \A q \in Requests : pc[q] = "done" => pc'[q] = "done"  BY <1>2 DEF Crash, Ended
  <2> QED  BY <1>2, <2>1 DEF Crash, InspectionIsTrue
<1>3. CASE UNCHANGED vars  BY <1>3 DEF vars, InspectionIsTrue
<1> QED  BY <1>1, <1>2, <1>3 DEF Next

-----------------------------------------------------------------------------
(* The audit file.  What a request adds to it is filed under that request, *)
(* behind what was there, and nothing else is: the laws of folding say so  *)
(* of the records of a whole batch.  The file only ever grows, and only by *)
(* Sanitize and AuditFails.                                                *)

Record == [req : Requests, kind : Range(Kind), action : {ActionOf(v) : v \in Values}]
Filed == [Requests -> Seq(Record)]
Nothing == [r \in Requests |-> <<>>]

Noting == INSTANCE Folding WITH Op <- Note
Filing == INSTANCE Folding WITH Op <- File

LEMMA AppliedIsProtected ==
  ASSUME NEW b \in Seq(Text)
  PROVE  Applied(b) \in Seq(Protected)
<1>1. \A a \in Seq(Protected), v \in Text : Note(a, v) \in Seq(Protected)
  BY AppendProperties DEF Note
<1>2. <<>> \in Seq(Protected)  OBVIOUS
<1>3. Noting!Fold(<<>>, b) \in Seq(Protected)  BY <1>1, <1>2, Noting!FoldStays
<1>4. Applied(b) = Noting!Fold(<<>>, b)
  BY DEF Applied, Noting!Fold, FoldLeft, Noting!FoldLeft, MapThenFoldSet, Noting!MapThenFoldSet,
    Max, Noting!Max
<1> QED  BY <1>3, <1>4

LEMMA RecordsAreItsOwn ==
  ASSUME NEW r \in Requests, NEW b \in Seq(Text)
  PROVE  /\ Records(r, b) \in Seq(Record)
         /\ \A i \in 1..Len(Records(r, b)) : Records(r, b)[i].req = r
<1> DEFINE a == Applied(b)
<1>1. a \in Seq(Protected)  BY AppliedIsProtected
<1> HIDE DEF a
<1>2. Len(a) \in Nat /\ \A i \in 1..Len(a) : a[i] \in Values  BY <1>1, LenProperties, ElementOfSeq DEF Protected
<1> DEFINE R == [i \in 1..Len(a) |-> [req |-> r, kind |-> Kind[a[i]], action |-> ActionOf(a[i])]]
<1>3. \A i \in 1..Len(a) : Kind[a[i]] \in Range(Kind)  BY <1>2 DEF Values, Range
<1>4. \A i \in 1..Len(a) : R[i] \in Record /\ R[i].req = r  BY <1>2, <1>3 DEF Record
<1>5. R \in Seq(Record) /\ Len(R) = Len(a)  BY <1>2, <1>4, IsASeq
<1> QED  BY <1>4, <1>5 DEF Records, a

LEMMA FilingStays == (\A h \in Filed, a \in Record : File(h, a) \in Filed) /\ Nothing \in Filed
<1>1. ASSUME NEW h \in Filed, NEW a \in Record PROVE File(h, a) \in Filed
  <2>1. a.req \in Requests  BY DEF Record
  <2>2. Append(h[a.req], a) \in Seq(Record)  BY <2>1, AppendProperties DEF Filed
  <2> QED  BY <2>1, <2>2 DEF File, Filed
<1>2. <<>> \in Seq(Record)  OBVIOUS
<1> QED  BY <1>1, <1>2 DEF Nothing, Filed

LEMMA FiledByFolding ==
  ASSUME NEW s \in Seq(Record)
  PROVE  ByRequest(s) = Filing!Fold(Nothing, s) /\ ByRequest(s) \in Filed
<1>1. ByRequest(s) = Filing!Fold(Nothing, s)
  BY DEF ByRequest, Nothing, Filing!Fold, FoldLeft, Filing!FoldLeft, MapThenFoldSet,
    Filing!MapThenFoldSet, Max, Filing!Max
<1>2. Filing!Fold(Nothing, s) \in Filed  BY FilingStays, Filing!FoldStays
<1> QED  BY <1>1, <1>2

\* A batch of one request is filed there, in its order, and nowhere else.
LEMMA BatchIsFiled ==
  ASSUME NEW h \in Filed, NEW r \in Requests, NEW R \in Seq(Record),
         \A i \in 1..Len(R) : R[i].req = r
  PROVE  Filing!Fold(h, R) = [h EXCEPT ![r] = @ \o R]
<1>1. Len(R) \in Nat /\ h[r] \in Seq(Record) /\ DOMAIN h = Requests  BY LenProperties DEF Filed
<1> DEFINE w == [k \in 0..Len(R) |-> [h EXCEPT ![r] = h[r] \o SubSeq(R, 1, k)]]
<1>2. w[0] = h
  <2>1. SubSeq(R, 1, 0) = <<>>  BY SubSeqEmpty
  <2>2. h[r] \o SubSeq(R, 1, 0) = h[r]  BY <1>1, <2>1, ConcatEmptySeq
  <2>3. 0 \in 0..Len(R)  BY <1>1
  <2>4. w[0] = [h EXCEPT ![r] = h[r]]  BY <2>2, <2>3
  <2> QED  BY <1>1, <2>4 DEF Filed
<1>3. w[Len(R)] = [h EXCEPT ![r] = h[r] \o R]
  <2>1. SubSeq(R, 1, Len(R)) = R  BY SubSeqFull
  <2>2. Len(R) \in 0..Len(R)  BY <1>1
  <2> QED  BY <2>1, <2>2
<1>4. ASSUME NEW k \in 1..Len(R) PROVE w[k] = File(w[k - 1], R[k])
  <2>1. /\ k \in 0..Len(R) /\ k - 1 \in 0..Len(R) /\ 1 \in 1..Len(R) /\ k \in 1..Len(R)
        /\ k \in Int /\ k - 1 \in Int /\ R[k] \in Record
    BY <1>1, ElementOfSeq
  <2> DEFINE p == SubSeq(R, 1, k - 1)
  <2>2. SubSeq(R, 1, k) = p \o <<R[k]>>  BY <2>1, SubSeqRecursiveSecond
  <2>3. p \in Seq(Record)
    <3>1. \A i \in 1..(k - 1) : R[i] \in Record  BY <1>1, <2>1, ElementOfSeq
    <3> QED  BY <2>1, <3>1, SubSeqProperties
  <2> HIDE DEF p
  <2>4. <<R[k]>> \in Seq(Record)  BY <2>1
  <2>5. h[r] \o (p \o <<R[k]>>) = (h[r] \o p) \o <<R[k]>>  BY <1>1, <2>3, <2>4, ConcatAssociative
  <2>6. h[r] \o p \in Seq(Record)  BY <1>1, <2>3, ConcatProperties
  <2>7. Append(h[r] \o p, R[k]) = (h[r] \o p) \o <<R[k]>>  BY <2>1, <2>6, AppendIsConcat
  <2>8. w[k] = [h EXCEPT ![r] = Append(h[r] \o p, R[k])]  BY <2>1, <2>2, <2>5, <2>7
  <2>9. w[k - 1] = [h EXCEPT ![r] = h[r] \o p]  BY <2>1 DEF p
  <2>10. R[k].req = r  OBVIOUS
  <2>11. File(w[k - 1], R[k]) = [w[k - 1] EXCEPT ![r] = Append(@, R[k])]  BY <2>10 DEF File
  <2> HIDE DEF w
  <2>12. w[k - 1][r] = h[r] \o p  BY <1>1, <2>9
  <2> QED  BY <1>1, <2>8, <2>9, <2>11, <2>12
<1> HIDE DEF w
<1>5. w[Len(R)] = Filing!Fold(h, R)  BY <1>2, <1>4, Filing!WalkIsFold
<1> QED  BY <1>3, <1>5

\* The file with a batch behind it.
LEMMA FileGrows ==
  ASSUME NEW s \in Seq(Record), NEW r \in Requests, NEW R \in Seq(Record),
         \A i \in 1..Len(R) : R[i].req = r
  PROVE  /\ s \o R \in Seq(Record)
         /\ ByRequest(s \o R) = [ByRequest(s) EXCEPT ![r] = @ \o R]
<1>1. s \o R \in Seq(Record)  BY ConcatProperties
<1>2. Filing!Fold(Nothing, s \o R) = Filing!Fold(Filing!Fold(Nothing, s), R)
  BY Filing!FoldOfConcat
<1>3. Filing!Fold(Nothing, s) \in Filed  BY FiledByFolding
<1>4. Filing!Fold(Filing!Fold(Nothing, s), R) = [Filing!Fold(Nothing, s) EXCEPT ![r] = @ \o R]
  BY <1>3, BatchIsFiled
<1> QED  BY <1>1, <1>2, <1>4, FiledByFolding

Unsent == {"idle", "arrived", "prepared", "ready"}
SentInv == \A e \in egress : e.req \in Requests /\ pc[e.req] \notin Unsent

\* A request is in egress only once it was sent, and none goes back from there.
LEMMA SentStep == ASSUME IInv, SentInv, [Next]_vars PROVE SentInv'
<1> USE DEF IInv, Types, SentInv, Unsent
<1>1. ASSUME NEW r \in Requests, Arrive(r) \/ Handle(r) PROVE SentInv'
  <2>1. ASSUME NEW q \in Requests, pc[q] \notin Unsent PROVE pc'[q] \notin Unsent
    <3>1. CASE q # r  BY <1>1, <2>1, <3>1, StepIsOfOne
    <3>2. CASE q = r
      BY <1>1, <2>1, <3>2 DEF Handle, Arrive, Prepare, PrepareFails, Sanitize, AuditFails, Send,
        SendFails, Answered, Start, StartFails, Relay, Complete, BreakOff, Goto
    <3> QED  BY <3>1, <3>2
  <2>2. CASE Send(r)
    <3>1. egress' = egress \cup {[req |-> r, body |-> masked[r]]} /\ pc'[r] = "sent"
      BY <2>2 DEF Send, Goto
    <3> QED  BY <2>1, <3>1
  <2>3. CASE ~Send(r)
    <3>1. egress' = egress
      BY <1>1, <2>3 DEF Handle, Arrive, Prepare, PrepareFails, Sanitize, AuditFails, SendFails,
        Answered, Start, StartFails, Relay, Complete, BreakOff
    <3> QED  BY <2>1, <3>1
  <2> QED  BY <2>2, <2>3
<1>2. CASE Crash
  <2>1. \A q \in Requests : pc'[q] = pc[q] \/ pc'[q] = "lost"  BY <1>2 DEF Crash
  <2> QED  BY <1>2, <2>1 DEF Crash
<1>3. CASE UNCHANGED vars  BY <1>3 DEF vars
<1> QED  BY <1>1, <1>2, <1>3 DEF Next

Unrecorded == {"idle", "arrived", "prepared"}
Audited(q) == ByRequest(audit)[q] = Records(q, work[q])

AuditInv ==
  /\ audit \in Seq(Record)
  /\ \A q \in Requests : /\ pc[q] \in Unrecorded => ByRequest(audit)[q] = <<>>
                         /\ pc[q] = "ready" => Audited(q)
  /\ \A e \in egress : Audited(e.req)

\* A step that leaves the file, the work and the egress alone.
LEMMA AuditFrame ==
  ASSUME AuditInv, UNCHANGED <<audit, work, egress>>,
         \A q \in Requests : /\ pc'[q] \in Unrecorded => pc[q] \in Unrecorded
                             /\ pc'[q] = "ready" => pc[q] = "ready"
  PROVE  AuditInv'
BY DEF AuditInv, Audited

LEMMA AuditHandle ==
  ASSUME IInv, SentInv, AuditInv, NEW r \in Requests, Arrive(r) \/ Handle(r)
  PROVE  AuditInv'
<1> USE DEF IInv, Types
<1>1. CASE Arrive(r) \/ Prepare(r)
  <2>1. pc[r] \in Unrecorded /\ pc'[r] \in Unrecorded /\ UNCHANGED <<audit, egress>>
    BY <1>1 DEF Arrive, Prepare, Goto, Unrecorded
  <2>2. \A q \in Requests : q # r => pc'[q] = pc[q] /\ work'[q] = work[q]
    BY <1>1, StepIsOfOne DEF Handle
  <2>3. \A e \in egress : e.req \in Requests /\ e.req # r
    BY <2>1 DEF SentInv, Unsent, Unrecorded
  <2> QED  BY <2>1, <2>2, <2>3 DEF AuditInv, Audited, Unrecorded
<1>2. CASE Sanitize(r)
  <2> DEFINE R == Records(r, work[r])
  <2>1. /\ pc[r] = "prepared" /\ pc' = [pc EXCEPT ![r] = "ready"] /\ audit' = audit \o R
        /\ UNCHANGED <<work, egress>>
    BY <1>2 DEF Sanitize, Goto
  <2>2. R \in Seq(Record) /\ \A i \in 1..Len(R) : R[i].req = r  BY RecordsAreItsOwn
  <2> HIDE DEF R
  <2>3. audit \in Seq(Record) /\ ByRequest(audit) \in Filed  BY FiledByFolding DEF AuditInv
  <2>4. /\ audit' \in Seq(Record)
        /\ ByRequest(audit') = [ByRequest(audit) EXCEPT ![r] = @ \o R]
    <3> HIDE DEF IInv, Types
    <3>1. audit' = audit \o R  BY <2>1
    <3>2. audit \o R \in Seq(Record) /\ ByRequest(audit \o R) = [ByRequest(audit) EXCEPT ![r] = @ \o R]
      BY <2>2, <2>3, FileGrows, SMTT(30)
    <3> QED  BY <3>1, <3>2
  <2>5. ByRequest(audit)[r] = <<>>  BY <2>1 DEF AuditInv, Unrecorded
  <2>6. ByRequest(audit')[r] = R  BY <2>2, <2>3, <2>4, <2>5, ConcatEmptySeq DEF Filed
  <2>7. \A q \in Requests : q # r => ByRequest(audit')[q] = ByRequest(audit)[q] /\ pc'[q] = pc[q]
    BY <2>1, <2>3, <2>4 DEF Filed
  <2>8. \A e \in egress : e.req \in Requests /\ e.req # r  BY <2>1 DEF SentInv, Unsent
  <2>9. Audited(r)'  BY <2>1, <2>6 DEF Audited, R
  <2>10. pc'[r] = "ready"  BY <2>1
  <2> QED  BY <2>1, <2>4, <2>7, <2>8, <2>9, <2>10 DEF AuditInv, Audited, Unrecorded
<1>3. CASE AuditFails(r)
  <2>1. PICK n \in 0..Len(Records(r, work[r])) - 1 :
          audit' = audit \o SubSeq(Records(r, work[r]), 1, n)
    BY <1>3 DEF AuditFails
  <2>2. pc[r] = "prepared" /\ pc' = [pc EXCEPT ![r] = "failed"] /\ UNCHANGED <<work, egress>>
    BY <1>3 DEF AuditFails, Goto
  <2>3. PICK B \in Seq(Record) : audit' = audit \o B /\ \A i \in 1..Len(B) : B[i].req = r
    <3> DEFINE R == Records(r, work[r])
    <3>1. R \in Seq(Record) /\ \A i \in 1..Len(R) : R[i].req = r  BY RecordsAreItsOwn
    <3> HIDE DEF R
    <3>2. Len(R) \in Nat /\ n \in Nat /\ n <= Len(R)  BY <3>1, LenProperties DEF R
    <3>3. \A i \in 1..n : R[i] \in Record  BY <3>1, <3>2, ElementOfSeq
    <3>4. /\ SubSeq(R, 1, n) \in Seq(Record) /\ Len(SubSeq(R, 1, n)) = n
          /\ \A i \in 1..n : SubSeq(R, 1, n)[i] = R[i]
      BY <3>2, <3>3, SubSeqProperties
    <3>5. \A i \in 1..Len(SubSeq(R, 1, n)) : SubSeq(R, 1, n)[i].req = r
      BY <3>1, <3>2, <3>4
    <3>6. audit' = audit \o SubSeq(R, 1, n)  BY <2>1 DEF R
    <3> QED  BY <3>4, <3>5, <3>6
  <2>4. audit \in Seq(Record) /\ ByRequest(audit) \in Filed  BY FiledByFolding DEF AuditInv
  <2>5. B \in Seq(Record) /\ \A i \in 1..Len(B) : B[i].req = r  BY <2>3
  <2>6. /\ audit' \in Seq(Record)
        /\ ByRequest(audit') = [ByRequest(audit) EXCEPT ![r] = @ \o B]
    <3> HIDE DEF IInv, Types
    <3>1. audit' = audit \o B  BY <2>3
    <3>2. audit \o B \in Seq(Record) /\ ByRequest(audit \o B) = [ByRequest(audit) EXCEPT ![r] = @ \o B]
      BY <2>4, <2>5, FileGrows, SMTT(30)
    <3> QED  BY <3>1, <3>2
  <2>7. \A q \in Requests : q # r => ByRequest(audit')[q] = ByRequest(audit)[q] /\ pc'[q] = pc[q]
    BY <2>2, <2>4, <2>6 DEF Filed
  <2>8. \A e \in egress : e.req \in Requests /\ e.req # r  BY <2>2 DEF SentInv, Unsent
  <2>9. pc'[r] = "failed"  BY <2>2
  <2> QED  BY <2>2, <2>6, <2>7, <2>8, <2>9 DEF AuditInv, Audited, Unrecorded
<1>4. CASE Send(r)
  <2>1. /\ pc[r] = "ready" /\ pc' = [pc EXCEPT ![r] = "sent"]
        /\ egress' = egress \cup {[req |-> r, body |-> masked[r]]} /\ UNCHANGED <<audit, work>>
    BY <1>4 DEF Send, Goto
  <2>2. Audited(r)  BY <2>1 DEF AuditInv
  <2> QED  BY <2>1, <2>2 DEF AuditInv, Audited, Unrecorded
<1>5. CASE \/ PrepareFails(r) \/ SendFails(r) \/ Answered(r) \/ Start(r) \/ StartFails(r) \/ Relay(r)
           \/ Complete(r) \/ BreakOff(r)
  <2>1. UNCHANGED <<audit, work, egress>>
    BY <1>5 DEF PrepareFails, SendFails, Answered, Start, StartFails, Relay, Complete, BreakOff
  <2>2. \/ UNCHANGED pc
        \/ \E to \in Places \ (Unrecorded \cup {"ready"}) : pc' = [pc EXCEPT ![r] = to]
    BY <1>5 DEF PrepareFails, SendFails, Answered, Start, StartFails, Relay, Complete, BreakOff,
      Goto, Places, Unrecorded
  <2> QED  BY <2>1, <2>2, AuditFrame
<1> QED  BY <1>1, <1>2, <1>3, <1>4, <1>5 DEF Handle

LEMMA AuditStep == ASSUME IInv, SentInv, AuditInv, [Next]_vars PROVE AuditInv'
<1>1. CASE Crash
  <2>1. \A q \in Requests : pc'[q] = pc[q] \/ pc'[q] = "lost"  BY <1>1 DEF Crash
  <2> QED  BY <1>1, <2>1, AuditFrame DEF Crash, Unrecorded
<1>2. CASE UNCHANGED vars  BY <1>2, AuditFrame DEF vars
<1> QED  BY <1>1, <1>2, AuditHandle DEF Next

LEMMA AuditInit == Init => AuditInv
<1> SUFFICES ASSUME Init PROVE AuditInv  OBVIOUS
<1>1. <<>> \in Seq(Record)  OBVIOUS
<1>2. Filing!Fold(Nothing, <<>>) = Nothing  BY Filing!FoldOfNothing
<1>3. ByRequest(<<>>) = Nothing  BY <1>1, <1>2, FiledByFolding
<1> QED  BY <1>1, <1>3 DEF Init, AuditInv, Unrecorded, Nothing

-----------------------------------------------------------------------------
(* The echo.                                                               *)

Settled == {"ready", "sent", "answered", "streaming", "done"}

EchoInv ==
  \A q \in Requests :
    /\ pc[q] \in Settled => masked[q] = Mask(work[q]) /\ vault[q] = VaultOf(work[q])
    /\ pc[q] = "done" => delivered[q] = Shown(q, answer[q])

LEMMA EchoHandle ==
  ASSUME IInv, EchoInv, NEW r \in Requests, Arrive(r) \/ Handle(r)
  PROVE  EchoInv'
<1> USE DEF IInv, Types
<1>1. ASSUME NEW q \in Requests, q # r
      PROVE  /\ pc'[q] \in Settled => masked'[q] = Mask(work'[q]) /\ vault'[q] = VaultOf(work'[q])
             /\ pc'[q] = "done" => delivered'[q] = Shown(q, answer[q])' 
  <2>1. /\ pc'[q] = pc[q] /\ work'[q] = work[q] /\ masked'[q] = masked[q]
        /\ vault'[q] = vault[q] /\ answer'[q] = answer[q] /\ delivered'[q] = delivered[q]
    BY <1>1, StepIsOfOne
  <2> QED  BY <1>1, <2>1 DEF EchoInv, Shown
<1>2. /\ pc'[r] \in Settled => masked'[r] = Mask(work'[r]) /\ vault'[r] = VaultOf(work'[r])
      /\ pc'[r] = "done" => delivered'[r] = Shown(r, answer[r])' 
  <2>1. CASE Sanitize(r)
    <3>1. pc'[r] = "ready"  BY <2>1 DEF Sanitize, Goto
    <3>2. masked'[r] = Mask(work[r]) /\ vault'[r] = VaultOf(work[r]) /\ work'[r] = work[r]
      BY <2>1 DEF Sanitize
    <3> QED  BY <3>1, <3>2
  <2>2. CASE Complete(r)
    <3>1. /\ pc[r] = "streaming" /\ delivered'[r] = Shown(r, answer[r])
          /\ UNCHANGED <<masked, vault, work, answer>>
      BY <2>2 DEF Complete, Goto
    <3> QED  BY <3>1 DEF EchoInv, Settled, Shown
  <2>3. CASE Send(r) \/ Answered(r) \/ Start(r) \/ Relay(r)
    <3>1. /\ pc[r] \in Settled /\ pc'[r] # "done" /\ UNCHANGED <<masked, vault, work>>
      BY <2>3 DEF Send, Answered, Start, Relay, Goto, Settled
    <3> QED  BY <3>1 DEF EchoInv
  <2>4. CASE \/ Arrive(r) \/ Prepare(r) \/ PrepareFails(r) \/ AuditFails(r) \/ SendFails(r)
             \/ StartFails(r) \/ BreakOff(r)
    <3>1. pc'[r] \notin Settled
      BY <2>4 DEF Arrive, Prepare, PrepareFails, AuditFails, SendFails, StartFails, BreakOff, Goto,
        Settled
    <3> QED  BY <3>1 DEF Settled
  <2> QED  BY <2>1, <2>2, <2>3, <2>4 DEF Handle
<1> QED  BY <1>1, <1>2 DEF EchoInv

LEMMA EchoStep == ASSUME IInv, EchoInv, [Next]_vars PROVE EchoInv'
<1>1. CASE Crash
  <2>1. \A q \in Requests : pc'[q] = pc[q] \/ pc'[q] = "lost"  BY <1>1 DEF Crash
  <2> QED  BY <1>1, <2>1 DEF Crash, EchoInv, Settled, Shown
<1>2. CASE UNCHANGED vars  BY <1>2 DEF vars, EchoInv, Shown
<1> QED  BY <1>1, <1>2, EchoHandle DEF Next

\* Values of one body that a placeholder is given for are given different ones:
\* the one met later is numbered with the one met before it counted.
LEMMA NumbersDiffer ==
  ASSUME NEW b \in Seq(Text), NEW v \in Range(b) \cap Reversible,
         NEW w \in Range(b) \cap Reversible, v # w
  PROVE  Number(b, v) # Number(b, w)
<1> DEFINE Met(x) == {j \in 1..Len(b) : b[j] = x}
           Until(x) == {k \in 1..Len(b) : b[k] \in Reversible /\ \A l \in 1..k - 1 : b[l] # x}
           Counted(x) == {b[j] : j \in Until(x)}
<1>1. Len(b) \in Nat /\ DOMAIN b = 1..Len(b)  BY LenProperties
<1>2. ASSUME NEW x \in Range(b)
      PROVE  \E p \in 1..Len(b) : b[p] = x /\ \A l \in 1..p - 1 : b[l] # x
  <2>1. Met(x) \in SUBSET Nat /\ Met(x) # {}  BY <1>1, <1>2 DEF Range
  <2>2. PICK p \in Met(x) : \A k \in Met(x) : p <= k
    <3> HIDE DEF Met
    <3> QED  BY <2>1, Filing!LeastNatural
  <2>3. ASSUME NEW l \in 1..p - 1 PROVE b[l] # x
    <3>1. l \in 1..Len(b) /\ ~(p <= l)  BY <1>1
    <3> QED  BY <2>2, <3>1
  <2> QED  BY <2>3
<1>3. ASSUME NEW x \in Range(b) \cap Reversible, NEW y \in Range(b) \cap Reversible,
             NEW p \in 1..Len(b), b[p] = x, \A l \in 1..p - 1 : b[l] # x,
             NEW q \in 1..Len(b), b[q] = y, \A l \in 1..q - 1 : b[l] # y, p < q
      PROVE  Number(b, x) < Number(b, y)
  <2>1. Counted(x) \subseteq Counted(y)
    <3>1. ASSUME NEW k \in Until(x) PROVE k \in Until(y)
      <4>1. k <= p  BY <1>1, <1>3
      <4>2. \A l \in 1..k - 1 : l \in 1..q - 1  BY <1>1, <1>3, <4>1
      <4> QED  BY <1>3, <4>2
    <3> QED  BY <3>1
  <2>2. y \in Counted(y)
    <3>1. q \in Until(y)  BY <1>3
    <3> QED  BY <1>3, <3>1
  <2>3. y \notin Counted(x)
    <3>1. ASSUME NEW k \in Until(x), b[k] = y PROVE FALSE
      <4>1. k <= p  BY <1>1, <1>3
      <4>2. k \in 1..q - 1  BY <1>1, <1>3, <4>1
      <4> QED  BY <1>3, <3>1, <4>2
    <3> QED  BY <3>1
  <2>4. IsFiniteSet(Counted(y))
    <3> DEFINE f == [j \in Until(y) |-> b[j]]
               C == Counted(y)
               U == Until(y)
    <3>1. f \in Surjection(U, C)  BY DEF Surjection
    <3>2. IsFiniteSet(1..Len(b)) /\ U \subseteq 1..Len(b)  BY <1>1, FS_Interval
    <3>3. IsFiniteSet(U)
      <4> HIDE DEF U
      <4> QED  BY <3>2, FS_Subset
    <3> HIDE DEF f, U, C
    <3>4. IsFiniteSet(C)  BY <3>1, <3>3, FS_Surjection
    <3> QED  BY <3>4 DEF C
  <2>5. Number(b, x) = Cardinality(Counted(x)) /\ Number(b, y) = Cardinality(Counted(y))
    BY DEF Number
  <2> HIDE DEF Counted
  <2>6. IsFiniteSet(Counted(x)) /\ Cardinality(Counted(x)) <= Cardinality(Counted(y))
        /\ (Cardinality(Counted(x)) = Cardinality(Counted(y)) => Counted(x) = Counted(y))
    BY <2>1, <2>4, FS_Subset
  <2>7. Cardinality(Counted(x)) \in Nat /\ Cardinality(Counted(y)) \in Nat
    BY <2>4, <2>6, FS_CardinalityType
  <2> QED  BY <2>2, <2>3, <2>5, <2>6, <2>7
<1>4. PICK p \in 1..Len(b) : b[p] = v /\ \A l \in 1..p - 1 : b[l] # v  BY <1>2
<1>5. PICK q \in 1..Len(b) : b[q] = w /\ \A l \in 1..q - 1 : b[l] # w  BY <1>2
<1>6. p < q \/ q < p  BY <1>1, <1>4, <1>5
<1>7. Number(b, v) \in Nat /\ Number(b, w) \in Nat  BY NumberIsNat
<1>8. CASE p < q
  <2>1. Number(b, v) < Number(b, w)  BY <1>3, <1>4, <1>5, <1>8
  <2> QED  BY <1>7, <2>1
<1>9. CASE q < p
  <2>1. Number(b, w) < Number(b, v)  BY <1>3, <1>4, <1>5, <1>9
  <2> QED  BY <1>7, <2>1
<1> QED  BY <1>6, <1>8, <1>9

\* So the vault has each of them back for its placeholder.
LEMMA VaultHasIt ==
  ASSUME NEW b \in Seq(Text), NEW v \in Range(b) \cap Reversible
  PROVE  Token(b, v) \in DOMAIN VaultOf(b) /\ VaultOf(b)[Token(b, v)] = v
<1> DEFINE kept == Range(b) \cap Reversible
           t == Token(b, v)
<1>1. t \in {Token(b, x) : x \in kept}  OBVIOUS
<1>2. VaultOf(b)[t] = CHOOSE x \in kept : Token(b, x) = t  BY <1>1 DEF VaultOf
<1>3. \A x \in kept : Token(b, x) = t => x = v  BY NumbersDiffer DEF Token
<1>4. (CHOOSE x \in kept : Token(b, x) = t) = v  BY <1>3
<1> QED  BY <1>1, <1>2, <1>4 DEF VaultOf

LEMMA EchoOfMasked ==
  ASSUME NEW b \in Seq(Text), Range(b) \cap DOMAIN VaultOf(b) = {}
  PROVE  Restore(VaultOf(b), Mask(b)) =
           [i \in 1..Len(b) |-> IF b[i] \in Protected \ Reversible THEN Mark(b[i]) ELSE b[i]]
<1> DEFINE v == VaultOf(b)
<1>1. Len(b) \in Nat /\ DOMAIN b = 1..Len(b)  BY LenProperties
<1>2. Len(Mask(b)) = Len(b)  BY <1>1 DEF Mask
<1>3. ASSUME NEW i \in 1..Len(b)
      PROVE  (IF Mask(b)[i] \in DOMAIN v THEN v[Mask(b)[i]] ELSE Mask(b)[i]) =
             IF b[i] \in Protected \ Reversible THEN Mark(b[i]) ELSE b[i]
  <2>1. b[i] \in Range(b) /\ b[i] \in Text  BY <1>1, ElementOfSeq DEF Range
  <2>2. CASE b[i] \in Reversible
    <3>1. Mask(b)[i] = Token(b, b[i])  BY <2>2 DEF Mask
    <3> QED  BY <2>1, <2>2, <3>1, VaultHasIt
  <2>3. CASE b[i] \in Protected \ Reversible
    <3>1. Mask(b)[i] = Mark(b[i])  BY <2>3 DEF Mask
    <3>2. \A x : x \in DOMAIN v => x[1] = "EXODUS"  BY DEF VaultOf, Token
    <3>3. Mark(b[i])[1] = "EXODUS-BLOCKED"  BY DEF Mark
    <3>4. Mark(b[i]) \notin DOMAIN v
      <4> HIDE DEF v
      <4> QED  BY <3>2, <3>3
    <3> QED  BY <2>3, <3>1, <3>4
  <2>4. CASE b[i] \notin Reversible /\ b[i] \notin Protected
    <3>1. Mask(b)[i] = b[i]  BY <2>4 DEF Mask
    <3> QED  BY <2>1, <2>4, <3>1
  <2> QED  BY <2>2, <2>3, <2>4
<1> QED  BY <1>2, <1>3 DEF Restore

-----------------------------------------------------------------------------
(* A client is sent protected values of its own body only, and those that  *)
(* an upstream was sent because they stood where the firewall does not     *)
(* look, whatever the upstream writes and whatever the other requests are. *)
THEOREM RequestsAreIsolated == Spec => []Isolation
<1>1. IInv => Isolation  BY DEF IInv, Holds, Isolation
<1> QED  BY <1>1, InvHolds, PTL

(* With EXODUS_NO_RESTORE no client is sent a protected value that an      *)
(* upstream was not.                                                       *)
THEOREM ProofModeRestoresNothing == Spec => []NothingRestored
<1>1. IInv => NothingRestored  BY DEF IInv, Holds, NothingRestored
<1> QED  BY <1>1, InvHolds, PTL

(* With EXODUS_INSPECT, what the log holds of an exchange is what was      *)
(* received, what went upstream and all that the client was sent.          *)
THEOREM InspectionTellsTheTruth == Spec => []InspectionIsTrue
<1>1. Init => LogInv  BY DEF Init, LogInv, InspectionIsTrue
<1>2. LogInv => InspectionIsTrue  BY DEF LogInv
<1> QED  BY <1>1, <1>2, InvHolds, LogStep, PTL DEF Spec

(* No body leaves before what was done to it is in the audit file.         *)
THEOREM NothingLeavesUnaudited == Spec => []AuditedBeforeEgress
<1>1. Init => SentInv  BY DEF Init, SentInv
<1>2. AuditInv => AuditedBeforeEgress  BY DEF AuditInv, Audited, AuditedBeforeEgress
<1> QED  BY <1>1, <1>2, InvHolds, SentStep, AuditInit, AuditStep, PTL DEF Spec

(* INV-3 of the proxy.                                                     *)
THEOREM EchoesComeBack == Spec => []EchoRoundTrips
<1>1. Init => EchoInv  BY DEF Init, EchoInv, Settled
<1>2. IInv /\ EchoInv => EchoRoundTrips
  <2> SUFFICES ASSUME IInv, EchoInv, NEW r \in Requests, pc[r] = "done", answer[r] = masked[r],
                      ~NoRestore, Range(work[r]) \cap DOMAIN vault[r] = {}
               PROVE  delivered[r] = [i \in 1..Len(work[r]) |->
                        IF work[r][i] \in Protected \ Reversible THEN Mark(work[r][i]) ELSE work[r][i]]
    BY DEF EchoRoundTrips
  <2>1. delivered[r] = Restore(VaultOf(work[r]), Mask(work[r])) /\ vault[r] = VaultOf(work[r])
    BY DEF EchoInv, Settled, Shown
  <2>2. work[r] \in Seq(Text)  BY DEF IInv, Types
  <2> QED  BY <2>1, <2>2, EchoOfMasked
<1> QED  BY <1>1, <1>2, InvHolds, EchoStep, PTL DEF Spec

-----------------------------------------------------------------------------
(* The proxy implements PrivacyGateway, for any number of requests.        *)
(*                                                                         *)
(* The argument, on top of the provenance: what a client was sent is a     *)
(* beginning of what the answer so far is shown as, and showing more of an *)
(* answer never changes what was shown of it (ShowingGrows), so each step  *)
(* only adds; and a request is in egress only once it was sent (SentInv),  *)
(* so it goes out once.  The connections are counted along.                *)

Unanswered == Unsent \cup {"sent", "answered"}
Beginning(s, t) == Len(s) <= Len(t) /\ \A i \in 1..Len(s) : s[i] = t[i]

Follows(q) ==
  /\ pc[q] \in Unanswered => answer[q] = <<>> /\ delivered[q] = <<>>
  /\ Len(answer[q]) <= MaxAnswer
  /\ pc[q] = "streaming" => Beginning(delivered[q], Shown(q, answer[q]))
  /\ Len(delivered[q]) <= Len(answer[q])
  /\ Range(vault[q]) \subseteq Reversible

PoolInv ==
  /\ held \subseteq Requests /\ IsFiniteSet(held) /\ Cardinality(held) <= PoolSize
  /\ \A q \in held : pc[q] \in {"sent", "answered", "streaming", "failed"}

GInv ==
  /\ SentInv /\ PoolInv
  /\ \A q \in Requests : Follows(q)
  /\ crashes \in 0..MaxCrashes

LEMMA InitGateway == Init => GInv
<1> SUFFICES ASSUME Init PROVE GInv  OBVIOUS
<1>1. SentInv  BY DEF Init, SentInv
<1>2. PoolInv  BY FS_EmptySet, BoundsAreNumbers DEF Init, PoolInv
<1>3. ASSUME NEW q \in Requests PROVE Follows(q)
  <2>1. answer[q] = <<>> /\ delivered[q] = <<>> /\ pc[q] = "idle"  BY DEF Init
  <2>2. Range(vault[q]) = {}  BY DEF Init, Range
  <2> QED  BY <2>1, <2>2, BoundsAreNumbers DEF Follows
<1> QED  BY <1>1, <1>2, <1>3, BoundsAreNumbers DEF GInv, Init

-----------------------------------------------------------------------------
(* What is shown of an answer.                                             *)

LEMMA ShownItems ==
  ASSUME NEW r, NEW s \in Seq(Item)
  PROVE  /\ Len(Shown(r, s)) = Len(s)
         /\ \A i \in 1..Len(s) :
              Shown(r, s)[i] = IF ~NoRestore /\ s[i] \in DOMAIN vault[r] THEN vault[r][s[i]] ELSE s[i]
<1>1. Len(s) \in Nat  BY LenProperties
<1>2. CASE NoRestore  BY <1>2 DEF Shown
<1>3. CASE ~NoRestore  BY <1>1, <1>3 DEF Shown, Restore
<1> QED  BY <1>2, <1>3

LEMMA ShowingGrows ==
  ASSUME NEW r, NEW s \in Seq(Item), NEW item \in Item
  PROVE  Beginning(Shown(r, s), Shown(r, Append(s, item)))
<1> DEFINE t == Append(s, item)
<1>1. /\ t \in Seq(Item) /\ Len(t) = Len(s) + 1 /\ Len(s) \in Nat
      /\ \A i \in 1..Len(s) : t[i] = s[i]
  BY AppendProperties, LenProperties
<1> HIDE DEF t
<1>2. Len(Shown(r, t)) = Len(t) /\ Len(Shown(r, s)) = Len(s)  BY <1>1, ShownItems
<1>3. ASSUME NEW i \in 1..Len(s) PROVE Shown(r, s)[i] = Shown(r, t)[i]
  <2>1. i \in 1..Len(t) /\ t[i] = s[i]  BY <1>1
  <2>2. Shown(r, t)[i] = IF ~NoRestore /\ t[i] \in DOMAIN vault[r] THEN vault[r][t[i]] ELSE t[i]
    BY <1>1, <2>1, ShownItems
  <2>3. Shown(r, s)[i] = IF ~NoRestore /\ s[i] \in DOMAIN vault[r] THEN vault[r][s[i]] ELSE s[i]
    BY ShownItems
  <2> QED  BY <2>1, <2>2, <2>3
<1>4. Beginning(Shown(r, s), Shown(r, t))  BY <1>1, <1>2, <1>3 DEF Beginning
<1> QED  BY <1>4 DEF t

LEMMA ShownIsText ==
  ASSUME Types, NEW r \in Requests, NEW s \in Seq(Item)
  PROVE  Shown(r, s) \in Seq(Item)
<1>1. Len(s) \in Nat /\ s = [i \in 1..Len(s) |-> s[i]]  BY LenProperties
<1>2. PICK T \in SUBSET Placeholders : vault[r] \in [T -> Values]  BY DEF Types, Vaults
<1>3. ASSUME NEW i \in 1..Len(s) PROVE Shown(r, s)[i] \in Item
  <2>1. s[i] \in Item  BY ElementOfSeq
  <2>2. Shown(r, s)[i] = IF ~NoRestore /\ s[i] \in DOMAIN vault[r] THEN vault[r][s[i]] ELSE s[i]
    BY ShownItems
  <2>3. s[i] \in DOMAIN vault[r] => vault[r][s[i]] \in Values  BY <1>2
  <2> QED  BY <2>1, <2>2, <2>3 DEF Item, Text
<1>4. Shown(r, s) = [i \in 1..Len(s) |-> Shown(r, s)[i]]  BY <1>1 DEF Shown, Restore
<1>5. [i \in 1..Len(s) |-> Shown(r, s)[i]] \in Seq(Item)  BY <1>1, <1>3, IsASeq
<1> QED  BY <1>4, <1>5

LEMMA BeginningIsTransitive ==
  ASSUME NEW a, NEW b, NEW c, Len(a) \in Nat, Len(b) \in Nat, Len(c) \in Nat,
         Beginning(a, b), Beginning(b, c)
  PROVE  Beginning(a, c)
<1>1. 1..Len(a) \subseteq 1..Len(b) /\ Len(a) <= Len(c)  BY DEF Beginning
<1> QED  BY <1>1 DEF Beginning

LEMMA CutIsBeginning ==
  ASSUME NEW s \in Seq(Item), NEW n \in 0..Len(s)
  PROVE  /\ Beginning(SubSeq(s, 1, n), s) /\ Len(SubSeq(s, 1, n)) = n
         /\ \A d : Beginning(d, s) /\ Len(d) \in 0..n => Beginning(d, SubSeq(s, 1, n))
<1>1. Len(s) \in Nat  BY LenProperties
<1>2. Len(SubSeq(s, 1, n)) = n /\ \A i \in 1..n : SubSeq(s, 1, n)[i] = s[i]
  BY <1>1, SubSeqProperties
<1> QED  BY <1>1, <1>2 DEF Beginning

LEMMA BeginningIsPrefix ==
  ASSUME NEW s \in Seq(Item), NEW t \in Seq(Item), Beginning(s, t)
  PROVE  Gateway!IsPrefix(s, t)
<1>1. Len(s) \in Nat /\ Len(t) \in Nat /\ Len(s) <= Len(t)  BY LenProperties DEF Beginning
<1>2. /\ Len(SubSeq(s, 1, Len(s))) = Len(s) /\ \A i \in 1..Len(s) : SubSeq(s, 1, Len(s))[i] = s[i]
      /\ SubSeq(s, 1, Len(s)) \in Seq(Item)
  BY <1>1, SubSeqProperties
<1>3. /\ Len(SubSeq(t, 1, Len(s))) = Len(s) /\ \A i \in 1..Len(s) : SubSeq(t, 1, Len(s))[i] = t[i]
      /\ SubSeq(t, 1, Len(s)) \in Seq(Item)
  BY <1>1, SubSeqProperties
<1>4. SubSeq(s, 1, Len(s)) = SubSeq(t, 1, Len(s))  BY <1>2, <1>3, SeqEqual DEF Beginning
<1> QED  BY <1>1, <1>4 DEF Gateway!IsPrefix

\* A chunk adds to what the client was sent, and so does the end of the answer.
LEMMA RelayAdds ==
  ASSUME IInv, NEW r \in Requests, Follows(r), Relay(r)
  PROVE  \E s \in Seq(Item), d \in Seq(Item) :
           /\ answer' = [answer EXCEPT ![r] = s] /\ delivered' = [delivered EXCEPT ![r] = d]
           /\ Len(s) <= MaxAnswer /\ Len(d) <= Len(s)
           /\ Beginning(d, Shown(r, s)) /\ Beginning(delivered[r], d)
<1> USE DEF IInv, Types
<1>1. PICK item \in Utterable :
        LET s == Append(answer[r], item) IN
          /\ answer' = [answer EXCEPT ![r] = s]
          /\ \E n \in IF NoRestore THEN {Len(s)} ELSE Len(delivered[r])..Len(s) :
               delivered' = [delivered EXCEPT ![r] = SubSeq(Shown(r, s), 1, n)]
  BY DEF Relay
<1> DEFINE s == Append(answer[r], item)
<1>2. item \in Item  BY UtterableIsSent
<1>3. /\ answer[r] \in Seq(Item) /\ Len(answer[r]) \in Nat
      /\ s \in Seq(Item) /\ Len(s) = Len(answer[r]) + 1 /\ Len(s) \in Nat
      /\ delivered[r] \in Seq(Item) /\ Len(delivered[r]) \in Nat
  BY <1>2, AppendProperties, LenProperties
<1>4. Len(answer[r]) < MaxAnswer /\ Len(delivered[r]) <= Len(answer[r])  BY DEF Relay, Follows
<1>5. Beginning(Shown(r, answer[r]), Shown(r, s))  BY <1>2, <1>3, ShowingGrows
<1> HIDE DEF s
<1>6. PICK n \in IF NoRestore THEN {Len(s)} ELSE Len(delivered[r])..Len(s) :
        delivered' = [delivered EXCEPT ![r] = SubSeq(Shown(r, s), 1, n)]
  BY <1>1 DEF s
<1>7. n \in Len(delivered[r])..Len(s)  BY <1>3, <1>4, <1>6
<1> DEFINE d == SubSeq(Shown(r, s), 1, n)
<1>8. Shown(r, s) \in Seq(Item) /\ Len(Shown(r, s)) = Len(s) /\ Len(Shown(r, answer[r])) = Len(answer[r])
  BY <1>3, ShownItems, ShownIsText
<1>9. /\ Beginning(d, Shown(r, s)) /\ Len(d) = n
      /\ \A e : Beginning(e, Shown(r, s)) /\ Len(e) \in 0..n => Beginning(e, d)
  BY <1>3, <1>7, <1>8, CutIsBeginning
<1>10. d \in Seq(Item)  BY <1>3, <1>7, <1>8, PrefixRange
<1> HIDE DEF d
<1>11. Beginning(delivered[r], d)
  <2>1. Beginning(delivered[r], Shown(r, answer[r]))  BY DEF Follows, Relay
  <2>2. Beginning(delivered[r], Shown(r, s))
    BY <1>3, <1>5, <1>8, <2>1, BeginningIsTransitive
  <2> QED  BY <1>3, <1>7, <1>9, <2>2
<1>12. answer' = [answer EXCEPT ![r] = s] /\ delivered' = [delivered EXCEPT ![r] = d]
  BY <1>1, <1>6 DEF s, d
<1>13. Len(s) <= MaxAnswer /\ Len(d) <= Len(s)  BY <1>3, <1>4, <1>7, <1>9, BoundsAreNumbers
<1> QED  BY <1>3, <1>9, <1>10, <1>11, <1>12, <1>13

LEMMA CompleteAdds ==
  ASSUME IInv, NEW r \in Requests, Follows(r), Complete(r)
  PROVE  /\ delivered' = [delivered EXCEPT ![r] = Shown(r, answer[r])]
         /\ Shown(r, answer[r]) \in Seq(Item) /\ Len(Shown(r, answer[r])) = Len(answer[r])
         /\ Beginning(delivered[r], Shown(r, answer[r]))
<1> USE DEF IInv, Types
<1>1. answer[r] \in Seq(Item) /\ pc[r] = "streaming"  BY DEF Complete, Goto
<1>2. delivered' = [delivered EXCEPT ![r] = Shown(r, answer[r])]  BY DEF Complete
<1> QED  BY <1>1, <1>2, ShownItems, ShownIsText DEF Follows

-----------------------------------------------------------------------------
(* The invariant is kept.                                                  *)

\* A step that leaves a request's answer alone, but may move the request on.
LEMMA StillFollows ==
  ASSUME NEW q \in Requests, Follows(q),
         answer'[q] = answer[q], delivered'[q] = delivered[q], vault'[q] = vault[q],
         pc'[q] \in Unanswered => pc[q] \in Unanswered,
         pc'[q] = "streaming" => pc[q] \in {"answered", "streaming"}
  PROVE  Follows(q)'
<1>1. Shown(q, answer[q])' = Shown(q, answer[q])  BY DEF Shown
<1>2. ASSUME pc[q] = "answered" PROVE Beginning(delivered[q], Shown(q, answer[q]))
  <2>1. answer[q] = <<>> /\ delivered[q] = <<>>  BY <1>2 DEF Follows, Unanswered
  <2>2. <<>> \in Seq(Item) /\ Len(<<>>) = 0  OBVIOUS
  <2>3. Len(Shown(q, <<>>)) = 0  BY <2>2, ShownItems
  <2> QED  BY <2>1, <2>2, <2>3 DEF Beginning
<1>3. ASSUME pc'[q] = "streaming" PROVE Beginning(delivered'[q], Shown(q, answer[q])')
  BY <1>1, <1>2, <1>3 DEF Follows, Beginning
<1> QED  BY <1>3 DEF Follows, Beginning

LEMMA RelayFollows == ASSUME IInv, NEW r \in Requests, Follows(r), Relay(r) PROVE Follows(r)'
<1> USE DEF IInv, Types
<1>1. PICK s \in Seq(Item), d \in Seq(Item) :
        /\ answer' = [answer EXCEPT ![r] = s] /\ delivered' = [delivered EXCEPT ![r] = d]
        /\ Len(s) <= MaxAnswer /\ Len(d) <= Len(s) /\ Beginning(d, Shown(r, s))
  BY RelayAdds
<1>2. answer'[r] = s /\ delivered'[r] = d  BY <1>1
<1>3. pc'[r] = "streaming" /\ vault'[r] = vault[r]  BY DEF Relay
<1>4. Shown(r, answer[r])' = Shown(r, s)  BY <1>2, <1>3 DEF Shown
<1> QED  BY <1>1, <1>2, <1>3, <1>4 DEF Follows, Beginning, Unanswered, Unsent

LEMMA CompleteFollows == ASSUME IInv, NEW r \in Requests, Follows(r), Complete(r) PROVE Follows(r)'
<1> USE DEF IInv, Types
<1>1. pc'[r] = "done" /\ UNCHANGED <<vault, answer>>  BY DEF Complete, Goto
<1>2. delivered'[r] = Shown(r, answer[r]) /\ Len(Shown(r, answer[r])) = Len(answer[r])
  BY CompleteAdds
<1>3. Len(answer[r]) \in Nat  BY LenProperties
<1> QED  BY <1>1, <1>2, <1>3 DEF Follows, Unanswered, Unsent

LEMMA SanitizeFollows == ASSUME IInv, NEW r \in Requests, Follows(r), Sanitize(r) PROVE Follows(r)'
<1> USE DEF IInv, Types
<1>1. pc[r] = "prepared" /\ pc'[r] = "ready" /\ UNCHANGED <<answer, delivered>>
  BY DEF Sanitize, Goto
<1>2. vault'[r] = VaultOf(work[r])  BY DEF Sanitize
<1>3. ASSUME NEW t \in DOMAIN VaultOf(work[r]) PROVE VaultOf(work[r])[t] \in Reversible
  <2>1. PICK v \in Range(work[r]) \cap Reversible : Token(work[r], v) = t  BY DEF VaultOf
  <2> QED  BY <2>1 DEF VaultOf
<1>4. Range(vault'[r]) \subseteq Reversible  BY <1>2, <1>3 DEF Range
<1> QED  BY <1>1, <1>4 DEF Follows, Unanswered, Unsent

LEMMA EachFollows ==
  ASSUME IInv, \A q \in Requests : Follows(q), [Next]_vars, NEW q \in Requests
  PROVE  Follows(q)'
<1> USE DEF IInv, Types, Unanswered, Unsent
<1>1. ASSUME NEW r \in Requests, Arrive(r) \/ Handle(r) PROVE Follows(q)'
  <2>1. CASE q = r
    <3>1. CASE Relay(r)  BY <2>1, <3>1, RelayFollows
    <3>2. CASE Complete(r)  BY <2>1, <3>2, CompleteFollows
    <3>3. CASE Sanitize(r)  BY <2>1, <3>3, SanitizeFollows
    <3>4. CASE Arrive(r) \/ Prepare(r) \/ PrepareFails(r) \/ AuditFails(r)
      BY <2>1, <3>4, StillFollows DEF Arrive, Prepare, PrepareFails, AuditFails, Goto
    <3>5. CASE Send(r) \/ SendFails(r) \/ Answered(r) \/ Start(r) \/ StartFails(r) \/ BreakOff(r)
      BY <2>1, <3>5, StillFollows DEF Send, SendFails, Answered, Start, StartFails, BreakOff, Goto
    <3> QED  BY <1>1, <3>1, <3>2, <3>3, <3>4, <3>5 DEF Handle
  <2>2. CASE q # r
    <3>1. pc'[q] = pc[q] /\ delivered'[q] = delivered[q]  BY <1>1, <2>2, StepIsOfOne
    <3>2. answer'[q] = answer[q]
      <4>1. CASE Relay(r)
        <5>1. PICK s : answer' = [answer EXCEPT ![r] = s]  BY <4>1 DEF Relay
        <5> QED  BY <2>2, <5>1
      <4>2. CASE ~Relay(r)
        BY <1>1, <4>2 DEF Handle, Arrive, Prepare, PrepareFails, Sanitize, AuditFails, Send, SendFails,
          Answered, Start, StartFails, Complete, BreakOff
      <4> QED  BY <4>1, <4>2
    <3>3. vault'[q] = vault[q]
      BY <1>1, <2>2 DEF Handle, Arrive, Prepare, PrepareFails, Sanitize, AuditFails, Send, SendFails,
        Answered, Start, StartFails, Relay, Complete, BreakOff
    <3> QED  BY <3>1, <3>2, <3>3, StillFollows
  <2> QED  BY <2>1, <2>2
<1>2. CASE Crash
  <2>1. UNCHANGED <<answer, delivered, vault>> /\ (pc'[q] = pc[q] \/ pc'[q] = "lost")
    BY <1>2 DEF Crash
  <2> QED  BY <2>1, StillFollows
<1>3. CASE UNCHANGED vars  BY <1>3, StillFollows DEF vars
<1> QED  BY <1>1, <1>2, <1>3 DEF Next

\* The connections: one is taken while some are left, and by a request that
\* goes on to hold it until it ends.
LEMMA PoolStep == ASSUME Types, PoolInv, [Next]_vars PROVE PoolInv'
<1> USE DEF Types, PoolInv
<1>1. ASSUME NEW r \in Requests, Send(r) PROVE PoolInv'
  <2>1. held' = held \cup {r} /\ Cardinality(held) < PoolSize /\ pc' = [pc EXCEPT ![r] = "sent"]
    BY <1>1 DEF Send, Goto
  <2>2. /\ IsFiniteSet(held') /\ Cardinality(held) \in Nat
        /\ Cardinality(held') = IF r \in held THEN Cardinality(held) ELSE Cardinality(held) + 1
    BY <2>1, FS_AddElement, FS_CardinalityType
  <2> QED  BY <2>1, <2>2, BoundsAreNumbers
<1>2. ASSUME NEW r \in Requests, held' = held \ {r}, NEW to, pc' = [pc EXCEPT ![r] = to]
      PROVE  PoolInv'
  <2>1. /\ IsFiniteSet(held') /\ Cardinality(held') \in Nat /\ Cardinality(held') <= Cardinality(held)
    BY <1>2, FS_Subset, FS_CardinalityType
  <2>2. Cardinality(held) \in Nat  BY FS_CardinalityType
  <2> QED  BY <1>2, <2>1, <2>2, BoundsAreNumbers
<1>3. ASSUME NEW r \in Requests, UNCHANGED held, NEW to, pc' = [pc EXCEPT ![r] = to],
             r \notin held \/ to \in {"sent", "answered", "streaming", "failed"}
      PROVE  PoolInv'
  BY <1>3
<1>4. ASSUME NEW r \in Requests, Arrive(r) \/ Handle(r) PROVE PoolInv'
  <2>1. CASE Arrive(r) \/ Prepare(r) \/ PrepareFails(r) \/ Sanitize(r) \/ AuditFails(r)
    BY <1>3, <2>1 DEF Arrive, Prepare, PrepareFails, Sanitize, AuditFails, Goto
  <2>2. CASE Send(r)  BY <1>1, <2>2
  <2>3. CASE SendFails(r)  BY <1>2, <1>3, <2>3 DEF SendFails, Goto
  <2>4. CASE Answered(r) \/ Start(r) \/ StartFails(r)
    BY <1>3, <2>4 DEF Answered, Start, StartFails, Goto
  <2>5. CASE Complete(r) \/ BreakOff(r)  BY <1>2, <2>5 DEF Complete, BreakOff, Goto
  <2>6. CASE Relay(r)  BY <2>6 DEF Relay
  <2> QED  BY <1>4, <2>1, <2>2, <2>3, <2>4, <2>5, <2>6 DEF Handle
<1>5. CASE Crash
  <2>1. held' = {}  BY <1>5 DEF Crash
  <2> QED  BY <2>1, FS_EmptySet, BoundsAreNumbers
<1>6. CASE UNCHANGED vars  BY <1>6 DEF vars
<1> QED  BY <1>4, <1>5, <1>6 DEF Next

LEMMA GInvStep == ASSUME IInv, GInv, [Next]_vars PROVE GInv'
<1>1. SentInv'  BY SentStep DEF GInv
<1>2. PoolInv'  BY PoolStep DEF GInv, IInv
<1>3. ASSUME NEW q \in Requests PROVE Follows(q)'  BY EachFollows DEF GInv
<1>4. crashes' \in 0..MaxCrashes
  <2>1. CASE Crash  BY <2>1, BoundsAreNumbers DEF GInv, Crash
  <2>2. CASE UNCHANGED crashes  BY <2>2 DEF GInv
  <2>3. \A r \in Requests : Arrive(r) \/ Handle(r) => UNCHANGED crashes
    BY DEF Handle, Arrive, Prepare, PrepareFails, Sanitize, AuditFails, Send, SendFails, Answered,
      Start, StartFails, Relay, Complete, BreakOff
  <2> QED  BY <2>1, <2>2, <2>3 DEF Next, vars
<1> QED  BY <1>1, <1>2, <1>3, <1>4 DEF GInv

LEMMA GInvHolds == Spec => []GInv
BY InitGateway, GInvStep, InvHolds, PTL DEF Spec

-----------------------------------------------------------------------------
(* The steps of the proxy, as steps of the gateway.                        *)

Stages == [q \in Requests |-> StageOf(pc[q])]

LEMMA StageMoves ==
  ASSUME Types, NEW r \in Requests, NEW from \in Places, NEW to \in Places, Goto(r, from, to)
  PROVE  /\ Stages' = [Stages EXCEPT ![r] = StageOf(to)]
         /\ Stages[r] = StageOf(from)
         /\ StageOf(to) = StageOf(from) => Stages' = Stages
BY DEF Types, Goto, Stages

LEMMA StagesOfPlaces ==
  /\ StageOf("idle") = "idle"
  /\ \A p \in {"arrived", "prepared", "ready", "sent", "answered", "streaming"} : StageOf(p) = "open"
  /\ \A p \in Ended : StageOf(p) = "closed"
BY DEF StageOf, Ended

\* A request that is moved on, and nothing a client sees with it, is a stutter
\* of the gateway, or closes the request.
LEMMA MovesClose ==
  ASSUME Types, NEW r \in Requests, NEW from \in Places \ (Ended \cup {"idle"}),
         NEW to \in Places \ {"idle"}, Goto(r, from, to), UNCHANGED <<body, egress, delivered>>
  PROVE  Gateway!Close \/ UNCHANGED Gateway!vars
<1>1. StageOf(from) = "open" /\ (to \in Ended \/ StageOf(to) = "open")
  BY StagesOfPlaces DEF Places, Ended
<1>2. Stages[r] = "open" /\ Stages' = [Stages EXCEPT ![r] = StageOf(to)]  BY <1>1, StageMoves
<1>3. CASE to \in Ended
  <2>1. {r} \in SUBSET {q \in Requests : Stages[q] = "open"}  BY <1>2
  <2>2. Stages' = [q \in Requests |-> IF q \in {r} THEN "closed" ELSE Stages[q]]
    BY <1>2, <1>3, StagesOfPlaces DEF Stages
  <2>3. Gateway!Close  BY <2>1, <2>2 DEF Gateway!Close, Stages
  <2> QED  BY <2>3
<1>4. CASE StageOf(to) = "open"
  <2>1. Stages' = Stages  BY <1>1, <1>4, StageMoves
  <2> QED  BY <2>1 DEF Gateway!vars, Stages
<1> QED  BY <1>1, <1>3, <1>4

LEMMA ArriveAccepts == ASSUME Types, NEW r \in Requests, Arrive(r) PROVE Gateway!Accept(r)
<1>1. Stages[r] = "idle" /\ Stages' = [Stages EXCEPT ![r] = "open"]
  BY StageMoves, StagesOfPlaces DEF Arrive, Places
<1> QED  BY <1>1 DEF Arrive, Gateway!Accept, Stages

\* The gateway reads a body as the proxy does.
LEMMA SameShows == \A x : Gateway!InTheOpen(x) = Bared(x) /\ Gateway!Shows(x) = Shows(x)
BY DEF Gateway!InTheOpen, Gateway!Shows, Gateway!Range, Bared, Shows, Bare, Range

LEMMA SendForwards ==
  ASSUME IInv, SentInv, NEW r \in Requests, Send(r) PROVE Gateway!Forward(r)
<1>1. Goto(r, "ready", "sent") /\ UNCHANGED <<body, delivered>>
      /\ egress' = egress \cup {[req |-> r, body |-> masked[r]]}
  BY DEF Send
<1>2. Stages[r] = "open" /\ Stages' = Stages
  BY <1>1, StageMoves, StagesOfPlaces DEF IInv, Places
<1>3. ~Gateway!WentOut(r)  BY <1>1 DEF Goto, SentInv, Unsent, Gateway!WentOut
<1> DEFINE e == [req |-> r, body |-> masked[r]]
<1>4. e \in egress' /\ e.req = r /\ Shows(e.body) \subseteq Bared(body[r]) /\ egress' = egress \cup {e}
  BY <1>1 DEF IInv, Holds
<1>5. Gateway!Shows(e.body) \subseteq Gateway!InTheOpen(body[r])  BY <1>4, SameShows
<1> HIDE DEF e
<1> QED  BY <1>1, <1>2, <1>3, <1>4, <1>5 DEF Gateway!Forward, Stages

LEMMA RelayDelivers ==
  ASSUME IInv, IInv', NEW r \in Requests, Follows(r), Relay(r) PROVE Gateway!Deliver(r)
<1>1. PICK d \in Seq(Item) :
        delivered' = [delivered EXCEPT ![r] = d] /\ Beginning(delivered[r], d)
  BY RelayAdds
<1>2. pc[r] = "streaming" /\ UNCHANGED <<pc, body, egress>>  BY DEF Relay
<1>3. Stages[r] = "open" /\ Stages' = [Stages EXCEPT ![r] = "open"]
  BY <1>2, StagesOfPlaces DEF Stages
<1>4. delivered[r] \in Seq(Item) /\ delivered'[r] = d  BY <1>1 DEF IInv, Types
<1>5. Gateway!IsPrefix(delivered[r], d)  BY <1>1, <1>4, BeginningIsPrefix
<1>6. Gateway!Shows(d) \subseteq
        Gateway!Shows(body[r]) \cup UNION {Gateway!Shows(e.body) : e \in egress}
  <2>1. SentRaw' = SentRaw  BY <1>2 DEF SentRaw, Shows
  <2>2. Shows(d) \subseteq Shows(body[r]) \cup SentRaw  BY <1>2, <1>4, <2>1 DEF IInv, Holds
  <2> QED  BY <2>2, SameShows DEF SentRaw
<1>7. Gateway!WentOut(r)  BY <1>2 DEF IInv, Holds, WentOut, Gateway!WentOut
<1> QED  BY <1>1, <1>2, <1>3, <1>4, <1>5, <1>6, <1>7 DEF Gateway!Deliver, Stages

LEMMA CompleteDelivers ==
  ASSUME IInv, IInv', NEW r \in Requests, Follows(r), Complete(r) PROVE Gateway!Deliver(r)
<1> DEFINE d == Shown(r, answer[r])
<1>1. /\ d \in Seq(Item) /\ delivered' = [delivered EXCEPT ![r] = d]
      /\ Beginning(delivered[r], d)
  BY CompleteAdds
<1> HIDE DEF d
<1>2. Goto(r, "streaming", "done") /\ UNCHANGED <<body, egress>>  BY DEF Complete
<1>3. Stages[r] = "open" /\ Stages' = [Stages EXCEPT ![r] = "closed"]
  BY <1>2, StageMoves, StagesOfPlaces DEF IInv, Places, Ended
<1>4. delivered[r] \in Seq(Item) /\ delivered'[r] = d  BY <1>1 DEF IInv, Types
<1>5. Gateway!IsPrefix(delivered[r], d)  BY <1>1, <1>4, BeginningIsPrefix
<1>6. Gateway!Shows(d) \subseteq
        Gateway!Shows(body[r]) \cup UNION {Gateway!Shows(e.body) : e \in egress}
  <2>1. SentRaw' = SentRaw  BY <1>2 DEF SentRaw, Shows
  <2>2. Shows(d) \subseteq Shows(body[r]) \cup SentRaw  BY <1>2, <1>4, <2>1 DEF IInv, Holds
  <2> QED  BY <2>2, SameShows DEF SentRaw
<1>7. Gateway!WentOut(r)  BY <1>2 DEF Goto, IInv, Holds, WentOut, Gateway!WentOut
<1> QED  BY <1>1, <1>2, <1>3, <1>4, <1>5, <1>6, <1>7 DEF Gateway!Deliver, Stages

LEMMA CrashCloses == ASSUME Types, Crash PROVE Gateway!Close
<1> DEFINE S == {q \in Requests : Stages[q] = "open"}
<1>1. S \in SUBSET {q \in Requests : Stages[q] = "open"}  OBVIOUS
<1>2. Stages' = [q \in Requests |-> IF q \in S THEN "closed" ELSE Stages[q]]
  <2>1. ASSUME NEW q \in Requests
        PROVE  StageOf(pc'[q]) = IF StageOf(pc[q]) = "open" THEN "closed" ELSE StageOf(pc[q])
    BY <2>1 DEF Crash, StageOf, Ended
  <2> QED  BY <2>1 DEF Stages
<1> HIDE DEF S
<1>3. UNCHANGED <<body, egress, delivered>>  BY DEF Crash
<1> QED  BY <1>1, <1>2, <1>3 DEF Gateway!Close, Stages

LEMMA GatewayStep ==
  ASSUME IInv, IInv', GInv, [Next]_vars PROVE Gateway!Next \/ UNCHANGED Gateway!vars
<1> USE DEF Places, Ended
<1>1. ASSUME NEW r \in Requests, Arrive(r) \/ Handle(r)
      PROVE  Gateway!Next \/ UNCHANGED Gateway!vars
  <2>1. CASE Arrive(r)  BY <2>1, ArriveAccepts DEF IInv, Gateway!Next
  <2>2. CASE Send(r)  BY <2>2, SendForwards DEF GInv, Gateway!Next
  <2>3. CASE Relay(r)  BY <2>3, RelayDelivers DEF GInv, Gateway!Next
  <2>4. CASE Complete(r)  BY <2>4, CompleteDelivers DEF GInv, Gateway!Next
  <2>5. CASE Prepare(r) \/ PrepareFails(r) \/ Sanitize(r) \/ AuditFails(r)
    BY <2>5, MovesClose DEF IInv, Prepare, PrepareFails, Sanitize, AuditFails, Gateway!Next
  <2>6. CASE SendFails(r) \/ Answered(r) \/ Start(r) \/ StartFails(r) \/ BreakOff(r)
    BY <2>6, MovesClose DEF IInv, SendFails, Answered, Start, StartFails, BreakOff, Gateway!Next
  <2> QED  BY <1>1, <2>1, <2>2, <2>3, <2>4, <2>5, <2>6 DEF Handle
<1>2. CASE Crash  BY <1>2, CrashCloses DEF IInv, Gateway!Next
<1>3. CASE UNCHANGED vars  BY <1>3 DEF vars, Gateway!vars
<1> QED  BY <1>1, <1>2, <1>3 DEF Next

-----------------------------------------------------------------------------
(* What the proxy holds is what its handlers can be in and the pool allows, *)
(* and a vault holds nothing but values that are to come back.              *)
THEOREM ProxyTypes == Spec => []TypeOK
<1>1. IInv /\ GInv => TypeOK
  BY DEF IInv, Types, GInv, SentInv, PoolInv, Follows, TypeOK, Places, Ended
<1> QED  BY <1>1, InvHolds, GInvHolds, PTL

(* No more connections are out than the pool has, and each is out for a     *)
(* request that is on its way or whose response was never started.          *)
THEOREM ConnectionsCounted == Spec => []ConnectionsAccounted
<1>1. GInv => ConnectionsAccounted  BY DEF GInv, PoolInv, ConnectionsAccounted
<1> QED  BY <1>1, GInvHolds, PTL

(* The proxy implements the gateway: whatever its handlers, its upstream   *)
(* and its crashes do, each body goes out at most once, showing no value   *)
(* the policy protects but those that stand bare in it, and a client's     *)
(* answer only grows, by nothing of another client's that was not sent.    *)
THEOREM ImplementsGateway == Spec => IsPrivacyGateway
<1>1. Init => Gateway!Init
  BY StagesOfPlaces DEF Init, Gateway!Init
<1>2. IInv /\ IInv' /\ GInv /\ [Next]_vars => [Gateway!Next]_(Gateway!vars)
  BY GatewayStep
<1> QED  BY <1>1, <1>2, InvHolds, GInvHolds, PTL DEF Spec, IsPrivacyGateway, Gateway!Spec
=============================================================================
