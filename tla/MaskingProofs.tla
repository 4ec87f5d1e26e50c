--------------------------- MODULE MaskingProofs ---------------------------
(***************************************************************************)
(* What the firewall makes of a body, and what comes back of it, for every *)
(* body, policy, scanner and order of detections.                          *)
(*                                                                         *)
(* The vault stays a bijection between values and numbered placeholders:   *)
(* its k-th pair carries the number k, because a pair is only added for a  *)
(* value that is not there, numbered by the size the map then reaches.     *)
(* Then what resolve_overlaps keeps, by the walk along the detections;     *)
(* what the edits leave of a text, by the origin each place of the result  *)
(* has in it; the records, by the places of the marks they speak of; and   *)
(* the way back, by rewriting texts cell by cell.                          *)
(***************************************************************************)
EXTENDS Masking, FiniteSetTheorems, SequenceTheorems, TLAPS

VaultInv ==
  /\ \E T : rev \in Seq(T)
  /\ IsFiniteSet(DOMAIN fwd) /\ Len(rev) = Cardinality(DOMAIN fwd)
  /\ \A k \in 1..Len(rev) :
       /\ rev[k].real \in DOMAIN fwd /\ fwd[rev[k].real] = rev[k].token
       /\ \E kind : rev[k].token = Token(kind, k)
  /\ \A r \in DOMAIN fwd : \E k \in 1..Len(rev) : rev[k].real = r

LEMMA RememberKeepsVault ==
  ASSUME VaultInv, NEW real, NEW kind, Remember(real, kind)
  PROVE  VaultInv'
<1>1. CASE real \in DOMAIN fwd
  BY <1>1 DEF Remember, VaultInv, vault
<1>2. CASE real \notin DOMAIN fwd
  <2> DEFINE n == Cardinality(DOMAIN fwd)
             token == Token(kind, n + 1)
             e == [token |-> token, real |-> real]
  <2>1. fwd' = Overlay(fwd, [r \in {real} |-> token]) /\ rev' = Append(rev, e)
    BY <1>2 DEF Remember
  <2>2. PICK T : rev \in Seq(T)  BY DEF VaultInv
  <2>3. n \in Nat /\ Len(rev) = n /\ IsFiniteSet(DOMAIN fwd)
    BY FS_CardinalityType DEF VaultInv
  <2>4. /\ DOMAIN fwd' = DOMAIN fwd \cup {real} /\ fwd'[real] = token
        /\ \A r \in DOMAIN fwd : fwd'[r] = fwd[r]
    BY <1>2, <2>1 DEF Overlay
  <2>5. IsFiniteSet(DOMAIN fwd') /\ Cardinality(DOMAIN fwd') = n + 1
    BY <1>2, <2>3, <2>4, FS_AddElement
  <2>6. rev \in Seq(T \cup {e})
    <3>1. \A k \in 1..Len(rev) : rev[k] \in T \cup {e}  BY <2>2, ElementOfSeq
    <3> QED  BY <2>2, <2>3, <3>1, IsASeq, LenProperties
  <2>7. /\ rev' \in Seq(T \cup {e}) /\ Len(rev') = n + 1
        /\ \A k \in 1..n : rev'[k] = rev[k]
        /\ rev'[n + 1] = e
    BY <2>1, <2>3, <2>6, AppendProperties
  <2>8. ASSUME NEW k \in 1..Len(rev')
        PROVE  /\ rev'[k].real \in DOMAIN fwd' /\ fwd'[rev'[k].real] = rev'[k].token
               /\ \E d : rev'[k].token = Token(d, k)
    <3>1. CASE k \in 1..n  BY <2>3, <2>4, <2>7, <3>1 DEF VaultInv
    <3>2. CASE k = n + 1  BY <2>4, <2>7, <3>2
    <3> QED  BY <2>3, <2>7, <3>1, <3>2
  <2>9. ASSUME NEW r \in DOMAIN fwd' PROVE \E k \in 1..Len(rev') : rev'[k].real = r
    <3>1. CASE r = real
      <4>1. n + 1 \in 1..Len(rev')  BY <2>3, <2>7
      <4> QED  BY <2>7, <3>1, <4>1
    <3>2. CASE r # real
      <4>1. PICK k \in 1..Len(rev) : rev[k].real = r  BY <2>4, <3>2 DEF VaultInv
      <4>2. k \in 1..n /\ k \in 1..Len(rev')  BY <2>3, <2>7
      <4> QED  BY <2>7, <4>1, <4>2
    <3> QED  BY <3>1, <3>2
  <2> QED  BY <2>3, <2>5, <2>7, <2>8, <2>9 DEF VaultInv
<1> QED  BY <1>1, <1>2

LEMMA VaultInvInit == Init => VaultInv
<1> SUFFICES ASSUME Init PROVE VaultInv
  OBVIOUS
<1>1. rev = <<>> /\ Len(rev) = 0 /\ DOMAIN fwd = {}  BY DEF Init
<1>2. rev \in Seq({})  BY <1>1
<1>3. IsFiniteSet(DOMAIN fwd) /\ Cardinality(DOMAIN fwd) = 0  BY <1>1, FS_EmptySet
<1> QED  BY <1>1, <1>2, <1>3 DEF VaultInv

LEMMA VaultInvStep == VaultInv /\ [Next]_vars => VaultInv'
<1> SUFFICES ASSUME VaultInv, [Next]_vars PROVE VaultInv'
  OBVIOUS
<1>1. ASSUME UNCHANGED vault PROVE VaultInv'
  BY <1>1 DEF VaultInv, vault
<1>2. CASE ReplaceNext
  <2>1. \/ \E real, kind : Remember(real, kind)
        \/ UNCHANGED vault
    BY <1>2 DEF ReplaceNext
  <2> QED  BY <1>1, <2>1, RememberKeepsVault
<1>3. CASE PassThrough \/ KeepLeaf \/ ScanLeaf \/ FinishLeaf \/ Finish
  BY <1>1, <1>3 DEF PassThrough, KeepLeaf, ScanLeaf, FinishLeaf, Finish
<1>4. CASE UNCHANGED vars
  BY <1>1, <1>4 DEF vars, vault
<1> QED  BY <1>2, <1>3, <1>4 DEF Next

(* The placeholders of a request are stable and unique: placeholder_for    *)
(* gives a value one token for as long as the vault lives, and no token to *)
(* two values.                                                             *)
THEOREM VaultStaysBijective == Spec => []VaultIsBijective
<1>1. VaultInv => VaultIsBijective
  <2> SUFFICES ASSUME VaultInv, NEW k \in 1..Len(rev), NEW l \in 1..Len(rev),
                      rev[k].token = rev[l].token
               PROVE  k = l
    BY DEF VaultInv, VaultIsBijective
  <2>1. PICK a : rev[k].token = Token(a, k)  BY DEF VaultInv
  <2>2. PICK b : rev[l].token = Token(b, l)  BY DEF VaultInv
  <2>3. Token(a, k)[3] = k /\ Token(b, l)[3] = l  BY DEF Token
  <2> QED  BY <2>1, <2>2, <2>3
<1> QED  BY VaultInvInit, VaultInvStep, <1>1, PTL DEF Spec

-----------------------------------------------------------------------------
(* The detections of a text in the order resolve_overlaps takes them.      *)

Keeping == INSTANCE Folding WITH Op <- Keep

LEMMA KindsHavePlaces ==
  ASSUME NEW k \in Range(Scanners)
  PROVE  ScanOrder(k) \in Nat /\ Scanners[ScanOrder(k)] = k
<1>1. Len(Scanners) \in Nat /\ DOMAIN Scanners = 1..Len(Scanners)
  BY ScannersType, LenProperties
<1>2. \E i \in 1..Len(Scanners) : Scanners[i] = k  BY <1>1 DEF Range
<1>3. ScanOrder(k) \in 1..Len(Scanners) /\ Scanners[ScanOrder(k)] = k  BY <1>2 DEF ScanOrder
<1> QED  BY <1>1, <1>3

LEMMA DetectionFields ==
  ASSUME NEW E, NEW text \in Seq(E), NEW d \in Detections(text)
  PROVE  /\ d.start \in Nat /\ d.end \in Nat /\ d.kind \in Range(Scanners)
         /\ 1 <= d.start /\ d.start < d.end /\ d.end <= Len(text) + 1
         /\ d = [start |-> d.start, end |-> d.end, kind |-> d.kind]
         /\ \A i \in d.start..d.end - 1 : text[i] \in Detectable
<1>1. Len(text) \in Nat  BY LenProperties
<1> QED  BY <1>1 DEF Detections

LEMMA BeforeIsTotal ==
  ASSUME NEW E, NEW text \in Seq(E), NEW d \in Detections(text), NEW e \in Detections(text), d # e
  PROVE  Before(d, e) \/ Before(e, d)
<1>1. /\ d.start \in Nat /\ d.end \in Nat /\ d.kind \in Range(Scanners)
      /\ e.start \in Nat /\ e.end \in Nat /\ e.kind \in Range(Scanners)
  BY DetectionFields
<1>2. d.start # e.start \/ d.end # e.end \/ d.kind # e.kind
  BY DetectionFields
<1>3. /\ ScanOrder(d.kind) \in Nat /\ Scanners[ScanOrder(d.kind)] = d.kind
      /\ ScanOrder(e.kind) \in Nat /\ Scanners[ScanOrder(e.kind)] = e.kind
  BY <1>1, KindsHavePlaces
<1> QED  BY <1>1, <1>2, <1>3 DEF Before

LEMMA BeforeIsTransitive ==
  ASSUME NEW E, NEW text \in Seq(E), NEW d \in Detections(text), NEW e \in Detections(text),
         NEW f \in Detections(text), Before(d, e), Before(e, f)
  PROVE  Before(d, f)
<1>1. /\ d.start \in Nat /\ d.end \in Nat /\ ScanOrder(d.kind) \in Nat
      /\ e.start \in Nat /\ e.end \in Nat /\ ScanOrder(e.kind) \in Nat
      /\ f.start \in Nat /\ f.end \in Nat /\ ScanOrder(f.kind) \in Nat
  BY DetectionFields, KindsHavePlaces
<1> QED  BY <1>1 DEF Before

LEMMA LastOfDetections ==
  ASSUME NEW E, NEW text \in Seq(E), NEW n \in Nat, NEW D \in SUBSET Detections(text),
         IsFiniteSet(D), Cardinality(D) = n + 1
  PROVE  \E m \in D : \A d \in D : d # m => Before(d, m)
<1> DEFINE Has(A) == \E m \in A : \A d \in A : d # m => Before(d, m)
           T == {k \in 0..n : \A A \in SUBSET D : Cardinality(A) = k + 1 => Has(A)}
<1>1. \A A \in SUBSET D : IsFiniteSet(A) /\ Cardinality(A) \in Nat
  BY FS_Subset, FS_CardinalityType
<1>2. 0 \in T
  <2>1. ASSUME NEW A \in SUBSET D, Cardinality(A) = 1 PROVE Has(A)
    <3>1. PICK m : A = {m}  BY <1>1, <2>1, FS_Singleton
    <3> QED  BY <3>1
  <2> QED  BY <2>1
<1>3. ASSUME NEW k \in 1..n, k - 1 \in T PROVE k \in T
  <2>1. ASSUME NEW A \in SUBSET D, Cardinality(A) = k + 1 PROVE Has(A)
    <3>1. PICK e : e \in A
      <4>1. Cardinality({}) = 0 /\ k + 1 # 0  BY FS_EmptySet
      <4> QED  BY <2>1, <4>1
    <3>2. Cardinality(A \ {e}) = (k - 1) + 1  BY <1>1, <2>1, <3>1, FS_RemoveElement
    <3>3. Has(A \ {e})  BY <1>3, <3>2
    <3>4. PICK m \in A \ {e} : \A d \in A \ {e} : d # m => Before(d, m)  BY <3>3
    <3>5. e \in Detections(text) /\ m \in Detections(text) /\ e # m  BY <3>1, <3>4
    <3>6. CASE Before(e, m)
      <4>1. \A d \in A : d # m => Before(d, m)  BY <3>4, <3>6
      <4> QED  BY <3>4, <4>1
    <3>7. CASE Before(m, e)
      <4>1. ASSUME NEW d \in A, d # e PROVE Before(d, e)
        <5>1. d \in Detections(text) /\ (d = m \/ Before(d, m))  BY <3>4, <4>1
        <5> QED  BY <3>5, <3>7, <5>1, BeforeIsTransitive
      <4> QED  BY <3>1, <4>1
    <3> QED  BY <3>5, <3>6, <3>7, BeforeIsTotal
  <2> QED  BY <2>1
<1> HIDE DEF T, Has
<1>4. n \in T
  <2>1. \A k \in 0..n : k \in T  BY <1>2, <1>3, Keeping!UpTo
  <2> QED  BY <2>1
<1>5. Has(D)  BY <1>4 DEF T
<1> QED  BY <1>5 DEF Has

LEMMA DetectionsCanBeOrdered ==
  ASSUME NEW E, NEW text \in Seq(E), NEW D \in SUBSET Detections(text), IsFiniteSet(D)
  PROVE  \E s \in [1..Cardinality(D) -> D] :
           Range(s) = D /\ \A i, j \in 1..Cardinality(D) : i < j => Before(s[i], s[j])
<1> DEFINE Sorts(s, A, k) == /\ s \in [1..k -> A] /\ Range(s) = A
                             /\ \A i, j \in 1..k : i < j => Before(s[i], s[j])
           n == Cardinality(D)
           T == {k \in 0..n : \A A \in SUBSET D : Cardinality(A) = k => \E s : Sorts(s, A, k)}
<1>1. n \in Nat /\ \A A \in SUBSET D : IsFiniteSet(A) /\ Cardinality(A) \in Nat
  BY FS_Subset, FS_CardinalityType
<1> HIDE DEF n
<1>2. 0 \in T
  <2>1. ASSUME NEW A \in SUBSET D, Cardinality(A) = 0 PROVE \E s : Sorts(s, A, 0)
    <3>1. A = {}  BY <1>1, <2>1, FS_EmptySet
    <3> DEFINE s == [i \in 1..0 |-> i]
    <3>2. Sorts(s, A, 0)  BY <3>1 DEF Range
    <3> QED  BY <3>2
  <2> QED  BY <1>1, <2>1
<1>3. ASSUME NEW k \in 1..n, k - 1 \in T PROVE k \in T
  <2>1. ASSUME NEW A \in SUBSET D, Cardinality(A) = k PROVE \E s : Sorts(s, A, k)
    <3>1. A \in SUBSET Detections(text) /\ Cardinality(A) = (k - 1) + 1 /\ k - 1 \in Nat
      BY <1>1, <2>1
    <3>2. PICK m \in A : \A d \in A : d # m => Before(d, m)
      BY <1>1, <3>1, LastOfDetections
    <3>3. Cardinality(A \ {m}) = k - 1  BY <1>1, <2>1, <3>2, FS_RemoveElement
    <3>4. PICK r : Sorts(r, A \ {m}, k - 1)  BY <1>3, <3>3
    <3> DEFINE s == [i \in 1..k |-> IF i = k THEN m ELSE r[i]]
    <3>5. s \in [1..k -> A]  BY <1>1, <3>4
    <3>6. Range(s) = A
      <4>1. \A x \in A \ {m} : \E i \in 1..k - 1 : r[i] = x  BY <3>4 DEF Range
      <4>2. \A x \in A \ {m} : \E i \in 1..k : s[i] = x  BY <1>1, <4>1
      <4>3. k \in 1..k /\ s[k] = m  BY <1>1
      <4>4. \A x \in A : \E i \in 1..k : s[i] = x  BY <4>2, <4>3
      <4> HIDE DEF s
      <4> QED  BY <3>5, <4>4 DEF Range
    <3>7. ASSUME NEW i \in 1..k, NEW j \in 1..k, i < j PROVE Before(s[i], s[j])
      <4>1. i \in 1..k - 1 /\ s[i] = r[i] /\ r[i] \in A \ {m}  BY <1>1, <3>4, <3>7
      <4>2. CASE j = k  BY <3>2, <4>1, <4>2
      <4>3. CASE j # k
        <5>1. j \in 1..k - 1 /\ s[j] = r[j]  BY <1>1, <4>3
        <5> QED  BY <3>4, <3>7, <4>1, <5>1
      <4> QED  BY <4>2, <4>3
    <3> HIDE DEF s
    <3>8. Sorts(s, A, k)  BY <3>5, <3>6, <3>7
    <3> QED  BY <3>8
  <2> HIDE DEF Sorts
  <2> QED  BY <1>1, <2>1
<1> HIDE DEF T, Sorts
<1>4. n \in T
  <2>1. \A k \in 0..n : k \in T  BY <1>1, <1>2, <1>3, Keeping!UpTo
  <2> QED  BY <1>1, <2>1
<1>5. \E s : Sorts(s, D, n)  BY <1>4 DEF T, n
<1> QED  BY <1>5 DEF Sorts, n

LEMMA OrderedDetections ==
  ASSUME NEW E, NEW text \in Seq(E), NEW D \in SUBSET Detections(text), IsFiniteSet(D)
  PROVE  /\ Ordered(D) \in Seq(D) /\ Range(Ordered(D)) = D
         /\ \A i, j \in 1..Len(Ordered(D)) : i < j => Before(Ordered(D)[i], Ordered(D)[j])
<1> DEFINE s == Ordered(D)
           n == Cardinality(D)
<1>1. n \in Nat  BY FS_CardinalityType
<1>2. s \in [1..n -> D] /\ Range(s) = D /\ \A i, j \in 1..n : i < j => Before(s[i], s[j])
  BY DetectionsCanBeOrdered DEF Ordered
<1> HIDE DEF s, n
<1>3. s \in Seq(D) /\ Len(s) = n  BY <1>1, <1>2, IsASeq
<1>4. \A i, j \in 1..Len(s) : i < j => Before(s[i], s[j])  BY <1>2, <1>3
<1> QED  BY <1>2, <1>3, <1>4 DEF s

-----------------------------------------------------------------------------
(* What resolve_overlaps keeps.                                            *)

Apart(c) == \A i, j \in 1..Len(c) : i < j => c[i].end <= c[j].start

GivesWay(d, e) ==
  \/ d = e
  \/ Overlap(d, e) /\ (e.start < d.start \/ (e.start = d.start /\ e.end >= d.end))

LEMMA KeepStep ==
  ASSUME NEW E, NEW text \in Seq(E), NEW D \in SUBSET Detections(text),
         NEW c \in Seq(D), Apart(c), NEW d \in D, \A i \in 1..Len(c) : Before(c[i], d),
         NEW more, more = Keep(c, d)
  PROVE  /\ more \in Seq(D) /\ Apart(more)
         /\ Len(c) <= Len(more) /\ \A i \in 1..Len(c) : more[i] = c[i]
         /\ \A i \in 1..Len(more) : more[i] = d \/ i \in 1..Len(c)
         /\ \E j \in 1..Len(more) : GivesWay(d, more[j])
<1>1. Len(c) \in Nat /\ (c = <<>> <=> Len(c) = 0)  BY LenProperties, EmptySeq
<1>2. \A e \in D : e.start \in Nat /\ e.end \in Nat /\ e.start < e.end  BY DetectionFields
<1>3. \A i \in 1..Len(c) : c[i] \in D  BY ElementOfSeq
<1>4. ASSUME NEW i \in 1..Len(c) PROVE c[i].start <= d.start
  <2>1. Before(c[i], d) /\ c[i] \in D  BY <1>3
  <2> QED  BY <1>2, <2>1 DEF Before
<1>5. ASSUME NEW i \in 1..Len(c) PROVE c[i].end <= c[Len(c)].end
  <2>1. Len(c) \in 1..Len(c) /\ (i = Len(c) \/ i < Len(c))  BY <1>1
  <2>2. CASE i < Len(c)
    <3>1. c[i].end <= c[Len(c)].start  BY <2>1, <2>2 DEF Apart
    <3> QED  BY <1>2, <1>3, <2>1, <3>1
  <2> QED  BY <1>2, <1>3, <2>1, <2>2
<1>6. CASE c = <<>> \/ d.start >= c[Len(c)].end
  <2>1. more = Append(c, d)  BY <1>6 DEF Keep, Last
  <2>2. /\ more \in Seq(D) /\ Len(more) = Len(c) + 1 /\ more[Len(c) + 1] = d
        /\ \A i \in 1..Len(c) : more[i] = c[i]
    BY <2>1, AppendProperties
  <2>3. ASSUME NEW i \in 1..Len(c) PROVE c[i].end <= d.start
    <3>1. Len(c) \in 1..Len(c) /\ c # <<>>  BY <1>1
    <3>2. c[i].end <= c[Len(c)].end /\ d.start >= c[Len(c)].end  BY <1>5, <1>6, <3>1
    <3> QED  BY <1>2, <1>3, <3>1, <3>2
  <2>4. Apart(more)
    <3> SUFFICES ASSUME NEW i \in 1..Len(more), NEW j \in 1..Len(more), i < j
                 PROVE  more[i].end <= more[j].start
      BY DEF Apart
    <3>1. i \in 1..Len(c) /\ (j \in 1..Len(c) \/ j = Len(c) + 1)  BY <1>1, <2>2
    <3> QED  BY <2>2, <2>3, <3>1 DEF Apart
  <2>5. Len(c) + 1 \in 1..Len(more) /\ GivesWay(d, more[Len(c) + 1])
    BY <1>1, <2>2 DEF GivesWay
  <2>6. \A i \in 1..Len(more) : more[i] = d \/ i \in 1..Len(c)  BY <1>1, <2>2
  <2>7. Len(c) <= Len(more)  BY <1>1, <2>2
  <2> QED  BY <2>2, <2>4, <2>5, <2>6, <2>7
<1>7. CASE ~(c = <<>> \/ d.start >= c[Len(c)].end)
  <2>1. more = c  BY <1>7 DEF Keep, Last
  <2> DEFINE e == c[Len(c)]
  <2>2. Len(c) \in 1..Len(c) /\ e \in D /\ Before(e, d) /\ ~(d.start >= e.end)
    BY <1>1, <1>3, <1>7
  <2>3. e.start <= d.start  BY <1>4, <2>2
  <2> HIDE DEF e
  <2>4. /\ d.start \in Nat /\ d.end \in Nat /\ d.start < d.end
        /\ e.start \in Nat /\ e.end \in Nat /\ e.start < e.end
    BY <1>2, <2>2
  <2>5. Overlap(d, e)  BY <2>2, <2>3, <2>4 DEF Overlap
  <2>6. e.start < d.start \/ (e.start = d.start /\ e.end >= d.end)
    BY <2>2, <2>3, <2>4 DEF Before
  <2>7. GivesWay(d, more[Len(c)])  BY <2>1, <2>5, <2>6 DEF GivesWay, e
  <2> QED  BY <1>1, <2>1, <2>2, <2>7
<1> QED  BY <1>6, <1>7

LEMMA ResolveKeeps ==
  ASSUME NEW E, NEW text \in Seq(E), NEW D \in SUBSET Detections(text), IsFiniteSet(D)
  PROVE  /\ ResolveOverlaps(D) \in Seq(D) /\ Apart(ResolveOverlaps(D))
         /\ \A d \in D : \E j \in 1..Len(ResolveOverlaps(D)) : GivesWay(d, ResolveOverlaps(D)[j])
<1> DEFINE s == Ordered(D)
           n == Len(s)
<1>1. s \in Seq(D) /\ Range(s) = D /\ \A i, j \in 1..n : i < j => Before(s[i], s[j])
  BY OrderedDetections
<1> HIDE DEF s
<1>2. n \in Nat /\ DOMAIN s = 1..n /\ \A i \in 1..n : s[i] \in D
  BY <1>1, LenProperties, ElementOfSeq
<1>3. PICK w : /\ w[0] = <<>> /\ w[Len(s)] = Keeping!Fold(<<>>, s)
               /\ \A k \in 1..Len(s) : w[k] = Keep(w[k - 1], s[k])
  BY <1>1, Keeping!FoldWalks
<1> DEFINE Good(k) == /\ w[k] \in Seq(D) /\ Apart(w[k])
                      /\ \A j \in 1..Len(w[k]) : \E i \in 1..k : w[k][j] = s[i]
                      /\ \A i \in 1..k : \E j \in 1..Len(w[k]) : GivesWay(s[i], w[k][j])
           T == {k \in 0..n : Good(k)}
<1>4. 0 \in T
  <2>1. w[0] \in Seq(D) /\ Len(w[0]) = 0  BY <1>3, EmptySeq
  <2>2. Good(0)  BY <2>1 DEF Apart
  <2> QED  BY <1>2, <2>2
<1>5. ASSUME NEW k \in 1..n, k - 1 \in T PROVE k \in T
  <2> DEFINE c == w[k - 1]
             more == w[k]
             d == s[k]
  <2>1. Good(k - 1)  BY <1>5
  <2>2. d \in D /\ more = Keep(c, d)  BY <1>2, <1>3
  <2>3. c \in Seq(D) /\ Apart(c)  BY <2>1
  <2>4. ASSUME NEW i \in 1..Len(c) PROVE Before(c[i], d)
    <3>1. PICK j \in 1..k - 1 : c[i] = s[j]  BY <2>1
    <3>2. j \in 1..n /\ k \in 1..n /\ j < k  BY <1>2
    <3> QED  BY <1>1, <3>1, <3>2
  <2>5. \A j \in 1..Len(c) : \E i \in 1..k - 1 : c[j] = s[i]  BY <2>1
  <2>6. \A i \in 1..k - 1 : \E j \in 1..Len(c) : GivesWay(s[i], c[j])  BY <2>1
  <2> HIDE DEF c, more, d
  <2>7. /\ more \in Seq(D) /\ Apart(more)
        /\ Len(c) <= Len(more) /\ \A i \in 1..Len(c) : more[i] = c[i]
        /\ \A i \in 1..Len(more) : more[i] = d \/ i \in 1..Len(c)
        /\ \E j \in 1..Len(more) : GivesWay(d, more[j])
    BY <2>2, <2>3, <2>4, KeepStep
  <2>8. ASSUME NEW j \in 1..Len(more) PROVE \E i \in 1..k : more[j] = s[i]
    <3>1. CASE more[j] = d
      <4>1. k \in 1..k  BY <1>2
      <4> QED  BY <3>1, <4>1 DEF d
    <3>2. CASE j \in 1..Len(c)
      <4>1. PICK i \in 1..k - 1 : c[j] = s[i]  BY <2>5, <3>2
      <4>2. i \in 1..k  BY <1>2
      <4> QED  BY <2>7, <3>2, <4>1, <4>2
    <3> QED  BY <2>7, <3>1, <3>2
  <2>9. ASSUME NEW i \in 1..k PROVE \E j \in 1..Len(more) : GivesWay(s[i], more[j])
    <3>1. CASE i = k  BY <2>7, <3>1 DEF d
    <3>2. CASE i # k
      <4>1. i \in 1..k - 1  BY <1>2, <3>2
      <4>2. PICK j \in 1..Len(c) : GivesWay(s[i], c[j])  BY <2>6, <4>1
      <4>3. j \in 1..Len(more)  BY <2>3, <2>7, LenProperties
      <4> QED  BY <2>7, <4>2, <4>3
    <3> QED  BY <3>1, <3>2
  <2> QED  BY <2>7, <2>8, <2>9, <1>2 DEF more
<1> HIDE DEF T, Good
<1>6. \A k \in 0..n : k \in T  BY <1>2, <1>4, <1>5, Keeping!UpTo
<1>7. Good(n)  BY <1>2, <1>6 DEF T
<1>8. w[n] = ResolveOverlaps(D)
  BY <1>3 DEF s, ResolveOverlaps, Keeping!Fold, FoldLeft, Keeping!FoldLeft, MapThenFoldSet,
     Keeping!MapThenFoldSet, Max, Keeping!Max
<1>9. \A d \in D : \E i \in 1..n : s[i] = d  BY <1>1, <1>2 DEF Range
<1> QED  BY <1>7, <1>8, <1>9 DEF Good

-----------------------------------------------------------------------------
(* What apply_replacements makes of a text.  A position of the result has  *)
(* an origin in the text: that of the cell it keeps, or the start of the   *)
(* span its mark stands for.                                               *)

Splicing == INSTANCE Folding WITH Op <- Splice

EditsOf(text) ==
  {r \in [start : 1..Len(text), end : 2..Len(text) + 1, new : {<<m>> : m \in Marks}] :
     r.start < r.end}

LEMMA EditFields ==
  ASSUME NEW E, NEW text \in Seq(E), NEW r \in EditsOf(text)
  PROVE  /\ r.start \in Nat /\ r.end \in Nat
         /\ 1 <= r.start /\ r.start < r.end /\ r.end <= Len(text) + 1
         /\ r.new[1] \in Marks /\ r.new = <<r.new[1]>>
<1>1. Len(text) \in Nat  BY LenProperties
<1>2. r.new \in {<<m>> : m \in Marks}  BY DEF EditsOf
<1> QED  BY <1>1, <1>2 DEF EditsOf

LEMMA SpliceCells ==
  ASSUME NEW E, NEW s \in Seq(E), NEW m \in E, NEW r, r.new = <<m>>,
         r.start \in Nat, r.end \in Nat, 1 <= r.start, r.start < r.end, r.end <= Len(s) + 1
  PROVE  LET n == r.end - r.start - 1 IN
         /\ n \in Nat /\ Splice(s, r) \in Seq(E) /\ Len(Splice(s, r)) = Len(s) - n
         /\ \A p \in 1..Len(s) - n :
              Splice(s, r)[p] = IF p < r.start THEN s[p] ELSE IF p = r.start THEN m ELSE s[p + n]
<1> DEFINE a == r.start
           b == r.end
           n == b - a - 1
           left == SubSeq(s, 1, a - 1)
           right == SubSeq(s, b, Len(s))
           mid == <<m>>
           both == left \o mid
<1>1. Len(s) \in Nat /\ a \in Nat /\ b \in Nat /\ 1 <= a /\ a < b /\ b <= Len(s) + 1
  BY LenProperties
<1> HIDE DEF a, b
<1>2. n \in Nat /\ a + n + 1 = b  BY <1>1
<1>3. /\ left \in Seq(E) /\ Len(left) = a - 1
      /\ \A i \in 1..a - 1 : left[i] = s[i]
  <2>1. 1 \in 1..Len(s) + 1 /\ a - 1 \in (1 - 1)..Len(s) /\ (a - 1) - 1 + 1 = a - 1  BY <1>1
  <2>2. \A i \in 1..a - 1 : 1 + i - 1 = i  BY <1>1
  <2> QED  BY <2>1, <2>2, SubSeqProperties
<1>4. /\ right \in Seq(E) /\ Len(right) = Len(s) - b + 1
      /\ \A i \in 1..Len(s) - b + 1 : right[i] = s[b + i - 1]
  <2>1. b \in 1..Len(s) + 1 /\ Len(s) \in (b - 1)..Len(s)  BY <1>1
  <2> QED  BY <2>1, SubSeqProperties
<1> HIDE DEF left, right
<1>5. mid \in Seq(E) /\ Len(mid) = 1 /\ mid[1] = m  OBVIOUS
<1> HIDE DEF mid
<1>6. both \in Seq(E) /\ Len(both) = a
      /\ \A i \in 1..a : both[i] = IF i < a THEN s[i] ELSE m
  <2>1. /\ both \in Seq(E) /\ Len(both) = Len(left) + Len(mid)
        /\ \A i \in 1..Len(left) + Len(mid) :
             both[i] = IF i <= Len(left) THEN left[i] ELSE mid[i - Len(left)]
    BY <1>3, <1>5, ConcatProperties
  <2>2. (a - 1) + 1 = a  BY <1>1
  <2>3. ASSUME NEW i \in 1..a PROVE both[i] = IF i < a THEN s[i] ELSE m
    <3>1. CASE i < a
      <4>1. i <= a - 1 /\ i \in 1..a - 1  BY <1>1, <3>1
      <4> QED  BY <1>3, <1>5, <2>1, <2>2, <3>1, <4>1
    <3>2. CASE ~(i < a)
      <4>1. i = a /\ ~(i <= a - 1) /\ i - (a - 1) = 1  BY <1>1, <3>2
      <4> QED  BY <1>3, <1>5, <2>1, <2>2, <3>2, <4>1
    <3> QED  BY <3>1, <3>2
  <2> QED  BY <1>3, <1>5, <2>1, <2>2, <2>3
<1> HIDE DEF both
<1> DEFINE t == both \o right
<1>7. /\ t \in Seq(E) /\ Len(t) = Len(both) + Len(right)
      /\ \A i \in 1..Len(both) + Len(right) : t[i] = IF i <= Len(both) THEN both[i] ELSE right[i - Len(both)]
  BY <1>4, <1>6, ConcatProperties
<1>8. Splice(s, r) = t  BY DEF Splice, t, both, left, right, mid, a, b
<1> HIDE DEF t
<1>9. Len(t) = Len(s) - n  BY <1>1, <1>4, <1>6, <1>7
<1>10. ASSUME NEW p \in 1..Len(s) - n
       PROVE  t[p] = IF p < a THEN s[p] ELSE IF p = a THEN m ELSE s[p + n]
  <2>1. p \in 1..Len(both) + Len(right)  BY <1>1, <1>4, <1>6, <1>10
  <2>2. CASE p <= a
    <3>1. p \in 1..a /\ (p < a \/ p = a)  BY <1>1, <2>2
    <3> QED  BY <1>1, <1>6, <1>7, <2>1, <2>2, <3>1
  <2>3. CASE ~(p <= a)
    <3>1. /\ ~(p <= a) /\ ~(p < a) /\ p # a /\ p - a \in 1..Len(s) - b + 1
          /\ b + (p - a) - 1 = p + n
      BY <1>1, <2>3
    <3>2. t[p] = right[p - a]  BY <1>6, <1>7, <2>1, <2>3
    <3>3. right[p - a] = s[b + (p - a) - 1]  BY <1>4, <3>1
    <3> QED  BY <3>1, <3>2, <3>3
  <2> QED  BY <2>2, <2>3
<1> QED  BY <1>2, <1>7, <1>8, <1>9, <1>10 DEF a, b

Marked(o, R, S, p) == \E r \in S : o[p] = r.start /\ R[p] = r.new[1]
KeptAt(o, R, text, S, p) ==
  R[p] = text[o[p]] /\ \A r \in S : o[p] < r.start \/ r.end <= o[p]

Tracks(o, R, text, S) ==
  /\ R \in Seq(Cells \cup Marks)
  /\ o \in [1..Len(R) -> 1..Len(text)]
  /\ \A p, q \in 1..Len(R) : p < q => o[p] < o[q]
  /\ \A p \in 1..Len(R) : Marked(o, R, S, p) \/ KeptAt(o, R, text, S, p)
  /\ \A p \in 1..Len(R) - 1 : Marked(o, R, S, p) \/ o[p + 1] = o[p] + 1
  /\ \A r \in S : \E p \in 1..Len(R) : o[p] = r.start /\ R[p] = r.new[1]
  /\ \A p \in 1..Len(text) : (\A r \in S : p < r.start) => p <= Len(R) /\ o[p] = p

LEMMA TracksNothing ==
  ASSUME NEW text \in Seq(Cells)
  PROVE  Tracks([p \in 1..Len(text) |-> p], text, text, {})
<1>1. Len(text) \in Nat /\ \A p \in 1..Len(text) : text[p] \in Cells \cup Marks
  BY LenProperties, ElementOfSeq
<1>2. text \in Seq(Cells \cup Marks)  BY <1>1, IsASeq, LenProperties
<1> QED  BY <1>1, <1>2 DEF Tracks, Marked, KeptAt

LEMMA SpliceStep ==
  ASSUME NEW text \in Seq(Cells), NEW S \in SUBSET EditsOf(text), NEW r \in EditsOf(text),
         \A q \in S : r.end <= q.start, NEW o, NEW R, Tracks(o, R, text, S)
  PROVE  \E oo : Tracks(oo, Splice(R, r), text, S \cup {r})
<1> DEFINE a == r.start
           b == r.end
           n == b - a - 1
           N == Splice(R, r)
           L == Len(R)
           oo == [p \in 1..Len(N) |-> IF p <= a THEN p ELSE o[p + n]]
           SS == S \cup {r}
<1>1. Len(text) \in Nat /\ R \in Seq(Cells \cup Marks) /\ L \in Nat
  BY LenProperties DEF Tracks
<1>2. /\ a \in Nat /\ b \in Nat /\ 1 <= a /\ a < b /\ b <= Len(text) + 1
      /\ r.new[1] \in Marks /\ r.new = <<r.new[1]>>
  BY EditFields
<1>3. \A q \in S : q.start \in Nat /\ q.end \in Nat /\ q.start < q.end /\ b <= q.start
  BY EditFields
<1>4. \A p \in 1..L : o[p] \in 1..Len(text)  BY DEF Tracks
<1>5. ASSUME NEW p \in 1..b - 1 PROVE p <= L /\ o[p] = p
  <2>1. p \in 1..Len(text) /\ \A q \in S : p < q.start  BY <1>1, <1>2, <1>3
  <2> QED  BY <2>1 DEF Tracks
<1>6. b - 1 <= L
  <2>1. b - 1 \in 1..b - 1  BY <1>2
  <2> QED  BY <1>5, <2>1
<1>7. n \in Nat /\ a + n + 1 = b  BY <1>2
<1>8. /\ N \in Seq(Cells \cup Marks) /\ Len(N) = L - n
      /\ \A p \in 1..L - n : N[p] = IF p < a THEN R[p] ELSE IF p = a THEN r.new[1] ELSE R[p + n]
  <2> DEFINE C == Cells \cup Marks
             m == r.new[1]
  <2>1. m \in C /\ r.end <= Len(R) + 1 /\ R \in Seq(C)  BY <1>1, <1>2, <1>6
  <2>2. r.new = <<m>> /\ r.start \in Nat /\ r.end \in Nat /\ 1 <= r.start /\ r.start < r.end  BY <1>2
  <2> HIDE DEF C, m
  <2>3. /\ Splice(R, r) \in Seq(C) /\ Len(Splice(R, r)) = Len(R) - (r.end - r.start - 1)
        /\ \A p \in 1..Len(R) - (r.end - r.start - 1) :
             Splice(R, r)[p] = IF p < r.start THEN R[p] ELSE IF p = r.start THEN m
                               ELSE R[p + (r.end - r.start - 1)]
    BY <2>1, <2>2, SpliceCells
  <2> QED  BY <2>3 DEF C, m
<1>9. a \in 1..L - n /\ L - n \in Nat  BY <1>1, <1>2, <1>6
<1>10. ASSUME NEW p \in 1..L - n, p > a
       PROVE  /\ p + n \in 1..L /\ p + n >= b /\ oo[p] = o[p + n] /\ N[p] = R[p + n]
              /\ o[p + n] >= b /\ o[p + n] \in 1..Len(text)
  <2>1. p + n \in 1..L /\ p + n >= b /\ ~(p <= a) /\ ~(p < a) /\ p # a
    BY <1>1, <1>2, <1>10
  <2>2. b - 1 \in 1..L /\ o[b - 1] = b - 1 /\ b - 1 < p + n  BY <1>2, <1>5, <1>6, <1>1, <2>1, SMTT(30)
  <2>3. o[b - 1] < o[p + n]  BY <2>1, <2>2 DEF Tracks
  <2>4. o[p + n] \in 1..Len(text)  BY <1>4, <2>1
  <2>5. o[p + n] >= b  BY <1>2, <2>2, <2>3, <2>4
  <2>6. oo[p] = o[p + n] /\ N[p] = R[p + n]  BY <1>8, <2>1
  <2> QED  BY <2>1, <2>4, <2>5, <2>6
<1>11. ASSUME NEW p \in 1..L - n, p < a
       PROVE  p \in 1..L /\ p \in 1..b - 1 /\ oo[p] = p /\ o[p] = p /\ N[p] = R[p]
  <2>1. p \in 1..L /\ p \in 1..b - 1 /\ p <= a  BY <1>1, <1>2, <1>7, <1>11, SMTT(30)
  <2> QED  BY <1>5, <1>8, <1>11, <2>1
<1>12. oo[a] = a /\ N[a] = r.new[1]  BY <1>8, <1>9, <1>2
<1>13. oo = [p \in 1..Len(N) |-> oo[p]]  OBVIOUS
<1> HIDE DEF a, b, n, N, L, oo, SS
<1>14. \A p \in 1..L - n : p < a \/ p = a \/ p > a  BY <1>2
<1>15. oo \in [1..Len(N) -> 1..Len(text)]
  <2>1. ASSUME NEW p \in 1..L - n PROVE oo[p] \in 1..Len(text)
    <3>1. CASE p < a  BY <1>4, <1>11, <3>1
    <3>2. CASE p = a  BY <1>1, <1>2, <1>12, <3>2
    <3>3. CASE p > a  BY <1>10, <3>3
    <3> QED  BY <1>14, <3>1, <3>2, <3>3
  <2> QED  BY <1>8, <1>13, <2>1
<1>16. ASSUME NEW p \in 1..Len(N), NEW q \in 1..Len(N), p < q PROVE oo[p] < oo[q]
  <2>1. p \in 1..L - n /\ q \in 1..L - n /\ p \in Nat /\ q \in Nat  BY <1>8
  <2>2. CASE q <= a
    <3>1. p < a /\ (q < a \/ q = a)  BY <1>2, <1>16, <2>1, <2>2
    <3> QED  BY <1>11, <1>12, <1>16, <2>1, <3>1
  <2>3. CASE ~(q <= a) /\ p <= a
    <3>1. q > a /\ (p < a \/ p = a)  BY <1>2, <2>1, <2>3
    <3>2. oo[p] = p  BY <1>11, <1>12, <2>1, <3>1
    <3>3. oo[q] = o[q + n] /\ o[q + n] >= b /\ o[q + n] \in 1..Len(text)  BY <1>10, <2>1, <3>1
    <3> QED  BY <1>2, <2>1, <2>3, <3>2, <3>3
  <2>4. CASE ~(p <= a)
    <3>1. p > a /\ q > a /\ p + n < q + n  BY <1>2, <1>7, <1>16, <2>1, <2>4
    <3>2. /\ p + n \in 1..L /\ q + n \in 1..L /\ oo[p] = o[p + n] /\ oo[q] = o[q + n]
      BY <1>10, <2>1, <3>1
    <3> QED  BY <3>1, <3>2 DEF Tracks, L
  <2> QED  BY <2>2, <2>3, <2>4
<1>17. Marked(oo, N, SS, a)  BY <1>12 DEF Marked, SS, a
<1>18. ASSUME NEW p \in 1..L, NEW t \in 1..L - n, oo[t] = o[p], N[t] = R[p], Marked(o, R, S, p)
       PROVE  Marked(oo, N, SS, t)
  BY <1>18 DEF Marked, SS
<1>19. ASSUME NEW p \in 1..Len(N) PROVE Marked(oo, N, SS, p) \/ KeptAt(oo, N, text, SS, p)
  <2>1. p \in 1..L - n  BY <1>8
  <2>2. CASE p = a  BY <1>17, <2>2
  <2>3. CASE p < a
    <3>1. p \in 1..L /\ oo[p] = o[p] /\ N[p] = R[p] /\ oo[p] < a  BY <1>11, <2>1, <2>3
    <3>2. CASE Marked(o, R, S, p)  BY <1>18, <2>1, <3>1, <3>2
    <3>3. CASE KeptAt(o, R, text, S, p)
      BY <3>1, <3>3 DEF KeptAt, SS, a
    <3> QED  BY <3>1, <3>2, <3>3 DEF Tracks, L
  <2>4. CASE p > a
    <3> DEFINE q == p + n
    <3>1. q \in 1..L /\ oo[p] = o[q] /\ N[p] = R[q] /\ oo[p] >= b /\ oo[p] \in 1..Len(text)
      BY <1>10, <2>1, <2>4
    <3> HIDE DEF q
    <3>2. CASE Marked(o, R, S, q)  BY <1>18, <2>1, <3>1, <3>2
    <3>3. CASE KeptAt(o, R, text, S, q)
      <4>1. b <= oo[p]  BY <1>2, <3>1
      <4> QED  BY <3>1, <3>3, <4>1 DEF KeptAt, SS, b
    <3> QED  BY <3>1, <3>2, <3>3 DEF Tracks, L
  <2> QED  BY <1>14, <2>1, <2>2, <2>3, <2>4
<1>20. ASSUME NEW p \in 1..Len(N) - 1 PROVE Marked(oo, N, SS, p) \/ oo[p + 1] = oo[p] + 1
  <2>1. p \in 1..L - n /\ p + 1 \in 1..L - n /\ p \in Nat  BY <1>8, <1>9
  <2>2. CASE p = a  BY <1>17, <2>2
  <2>3. CASE p < a
    <3>1. p + 1 < a \/ p + 1 = a  BY <1>2, <2>1, <2>3
    <3> QED  BY <1>11, <1>12, <2>1, <2>3, <3>1
  <2>4. CASE p > a
    <3> DEFINE q == p + n
    <3>1. /\ q \in 1..L /\ oo[p] = o[q] /\ N[p] = R[q]
      BY <1>10, <2>1, <2>4
    <3>2. p + 1 > a /\ (p + 1) + n = q + 1  BY <1>2, <1>7, <2>1, <2>4
    <3>3. q + 1 \in 1..L /\ oo[p + 1] = o[q + 1]
      <4>1. (p + 1) + n \in 1..L /\ oo[p + 1] = o[(p + 1) + n]  BY <1>10, <2>1, <3>2
      <4> QED  BY <3>2, <4>1
    <3>4. q \in 1..L - 1  BY <1>1, <3>1, <3>3
    <3> HIDE DEF q
    <3>5. CASE Marked(o, R, S, q)  BY <1>18, <2>1, <3>1, <3>5
    <3>6. CASE o[q + 1] = o[q] + 1  BY <3>1, <3>3, <3>6
    <3> QED  BY <3>4, <3>5, <3>6 DEF Tracks, L
  <2> QED  BY <1>14, <2>1, <2>2, <2>3, <2>4
<1>21. ASSUME NEW q \in SS PROVE \E p \in 1..Len(N) : oo[p] = q.start /\ N[p] = q.new[1]
  <2>1. CASE q = r  BY <1>8, <1>9, <1>12, <2>1 DEF a
  <2>2. CASE q \in S
    <3>1. PICK p \in 1..L : o[p] = q.start /\ R[p] = q.new[1]  BY <2>2 DEF Tracks, L
    <3>2. q.start >= b /\ q.start \in Nat  BY <1>2, <1>3, <2>2
    <3>3. p >= b
      <4>1. CASE p <= b - 1
        <5>1. p \in 1..b - 1  BY <1>1, <1>2, <4>1
        <5> QED  BY <1>2, <1>5, <3>1, <3>2, <5>1
      <4> QED  BY <1>1, <1>2, <4>1
    <3> DEFINE t == p - n
    <3>4. t \in 1..L - n /\ t > a /\ t + n = p  BY <1>1, <1>2, <1>7, <3>3
    <3>5. oo[t] = o[t + n] /\ N[t] = R[t + n]  BY <1>10, <3>4
    <3> HIDE DEF t
    <3> QED  BY <1>8, <3>1, <3>4, <3>5
  <2> QED  BY <2>1, <2>2 DEF SS
<1>22. ASSUME NEW p \in 1..Len(text), \A q \in SS : p < q.start
       PROVE  p <= Len(N) /\ oo[p] = p
  <2>1. p < a  BY <1>22 DEF SS, a
  <2>2. p \in 1..L - n  BY <1>1, <1>2, <1>9, <2>1
  <2> QED  BY <1>1, <1>8, <1>9, <1>11, <2>1, <2>2
<1>23. Tracks(oo, N, text, SS)
  BY <1>8, <1>15, <1>16, <1>19, <1>20, <1>21, <1>22 DEF Tracks
<1> QED  BY <1>23 DEF SS, N

LEMMA ReversedEdits ==
  ASSUME NEW E, NEW s \in Seq(E)
  PROVE  /\ Reverse(s) \in Seq(E) /\ Len(Reverse(s)) = Len(s)
         /\ \A k \in 1..Len(s) : Reverse(s)[k] = s[Len(s) - k + 1]
<1> DEFINE r == Reverse(s)
<1>1. Len(s) \in Nat /\ \A k \in 1..Len(s) : s[k] \in E  BY LenProperties, ElementOfSeq
<1>2. r = [k \in 1..Len(s) |-> s[Len(s) - k + 1]]
  <2>1. \A k \in 1..Len(s) : (Len(s) - k) + 1 = Len(s) - k + 1  BY <1>1
  <2> QED  BY <2>1 DEF Reverse
<1>3. \A k \in 1..Len(s) : Len(s) - k + 1 \in 1..Len(s)  BY <1>1
<1>4. \A k \in 1..Len(s) : r[k] = s[Len(s) - k + 1] /\ r[k] \in E  BY <1>1, <1>2, <1>3
<1>5. r = [k \in 1..Len(s) |-> r[k]]  BY <1>2
<1> HIDE DEF r
<1>6. r \in [1..Len(s) -> E]  BY <1>4, <1>5
<1>7. r \in Seq(E) /\ Len(r) = Len(s)  BY <1>1, <1>6, IsASeq
<1> QED  BY <1>4, <1>7 DEF r

LEMMA EditsAreTracked ==
  ASSUME NEW text \in Seq(Cells), NEW rs \in Seq(EditsOf(text)), Apart(rs)
  PROVE  \E o : Tracks(o, ApplyReplacements(text, rs), text, Range(rs))
<1> DEFINE s == Reverse(rs)
           n == Len(rs)
           done(k) == {rs[j] : j \in n - k + 1..n}
<1>1. /\ n \in Nat /\ s \in Seq(EditsOf(text)) /\ Len(s) = n
      /\ \A k \in 1..n : s[k] = rs[n - k + 1]
  BY LenProperties, ReversedEdits
<1>2. \A j \in 1..n : rs[j] \in EditsOf(text)  BY ElementOfSeq
<1> HIDE DEF s, n, done
<1>3. PICK w : /\ w[0] = text /\ w[Len(s)] = Splicing!Fold(text, s)
               /\ \A k \in 1..Len(s) : w[k] = Splice(w[k - 1], s[k])
  <2> DEFINE E == EditsOf(text)
  <2>1. s \in Seq(E)  BY <1>1
  <2> HIDE DEF E
  <2> QED  BY <2>1, Splicing!FoldWalks
<1> USE DEF done
<1> DEFINE Good(k) == \E o : Tracks(o, w[k], text, done(k))
           T == {k \in 0..n : Good(k)}
<1>4. 0 \in T
  <2>1. done(0) = {}  BY <1>1
  <2>2. Good(0)  BY <1>3, <2>1, TracksNothing
  <2> HIDE DEF Good
  <2> QED  BY <1>1, <2>2
<1>5. ASSUME NEW k \in 1..n, k - 1 \in T PROVE k \in T
  <2> DEFINE j == n - k + 1
             S == done(k - 1)
             r == rs[j]
  <2>1. j \in 1..n /\ k \in Nat  BY <1>1
  <2>2. w[k] = Splice(w[k - 1], r) /\ r \in EditsOf(text)  BY <1>1, <1>2, <1>3, <2>1
  <2>3. S \in SUBSET EditsOf(text)
    <3>1. \A i \in n - (k - 1) + 1..n : i \in 1..n  BY <1>1
    <3> QED  BY <1>2, <3>1
  <2>4. \A q \in S : r.end <= q.start
    <3>1. \A i \in n - (k - 1) + 1..n : i \in 1..Len(rs) /\ j \in 1..Len(rs) /\ j < i  BY <1>1 DEF n
    <3> QED  BY <3>1 DEF Apart
  <2>5. done(k) = S \cup {r}
    <3>1. \A i : i \in n - k + 1..n <=> i \in n - (k - 1) + 1..n \/ i = j  BY <1>1
    <3> QED  BY <3>1
  <2>6. PICK o : Tracks(o, w[k - 1], text, S)  BY <1>5
  <2> HIDE DEF S, r, j
  <2>7. \E oo : Tracks(oo, Splice(w[k - 1], r), text, S \cup {r})
    BY <2>2, <2>3, <2>4, <2>6, SpliceStep
  <2>8. Good(k)  BY <2>2, <2>5, <2>7
  <2> HIDE DEF Good
  <2> QED  BY <1>1, <2>8
<1> HIDE DEF T, Good
<1>6. \A k \in 0..n : k \in T  BY <1>1, <1>4, <1>5, Splicing!UpTo
<1>7. Good(n)  BY <1>1, <1>6 DEF T
<1>8. done(n) = Range(rs)
  <2>1. DOMAIN rs = 1..n /\ n - n + 1 = 1  BY <1>1, LenProperties DEF n
  <2> QED  BY <2>1 DEF Range
<1>9. w[n] = ApplyReplacements(text, rs)
  BY <1>1, <1>3 DEF s, ApplyReplacements, Splicing!Fold, FoldLeft, Splicing!FoldLeft, MapThenFoldSet,
     Splicing!MapThenFoldSet, Max, Splicing!Max
<1> HIDE DEF done
<1> QED  BY <1>7, <1>8, <1>9 DEF Good

-----------------------------------------------------------------------------
(* What is left of a value that was detected and protected.                *)

LEMMA OccurrencesAreFinite ==
  ASSUME NEW E, NEW text \in Seq(E), NEW v, Len(v) \in Nat
  PROVE  IsFiniteSet(Occurrences(v, text)) /\ Cardinality(Occurrences(v, text)) \in Nat
<1>1. Len(text) \in Nat  BY LenProperties
<1>2. IsFiniteSet(1..Len(text) - Len(v) + 1)  BY <1>1, FS_Interval
<1>3. Occurrences(v, text) \in SUBSET (1..Len(text) - Len(v) + 1)  BY DEF Occurrences
<1> QED  BY <1>2, <1>3, FS_Subset, FS_CardinalityType

\* A word of detectable cells that stands in the result stood in the text, as
\* many places further as the marks before it are shorter than what they hide.
LEMMA WordsKeepTheirOrigin ==
  ASSUME NEW text \in Seq(Cells), NEW S \in SUBSET EditsOf(text), NEW o, NEW R, Tracks(o, R, text, S),
         NEW p \in 1..Len(R), NEW n \in Nat, p + n <= Len(R), \A i \in 0..n : R[p + i] \in Detectable
  PROVE  \A i \in 0..n : /\ o[p + i] = o[p] + i /\ R[p + i] = text[o[p] + i]
                         /\ \A r \in S : o[p] + i < r.start \/ r.end <= o[p] + i
<1>1. Len(R) \in Nat /\ Len(text) \in Nat  BY LenProperties DEF Tracks
<1>2. \A i \in 0..n : p + i \in 1..Len(R)  BY <1>1
<1>3. ASSUME NEW i \in 0..n PROVE ~Marked(o, R, S, p + i)
  BY MarksAreNotDetected, EditFields DEF Marked
<1> DEFINE T == {i \in 0..n : o[p + i] = o[p] + i}
<1>4. 0 \in T
  <2>1. o[p] \in Nat /\ p + 0 = p  BY <1>1 DEF Tracks
  <2> QED  BY <2>1
<1>5. ASSUME NEW i \in 1..n, i - 1 \in T PROVE i \in T
  <2> DEFINE q == p + (i - 1)
  <2>1. q \in 1..Len(R) - 1 /\ q + 1 = p + i /\ i - 1 \in 0..n /\ i \in 0..n  BY <1>1
  <2>2. o[q + 1] = o[q] + 1
    <3>1. ~Marked(o, R, S, q)  BY <1>3, <2>1
    <3> HIDE DEF q
    <3> QED  BY <2>1, <3>1 DEF Tracks
  <2>3. o[q] = o[p] + (i - 1)  BY <1>5
  <2>5. o[p] \in Nat  BY <1>1 DEF Tracks
  <2>4. o[p + i] = (o[p] + (i - 1)) + 1  BY <2>1, <2>2, <2>3
  <2> HIDE DEF q
  <2> QED  BY <2>1, <2>4, <2>5
<1> HIDE DEF T
<1>6. \A i \in 0..n : i \in T  BY <1>4, <1>5, Splicing!UpTo
<1>7. ASSUME NEW i \in 0..n PROVE KeptAt(o, R, text, S, p + i)
  BY <1>2, <1>3 DEF Tracks
<1> QED  BY <1>6, <1>7 DEF T, KeptAt

\* v is the word of n + 1 cells at position p of s.
Reads(v, n, s, p) == Len(v) = n + 1 /\ \A i \in 0..n : v[i + 1] = s[p + i]

LEMMA DetectedWord ==
  ASSUME NEW E, NEW text \in Seq(E), NEW d \in Detections(text),
         NEW v, v = SubSeq(text, d.start, d.end - 1)
  PROVE  /\ v \in Seq(Detectable)
         /\ \E n \in Nat : n + 1 = d.end - d.start /\ Reads(v, n, text, d.start)
<1>1. /\ d.start \in Nat /\ d.end \in Nat /\ 1 <= d.start /\ d.start < d.end
      /\ \A i \in d.start..d.end - 1 : text[i] \in Detectable
  BY DetectionFields
<1>2. /\ v \in Seq(Detectable) /\ Len(v) = (d.end - 1) - d.start + 1
      /\ \A i \in 1..(d.end - 1) - d.start + 1 : v[i] = text[d.start + i - 1]
  BY <1>1, SubSeqProperties, SMTT(30)
<1> DEFINE n == (d.end - d.start) - 1
<1>3. n \in Nat /\ n + 1 = d.end - d.start /\ Len(v) = n + 1  BY <1>1, <1>2
<1>4. ASSUME NEW i \in 0..n PROVE v[i + 1] = text[d.start + i]
  <2>1. i + 1 \in 1..(d.end - 1) - d.start + 1 /\ d.start + (i + 1) - 1 = d.start + i
    BY <1>1, <1>3, SMTT(30)
  <2> QED  BY <1>2, <2>1
<1> HIDE DEF n
<1>5. Reads(v, n, text, d.start)  BY <1>3, <1>4 DEF Reads
<1> QED  BY <1>2, <1>3, <1>5

LEMMA WordStands ==
  ASSUME NEW E, NEW s \in Seq(E), NEW F, NEW v \in Seq(F), NEW p \in Nat
  PROVE  p \in Occurrences(v, s) <=>
           1 <= p /\ p + Len(v) <= Len(s) + 1 /\ \A i \in 0..Len(v) - 1 : s[p + i] = v[i + 1]
<1> DEFINE n == Len(v)
           w == SubSeq(s, p, p + n - 1)
<1>1. n \in Nat /\ Len(s) \in Nat  BY LenProperties
<1>2. p \in Occurrences(v, s) <=> p \in 1..Len(s) - n + 1 /\ w = v  BY DEF Occurrences
<1>3. p \in 1..Len(s) - n + 1 <=> 1 <= p /\ p + n <= Len(s) + 1  BY <1>1
<1>4. ASSUME 1 <= p, p + n <= Len(s) + 1
      PROVE  w = v <=> \A i \in 0..n - 1 : s[p + i] = v[i + 1]
  <2>1. \A i \in p..p + n - 1 : s[i] \in E
    <3>1. \A i \in p..p + n - 1 : i \in 1..Len(s)  BY <1>1, <1>4
    <3> QED  BY <3>1, ElementOfSeq
  <2>2. /\ w \in Seq(E) /\ Len(w) = n
        /\ \A i \in 1..n : w[i] = s[p + i - 1]
    <3>1. p \in Int /\ p + n - 1 \in Int /\ (p + n - 1) - p + 1 = n  BY <1>1
    <3>2. /\ w \in Seq(E) /\ Len(w) = IF p <= p + n - 1 THEN (p + n - 1) - p + 1 ELSE 0
          /\ \A i \in 1..(p + n - 1) - p + 1 : w[i] = s[p + i - 1]
      BY <2>1, <3>1, SubSeqProperties
    <3> QED  BY <1>1, <3>1, <3>2
  <2> HIDE DEF w
  <2>3. w = v <=> \A i \in 1..n : w[i] = v[i]
    <3>1. w \in Seq(E \cup F) /\ v \in Seq(E \cup F)
      <4>1. \A i \in 1..n : w[i] \in E \cup F /\ v[i] \in E \cup F  BY <2>2, ElementOfSeq
      <4> QED  BY <1>1, <2>2, <4>1, IsASeq, LenProperties
    <3> QED  BY <2>2, <3>1, SeqEqual
  <2>4. ASSUME \A i \in 1..n : w[i] = v[i], NEW i \in 0..n - 1 PROVE s[p + i] = v[i + 1]
    <3>1. i + 1 \in 1..n /\ p + (i + 1) - 1 = p + i  BY <1>1
    <3> QED  BY <2>2, <2>4, <3>1
  <2>5. ASSUME \A i \in 0..n - 1 : s[p + i] = v[i + 1], NEW i \in 1..n PROVE w[i] = v[i]
    <3>1. i - 1 \in 0..n - 1 /\ p + (i - 1) = p + i - 1 /\ (i - 1) + 1 = i  BY <1>1
    <3>2. s[p + (i - 1)] = v[(i - 1) + 1]  BY <2>5, <3>1
    <3> QED  BY <2>2, <3>1, <3>2
  <2> QED  BY <2>3, <2>4, <2>5
<1> HIDE DEF w, n
<1> QED  BY <1>2, <1>3, <1>4 DEF n

LEMMA WordReads ==
  ASSUME NEW E, NEW s \in Seq(E), NEW F, NEW v \in Seq(F), NEW n \in Nat, NEW p \in Nat
  PROVE  Len(v) = n + 1 =>
           (p \in Occurrences(v, s) <=> 1 <= p /\ p + n <= Len(s) /\ Reads(v, n, s, p))
<1>1. Len(s) \in Nat  BY LenProperties
<1>2. p \in Occurrences(v, s) <=>
        1 <= p /\ p + Len(v) <= Len(s) + 1 /\ \A i \in 0..Len(v) - 1 : s[p + i] = v[i + 1]
  BY WordStands
<1>3. ASSUME Len(v) = n + 1 PROVE Len(v) - 1 = n /\ (p + Len(v) <= Len(s) + 1 <=> p + n <= Len(s))
  BY <1>1, <1>3
<1> QED  BY <1>2, <1>3 DEF Reads

\* A word without marks stands in the result no more often than in the text
\* where none of the cells H that an edit covers lies at its start.
LEMMA HiddenWordIsRarer ==
  ASSUME NEW text \in Seq(Cells), NEW S \in SUBSET EditsOf(text), NEW o, NEW R, Tracks(o, R, text, S),
         NEW v \in Seq(Detectable), NEW n \in Nat, Len(v) = n + 1,
         NEW H \in SUBSET Nat, \A a \in H : \E r \in S : r.start <= a /\ a < r.end
  PROVE  Cardinality(Occurrences(v, R)) <= Cardinality(Occurrences(v, text) \ H)
<1> DEFINE A == Occurrences(v, R)
           B == Occurrences(v, text)
           f == [p \in A |-> o[p]]
<1>2. R \in Seq(Cells \cup Marks) /\ Len(R) \in Nat /\ Len(text) \in Nat
      /\ \A p \in 1..Len(R) : o[p] \in 1..Len(text)
  BY LenProperties DEF Tracks
<1>4. /\ \A p \in Nat : p \in A <=> 1 <= p /\ p + n <= Len(R) /\ Reads(v, n, R, p)
      /\ \A p \in Nat : p \in B <=> 1 <= p /\ p + n <= Len(text) /\ Reads(v, n, text, p)
  BY <1>2, WordReads
<1>5. IsFiniteSet(A) /\ IsFiniteSet(B) /\ A \in SUBSET Nat
  <2>1. Len(v) \in Nat  BY LenProperties
  <2>2. A \in SUBSET Nat  BY <1>2, <2>1 DEF Occurrences
  <2> QED  BY <1>2, <2>1, <2>2, OccurrencesAreFinite
<1> HIDE DEF A, B, f
<1>6. ASSUME NEW p \in A PROVE p \in 1..Len(R) /\ o[p] \in B /\ o[p] \notin H
  <2>1. p \in 1..Len(R) /\ p + n <= Len(R) /\ Reads(v, n, R, p)  BY <1>2, <1>4, <1>5
  <2>2. \A i \in 0..n : R[p + i] \in Detectable
    <3>1. \A i \in 0..n : i + 1 \in 1..Len(v)  OBVIOUS
    <3>2. \A i \in 0..n : R[p + i] = v[i + 1]  BY <2>1 DEF Reads
    <3> QED  BY <3>1, <3>2, ElementOfSeq
  <2>3. \A i \in 0..n : /\ o[p + i] = o[p] + i /\ R[p + i] = text[o[p] + i]
                        /\ \A q \in S : o[p] + i < q.start \/ q.end <= o[p] + i
    BY <2>1, <2>2, WordsKeepTheirOrigin
  <2>4. o[p] \in 1..Len(text) /\ o[p] + n \in 1..Len(text)
    <3>1. n \in 0..n /\ p + n \in 1..Len(R)  BY <1>2, <2>1
    <3>2. o[p + n] = o[p] + n  BY <2>3, <3>1
    <3> QED  BY <1>2, <2>1, <3>1, <3>2
  <2>5. Reads(v, n, text, o[p])  BY <2>1, <2>3 DEF Reads
  <2> DEFINE x == o[p]
  <2>6. x \in Nat /\ 1 <= x /\ x + n <= Len(text) /\ x + 0 = x  BY <1>2, <2>4
  <2>7. \A r \in S : x < r.start \/ r.end <= x
    <3>1. \A r \in S : x + 0 < r.start \/ r.end <= x + 0  BY <2>3
    <3> QED  BY <2>6, <3>1
  <2> HIDE DEF x
  <2>8. ASSUME x \in H PROVE FALSE
    <3>1. PICK r \in S : r.start <= x /\ x < r.end  BY <2>8
    <3>2. r.start \in Nat /\ r.end \in Nat  BY EditFields
    <3> QED  BY <2>6, <2>7, <3>1, <3>2
  <2>9. x \in B  BY <1>4, <2>5, <2>6 DEF x
  <2> QED  BY <2>1, <2>8, <2>9 DEF x
<1> USE DEF f
<1>7. f \in Injection(A, B \ H)
  <2>1. \A p \in A : f[p] = o[p]  OBVIOUS
  <2>2. f \in [A -> B \ H]  BY <1>6
  <2> HIDE DEF f
  <2>3. ASSUME NEW p \in A, NEW q \in A, f[p] = f[q] PROVE p = q
    <3>1. p \in 1..Len(R) /\ q \in 1..Len(R) /\ o[p] = o[q]  BY <1>6, <2>1, <2>3
    <3>2. ~(p < q) /\ ~(q < p)  BY <1>2, <3>1 DEF Tracks
    <3> QED  BY <1>2, <3>1, <3>2
  <2> QED  BY <2>2, <2>3 DEF Injection, IsInjective
<1> HIDE DEF f
<1>8. IsFiniteSet(B \ H)
  <2>1. B \ H \in SUBSET B  OBVIOUS
  <2> QED  BY <1>5, <2>1, FS_Subset
<1>9. Cardinality(A) <= Cardinality(B \ H)  BY <1>5, <1>7, <1>8, FS_Injection
<1> QED  BY <1>9 DEF A, B

-----------------------------------------------------------------------------
(* The walk over the body.  While the values of a leaf are being replaced, *)
(* the replacements answer to the detections that have left the queue; a   *)
(* leaf that is done is its text with replacements that answer to all.     *)

ChosenIn(text) == ResolveOverlaps(found[text])

\* The replacement r stands for the detection d in the text.
Stands(r, d, text) ==
  /\ r.start = d.start /\ r.end = d.end
  /\ \/ Does("block", d) /\ r.new = <<BlockMark(d.kind)>>
     \/ /\ Does("pseudonymize", d)
        /\ SubSeq(text, d.start, d.end - 1) \in DOMAIN fwd
        /\ r.new = <<fwd[SubSeq(text, d.start, d.end - 1)]>>

\* The replacements answer to the first n detections of c.
Answers(rs, text, c, n) ==
  /\ \A i \in 1..Len(rs) : \E j \in 1..n : Stands(rs[i], c[j], text)
  /\ \A j \in 1..n : ~Does("forward", c[j]) => \E i \in 1..Len(rs) : Stands(rs[i], c[j], text)

Working ==
  /\ json /\ Len(masked) < Len(body) /\ Leaf.str /\ Leaf.text \in DOMAIN found
  /\ repls \in Seq(EditsOf(Leaf.text)) /\ Apart(repls)
  /\ \E c : \E n \in 0..Len(c) :
       /\ c = ChosenIn(Leaf.text) /\ queue = SubSeq(c, n + 1, Len(c))
       /\ Answers(repls, Leaf.text, c, n)

Edited(text, result) ==
  /\ text \in DOMAIN found
  /\ \E c : \E rs \in Seq(EditsOf(text)) :
       /\ c = ChosenIn(text) /\ Apart(rs) /\ Answers(rs, text, c, Len(c))
       /\ result = ApplyReplacements(text, rs)

Walks(i) ==
  IF json /\ body[i].str THEN Edited(body[i].text, masked[i]) ELSE masked[i] = body[i].text

FwdInv ==
  /\ IsFiniteSet(DOMAIN fwd) /\ DOMAIN fwd \subseteq Seq(Detectable)
  /\ \A r \in DOMAIN fwd :
       \E k \in Range(Scanners) : \E n \in 1..Cardinality(DOMAIN fwd) : fwd[r] = Token(k, n)

FoundInv ==
  \A text \in DOMAIN found :
    text \in Seq(Cells) /\ found[text] \subseteq Detections(text) /\ IsFiniteSet(found[text])

MaskInv ==
  /\ pc \in {"walk", "replace", "done", "failed"} /\ json \in BOOLEAN /\ body \in Bodies
  /\ masked \in Seq(Seq(Cells \cup Marks)) /\ Len(masked) <= Len(body)
  /\ applied \in Seq(Range(Scanners) \X {"pseudonymize", "block"})
  /\ FwdInv /\ FoundInv
  /\ pc = "replace" => Working
  /\ pc # "replace" => repls = <<>>
  /\ \A i \in 1..Len(masked) : Walks(i)

LEMMA LeafTyped ==
  ASSUME NEW b \in Bodies
  PROVE  /\ Len(b) \in Nat
         /\ \A i \in 1..Len(b) : b[i].text \in Seq(Cells) /\ b[i].str \in BOOLEAN
<1> DEFINE A == [text : Seq(Cells), str : BOOLEAN]
<1>1. b \in Seq(A)  BY BodiesType
<1>2. \A i \in 1..Len(b) : b[i] \in A  BY <1>1, ElementOfSeq
<1> QED  BY <1>1, <1>2, LenProperties

LEMMA MarkForms ==
  ASSUME NEW k \in Range(Scanners), NEW n \in Nat
  PROVE  Token(k, n) \in Marks /\ BlockMark(k) \in Marks
BY DEF Token, BlockMark, Marks

LEMMA ScansAreFinite ==
  ASSUME NEW E, NEW text \in Seq(E), NEW D \in Scans(text)
  PROVE  D \subseteq Detections(text) /\ IsFiniteSet(D)
<1>1. CASE D = {}  BY <1>1, FS_EmptySet
<1>2. ASSUME NEW s \in [1..MaxFound -> Detections(text)], D = Range(s)
      PROVE  D \subseteq Detections(text) /\ IsFiniteSet(D)
  <2>1. MaxFound \in Nat /\ IsFiniteSet(1..MaxFound)  BY ScannersType, FS_Interval
  <2>2. D \subseteq Detections(text)  BY <1>2 DEF Range
  <2>3. s \in Surjection(1..MaxFound, D)
    <3>1. \A x \in D : \E i \in 1..MaxFound : s[i] = x  BY <1>2 DEF Range
    <3>2. s \in [1..MaxFound -> D]  BY <1>2 DEF Range
    <3> QED  BY <3>1, <3>2 DEF Surjection
  <2> QED  BY <2>1, <2>2, <2>3, FS_Surjection
<1>3. D = {} \/ \E s \in [1..MaxFound -> Detections(text)] : D = Range(s)  BY DEF Scans
<1> QED  BY <1>1, <1>2, <1>3

LEMMA EditedTyped ==
  ASSUME NEW text \in Seq(Cells), NEW rs \in Seq(EditsOf(text)), Apart(rs)
  PROVE  ApplyReplacements(text, rs) \in Seq(Cells \cup Marks)
<1>1. PICK o : Tracks(o, ApplyReplacements(text, rs), text, Range(rs))  BY EditsAreTracked
<1> QED  BY <1>1 DEF Tracks

LEMMA MaskInvTypes == MaskInv => TypeOK
<1> SUFFICES ASSUME MaskInv PROVE TypeOK
  OBVIOUS
<1>1. \A i \in 1..Len(applied) : applied[i] \in Range(Scanners) \X {"pseudonymize", "block"}
  BY ElementOfSeq DEF MaskInv
<1>2. ASSUME NEW i \in 1..Len(repls) PROVE repls[i].start < repls[i].end
  <2>1. pc = "replace"  BY EmptySeq DEF MaskInv
  <2>2. repls \in Seq(EditsOf(Leaf.text))  BY <2>1 DEF MaskInv, Working
  <2>3. repls[i] \in EditsOf(Leaf.text)  BY <2>2, ElementOfSeq
  <2> QED  BY <2>3 DEF EditsOf
<1> QED  BY <1>1, <1>2 DEF MaskInv, FwdInv, TypeOK

LEMMA MaskInvInit == Init => MaskInv
<1> SUFFICES ASSUME Init PROVE MaskInv
  OBVIOUS
<1>1. /\ pc = "walk" /\ json \in BOOLEAN /\ body \in Bodies
      /\ masked = <<>> /\ repls = <<>> /\ applied = <<>>
      /\ DOMAIN fwd = {} /\ DOMAIN found = {}
  BY DEF Init
<1>2. Len(body) \in Nat /\ Len(masked) = 0  BY <1>1, LeafTyped
<1>3. FwdInv  BY <1>1, FS_EmptySet DEF FwdInv
<1>4. FoundInv  BY <1>1 DEF FoundInv
<1> QED  BY <1>1, <1>2, <1>3, <1>4 DEF MaskInv

Grows ==
  /\ policy' = policy
  /\ \A r \in DOMAIN fwd : r \in DOMAIN fwd' /\ fwd'[r] = fwd[r]
  /\ \A t \in DOMAIN found : t \in DOMAIN found' /\ found'[t] = found[t]

LEMMA StandsStays ==
  ASSUME Grows, NEW r, NEW d, NEW text
  PROVE  /\ Stands(r, d, text) => Stands(r, d, text)'
         /\ \A action : Does(action, d)' <=> Does(action, d)
BY DEF Grows, Stands, Does

LEMMA AnswersStay ==
  ASSUME Grows, NEW rs, NEW text, NEW c, NEW n, Answers(rs, text, c, n)
  PROVE  Answers(rs, text, c, n)'
<1>1. \A i \in 1..Len(rs) : \E j \in 1..n : Stands(rs[i], c[j], text)'
  BY StandsStays DEF Answers
<1>2. \A j \in 1..n : ~Does("forward", c[j])' => \E i \in 1..Len(rs) : Stands(rs[i], c[j], text)'
  BY StandsStays DEF Answers
<1> QED  BY <1>1, <1>2 DEF Answers

LEMMA EditedStays ==
  ASSUME Grows, NEW text, NEW result, Edited(text, result)
  PROVE  Edited(text, result)'
<1>1. PICK c : \E rs \in Seq(EditsOf(text)) :
        /\ c = ChosenIn(text) /\ Apart(rs) /\ Answers(rs, text, c, Len(c))
        /\ result = ApplyReplacements(text, rs)
  BY DEF Edited
<1>2. PICK rs \in Seq(EditsOf(text)) :
        /\ c = ChosenIn(text) /\ Apart(rs) /\ Answers(rs, text, c, Len(c))
        /\ result = ApplyReplacements(text, rs)
  BY <1>1
<1>3. text \in DOMAIN found /\ text \in DOMAIN found' /\ ChosenIn(text)' = c
  BY <1>2 DEF Edited, Grows, ChosenIn
<1>4. Answers(rs, text, c, Len(c))'  BY <1>2, AnswersStay
<1> QED  BY <1>2, <1>3, <1>4 DEF Edited

LEMMA WalksStays ==
  ASSUME Grows, UNCHANGED <<json, body>>, NEW i, masked'[i] = masked[i], Walks(i)
  PROVE  Walks(i)'
<1>1. CASE json /\ body[i].str
  <2>1. Edited(body[i].text, masked[i])  BY <1>1 DEF Walks
  <2> DEFINE t == body[i].text
             r == masked[i]
  <2>2. t' = t /\ r' = r  OBVIOUS
  <2>3. \E x, y : x = t /\ y = r /\ Edited(x, y)  BY <2>1
  <2>4. \E x, y : x = t /\ y = r /\ Edited(x, y)'  BY <2>3, EditedStays
  <2> QED  BY <1>1, <2>2, <2>4 DEF Walks
<1>2. CASE ~(json /\ body[i].str)  BY <1>2 DEF Walks
<1> QED  BY <1>1, <1>2

LEMMA PassThroughKeeps == MaskInv /\ PassThrough => MaskInv'
<1> SUFFICES ASSUME MaskInv, PassThrough PROVE MaskInv'
  OBVIOUS
<1>1. Len(body) \in Nat /\ \A i \in 1..Len(body) : body[i].text \in Seq(Cells)
  BY LeafTyped DEF MaskInv
<1>2. masked' = [i \in 1..Len(body) |-> body[i].text] /\ (~json \/ body = <<>>)
      /\ UNCHANGED <<policy, json, body, found, queue, repls, vault, applied>> /\ pc = "walk" /\ pc' = "done"
  BY DEF PassThrough
<1>3. \A i \in 1..Len(body) : body[i].text \in Seq(Cells \cup Marks)
  <2>1. ASSUME NEW i \in 1..Len(body) PROVE body[i].text \in Seq(Cells \cup Marks)
    <3>1. Tracks([p \in 1..Len(body[i].text) |-> p], body[i].text, body[i].text, {})
      BY <1>1, TracksNothing
    <3> QED  BY <3>1 DEF Tracks
  <2> QED  BY <2>1
<1>4. masked' \in Seq(Seq(Cells \cup Marks)) /\ Len(masked') = Len(body)
  <2> DEFINE E == Seq(Cells \cup Marks)
  <2>1. \A i \in 1..Len(body) : body[i].text \in E  BY <1>3
  <2> HIDE DEF E
  <2>2. masked' \in [1..Len(body) -> E]  BY <1>2, <2>1
  <2>3. masked' \in Seq(E) /\ Len(masked') = Len(body)  BY <1>1, <2>2, IsASeq
  <2> QED  BY <2>3 DEF E
<1>5. \A i \in 1..Len(masked') : Walks(i)'
  <2>1. body = <<>> => Len(body) = 0  BY EmptySeq
  <2>2. ASSUME NEW i \in 1..Len(masked') PROVE Walks(i)'
    <3>1. i \in 1..Len(body) /\ ~json  BY <1>1, <1>2, <1>4, <2>1
    <3> QED  BY <1>2, <3>1 DEF Walks
  <2> QED  BY <2>2
<1>6. FwdInv' /\ FoundInv'  BY <1>2 DEF MaskInv, FwdInv, FoundInv, vault
<1> QED  BY <1>1, <1>2, <1>4, <1>5, <1>6 DEF MaskInv

LEMMA SameVault ==
  ASSUME UNCHANGED <<policy, found, vault>>
  PROVE  Grows /\ (FwdInv => FwdInv') /\ (FoundInv => FoundInv')
BY DEF Grows, FwdInv, FoundInv, vault

LEMMA OneMoreLeaf ==
  ASSUME MaskInv, Grows, UNCHANGED <<json, body>>, Len(masked) < Len(body),
         NEW t \in Seq(Cells \cup Marks), masked' = Append(masked, t),
         NEW n, n = Len(masked) + 1, masked'[n] = t => Walks(n)'
  PROVE  /\ masked' \in Seq(Seq(Cells \cup Marks)) /\ Len(masked') <= Len(body)
         /\ \A i \in 1..Len(masked') : Walks(i)'
<1>1. masked \in Seq(Seq(Cells \cup Marks)) /\ body \in Bodies  BY DEF MaskInv
<1>2. Len(masked) \in Nat /\ Len(body) \in Nat  BY <1>1, LenProperties, LeafTyped
<1>3. /\ masked' \in Seq(Seq(Cells \cup Marks)) /\ Len(masked') = Len(masked) + 1
      /\ masked'[Len(masked) + 1] = t
      /\ \A i \in 1..Len(masked) : masked'[i] = masked[i]
  <2> DEFINE E == Seq(Cells \cup Marks)
  <2>1. masked \in Seq(E) /\ t \in E  BY <1>1
  <2> HIDE DEF E
  <2>2. /\ masked' \in Seq(E) /\ Len(masked') = Len(masked) + 1
        /\ masked'[Len(masked) + 1] = t
        /\ \A i \in 1..Len(masked) : masked'[i] = masked[i]
    BY <2>1, AppendProperties
  <2> QED  BY <2>2 DEF E
<1>4. \A i \in 1..Len(masked) : Walks(i)'
  BY <1>3, WalksStays DEF MaskInv
<1>5. ASSUME NEW i \in 1..Len(masked') PROVE Walks(i)'
  <2>1. i \in 1..Len(masked) \/ i = Len(masked) + 1  BY <1>2, <1>3
  <2> QED  BY <1>3, <1>4, <2>1
<1> QED  BY <1>2, <1>3, <1>5

LEMMA KeepLeafKeeps == MaskInv /\ KeepLeaf => MaskInv'
<1> SUFFICES ASSUME MaskInv, KeepLeaf PROVE MaskInv'
  OBVIOUS
<1>1. /\ pc = "walk" /\ Len(masked) < Len(body) /\ ~Leaf.str /\ masked' = Append(masked, Leaf.text)
      /\ UNCHANGED <<policy, json, body, found, pc, queue, repls, vault, applied>>
  BY DEF KeepLeaf
<1>2. /\ masked \in Seq(Seq(Cells \cup Marks)) /\ Len(masked) \in Nat /\ Len(body) \in Nat
      /\ \A i \in 1..Len(body) : body[i].text \in Seq(Cells)
  BY LeafTyped, LenProperties DEF MaskInv
<1>3. Leaf.text \in Seq(Cells \cup Marks)
  <2>1. Leaf.text \in Seq(Cells)  BY <1>1, <1>2 DEF Leaf
  <2>2. Tracks([p \in 1..Len(Leaf.text) |-> p], Leaf.text, Leaf.text, {})  BY <2>1, TracksNothing
  <2> QED  BY <2>2 DEF Tracks
<1>4. Grows /\ FwdInv' /\ FoundInv'  BY <1>1, SameVault DEF MaskInv
<1> PICK n : n = Len(masked) + 1  OBVIOUS
<1>5. masked'[n] = Leaf.text => Walks(n)'
  BY <1>1 DEF Walks, Leaf
<1>6. /\ masked' \in Seq(Seq(Cells \cup Marks)) /\ Len(masked') <= Len(body)
      /\ \A i \in 1..Len(masked') : Walks(i)'
  BY <1>1, <1>3, <1>4, <1>5, OneMoreLeaf
<1> QED  BY <1>1, <1>4, <1>6 DEF MaskInv

LEMMA ScanLeafKeeps == MaskInv /\ ScanLeaf => MaskInv'
<1> SUFFICES ASSUME MaskInv, ScanLeaf PROVE MaskInv'
  OBVIOUS
<1>1. /\ pc = "walk" /\ pc' = "replace" /\ json /\ Len(masked) < Len(body) /\ Leaf.str /\ repls' = <<>>
      /\ UNCHANGED <<policy, json, body, masked, vault, applied>>
  BY DEF ScanLeaf
<1>2. /\ Len(masked) \in Nat /\ Len(body) \in Nat
      /\ \A i \in 1..Len(body) : body[i].text \in Seq(Cells)
  BY LeafTyped, LenProperties DEF MaskInv
<1>3. Leaf.text \in Seq(Cells)  BY <1>1, <1>2 DEF Leaf
<1>4. PICK t : t = Leaf.text  OBVIOUS
<1>5. PICK D : /\ D \in IF t \in DOMAIN found THEN {found[t]} ELSE Scans(t)
               /\ found' = Overlay(found, [x \in {t} |-> D])
               /\ queue' = ResolveOverlaps(D)
  BY <1>4 DEF ScanLeaf
<1>6. D \subseteq Detections(t) /\ IsFiniteSet(D)
  <2>1. CASE t \in DOMAIN found  BY <1>5, <2>1 DEF MaskInv, FoundInv
  <2>2. CASE t \notin DOMAIN found  BY <1>3, <1>4, <1>5, <2>2, ScansAreFinite
  <2> QED  BY <2>1, <2>2
<1>7. /\ DOMAIN found' = DOMAIN found \cup {t} /\ found'[t] = D
      /\ \A x \in DOMAIN found : found'[x] = found[x]
  BY <1>5 DEF Overlay
<1>8. FoundInv'  BY <1>3, <1>4, <1>6, <1>7 DEF MaskInv, FoundInv
<1>9. Grows /\ FwdInv'  BY <1>1, <1>7 DEF Grows, FwdInv, MaskInv, vault
<1>10. \A i \in 1..Len(masked) : Walks(i)'  BY <1>1, <1>9, WalksStays DEF MaskInv
<1>11. Working'
  <2>1. PICK c : c = ResolveOverlaps(D)  OBVIOUS
  <2>2. c \in Seq(D)  BY <1>3, <1>4, <1>6, <2>1, ResolveKeeps
  <2>3. Len(c) \in Nat /\ 0 \in 0..Len(c) /\ SubSeq(c, 0 + 1, Len(c)) = c
    <3>1. Len(c) \in Nat  BY <2>2, LenProperties
    <3> QED  BY <2>2, <3>1, SubSeqFull
  <2>4. Leaf' = Leaf  BY <1>1 DEF Leaf
  <2>5. c = ChosenIn(Leaf.text)'  BY <1>4, <1>7, <2>1, <2>4 DEF ChosenIn
  <2>6. Answers(repls, Leaf.text, c, 0)'  BY <1>1, EmptySeq DEF Answers
  <2>7. repls' \in Seq(EditsOf(Leaf.text)) /\ Apart(repls')  BY <1>1, EmptySeq DEF Apart
  <2>8. queue' = SubSeq(c, 0 + 1, Len(c))  BY <1>5, <2>1, <2>3
  <2> QED  BY <1>1, <1>4, <1>7, <2>3, <2>4, <2>5, <2>6, <2>7, <2>8 DEF Working
<1> QED  BY <1>1, <1>8, <1>9, <1>10, <1>11 DEF MaskInv

LEMMA FinishKeeps == MaskInv /\ Finish => MaskInv'
<1> SUFFICES ASSUME MaskInv, Finish PROVE MaskInv'
  OBVIOUS
<1>1. /\ pc = "walk" /\ pc' \in {"done", "failed"}
      /\ UNCHANGED <<policy, json, body, found, masked, queue, repls, vault, applied>>
  BY DEF Finish
<1>2. Grows /\ FwdInv' /\ FoundInv'  BY <1>1, SameVault DEF MaskInv
<1>3. \A i \in 1..Len(masked) : Walks(i)'  BY <1>1, <1>2, WalksStays DEF MaskInv
<1> QED  BY <1>1, <1>2, <1>3 DEF MaskInv

LEMMA FinishLeafKeeps == MaskInv /\ FinishLeaf => MaskInv'
<1> SUFFICES ASSUME MaskInv, FinishLeaf PROVE MaskInv'
  OBVIOUS
<1>1. /\ pc = "replace" /\ pc' = "walk" /\ queue = <<>> /\ repls' = <<>>
      /\ masked' = Append(masked, ApplyReplacements(Leaf.text, repls))
      /\ UNCHANGED <<policy, json, body, found, queue, vault, applied>>
  BY DEF FinishLeaf
<1>2. /\ Len(masked) \in Nat /\ Len(body) \in Nat
      /\ \A i \in 1..Len(body) : body[i].text \in Seq(Cells)
  BY LeafTyped, LenProperties DEF MaskInv
<1>3. Working  BY <1>1 DEF MaskInv
<1>4. PICK t, rs, R : t = Leaf.text /\ rs = repls /\ R = ApplyReplacements(Leaf.text, repls)
  OBVIOUS
<1>5. /\ t \in Seq(Cells) /\ rs \in Seq(EditsOf(t)) /\ Apart(rs) /\ t \in DOMAIN found
      /\ R = ApplyReplacements(t, rs) /\ R \in Seq(Cells \cup Marks)
  <2>1. t \in Seq(Cells)  BY <1>2, <1>3, <1>4 DEF Working, Leaf
  <2>2. rs \in Seq(EditsOf(t)) /\ Apart(rs) /\ t \in DOMAIN found  BY <1>3, <1>4 DEF Working
  <2>3. R = ApplyReplacements(t, rs)  BY <1>4
  <2> QED  BY <2>1, <2>2, <2>3, EditedTyped
<1>6. PICK c : \E n \in 0..Len(c) :
                 /\ c = ChosenIn(Leaf.text) /\ queue = SubSeq(c, n + 1, Len(c))
                 /\ Answers(repls, Leaf.text, c, n)
  BY <1>3 DEF Working
<1>7. PICK n \in 0..Len(c) : queue = SubSeq(c, n + 1, Len(c)) /\ Answers(repls, Leaf.text, c, n)
  BY <1>6
<1>8. c = ChosenIn(t)  BY <1>4, <1>6
<1>9. c \in Seq(found[t]) /\ Len(c) \in Nat
  <2>1. PICK D : D = found[t]  OBVIOUS
  <2>2. D \in SUBSET Detections(t) /\ IsFiniteSet(D)  BY <1>5, <2>1 DEF MaskInv, FoundInv
  <2>3. ResolveOverlaps(D) \in Seq(D)  BY <1>5, <2>2, ResolveKeeps
  <2> QED  BY <1>8, <2>1, <2>3, LenProperties DEF ChosenIn
<1>10. n = Len(c)
  <2>1. CASE n + 1 <= Len(c)
    <3>1. \A i \in n + 1..Len(c) : c[i] \in found[t]
      <4>1. \A i \in n + 1..Len(c) : i \in 1..Len(c)  BY <1>9
      <4> QED  BY <1>9, <4>1, ElementOfSeq
    <3>2. Len(queue) = Len(c) - (n + 1) + 1  BY <1>7, <1>9, <2>1, <3>1, SubSeqProperties
    <3>3. Len(queue) = 0  BY <1>1, EmptySeq
    <3> QED  BY <1>9, <2>1, <3>2, <3>3
  <2> QED  BY <1>9, <2>1
<1>11. Edited(t, R)
  <2>1. Answers(rs, t, c, Len(c))  BY <1>4, <1>7, <1>10
  <2> QED  BY <1>5, <1>8, <2>1 DEF Edited
<1>12. Grows /\ FwdInv' /\ FoundInv'  BY <1>1, SameVault DEF MaskInv
<1>13. Edited(t, R)'  BY <1>11, <1>12, EditedStays
<1>14. PICK m : m = Len(masked) + 1  OBVIOUS
<1>15. masked'[m] = R => Walks(m)'
  <2>1. body'[m].text = t /\ body'[m].str /\ json'
    BY <1>1, <1>3, <1>4, <1>14 DEF Working, Leaf
  <2> QED  BY <1>13, <2>1 DEF Walks
<1>16. /\ masked' \in Seq(Seq(Cells \cup Marks)) /\ Len(masked') <= Len(body)
       /\ \A i \in 1..Len(masked') : Walks(i)'
  <2>1. masked' = Append(masked, R) /\ Len(masked) < Len(body)  BY <1>1, <1>3, <1>4 DEF Working
  <2> QED  BY <1>1, <1>5, <1>12, <1>14, <1>15, <2>1, OneMoreLeaf
<1> QED  BY <1>1, <1>12, <1>16 DEF MaskInv

LEMMA RestOfQueue ==
  ASSUME NEW E, NEW c \in Seq(E), NEW n \in 0..Len(c), SubSeq(c, n + 1, Len(c)) # <<>>
  PROVE  /\ n + 1 \in 1..Len(c) /\ Head(SubSeq(c, n + 1, Len(c))) = c[n + 1]
         /\ Tail(SubSeq(c, n + 1, Len(c))) = SubSeq(c, (n + 1) + 1, Len(c))
<1> DEFINE q == SubSeq(c, n + 1, Len(c))
           r == SubSeq(c, (n + 1) + 1, Len(c))
<1>1. Len(c) \in Nat /\ n \in Nat /\ \A i \in 1..Len(c) : c[i] \in E  BY LenProperties, ElementOfSeq
<1>2. n + 1 <= Len(c)
  <2>1. Len(c) < n + 1 => q = <<>>  BY <1>1, SubSeqEmpty
  <2> QED  BY <1>1, <2>1
<1>3. /\ q \in Seq(E) /\ Len(q) = Len(c) - n
      /\ \A i \in 1..Len(c) - n : q[i] = c[n + i]
  <2>1. \A i \in n + 1..Len(c) : c[i] \in E  BY <1>1
  <2>2. /\ q \in Seq(E) /\ Len(q) = Len(c) - (n + 1) + 1
        /\ \A i \in 1..Len(c) - (n + 1) + 1 : q[i] = c[(n + 1) + i - 1]
    BY <1>1, <1>2, <2>1, SubSeqProperties
  <2>3. Len(c) - (n + 1) + 1 = Len(c) - n /\ \A i \in 1..Len(c) - n : (n + 1) + i - 1 = n + i
    BY <1>1
  <2> QED  BY <2>2, <2>3
<1>4. /\ r \in Seq(E) /\ Len(r) = Len(c) - n - 1
      /\ \A i \in 1..Len(c) - n - 1 : r[i] = c[n + i + 1]
  <2>1. \A i \in (n + 1) + 1..Len(c) : c[i] \in E  BY <1>1
  <2>2. /\ r \in Seq(E) /\ Len(r) = IF (n + 1) + 1 <= Len(c) THEN Len(c) - ((n + 1) + 1) + 1 ELSE 0
        /\ \A i \in 1..Len(c) - ((n + 1) + 1) + 1 : r[i] = c[((n + 1) + 1) + i - 1]
    BY <1>1, <2>1, SubSeqProperties
  <2>3. /\ Len(c) - ((n + 1) + 1) + 1 = Len(c) - n - 1
        /\ \A i \in 1..Len(c) - n - 1 : ((n + 1) + 1) + i - 1 = n + i + 1
        /\ ~((n + 1) + 1 <= Len(c)) => Len(c) - n - 1 = 0
    BY <1>1, <1>2
  <2> QED  BY <2>2, <2>3
<1> HIDE DEF q, r
<1>5. q # <<>> /\ 1 \in 1..Len(c) - n  BY <1>1, <1>2, <1>3, EmptySeq
<1>6. /\ Head(q) = q[1] /\ Tail(q) \in Seq(E) /\ Len(Tail(q)) = Len(q) - 1
      /\ \A i \in 1..Len(q) - 1 : Tail(q)[i] = q[i + 1]
  BY <1>3, <1>5, HeadTailProperties
<1>7. \A i \in 1..Len(c) - n - 1 : i + 1 \in 1..Len(c) - n /\ n + (i + 1) = n + i + 1  BY <1>1
<1>8. Len(Tail(q)) = Len(r) /\ \A i \in 1..Len(Tail(q)) : Tail(q)[i] = r[i]
  BY <1>1, <1>3, <1>4, <1>6, <1>7
<1>9. Tail(q) = r  BY <1>4, <1>6, <1>8, SeqEqual
<1>10. n + 1 \in 1..Len(c)  BY <1>2
<1>11. q[1] = c[n + 1]  BY <1>3, <1>5
<1>12. Head(q) = c[n + 1]  BY <1>6, <1>11
<1> QED  BY <1>9, <1>10, <1>12 DEF q, r

LEMMA RememberTypes ==
  ASSUME FwdInv, NEW real \in Seq(Detectable), NEW kind \in Range(Scanners), Remember(real, kind)
  PROVE  /\ FwdInv' /\ \A r \in DOMAIN fwd : r \in DOMAIN fwd' /\ fwd'[r] = fwd[r]
         /\ real \in DOMAIN fwd' /\ fwd'[real] = PlaceholderFor(real, kind) /\ fwd'[real] \in Marks
<1> DEFINE n == Cardinality(DOMAIN fwd)
           token == Token(kind, n + 1)
<1>1. n \in Nat /\ IsFiniteSet(DOMAIN fwd)  BY FS_CardinalityType DEF FwdInv
<1>2. CASE real \in DOMAIN fwd
  <2>1. fwd' = fwd  BY <1>2 DEF Remember, vault
  <2>2. PICK k \in Range(Scanners), m \in 1..n : fwd[real] = Token(k, m)  BY <1>2 DEF FwdInv
  <2>3. fwd[real] \in Marks  BY <1>1, <2>2, MarkForms
  <2> QED  BY <1>2, <2>1, <2>3 DEF FwdInv, PlaceholderFor
<1>3. CASE real \notin DOMAIN fwd
  <2>1. fwd' = Overlay(fwd, [r \in {real} |-> token])  BY <1>3 DEF Remember
  <2>2. /\ DOMAIN fwd' = DOMAIN fwd \cup {real} /\ fwd'[real] = token
        /\ \A r \in DOMAIN fwd : fwd'[r] = fwd[r]
    BY <1>3, <2>1 DEF Overlay
  <2>3. IsFiniteSet(DOMAIN fwd') /\ Cardinality(DOMAIN fwd') = n + 1
    BY <1>1, <1>3, <2>2, FS_AddElement
  <2>4. \A r \in DOMAIN fwd : \E k \in Range(Scanners) : \E m \in 1..n + 1 : fwd[r] = Token(k, m)
    <3>1. \A m \in 1..n : m \in 1..n + 1  BY <1>1
    <3> QED  BY <3>1 DEF FwdInv
  <2>5. n + 1 \in 1..n + 1  BY <1>1
  <2>6. FwdInv'
    <3>1. DOMAIN fwd' \subseteq Seq(Detectable)  BY <2>2 DEF FwdInv
    <3>2. \A r \in DOMAIN fwd' : \E k \in Range(Scanners) : \E m \in 1..n + 1 : fwd'[r] = Token(k, m)
      BY <2>2, <2>4, <2>5
    <3> HIDE DEF n
    <3> QED  BY <2>3, <3>1, <3>2 DEF FwdInv
  <2>7. token \in Marks  BY <1>1, MarkForms
  <2>8. PlaceholderFor(real, kind) = token  BY <1>3 DEF PlaceholderFor
  <2> HIDE DEF token
  <2> QED  BY <2>2, <2>6, <2>7, <2>8
<1> QED  BY <1>2, <1>3

LEMMA EditAppended ==
  ASSUME NEW E, NEW rs \in Seq(E), Apart(rs), NEW e \in E, \A i \in 1..Len(rs) : rs[i].end <= e.start
  PROVE  /\ Append(rs, e) \in Seq(E) /\ Apart(Append(rs, e)) /\ Len(Append(rs, e)) = Len(rs) + 1
         /\ Append(rs, e)[Len(rs) + 1] = e /\ \A i \in 1..Len(rs) : Append(rs, e)[i] = rs[i]
<1> DEFINE s == Append(rs, e)
<1>1. Len(rs) \in Nat  BY LenProperties
<1>2. /\ s \in Seq(E) /\ Len(s) = Len(rs) + 1 /\ s[Len(rs) + 1] = e
      /\ \A i \in 1..Len(rs) : s[i] = rs[i]
  BY AppendProperties
<1> HIDE DEF s
<1>3. ASSUME NEW i \in 1..Len(s), NEW j \in 1..Len(s), i < j PROVE s[i].end <= s[j].start
  <2>1. i \in 1..Len(rs) /\ (j \in 1..Len(rs) \/ j = Len(rs) + 1)  BY <1>1, <1>2, <1>3
  <2> QED  BY <1>2, <1>3, <2>1 DEF Apart
<1> QED  BY <1>2, <1>3 DEF s, Apart

LEMMA OneMoreAnswer ==
  ASSUME Grows, NEW rs, NEW t, NEW c, NEW n \in Nat, Answers(rs, t, c, n), Len(rs) \in Nat,
         NEW e, Stands(e, c[n + 1], t)', NEW more, Len(more) = Len(rs) + 1, more[Len(rs) + 1] = e,
         \A i \in 1..Len(rs) : more[i] = rs[i]
  PROVE  Answers(more, t, c, n + 1)'
<1>1. Answers(rs, t, c, n)'  BY AnswersStay
<1>2. /\ \A i \in 1..Len(rs) : \E j \in 1..n : Stands(rs[i], c[j], t)'
      /\ \A j \in 1..n : ~Does("forward", c[j])' => \E i \in 1..Len(rs) : Stands(rs[i], c[j], t)'
  BY <1>1 DEF Answers
<1>3. /\ n + 1 \in 1..n + 1 /\ \A j \in 1..n : j \in 1..n + 1
      /\ \A j \in 1..n + 1 : j \in 1..n \/ j = n + 1
  OBVIOUS
<1>4. /\ Len(rs) + 1 \in 1..Len(more) /\ \A i \in 1..Len(rs) : i \in 1..Len(more)
      /\ \A i \in 1..Len(more) : i \in 1..Len(rs) \/ i = Len(rs) + 1
  OBVIOUS
<1>5. \A i \in 1..Len(more) : \E j \in 1..n + 1 : Stands(more[i], c[j], t)'
  BY <1>2, <1>3, <1>4
<1>6. \A j \in 1..n + 1 : ~Does("forward", c[j])' => \E i \in 1..Len(more) : Stands(more[i], c[j], t)'
  BY <1>2, <1>3, <1>4
<1> QED  BY <1>5, <1>6 DEF Answers

LEMMA ReplaceNextKeeps == MaskInv /\ ReplaceNext => MaskInv'
<1> SUFFICES ASSUME MaskInv, ReplaceNext PROVE MaskInv'
  OBVIOUS
<1>1. /\ pc = "replace" /\ queue # <<>> /\ queue' = Tail(queue)
      /\ UNCHANGED <<policy, json, body, found, masked, pc>>
  BY DEF ReplaceNext
<1>2. Working  BY <1>1 DEF MaskInv
<1>3. PICK t : t = Leaf.text  OBVIOUS
<1>4. t \in Seq(Cells)
  <2>1. /\ Len(masked) \in Nat /\ Len(body) \in Nat
        /\ \A i \in 1..Len(body) : body[i].text \in Seq(Cells)
    BY LeafTyped, LenProperties DEF MaskInv
  <2> QED  BY <1>2, <1>3, <2>1 DEF Working, Leaf
<1>5. PICK c : \E n \in 0..Len(c) :
                 /\ c = ChosenIn(Leaf.text) /\ queue = SubSeq(c, n + 1, Len(c))
                 /\ Answers(repls, Leaf.text, c, n)
  BY <1>2 DEF Working
<1>6. PICK n \in 0..Len(c) : queue = SubSeq(c, n + 1, Len(c)) /\ Answers(repls, Leaf.text, c, n)
  BY <1>5
<1>7. PICK rs : rs = repls  OBVIOUS
<1>8. /\ rs \in Seq(EditsOf(t)) /\ Apart(rs) /\ t \in DOMAIN found /\ c = ChosenIn(t)
      /\ Answers(rs, t, c, n)
  BY <1>2, <1>3, <1>5, <1>6, <1>7 DEF Working
<1>9. c \in Seq(Detections(t)) /\ Apart(c) /\ Len(c) \in Nat /\ n \in Nat
  <2>1. PICK D : D = found[t]  OBVIOUS
  <2>2. D \in SUBSET Detections(t) /\ IsFiniteSet(D)  BY <1>8, <2>1 DEF MaskInv, FoundInv
  <2>3. c \in Seq(D) /\ Apart(c)  BY <1>4, <1>8, <2>1, <2>2, ResolveKeeps DEF ChosenIn
  <2>4. Len(c) \in Nat /\ \A i \in 1..Len(c) : c[i] \in Detections(t)
    BY <2>2, <2>3, LenProperties, ElementOfSeq
  <2>5. c \in Seq(Detections(t))  BY <2>3, <2>4, IsASeq, LenProperties
  <2> QED  BY <2>3, <2>4, <2>5
<1>10. PICK d : d = c[n + 1]  OBVIOUS
<1>11. /\ n + 1 \in 1..Len(c) /\ Head(queue) = d /\ queue' = SubSeq(c, (n + 1) + 1, Len(c))
       /\ d \in Detections(t)
  <2>1. SubSeq(c, n + 1, Len(c)) # <<>>  BY <1>1, <1>6
  <2>2. /\ n + 1 \in 1..Len(c) /\ Head(SubSeq(c, n + 1, Len(c))) = c[n + 1]
        /\ Tail(SubSeq(c, n + 1, Len(c))) = SubSeq(c, (n + 1) + 1, Len(c))
    BY <1>9, <2>1, RestOfQueue
  <2>3. c[n + 1] \in Detections(t)  BY <1>9, <2>2, ElementOfSeq
  <2> QED  BY <1>1, <1>6, <1>10, <2>2, <2>3
<1>12. PICK real : real = SubSeq(t, d.start, d.end - 1)  OBVIOUS
<1>13. real \in Seq(Detectable) /\ d.kind \in Range(Scanners)
  BY <1>4, <1>11, <1>12, DetectedWord, DetectionFields
<1>14. \A i \in 1..Len(rs) : rs[i].end <= d.start
  <2>1. ASSUME NEW i \in 1..Len(rs) PROVE rs[i].end <= d.start
    <3>1. PICK j \in 1..n : Stands(rs[i], c[j], t)  BY <1>8 DEF Answers
    <3>2. j \in 1..Len(c) /\ j < n + 1  BY <1>9, <1>11
    <3>3. c[j].end <= c[n + 1].start  BY <1>9, <1>11, <3>2 DEF Apart
    <3> QED  BY <1>10, <3>1, <3>3 DEF Stands
  <2> QED  BY <2>1
<1>15. Leaf' = Leaf /\ Leaf.text' = t  BY <1>1, <1>3 DEF Leaf
<1>16. ASSUME Grows, FwdInv',
              repls' \in Seq(EditsOf(t)) /\ Apart(repls') /\ Answers(repls, t, c, n + 1)',
              applied' \in Seq(Range(Scanners) \X {"pseudonymize", "block"})
       PROVE  MaskInv'
  <2>1. FoundInv'  BY <1>1 DEF FoundInv, MaskInv
  <2>2. \A i \in 1..Len(masked) : Walks(i)'  BY <1>1, <1>16, WalksStays DEF MaskInv
  <2>3. ChosenIn(t)' = c  BY <1>1, <1>8 DEF ChosenIn
  <2>4. Working'
    <3>1. n + 1 \in 0..Len(c)  BY <1>11
    <3> QED  BY <1>1, <1>2, <1>11, <1>15, <1>16, <2>3, <3>1, <1>8 DEF Working
  <2> QED  BY <1>1, <1>16, <2>1, <2>2, <2>4 DEF MaskInv
<1>17. ASSUME NEW m \in Marks, NEW action \in {"pseudonymize", "block"}, Grows, FwdInv',
              NEW e, e = [start |-> d.start, end |-> d.end, new |-> <<m>>], repls' = Append(repls, e),
              Stands(e, d, t)', applied' = Append(applied, <<d.kind, action>>)
       PROVE  MaskInv'
  <2>1. e \in EditsOf(t)
    <3>1. /\ d.start \in 1..Len(t) /\ d.end \in 2..Len(t) + 1 /\ d.start < d.end
      BY <1>4, <1>11 DEF Detections
    <3> QED  BY <1>17, <3>1 DEF EditsOf
  <2>2. PICK more : more = Append(rs, e)  OBVIOUS
  <2>3. e.start = d.start  BY <1>17
  <2>4. /\ more \in Seq(EditsOf(t)) /\ Apart(more) /\ Len(more) = Len(rs) + 1
        /\ more[Len(rs) + 1] = e /\ \A i \in 1..Len(rs) : more[i] = rs[i]
    <3> DEFINE E == EditsOf(t)
    <3>1. rs \in Seq(E) /\ e \in E /\ \A i \in 1..Len(rs) : rs[i].end <= e.start
      BY <1>8, <1>14, <2>1, <2>3
    <3> HIDE DEF E
    <3>2. /\ more \in Seq(E) /\ Apart(more) /\ Len(more) = Len(rs) + 1
          /\ more[Len(rs) + 1] = e /\ \A i \in 1..Len(rs) : more[i] = rs[i]
      BY <1>8, <2>2, <3>1, EditAppended
    <3> QED  BY <3>2 DEF E
  <2>5. Len(rs) \in Nat  BY <1>8, LenProperties
  <2>6. Stands(e, c[n + 1], t)'  BY <1>10, <1>17
  <2>7. Answers(more, t, c, n + 1)'
    BY <1>8, <1>9, <1>17, <2>4, <2>5, <2>6, OneMoreAnswer
  <2>8. repls' = more  BY <1>7, <1>17, <2>2
  <2>9. Answers(repls, t, c, n + 1)'  BY <2>7, <2>8 DEF Answers
  <2>10. applied' \in Seq(Range(Scanners) \X {"pseudonymize", "block"})
    <3> DEFINE F == Range(Scanners) \X {"pseudonymize", "block"}
    <3>1. <<d.kind, action>> \in F /\ applied \in Seq(F)  BY <1>13 DEF MaskInv
    <3> HIDE DEF F
    <3>2. applied' \in Seq(F)  BY <1>17, <3>1, AppendProperties
    <3> QED  BY <3>2 DEF F
  <2> QED  BY <1>16, <1>17, <2>4, <2>8, <2>9, <2>10
<1>18. CASE /\ Does("pseudonymize", d) /\ Remember(real, d.kind)
            /\ repls' = Append(repls, [start |-> d.start, end |-> d.end,
                                       new |-> <<PlaceholderFor(real, d.kind)>>])
            /\ applied' = Append(applied, <<d.kind, "pseudonymize">>)
  <2>1. PICK m : m = PlaceholderFor(real, d.kind)  OBVIOUS
  <2>2. /\ FwdInv' /\ \A r \in DOMAIN fwd : r \in DOMAIN fwd' /\ fwd'[r] = fwd[r]
        /\ real \in DOMAIN fwd' /\ fwd'[real] = m /\ m \in Marks
    BY <1>13, <1>18, <2>1, RememberTypes DEF MaskInv
  <2>3. Grows  BY <1>1, <2>2 DEF Grows
  <2>4. PICK e : e = [start |-> d.start, end |-> d.end, new |-> <<m>>]  OBVIOUS
  <2>5. Stands(e, d, t)'
    <3>1. Does("pseudonymize", d)'  BY <1>1, <1>18 DEF Does
    <3> QED  BY <1>12, <2>2, <2>4, <3>1 DEF Stands
  <2> QED  BY <1>17, <1>18, <2>1, <2>2, <2>3, <2>4, <2>5
<1>19. CASE /\ Does("block", d) /\ UNCHANGED vault
            /\ repls' = Append(repls, [start |-> d.start, end |-> d.end, new |-> <<BlockMark(d.kind)>>])
            /\ applied' = Append(applied, <<d.kind, "block">>)
  <2>1. PICK m : m = BlockMark(d.kind)  OBVIOUS
  <2>2. m \in Marks  BY <1>13, <2>1, MarkForms
  <2>3. Grows /\ FwdInv'  BY <1>1, <1>19, SameVault DEF MaskInv
  <2>4. PICK e : e = [start |-> d.start, end |-> d.end, new |-> <<m>>]  OBVIOUS
  <2>5. Stands(e, d, t)'
    <3>1. Does("block", d)'  BY <1>1, <1>19 DEF Does
    <3> QED  BY <2>1, <2>4, <3>1 DEF Stands
  <2> QED  BY <1>17, <1>19, <2>1, <2>2, <2>3, <2>4, <2>5
<1>20. CASE Does("forward", d) /\ UNCHANGED <<repls, vault, applied>>
  <2>1. Grows /\ FwdInv'  BY <1>1, <1>20, SameVault DEF MaskInv
  <2>2. Answers(rs, t, c, n)'  BY <1>8, <2>1, AnswersStay
  <2>3. Answers(rs, t, c, n + 1)'
    <3>1. Does("forward", c[n + 1])'  BY <1>1, <1>10, <1>20 DEF Does
    <3>2. \A j \in 1..n + 1 : j \in 1..n \/ j = n + 1  BY <1>9
    <3>3. \A j \in 1..n : j \in 1..n + 1  BY <1>9
    <3> QED  BY <2>2, <3>1, <3>2, <3>3 DEF Answers
  <2>4. repls' = rs  BY <1>7, <1>20
  <2>5. Answers(repls, t, c, n + 1)'  BY <2>3, <2>4 DEF Answers
  <2> QED  BY <1>8, <1>16, <1>20, <2>1, <2>4, <2>5 DEF MaskInv
<1>21. SubSeq(Leaf.text, Head(queue).start, Head(queue).end - 1) = real /\ Head(queue) = d
  BY <1>3, <1>11, <1>12
<1> QED  BY <1>18, <1>19, <1>20, <1>21 DEF ReplaceNext, Does

LEMMA MaskInvStep == MaskInv /\ [Next]_vars => MaskInv'
<1> SUFFICES ASSUME MaskInv, [Next]_vars PROVE MaskInv'
  OBVIOUS
<1>1. CASE UNCHANGED vars
  <2>1. UNCHANGED <<policy, json, body, found, masked, pc, queue, repls, fwd, rev, applied>>
    BY <1>1 DEF vars, vault
  <2>2. Grows /\ FwdInv' /\ FoundInv'  BY <2>1, SameVault DEF MaskInv, vault
  <2>3. \A i \in 1..Len(masked) : Walks(i)'  BY <2>1, <2>2, WalksStays DEF MaskInv
  <2>4. ASSUME Working PROVE Working'
    <3>1. PICK c : \E n \in 0..Len(c) :
                     /\ c = ChosenIn(Leaf.text) /\ queue = SubSeq(c, n + 1, Len(c))
                     /\ Answers(repls, Leaf.text, c, n)
      BY <2>4 DEF Working
    <3>2. PICK n \in 0..Len(c) : queue = SubSeq(c, n + 1, Len(c)) /\ Answers(repls, Leaf.text, c, n)
      BY <3>1
    <3>3. PICK rs, t : rs = repls /\ t = Leaf.text  OBVIOUS
    <3>4. Leaf' = Leaf /\ repls' = rs /\ Leaf.text' = t  BY <2>1, <3>3 DEF Leaf
    <3>5. Answers(rs, t, c, n)'  BY <2>2, <3>2, <3>3, AnswersStay
    <3>6. Answers(repls, Leaf.text, c, n)'  BY <3>4, <3>5 DEF Answers
    <3>7. c = ChosenIn(Leaf.text)'  BY <2>1, <3>1, <3>3, <3>4 DEF ChosenIn
    <3>8. repls' \in Seq(EditsOf(t)) /\ Apart(repls')  BY <2>4, <3>3, <3>4 DEF Working
    <3> QED  BY <2>1, <2>4, <3>2, <3>4, <3>6, <3>7, <3>8 DEF Working
  <2> QED  BY <2>1, <2>2, <2>3, <2>4 DEF MaskInv
<1> QED  BY <1>1, PassThroughKeeps, KeepLeafKeeps, ScanLeafKeeps, ReplaceNextKeeps, FinishLeafKeeps,
            FinishKeeps DEF Next

LEMMA MaskInvHolds == Spec => []MaskInv
BY MaskInvInit, MaskInvStep, PTL DEF Spec

(* The placeholders name a kind scan knows and a number the vault has       *)
(* reached, the replacements of a leaf are spans, and the audit records     *)
(* speak of values replaced, never of values forwarded.                     *)
THEOREM MaskingTypes == Spec => []TypeOK
BY MaskInvHolds, MaskInvTypes, PTL

(* Whatever scan finds, resolve_overlaps keeps values that do not overlap,  *)
(* and drops one only for a kept one that overlaps it and starts earlier,   *)
(* or as early and ends no sooner.                                          *)
THEOREM OverlapsAreResolved == Spec => []EarliestLongestWins
<1>1. MaskInv => EarliestLongestWins
  <2> SUFFICES ASSUME MaskInv, NEW text \in DOMAIN found
               PROVE  /\ \A d, e \in Chosen(text) : d # e => ~Overlap(d, e)
                      /\ \A d \in found[text] \ Chosen(text) : \E e \in Chosen(text) :
                           Overlap(d, e) /\ (e.start < d.start \/ (e.start = d.start /\ e.end >= d.end))
    BY DEF EarliestLongestWins
  <2>1. PICK D, c : D = found[text] /\ c = ResolveOverlaps(D)  OBVIOUS
  <2>2. text \in Seq(Cells) /\ D \in SUBSET Detections(text) /\ IsFiniteSet(D)
    BY <2>1 DEF MaskInv, FoundInv
  <2>3. c \in Seq(D) /\ Apart(c) /\ \A d \in D : \E j \in 1..Len(c) : GivesWay(d, c[j])
    BY <2>1, <2>2, ResolveKeeps
  <2>4. Len(c) \in Nat /\ DOMAIN c = 1..Len(c) /\ \A j \in 1..Len(c) : c[j] \in D
    BY <2>3, LenProperties, ElementOfSeq
  <2>5. Chosen(text) = {c[j] : j \in 1..Len(c)}  BY <2>1, <2>4 DEF Chosen, Range
  <2>6. ASSUME NEW i \in 1..Len(c), NEW j \in 1..Len(c), c[i] # c[j] PROVE ~Overlap(c[i], c[j])
    <3>1. i < j \/ j < i  BY <2>4, <2>6
    <3>2. c[i].end <= c[j].start \/ c[j].end <= c[i].start  BY <2>3, <3>1 DEF Apart
    <3>3. /\ c[i].start \in Nat /\ c[i].end \in Nat /\ c[j].start \in Nat /\ c[j].end \in Nat
      BY <2>2, <2>4, DetectionFields
    <3> QED  BY <3>2, <3>3 DEF Overlap
  <2>7. ASSUME NEW d \in D, d \notin Chosen(text)
        PROVE  \E e \in Chosen(text) :
                 Overlap(d, e) /\ (e.start < d.start \/ (e.start = d.start /\ e.end >= d.end))
    <3>1. PICK j \in 1..Len(c) : GivesWay(d, c[j])  BY <2>3
    <3>2. c[j] \in Chosen(text)  BY <2>5
    <3> QED  BY <2>7, <3>1, <3>2 DEF GivesWay
  <2> QED  BY <2>1, <2>5, <2>6, <2>7
<1> QED  BY MaskInvHolds, <1>1, PTL

(* INV-1, as far as the overlap rule lets it hold: in what leaves, a value  *)
(* that scan found and the policy protects stands only as often as in the  *)
(* rest of what came, unless a value the policy forwards was kept over it.  *)
(* The places of the result have their origin in the text, in order, so     *)
(* that a word without marks can only stand where it stood; and where it    *)
(* was detected a mark stands now.                                          *)
THEOREM ProtectedAreHidden == Spec => []ProtectedNeverWhole
<1>1. MaskInv => ProtectedNeverWhole
  <2> SUFFICES ASSUME MaskInv, NEW i \in Walked, NEW d \in Protected(i)
               PROVE  HiddenAmong(Protected(i), d, i)
    BY DEF ProtectedNeverWhole
  <2>1. json /\ i \in 1..Len(masked) /\ body[i].str  BY DEF Walked
  <2>2. PICK t, R : t = body[i].text /\ R = masked[i]  OBVIOUS
  <2>3. Edited(t, R)  BY <2>1, <2>2 DEF MaskInv, Walks
  <2>4. PICK c : \E rs \in Seq(EditsOf(t)) :
                   /\ c = ChosenIn(t) /\ Apart(rs) /\ Answers(rs, t, c, Len(c))
                   /\ R = ApplyReplacements(t, rs)
    BY <2>3 DEF Edited
  <2>5. PICK rs \in Seq(EditsOf(t)) :
          /\ c = ChosenIn(t) /\ Apart(rs) /\ Answers(rs, t, c, Len(c))
          /\ R = ApplyReplacements(t, rs)
    BY <2>4
  <2>6. PICK D : D = found[t]  OBVIOUS
  <2>7. t \in Seq(Cells) /\ D \in SUBSET Detections(t) /\ IsFiniteSet(D) /\ d \in D
    BY <2>2, <2>3, <2>6 DEF MaskInv, FoundInv, Edited, Protected
  <2>8. c = ResolveOverlaps(D)  BY <2>5, <2>6 DEF ChosenIn
  <2>9. c \in Seq(D) /\ \A x \in D : \E j \in 1..Len(c) : GivesWay(x, c[j])
    BY <2>7, <2>8, ResolveKeeps
  <2>10. PICK P : P = Protected(i)  OBVIOUS
  <2>11. Range(rs) \in SUBSET EditsOf(t) /\ \A k \in 1..Len(rs) : rs[k] \in Range(rs)
    <3>1. DOMAIN rs = 1..Len(rs) /\ \A x \in 1..Len(rs) : rs[x] \in EditsOf(t)
      BY LenProperties, ElementOfSeq
    <3> QED  BY <3>1 DEF Range
  <2>12. ASSUME NEW x \in P PROVE \E r \in Range(rs) : r.start <= x.start /\ x.start < r.end
    <3>1. x \in D /\ ~Does("forward", x)
          /\ \A e \in Chosen(t) : Does("forward", e) => ~Overlap(x, e)
      BY <2>2, <2>6, <2>10 DEF Protected
    <3>2. PICK j \in 1..Len(c) : GivesWay(x, c[j])  BY <2>9, <3>1
    <3>3. PICK e : e = c[j]  OBVIOUS
    <3>4. e \in D /\ e \in Chosen(t)
      <4>1. e \in D /\ DOMAIN c = 1..Len(c)  BY <2>9, <3>3, ElementOfSeq, LenProperties
      <4>2. e \in Range(c)  BY <3>3, <4>1 DEF Range
      <4> QED  BY <2>6, <2>8, <4>1, <4>2 DEF Chosen
    <3>5. ~Does("forward", e)  BY <3>1, <3>2, <3>3, <3>4 DEF GivesWay
    <3>6. PICK k \in 1..Len(rs) : Stands(rs[k], e, t)  BY <2>5, <3>3, <3>5 DEF Answers
    <3>7. PICK r : r = rs[k]  OBVIOUS
    <3>8. r \in Range(rs) /\ r.start = e.start /\ r.end = e.end
      BY <2>11, <3>6, <3>7 DEF Stands
    <3>9. x \in Detections(t) /\ e \in Detections(t)  BY <2>7, <3>1, <3>4
    <3>10. /\ x.start \in Nat /\ x.end \in Nat /\ x.start < x.end
           /\ e.start \in Nat /\ e.end \in Nat /\ e.start < e.end
      BY <2>7, <3>9, DetectionFields
    <3>11. e.start <= x.start /\ x.start < e.end
      BY <3>2, <3>3, <3>10 DEF GivesWay, Overlap
    <3> QED  BY <3>8, <3>11
  <2>13. PICK H : H = {x.start : x \in P}  OBVIOUS
  <2>14. H \in SUBSET Nat
    <3>1. \A x \in P : x \in Detections(t)  BY <2>2, <2>6, <2>7, <2>10 DEF Protected
    <3>2. \A x \in P : x.start \in Nat  BY <2>7, <3>1, DetectionFields
    <3> QED  BY <2>13, <3>2
  <2>15. \A a \in H : \E r \in Range(rs) : r.start <= a /\ a < r.end
    BY <2>12, <2>13
  <2>16. PICK o : Tracks(o, R, t, Range(rs))
    <3>1. \E o : Tracks(o, ApplyReplacements(t, rs), t, Range(rs))
      BY <2>5, <2>7, EditsAreTracked
    <3> QED  BY <2>5, <3>1
  <2>17. PICK v : v = SubSeq(t, d.start, d.end - 1)  OBVIOUS
  <2>18. v \in Seq(Detectable) /\ \E n \in Nat : Len(v) = n + 1
    <3>1. d \in Detections(t)  BY <2>7
    <3> QED  BY <2>7, <2>17, <3>1, DetectedWord DEF Reads
  <2>19. PICK n \in Nat : Len(v) = n + 1  BY <2>18
  <2>20. Cardinality(Occurrences(v, R)) <= Cardinality(Occurrences(v, t) \ H)
    BY <2>7, <2>11, <2>14, <2>15, <2>16, <2>18, <2>19, HiddenWordIsRarer
  <2> QED  BY <2>2, <2>10, <2>13, <2>17, <2>20 DEF HiddenAmong
<1> QED  BY MaskInvHolds, <1>1, PTL

-----------------------------------------------------------------------------
(* The audit records and the marks they speak of.                          *)

TokenForms == {"EXODUS"} \X Range(Scanners) \X Nat
BlockForms == {"EXODUS-BLOCKED"} \X Range(Scanners)

LEMMA OneMoreCounted ==
  ASSUME NEW n \in Nat, NEW A \in SUBSET (1..n), NEW B \in SUBSET (1..n + 1),
         \A i \in 1..n : i \in A <=> i \in B
  PROVE  /\ IsFiniteSet(A) /\ Cardinality(A) \in Nat
         /\ Cardinality(B) = Cardinality(A) + (IF n + 1 \in B THEN 1 ELSE 0)
<1>1. IsFiniteSet(1..n)  BY FS_Interval
<1>2. IsFiniteSet(A) /\ Cardinality(A) \in Nat  BY <1>1, FS_Subset, FS_CardinalityType
<1>3. n + 1 \notin A /\ \A i \in 1..n + 1 : i \in 1..n \/ i = n + 1  OBVIOUS
<1>4. CASE n + 1 \in B
  <2>1. B = A \cup {n + 1}  BY <1>3, <1>4
  <2>2. Cardinality(A \cup {n + 1}) = Cardinality(A) + 1  BY <1>2, <1>3, FS_AddElement
  <2> QED  BY <1>2, <1>4, <2>1, <2>2
<1>5. CASE n + 1 \notin B
  <2>1. B = A  BY <1>3, <1>5
  <2> QED  BY <1>2, <1>5, <2>1
<1> QED  BY <1>4, <1>5

\* P is where the replacements of form F stand in the result R, each once; its
\* other cells are of the text, or replacements of another form.
StandAt(P, R, text, rs, F) ==
  /\ P \in SUBSET (1..Len(R)) /\ IsFiniteSet(P)
  /\ Cardinality(P) = Cardinality({i \in 1..Len(rs) : rs[i].new[1] \in F})
  /\ \A p \in P : \E i \in 1..Len(rs) : R[p] = rs[i].new[1] /\ rs[i].new[1] \in F
  /\ \A p \in (1..Len(R)) \ P :
       R[p] \in Range(text) \/ \E i \in 1..Len(rs) : R[p] = rs[i].new[1] /\ rs[i].new[1] \notin F

LEMMA MarksOfResult ==
  ASSUME NEW text \in Seq(Cells), NEW rs \in Seq(EditsOf(text)), Apart(rs), NEW o, NEW R,
         Tracks(o, R, text, Range(rs)), NEW F
  PROVE  \E P : StandAt(P, R, text, rs, F)
<1> DEFINE I == {i \in 1..Len(rs) : rs[i].new[1] \in F}
           At(p, i) == o[p] = rs[i].start /\ R[p] = rs[i].new[1]
           P == {p \in 1..Len(R) : \E i \in I : At(p, i)}
           f == [p \in P |-> CHOOSE i \in I : At(p, i)]
<1>1. /\ Len(rs) \in Nat /\ DOMAIN rs = 1..Len(rs) /\ Len(text) \in Nat /\ DOMAIN text = 1..Len(text)
      /\ \A i \in 1..Len(rs) : rs[i] \in EditsOf(text)
  BY LenProperties, ElementOfSeq
<1>2. Range(rs) = {rs[i] : i \in 1..Len(rs)}  BY <1>1 DEF Range
<1>3. R \in Seq(Cells \cup Marks) /\ Len(R) \in Nat  BY LenProperties DEF Tracks
<1>4. IsFiniteSet(I) /\ IsFiniteSet(1..Len(R))
  <2>1. IsFiniteSet(1..Len(rs)) /\ IsFiniteSet(1..Len(R)) /\ I \in SUBSET (1..Len(rs))
    BY <1>1, <1>3, FS_Interval
  <2> HIDE DEF I
  <2> QED  BY <2>1, FS_Subset
<1>5. ASSUME NEW i \in 1..Len(rs), NEW j \in 1..Len(rs), rs[i].start = rs[j].start PROVE i = j
  <2>1. ASSUME NEW x \in 1..Len(rs), NEW y \in 1..Len(rs), x < y PROVE rs[x].start # rs[y].start
    <3>1. rs[x].end <= rs[y].start  BY <2>1 DEF Apart
    <3>2. rs[x].start \in Nat /\ rs[x].end \in Nat /\ rs[y].start \in Nat /\ rs[x].start < rs[x].end
      BY <1>1, EditFields
    <3> QED  BY <3>1, <3>2
  <2>2. ~(i < j) /\ ~(j < i)  BY <1>5, <2>1
  <2> QED  BY <1>1, <2>2
<1>6. ASSUME NEW i \in 1..Len(rs) PROVE \E p \in 1..Len(R) : At(p, i)
  BY <1>2 DEF Tracks
<1>7. ASSUME NEW p \in 1..Len(R), NEW q \in 1..Len(R), o[p] = o[q] PROVE p = q
  <2>1. ~(p < q) /\ ~(q < p)
    <3>1. o[p] \in Nat  BY <1>1 DEF Tracks
    <3> QED  BY <1>7, <3>1 DEF Tracks
  <2> QED  BY <1>3, <2>1
<1>8. P \in SUBSET (1..Len(R))  OBVIOUS
<1>9. \A p \in P : f[p] \in I /\ At(p, f[p])  OBVIOUS
<1>10. f \in [P -> I]  BY <1>9
<1>11. \A i \in I : \E p \in P : At(p, i)  BY <1>6
<1>12. I \in SUBSET (1..Len(rs))  OBVIOUS
<1>13. \A p \in (1..Len(R)) \ P : \A i \in 1..Len(rs) : At(p, i) => rs[i].new[1] \notin F  OBVIOUS
<1>14. \A i \in I : rs[i].new[1] \in F  OBVIOUS
<1> HIDE DEF f, P, I
<1>15. f \in Bijection(P, I)
  <2>1. \A p, q \in P : f[p] = f[q] => p = q  BY <1>7, <1>8, <1>9
  <2>2. \A i \in I : \E p \in P : f[p] = i
    <3>1. ASSUME NEW i \in I PROVE \E p \in P : f[p] = i
      <4>1. PICK p \in P : At(p, i)  BY <1>11
      <4>2. rs[f[p]].start = rs[i].start /\ f[p] \in 1..Len(rs) /\ i \in 1..Len(rs)
        BY <1>9, <1>12, <4>1
      <4> QED  BY <1>5, <4>2
    <3> QED  BY <3>1
  <2> QED  BY <1>10, <2>1, <2>2 DEF Bijection, Injection, Surjection, IsInjective
<1>16. IsFiniteSet(P) /\ Cardinality(P) = Cardinality(I)
  <2>1. IsFiniteSet(P)  BY <1>4, <1>8, FS_Subset
  <2>2. f \in Injection(P, I) /\ f \in Surjection(P, I)  BY <1>15 DEF Bijection
  <2>3. Cardinality(P) <= Cardinality(I) /\ Cardinality(I) <= Cardinality(P)
    BY <1>4, <2>1, <2>2, FS_Injection, FS_Surjection
  <2>4. Cardinality(P) \in Nat /\ Cardinality(I) \in Nat  BY <1>4, <2>1, FS_CardinalityType
  <2> QED  BY <2>1, <2>3, <2>4
<1>17. \A p \in P : \E i \in 1..Len(rs) : R[p] = rs[i].new[1] /\ rs[i].new[1] \in F
  BY <1>9, <1>12, <1>14
<1>18. ASSUME NEW p \in (1..Len(R)) \ P
       PROVE  R[p] \in Range(text) \/ \E i \in 1..Len(rs) : R[p] = rs[i].new[1] /\ rs[i].new[1] \notin F
  <2>1. CASE Marked(o, R, Range(rs), p)
    <3>1. PICK i \in 1..Len(rs) : At(p, i)  BY <1>2, <2>1 DEF Marked
    <3> QED  BY <1>13, <3>1
  <2>2. CASE KeptAt(o, R, text, Range(rs), p)
    <3>1. o[p] \in 1..Len(text) /\ R[p] = text[o[p]]  BY <2>2 DEF Tracks, KeptAt
    <3> QED  BY <1>1, <3>1 DEF Range
  <2> QED  BY <2>1, <2>2 DEF Tracks
<1>19. StandAt(P, R, text, rs, F)  BY <1>8, <1>16, <1>17, <1>18 DEF I, StandAt
<1> QED  BY <1>19

Places == UNION {{i} \X (1..Len(masked[i])) : i \in 1..Len(masked)}
Cell(x) == masked[x[1]][x[2]]
RecordsOf(action) == {i \in 1..Len(applied) : applied[i][2] = action}
Pending(F) == {i \in 1..Len(repls) : repls[i].new[1] \in F}

\* Tk and Bk are the places of the placeholders and of the block marks put into
\* the leaves done; the other cells were in the body.
Placed(Tk, Bk) ==
  /\ IsFiniteSet(Tk) /\ IsFiniteSet(Bk) /\ Tk \subseteq Places /\ Bk \subseteq Places
  /\ \A x \in Tk : \E r \in DOMAIN fwd : Cell(x) = fwd[r]
  /\ \A x \in Bk : Cell(x) \in BlockForms
  /\ \A x \in Places \ (Tk \cup Bk) : Cell(x) \in Range(body[x[1]].text)
  /\ Cardinality(Tk) + Cardinality(Pending(TokenForms)) = Cardinality(RecordsOf("pseudonymize"))
  /\ Cardinality(Bk) + Cardinality(Pending(BlockForms)) = Cardinality(RecordsOf("block"))

AuditInv == \E Tk, Bk : Placed(Tk, Bk)

LEMMA FormsDiffer ==
  /\ Marks = TokenForms \cup BlockForms
  /\ \A k \in Range(Scanners) : \A n \in Nat : Token(k, n) \in TokenForms /\ Token(k, n) \notin BlockForms
  /\ \A k \in Range(Scanners) : BlockMark(k) \in BlockForms /\ BlockMark(k) \notin TokenForms
  /\ BlockForms = {BlockMark(k) : k \in Range(Scanners)}
  /\ \A x \in TokenForms : x \notin BlockForms
<1>1. \A x \in TokenForms : x[1] = "EXODUS"  BY DEF TokenForms
<1>2. \A x \in BlockForms : x[1] = "EXODUS-BLOCKED"  BY DEF BlockForms
<1>3. \A x \in TokenForms : x \notin BlockForms  BY <1>1, <1>2
<1>4. Marks = TokenForms \cup BlockForms  BY DEF Marks, TokenForms, BlockForms
<1>5. \A k \in Range(Scanners) : \A n \in Nat : Token(k, n) \in TokenForms  BY DEF Token, TokenForms
<1>6. \A k \in Range(Scanners) : BlockMark(k) \in BlockForms  BY DEF BlockMark, BlockForms
<1>7. BlockForms = {BlockMark(k) : k \in Range(Scanners)}  BY DEF BlockMark, BlockForms
<1> QED  BY <1>3, <1>4, <1>5, <1>6, <1>7

\* Only values that are replaced change the counts of the records.
LEMMA OneMoreRecord ==
  ASSUME NEW E, applied \in Seq(E), NEW k, NEW action, applied' = Append(applied, <<k, action>>),
         NEW a
  PROVE  /\ IsFiniteSet(RecordsOf(a)) /\ Cardinality(RecordsOf(a)) \in Nat
         /\ Cardinality(RecordsOf(a)') = Cardinality(RecordsOf(a)) + (IF action = a THEN 1 ELSE 0)
<1> DEFINE n == Len(applied)
<1>1. n \in Nat /\ \A i \in 1..n : applied[i] \in E  BY LenProperties, ElementOfSeq
<1>2. applied \in Seq(E \cup {<<k, action>>})
  BY <1>1, IsASeq, LenProperties
<1>3. /\ Len(applied') = n + 1 /\ applied'[n + 1] = <<k, action>>
      /\ \A i \in 1..n : applied'[i] = applied[i]
  BY <1>2, AppendProperties
<1>4. PICK A, B : A = RecordsOf(a) /\ B = RecordsOf(a)'  OBVIOUS
<1>5. A = {i \in 1..n : applied[i][2] = a} /\ B = {i \in 1..n + 1 : applied'[i][2] = a}
  BY <1>3, <1>4 DEF RecordsOf
<1> HIDE DEF n
<1>6. A \in SUBSET (1..n) /\ B \in SUBSET (1..n + 1)  BY <1>5
<1>7. \A i \in 1..n : i \in A <=> i \in B  BY <1>1, <1>3, <1>5
<1>8. n + 1 \in B <=> action = a  BY <1>1, <1>3, <1>5
<1>9. /\ IsFiniteSet(A) /\ Cardinality(A) \in Nat
      /\ Cardinality(B) = Cardinality(A) + (IF n + 1 \in B THEN 1 ELSE 0)
  BY <1>1, <1>6, <1>7, OneMoreCounted
<1> QED  BY <1>4, <1>8, <1>9

LEMMA OneMorePending ==
  ASSUME NEW E, repls \in Seq(E), NEW r, repls' = Append(repls, r), NEW F
  PROVE  /\ IsFiniteSet(Pending(F)) /\ Cardinality(Pending(F)) \in Nat
         /\ Cardinality(Pending(F)') = Cardinality(Pending(F)) + (IF r.new[1] \in F THEN 1 ELSE 0)
<1> DEFINE n == Len(repls)
<1>1. n \in Nat /\ \A i \in 1..n : repls[i] \in E  BY LenProperties, ElementOfSeq
<1>2. repls \in Seq(E \cup {r})
  BY <1>1, IsASeq, LenProperties
<1>3. /\ Len(repls') = n + 1 /\ repls'[n + 1] = r
      /\ \A i \in 1..n : repls'[i] = repls[i]
  BY <1>2, AppendProperties
<1>4. PICK A, B : A = Pending(F) /\ B = Pending(F)'  OBVIOUS
<1>5. A = {i \in 1..n : repls[i].new[1] \in F} /\ B = {i \in 1..n + 1 : repls'[i].new[1] \in F}
  BY <1>3, <1>4 DEF Pending
<1> HIDE DEF n
<1>6. A \in SUBSET (1..n) /\ B \in SUBSET (1..n + 1)  BY <1>5
<1>7. \A i \in 1..n : i \in A <=> i \in B  BY <1>1, <1>3, <1>5
<1>8. n + 1 \in B <=> r.new[1] \in F  BY <1>1, <1>3, <1>5
<1>9. /\ IsFiniteSet(A) /\ Cardinality(A) \in Nat
      /\ Cardinality(B) = Cardinality(A) + (IF n + 1 \in B THEN 1 ELSE 0)
  BY <1>1, <1>6, <1>7, OneMoreCounted
<1> QED  BY <1>4, <1>8, <1>9

LEMMA AuditInit == Init => AuditInv
<1> SUFFICES ASSUME Init PROVE Placed({}, {})
  BY DEF AuditInv
<1>1. masked = <<>> /\ repls = <<>> /\ applied = <<>> /\ Len(<<>>) = 0  BY EmptySeq DEF Init
<1>2. Places = {} /\ \A F : Pending(F) = {}  BY <1>1 DEF Places, Pending
<1>3. \A a : RecordsOf(a) = {}  BY <1>1 DEF RecordsOf
<1>4. IsFiniteSet({}) /\ Cardinality({}) = 0  BY FS_EmptySet
<1> QED  BY <1>2, <1>3, <1>4 DEF Placed

LEMMA CellsOfText ==
  ASSUME NEW text \in Seq(Cells), NEW p \in 1..Len(text)
  PROVE  text[p] \in Range(text)
<1>1. DOMAIN text = 1..Len(text)  BY LenProperties
<1> QED  BY <1>1 DEF Range

LEMMA PlacesGrow ==
  ASSUME NEW E, masked \in Seq(E), NEW R \in E, masked' = Append(masked, R), NEW m, m = Len(masked) + 1
  PROVE  /\ Places' = Places \cup ({m} \X (1..Len(R)))
         /\ \A x \in Places : Cell(x)' = Cell(x) /\ x \notin {m} \X (1..Len(R))
         /\ \A p \in 1..Len(R) : Cell(<<m, p>>)' = R[p]
<1>1. /\ Len(masked) \in Nat /\ Len(masked') = Len(masked) + 1 /\ masked'[m] = R
      /\ \A i \in 1..Len(masked) : masked'[i] = masked[i]
  BY AppendProperties, LenProperties
<1>2. /\ 1..Len(masked') = (1..Len(masked)) \cup {m} /\ m \notin 1..Len(masked)  BY <1>1
<1>3. Places' = UNION {{i} \X (1..Len(masked'[i])) : i \in 1..Len(masked')}  BY DEF Places
<1>4. \A x : x \in Places' <=> x \in Places \/ x \in {m} \X (1..Len(R))
  BY <1>1, <1>2, <1>3 DEF Places
<1>5. \A x \in Places : x[1] \in 1..Len(masked)  BY DEF Places
<1>6. \A x \in Places : Cell(x)' = Cell(x) /\ x \notin {m} \X (1..Len(R))
  BY <1>1, <1>2, <1>5 DEF Cell
<1>7. \A p \in 1..Len(R) : Cell(<<m, p>>)' = R[p]  BY <1>1 DEF Cell
<1> QED  BY <1>4, <1>6, <1>7

LEMMA AuditSame ==
  ASSUME AuditInv, UNCHANGED <<masked, body, fwd, applied>>, repls' = repls \/ (repls = <<>> /\ repls' = <<>>)
  PROVE  AuditInv'
<1>1. PICK Tk, Bk : Placed(Tk, Bk)  BY DEF AuditInv
<1>2. repls' = repls  OBVIOUS
<1>3. Places' = Places /\ \A F : Pending(F)' = Pending(F)  BY <1>2 DEF Places, Pending
<1>4. \A a : RecordsOf(a)' = RecordsOf(a)  BY DEF RecordsOf
<1>5. \A x : Cell(x)' = Cell(x)  BY DEF Cell
<1>6. Placed(Tk, Bk)'  BY <1>1, <1>3, <1>4, <1>5 DEF Placed
<1> QED  BY <1>6 DEF AuditInv

LEMMA AuditPassThrough == MaskInv /\ AuditInv /\ PassThrough => AuditInv'
<1> SUFFICES ASSUME MaskInv, AuditInv, PassThrough PROVE AuditInv'
  OBVIOUS
<1>1. PICK Tk, Bk : Placed(Tk, Bk)  BY DEF AuditInv
<1>2. /\ masked = <<>> /\ masked' = [i \in 1..Len(body) |-> body[i].text]
      /\ UNCHANGED <<body, repls, fwd, applied>>
  BY DEF PassThrough, vault
<1>3. Places = {}
  <2>1. Len(masked) = 0  BY <1>2, EmptySeq
  <2> QED  BY <2>1 DEF Places
<1>4. Tk = {} /\ Bk = {}  BY <1>1, <1>3 DEF Placed
<1>5. /\ Len(body) \in Nat /\ \A i \in 1..Len(body) : body[i].text \in Seq(Cells)
  BY LeafTyped DEF MaskInv
<1>6. Len(masked') = Len(body)
  <2>1. DOMAIN masked' = 1..Len(body)  BY <1>2
  <2> QED  BY <1>2, <1>5
<1>7. ASSUME NEW x \in Places' PROVE Cell(x)' \in Range(body[x[1]].text)
  <2>1. Places' = UNION {{i} \X (1..Len(masked'[i])) : i \in 1..Len(masked')}  BY DEF Places
  <2>2. x[1] \in 1..Len(body) /\ x[2] \in 1..Len(masked'[x[1]])  BY <1>6, <1>7, <2>1
  <2>3. masked'[x[1]] = body[x[1]].text  BY <1>2, <2>2
  <2>4. Cell(x)' = body[x[1]].text[x[2]]  BY <2>3 DEF Cell
  <2> QED  BY <1>5, <2>2, <2>3, <2>4, CellsOfText
<1>8. \A F : Pending(F)' = Pending(F)  BY <1>2 DEF Pending
<1>9. \A a : RecordsOf(a)' = RecordsOf(a)  BY <1>2 DEF RecordsOf
<1>10. Placed(Tk, Bk)'
  BY <1>1, <1>2, <1>4, <1>7, <1>8, <1>9 DEF Placed
<1> QED  BY <1>10 DEF AuditInv

LEMMA AuditKeepLeaf == MaskInv /\ AuditInv /\ KeepLeaf => AuditInv'
<1> SUFFICES ASSUME MaskInv, AuditInv, KeepLeaf PROVE AuditInv'
  OBVIOUS
<1>1. PICK Tk, Bk : Placed(Tk, Bk)  BY DEF AuditInv
<1>2. /\ Len(masked) < Len(body) /\ masked' = Append(masked, Leaf.text)
      /\ UNCHANGED <<body, repls, fwd, applied>>
  BY DEF KeepLeaf, vault
<1>3. PICK m, R : m = Len(masked) + 1 /\ R = Leaf.text  OBVIOUS
<1>4. /\ masked \in Seq(Seq(Cells \cup Marks)) /\ Len(masked) \in Nat /\ Len(body) \in Nat
      /\ \A i \in 1..Len(body) : body[i].text \in Seq(Cells)
  BY LeafTyped, LenProperties DEF MaskInv
<1>5. R = body[m].text /\ R \in Seq(Cells)  BY <1>2, <1>3, <1>4 DEF Leaf
<1>6. R \in Seq(Cells \cup Marks)
  <2>1. Tracks([p \in 1..Len(R) |-> p], R, R, {})  BY <1>5, TracksNothing
  <2> QED  BY <2>1 DEF Tracks
<1>7. /\ Places' = Places \cup ({m} \X (1..Len(R)))
      /\ \A x \in Places : Cell(x)' = Cell(x) /\ x \notin {m} \X (1..Len(R))
      /\ \A p \in 1..Len(R) : Cell(<<m, p>>)' = R[p]
  <2> DEFINE E == Seq(Cells \cup Marks)
  <2>1. masked \in Seq(E) /\ R \in E /\ masked' = Append(masked, R)  BY <1>2, <1>3, <1>4, <1>6
  <2> HIDE DEF E
  <2> QED  BY <1>3, <2>1, PlacesGrow
<1>8. ASSUME NEW x \in {m} \X (1..Len(R)) PROVE Cell(x)' \in Range(body[x[1]].text)
  <2>1. x = <<m, x[2]>> /\ x[2] \in 1..Len(R) /\ x[1] = m  BY <1>8
  <2>2. Cell(x)' = R[x[2]]  BY <1>7, <2>1
  <2> QED  BY <1>5, <2>1, <2>2, CellsOfText
<1>9. \A F : Pending(F)' = Pending(F)  BY <1>2 DEF Pending
<1>10. \A a : RecordsOf(a)' = RecordsOf(a)  BY <1>2 DEF RecordsOf
<1>11. \A x \in Places' \ (Tk \cup Bk) : Cell(x)' \in Range(body[x[1]].text)
  BY <1>1, <1>7, <1>8 DEF Placed
<1>12. \A x \in Tk \cup Bk : x \in Places /\ Cell(x)' = Cell(x)  BY <1>1, <1>7 DEF Placed
<1>13. Placed(Tk, Bk)'
  BY <1>1, <1>2, <1>7, <1>9, <1>10, <1>11, <1>12 DEF Placed
<1> QED  BY <1>13 DEF AuditInv

LEMMA LeafAtHand ==
  ASSUME MaskInv, pc = "replace"
  PROVE  /\ Leaf.text \in Seq(Cells) /\ Leaf.text \in DOMAIN found
         /\ ChosenIn(Leaf.text) \in Seq(Detections(Leaf.text)) /\ Len(ChosenIn(Leaf.text)) \in Nat
<1>1. Working  BY DEF MaskInv
<1>2. PICK t, D, c : t = Leaf.text /\ D = found[t] /\ c = ChosenIn(t)  OBVIOUS
<1>3. t \in Seq(Cells) /\ t \in DOMAIN found
  <2>1. t \in DOMAIN found  BY <1>1, <1>2 DEF Working
  <2> QED  BY <2>1 DEF MaskInv, FoundInv
<1>4. D \in SUBSET Detections(t) /\ IsFiniteSet(D)  BY <1>2, <1>3 DEF MaskInv, FoundInv
<1>5. c \in Seq(D)  BY <1>2, <1>3, <1>4, ResolveKeeps DEF ChosenIn
<1>6. Len(c) \in Nat /\ \A i \in 1..Len(c) : c[i] \in Detections(t)
  BY <1>4, <1>5, LenProperties, ElementOfSeq
<1>7. c \in Seq(Detections(t))  BY <1>5, <1>6, IsASeq, LenProperties
<1> QED  BY <1>2, <1>3, <1>6, <1>7

LEMMA HeadIsDetected ==
  ASSUME MaskInv, pc = "replace", queue # <<>>
  PROVE  Head(queue) \in Detections(Leaf.text)
<1>1. Working  BY DEF MaskInv
<1>2. PICK c : \E n \in 0..Len(c) :
                 /\ c = ChosenIn(Leaf.text) /\ queue = SubSeq(c, n + 1, Len(c))
                 /\ Answers(repls, Leaf.text, c, n)
  BY <1>1 DEF Working
<1>3. PICK n \in 0..Len(c) : queue = SubSeq(c, n + 1, Len(c))  BY <1>2
<1>4. PICK T : T = Detections(Leaf.text)  OBVIOUS
<1>5. c \in Seq(T) /\ Len(c) \in Nat  BY <1>2, <1>4, LeafAtHand
<1>6. n + 1 \in 1..Len(c) /\ Head(SubSeq(c, n + 1, Len(c))) = c[n + 1]
  <2>1. SubSeq(c, n + 1, Len(c)) # <<>>  BY <1>3
  <2> QED  BY <1>5, <2>1, RestOfQueue
<1>7. c[n + 1] \in T  BY <1>5, <1>6, ElementOfSeq
<1> QED  BY <1>3, <1>4, <1>6, <1>7

LEMMA ValuesAreTokens ==
  ASSUME FwdInv, NEW r \in DOMAIN fwd
  PROVE  fwd[r] \in TokenForms
<1>1. Cardinality(DOMAIN fwd) \in Nat  BY FS_CardinalityType DEF FwdInv
<1>2. PICK k \in Range(Scanners), n \in 1..Cardinality(DOMAIN fwd) : fwd[r] = Token(k, n)
  BY DEF FwdInv
<1>3. n \in Nat  BY <1>1
<1> QED  BY <1>2, <1>3, FormsDiffer

LEMMA PendingForms ==
  ASSUME MaskInv, pc = "replace", NEW i \in 1..Len(repls)
  PROVE  \/ repls[i].new[1] \in TokenForms /\ \E r \in DOMAIN fwd : repls[i].new[1] = fwd[r]
         \/ repls[i].new[1] \in BlockForms
<1>1. Working  BY DEF MaskInv
<1>2. PICK c : \E n \in 0..Len(c) :
                 /\ c = ChosenIn(Leaf.text) /\ queue = SubSeq(c, n + 1, Len(c))
                 /\ Answers(repls, Leaf.text, c, n)
  BY <1>1 DEF Working
<1>3. PICK n \in 0..Len(c) : Answers(repls, Leaf.text, c, n)  BY <1>2
<1>4. PICK t : t = Leaf.text  OBVIOUS
<1>5. t \in Seq(Cells) /\ c \in Seq(Detections(t)) /\ Len(c) \in Nat  BY <1>2, <1>4, LeafAtHand
<1>6. PICK j \in 1..n : Stands(repls[i], c[j], t)  BY <1>3, <1>4 DEF Answers
<1>7. c[j] \in Detections(t)
  <2>1. j \in 1..Len(c)  BY <1>5
  <2> QED  BY <1>5, <2>1, ElementOfSeq
<1>8. c[j].kind \in Range(Scanners)  BY <1>5, <1>7, DetectionFields
<1>9. CASE repls[i].new = <<BlockMark(c[j].kind)>>
  <2>1. repls[i].new[1] = BlockMark(c[j].kind)  BY <1>9
  <2> QED  BY <1>8, <2>1, FormsDiffer
<1>10. ASSUME NEW r \in DOMAIN fwd, repls[i].new = <<fwd[r]>>
       PROVE  repls[i].new[1] \in TokenForms /\ repls[i].new[1] = fwd[r]
  <2>1. repls[i].new[1] = fwd[r]  BY <1>10
  <2> QED  BY <2>1, ValuesAreTokens DEF MaskInv
<1> QED  BY <1>6, <1>9, <1>10 DEF Stands

LEMMA AuditReplaceNext == MaskInv /\ AuditInv /\ ReplaceNext => AuditInv'
<1> SUFFICES ASSUME MaskInv, AuditInv, ReplaceNext PROVE AuditInv'
  OBVIOUS
<1>1. PICK Tk, Bk : Placed(Tk, Bk)  BY DEF AuditInv
<1>2. pc = "replace" /\ queue # <<>> /\ UNCHANGED <<masked, body>>  BY DEF ReplaceNext
<1>3. PICK t, d, real : t = Leaf.text /\ d = Head(queue) /\ real = SubSeq(t, d.start, d.end - 1)
  OBVIOUS
<1>4. t \in Seq(Cells) /\ d \in Detections(t)  BY <1>2, <1>3, LeafAtHand, HeadIsDetected
<1>5. real \in Seq(Detectable) /\ d.kind \in Range(Scanners)
  BY <1>3, <1>4, DetectedWord, DetectionFields
<1>6. Places' = Places /\ \A x : Cell(x)' = Cell(x)  BY <1>2 DEF Places, Cell
<1>7. Cardinality(Tk) \in Nat /\ Cardinality(Bk) \in Nat  BY <1>1, FS_CardinalityType DEF Placed
<1>8. ASSUME NEW e, repls' = Append(repls, e), NEW action, applied' = Append(applied, <<d.kind, action>>),
             \A r \in DOMAIN fwd : r \in DOMAIN fwd' /\ fwd'[r] = fwd[r],
             \/ action = "pseudonymize" /\ e.new[1] \in TokenForms /\ e.new[1] \notin BlockForms
             \/ action = "block" /\ e.new[1] \in BlockForms /\ e.new[1] \notin TokenForms
      PROVE  AuditInv'
  <2>1. PICK E : repls \in Seq(E)  BY <1>2 DEF MaskInv, Working
  <2>2. PICK F : applied \in Seq(F)  BY DEF MaskInv
  <2>3. \A G : /\ Cardinality(Pending(G)) \in Nat
               /\ Cardinality(Pending(G)') = Cardinality(Pending(G)) + (IF e.new[1] \in G THEN 1 ELSE 0)
    BY <1>8, <2>1, OneMorePending
  <2>4. \A a : /\ Cardinality(RecordsOf(a)) \in Nat
               /\ Cardinality(RecordsOf(a)') = Cardinality(RecordsOf(a)) + (IF action = a THEN 1 ELSE 0)
    BY <1>8, <2>2, OneMoreRecord
  <2>5. /\ Cardinality(Tk) + Cardinality(Pending(TokenForms)') = Cardinality(RecordsOf("pseudonymize")')
        /\ Cardinality(Bk) + Cardinality(Pending(BlockForms)') = Cardinality(RecordsOf("block")')
    <3>1. PICK p, q, u, v :
            /\ p = Cardinality(Pending(TokenForms)) /\ q = Cardinality(Pending(BlockForms))
            /\ u = Cardinality(RecordsOf("pseudonymize")) /\ v = Cardinality(RecordsOf("block"))
      OBVIOUS
    <3>2. /\ p \in Nat /\ q \in Nat /\ u \in Nat /\ v \in Nat
          /\ Cardinality(Tk) + p = u /\ Cardinality(Bk) + q = v
      BY <1>1, <2>3, <2>4, <3>1 DEF Placed
    <3>3. CASE action = "pseudonymize"
      <4>1. /\ Cardinality(Pending(TokenForms)') = p + 1 /\ Cardinality(Pending(BlockForms)') = q + 0
            /\ Cardinality(RecordsOf("pseudonymize")') = u + 1 /\ Cardinality(RecordsOf("block")') = v + 0
        BY <1>8, <2>3, <2>4, <3>1, <3>3
      <4>2. Cardinality(Tk) + (p + 1) = u + 1 /\ Cardinality(Bk) + (q + 0) = v + 0  BY <1>7, <3>2
      <4> QED  BY <4>1, <4>2
    <3>4. CASE action = "block"
      <4>1. /\ Cardinality(Pending(TokenForms)') = p + 0 /\ Cardinality(Pending(BlockForms)') = q + 1
            /\ Cardinality(RecordsOf("pseudonymize")') = u + 0 /\ Cardinality(RecordsOf("block")') = v + 1
        BY <1>8, <2>3, <2>4, <3>1, <3>4
      <4>2. Cardinality(Tk) + (p + 0) = u + 0 /\ Cardinality(Bk) + (q + 1) = v + 1  BY <1>7, <3>2
      <4> QED  BY <4>1, <4>2
    <3> QED  BY <1>8, <3>3, <3>4
  <2>6. \A x \in Tk : \E r \in DOMAIN fwd' : Cell(x)' = fwd'[r]  BY <1>1, <1>6, <1>8 DEF Placed
  <2>7. Placed(Tk, Bk)'  BY <1>1, <1>2, <1>6, <2>5, <2>6 DEF Placed
  <2> QED  BY <2>7 DEF AuditInv
<1>9. CASE /\ Remember(real, d.kind)
           /\ repls' = Append(repls, [start |-> d.start, end |-> d.end,
                                      new |-> <<PlaceholderFor(real, d.kind)>>])
           /\ applied' = Append(applied, <<d.kind, "pseudonymize">>)
  <2>1. /\ FwdInv' /\ \A r \in DOMAIN fwd : r \in DOMAIN fwd' /\ fwd'[r] = fwd[r]
        /\ real \in DOMAIN fwd' /\ fwd'[real] = PlaceholderFor(real, d.kind)
    BY <1>5, <1>9, RememberTypes DEF MaskInv
  <2>2. FwdInv' /\ real \in DOMAIN fwd' => fwd'[real] \in TokenForms
    <3> SUFFICES ASSUME FwdInv', real \in DOMAIN fwd' PROVE fwd'[real] \in TokenForms
      OBVIOUS
    <3>1. Cardinality(DOMAIN fwd') \in Nat  BY FS_CardinalityType DEF FwdInv
    <3>2. PICK k \in Range(Scanners), n \in 1..Cardinality(DOMAIN fwd') : fwd'[real] = Token(k, n)
      BY DEF FwdInv
    <3>3. n \in Nat  BY <3>1
    <3> QED  BY <3>2, <3>3, FormsDiffer
  <2>3. PICK e : e = [start |-> d.start, end |-> d.end, new |-> <<PlaceholderFor(real, d.kind)>>]
    OBVIOUS
  <2>4. e.new[1] = PlaceholderFor(real, d.kind)  BY <2>3
  <2>5. e.new[1] \in TokenForms /\ e.new[1] \notin BlockForms  BY <2>1, <2>2, <2>4, FormsDiffer
  <2> QED  BY <1>8, <1>9, <2>1, <2>3, <2>5
<1>10. CASE /\ UNCHANGED vault
            /\ repls' = Append(repls, [start |-> d.start, end |-> d.end, new |-> <<BlockMark(d.kind)>>])
            /\ applied' = Append(applied, <<d.kind, "block">>)
  <2>1. PICK e : e = [start |-> d.start, end |-> d.end, new |-> <<BlockMark(d.kind)>>]  OBVIOUS
  <2>2. e.new[1] = BlockMark(d.kind)  BY <2>1
  <2>3. e.new[1] \in BlockForms /\ e.new[1] \notin TokenForms  BY <1>5, <2>2, FormsDiffer
  <2>4. \A r \in DOMAIN fwd : r \in DOMAIN fwd' /\ fwd'[r] = fwd[r]  BY <1>10 DEF vault
  <2> QED  BY <1>8, <1>10, <2>1, <2>3, <2>4
<1>11. CASE UNCHANGED <<repls, vault, applied>>
  BY <1>2, <1>11, AuditSame DEF vault
<1> QED  BY <1>3, <1>9, <1>10, <1>11 DEF ReplaceNext

LEMMA AuditFinishLeaf == MaskInv /\ AuditInv /\ FinishLeaf => AuditInv'
<1> SUFFICES ASSUME MaskInv, AuditInv, FinishLeaf PROVE AuditInv'
  OBVIOUS
<1>1. PICK Tk, Bk : Placed(Tk, Bk)  BY DEF AuditInv
<1>2. /\ pc = "replace" /\ masked' = Append(masked, ApplyReplacements(Leaf.text, repls)) /\ repls' = <<>>
      /\ UNCHANGED <<body, fwd, applied>>
  BY DEF FinishLeaf, vault
<1>3. PICK m, t, rs, R : /\ m = Len(masked) + 1 /\ t = Leaf.text /\ rs = repls
                         /\ R = ApplyReplacements(Leaf.text, repls)
  OBVIOUS
<1>4. /\ masked \in Seq(Seq(Cells \cup Marks)) /\ t \in Seq(Cells) /\ t = body[m].text
      /\ rs \in Seq(EditsOf(t)) /\ Apart(rs) /\ R = ApplyReplacements(t, rs)
  BY <1>2, <1>3, LeafAtHand DEF MaskInv, Working, Leaf
<1>5. PICK o : Tracks(o, R, t, Range(rs))
  <2>1. \E o : Tracks(o, ApplyReplacements(t, rs), t, Range(rs))  BY <1>4, EditsAreTracked
  <2> QED  BY <1>4, <2>1
<1>6. /\ Places' = Places \cup ({m} \X (1..Len(R)))
      /\ \A x \in Places : Cell(x)' = Cell(x) /\ x \notin {m} \X (1..Len(R))
      /\ \A p \in 1..Len(R) : Cell(<<m, p>>)' = R[p]
  <2> DEFINE E == Seq(Cells \cup Marks)
  <2>1. masked \in Seq(E) /\ R \in E /\ masked' = Append(masked, R)
    BY <1>2, <1>3, <1>4, <1>5 DEF Tracks
  <2> HIDE DEF E
  <2> QED  BY <1>3, <2>1, PlacesGrow
<1>7. \A i \in 1..Len(rs) :
        \/ rs[i].new[1] \in TokenForms /\ \E r \in DOMAIN fwd : rs[i].new[1] = fwd[r]
        \/ rs[i].new[1] \in BlockForms
  BY <1>2, <1>3, PendingForms
<1>8. PICK P : StandAt(P, R, t, rs, TokenForms)
  <2>1. \A F : \E P : StandAt(P, R, t, rs, F)  BY <1>4, <1>5, MarksOfResult
  <2> QED  BY <2>1
<1>9. PICK Q : StandAt(Q, R, t, rs, BlockForms)
  <2>1. \A F : \E Q : StandAt(Q, R, t, rs, F)  BY <1>4, <1>5, MarksOfResult
  <2> QED  BY <2>1
<1>10. \A p \in 1..Len(R) : p \in P \/ p \in Q \/ R[p] \in Range(t)
  <2>1. ASSUME NEW p \in 1..Len(R), p \notin P, p \notin Q, R[p] \notin Range(t) PROVE FALSE
    <3>1. R[p] \notin TokenForms \/ R[p] \in BlockForms
      BY <1>7, <1>8, <2>1 DEF StandAt
    <3>2. R[p] \notin BlockForms /\ R[p] \in TokenForms  BY <1>7, <1>9, <2>1 DEF StandAt
    <3> QED  BY <3>1, <3>2
  <2> QED  BY <2>1
<1> DEFINE TT == Tk \cup ({m} \X P)
           BB == Bk \cup ({m} \X Q)
<1>11. ASSUME NEW A, IsFiniteSet(A), NEW Z \in SUBSET (1..Len(R)), IsFiniteSet(Z), A \subseteq Places
       PROVE  /\ IsFiniteSet(A \cup ({m} \X Z))
              /\ Cardinality(A \cup ({m} \X Z)) = Cardinality(A) + Cardinality(Z)
  <2> DEFINE Y == {m} \X Z
             f == [p \in Z |-> <<m, p>>]
  <2>1. f \in Bijection(Z, Y)
    <3>1. f \in [Z -> Y]  OBVIOUS
    <3>2. \A p, q \in Z : f[p] = f[q] => p = q  OBVIOUS
    <3>3. \A y \in Y : \E p \in Z : f[p] = y
      <4>1. ASSUME NEW y \in Y PROVE \E p \in Z : f[p] = y
        <5>1. y = <<m, y[2]>> /\ y[2] \in Z  OBVIOUS
        <5> QED  BY <5>1
      <4> QED  BY <4>1
    <3> HIDE DEF f, Y
    <3> QED  BY <3>1, <3>2, <3>3 DEF Bijection, Injection, Surjection, IsInjective
  <2>2. IsFiniteSet(Y) /\ Cardinality(Y) = Cardinality(Z)
    <3> HIDE DEF f, Y
    <3>1. ExistsBijection(Z, Y)  BY <2>1 DEF ExistsBijection
    <3> QED  BY <1>11, <3>1, FS_Bijection
  <2>3. A \cap Y = {}  BY <1>6, <1>11
  <2> HIDE DEF Y
  <2>4. IsFiniteSet(A \cup Y)
        /\ Cardinality(A \cup Y) = Cardinality(A) + Cardinality(Y) - Cardinality(A \cap Y)
    BY <1>11, <2>2, FS_Union
  <2>5. Cardinality(A \cap Y) = 0  BY <2>3, FS_EmptySet
  <2>6. Cardinality(A) \in Nat /\ Cardinality(Y) \in Nat  BY <1>11, <2>2, FS_CardinalityType
  <2>7. Cardinality(A) + Cardinality(Y) - 0 = Cardinality(A) + Cardinality(Z)  BY <2>2, <2>6
  <2> QED  BY <2>4, <2>5, <2>7 DEF Y
<1>12. /\ IsFiniteSet(TT) /\ IsFiniteSet(BB)
       /\ Cardinality(TT) = Cardinality(Tk) + Cardinality(Pending(TokenForms))
       /\ Cardinality(BB) = Cardinality(Bk) + Cardinality(Pending(BlockForms))
  <2>1. /\ IsFiniteSet(TT) /\ Cardinality(TT) = Cardinality(Tk) + Cardinality(P)
        /\ IsFiniteSet(BB) /\ Cardinality(BB) = Cardinality(Bk) + Cardinality(Q)
    BY <1>1, <1>8, <1>9, <1>11 DEF Placed, StandAt
  <2>2. Cardinality(P) = Cardinality(Pending(TokenForms)) /\ Cardinality(Q) = Cardinality(Pending(BlockForms))
    BY <1>3, <1>8, <1>9 DEF Pending, StandAt
  <2> QED  BY <2>1, <2>2
<1>13. \A x \in {m} \X (1..Len(R)) : x = <<m, x[2]>> /\ x[2] \in 1..Len(R) /\ x[1] = m /\ Cell(x)' = R[x[2]]
  <2>1. ASSUME NEW x \in {m} \X (1..Len(R))
        PROVE  x = <<m, x[2]>> /\ x[2] \in 1..Len(R) /\ x[1] = m /\ Cell(x)' = R[x[2]]
    <3>1. x = <<m, x[2]>> /\ x[2] \in 1..Len(R) /\ x[1] = m  OBVIOUS
    <3>2. Cell(x)' = Cell(<<m, x[2]>>)'  BY <3>1 DEF Cell
    <3> QED  BY <1>6, <3>1, <3>2
  <2> QED  BY <2>1
<1>14. \A x \in TT : \E r \in DOMAIN fwd' : Cell(x)' = fwd'[r]
  <2>1. \A x \in Tk : \E r \in DOMAIN fwd' : Cell(x)' = fwd'[r]  BY <1>1, <1>2, <1>6 DEF Placed
  <2>2. \A x \in {m} \X P : \E r \in DOMAIN fwd' : Cell(x)' = fwd'[r]
    <3>1. ASSUME NEW x \in {m} \X P PROVE \E r \in DOMAIN fwd' : Cell(x)' = fwd'[r]
      <4>1. x \in {m} \X (1..Len(R)) /\ x[2] \in P  BY <1>8 DEF StandAt
      <4>2. PICK i \in 1..Len(rs) : R[x[2]] = rs[i].new[1] /\ rs[i].new[1] \in TokenForms
        BY <1>8, <4>1 DEF StandAt
      <4>3. \E r \in DOMAIN fwd : rs[i].new[1] = fwd[r]  BY <1>7, <4>2, FormsDiffer
      <4> QED  BY <1>2, <1>13, <4>1, <4>2, <4>3
    <3> QED  BY <3>1
  <2> QED  BY <2>1, <2>2
<1>15. \A x \in BB : Cell(x)' \in BlockForms
  <2>1. \A x \in Bk : Cell(x)' \in BlockForms  BY <1>1, <1>6 DEF Placed
  <2>2. \A x \in {m} \X Q : Cell(x)' \in BlockForms
    <3>1. ASSUME NEW x \in {m} \X Q PROVE Cell(x)' \in BlockForms
      <4>1. x \in {m} \X (1..Len(R)) /\ x[2] \in Q  BY <1>9 DEF StandAt
      <4> QED  BY <1>9, <1>13, <4>1 DEF StandAt
    <3> QED  BY <3>1
  <2> QED  BY <2>1, <2>2
<1>16. \A x \in Places' \ (TT \cup BB) : Cell(x)' \in Range(body'[x[1]].text)
  <2>1. ASSUME NEW x \in Places, x \notin Tk, x \notin Bk PROVE Cell(x)' \in Range(body'[x[1]].text)
    BY <1>1, <1>2, <1>6, <2>1 DEF Placed
  <2>2. ASSUME NEW x \in {m} \X (1..Len(R)), x \notin {m} \X P, x \notin {m} \X Q
        PROVE  Cell(x)' \in Range(body'[x[1]].text)
    <3>1. /\ x = <<m, x[2]>> /\ x[2] \in 1..Len(R) /\ x[1] = m /\ Cell(x)' = R[x[2]]  BY <1>13
    <3>2. x[2] \notin P /\ x[2] \notin Q  BY <2>2, <3>1
    <3> QED  BY <1>2, <1>4, <1>10, <3>1, <3>2
  <2> QED  BY <1>6, <2>1, <2>2
<1>17. TT \subseteq Places' /\ BB \subseteq Places'
  <2>1. {m} \X P \subseteq {m} \X (1..Len(R)) /\ {m} \X Q \subseteq {m} \X (1..Len(R))
    BY <1>8, <1>9 DEF StandAt
  <2> QED  BY <1>1, <1>6, <2>1 DEF Placed
<1> HIDE DEF TT, BB
<1>18. /\ Cardinality(TT) + Cardinality(Pending(TokenForms)') = Cardinality(RecordsOf("pseudonymize")')
       /\ Cardinality(BB) + Cardinality(Pending(BlockForms)') = Cardinality(RecordsOf("block")')
  <2>1. \A F : Pending(F)' = {}
    <3>1. Len(repls') = 0  BY <1>2, EmptySeq
    <3> QED  BY <3>1 DEF Pending
  <2>2. Cardinality({}) = 0  BY FS_EmptySet
  <2>3. Cardinality(TT) \in Nat /\ Cardinality(BB) \in Nat  BY <1>12, FS_CardinalityType
  <2>4. \A a : RecordsOf(a)' = RecordsOf(a)  BY <1>2 DEF RecordsOf
  <2>5. Cardinality(TT) = Cardinality(RecordsOf("pseudonymize")) /\ Cardinality(BB) = Cardinality(RecordsOf("block"))
    BY <1>1, <1>12 DEF Placed
  <2>6. Cardinality(TT) + 0 = Cardinality(TT) /\ Cardinality(BB) + 0 = Cardinality(BB)  BY <2>3
  <2> QED  BY <2>1, <2>2, <2>4, <2>5, <2>6
<1>19. Placed(TT, BB)'  BY <1>12, <1>14, <1>15, <1>16, <1>17, <1>18 DEF Placed
<1> QED  BY <1>19 DEF AuditInv

LEMMA AuditInvStep == MaskInv /\ AuditInv /\ [Next]_vars => AuditInv'
<1> SUFFICES ASSUME MaskInv, AuditInv, [Next]_vars PROVE AuditInv'
  OBVIOUS
<1>1. CASE ScanLeaf
  <2>1. repls = <<>> /\ repls' = <<>> /\ UNCHANGED <<masked, body, fwd, applied>>
    BY <1>1 DEF MaskInv, ScanLeaf, vault
  <2> QED  BY <2>1, AuditSame
<1>2. CASE Finish \/ UNCHANGED vars
  <2>1. UNCHANGED <<masked, body, fwd, applied, repls>>
    BY <1>2 DEF Finish, vars, vault
  <2> QED  BY <2>1, AuditSame
<1> QED
  BY <1>1, <1>2, AuditPassThrough, AuditKeepLeaf, AuditReplaceNext, AuditFinishLeaf DEF Next

(* No record without its mark and no mark without its record: whatever scan *)
(* finds in the leaves, the placeholders in the masked body are as many as  *)
(* the records of values pseudonymized, the block marks as many as the      *)
(* records of values blocked, the right-to-left edits losing none.          *)
THEOREM RecordsMatchMarks == Spec => []AuditMatchesBody
<1>1. VaultInv /\ MaskInv /\ AuditInv => AuditMatchesBody
  <2> SUFFICES ASSUME VaultInv, MaskInv, AuditInv, LiteralFree, BlockFree, pc # "replace"
               PROVE  /\ Cardinality(PlacesOf({rev[k].token : k \in 1..Len(rev)}))
                           = Cardinality(RecordsOf("pseudonymize"))
                      /\ Cardinality(PlacesOf({BlockMark(k) : k \in Range(Scanners)}))
                           = Cardinality(RecordsOf("block"))
    BY DEF AuditMatchesBody, RecordsOf
  <2>1. PICK Tk, Bk : Placed(Tk, Bk)  BY DEF AuditInv
  <2> DEFINE tokens == {rev[k].token : k \in 1..Len(rev)}
  <2>2. \A r \in DOMAIN fwd : fwd[r] \in tokens  BY SMTT(30) DEF VaultInv
  <2>3. \A v \in tokens : v \in TokenForms
    <3>1. \A k \in 1..Len(rev) : rev[k].real \in DOMAIN fwd /\ fwd[rev[k].real] = rev[k].token
      BY DEF VaultInv
    <3>2. \A r \in DOMAIN fwd : fwd[r] \in TokenForms  BY ValuesAreTokens DEF MaskInv
    <3> QED  BY <3>1, <3>2
  <2>4. \A x \in Places : x[1] \in 1..Len(body)
    <3>1. Len(masked) <= Len(body) /\ Len(masked) \in Nat /\ Len(body) \in Nat
      BY LenProperties, LeafTyped DEF MaskInv
    <3>2. \A x \in Places : x[1] \in 1..Len(masked)  BY DEF Places
    <3> QED  BY <3>1, <3>2
  <2>5. \A i \in 1..Len(body) : \A v \in tokens : v \notin Range(body[i].text)
    BY DEF LiteralFree
  <2>6. \A i \in 1..Len(body) : \A v \in BlockForms : v \notin Range(body[i].text)
    BY FormsDiffer DEF BlockFree
  <2> HIDE DEF tokens
  <2>7. PlacesOf(tokens) = Tk
    <3>1. \A x \in Tk : x \in Places /\ Cell(x) \in tokens  BY <2>1, <2>2 DEF Placed
    <3>2. \A x \in Places : Cell(x) \in tokens => x \in Tk
      <4>1. ASSUME NEW x \in Places, Cell(x) \in tokens, x \notin Tk PROVE FALSE
        <5>1. x \notin Bk  BY <2>1, <2>3, <4>1, FormsDiffer DEF Placed
        <5>2. Cell(x) \in Range(body[x[1]].text)  BY <2>1, <4>1, <5>1 DEF Placed
        <5> QED  BY <2>4, <2>5, <4>1, <5>2
      <4> QED  BY <4>1
    <3>3. PlacesOf(tokens) = {x \in Places : Cell(x) \in tokens}  BY DEF PlacesOf, Places, Cell
    <3> QED  BY <3>1, <3>2, <3>3
  <2>8. PlacesOf(BlockForms) = Bk
    <3>1. \A x \in Bk : x \in Places /\ Cell(x) \in BlockForms  BY <2>1 DEF Placed
    <3>2. \A x \in Places : Cell(x) \in BlockForms => x \in Bk
      <4>1. ASSUME NEW x \in Places, Cell(x) \in BlockForms, x \notin Bk PROVE FALSE
        <5>1. x \notin Tk  BY <2>1, <2>2, <2>3, <4>1, FormsDiffer DEF Placed
        <5>2. Cell(x) \in Range(body[x[1]].text)  BY <2>1, <4>1, <5>1 DEF Placed
        <5> QED  BY <2>4, <2>6, <4>1, <5>2
      <4> QED  BY <4>1
    <3>3. PlacesOf(BlockForms) = {x \in Places : Cell(x) \in BlockForms}  BY DEF PlacesOf, Places, Cell
    <3> QED  BY <3>1, <3>2, <3>3
  <2>9. Cardinality(Tk) = Cardinality(RecordsOf("pseudonymize"))
        /\ Cardinality(Bk) = Cardinality(RecordsOf("block"))
    <3>1. \A F : Pending(F) = {}
      <4>1. Len(repls) = 0  BY EmptySeq DEF MaskInv
      <4> QED  BY <4>1 DEF Pending
    <3>2. Cardinality({}) = 0  BY FS_EmptySet
    <3>3. Cardinality(Tk) \in Nat /\ Cardinality(Bk) \in Nat  BY <2>1, FS_CardinalityType DEF Placed
    <3>4. /\ Cardinality(Tk) + 0 = Cardinality(RecordsOf("pseudonymize"))
          /\ Cardinality(Bk) + 0 = Cardinality(RecordsOf("block"))
      BY <2>1, <3>1, <3>2 DEF Placed
    <3> QED  BY <3>3, <3>4
  <2> QED  BY <2>7, <2>8, <2>9, FormsDiffer DEF tokens
<1>2. Spec => []AuditInv
  BY MaskInvHolds, AuditInit, AuditInvStep, PTL DEF Spec
<1>3. Spec => []VaultInv
  BY VaultInvInit, VaultInvStep, PTL DEF Spec
<1> QED  BY MaskInvHolds, <1>1, <1>2, <1>3, PTL

-----------------------------------------------------------------------------
(* Texts that are rewritten cell by cell.                                  *)

\* Induction over the sequences of C, of a claim given as the set it holds on.
LEMMA OverSequences ==
  ASSUME NEW C, NEW S, <<>> \in S, \A s \in Seq(C), c \in C : s \in S => Append(s, c) \in S
  PROVE  \A s \in Seq(C) : s \in S
<1> SUFFICES ASSUME NEW all \in Seq(C) PROVE all \in S
  OBVIOUS
<1> DEFINE Holds(n) == \A s \in Seq(C) : Len(s) = n => s \in S
           T == {n \in 0..Len(all) : Holds(n)}
<1>1. Len(all) \in Nat  BY LenProperties
<1>2. Holds(0)
  <2>1. \A s \in Seq(C) : Len(s) = 0 => s = <<>>  BY EmptySeq
  <2> QED  BY <2>1
<1>3. ASSUME NEW n \in 1..Len(all), Holds(n - 1) PROVE Holds(n)
  <2>1. ASSUME NEW s \in Seq(C), Len(s) = n PROVE s \in S
    <3>1. s # <<>>  BY <2>1, EmptySeq
    <3>2. PICK t \in Seq(C) : \E c \in C : s = Append(t, c)  BY <3>1, SequenceEmptyOrAppend
    <3>3. PICK c \in C : s = Append(t, c)  BY <3>2
    <3>4. Len(t) = n - 1
      <4>1. Len(s) = Len(t) + 1  BY <3>3, AppendProperties
      <4>2. Len(t) \in Nat  BY LenProperties
      <4> QED  BY <2>1, <4>1, <4>2
    <3> QED  BY <1>3, <3>3, <3>4
  <2> QED  BY <2>1
<1> HIDE DEF Holds
<1>4. 0 \in T  BY <1>1, <1>2
<1>5. \A n \in 1..Len(all) : n - 1 \in T => n \in T  BY <1>1, <1>3
<1> HIDE DEF T
<1>6. \A n \in 0..Len(all) : n \in T  BY <1>1, <1>4, <1>5, Splicing!UpTo
<1>7. Len(all) \in T  BY <1>1, <1>6
<1>8. Holds(Len(all))  BY <1>7 DEF T
<1> QED  BY <1>8 DEF Holds

Concat(s, t) == s \o t
Joining == INSTANCE Folding WITH Op <- Concat

\* it solves the equation by which FlattenSeq chooses its function.
Flattens(it, ss, n) ==
  it = [i \in 1..n |-> IF i = 1 THEN ss[i] ELSE it[i - 1] \o ss[i]]

LEMMA FlatteningExists ==
  ASSUME NEW B, NEW ss \in Seq(Seq(B)), Len(ss) # 0
  PROVE  \E it : Flattens(it, ss, Len(ss))
<1> DEFINE E == Seq(B)
<1>1. ss \in Seq(E)  OBVIOUS
<1> HIDE DEF E
<1>2. PICK w : /\ w[0] = <<>> /\ w[Len(ss)] = Joining!Fold(<<>>, ss)
               /\ \A k \in 1..Len(ss) : w[k] = Concat(w[k - 1], ss[k])
  BY <1>1, Joining!FoldWalks, SMTT(30)
<1>3. Len(ss) \in Nat /\ \A k \in 1..Len(ss) : ss[k] \in Seq(B)  BY LenProperties, ElementOfSeq
<1> DEFINE it == [i \in 1..Len(ss) |-> w[i]]
<1>4. ASSUME NEW i \in 1..Len(ss) PROVE w[i] = IF i = 1 THEN ss[i] ELSE w[i - 1] \o ss[i]
  <2>1. CASE i = 1
    <3>1. w[i] = w[i - 1] \o ss[i]  BY <1>2 DEF Concat
    <3>2. i - 1 = 0  BY <2>1
    <3>3. <<>> \o ss[i] = ss[i]  BY <1>3, ConcatEmptySeq
    <3> QED  BY <1>2, <2>1, <3>1, <3>2, <3>3
  <2>2. CASE i # 1
    <3> QED  BY <1>2, <2>2 DEF Concat
  <2> QED  BY <2>1, <2>2
<1>5. it = [i \in 1..Len(ss) |-> IF i = 1 THEN ss[i] ELSE it[i - 1] \o ss[i]]
  <2>1. \A i \in 1..Len(ss) : i # 1 => i - 1 \in 1..Len(ss)  BY <1>3
  <2>2. \A i \in 1..Len(ss) : i # 1 => it[i - 1] = w[i - 1]  BY <2>1
  <2> QED  BY <1>4, <2>2
<1> QED  BY <1>5 DEF Flattens

LEMMA FlattenIsFold ==
  ASSUME NEW B, NEW ss \in Seq(Seq(B))
  PROVE  FlattenSeq(ss) = Joining!Fold(<<>>, ss)
<1> DEFINE E == Seq(B)
<1>1. Len(ss) \in Nat /\ ss \in Seq(E) /\ \A k \in 1..Len(ss) : ss[k] \in Seq(B)
  BY LenProperties, ElementOfSeq
<1> HIDE DEF E
<1>2. CASE Len(ss) = 0
  <2>1. ss = <<>>  BY <1>2, EmptySeq
  <2>2. Joining!Fold(<<>>, <<>>) = <<>>  BY Joining!FoldOfNothing
  <2> QED  BY <1>2, <2>1, <2>2 DEF FlattenSeq
<1>3. CASE Len(ss) # 0
  <2> DEFINE it == CHOOSE it : Flattens(it, ss, Len(ss))
             w == [k \in 0..Len(ss) |-> IF k = 0 THEN <<>> ELSE it[k]]
  <2>1. Flattens(it, ss, Len(ss))  BY <1>3, FlatteningExists
  <2>2. FlattenSeq(ss) = it[Len(ss)]  BY <1>3 DEF FlattenSeq, Flattens
  <2> HIDE DEF it
  <2>3. \A i \in 1..Len(ss) : it[i] = IF i = 1 THEN ss[i] ELSE it[i - 1] \o ss[i]
    BY <2>1 DEF Flattens
  <2>4. w[0] = <<>> /\ w[Len(ss)] = it[Len(ss)]  BY <1>1, <1>3
  <2>5. ASSUME NEW k \in 1..Len(ss) PROVE w[k] = Concat(w[k - 1], ss[k])
    <3>1. k \in 0..Len(ss) /\ k - 1 \in 0..Len(ss) /\ k # 0  BY <1>1
    <3>2. CASE k = 1
      <4>1. <<>> \o ss[k] = ss[k]  BY <1>1, ConcatEmptySeq
      <4>2. w[k] = ss[k] /\ w[k - 1] = <<>>  BY <2>3, <3>1, <3>2
      <4> QED  BY <4>1, <4>2 DEF Concat
    <3>3. CASE k # 1
      <4>1. k - 1 # 0  BY <3>3
      <4>2. w[k] = it[k] /\ w[k - 1] = it[k - 1]  BY <3>1, <4>1
      <4> QED  BY <2>3, <3>3, <4>2 DEF Concat
    <3> QED  BY <3>2, <3>3
  <2> HIDE DEF w
  <2>6. w[Len(ss)] = Joining!Fold(<<>>, ss)  BY <1>1, <2>4, <2>5, Joining!WalkIsFold
  <2> QED  BY <2>2, <2>4, <2>6
<1> QED  BY <1>2, <1>3

\* s rewritten by g, which gives a sequence for each cell.
Through(g, s) == FlattenSeq([i \in 1..Len(s) |-> g[s[i]]])

Rewrites(g, C) == g \in [C -> Seq(C)]

LEMMA ImageTyped ==
  ASSUME NEW C, NEW g, Rewrites(g, C), NEW c \in C
  PROVE  g[c] \in Seq(C)
BY DEF Rewrites

LEMMA ThroughTyped ==
  ASSUME NEW C, NEW g, Rewrites(g, C), NEW s \in Seq(C)
  PROVE  Through(g, s) \in Seq(C)
<1> DEFINE E == Seq(C)
           ss == [i \in 1..Len(s) |-> g[s[i]]]
<1>1. ss \in Seq(E)
  <2>1. Len(s) \in Nat /\ \A i \in 1..Len(s) : g[s[i]] \in E  BY LenProperties, ElementOfSeq, ImageTyped
  <2> HIDE DEF E
  <2> QED  BY <2>1, IsASeq
<1>2. \A v \in E, e \in E : Concat(v, e) \in E  BY ConcatProperties DEF Concat
<1>3. <<>> \in E  BY EmptySeq
<1>4. FlattenSeq(ss) = Joining!Fold(<<>>, ss)  BY <1>1, FlattenIsFold
<1> HIDE DEF E, ss
<1>5. Joining!Fold(<<>>, ss) \in E  BY <1>1, <1>2, <1>3, Joining!FoldStays
<1> QED  BY <1>4, <1>5 DEF Through, E, ss

LEMMA ThroughNothing ==
  ASSUME NEW g
  PROVE  Through(g, <<>>) = <<>>
<1> DEFINE ss == [i \in 1..Len(<<>>) |-> g[<<>>[i]]]
<1>1. Len(<<>>) = 0  BY EmptySeq
<1>2. ss = <<>>  BY <1>1
<1> HIDE DEF ss
<1> QED  BY <1>1, <1>2 DEF Through, FlattenSeq, ss

LEMMA ThroughAppend ==
  ASSUME NEW C, NEW g, Rewrites(g, C), NEW s \in Seq(C), NEW c \in C
  PROVE  Through(g, Append(s, c)) = Through(g, s) \o g[c]
<1> DEFINE E == Seq(C)
           t == Append(s, c)
           ss == [i \in 1..Len(s) |-> g[s[i]]]
           tt == [i \in 1..Len(t) |-> g[t[i]]]
<1>1. /\ Len(s) \in Nat /\ t \in Seq(C) /\ Len(t) = Len(s) + 1 /\ t[Len(s) + 1] = c
      /\ \A i \in 1..Len(s) : t[i] = s[i]
  BY LenProperties, AppendProperties
<1> HIDE DEF t
<1>2. ss \in Seq(E) /\ Len(ss) = Len(s) /\ tt \in Seq(E) /\ Len(tt) = Len(s) + 1
  <2>1. /\ \A i \in 1..Len(s) : g[s[i]] \in E
        /\ \A i \in 1..Len(t) : g[t[i]] \in E
    BY <1>1, ElementOfSeq, ImageTyped
  <2> HIDE DEF E
  <2> QED  BY <1>1, <2>1, IsASeq
<1>3. g[c] \in E  BY ImageTyped
<1>4. \A i \in 1..Len(s) : ss[i] = g[s[i]] /\ tt[i] = g[s[i]]  BY <1>1
<1>5. tt[Len(s) + 1] = g[c]  BY <1>1
<1>6. FlattenSeq(ss) = Joining!Fold(<<>>, ss) /\ FlattenSeq(tt) = Joining!Fold(<<>>, tt)
  BY <1>2, FlattenIsFold
<1> HIDE DEF E, ss, tt
<1>7. tt = Append(ss, g[c])
  <2> DEFINE u == Append(ss, g[c])
  <2>1. /\ u \in Seq(E) /\ Len(u) = Len(s) + 1 /\ u[Len(s) + 1] = g[c]
        /\ \A i \in 1..Len(s) : u[i] = ss[i]
    BY <1>2, <1>3, AppendProperties
  <2> HIDE DEF u
  <2>2. \A i \in 1..Len(tt) : tt[i] = u[i]
    <3>1. \A i \in 1..Len(tt) : i \in 1..Len(s) \/ i = Len(s) + 1  BY <1>1, <1>2
    <3> QED  BY <1>4, <1>5, <2>1, <3>1
  <2>3. Len(tt) = Len(u)  BY <1>2, <2>1
  <2> QED  BY <1>2, <2>1, <2>2, <2>3, SeqEqual DEF u
<1>8. Joining!Fold(<<>>, Append(ss, g[c])) = Concat(Joining!Fold(<<>>, ss), g[c])
  BY <1>2, <1>3, Joining!FoldOfAppend
<1> QED  BY <1>6, <1>7, <1>8 DEF Through, Concat, ss, tt, t

LEMMA ThroughOne ==
  ASSUME NEW C, NEW g, Rewrites(g, C), NEW c \in C
  PROVE  Through(g, <<c>>) = g[c]
<1>1. <<>> \in Seq(C) /\ Append(<<>>, c) = <<c>>  BY EmptySeq
<1>2. Through(g, Append(<<>>, c)) = Through(g, <<>>) \o g[c]  BY <1>1, ThroughAppend
<1>3. <<>> \o g[c] = g[c]
  <2>1. g[c] \in Seq(C)  BY ImageTyped
  <2> QED  BY <2>1, ConcatEmptySeq
<1> QED  BY <1>1, <1>2, <1>3, ThroughNothing

LEMMA ThroughConcat ==
  \A C, g, s, t : Rewrites(g, C) /\ s \in Seq(C) /\ t \in Seq(C) =>
    Through(g, s \o t) = Through(g, s) \o Through(g, t)
<1> SUFFICES ASSUME NEW C, NEW g, Rewrites(g, C), NEW s \in Seq(C), NEW t \in Seq(C)
             PROVE  Through(g, s \o t) = Through(g, s) \o Through(g, t)
  OBVIOUS
<1> DEFINE S == {u \in Seq(C) : Through(g, s \o u) = Through(g, s) \o Through(g, u)}
<1>1. Through(g, s) \in Seq(C)  BY ThroughTyped
<1>2. <<>> \in S
  <2>1. s \o <<>> = s /\ <<>> \in Seq(C)  BY ConcatEmptySeq, EmptySeq
  <2>2. Through(g, s) \o <<>> = Through(g, s)  BY <1>1, ConcatEmptySeq
  <2>3. Through(g, <<>>) = <<>>  BY ThroughNothing
  <2> QED  BY <2>1, <2>2, <2>3
<1>3. ASSUME NEW u \in Seq(C), NEW c \in C, u \in S PROVE Append(u, c) \in S
  <2>1. s \o Append(u, c) = Append(s \o u, c)
    <3>1. <<c>> \in Seq(C)  OBVIOUS
    <3>2. Append(u, c) = u \o <<c>> /\ s \o u \in Seq(C)  BY AppendIsConcat, ConcatProperties
    <3>3. Append(s \o u, c) = (s \o u) \o <<c>>  BY <3>2, AppendIsConcat
    <3> QED  BY <3>1, <3>2, <3>3, ConcatAssociative
  <2>2. Append(u, c) \in Seq(C) /\ s \o u \in Seq(C)  BY AppendProperties, ConcatProperties
  <2>3. Through(g, Append(s \o u, c)) = Through(g, s \o u) \o g[c]
    BY <2>2, ThroughAppend
  <2>4. Through(g, Append(u, c)) = Through(g, u) \o g[c]  BY ThroughAppend
  <2>5. Through(g, u) \in Seq(C) /\ g[c] \in Seq(C)  BY ThroughTyped, ImageTyped
  <2>6. (Through(g, s) \o Through(g, u)) \o g[c] = Through(g, s) \o (Through(g, u) \o g[c])
    <3> HIDE DEF S
    <3>1. PICK x, y, z, D : x = Through(g, s) /\ y = Through(g, u) /\ z = g[c] /\ D = C  OBVIOUS
    <3>2. x \in Seq(D) /\ y \in Seq(D) /\ z \in Seq(D)  BY <1>1, <2>5, <3>1
    <3>3. (x \o y) \o z = x \o (y \o z)  BY <3>2, ConcatAssociative, SMTT(60)
    <3> QED  BY <3>1, <3>3
  <2> QED  BY <1>3, <2>1, <2>2, <2>3, <2>4, <2>6
<1> HIDE DEF S
<1>4. \A u \in Seq(C) : u \in S  BY <1>2, <1>3, OverSequences
<1> QED  BY <1>4 DEF S

\* Rewriting twice is rewriting once, by what the second makes of the first.
LEMMA ThroughTwice ==
  ASSUME NEW C, NEW g, Rewrites(g, C), NEW h, Rewrites(h, C), NEW k, Rewrites(k, C),
         NEW s \in Seq(C), \A c \in Range(s) : Through(h, g[c]) = k[c]
  PROVE  Through(h, Through(g, s)) = Through(k, s)
<1> DEFINE R == Range(s)
           S == {u \in Seq(R) : Through(h, Through(g, u)) = Through(k, u)}
<1>1. s \in Seq(R) /\ R \subseteq C
  <2>1. Len(s) \in Nat /\ DOMAIN s = 1..Len(s) /\ s \in [1..Len(s) -> C]  BY LenProperties
  <2>2. \A i \in 1..Len(s) : s[i] \in R  BY <2>1 DEF Range
  <2>3. s \in [1..Len(s) -> R]  BY <2>1, <2>2
  <2>4. R \subseteq C  BY <2>1 DEF Range
  <2> HIDE DEF R
  <2>5. [i \in 1..Len(s) |-> s[i]] \in Seq(R)  BY <2>1, <2>2, IsASeq
  <2> QED  BY <2>1, <2>4, <2>5
<1> HIDE DEF R
<1>2. <<>> \in S  BY ThroughNothing, EmptySeq
<1>3. ASSUME NEW u \in Seq(R), NEW c \in R, u \in S PROVE Append(u, c) \in S
  <2>1. u \in Seq(C) /\ c \in C /\ Append(u, c) \in Seq(R)  BY <1>1, SeqMonotonic, AppendProperties
  <2>2. Through(g, Append(u, c)) = Through(g, u) \o g[c]  BY <2>1, ThroughAppend
  <2>3. Through(k, Append(u, c)) = Through(k, u) \o k[c]  BY <2>1, ThroughAppend
  <2>4. Through(g, u) \in Seq(C) /\ g[c] \in Seq(C)  BY <2>1, ThroughTyped, ImageTyped
  <2>5. Through(h, Through(g, u) \o g[c]) = Through(h, Through(g, u)) \o Through(h, g[c])
    <3>1. PICK x, y : x = Through(g, u) /\ y = g[c]  OBVIOUS
    <3>2. x \in Seq(C) /\ y \in Seq(C)  BY <2>4, <3>1
    <3>3. Through(h, x \o y) = Through(h, x) \o Through(h, y)  BY <3>2, ThroughConcat
    <3> QED  BY <3>1, <3>3
  <2>6. Through(h, g[c]) = k[c] /\ Through(k, Append(u, c)) = Through(h, Through(g, u)) \o Through(h, g[c])
    <3>1. Through(h, g[c]) = k[c]  BY DEF R
    <3> QED  BY <1>3, <2>3, <3>1 DEF S
  <2> QED  BY <1>3, <2>1, <2>2, <2>3, <2>5, <2>6
<1> HIDE DEF S
<1>4. \A u \in Seq(R) : u \in S  BY <1>2, <1>3, OverSequences
<1> QED  BY <1>1, <1>4 DEF S

LEMMA ThroughKeeps ==
  ASSUME NEW C, NEW g, Rewrites(g, C), NEW s \in Seq(C), \A c \in Range(s) : g[c] = <<c>>
  PROVE  Through(g, s) = s
<1> DEFINE R == Range(s)
           S == {u \in Seq(R) : Through(g, u) = u}
<1>1. s \in Seq(R) /\ R \subseteq C
  <2>1. Len(s) \in Nat /\ DOMAIN s = 1..Len(s) /\ s \in [1..Len(s) -> C]  BY LenProperties
  <2>2. \A i \in 1..Len(s) : s[i] \in R  BY <2>1 DEF Range
  <2>3. R \subseteq C  BY <2>1 DEF Range
  <2> HIDE DEF R
  <2>4. [i \in 1..Len(s) |-> s[i]] \in Seq(R)  BY <2>1, <2>2, IsASeq
  <2> QED  BY <2>1, <2>3, <2>4
<1> HIDE DEF R
<1>2. <<>> \in S  BY ThroughNothing, EmptySeq
<1>3. ASSUME NEW u \in Seq(R), NEW c \in R, u \in S PROVE Append(u, c) \in S
  <2>1. u \in Seq(C) /\ c \in C /\ Append(u, c) \in Seq(R)  BY <1>1, SeqMonotonic, AppendProperties
  <2>2. Through(g, Append(u, c)) = Through(g, u) \o g[c]  BY <2>1, ThroughAppend
  <2>3. g[c] = <<c>>  BY DEF R
  <2>4. Append(u, c) = u \o <<c>>  BY AppendIsConcat
  <2> QED  BY <1>3, <2>1, <2>2, <2>3, <2>4
<1> HIDE DEF S
<1>4. \A u \in Seq(R) : u \in S  BY <1>2, <1>3, OverSequences
<1> QED  BY <1>1, <1>4 DEF S

-----------------------------------------------------------------------------
(* The way back.                                                           *)

Wire == Cells \cup Marks \cup Detectable \cup {ESC}

LEMMA VaultPairs ==
  ASSUME VaultInv, FwdInv
  PROVE  /\ Len(rev) \in Nat /\ \E T : rev \in Seq(T)
         /\ \A k \in 1..Len(rev) : rev[k].real \in Seq(Detectable) /\ rev[k].token \in Marks
         /\ \A k, l \in 1..Len(rev) : rev[k].token = rev[l].token => k = l
         /\ \A r \in DOMAIN fwd : \E k \in 1..Len(rev) : rev[k].real = r /\ rev[k].token = fwd[r]
<1>1. \E T : rev \in Seq(T)  BY DEF VaultInv
<1>2. Len(rev) \in Nat  BY <1>1, LenProperties
<1>3. ASSUME NEW k \in 1..Len(rev) PROVE rev[k].real \in Seq(Detectable) /\ rev[k].token \in Marks
  <2>1. rev[k].real \in DOMAIN fwd /\ fwd[rev[k].real] = rev[k].token  BY DEF VaultInv
  <2>2. rev[k].token \in TokenForms  BY <2>1, ValuesAreTokens
  <2>3. rev[k].real \in Seq(Detectable)  BY <2>1 DEF FwdInv
  <2> QED  BY <2>2, <2>3, FormsDiffer
<1>4. ASSUME NEW k \in 1..Len(rev), NEW l \in 1..Len(rev), rev[k].token = rev[l].token PROVE k = l
  <2>1. PICK a : rev[k].token = Token(a, k)  BY DEF VaultInv
  <2>2. PICK b : rev[l].token = Token(b, l)  BY DEF VaultInv
  <2>3. Token(a, k)[3] = k /\ Token(b, l)[3] = l  BY DEF Token
  <2> QED  BY <1>4, <2>1, <2>2, <2>3
<1>5. \A r \in DOMAIN fwd : \E k \in 1..Len(rev) : rev[k].real = r /\ rev[k].token = fwd[r]
  BY SMTT(30) DEF VaultInv
<1> QED  BY <1>1, <1>2, <1>3, <1>4, <1>5

\* g puts back the first n values of the vault and keeps every other cell.
PutsBack(g, n) ==
  /\ Rewrites(g, Wire)
  /\ \A j \in 1..n : g[rev[j].token] = rev[j].real
  /\ \A c \in Wire : (\A j \in 1..n : rev[j].token # c) => g[c] = <<c>>

LEMMA DetectedCross ==
  ASSUME NEW s \in Seq(Detectable)
  PROVE  s \in Seq(Wire) /\ \A c \in Range(s) : c \in Detectable /\ c \notin Marks
<1>1. Detectable \subseteq Wire  BY DEF Wire
<1>2. s \in Seq(Wire)  BY <1>1, SeqMonotonic
<1>3. DOMAIN s = 1..Len(s) /\ \A i \in 1..Len(s) : s[i] \in Detectable  BY LenProperties, ElementOfSeq
<1>4. \A c \in Range(s) : c \in Detectable  BY <1>3 DEF Range
<1> QED  BY <1>2, <1>4, MarksAreNotDetected

LEMMA PuttingBackIsThrough ==
  ASSUME VaultInv, FwdInv, NEW n \in 0..Len(rev)
  PROVE  \E g : PutsBack(g, n)
<1> DEFINE At(c, j) == rev[j].token = c
           g == [c \in Wire |-> IF \E j \in 1..n : At(c, j) THEN rev[CHOOSE j \in 1..n : At(c, j)].real
                                ELSE <<c>>]
<1>1. /\ Len(rev) \in Nat
      /\ \A k \in 1..Len(rev) : rev[k].real \in Seq(Detectable) /\ rev[k].token \in Marks
      /\ \A k, l \in 1..Len(rev) : rev[k].token = rev[l].token => k = l
  BY VaultPairs
<1>2. \A j \in 1..n : j \in 1..Len(rev)  BY <1>1
<1>3. \A j \in 1..n : rev[j].token \in Wire /\ rev[j].real \in Seq(Wire)
  BY <1>1, <1>2, DetectedCross DEF Wire
<1>4. ASSUME NEW j \in 1..n PROVE g[rev[j].token] = rev[j].real
  <2>1. PICK c : c = rev[j].token  OBVIOUS
  <2>2. c \in Wire /\ \E i \in 1..n : At(c, i)  BY <1>3, <2>1
  <2>3. PICK i \in 1..n : At(c, i) /\ g[c] = rev[i].real  BY <2>2
  <2>4. i = j  BY <1>1, <1>2, <2>1, <2>3
  <2> QED  BY <2>1, <2>3, <2>4
<1>5. \A c \in Wire : (\A j \in 1..n : rev[j].token # c) => g[c] = <<c>>  OBVIOUS
<1>6. ASSUME NEW c \in Wire PROVE g[c] \in Seq(Wire)
  <2>1. CASE \E j \in 1..n : At(c, j)
    <3>1. PICK j \in 1..n : rev[j].token = c  BY <2>1
    <3>2. g[c] = rev[j].real  BY <1>4, <3>1
    <3> QED  BY <1>3, <3>2
  <2>2. CASE ~\E j \in 1..n : At(c, j)
    <3>1. g[c] = <<c>>  BY <1>5, <2>2
    <3>2. <<c>> \in Seq(Wire)  OBVIOUS
    <3> QED  BY <3>1, <3>2
  <2> QED  BY <2>1, <2>2
<1>7. g = [c \in Wire |-> g[c]]  OBVIOUS
<1> HIDE DEF g
<1>8. Rewrites(g, Wire)  BY <1>6, <1>7 DEF Rewrites
<1>9. PutsBack(g, n)  BY <1>4, <1>5, <1>8 DEF PutsBack
<1> QED  BY <1>9

Restoring == INSTANCE Folding WITH Op <- PutBack

\* One turn of restore rewrites the one placeholder.
LEMMA OnePutBack ==
  ASSUME VaultInv, FwdInv, NEW n \in 1..Len(rev), NEW g, PutsBack(g, n - 1), NEW gg, PutsBack(gg, n),
         NEW text \in Seq(Wire)
  PROVE  PutBack(Through(g, text), rev[n]) = Through(gg, text)
<1> DEFINE token == rev[n].token
           real == rev[n].real
           h == [c \in Wire |-> IF c = token THEN real ELSE <<c>>]
           y == Through(g, text)
<1>1. /\ Len(rev) \in Nat
      /\ \A k \in 1..Len(rev) : rev[k].real \in Seq(Detectable) /\ rev[k].token \in Marks
      /\ \A k, l \in 1..Len(rev) : rev[k].token = rev[l].token => k = l
  BY VaultPairs
<1>2. /\ \A j \in 1..n : j \in 1..Len(rev) /\ (j \in 1..n - 1 \/ j = n) /\ n \in 1..n
      /\ \A j \in 1..n - 1 : j \in 1..n /\ j # n
  BY <1>1
<1>3. real \in Seq(Detectable) /\ real \in Seq(Wire) /\ token \in Marks  BY <1>1, DetectedCross
<1>4. Rewrites(g, Wire) /\ Rewrites(gg, Wire)  BY DEF PutsBack
<1>5. \A c \in Wire : h[c] = IF c = token THEN real ELSE <<c>>  OBVIOUS
<1> HIDE DEF token, real
<1>6. Rewrites(h, Wire)
  <2>1. \A c \in Wire : <<c>> \in Seq(Wire)  OBVIOUS
  <2> QED  BY <1>3, <2>1 DEF Rewrites
<1> HIDE DEF h
<1>7. y \in Seq(Wire)  BY <1>4, ThroughTyped
<1>8. PutBack(y, rev[n]) = Through(h, y)
  <2>1. \A i \in 1..Len(y) : y[i] \in Wire  BY <1>7, ElementOfSeq
  <2> HIDE DEF y
  <2>2. [i \in 1..Len(y) |-> IF y[i] = token THEN real ELSE <<y[i]>>] = [i \in 1..Len(y) |-> h[y[i]]]
    BY <1>5, <2>1
  <2> QED  BY <2>2 DEF PutBack, ReplaceToken, Through, token, real
<1>9. ASSUME NEW c \in Range(text) PROVE Through(h, g[c]) = gg[c]
  <2>1. c \in Wire
    <3>1. DOMAIN text = 1..Len(text)  BY LenProperties
    <3>2. PICK i \in 1..Len(text) : c = text[i]  BY <3>1 DEF Range
    <3> QED  BY <3>2, ElementOfSeq
  <2>2. CASE \E j \in 1..n - 1 : rev[j].token = c
    <3>1. PICK j \in 1..n - 1 : rev[j].token = c  BY <2>2
    <3>2. g[c] = rev[j].real /\ gg[c] = rev[j].real  BY <1>2, <3>1 DEF PutsBack
    <3>3. rev[j].real \in Seq(Detectable)  BY <1>1, <1>2
    <3>4. PICK v : v = rev[j].real  OBVIOUS
    <3>5. v \in Seq(Wire) /\ \A x \in Range(v) : x \in Detectable /\ x \notin Marks
      BY <3>3, <3>4, DetectedCross
    <3>6. \A x \in Range(v) : h[x] = <<x>>  BY <1>3, <1>5, <3>5 DEF Wire
    <3>7. Through(h, v) = v  BY <1>6, <3>5, <3>6, ThroughKeeps
    <3> QED  BY <3>2, <3>4, <3>7
  <2>3. CASE \A j \in 1..n - 1 : rev[j].token # c
    <3>1. g[c] = <<c>>  BY <2>1, <2>3 DEF PutsBack
    <3>2. Through(h, <<c>>) = h[c]  BY <1>6, <2>1, ThroughOne
    <3>3. CASE c = token
      <4>1. gg[c] = real  BY <1>2, <3>3 DEF PutsBack, token, real
      <4> QED  BY <1>5, <2>1, <3>1, <3>2, <3>3, <4>1
    <3>4. CASE c # token
      <4>1. \A j \in 1..n : rev[j].token # c  BY <1>2, <2>3, <3>4 DEF token
      <4>2. gg[c] = <<c>>  BY <2>1, <4>1 DEF PutsBack
      <4> QED  BY <1>5, <2>1, <3>1, <3>2, <3>4, <4>2
    <3> QED  BY <3>3, <3>4
  <2> QED  BY <2>2, <2>3
<1>10. Through(h, Through(g, text)) = Through(gg, text)
  BY <1>4, <1>6, <1>9, ThroughTwice
<1> QED  BY <1>8, <1>10 DEF y

LEMMA RestoreIsThrough ==
  ASSUME VaultInv, FwdInv, NEW text \in Seq(Wire), NEW g, PutsBack(g, Len(rev))
  PROVE  Restore(text) = Through(g, text)
<1>1. PICK n : n = Len(rev)  OBVIOUS
<1>2. n \in Nat  BY <1>1, VaultPairs
<1> DEFINE G(k) == CHOOSE f : PutsBack(f, k)
           w == [k \in 0..n |-> Through(G(k), text)]
<1>3. \A k \in 0..n : PutsBack(G(k), k)
  <2>1. \A k \in 0..n : \E f : PutsBack(f, k)  BY <1>1, PuttingBackIsThrough
  <2> QED  BY <2>1
<1> HIDE DEF G
<1>4. \A k \in 0..n : w[k] = Through(G(k), text)  OBVIOUS
<1> HIDE DEF w
<1>5. w[0] = text
  <2>1. 0 \in 0..n /\ \A j \in 1..0 : FALSE  BY <1>2
  <2>2. PutsBack(G(0), 0)  BY <1>3, <2>1
  <2>3. \A c \in Range(text) : c \in Wire
    <3>1. DOMAIN text = 1..Len(text)  BY LenProperties
    <3>2. \A i \in 1..Len(text) : text[i] \in Wire  BY ElementOfSeq
    <3> QED  BY <3>1, <3>2 DEF Range
  <2>4. PICK f : f = G(0)  OBVIOUS
  <2>5. Rewrites(f, Wire) /\ \A c \in Range(text) : f[c] = <<c>>
    BY <2>1, <2>2, <2>3, <2>4 DEF PutsBack
  <2>6. Through(f, text) = text  BY <2>5, ThroughKeeps
  <2> QED  BY <1>4, <2>1, <2>4, <2>6
<1>6. ASSUME NEW k \in 1..Len(rev) PROVE w[k] = PutBack(w[k - 1], rev[k])
  <2>1. k \in 0..n /\ k - 1 \in 0..n  BY <1>1, <1>2
  <2>2. PICK f, ff : f = G(k - 1) /\ ff = G(k)  OBVIOUS
  <2>3. PutsBack(f, k - 1) /\ PutsBack(ff, k)  BY <1>3, <2>1, <2>2
  <2>4. PutBack(Through(f, text), rev[k]) = Through(ff, text)  BY <2>3, OnePutBack
  <2> QED  BY <1>4, <2>1, <2>2, <2>4
<1>7. PICK T : rev \in Seq(T)  BY DEF VaultInv
<1>8. w[Len(rev)] = Restoring!Fold(text, rev)  BY <1>5, <1>6, <1>7, Restoring!WalkIsFold
<1>9. Restoring!Fold(text, rev) = Restore(text)
  BY DEF Restore, Restoring!Fold, FoldLeft, Restoring!FoldLeft, MapThenFoldSet,
     Restoring!MapThenFoldSet, Max, Restoring!Max
<1>10. Through(G(n), text) = Through(g, text)
  <2>1. PICK f : f = G(n)  OBVIOUS
  <2>2. PutsBack(f, n) /\ PutsBack(g, n)  BY <1>1, <1>2, <1>3, <2>1
  <2>3. ASSUME NEW c \in Wire PROVE f[c] = g[c]
    <3>1. CASE \E j \in 1..n : rev[j].token = c
      BY <2>2, <3>1 DEF PutsBack
    <3>2. CASE \A j \in 1..n : rev[j].token # c
      BY <2>2, <3>2 DEF PutsBack
    <3> QED  BY <3>1, <3>2
  <2>4. f = g  BY <2>2, <2>3 DEF PutsBack, Rewrites
  <2> QED  BY <2>1, <2>4
<1>11. n \in 0..n  BY <1>2
<1> QED  BY <1>1, <1>4, <1>8, <1>9, <1>10, <1>11

\* JSON's escapes, cell by cell.
Escapes == [c \in Wire |-> IF c \in Escaped THEN <<ESC, c>> ELSE <<c>>]

LEMMA EncodeIsThrough ==
  ASSUME NEW text \in Seq(Wire)
  PROVE  /\ Rewrites(Escapes, Wire)
         /\ Encode(text) = Through(Escapes, text)
<1>1. ESC \in Wire  BY DEF Wire
<1>2. ASSUME NEW c \in Wire PROVE (IF c \in Escaped THEN <<ESC, c>> ELSE <<c>>) \in Seq(Wire)
  BY <1>1
<1>3. Rewrites(Escapes, Wire)  BY <1>2 DEF Escapes, Rewrites
<1>4. \A i \in 1..Len(text) : text[i] \in Wire  BY ElementOfSeq
<1>5. [i \in 1..Len(text) |-> IF text[i] \in Escaped THEN <<ESC, text[i]>> ELSE <<text[i]>>]
        = [i \in 1..Len(text) |-> Escapes[text[i]]]
  BY <1>4 DEF Escapes
<1> QED  BY <1>3, <1>5 DEF Encode, Through

Reading == INSTANCE Folding WITH Op <- ReadCell

\* A JSON parser reads back what was encoded.
LEMMA ParseOfEncode ==
  ASSUME NEW text \in Seq(Wire)
  PROVE  Parse(Encode(text)) = [text |-> text, esc |-> FALSE, ok |-> TRUE]
<1> DEFINE start == [text |-> <<>>, esc |-> FALSE, ok |-> TRUE]
           S == {u \in Seq(Wire) :
                   Reading!Fold(start, Through(Escapes, u)) = [text |-> u, esc |-> FALSE, ok |-> TRUE]}
<1>1. Rewrites(Escapes, Wire)  BY EncodeIsThrough
<1>2. <<>> \in S
  <2>1. Through(Escapes, <<>>) = <<>> /\ <<>> \in Seq(Wire)  BY ThroughNothing, EmptySeq
  <2> HIDE DEF start
  <2>2. Reading!Fold(start, <<>>) = start  BY Reading!FoldOfNothing
  <2> QED  BY <2>1, <2>2 DEF start
<1> HIDE DEF start
<1>3. ASSUME NEW u \in Seq(Wire), NEW c \in Wire, u \in S PROVE Append(u, c) \in S
  <2>1. Append(u, c) \in Seq(Wire)  BY AppendProperties
  <2>2. PICK x, e : x = Through(Escapes, u) /\ e = Escapes[c]  OBVIOUS
  <2>3. x \in Seq(Wire) /\ e \in Seq(Wire)  BY <1>1, <2>2, ThroughTyped, ImageTyped
  <2>4. Through(Escapes, Append(u, c)) = x \o e  BY <1>1, <2>2, ThroughAppend
  <2>5. Reading!Fold(start, x \o e) = Reading!Fold(Reading!Fold(start, x), e)
    BY <2>3, Reading!FoldOfConcat
  <2>6. PICK p : p = Reading!Fold(start, x)  OBVIOUS
  <2>7. p = [text |-> u, esc |-> FALSE, ok |-> TRUE]  BY <1>3, <2>2, <2>6
  <2>8. <<>> \in Seq(Wire) /\ ESC \in Wire  BY EmptySeq DEF Wire
  <2>9. Reading!Fold(p, e) = [text |-> Append(u, c), esc |-> FALSE, ok |-> TRUE]
    <3>1. CASE c \in Escaped
      <4>1. e = Append(<<ESC>>, c) /\ <<ESC>> = Append(<<>>, ESC)  BY <2>2, <3>1 DEF Escapes
      <4>2. <<ESC>> \in Seq(Wire)  BY <2>8
      <4>3. Reading!Fold(p, Append(<<>>, ESC)) = ReadCell(Reading!Fold(p, <<>>), ESC)
        BY <2>8, Reading!FoldOfAppend
      <4>4. Reading!Fold(p, <<>>) = p  BY Reading!FoldOfNothing
      <4>5. Reading!Fold(p, Append(<<ESC>>, c)) = ReadCell(Reading!Fold(p, <<ESC>>), c)
        BY <4>2, Reading!FoldOfAppend
      <4>6. ReadCell(p, ESC) = [text |-> u, esc |-> TRUE, ok |-> TRUE]  BY <2>7 DEF ReadCell
      <4>7. ReadCell(ReadCell(p, ESC), c) = [text |-> Append(u, c), esc |-> FALSE, ok |-> TRUE]
        BY <4>6 DEF ReadCell
      <4> QED  BY <4>1, <4>3, <4>4, <4>5, <4>7
    <3>2. CASE c \notin Escaped
      <4>1. e = Append(<<>>, c)  BY <2>2, <3>2 DEF Escapes
      <4>2. Reading!Fold(p, Append(<<>>, c)) = ReadCell(Reading!Fold(p, <<>>), c)
        BY <2>8, Reading!FoldOfAppend
      <4>3. Reading!Fold(p, <<>>) = p  BY Reading!FoldOfNothing
      <4>4. c # ESC  BY <3>2, EscapesAreCharacters
      <4>5. ReadCell(p, c) = [text |-> Append(u, c), esc |-> FALSE, ok |-> TRUE]
        BY <2>7, <3>2, <4>4 DEF ReadCell
      <4> QED  BY <4>1, <4>2, <4>3, <4>5
    <3> QED  BY <3>1, <3>2
  <2> QED  BY <2>1, <2>4, <2>5, <2>6, <2>9
<1> HIDE DEF S
<1>4. \A u \in Seq(Wire) : u \in S  BY <1>2, <1>3, OverSequences
<1>5. Reading!Fold(start, Encode(text)) = [text |-> text, esc |-> FALSE, ok |-> TRUE]
  BY <1>4, EncodeIsThrough DEF S
<1>6. Parse(Encode(text)) = Reading!Fold(start, Encode(text))
  BY DEF Parse, start, Reading!Fold, FoldLeft, Reading!FoldLeft, MapThenFoldSet,
     Reading!MapThenFoldSet, Max, Reading!Max
<1> QED  BY <1>5, <1>6

LEMMA SameStretch ==
  ASSUME NEW E, NEW s \in Seq(E), NEW t \in Seq(E), NEW a \in Nat, NEW n \in Nat, 1 <= a, a <= n + 1,
         n <= Len(s), n <= Len(t), \A p \in 1..n : s[p] = t[p]
  PROVE  SubSeq(s, a, n) = SubSeq(t, a, n)
<1>1. Len(s) \in Nat /\ Len(t) \in Nat  BY LenProperties
<1>2. /\ a \in 1..Len(s) + 1 /\ n \in (a - 1)..Len(s) /\ a \in 1..Len(t) + 1 /\ n \in (a - 1)..Len(t)
      /\ \A i \in 1..n - a + 1 : a + i - 1 \in 1..n
  BY <1>1
<1>3. PICK u, v : u = SubSeq(s, a, n) /\ v = SubSeq(t, a, n)  OBVIOUS
<1>4. u \in Seq(E) /\ Len(u) = n - a + 1 /\ \A i \in 1..n - a + 1 : u[i] = s[a + i - 1]
  BY <1>2, <1>3, SubSeqProperties
<1>5. v \in Seq(E) /\ Len(v) = n - a + 1 /\ \A i \in 1..n - a + 1 : v[i] = t[a + i - 1]
  BY <1>2, <1>3, SubSeqProperties
<1>6. \A i \in 1..Len(u) : u[i] = v[i]  BY <1>2, <1>4, <1>5
<1>7. Len(u) = Len(v)  BY <1>4, <1>5
<1>8. u = v  BY <1>4, <1>5, <1>6, <1>7, SeqEqual
<1> QED  BY <1>3, <1>8

LEMMA CellsOfStretch ==
  ASSUME NEW E, NEW t \in Seq(E), NEW a \in Nat, NEW n \in Nat, 1 <= a, a <= n + 1, n <= Len(t)
  PROVE  SubSeq(t, a, n) \in Seq(E) /\ Range(SubSeq(t, a, n)) \subseteq Range(t)
<1>1. Len(t) \in Nat /\ DOMAIN t = 1..Len(t)  BY LenProperties
<1>2. /\ a \in 1..Len(t) + 1 /\ n \in (a - 1)..Len(t)
      /\ \A i \in 1..n - a + 1 : a + i - 1 \in 1..Len(t)
  BY <1>1
<1>3. PICK v : v = SubSeq(t, a, n)  OBVIOUS
<1>4. v \in Seq(E) /\ Len(v) = n - a + 1 /\ \A i \in 1..n - a + 1 : v[i] = t[a + i - 1]
  BY <1>2, <1>3, SubSeqProperties
<1>5. DOMAIN v = 1..Len(v)  BY <1>4, LenProperties
<1> QED  BY <1>1, <1>2, <1>3, <1>4, <1>5 DEF Range

LEMMA InThree ==
  ASSUME NEW E, NEW y \in Seq(E), NEW a \in Nat, NEW b \in Nat, 1 <= a, a < b, b <= Len(y) + 1
  PROVE  /\ SubSeq(y, 1, a - 1) \in Seq(E) /\ SubSeq(y, a, b - 1) \in Seq(E)
         /\ SubSeq(y, b, Len(y)) \in Seq(E)
         /\ (SubSeq(y, 1, a - 1) \o SubSeq(y, a, b - 1)) \o SubSeq(y, b, Len(y)) = y
<1>1. Len(y) \in Nat  BY LenProperties
<1>2. PICK n, q, l : n = b - 1 /\ q = a - 1 /\ l = Len(y)  OBVIOUS
<1>3. /\ 1 \in 1..l + 1 /\ q \in (1 - 1)..l /\ n \in q..l /\ n \in (1 - 1)..l /\ l \in n..l
      /\ a \in 1..l + 1 /\ n \in (a - 1)..l /\ b \in 1..l + 1 /\ l \in (b - 1)..l
      /\ q + 1 = a /\ n + 1 = b
  BY <1>1, <1>2
<1>4. SubSeq(y, 1, q) \o SubSeq(y, q + 1, n) = SubSeq(y, 1, n)
  BY <1>2, <1>3, ConcatAdjacentSubSeq
<1>5. SubSeq(y, 1, n) \o SubSeq(y, n + 1, l) = SubSeq(y, 1, l)
  BY <1>2, <1>3, ConcatAdjacentSubSeq
<1>6. SubSeq(y, 1, l) = y  BY <1>2, SubSeqFull
<1>7. SubSeq(y, 1, q) \in Seq(E)  BY <1>2, <1>3, SubSeqProperties
<1>8. SubSeq(y, a, n) \in Seq(E)  BY <1>2, <1>3, SubSeqProperties
<1>9. SubSeq(y, b, l) \in Seq(E)  BY <1>2, <1>3, SubSeqProperties
<1> QED  BY <1>2, <1>3, <1>4, <1>5, <1>6, <1>7, <1>8, <1>9

\* An edit of y that g takes back, at a place no edit of the text has reached.
Undone(text, y, g, r, m) ==
  /\ text \in Seq(Wire) /\ y \in Seq(Wire) /\ Rewrites(g, Wire) /\ m \in Wire
  /\ r.start \in Nat /\ r.end \in Nat /\ r.new = <<m>>
  /\ 1 <= r.start /\ r.start < r.end /\ r.end <= Len(y) + 1 /\ r.end <= Len(text) + 1
  /\ \A p \in 1..r.end - 1 : y[p] = text[p]
  /\ g[m] = SubSeq(text, r.start, r.end - 1) /\ \A c \in Range(text) : g[c] = <<c>>

LEMMA SpliceComesBack ==
  ASSUME NEW text, NEW y, NEW g, NEW r, NEW m, Undone(text, y, g, r, m)
  PROVE  /\ Splice(y, r) \in Seq(Wire) /\ Through(g, Splice(y, r)) = Through(g, y)
         /\ r.start <= Len(Splice(y, r)) /\ \A p \in 1..r.start - 1 : Splice(y, r)[p] = text[p]
<1> USE DEF Undone
<1>1. PICK a, b, n : a = r.start /\ b = r.end /\ n = b - 1  OBVIOUS
<1>2. /\ Len(y) \in Nat /\ Len(text) \in Nat /\ a \in Nat /\ b \in Nat /\ n \in Nat
      /\ 1 <= a /\ a < b /\ a <= n + 1 /\ b <= Len(y) + 1 /\ n <= Len(y) /\ n <= Len(text)
  BY <1>1, LenProperties, SMTT(30)
<1>3. PICK left, mid, right :
        left = SubSeq(y, 1, a - 1) /\ mid = SubSeq(y, a, b - 1) /\ right = SubSeq(y, b, Len(y))
  OBVIOUS
<1>4. Splice(y, r) = (left \o <<m>>) \o right  BY <1>1, <1>3 DEF Splice
<1>5. left \in Seq(Wire) /\ mid \in Seq(Wire) /\ right \in Seq(Wire) /\ (left \o mid) \o right = y
  BY <1>2, <1>3, InThree
<1>6. mid = SubSeq(text, a, n)
  <2>1. \A p \in 1..n : y[p] = text[p]  BY <1>1
  <2>2. SubSeq(y, a, n) = SubSeq(text, a, n)  BY <1>2, <2>1, SameStretch
  <2> QED  BY <1>1, <1>3, <2>2
<1>7. Through(g, mid) = Through(g, <<m>>)
  <2>1. Range(mid) \subseteq Range(text)
    <3>1. Range(SubSeq(text, a, n)) \subseteq Range(text)  BY <1>2, CellsOfStretch
    <3> QED  BY <1>6, <3>1
  <2>2. \A c \in Range(mid) : g[c] = <<c>>  BY <2>1
  <2>3. Through(g, mid) = mid  BY <1>5, <2>2, ThroughKeeps
  <2>4. Through(g, <<m>>) = g[m]  BY ThroughOne
  <2> QED  BY <1>1, <1>6, <2>3, <2>4
<1>8. Through(g, Splice(y, r)) = Through(g, y)
  <2>1. PICK v : v = <<m>>  OBVIOUS
  <2>2. v \in Seq(Wire) /\ Rewrites(g, Wire)  BY <2>1
  <2> HIDE DEF Undone
  <2>3. PICK x, z : x = left \o mid /\ z = left \o v  OBVIOUS
  <2>4. x \in Seq(Wire) /\ z \in Seq(Wire)  BY <1>5, <2>2, <2>3, ConcatProperties
  <2>5. Through(g, x) = Through(g, left) \o Through(g, mid)  BY <1>5, <2>2, <2>3, ThroughConcat
  <2>6. Through(g, z) = Through(g, left) \o Through(g, v)
    <3>1. Through(g, left \o v) = Through(g, left) \o Through(g, v)  BY <1>5, <2>2, ThroughConcat
    <3> QED  BY <2>3, <3>1
  <2>7. Through(g, x \o right) = Through(g, x) \o Through(g, right)
    BY <1>5, <2>2, <2>4, ThroughConcat
  <2>8. Through(g, z \o right) = Through(g, z) \o Through(g, right)
    BY <1>5, <2>2, <2>4, ThroughConcat
  <2> QED  BY <1>4, <1>5, <1>7, <2>1, <2>3, <2>5, <2>6, <2>7, <2>8
<1>9. LET k == r.end - r.start - 1 IN
       /\ k \in Nat /\ Splice(y, r) \in Seq(Wire) /\ Len(Splice(y, r)) = Len(y) - k
       /\ \A p \in 1..Len(y) - k :
            Splice(y, r)[p] = IF p < r.start THEN y[p] ELSE IF p = r.start THEN m ELSE y[p + k]
  BY SpliceCells
<1>10. r.start <= Len(Splice(y, r)) /\ \A p \in 1..r.start - 1 : Splice(y, r)[p] = text[p]
  <2>1. PICK k : k = r.end - r.start - 1  OBVIOUS
  <2>2. k = b - a - 1  BY <1>1, <2>1
  <2>3. a <= Len(y) - k /\ \A p \in 1..a - 1 : p \in 1..Len(y) - k /\ p < a /\ p \in 1..b - 1
    BY <1>2, <2>2
  <2> QED  BY <1>1, <1>9, <2>1, <2>3
<1> QED  BY <1>8, <1>9, <1>10

\* Whoever takes each replacement back for what it replaced has the text again.
LEMMA EditsComeBack ==
  ASSUME NEW text \in Seq(Cells), NEW rs \in Seq(EditsOf(text)), Apart(rs), NEW g, Rewrites(g, Wire),
         \A i \in 1..Len(rs) : g[rs[i].new[1]] = SubSeq(text, rs[i].start, rs[i].end - 1),
         \A c \in Range(text) : g[c] = <<c>>
  PROVE  /\ ApplyReplacements(text, rs) \in Seq(Wire)
         /\ Through(g, ApplyReplacements(text, rs)) = text
<1> DEFINE s == Reverse(rs)
           n == Len(rs)
<1>1. /\ n \in Nat /\ s \in Seq(EditsOf(text)) /\ Len(s) = n
      /\ \A k \in 1..n : s[k] = rs[n - k + 1]
  BY LenProperties, ReversedEdits
<1>2. \A j \in 1..n : rs[j] \in EditsOf(text)  BY ElementOfSeq
<1> HIDE DEF s, n
<1>3. PICK w : /\ w[0] = text /\ w[Len(s)] = Splicing!Fold(text, s)
               /\ \A k \in 1..Len(s) : w[k] = Splice(w[k - 1], s[k])
  <2> DEFINE E == EditsOf(text)
  <2>1. s \in Seq(E)  BY <1>1
  <2> HIDE DEF E
  <2> QED  BY <2>1, Splicing!FoldWalks
<1>4. text \in Seq(Wire) /\ Len(text) \in Nat
  <2>1. Cells \subseteq Wire  BY DEF Wire
  <2> QED  BY <2>1, SeqMonotonic, LenProperties
<1> DEFINE edge(k) == IF k = 0 THEN Len(text) + 1 ELSE rs[n - k + 1].start
           Good(k) == /\ w[k] \in Seq(Wire) /\ Through(g, w[k]) = text
                      /\ edge(k) <= Len(w[k]) + 1 /\ \A p \in 1..edge(k) - 1 : w[k][p] = text[p]
           T == {k \in 0..n : Good(k)}
<1>5. 0 \in T
  <2>1. Through(g, text) = text  BY <1>4, ThroughKeeps
  <2>2. edge(0) = Len(text) + 1  OBVIOUS
  <2>3. Good(0)  BY <1>3, <1>4, <2>1, <2>2
  <2> HIDE DEF Good
  <2> QED  BY <1>1, <2>3
<1>6. ASSUME NEW k \in 1..n, k - 1 \in T PROVE k \in T
  <2>0. PICK j, r, y, m : j = n - k + 1 /\ r = rs[j] /\ y = w[k - 1] /\ m = rs[j].new[1]
    OBVIOUS
  <2>1. j \in 1..n /\ k \in Nat  BY <1>1, <2>0
  <2>2. w[k] = Splice(y, r) /\ r \in EditsOf(text)  BY <1>1, <1>2, <1>3, <2>0, <2>1
  <2>3. /\ r.start \in Nat /\ r.end \in Nat /\ 1 <= r.start /\ r.start < r.end /\ r.end <= Len(text) + 1
        /\ m \in Marks /\ r.new = <<m>>
    BY <2>0, <2>2, EditFields
  <2>4. m \in Wire /\ g[m] = SubSeq(text, r.start, r.end - 1)
    BY <2>0, <2>1, <2>3 DEF Wire, n
  <2>5. Good(k - 1)  BY <1>6
  <2>6. r.end <= edge(k - 1) /\ edge(k - 1) \in Nat
    <3>1. CASE k - 1 = 0
      BY <1>4, <2>3, <3>1
    <3>2. CASE k - 1 # 0
      <4>1. PICK i : i = n - (k - 1) + 1  OBVIOUS
      <4>2. i \in 1..n /\ j < i  BY <1>1, <2>0, <3>2, <4>1
      <4>3. edge(k - 1) = rs[i].start  BY <3>2, <4>1
      <4>4. r.end <= rs[i].start  BY <2>0, <2>1, <4>2 DEF Apart, n
      <4>5. rs[i] \in EditsOf(text)  BY <1>2, <4>2
      <4>6. rs[i].start \in Nat  BY <4>5, EditFields
      <4> QED  BY <4>3, <4>4, <4>6
    <3> QED  BY <3>1, <3>2
  <2>7. y \in Seq(Wire) /\ Through(g, y) = text  BY <2>0, <2>5
  <2>8. r.end <= Len(y) + 1 /\ \A p \in 1..r.end - 1 : y[p] = text[p]
    <3>1. Len(y) \in Nat  BY <2>7, LenProperties
    <3>2. PICK l : l = edge(k - 1)  OBVIOUS
    <3>3. l \in Nat /\ r.end <= l /\ l <= Len(y) + 1 /\ \A p \in 1..l - 1 : y[p] = text[p]
      BY <2>0, <2>5, <2>6, <3>2
    <3>4. \A p \in 1..r.end - 1 : p \in 1..l - 1  BY <2>3, <3>3
    <3> QED  BY <2>3, <3>1, <3>3, <3>4
  <2>9. edge(k) = r.start  BY <2>0, <2>1
  <2> HIDE DEF edge
  <2>10. /\ Splice(y, r) \in Seq(Wire) /\ Through(g, Splice(y, r)) = Through(g, y)
         /\ r.start <= Len(Splice(y, r)) /\ \A p \in 1..r.start - 1 : Splice(y, r)[p] = text[p]
    <3>1. Undone(text, y, g, r, m)  BY <1>4, <2>3, <2>4, <2>7, <2>8 DEF Undone
    <3> QED  BY <3>1, SpliceComesBack
  <2>11. Good(k)
    <3>1. r.start <= Len(Splice(y, r)) + 1
      <4>1. Len(Splice(y, r)) \in Nat  BY <2>10, LenProperties
      <4> QED  BY <2>3, <2>10, <4>1
    <3> QED  BY <2>2, <2>7, <2>9, <2>10, <3>1
  <2> HIDE DEF Good
  <2> QED  BY <1>1, <2>11
<1> HIDE DEF T, edge
<1>7. \A k \in 0..n : k \in T  BY <1>1, <1>5, <1>6, Splicing!UpTo
<1>8. n \in 0..n  BY <1>1
<1>9. w[n] \in Seq(Wire) /\ Through(g, w[n]) = text  BY <1>7, <1>8 DEF T
<1>10. w[n] = ApplyReplacements(text, rs)
  BY <1>1, <1>3 DEF s, ApplyReplacements, Splicing!Fold, FoldLeft, Splicing!FoldLeft, MapThenFoldSet,
     Splicing!MapThenFoldSet, Max, Splicing!Max
<1> QED  BY <1>9, <1>10

\* Restoring what was encoded is encoding what was restored, for values JSON
\* writes as they are.
LEMMA RestoredOnTheWire ==
  ASSUME VaultInv, FwdInv, EscapeFree, NEW x \in Seq(Wire), NEW g, PutsBack(g, Len(rev))
  PROVE  Restore(Encode(x)) = Encode(Through(g, x))
<1> DEFINE K == [c \in Wire |-> Through(g, Escapes[c])]
<1>1. /\ \A k \in 1..Len(rev) : rev[k].real \in Seq(Detectable) /\ rev[k].token \in Marks
      /\ \A c \in Wire : (\A j \in 1..Len(rev) : rev[j].token # c) => g[c] = <<c>>
      /\ \A j \in 1..Len(rev) : g[rev[j].token] = rev[j].real
  BY VaultPairs DEF PutsBack
<1>2. Rewrites(g, Wire) /\ Rewrites(Escapes, Wire) /\ ESC \in Wire
  BY EncodeIsThrough DEF PutsBack, Wire
<1>3. Rewrites(K, Wire)
  <2>1. ASSUME NEW c \in Wire PROVE Through(g, Escapes[c]) \in Seq(Wire)
    <3>1. PICK e : e = Escapes[c]  OBVIOUS
    <3>2. e \in Seq(Wire)  BY <1>2, <3>1, ImageTyped
    <3> QED  BY <1>2, <3>1, <3>2, ThroughTyped
  <2> QED  BY <2>1 DEF Rewrites
<1>4. \A c \in Wire : K[c] = Through(g, Escapes[c])  OBVIOUS
<1> HIDE DEF K
<1>5. \A c \in Range(x) : c \in Wire
  <2>1. DOMAIN x = 1..Len(x) /\ \A i \in 1..Len(x) : x[i] \in Wire  BY LenProperties, ElementOfSeq
  <2> QED  BY <2>1 DEF Range
<1>6. ASSUME NEW c \in Wire PROVE Through(Escapes, g[c]) = K[c]
  <2>1. CASE \E j \in 1..Len(rev) : rev[j].token = c
    <3>1. PICK j \in 1..Len(rev) : rev[j].token = c  BY <2>1
    <3>2. PICK v : v = rev[j].real  OBVIOUS
    <3>3. g[c] = v /\ c \in Marks /\ v \in Seq(Detectable)  BY <1>1, <3>1, <3>2
    <3>4. v \in Seq(Wire) /\ \A d \in Range(v) : d \in Wire /\ d \notin Escaped
      <4>1. \A d \in Range(v) : d \in Detectable  BY <3>3, DetectedCross
      <4>2. \A d \in Range(v) : d \notin Escaped  BY <3>2 DEF EscapeFree
      <4> QED  BY <3>3, <4>1, <4>2, DetectedCross DEF Wire
    <3>5. \A d \in Range(v) : Escapes[d] = <<d>>  BY <3>4 DEF Escapes
    <3>6. Through(Escapes, v) = v  BY <1>2, <3>4, <3>5, ThroughKeeps
    <3>7. Escapes[c] = <<c>>  BY <3>3, EscapesAreCharacters DEF Escapes
    <3>8. Through(g, <<c>>) = g[c]  BY <1>2, ThroughOne
    <3> QED  BY <1>4, <3>3, <3>6, <3>7, <3>8
  <2>2. CASE \A j \in 1..Len(rev) : rev[j].token # c
    <3>1. g[c] = <<c>>  BY <1>1, <2>2
    <3>2. Through(Escapes, <<c>>) = Escapes[c]  BY <1>2, ThroughOne
    <3>3. PICK e : e = Escapes[c]  OBVIOUS
    <3>4. e \in Seq(Wire)  BY <1>2, <3>3, ImageTyped
    <3>5. \A d \in Range(e) : d = c \/ d = ESC  BY <3>3 DEF Escapes, Range
    <3>6. g[ESC] = <<ESC>>
      <4>1. ESC \notin Marks  BY EscapesAreCharacters
      <4> QED  BY <1>1, <1>2, <4>1
    <3>7. \A d \in Range(e) : g[d] = <<d>>  BY <3>1, <3>5, <3>6
    <3>8. Through(g, e) = e  BY <1>2, <3>4, <3>7, ThroughKeeps
    <3> QED  BY <1>4, <3>1, <3>2, <3>3, <3>8
  <2> QED  BY <2>1, <2>2
<1>7. Through(Escapes, Through(g, x)) = Through(K, x)
  <2>1. \A c \in Range(x) : Through(Escapes, g[c]) = K[c]  BY <1>5, <1>6
  <2> QED  BY <1>2, <1>3, <2>1, ThroughTwice
<1>8. Through(g, Through(Escapes, x)) = Through(K, x)
  <2>1. \A c \in Range(x) : Through(g, Escapes[c]) = K[c]  BY <1>4, <1>5
  <2> QED  BY <1>2, <1>3, <2>1, ThroughTwice
<1>9. PICK y, z : y = Through(Escapes, x) /\ z = Through(g, x)  OBVIOUS
<1>10. y \in Seq(Wire) /\ z \in Seq(Wire)  BY <1>2, <1>9, ThroughTyped
<1>11. Encode(x) = y /\ Encode(z) = Through(Escapes, z)  BY <1>9, <1>10, EncodeIsThrough
<1>12. Restore(y) = Through(g, y)  BY <1>10, RestoreIsThrough
<1> QED  BY <1>7, <1>8, <1>9, <1>11, <1>12

(* An answer that repeats a masked text comes back as the text: restore,    *)
(* one str.replace per placeholder in the order of the vault, is one        *)
(* simultaneous substitution, since no value holds a placeholder; it undoes *)
(* each edit, and neither disturbs nor is disturbed by JSON's escapes; for  *)
(* every body, policy and scan that LiteralFree and EscapeFree allow.       *)
THEOREM RoundTripsCleanly == Spec => []CleanRoundTrip
<1>1. VaultInv /\ MaskInv => CleanRoundTrip
  <2> SUFFICES ASSUME VaultInv, MaskInv, LiteralFree, EscapeFree, NEW i \in Walked,
                      \A d \in Chosen(body[i].text) : ~Does("block", d)
               PROVE  Returned(masked[i]) = [text |-> body[i].text, esc |-> FALSE, ok |-> TRUE]
    BY DEF CleanRoundTrip, RoundTrips
  <2>1. json /\ i \in 1..Len(masked) /\ body[i].str  BY DEF Walked
  <2>2. i \in 1..Len(body)
    <3>1. Len(masked) <= Len(body) /\ Len(masked) \in Nat /\ Len(body) \in Nat
      BY LenProperties, LeafTyped DEF MaskInv
    <3> QED  BY <2>1, <3>1
  <2>3. PICK t, R : t = body[i].text /\ R = masked[i]  OBVIOUS
  <2>4. Edited(t, R)  BY <2>1, <2>3 DEF MaskInv, Walks
  <2>5. PICK c : \E rs \in Seq(EditsOf(t)) :
                   /\ c = ChosenIn(t) /\ Apart(rs) /\ Answers(rs, t, c, Len(c))
                   /\ R = ApplyReplacements(t, rs)
    BY <2>4 DEF Edited
  <2>6. PICK rs \in Seq(EditsOf(t)) :
          /\ c = ChosenIn(t) /\ Apart(rs) /\ Answers(rs, t, c, Len(c))
          /\ R = ApplyReplacements(t, rs)
    BY <2>5
  <2>7. PICK D : D = found[t]  OBVIOUS
  <2>8. t \in Seq(Cells) /\ D \in SUBSET Detections(t) /\ IsFiniteSet(D)
    BY <2>3, <2>4, <2>7 DEF MaskInv, FoundInv, Edited
  <2>9. c = ResolveOverlaps(D) /\ c \in Seq(D)
    <3>1. c = ResolveOverlaps(D)  BY <2>6, <2>7 DEF ChosenIn
    <3> QED  BY <2>8, <3>1, ResolveKeeps
  <2>10. FwdInv  BY DEF MaskInv
  <2>11. PICK g : PutsBack(g, Len(rev))
    <3>1. Len(rev) \in 0..Len(rev)  BY <2>10, VaultPairs
    <3> QED  BY <2>10, <3>1, PuttingBackIsThrough
  <2>12. ASSUME NEW k \in 1..Len(rs)
         PROVE  g[rs[k].new[1]] = SubSeq(t, rs[k].start, rs[k].end - 1)
    <3>1. PICK j \in 1..Len(c) : Stands(rs[k], c[j], t)  BY <2>6 DEF Answers
    <3>2. PICK d, r : d = c[j] /\ r = rs[k]  OBVIOUS
    <3>3. d \in Chosen(t)
      <4>1. DOMAIN c = 1..Len(c)  BY <2>9, LenProperties
      <4>2. d \in Range(c)  BY <3>2, <4>1 DEF Range
      <4> QED  BY <2>7, <2>9, <4>2 DEF Chosen
    <3>4. ~Does("block", d)  BY <2>3, <3>3
    <3>5. PICK v : v = SubSeq(t, d.start, d.end - 1)  OBVIOUS
    <3>6. r.start = d.start /\ r.end = d.end /\ v \in DOMAIN fwd /\ r.new = <<fwd[v]>>
      BY <3>1, <3>2, <3>4, <3>5 DEF Stands
    <3>7. PICK l \in 1..Len(rev) : rev[l].real = v /\ rev[l].token = fwd[v]
      BY <2>10, <3>6, VaultPairs
    <3>8. g[fwd[v]] = v  BY <2>11, <3>7 DEF PutsBack
    <3>9. r.new[1] = fwd[v]  BY <3>6
    <3> QED  BY <3>2, <3>5, <3>6, <3>8, <3>9
  <2>13. ASSUME NEW x \in Range(t) PROVE g[x] = <<x>>
    <3>1. x \in Wire
      <4>1. DOMAIN t = 1..Len(t) /\ \A p \in 1..Len(t) : t[p] \in Cells
        BY <2>8, LenProperties, ElementOfSeq
      <4> QED  BY <4>1 DEF Range, Wire
    <3>2. \A l \in 1..Len(rev) : rev[l].token # x  BY <2>2, <2>3 DEF LiteralFree
    <3> QED  BY <2>11, <3>1, <3>2 DEF PutsBack
  <2>14. Rewrites(g, Wire)  BY <2>11 DEF PutsBack
  <2>15. R \in Seq(Wire) /\ Through(g, R) = t
    <3>1. /\ ApplyReplacements(t, rs) \in Seq(Wire)
          /\ Through(g, ApplyReplacements(t, rs)) = t
      BY <2>6, <2>8, <2>12, <2>13, <2>14, EditsComeBack
    <3> QED  BY <2>6, <3>1
  <2>16. Restore(Encode(R)) = Encode(t)  BY <2>10, <2>11, <2>15, RestoredOnTheWire
  <2>17. t \in Seq(Wire)
    <3>1. Cells \subseteq Wire  BY DEF Wire
    <3> QED  BY <2>8, <3>1, SeqMonotonic
  <2>18. Parse(Encode(t)) = [text |-> t, esc |-> FALSE, ok |-> TRUE]  BY <2>17, ParseOfEncode
  <2> QED  BY <2>3, <2>16, <2>18 DEF Returned
<1>2. Spec => []VaultInv
  BY VaultInvInit, VaultInvStep, PTL DEF Spec
<1> QED  BY MaskInvHolds, <1>1, <1>2, PTL
=============================================================================
