------------------------------ MODULE Folding -------------------------------
(***************************************************************************)
(* What the FoldLeft of the community modules computes, for an operator    *)
(* Op of a value and an element.  A proof module instantiates this one for *)
(* each fold of its component, so that the laws below hold of it by name.  *)
(*                                                                         *)
(* FoldLeft is a recursive function on the sets of positions, chosen among *)
(* all that satisfy its equation.  That there is one (EquationHasSolution) *)
(* is an induction, here by the least natural number for which a claim     *)
(* fails.                                                                  *)
(***************************************************************************)
EXTENDS SequencesExt, SequenceTheorems, WellFoundedInduction, TLAPS

CONSTANT Op(_, _)

Fold(base, s) == FoldLeft(Op, base, s)

LEMMA LeastNatural ==
  ASSUME NEW T \in SUBSET Nat, T # {}
  PROVE  \E m \in T : \A k \in T : m <= k
<1> DEFINE R == OpToRel(<, Nat)
<1>1. IsWellFoundedOn(R, Nat)  BY NatLessThanWellFounded
<1>2. \A x, y \in Nat : <<x, y>> \in R <=> x < y  BY DEF OpToRel
<1> HIDE DEF R
<1>3. PICK m \in T : \A k \in T : ~(<<k, m>> \in R)  BY <1>1, WFMin
<1>4. ASSUME NEW k \in T PROVE m <= k
  <2>1. m \in Nat /\ k \in Nat /\ ~(<<k, m>> \in R)  BY <1>3
  <2> QED  BY <1>2, <2>1
<1> QED  BY <1>4

\* Induction up to n, of a claim given as the set of the numbers it holds for.
LEMMA UpTo ==
  ASSUME NEW n \in Nat, NEW T, 0 \in T, \A k \in 1..n : k - 1 \in T => k \in T
  PROVE  \A k \in 0..n : k \in T
<1> DEFINE C == {k \in Nat : k <= n /\ k \notin T}
<1>1. ASSUME C # {} PROVE FALSE
  <2>1. C \in SUBSET Nat  OBVIOUS
  <2>2. PICK m \in C : \A k \in C : m <= k  BY <1>1, <2>1, LeastNatural
  <2>3. m \in Nat /\ m <= n /\ m \notin T /\ m # 0  OBVIOUS
  <2>4. m - 1 \in Nat /\ m - 1 <= n /\ ~(m - 1 >= m)  BY <2>3
  <2>5. m - 1 \in T  BY <2>2, <2>4
  <2> QED  BY <2>3, <2>5
<1> QED  BY <1>1

LEMMA MaxOfPositions ==
  ASSUME NEW n \in Nat, NEW S \in SUBSET (1..n), S # {}
  PROVE  Max(S) \in S /\ \A x \in S : Max(S) >= x
<1> DEFINE T == {n - x : x \in S}
<1>1. \A x \in S : x \in Nat /\ n - x \in Nat  OBVIOUS
<1>2. T \in SUBSET Nat  BY <1>1
<1>3. T # {}  OBVIOUS
<1>4. \A x \in S : n - x \in T  OBVIOUS
<1>5. \A m \in T : \E x \in S : m = n - x  OBVIOUS
<1> HIDE DEF T
<1>6. PICK m \in T : \A k \in T : m <= k  BY <1>2, <1>3, LeastNatural
<1>7. PICK x \in S : m = n - x  BY <1>5
<1>8. ASSUME NEW y \in S PROVE x >= y
  <2>1. m <= n - y /\ x \in Nat /\ y \in Nat  BY <1>1, <1>4, <1>6
  <2> QED  BY <1>7, <2>1
<1> QED  BY <1>8 DEF Max

\* it solves the equation that FoldLeft chooses a solution of.
Solves(it, base, s, n) ==
  it = [S \in SUBSET (1..n) |-> IF S = {} THEN base ELSE Op(it[S \ {Max(S)}], s[Max(S)])]

LEMMA OneMore ==
  ASSUME NEW base, NEW s, NEW n \in Nat, NEW it, Solves(it, base, s, n)
  PROVE  \E more : Solves(more, base, s, n + 1)
<1> DEFINE m == n + 1
           more == [S \in SUBSET (1..m) |-> IF m \in S THEN Op(it[S \ {m}], s[m]) ELSE it[S]]
<1>1. m \in Nat /\ m # 0 /\ \A x : x \in 1..m /\ x # m => x \in 1..n  OBVIOUS
<1>2. \A x : x \in 1..n => x \in 1..m /\ x # m  OBVIOUS
<1> HIDE DEF m
<1>3. \A S \in SUBSET (1..m) : S \ {m} \in SUBSET (1..n) /\ (m \notin S => S \in SUBSET (1..n))
  BY <1>1
<1>4. \A S \in SUBSET (1..n) : it[S] = IF S = {} THEN base ELSE Op(it[S \ {Max(S)}], s[Max(S)])
  BY DEF Solves
<1>5. \A S \in SUBSET (1..n) : S \in SUBSET (1..m) /\ m \notin S  BY <1>2
<1>6. \A S \in SUBSET (1..n) : more[S] = it[S]  BY <1>5
<1>7. \A S \in SUBSET (1..m) : m \in S => more[S] = Op(it[S \ {m}], s[m])  OBVIOUS
<1>8. more = [S \in SUBSET (1..m) |-> more[S]]  OBVIOUS
<1> HIDE DEF more
<1>9. ASSUME NEW S \in SUBSET (1..m)
      PROVE  more[S] = IF S = {} THEN base ELSE Op(more[S \ {Max(S)}], s[Max(S)])
  <2>1. CASE m \in S
    <3>1. \A x \in S : x \in Nat /\ x <= m  BY <1>1
    <3>2. Max(S) \in S /\ Max(S) >= m  BY <2>1, <1>1, MaxOfPositions
    <3>3. Max(S) = m
      <4> DEFINE x == Max(S)
      <4> HIDE DEF x
      <4>1. x \in Nat /\ x <= m /\ x >= m  BY <3>1, <3>2 DEF x
      <4>2. x = m  BY <1>1, <4>1
      <4> QED  BY <4>2 DEF x
    <3>4. more[S \ {m}] = it[S \ {m}]  BY <1>3, <1>6
    <3> QED  BY <1>7, <2>1, <3>3, <3>4
  <2>2. CASE m \notin S
    <3>1. S \in SUBSET (1..n) /\ S \ {Max(S)} \in SUBSET (1..n)  BY <1>3, <2>2
    <3> QED  BY <1>4, <1>6, <3>1
  <2> QED  BY <2>1, <2>2
<1>10. more = [S \in SUBSET (1..m) |-> IF S = {} THEN base ELSE Op(more[S \ {Max(S)}], s[Max(S)])]
  BY <1>8, <1>9
<1> QED  BY <1>10 DEF Solves, m

LEMMA EquationHasSolution ==
  ASSUME NEW base, NEW s, NEW n \in Nat
  PROVE  \E it : Solves(it, base, s, n)
<1> DEFINE Has(k) == \E it : Solves(it, base, s, k)
           T == {k \in Nat : Has(k)}
<1>1. Has(0)
  <2> DEFINE it == [S \in SUBSET (1..0) |-> base]
  <2>1. \A S \in SUBSET (1..0) : S = {}  OBVIOUS
  <2>2. it = [S \in SUBSET (1..0) |-> IF S = {} THEN base ELSE Op(it[S \ {Max(S)}], s[Max(S)])]
    BY <2>1
  <2> QED  BY <2>2 DEF Solves
<1>2. ASSUME NEW k \in Nat, Has(k) PROVE Has(k + 1)
  BY <1>2, OneMore
<1> HIDE DEF Has
<1>3. ASSUME NEW k \in 1..n, k - 1 \in T PROVE k \in T
  <2>1. k - 1 \in Nat /\ (k - 1) + 1 = k /\ k \in Nat  OBVIOUS
  <2>2. Has((k - 1) + 1)  BY <1>2, <1>3, <2>1
  <2> QED  BY <2>1, <2>2
<1>4. 0 \in T
  <2>1. 0 \in Nat  OBVIOUS
  <2> QED  BY <1>1, <2>1
<1> HIDE DEF T
<1>5. \A k \in 0..n : k \in T  BY <1>3, <1>4, UpTo
<1>6. n \in T  BY <1>5
<1>7. Has(n)  BY <1>6 DEF T
<1> QED  BY <1>7 DEF Has

\* A fold is a walk along the sequence.
THEOREM FoldWalks ==
  ASSUME NEW base, NEW E, NEW s \in Seq(E)
  PROVE  \E w : /\ w[0] = base /\ w[Len(s)] = Fold(base, s)
               /\ \A k \in 1..Len(s) : w[k] = Op(w[k - 1], s[k])
<1> DEFINE it == CHOOSE it : Solves(it, base, s, Len(s))
           w == [k \in 0..Len(s) |-> it[1..k]]
<1>1. Len(s) \in Nat /\ DOMAIN s = 1..Len(s)  BY LenProperties
<1>2. Solves(it, base, s, Len(s))  BY <1>1, EquationHasSolution
<1>3. Fold(base, s) = it[1..Len(s)]
  BY <1>1 DEF Fold, FoldLeft, MapThenFoldSet, Solves
<1> HIDE DEF it
<1>4. \A S \in SUBSET (1..Len(s)) :
        it[S] = IF S = {} THEN base ELSE Op(it[S \ {Max(S)}], s[Max(S)])
  BY <1>2 DEF Solves
<1>5. \A k \in 0..Len(s) : w[k] = it[1..k]  OBVIOUS
<1> HIDE DEF w
<1>6. w[0] = base
  <2>1. 1..0 = {} /\ 0 \in 0..Len(s)  BY <1>1
  <2>2. {} \in SUBSET (1..Len(s))  OBVIOUS
  <2> QED  BY <1>4, <1>5, <2>1, <2>2
<1>7. ASSUME NEW k \in 1..Len(s) PROVE w[k] = Op(w[k - 1], s[k])
  <2>1. 1..k \in SUBSET (1..Len(s)) /\ k \in 1..k /\ k \in Nat  BY <1>1
  <2>2. Max(1..k) \in 1..k /\ Max(1..k) >= k  BY <2>1, MaxOfPositions
  <2>3. Max(1..k) = k  BY <2>1, <2>2
  <2>4. (1..k) \ {k} = 1..(k - 1)  BY <2>1
  <2>5. it[1..k] = Op(it[(1..k) \ {k}], s[k])  BY <1>4, <2>1, <2>3
  <2>6. k \in 0..Len(s) /\ k - 1 \in 0..Len(s)  BY <1>1
  <2> QED  BY <1>5, <2>4, <2>5, <2>6
<1>8. w[Len(s)] = Fold(base, s)
  <2>1. Len(s) \in 0..Len(s)  BY <1>1
  <2> QED  BY <1>3, <1>5, <2>1
<1> QED  BY <1>6, <1>7, <1>8

\* A walk never leaves a set that Op does not leave.
LEMMA WalkStays ==
  ASSUME NEW W, NEW E, \A v \in W, e \in E : Op(v, e) \in W, NEW s \in Seq(E),
         NEW w, w[0] \in W, \A k \in 1..Len(s) : w[k] = Op(w[k - 1], s[k])
  PROVE  \A k \in 0..Len(s) : w[k] \in W
<1>1. Len(s) \in Nat  BY LenProperties
<1> DEFINE T == {k \in 0..Len(s) : w[k] \in W}
<1>2. 0 \in T  BY <1>1
<1>3. ASSUME NEW k \in 1..Len(s), k - 1 \in T PROVE k \in T
  <2>1. s[k] \in E /\ k \in 0..Len(s)  BY <1>1, ElementOfSeq
  <2> QED  BY <1>3, <2>1
<1> HIDE DEF T
<1>4. \A k \in 0..Len(s) : k \in T  BY <1>1, <1>2, <1>3, UpTo
<1> QED  BY <1>4 DEF T

THEOREM FoldStays ==
  ASSUME NEW W, NEW E, \A v \in W, e \in E : Op(v, e) \in W, NEW base \in W, NEW s \in Seq(E)
  PROVE  Fold(base, s) \in W
<1>1. Len(s) \in Nat  BY LenProperties
<1>2. PICK w : /\ w[0] = base /\ w[Len(s)] = Fold(base, s)
               /\ \A k \in 1..Len(s) : w[k] = Op(w[k - 1], s[k])
  BY FoldWalks
<1>3. \A k \in 0..Len(s) : w[k] \in W  BY <1>2, WalkStays
<1>4. Len(s) \in 0..Len(s)  BY <1>1
<1> QED  BY <1>2, <1>3, <1>4

\* Every walk along the sequence is the fold.
THEOREM WalkIsFold ==
  ASSUME NEW base, NEW E, NEW s \in Seq(E), NEW w, w[0] = base, \A k \in 1..Len(s) : w[k] = Op(w[k - 1], s[k])
  PROVE  w[Len(s)] = Fold(base, s)
<1>1. Len(s) \in Nat  BY LenProperties
<1>2. PICK u :
        /\ u[0] = base /\ u[Len(s)] = Fold(base, s)
        /\ \A k \in 1..Len(s) : u[k] = Op(u[k - 1], s[k])
  BY FoldWalks
<1> DEFINE T == {k \in 0..Len(s) : w[k] = u[k]}
<1>3. 0 \in T  BY <1>1, <1>2
<1>4. ASSUME NEW k \in 1..Len(s), k - 1 \in T PROVE k \in T
  BY <1>1, <1>2, <1>4
<1> HIDE DEF T
<1>5. \A k \in 0..Len(s) : k \in T  BY <1>1, <1>3, <1>4, UpTo
<1>6. Len(s) \in T  BY <1>1, <1>5
<1> QED  BY <1>2, <1>6 DEF T

THEOREM FoldOfNothing ==
  ASSUME NEW base
  PROVE  Fold(base, <<>>) = base
<1>1. \A E : \A s \in Seq(E) : Len(s) = 0 => Fold(base, s) = base
  <2> SUFFICES ASSUME NEW E, NEW s \in Seq(E) PROVE Len(s) = 0 => Fold(base, s) = base
    OBVIOUS
  <2>1. PICK w :
          /\ w[0] = base /\ w[Len(s)] = Fold(base, s)
          /\ \A k \in 1..Len(s) : w[k] = Op(w[k - 1], s[k])
    BY FoldWalks
  <2> QED  BY <2>1
<1>2. <<>> \in Seq({base}) /\ Len(<<>>) = 0  BY EmptySeq
<1> QED  BY <1>1, <1>2

THEOREM FoldOfAppend ==
  ASSUME NEW base, NEW E, NEW s \in Seq(E), NEW e \in E
  PROVE  Fold(base, Append(s, e)) = Op(Fold(base, s), e)
<1> DEFINE t == Append(s, e)
<1>1. Len(s) \in Nat  BY LenProperties
<1>2. t \in Seq(E) /\ Len(t) = Len(s) + 1 /\ t[Len(t)] = e
      /\ \A k \in 1..Len(s) : t[k] = s[k]
  BY AppendProperties
<1>3. PICK u :
        /\ u[0] = base /\ u[Len(t)] = Fold(base, t)
        /\ \A k \in 1..Len(t) : u[k] = Op(u[k - 1], t[k])
  <2> HIDE DEF t
  <2> QED  BY <1>2, FoldWalks
<1> HIDE DEF t
<1>4. \A k \in 1..Len(s) : u[k] = Op(u[k - 1], s[k])  BY <1>1, <1>2, <1>3
<1>5. u[Len(s)] = Fold(base, s)  BY <1>3, <1>4, WalkIsFold
<1>6. Len(t) \in 1..Len(t) /\ Len(t) - 1 = Len(s)  BY <1>1, <1>2
<1>7. u[Len(t)] = Op(u[Len(s)], e)  BY <1>2, <1>3, <1>6
<1> QED  BY <1>3, <1>5, <1>7 DEF t

THEOREM FoldOfConcat ==
  ASSUME NEW base, NEW E, NEW s \in Seq(E), NEW t \in Seq(E)
  PROVE  Fold(base, s \o t) = Fold(Fold(base, s), t)
<1>1. Len(s) \in Nat /\ Len(t) \in Nat  BY LenProperties
<1>2. /\ s \o t \in Seq(E) /\ Len(s \o t) = Len(s) + Len(t)
      /\ \A k \in 1..Len(s) + Len(t) : (s \o t)[k] = IF k <= Len(s) THEN s[k] ELSE t[k - Len(s)]
  BY ConcatProperties
<1>3. PICK u :
        /\ u[0] = base /\ u[Len(s)] = Fold(base, s)
        /\ \A k \in 1..Len(s) : u[k] = Op(u[k - 1], s[k])
  BY FoldWalks
<1>4. PICK w :
        /\ w[0] = Fold(base, s) /\ w[Len(t)] = Fold(Fold(base, s), t)
        /\ \A k \in 1..Len(t) : w[k] = Op(w[k - 1], t[k])
  BY FoldWalks
<1> DEFINE n == Len(s) + Len(t)
           both == [k \in 0..n |-> IF k <= Len(s) THEN u[k] ELSE w[k - Len(s)]]
<1>5. both[0] = base /\ both[n] = w[Len(t)]
  <2>1. 0 \in 0..n /\ 0 <= Len(s) /\ n \in 0..n  BY <1>1
  <2>2. CASE Len(t) = 0
    <3>1. n = Len(s)  BY <1>1, <2>2
    <3> QED  BY <1>3, <1>4, <2>1, <2>2, <3>1
  <2>3. CASE Len(t) # 0
    <3>1. ~(n <= Len(s)) /\ n - Len(s) = Len(t)  BY <1>1, <2>3
    <3> QED  BY <1>3, <2>1, <3>1
  <2> QED  BY <2>2, <2>3
<1>6. ASSUME NEW k \in 1..n PROVE both[k] = Op(both[k - 1], (s \o t)[k])
  <2>1. k \in 0..n /\ k - 1 \in 0..n  BY <1>1
  <2>2. CASE k <= Len(s)
    <3>1. k \in 1..Len(s) /\ k - 1 <= Len(s)  BY <1>1, <2>2
    <3> QED  BY <1>2, <1>3, <2>1, <2>2, <3>1
  <2>3. CASE k = Len(s) + 1
    <3>1. ~(k <= Len(s)) /\ k - 1 = Len(s) /\ k - 1 <= Len(s) /\ k - Len(s) = 1 /\ 1 \in 1..Len(t)
      BY <1>1, <2>3
    <3>2. both[k] = w[1] /\ both[k - 1] = w[0]  BY <1>3, <1>4, <2>1, <3>1
    <3>3. w[1] = Op(w[0], t[1])
      <4>1. w[1] = Op(w[1 - 1], t[1])  BY <1>4, <3>1
      <4> QED  BY <4>1
    <3> QED  BY <1>2, <3>1, <3>2, <3>3
  <2>4. CASE k > Len(s) + 1
    <3>1. /\ ~(k <= Len(s)) /\ ~(k - 1 <= Len(s)) /\ k - Len(s) \in 1..Len(t)
          /\ (k - 1) - Len(s) = (k - Len(s)) - 1
      BY <1>1, <2>4
    <3>2. both[k] = w[k - Len(s)] /\ both[k - 1] = w[(k - Len(s)) - 1]  BY <2>1, <3>1
    <3>3. (s \o t)[k] = t[k - Len(s)]  BY <1>2, <3>1
    <3> QED  BY <1>4, <3>1, <3>2, <3>3
  <2> QED  BY <1>1, <2>2, <2>3, <2>4
<1> HIDE DEF both
<1>7. both[Len(s \o t)] = Fold(base, s \o t)
  <2> DEFINE st == s \o t
  <2>1. st \in Seq(E) /\ Len(st) = n  BY <1>2
  <2>2. \A k \in 1..Len(st) : both[k] = Op(both[k - 1], st[k])  BY <1>6, <2>1
  <2> HIDE DEF st
  <2>3. both[Len(st)] = Fold(base, st)  BY <1>5, <2>1, <2>2, WalkIsFold
  <2> QED  BY <2>3 DEF st
<1> QED  BY <1>2, <1>4, <1>5, <1>7
=============================================================================
