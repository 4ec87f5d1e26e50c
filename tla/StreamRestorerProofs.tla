------------------------ MODULE StreamRestorerProofs ------------------------
(***************************************************************************)
(* For every vault, every stream and every way of cutting it in chunks,    *)
(* the client of a StreamRestorer is sent a prefix of the restored         *)
(* response, and all of it once flush has run.                             *)
(*                                                                         *)
(* The argument: the text already sent never ends inside a placeholder     *)
(* that a later chunk completes, because a sentinel follows every OPEN in  *)
(* it (SentBehind).  So restoring the text held back together with the     *)
(* next chunk gives what restoring the whole would (LocalRestore).         *)
(*                                                                         *)
(* Nothing is assumed of the real values.  Those the response repeats must *)
(* hold no sentinel (Untangled): the placeholders that occur in a buffer   *)
(* are then placeholders of the response, so the loop of restore replaces  *)
(* in place there as well, whatever else the vault holds.                  *)
(***************************************************************************)
EXTENDS StreamRestorer, SequenceTheorems, TLAPS

Joining == INSTANCE Folding WITH Op <- Join
Putting == INSTANCE Folding WITH Op <- PutBack

Text == Seq(Char \cup {Bad})

\* s is the beginning of u.
Begins(s, u) == Len(s) <= Len(u) /\ \A i \in 1..Len(s) : u[i] = s[i]

\* In s, a sentinel follows every OPEN among the first n characters.
SentBehind(s, n) ==
  \A j \in 1..n : s[j] = OPEN => \E i \in j + 1..Len(s) : s[i] \in Sentinels

Unclosed(b) == b = <<>> \/ (b[1] = OPEN /\ \A i \in 2..Len(b) : b[i] \notin Sentinels)

(* What a token occurrence looks like: OPEN, plain characters, CLOSE.      *)
Occurrence(s, i, t) ==
  /\ Len(t) \in Nat /\ Len(t) > 1
  /\ i + Len(t) - 1 \in i + 1..Len(s) /\ i + Len(t) - 1 <= Len(s)
  /\ s[i] = OPEN /\ s[i + Len(t) - 1] = CLOSE
  /\ \A j \in i + 1..i + Len(t) - 2 : s[j] \notin Sentinels
  /\ \A j \in i + 1..i + Len(t) - 1 : s[j] # OPEN
  /\ \A j \in i..i + Len(t) - 1 : s[j] \in Char

LEMMA TokenForm ==
  \A t \in Tokens : /\ t \in Seq(Char) /\ Len(t) \in Nat /\ Len(t) > 1
                    /\ t[1] = OPEN /\ t[Len(t)] = CLOSE
<1> SUFFICES ASSUME NEW t \in Tokens
             PROVE  /\ t \in Seq(Char) /\ Len(t) \in Nat /\ Len(t) > 1
                    /\ t[1] = OPEN /\ t[Len(t)] = CLOSE
  OBVIOUS
<1>1. PICK i \in 1..Len(Rev) : t = Rev[i]  BY DEF Tokens
<1>2. t \in Seq(Char)
  <2> DEFINE E == Seq(Char)
  <2>1. Rev \in Seq(E)  BY TokenShape
  <2> HIDE DEF E
  <2>2. Rev[i] \in E  BY <2>1, ElementOfSeq
  <2> QED  BY <1>1, <2>2 DEF E
<1> QED  BY <1>2, TokenShape, LenProperties

LEMMA ValueForm ==
  \A t \in Tokens : /\ Value[t] \in Seq(Cell)
                    /\ Plain(t) => Value[t][1] \in Cell /\ Value[t][1] \notin Char \cup {Gone, Bad}
<1> SUFFICES ASSUME NEW t \in Tokens
             PROVE  /\ Value[t] \in Seq(Cell)
                    /\ Plain(t) => Value[t][1] \in Cell /\ Value[t][1] \notin Char \cup {Gone, Bad}
  OBVIOUS
<1>1. Value[t] \in Seq(Char \cup Opaque)  BY CellKinds
<1>2. \A i \in 1..Len(Value[t]) : Value[t][i] \in Cell  BY DEF Cell, ValueCells
<1>3. Value[t] \in Seq(Cell)  BY <1>1, <1>2, IsASeq, LenProperties
<1>4. Plain(t) => Value[t][1] \in Cell /\ Value[t][1] \notin Char \cup {Gone, Bad}
  BY <1>2, CellKinds DEF Plain
<1> QED  BY <1>3, <1>4

LEMMA TokenFacts ==
  ASSUME NEW s \in Seq(Cell), NEW i \in Nat \ {0}, NEW t \in Tokens, TokenAt(s, i, t)
  PROVE  Occurrence(s, i, t)
<1>1. t \in Seq(Char) /\ Len(t) \in Nat /\ Len(t) > 1 /\ t[1] = OPEN /\ t[Len(t)] = CLOSE
  BY TokenForm
<1>2. \A j \in i..i + Len(t) - 1 : j - i + 1 \in 1..Len(t) /\ s[j] = t[j - i + 1]
  <2> SUFFICES ASSUME NEW j \in i..i + Len(t) - 1
               PROVE  j - i + 1 \in 1..Len(t) /\ s[j] = t[j - i + 1]
    OBVIOUS
  <2>1. j - i + 1 \in 1..Len(t)  BY <1>1
  <2>2. s[i + (j - i + 1) - 1] = t[j - i + 1]  BY <2>1 DEF TokenAt
  <2> QED  BY <2>1, <2>2, <1>1
<1>3. i + Len(t) - 1 <= Len(s)  BY DEF TokenAt
<1>4. s[i] = OPEN /\ s[i + Len(t) - 1] = CLOSE
  BY <1>1, <1>2
<1>5. \A j \in i + 1..i + Len(t) - 2 : s[j] \notin Sentinels
  <2>1. \A j \in i + 1..i + Len(t) - 2 : j \in i..i + Len(t) - 1 /\ j - i + 1 \in 2..Len(t) - 1
    BY <1>1
  <2> QED  BY <1>2, <2>1, TokenShape
<1>6. \A j \in i..i + Len(t) - 1 : s[j] \in Char
  BY <1>1, <1>2, ElementOfSeq
<1>7. \A j \in i + 1..i + Len(t) - 1 : s[j] # OPEN
  <2> SUFFICES ASSUME NEW j \in i + 1..i + Len(t) - 1 PROVE s[j] # OPEN
    OBVIOUS
  <2>1. CASE j = i + Len(t) - 1  BY <2>1, <1>4, TokenShape
  <2>2. CASE j \in i + 1..i + Len(t) - 2  BY <2>2, <1>5 DEF Sentinels
  <2> QED  BY <2>1, <2>2, <1>1
<1> QED  BY <1>1, <1>3, <1>4, <1>5, <1>6, <1>7, LenProperties DEF Occurrence

(* A placeholder occurs wherever the cells of an occurrence are repeated.  *)
LEMMA TokenMoves ==
  ASSUME NEW s \in Seq(Cell), NEW u \in Seq(Cell), NEW t \in Tokens,
         NEW i \in Nat \ {0}, NEW k \in Nat \ {0}, TokenAt(s, i, t),
         k + Len(t) - 1 <= Len(u),
         \A l \in 0..Len(t) - 1 : s[i + l] = u[k + l]
  PROVE  TokenAt(u, k, t)
<1>1. Len(t) \in Nat  BY TokenForm
<1>2. ASSUME NEW l \in 1..Len(t) PROVE u[k + l - 1] = t[l]
  <2>1. l - 1 \in 0..Len(t) - 1 /\ i + (l - 1) = i + l - 1 /\ k + (l - 1) = k + l - 1
    BY <1>1
  <2>2. s[i + (l - 1)] = u[k + (l - 1)]  BY <2>1
  <2>3. s[i + l - 1] = t[l]  BY DEF TokenAt
  <2> QED  BY <2>1, <2>2, <2>3
<1> QED  BY <1>2 DEF TokenAt

(* Two placeholders that occur at one position are one placeholder.        *)
LEMMA OneTokenAt ==
  ASSUME NEW s \in Seq(Cell), NEW i \in Nat \ {0}, NEW t \in Tokens, NEW u \in Tokens,
         TokenAt(s, i, t), TokenAt(s, i, u)
  PROVE  t = u
<1>1. /\ t \in Seq(Char) /\ u \in Seq(Char)
      /\ Len(t) \in Nat /\ Len(u) \in Nat /\ Len(t) > 1 /\ Len(u) > 1
  BY TokenForm
<1>2. s[i + Len(t) - 1] = CLOSE /\ s[i + Len(u) - 1] = CLOSE
  BY TokenFacts DEF Occurrence
<1>3. ~(Len(t) < Len(u))
  <2>1. \A j \in i + 1..i + Len(u) - 2 : s[j] \notin Sentinels  BY TokenFacts DEF Occurrence
  <2> QED  BY <1>1, <1>2, <2>1 DEF Sentinels
<1>4. ~(Len(u) < Len(t))
  <2>1. \A j \in i + 1..i + Len(t) - 2 : s[j] \notin Sentinels  BY TokenFacts DEF Occurrence
  <2> QED  BY <1>1, <1>2, <2>1 DEF Sentinels
<1>5. Len(t) = Len(u)  BY <1>1, <1>3, <1>4
<1>6. \A k \in 1..Len(t) : t[k] = u[k]  BY <1>5 DEF TokenAt
<1> QED  BY <1>1, <1>5, <1>6, SeqEqual

(* The cells of a restored text.                                           *)
LEMMA RestoredCells ==
  ASSUME NEW s \in Seq(Cell), ~Tangled(s)
  PROVE  /\ InPlace(s) \in Seq(Cell) /\ Len(InPlace(s)) = Len(s)
         /\ \A i \in 1..Len(s) : \A t \in Tokens : TokenAt(s, i, t) => InPlace(s)[i] = Value[t][1]
         /\ \A i \in 1..Len(s) : ~Starts(s, i) /\ Inside(s, i) => InPlace(s)[i] = Gone
         /\ \A i \in 1..Len(s) : ~Starts(s, i) /\ ~Inside(s, i) => InPlace(s)[i] = s[i]
         /\ \A i \in 1..Len(s) : InPlace(s)[i] \in Char =>
              /\ ~Starts(s, i) /\ ~Inside(s, i) /\ InPlace(s)[i] = s[i]
<1> DEFINE R == InPlace(s)
<1>0. Len(s) \in Nat  BY LenProperties
<1>p. \A i \in 1..Len(s) : \A t \in Tokens : TokenAt(s, i, t) =>
        Value[t][1] \in Cell /\ Value[t][1] \notin Char \cup {Gone, Bad}
  BY ValueForm DEF Tangled
<1>1. \A i \in 1..Len(s) : \A t \in Tokens : TokenAt(s, i, t) => R[i] = Value[t][1]
  <2> SUFFICES ASSUME NEW i \in 1..Len(s), NEW t \in Tokens, TokenAt(s, i, t)
               PROVE  R[i] = Value[t][1]
    OBVIOUS
  <2>1. Starts(s, i)  BY DEF Starts
  <2>2. R[i] = Value[CHOOSE u \in Tokens : TokenAt(s, i, u)][1]  BY <2>1 DEF InPlace
  <2>3. (CHOOSE u \in Tokens : TokenAt(s, i, u)) = t
    <3>1. i \in Nat \ {0}  BY <1>0
    <3>2. PICK u \in Tokens : u = CHOOSE w \in Tokens : TokenAt(s, i, w)  OBVIOUS
    <3>3. TokenAt(s, i, u)  BY <3>2
    <3> QED  BY <3>1, <3>2, <3>3, OneTokenAt
  <2> QED  BY <2>2, <2>3
<1>2. \A i \in 1..Len(s) : ~Starts(s, i) /\ Inside(s, i) => R[i] = Gone
  BY DEF InPlace
<1>3. \A i \in 1..Len(s) : ~Starts(s, i) /\ ~Inside(s, i) => R[i] = s[i]
  BY DEF InPlace
<1>4. \A i \in 1..Len(s) : R[i] \in Char => ~Starts(s, i) /\ ~Inside(s, i) /\ R[i] = s[i]
  <2> SUFFICES ASSUME NEW i \in 1..Len(s), R[i] \in Char
               PROVE  ~Starts(s, i) /\ ~Inside(s, i) /\ R[i] = s[i]
    OBVIOUS
  <2>1. ~Starts(s, i)  BY <1>p, <1>1 DEF Starts
  <2>2. ~Inside(s, i)  BY <1>2, <2>1, CellKinds
  <2> QED  BY <1>3, <2>1, <2>2
<1>5. R \in Seq(Cell) /\ Len(R) = Len(s)
  <2>1. \A i \in 1..Len(s) : R[i] \in Cell
    <3> SUFFICES ASSUME NEW i \in 1..Len(s) PROVE R[i] \in Cell
      OBVIOUS
    <3>1. CASE Starts(s, i)  BY <3>1, <1>p, <1>1 DEF Starts
    <3>2. CASE ~Starts(s, i) /\ Inside(s, i)  BY <3>2, <1>2 DEF Cell
    <3>3. CASE ~Starts(s, i) /\ ~Inside(s, i)  BY <3>3, <1>3, ElementOfSeq
    <3> QED  BY <3>1, <3>2, <3>3
  <2>2. R = [i \in 1..Len(s) |-> R[i]]  BY DEF InPlace
  <2> HIDE DEF R
  <2> QED  BY <1>0, <2>1, <2>2, IsASeq, LenProperties
<1> QED  BY <1>1, <1>2, <1>3, <1>4, <1>5

(* The loop, too, makes a text of known cells.                             *)
LEMMA JoinedTyped ==
  ASSUME NEW s, NEW n \in Nat, s = [i \in 1..n |-> s[i]], \A i \in 1..n : s[i] \in Seq(Cell)
  PROVE  Joined(s) \in Seq(Cell)
<1> DEFINE E == Seq(Cell)
<1>1. \A v \in E, e \in E : Join(v, e) \in E  BY ConcatProperties DEF Join
<1>2. <<>> \in E  BY EmptySeq
<1> HIDE DEF E
<1>3. s \in Seq(E)
  <2>1. \A i \in 1..n : s[i] \in E  BY DEF E
  <2> QED  BY <2>1, IsASeq
<1>4. Joining!Fold(<<>>, s) \in E  BY <1>1, <1>2, <1>3, Joining!FoldStays
<1>5. Joining!Fold(<<>>, s) = Joined(s)
  BY DEF Joined, Joining!Fold, FoldLeft, Joining!FoldLeft, MapThenFoldSet, Joining!MapThenFoldSet,
         Max, Joining!Max
<1> QED  BY <1>4, <1>5 DEF E

LEMMA VisibleTyped ==
  ASSUME NEW s \in Seq(Cell)
  PROVE  Visible(s) \in Seq(Cell)
<1> DEFINE q == [i \in 1..Len(s) |-> IF s[i] = Gone THEN <<>> ELSE <<s[i]>>]
<1>1. Len(s) \in Nat /\ \A i \in 1..Len(s) : s[i] \in Cell  BY LenProperties, ElementOfSeq
<1>2. \A i \in 1..Len(s) : q[i] \in Seq(Cell)  BY <1>1
<1>3. q = [i \in 1..Len(s) |-> q[i]]  OBVIOUS
<1> HIDE DEF q
<1>4. Joined(q) \in Seq(Cell)  BY <1>1, <1>2, <1>3, JoinedTyped
<1> QED  BY <1>4 DEF Visible, q

LEMMA PutBackTyped ==
  ASSUME NEW s \in Seq(Cell), NEW t \in Tokens
  PROVE  PutBack(s, t) \in Seq(Cell)
<1> DEFINE Covered(i) == \E j \in 1..i - 1 : TokenAt(s, j, t) /\ i < j + Len(t)
           q == [i \in 1..Len(s) |->
                   IF TokenAt(s, i, t) THEN Value[t]
                   ELSE IF Covered(i) THEN <<>>
                   ELSE <<s[i]>>]
<1>1. Len(s) \in Nat /\ \A i \in 1..Len(s) : s[i] \in Cell  BY LenProperties, ElementOfSeq
<1>2. PutBack(s, t) = Joined(q)  BY DEF PutBack, Replacing
<1>3. Value[t] \in Seq(Cell)  BY ValueForm
<1> HIDE DEF Covered
<1>4. \A i \in 1..Len(s) : q[i] \in Seq(Cell)  BY <1>1, <1>3
<1>5. q = [i \in 1..Len(s) |-> q[i]]  OBVIOUS
<1> HIDE DEF q
<1> QED  BY <1>1, <1>2, <1>4, <1>5, JoinedTyped

LEMMA RestoreTyped ==
  ASSUME NEW s \in Seq(Cell)
  PROVE  Restore(s) \in Seq(Cell)
<1>1. CASE ~Tangled(s)  BY <1>1, RestoredCells DEF Restore
<1>2. CASE Tangled(s)
  <2> DEFINE E == Seq(Cell)
  <2>1. \A v \in E, t \in Tokens : PutBack(v, t) \in E  BY PutBackTyped
  <2>2. Visible(s) \in E  BY VisibleTyped
  <2>3. Rev \in Seq(Tokens)
    <3>1. Len(Rev) \in Nat /\ Rev = [i \in 1..Len(Rev) |-> Rev[i]]  BY TokenShape, LenProperties
    <3>2. \A i \in 1..Len(Rev) : Rev[i] \in Tokens  BY DEF Tokens
    <3> QED  BY <3>1, <3>2, IsASeq
  <2> HIDE DEF E
  <2>4. Putting!Fold(Visible(s), Rev) \in E  BY <2>1, <2>2, <2>3, Putting!FoldStays
  <2>5. Putting!Fold(Visible(s), Rev) = OneByOne(s)
    BY DEF OneByOne, Putting!Fold, FoldLeft, Putting!FoldLeft, MapThenFoldSet,
           Putting!MapThenFoldSet, Max, Putting!Max
  <2> QED  BY <1>2, <2>4, <2>5 DEF Restore, E
<1> QED  BY <1>1, <1>2

LEMMA PrefixUntangled ==
  ASSUME NEW P \in Seq(Cell), NEW S \in Seq(Cell), Begins(P, S), ~Tangled(S)
  PROVE  ~Tangled(P)
<1>0. Len(P) \in Nat /\ Len(S) \in Nat /\ Len(P) <= Len(S)
  BY LenProperties DEF Begins
<1> SUFFICES ASSUME NEW j \in 1..Len(P), NEW t \in Tokens, TokenAt(P, j, t)
             PROVE  TokenAt(S, j, t) /\ j \in 1..Len(S)
  BY DEF Tangled
<1>1. j \in Nat \ {0} /\ j \in 1..Len(S)  BY <1>0
<1>2. Len(t) \in Nat /\ j + Len(t) - 1 <= Len(P)
  BY <1>1, TokenFacts DEF Occurrence
<1>3. \A l \in 0..Len(t) - 1 : j + l \in 1..Len(P)
  BY <1>1, <1>2
<1>4. \A l \in 0..Len(t) - 1 : P[j + l] = S[j + l]
  BY <1>3 DEF Begins
<1>5. j + Len(t) - 1 <= Len(S)  BY <1>0, <1>1, <1>2
<1> QED  BY <1>1, <1>4, <1>5, TokenMoves

(* Text that comes later does not change the restored form of text that a  *)
(* sentinel follows: no placeholder starts there and ends beyond P.        *)
LEMMA SentIsFinal ==
  ASSUME NEW P \in Seq(Cell), NEW S \in Seq(Cell), Begins(P, S),
         NEW n \in 0..Len(P), SentBehind(P, n), ~Tangled(S)
  PROVE  /\ \A j \in 1..n : \A t \in Tokens : TokenAt(S, j, t) => TokenAt(P, j, t)
         /\ \A j \in 1..n : InPlace(S)[j] = InPlace(P)[j]
<1>0. Len(P) \in Nat /\ Len(S) \in Nat /\ Len(P) <= Len(S)
  BY LenProperties DEF Begins
<1>1. \A j \in 1..n : \A t \in Tokens : TokenAt(S, j, t) => TokenAt(P, j, t)
  <2> SUFFICES ASSUME NEW j \in 1..n, NEW t \in Tokens, TokenAt(S, j, t)
               PROVE  TokenAt(P, j, t)
    OBVIOUS
  <2>1. /\ Len(t) \in Nat /\ Len(t) > 1
        /\ S[j] = OPEN
        /\ \A k \in j + 1..j + Len(t) - 2 : S[k] \notin Sentinels
    BY <1>0, TokenFacts DEF Occurrence
  <2>2. P[j] = OPEN  BY <1>0, <2>1 DEF Begins
  <2>3. PICK i \in j + 1..Len(P) : P[i] \in Sentinels  BY <2>2 DEF SentBehind
  <2>4. S[i] \in Sentinels  BY <1>0, <2>3 DEF Begins
  <2>5. j + Len(t) - 1 <= Len(P)  BY <1>0, <2>1, <2>3, <2>4
  <2>6. \A l \in 0..Len(t) - 1 : j + l \in 1..Len(P)
    BY <1>0, <2>1, <2>5
  <2>7. \A l \in 0..Len(t) - 1 : S[j + l] = P[j + l]
    BY <2>6 DEF Begins
  <2> QED  BY <1>0, <2>5, <2>7, TokenMoves
<1>2. \A j \in 1..Len(P) : \A t \in Tokens : TokenAt(P, j, t) => TokenAt(S, j, t)
  <2> SUFFICES ASSUME NEW j \in 1..Len(P), NEW t \in Tokens, TokenAt(P, j, t)
               PROVE  TokenAt(S, j, t)
    OBVIOUS
  <2>0. j \in Nat \ {0}  BY <1>0
  <2>1. Len(t) \in Nat /\ j + Len(t) - 1 <= Len(P)
    BY <2>0, TokenFacts DEF Occurrence
  <2>2. \A l \in 0..Len(t) - 1 : j + l \in 1..Len(P)
    BY <2>0, <2>1
  <2>3. \A l \in 0..Len(t) - 1 : P[j + l] = S[j + l]
    BY <2>2 DEF Begins
  <2>4. j + Len(t) - 1 <= Len(S)  BY <1>0, <2>0, <2>1
  <2> QED  BY <2>0, <2>3, <2>4, TokenMoves
<1>p. ~Tangled(P)  BY PrefixUntangled
<1>3. ASSUME NEW j \in 1..n PROVE InPlace(S)[j] = InPlace(P)[j]
  <2> USE <1>p
  <2>0. j \in 1..Len(P) /\ j \in 1..Len(S)  BY <1>0
  <2>1. Starts(S, j) <=> Starts(P, j)  BY <1>1, <1>2, <2>0 DEF Starts
  <2>2. Inside(S, j) <=> Inside(P, j)
    BY <1>0, <1>1, <1>2, <2>0 DEF Inside
  <2>3. CASE Starts(P, j)
    <3>1. PICK t \in Tokens : TokenAt(P, j, t)  BY <2>3 DEF Starts
    <3>2. TokenAt(S, j, t)  BY <1>2, <2>0, <3>1
    <3> QED  BY <2>0, <3>1, <3>2, RestoredCells
  <2>4. CASE ~Starts(P, j) /\ Inside(P, j)
    BY <2>0, <2>1, <2>2, <2>4, RestoredCells
  <2>5. CASE ~Starts(P, j) /\ ~Inside(P, j)
    <3>1. InPlace(S)[j] = S[j] /\ InPlace(P)[j] = P[j]
      BY <2>0, <2>1, <2>2, <2>5, RestoredCells
    <3> QED  BY <2>0, <3>1 DEF Begins
  <2> QED  BY <2>3, <2>4, <2>5
<1> QED  BY <1>1, <1>3

(* Restoring the text held back with the next chunk gives what restoring   *)
(* the whole text would: P is what was decoded, b the held-back end of its *)
(* restored form, T the buffer with the chunk, S the whole text.           *)
Cut(P, S, b, T, n) ==
  /\ Begins(P, S) /\ Begins(b, T)
  /\ n + Len(b) = Len(P) /\ n + Len(T) = Len(S)
  /\ \A i \in 1..Len(b) : b[i] = InPlace(P)[n + i]
  /\ \A i \in Len(b) + 1..Len(T) : T[i] = S[n + i]
  /\ Unclosed(b) /\ SentBehind(P, n)

LEMMA LocalRestore ==
  ASSUME NEW P \in Seq(Cell), NEW S \in Seq(Cell), NEW b \in Seq(Cell), NEW T \in Seq(Cell),
         NEW n \in Nat, Cut(P, S, b, T, n), ~Tangled(S)
  PROVE  /\ ~Tangled(T)
         /\ \A i \in 1..Len(T) : InPlace(T)[i] = InPlace(S)[n + i]
<1> USE DEF Cut
<1>0. /\ Len(P) \in Nat /\ Len(S) \in Nat /\ Len(b) \in Nat /\ Len(T) \in Nat
      /\ Len(P) <= Len(S) /\ Len(b) <= Len(T) /\ n \in 0..Len(P)
  BY LenProperties DEF Begins
<1>p. ~Tangled(P)  BY PrefixUntangled
<1> USE <1>p
\* An occurrence in the buffer is one in the whole text.
<1>1. \A k \in 1..Len(T) : \A t \in Tokens : TokenAt(T, k, t) => TokenAt(S, n + k, t)
  <2> SUFFICES ASSUME NEW k \in 1..Len(T), NEW t \in Tokens, TokenAt(T, k, t)
               PROVE  TokenAt(S, n + k, t)
    OBVIOUS
  <2>0. k \in Nat \ {0}  BY <1>0
  <2>1. /\ Len(t) \in Nat /\ Len(t) > 1 /\ k + Len(t) - 1 <= Len(T)
        /\ \A j \in k..k + Len(t) - 1 : T[j] \in Char
    BY <2>0, TokenFacts DEF Occurrence
  <2>2. \A j \in k..k + Len(t) - 1 : S[n + j] = T[j]
    <3> SUFFICES ASSUME NEW j \in k..k + Len(t) - 1 PROVE S[n + j] = T[j]
      OBVIOUS
    <3>1. CASE j > Len(b)
      <4>1. j \in Len(b) + 1..Len(T)  BY <1>0, <2>1, <3>1
      <4> QED  BY <4>1
    <3>2. CASE j <= Len(b)
      <4>1. n + j \in 1..Len(P) /\ j \in 1..Len(b)  BY <1>0, <2>1, <3>2
      <4>2. InPlace(P)[n + j] = T[j] /\ T[j] \in Char
        BY <2>1, <4>1 DEF Begins
      <4>3. P[n + j] = T[j]  BY <4>1, <4>2, RestoredCells
      <4> QED  BY <4>1, <4>3 DEF Begins
    <3> QED  BY <1>0, <2>1, <3>1, <3>2
  <2>3. \A l \in 0..Len(t) - 1 : k + l \in k..k + Len(t) - 1 /\ n + (k + l) = (n + k) + l
    BY <1>0, <2>1, SMTT(30)
  <2>4. \A l \in 0..Len(t) - 1 : T[k + l] = S[(n + k) + l]
    BY <2>2, <2>3
  <2>5. n + k \in Nat \ {0} /\ (n + k) + Len(t) - 1 <= Len(S)  BY <1>0, <2>1
  <2> QED  BY <2>0, <2>4, <2>5, TokenMoves
<1>q. ~Tangled(T)
  <2>1. \A k \in 1..Len(T) : n + k \in 1..Len(S)  BY <1>0
  <2> QED  BY <1>1, <2>1 DEF Tangled
\* An occurrence of the whole text that the new chunk completes is still whole
\* in the buffer: nothing of it was restored before.
<1>2. \A k \in 1..Len(T) : \A t \in Tokens :
        TokenAt(S, n + k, t) /\ n + k + Len(t) - 1 > Len(P) => TokenAt(T, k, t)
  <2> SUFFICES ASSUME NEW k \in 1..Len(T), NEW t \in Tokens,
                      TokenAt(S, n + k, t), n + k + Len(t) - 1 > Len(P)
               PROVE  TokenAt(T, k, t)
    OBVIOUS
  <2>0. n + k \in Nat \ {0}  BY <1>0
  <2>1. /\ Len(t) \in Nat /\ Len(t) > 1 /\ n + k + Len(t) - 1 <= Len(S)
        /\ S[n + k] = OPEN
        /\ \A j \in n + k + 1..n + k + Len(t) - 1 : S[j] # OPEN
        /\ \A j \in n + k + 1..n + k + Len(t) - 2 : S[j] \notin Sentinels
        /\ \A j \in n + k..n + k + Len(t) - 1 : S[j] \in Char
    <3>1. Occurrence(S, n + k, t)  BY <2>0, TokenFacts
    <3> QED  BY <3>1 DEF Occurrence
  <2>2. \A u \in Tokens : \A j \in 1..Len(P) : TokenAt(P, j, u) =>
          \/ j + Len(u) - 1 < n + k
          \/ j > Len(P)
    <3> SUFFICES ASSUME NEW u \in Tokens, NEW j \in 1..Len(P), TokenAt(P, j, u),
                        j + Len(u) - 1 >= n + k
                 PROVE  FALSE
      BY <1>0, TokenForm
    <3>1. /\ Len(u) \in Nat /\ Len(u) > 1 /\ j + Len(u) - 1 <= Len(P)
          /\ P[j] = OPEN /\ P[j + Len(u) - 1] = CLOSE
          /\ \A i \in j + 1..j + Len(u) - 1 : P[i] # OPEN
      <4>1. j \in Nat \ {0}  BY <1>0
      <4>2. Occurrence(P, j, u)  BY <4>1, TokenFacts
      <4> QED  BY <4>2 DEF Occurrence
    <3>0. j + Len(u) - 1 \in 1..Len(P) /\ Len(P) < n + k + Len(t) - 1
      BY <1>0, <2>1, <3>1
    <3>2. CASE j < n + k
      <4>0. n + k \in 1..Len(P)  BY <1>0, <3>0, <3>1, SMTT(30)
      <4>1. P[n + k] = OPEN  BY <2>1, <4>0 DEF Begins
      <4>2. n + k \in j + 1..j + Len(u) - 1
        <5>1. n + k \in Nat /\ j \in Nat /\ Len(u) \in Nat  BY <1>0, <3>1
        <5>2. j + Len(u) - 1 >= n + k  OBVIOUS
        <5> QED  BY <3>2, <5>1, <5>2, SMTT(30)
      <4>3. PICK e \in j + 1..j + Len(u) - 1 : e = n + k  BY <4>2
      <4>4. P[e] # OPEN  BY <3>1
      <4> QED  BY <4>1, <4>3, <4>4
    <3>3. CASE j = n + k
      <4>1. S[j + Len(u) - 1] = CLOSE
        <5>1. PICK e \in 1..Len(P) : e = j + Len(u) - 1  BY <3>0
        <5>2. S[e] = P[e]  BY DEF Begins
        <5> QED  BY <3>1, <5>1, <5>2
      <4>2. j + Len(u) - 1 \in n + k + 1..n + k + Len(t) - 2
        <5>1. n + k \in Nat /\ Len(t) \in Nat /\ Len(u) \in Nat /\ Len(u) > 1  BY <1>0, <2>1, <3>1
        <5>2. j + Len(u) - 1 <= Len(P) /\ Len(P) < n + k + Len(t) - 1  BY <3>0, <3>1
        <5> QED  BY <1>0, <3>3, <5>1, <5>2
      <4> QED  BY <2>1, <4>1, <4>2 DEF Sentinels
    <3>4. CASE j > n + k
      <4>1. S[j] = OPEN
        <5>1. S[j] = P[j]  BY DEF Begins
        <5> QED  BY <3>1, <5>1
      <4>2. j \in n + k + 1..n + k + Len(t) - 1
        <5>1. j \in Nat /\ n + k \in Nat /\ Len(t) \in Nat  BY <1>0, <2>1, SMTT(30)
        <5>2. Len(P) < n + k + Len(t) - 1  BY <3>0
        <5> QED  BY <1>0, <3>4, <5>1, <5>2
      <4> QED  BY <2>1, <4>1, <4>2
    <3>5. j \in Nat /\ n + k \in Nat  BY <1>0
    <3>6. j < n + k \/ j = n + k \/ j > n + k  BY <3>5
    <3> QED  BY <3>2, <3>3, <3>4, <3>6
  <2>3. \A m \in n + k..Len(P) : InPlace(P)[m] = P[m]
    <3> SUFFICES ASSUME NEW m \in n + k..Len(P) PROVE InPlace(P)[m] = P[m]
      OBVIOUS
    <3>0. m \in 1..Len(P)  BY <1>0
    <3>1. ~Starts(P, m)
      <4> SUFFICES ASSUME NEW u \in Tokens, TokenAt(P, m, u) PROVE FALSE
        BY DEF Starts
      <4>1. Len(u) \in Nat /\ Len(u) > 1  BY TokenForm
      <4>2. m + Len(u) - 1 < n + k \/ m > Len(P)  BY <2>2, <3>0
      <4> QED  BY <1>0, <3>0, <4>1, <4>2
    <3>2. ~Inside(P, m)
      <4> SUFFICES ASSUME NEW j \in 1..m - 1, NEW u \in Tokens, TokenAt(P, j, u), m < j + Len(u)
                   PROVE  FALSE
        BY DEF Inside
      <4>1. Len(u) \in Nat /\ Len(u) > 1  BY TokenForm
      <4>2. j \in 1..Len(P)  BY <1>0, <3>0
      <4>3. j + Len(u) - 1 < n + k \/ j > Len(P)  BY <2>2, <4>2
      <4> QED  BY <1>0, <3>0, <4>1, <4>2, <4>3
    <3> QED  BY <3>0, <3>1, <3>2, RestoredCells
  <2>4. \A j \in k..k + Len(t) - 1 : T[j] = S[n + j]
    <3> SUFFICES ASSUME NEW j \in k..k + Len(t) - 1 PROVE T[j] = S[n + j]
      OBVIOUS
    <3>1. j \in 1..Len(T) /\ n + j <= Len(S)  BY <1>0, <2>1
    <3>2. CASE j > Len(b)
      <4>1. j \in Len(b) + 1..Len(T)  BY <1>0, <3>1, <3>2
      <4> QED  BY <4>1
    <3>3. CASE j <= Len(b)
      <4>1. j \in 1..Len(b) /\ n + j \in n + k..Len(P) /\ n + j \in 1..Len(P)
        BY <1>0, <3>1, <3>3
      <4>2. T[j] = InPlace(P)[n + j]  BY <4>1 DEF Begins
      <4>3. InPlace(P)[n + j] = P[n + j]  BY <2>3, <4>1
      <4>4. P[n + j] = S[n + j]  BY <4>1 DEF Begins
      <4> QED  BY <4>2, <4>3, <4>4
    <3> QED  BY <1>0, <3>1, <3>2, <3>3
  <2>5. \A l \in 0..Len(t) - 1 : k + l \in k..k + Len(t) - 1 /\ n + (k + l) = (n + k) + l
    BY <1>0, <2>1
  <2>6. \A l \in 0..Len(t) - 1 : S[(n + k) + l] = T[k + l]
    BY <2>4, <2>5
  <2>7. k \in Nat \ {0} /\ k + Len(t) - 1 <= Len(T)  BY <1>0, <2>1
  <2> QED  BY <2>0, <2>6, <2>7, TokenMoves
\* An occurrence that starts in the text sent also ends there.
<1>3. \A j \in 1..n : \A t \in Tokens : TokenAt(S, j, t) => j + Len(t) - 1 <= n
  <2> SUFFICES ASSUME NEW j \in 1..n, NEW t \in Tokens, TokenAt(S, j, t)
               PROVE  j + Len(t) - 1 <= n
    OBVIOUS
  <2>1. TokenAt(P, j, t)  BY <1>0, SentIsFinal
  <2>2. /\ Len(t) \in Nat /\ Len(t) > 1 /\ j + Len(t) - 1 <= Len(P)
        /\ \A k \in j + 1..j + Len(t) - 1 : P[k] # OPEN
    BY <1>0, <2>1, TokenFacts, SMTT(30) DEF Occurrence
  <2>3. CASE b = <<>>  BY <1>0, <2>2, <2>3
  <2>4. CASE b # <<>>
    <3>1. Len(b) >= 1 /\ b[1] = OPEN  BY <1>0, <2>4, EmptySeq DEF Unclosed
    <3>2. n + 1 \in 1..Len(P) /\ InPlace(P)[n + 1] = OPEN  BY <1>0, <3>1
    <3>3. P[n + 1] = OPEN  BY <3>2, RestoredCells, TokenShape
    <3> QED  BY <1>0, <2>2, <3>3
  <2> QED  BY <2>3, <2>4
\* What P restores, it restores to cells that are not characters.
<1>4. \A m \in 1..Len(P) : \A t \in Tokens : TokenAt(P, m, t) => TokenAt(S, m, t)
  <2> SUFFICES ASSUME NEW m \in 1..Len(P), NEW t \in Tokens, TokenAt(P, m, t)
               PROVE  TokenAt(S, m, t)
    OBVIOUS
  <2>0. m \in Nat \ {0}  BY <1>0
  <2>1. Len(t) \in Nat /\ m + Len(t) - 1 <= Len(P)
    BY <2>0, TokenFacts DEF Occurrence
  <2>2. \A l \in 0..Len(t) - 1 : m + l \in 1..Len(P)
    BY <2>0, <2>1
  <2>3. \A l \in 0..Len(t) - 1 : P[m + l] = S[m + l]
    BY <2>2 DEF Begins
  <2>4. m + Len(t) - 1 <= Len(S)  BY <1>0, <2>0, <2>1
  <2> QED  BY <2>0, <2>3, <2>4, TokenMoves
<1> SUFFICES ASSUME NEW i \in 1..Len(T) PROVE InPlace(T)[i] = InPlace(S)[n + i]
  BY <1>q
<1> USE <1>q
<1> DEFINE m == n + i
<1>5. m \in 1..Len(S) /\ (i \in 1..Len(b) => m \in 1..Len(P) /\ T[i] = InPlace(P)[m])
  BY <1>0 DEF Begins
<1>6. CASE Starts(T, i)
  <2>1. PICK t \in Tokens : TokenAt(T, i, t)  BY <1>6 DEF Starts
  <2>2. TokenAt(S, m, t)  BY <1>1, <2>1
  <2> QED  BY <1>5, <2>1, <2>2, RestoredCells
<1>7. CASE ~Starts(T, i) /\ Starts(S, m)
  <2>1. PICK t \in Tokens : TokenAt(S, m, t)  BY <1>7 DEF Starts
  <2>2. Len(t) \in Nat /\ Len(t) > 1  BY TokenForm
  <2>3. m + Len(t) - 1 <= Len(P)  BY <1>0, <1>2, <1>7, <2>1, <2>2 DEF Starts
  <2>4. i \in 1..Len(b)  BY <1>0, <2>2, <2>3
  <2>5. TokenAt(P, m, t)
    <3>1. \A l \in 0..Len(t) - 1 : m + l \in 1..Len(P)  BY <1>0, <2>2, <2>3
    <3>2. \A l \in 0..Len(t) - 1 : S[m + l] = P[m + l]  BY <3>1 DEF Begins
    <3>3. m \in Nat \ {0}  BY <1>0
    <3> QED  BY <2>1, <2>3, <3>2, <3>3, TokenMoves
  <2>6. T[i] = Value[t][1] /\ InPlace(S)[m] = Value[t][1]
    BY <1>5, <2>1, <2>4, <2>5, RestoredCells
  <2>7. ~Inside(T, i)
    <3> SUFFICES ASSUME NEW k \in 1..i - 1, NEW u \in Tokens, TokenAt(T, k, u), i < k + Len(u)
                 PROVE  FALSE
      BY DEF Inside
    <3>1. k \in Nat \ {0} /\ i \in k..k + Len(u) - 1
      BY <1>0, TokenForm
    <3>2. T[i] \in Char  BY <3>1, TokenFacts DEF Occurrence
    <3>3. Plain(t)  BY <1>5, <2>1 DEF Tangled
    <3> QED  BY <2>6, <3>2, <3>3, ValueForm
  <2> QED  BY <1>7, <2>6, <2>7, RestoredCells
<1>8. CASE ~Starts(T, i) /\ ~Starts(S, m) /\ Inside(T, i)
  <2>1. PICK k \in 1..i - 1, t \in Tokens : TokenAt(T, k, t) /\ i < k + Len(t)
    BY <1>8 DEF Inside
  <2>2. TokenAt(S, n + k, t) /\ n + k \in 1..m - 1 /\ m < n + k + Len(t)
    <3>1. Len(t) \in Nat /\ k \in 1..Len(T)
      BY <1>0, TokenForm
    <3>2. TokenAt(S, n + k, t)  BY <1>1, <2>1, <3>1
    <3> QED  BY <1>0, <2>1, <3>1, <3>2
  <2>3. Inside(S, m)  BY <2>2 DEF Inside
  <2> QED  BY <1>5, <1>8, <2>3, RestoredCells
<1>9. CASE ~Starts(T, i) /\ ~Starts(S, m) /\ ~Inside(T, i) /\ Inside(S, m)
  <2>1. PICK j \in 1..m - 1, t \in Tokens : TokenAt(S, j, t) /\ m < j + Len(t)
    BY <1>9 DEF Inside
  <2>2. Len(t) \in Nat /\ Len(t) > 1  BY TokenForm
  <2>3. j > n  BY <1>0, <1>3, <2>1, <2>2
  <2>4. j - n \in 1..i - 1 /\ n + (j - n) = j  BY <1>0, <2>1, <2>3
  <2>5. j + Len(t) - 1 <= Len(P)
    <3> SUFFICES ASSUME j + Len(t) - 1 > Len(P) PROVE FALSE
      BY <1>0, <2>2
    <3>1. TokenAt(T, j - n, t)  BY <1>0, <1>2, <2>1, <2>4, SMTT(30)
    <3>2. i < (j - n) + Len(t)  BY <1>0, <2>1, <2>2
    <3> QED  BY <1>9, <2>4, <3>1, <3>2 DEF Inside
  <2>6. TokenAt(P, j, t)
    <3>1. j \in Nat \ {0}  BY <1>0
    <3>2. \A l \in 0..Len(t) - 1 : j + l \in 1..Len(P)  BY <1>0, <2>2, <2>5
    <3>3. \A l \in 0..Len(t) - 1 : S[j + l] = P[j + l]  BY <3>2 DEF Begins
    <3> QED  BY <2>1, <2>5, <3>1, <3>3, TokenMoves
  <2>7. i \in 1..Len(b)  BY <1>0, <2>1, <2>2, <2>5
  <2>8. Inside(P, m) /\ ~Starts(P, m)
    BY <1>4, <1>5, <1>9, <2>1, <2>6, <2>7 DEF Inside, Starts
  <2>9. T[i] = Gone  BY <1>5, <2>7, <2>8, RestoredCells
  <2>10. InPlace(T)[i] = T[i]  BY <1>9, RestoredCells
  <2>11. InPlace(S)[m] = Gone  BY <1>5, <1>9, RestoredCells
  <2> QED  BY <2>9, <2>10, <2>11
<1>10. CASE ~Starts(T, i) /\ ~Starts(S, m) /\ ~Inside(T, i) /\ ~Inside(S, m)
  <2>1. InPlace(T)[i] = T[i] /\ InPlace(S)[m] = S[m]  BY <1>5, <1>10, RestoredCells
  <2>2. CASE i > Len(b)  BY <1>0, <2>1, <2>2
  <2>3. CASE i <= Len(b)
    <3>1. i \in 1..Len(b) /\ m \in 1..Len(P)  BY <1>0, <2>3
    <3>2. ~Starts(P, m)  BY <1>4, <1>10, <3>1 DEF Starts
    <3>3. ~Inside(P, m)
      <4> SUFFICES ASSUME NEW j \in 1..m - 1, NEW u \in Tokens, TokenAt(P, j, u), m < j + Len(u)
                   PROVE  FALSE
        BY DEF Inside
      <4>1. TokenAt(S, j, u)
        <5>1. j \in 1..Len(P)  BY <1>0, <3>1
        <5> QED  BY <1>4, <5>1
      <4> QED  BY <1>10, <4>1 DEF Inside
    <3>4. InPlace(P)[m] = P[m]  BY <3>1, <3>2, <3>3, RestoredCells
    <3>5. P[m] = S[m]  BY <3>1 DEF Begins
    <3> QED  BY <1>5, <2>1, <3>1, <3>4, <3>5
  <2> QED  BY <1>0, <2>2, <2>3
<1> QED  BY <1>6, <1>7, <1>8, <1>9, <1>10

-----------------------------------------------------------------------------
Decoded == SubSeq(stream, 1, decoded)

(* While streaming, what was sent and what is held back are the restored   *)
(* form of what was decoded, cut where no placeholder can straddle it.     *)
Streaming ==
  /\ out \o buf = InPlace(Decoded)
  /\ SentBehind(Decoded, Len(out))
  /\ Unclosed(buf)

Prefix == out = SubSeq(InPlace(stream), 1, Len(out))

IInv ==
  /\ TypeOK
  /\ Untangled =>
       /\ state = "streaming" => Streaming
       /\ state = "flushed" => out = InPlace(stream)
       /\ state = "failed" => Prefix
  /\ OnlyBadTextFails

LEMMA StreamCells ==
  ASSUME TypeOK
  PROVE  /\ stream \in Seq(Cell) /\ Len(stream) \in Nat /\ decoded \in 0..Len(stream)
         /\ \A m \in 0..Len(stream) - decoded :
              /\ SubSeq(stream, 1, decoded + m) \in Seq(Cell)
              /\ Len(SubSeq(stream, 1, decoded + m)) = decoded + m
              /\ \A i \in 1..decoded + m : SubSeq(stream, 1, decoded + m)[i] = stream[i]
              /\ Decode(m) \in Seq(Cell) /\ Len(Decode(m)) = m
              /\ \A i \in 1..m : Decode(m)[i] = stream[decoded + i]
<1>1. stream \in Seq(Char \cup {Bad}) /\ decoded \in 0..Len(stream)
  BY StreamsType DEF TypeOK
<1>2. Char \cup {Bad} \subseteq Cell  BY DEF Cell
<1>3. Len(stream) \in Nat /\ \A i \in 1..Len(stream) : stream[i] \in Cell
  BY <1>1, <1>2, LenProperties, ElementOfSeq
<1>4. stream \in Seq(Cell)
  BY <1>1, <1>3, IsASeq, LenProperties
<1>5. ASSUME NEW m \in 0..Len(stream) - decoded
      PROVE  /\ SubSeq(stream, 1, decoded + m) \in Seq(Cell)
             /\ Len(SubSeq(stream, 1, decoded + m)) = decoded + m
             /\ \A i \in 1..decoded + m : SubSeq(stream, 1, decoded + m)[i] = stream[i]
  <2>1. decoded + m \in 0..Len(stream)  BY <1>1, <1>3
  <2> QED  BY <1>3, <1>4, <2>1, SubSeqProperties
<1>6. ASSUME NEW m \in 0..Len(stream) - decoded
      PROVE  /\ Decode(m) \in Seq(Cell) /\ Len(Decode(m)) = m
             /\ \A i \in 1..m : Decode(m)[i] = stream[decoded + i]
  <2>1. /\ decoded + 1 \in 1..Len(stream) + 1 /\ decoded + m \in 0..Len(stream)
        /\ decoded + 1 <= decoded + m + 1
    BY <1>1, <1>3
  <2>2. \A i \in decoded + 1..decoded + m : stream[i] \in Cell  BY <1>1, <1>3
  <2>3. Decode(m) \in Seq(Cell)
    BY <1>3, <1>4, <2>1, <2>2, SubSeqProperties DEF Decode
  <2>4. Len(Decode(m)) = m
    BY <1>1, <1>3, <1>4, <2>1, SubSeqProperties DEF Decode
  <2>5. \A i \in 1..m : Decode(m)[i] = stream[decoded + i]
    BY <1>1, <1>3, <1>4, <2>1, SubSeqProperties DEF Decode
  <2> QED  BY <2>3, <2>4, <2>5
<1> QED  BY <1>1, <1>3, <1>4, <1>5, <1>6

(* The buffer after a chunk, restored: together with what was sent it is   *)
(* the restored form of all that is decoded.                               *)
LEMMA FeedRestores ==
  ASSUME TypeOK, Streaming, Untangled, NEW m \in 0..Len(stream) - decoded
  PROVE  LET S == SubSeq(stream, 1, decoded + m)
             text == InPlace(buf \o Decode(m))
         IN  /\ ~Tangled(buf \o Decode(m)) /\ ~Tangled(S)
             /\ text \in Seq(Cell) /\ Len(out) + Len(text) = Len(S)
             /\ out \o text = InPlace(S)
             /\ \A i \in 1..Len(text) : text[i] = InPlace(S)[Len(out) + i]
             /\ SentBehind(S, Len(out))
<1> DEFINE P == Decoded
           S == SubSeq(stream, 1, decoded + m)
           T == buf \o Decode(m)
           n == Len(out)
<1>1. /\ P \in Seq(Cell) /\ Len(P) = decoded /\ \A i \in 1..decoded : P[i] = stream[i]
      /\ decoded \in Nat /\ m \in Nat
  <2>1. 0 \in 0..Len(stream) - decoded /\ decoded + 0 = decoded /\ decoded \in Nat
    BY StreamCells
  <2> QED  BY <2>1, StreamCells DEF Decoded
<1>2. /\ S \in Seq(Cell) /\ Len(S) = decoded + m
      /\ \A i \in 1..decoded + m : S[i] = stream[i]
      /\ Decode(m) \in Seq(Cell) /\ Len(Decode(m)) = m
      /\ \A i \in 1..m : Decode(m)[i] = stream[decoded + i]
  BY StreamCells
<1>3. out \in Seq(Cell) /\ buf \in Seq(Cell) /\ n \in Nat /\ Len(buf) \in Nat
  BY LenProperties DEF TypeOK
<1>p. ~Tangled(P) /\ ~Tangled(S)
  <2>1. /\ stream \in Seq(Cell) /\ Len(stream) \in Nat /\ decoded \in 0..Len(stream)
        /\ decoded + m <= Len(stream)
    BY StreamCells
  <2>2. Begins(P, stream) /\ Begins(S, stream)  BY <1>1, <1>2, <2>1 DEF Begins
  <2> HIDE DEF P, S
  <2> QED  BY <1>1, <1>2, <2>1, <2>2, PrefixUntangled DEF Untangled
<1>4. /\ InPlace(P) = out \o buf /\ Len(InPlace(P)) = decoded /\ InPlace(P) \in Seq(Cell)
  BY <1>p, <1>1, RestoredCells DEF Streaming
<1>5. n + Len(buf) = decoded
  BY <1>3, <1>4, ConcatProperties
<1>6. /\ \A i \in 1..n : InPlace(P)[i] = out[i]
      /\ \A i \in 1..Len(buf) : InPlace(P)[n + i] = buf[i]
  <2>1. \A i \in 1..n + Len(buf) : InPlace(P)[i] = IF i <= n THEN out[i] ELSE buf[i - n]
    BY <1>3, <1>4, ConcatProperties
  <2> QED  BY <1>3, <2>1, SMTT(30)
<1>7. /\ T \in Seq(Cell) /\ Len(T) = Len(buf) + m
      /\ \A i \in 1..Len(buf) : T[i] = buf[i]
      /\ \A i \in Len(buf) + 1..Len(T) : T[i] = S[n + i]
  <2>1. /\ T \in Seq(Cell) /\ Len(T) = Len(buf) + m
        /\ \A i \in 1..Len(buf) + m :
             T[i] = IF i <= Len(buf) THEN buf[i] ELSE Decode(m)[i - Len(buf)]
    <3>1. /\ T \in Seq(Cell) /\ Len(T) = Len(buf) + Len(Decode(m))
          /\ \A i \in 1..Len(buf) + Len(Decode(m)) :
               T[i] = IF i <= Len(buf) THEN buf[i] ELSE Decode(m)[i - Len(buf)]
      BY <1>2, <1>3, ConcatProperties
    <3>2. Len(Decode(m)) = m  BY <1>2
    <3> HIDE DEF T
    <3> QED  BY <3>1, <3>2
  <2>2. ASSUME NEW i \in Len(buf) + 1..Len(T) PROVE T[i] = S[n + i]
    <3>1. i - Len(buf) \in 1..m /\ decoded + (i - Len(buf)) = n + i /\ n + i \in 1..decoded + m
      <4>1. Len(T) = Len(buf) + m  BY <2>1
      <4>2. n \in Nat /\ Len(buf) \in Nat /\ m \in Nat /\ n + Len(buf) = decoded
        BY <1>1, <1>3, <1>5
      <4> HIDE DEF n, T
      <4> QED  BY <4>1, <4>2
    <3>2. T[i] = Decode(m)[i - Len(buf)]  BY <1>1, <1>3, <2>1
    <3>3. T[i] = stream[decoded + (i - Len(buf))]  BY <1>2, <3>1, <3>2
    <3> QED  BY <1>2, <3>1, <3>3
  <2>3. \A i \in 1..Len(buf) : T[i] = buf[i]
    <3>1. \A i \in 1..Len(buf) : i \in 1..Len(buf) + m /\ i <= Len(buf)  BY <1>1, <1>3
    <3> HIDE DEF T
    <3> QED  BY <2>1, <3>1
  <2> HIDE DEF T
  <2> QED  BY <2>1, <2>2, <2>3
<1>8. Begins(P, S) /\ Begins(buf, T)
  <2>1. \A i \in 1..decoded : S[i] = P[i]  BY <1>1, <1>2
  <2> QED  BY <1>1, <1>2, <1>3, <1>7, <2>1 DEF Begins
<1>9. SentBehind(P, n) /\ Unclosed(buf)  BY DEF Streaming
<1> HIDE DEF P, S, T
<1>11. ~Tangled(T) /\ \A i \in 1..Len(T) : InPlace(T)[i] = InPlace(S)[n + i]
  <2>1. n + Len(T) = Len(S) /\ n + Len(buf) = Len(P)
    <3>1. Len(T) = Len(buf) + m /\ Len(S) = decoded + m /\ Len(P) = decoded
      BY <1>1, <1>2, <1>7
    <3>2. n \in Nat /\ Len(buf) \in Nat /\ m \in Nat /\ n + Len(buf) = decoded
      BY <1>1, <1>3, <1>5
    <3> HIDE DEF n
    <3> QED  BY <3>1, <3>2
  <2>2. \A i \in 1..Len(buf) : buf[i] = InPlace(P)[n + i]  BY <1>6
  <2>3. \A i \in Len(buf) + 1..Len(T) : T[i] = S[n + i]  BY <1>7
  <2>4. /\ P \in Seq(Cell) /\ S \in Seq(Cell) /\ T \in Seq(Cell)
        /\ buf \in Seq(Cell) /\ n \in Nat
    BY <1>1, <1>2, <1>3, <1>7
  <2> HIDE DEF n
  <2>5. Cut(P, S, buf, T, n)  BY <1>8, <1>9, <2>1, <2>2, <2>3 DEF Cut
  <2> QED  BY <1>p, <2>4, <2>5, LocalRestore
<1>10. Len(InPlace(T)) = Len(T) /\ InPlace(T) \in Seq(Cell)
       /\ InPlace(S) \in Seq(Cell) /\ Len(InPlace(S)) = Len(S)
  BY <1>p, <1>2, <1>7, <1>11, RestoredCells
<1>12. \A j \in 1..n : InPlace(S)[j] = out[j]
  <2>1. n \in 0..Len(P)  BY <1>1, <1>3, <1>5
  <2>2. \A j \in 1..n : InPlace(S)[j] = InPlace(P)[j]
    BY <1>p, <1>1, <1>2, <1>8, <1>9, <2>1, SentIsFinal
  <2> QED  BY <1>6, <2>2
<1>13. n + Len(InPlace(T)) = Len(S)
  <2>1. Len(T) = Len(buf) + m /\ Len(S) = decoded + m /\ Len(InPlace(T)) = Len(T)
    BY <1>2, <1>7, <1>10
  <2>2. n \in Nat /\ Len(buf) \in Nat /\ m \in Nat /\ n + Len(buf) = decoded
    BY <1>1, <1>3, <1>5
  <2> HIDE DEF n
  <2> QED  BY <2>1, <2>2
<1>14. out \o InPlace(T) = InPlace(S)
  <2>1. /\ out \o InPlace(T) \in Seq(Cell) /\ Len(out \o InPlace(T)) = Len(S)
        /\ \A i \in 1..Len(S) : (out \o InPlace(T))[i] =
             IF i <= n THEN out[i] ELSE InPlace(T)[i - n]
    BY <1>3, <1>10, <1>13, ConcatProperties
  <2>2. ASSUME NEW i \in 1..Len(S) PROVE (out \o InPlace(T))[i] = InPlace(S)[i]
    <3>1. CASE i <= n  BY <1>3, <1>12, <2>1, <3>1
    <3>2. CASE i > n
      <4>1. i - n \in 1..Len(T) /\ n + (i - n) = i
        BY <1>1, <1>2, <1>3, <1>10, <1>13, <3>2
      <4>2. ~(i <= n)  BY <1>1, <1>2, <1>3, <3>2
      <4>3. (out \o InPlace(T))[i] = InPlace(T)[i - n]  BY <2>1, <4>2
      <4> QED  BY <1>11, <4>1, <4>3
    <3>3. i \in Nat /\ n \in Nat  BY <1>1, <1>2, <1>3
    <3>4. i <= n \/ i > n  BY <3>3
    <3> QED  BY <3>1, <3>2, <3>4
  <2> QED  BY <1>10, <2>1, <2>2, SeqEqual
<1>15. SentBehind(S, n)
  <2> SUFFICES ASSUME NEW j \in 1..n, S[j] = OPEN
               PROVE  \E i \in j + 1..Len(S) : S[i] \in Sentinels
    BY DEF SentBehind
  <2>1. j \in 1..decoded /\ P[j] = OPEN
    BY <1>1, <1>3, <1>5, <1>8 DEF Begins
  <2>2. PICK i \in j + 1..Len(P) : P[i] \in Sentinels  BY <1>9, <2>1 DEF SentBehind
  <2>3. i \in 1..Len(P) /\ i \in j + 1..Len(S)  BY <1>1, <1>2, <2>1
  <2> QED  BY <1>8, <2>2, <2>3 DEF Begins
<1> QED  BY <1>p, <1>10, <1>11, <1>13, <1>14, <1>15 DEF S, T

-----------------------------------------------------------------------------
(* Every step keeps the invariant.                                         *)
LEMMA InitInv == Init => IInv
<1> SUFFICES ASSUME Init PROVE IInv
  OBVIOUS
<1>1. stream \in Seq(Char \cup {Bad}) /\ Len(stream) \in Nat
  BY StreamsType, LenProperties DEF Init
<1>2. TypeOK
  <2>1. <<>> \in Seq(Cell)  BY EmptySeq
  <2>2. 0 \in 0..Len(stream)  BY <1>1
  <2> QED  BY <2>1, <2>2 DEF Init, TypeOK
<1>3. Streaming
  <2>1. Decoded = <<>>  BY SubSeqEmpty DEF Decoded, Init
  <2>2. <<>> \in Seq(Cell) /\ Len(<<>>) = 0  BY EmptySeq
  <2>3. InPlace(<<>>) = <<>>
    <3>1. ~Tangled(<<>>)  BY <2>2 DEF Tangled
    <3> QED  BY <2>2, <3>1, RestoredCells, EmptySeq
  <2>4. out \o buf = <<>>  BY <2>2, ConcatEmptySeq DEF Init
  <2>5. SentBehind(Decoded, Len(out))  BY <2>2 DEF SentBehind, Init
  <2> QED  BY <2>1, <2>3, <2>4, <2>5 DEF Streaming, Unclosed, Init
<1> QED  BY <1>2, <1>3 DEF IInv, OnlyBadTextFails, Init

(* What a call returns and what it keeps, and how it ends.                 *)
LEMMA FeedReturns ==
  ASSUME NEW m, NEW p, Feed(m, p)
  PROVE  LET text == Restore(buf \o Decode(m)) IN
         \/ Dangling(text) = {} /\ Return(text, "streaming") /\ buf' = <<>>
         \/ \E i \in Dangling(text) :
              Return(SubSeq(text, 1, i - 1), "streaming") /\ buf' = SubSeq(text, i, Len(text))
BY DEF Feed

(* A call that does not raise returned what it should.                     *)
LEMMA Returned ==
  ASSUME NEW h, NEW next, Return(h, next), state' # "failed"
  PROVE  out' = out \o h /\ state' = next
BY DEF Return

(* A chunk after which the stream goes on leaves what was sent and what is *)
(* held back the restored form of what is decoded.                         *)
LEMMA FeedStreams ==
  ASSUME TypeOK, Untangled, Streaming,
         NEW m \in 0..Len(stream) - decoded, NEW p \in BOOLEAN, Feed(m, p), state' = "streaming"
  PROVE  Streaming'
<1> DEFINE S == SubSeq(stream, 1, decoded + m)
           text == InPlace(buf \o Decode(m))
           n == Len(out)
<1>1. decoded' = decoded + m /\ stream' = stream
  BY DEF Feed
<1>2. /\ text \in Seq(Cell) /\ n + Len(text) = Len(S) /\ out \o text = InPlace(S)
      /\ \A i \in 1..Len(text) : text[i] = InPlace(S)[n + i]
      /\ SentBehind(S, n) /\ ~Tangled(S) /\ ~Tangled(buf \o Decode(m))
  BY FeedRestores
<1>3. /\ S \in Seq(Cell) /\ Len(S) = decoded + m
      /\ \A i \in 1..decoded + m : S[i] = stream[i]
      /\ decoded \in Nat /\ m \in Nat /\ decoded + m \in 0..Len(stream)
  BY StreamCells
<1>4. out \in Seq(Cell) /\ n \in Nat /\ Len(text) \in Nat
  BY <1>2, LenProperties DEF TypeOK
<1>5. Decoded' = S  BY <1>1 DEF Decoded
<1>7. /\ \/ Dangling(text) = {} /\ out' = out \o text /\ buf' = <<>>
         \/ \E i \in Dangling(text) :
              out' = out \o SubSeq(text, 1, i - 1) /\ buf' = SubSeq(text, i, Len(text))
  <2>1. Restore(buf \o Decode(m)) = text  BY <1>2 DEF Restore
  <2>2. state' # "failed"  OBVIOUS
  <2> HIDE DEF text
  <2>3. \/ Dangling(text) = {} /\ Return(text, "streaming") /\ buf' = <<>>
        \/ \E i \in Dangling(text) :
             Return(SubSeq(text, 1, i - 1), "streaming") /\ buf' = SubSeq(text, i, Len(text))
    BY <2>1, FeedReturns
  <2> QED  BY <2>2, <2>3, Returned
<1> HIDE DEF S, text
\* Every OPEN of the text that is now sent has a sentinel after it.
<1>8. ASSUME NEW k \in 0..Len(text),
             \A j \in 1..k : text[j] = OPEN =>
                 \E i \in j + 1..Len(text) : text[i] \in Sentinels
      PROVE  SentBehind(S, n + k)
  <2> SUFFICES ASSUME NEW j \in 1..n + k, S[j] = OPEN
               PROVE  \E i \in j + 1..Len(S) : S[i] \in Sentinels
    BY DEF SentBehind
  <2>1. CASE j <= n
    <3>1. j \in 1..n  BY <1>4, <2>1
    <3> QED  BY <1>2, <3>1 DEF SentBehind
  <2>2. CASE j > n
    <3>1. j - n \in 1..k /\ j - n \in 1..Len(text) /\ n + (j - n) = j /\ j \in 1..Len(S)
          /\ j \in Nat \ {0}
      BY <1>2, <1>3, <1>4, <2>2
    <3>2. CASE Starts(S, j)
      <4>1. PICK t \in Tokens : TokenAt(S, j, t)  BY <3>2 DEF Starts
      <4>2. Occurrence(S, j, t)  BY <1>3, <3>1, <4>1, TokenFacts
      <4>3. /\ j + Len(t) - 1 \in j + 1..Len(S)
            /\ S[j + Len(t) - 1] \in Sentinels
        BY <4>2 DEF Occurrence, Sentinels
      <4> QED  BY <4>3
    <3>3. CASE ~Starts(S, j)
      <4>1. ~Inside(S, j)
        <5> SUFFICES ASSUME NEW l \in 1..j - 1, NEW t \in Tokens, TokenAt(S, l, t), j < l + Len(t)
                     PROVE  FALSE
          BY DEF Inside
        <5>1. l \in Nat \ {0}  BY <3>1
        <5>2. Occurrence(S, l, t)  BY <1>3, <5>1, TokenFacts
        <5>3. j \in l + 1..l + Len(t) - 1  BY <3>1, <5>2 DEF Occurrence
        <5> QED  BY <5>2, <5>3 DEF Occurrence
      <4>2. text[j - n] = OPEN
        <5>1. InPlace(S)[j] = S[j]  BY <1>2, <1>3, <3>1, <3>3, <4>1, RestoredCells
        <5>2. text[j - n] = InPlace(S)[n + (j - n)]  BY <1>2, <3>1
        <5> QED  BY <3>1, <5>1, <5>2
      <4>3. PICK i \in (j - n) + 1..Len(text) : text[i] \in Sentinels  BY <1>8, <3>1, <4>2
      <4>4. i \in 1..Len(text) /\ n + i \in j + 1..Len(S) /\ n + i \in 1..Len(S)
        BY <1>2, <1>3, <1>4, <3>1
      <4>5. InPlace(S)[n + i] \in Char /\ InPlace(S)[n + i] \in Sentinels
        BY <1>2, <4>3, <4>4, TokenShape DEF Sentinels
      <4>6. S[n + i] \in Sentinels  BY <1>2, <1>3, <4>4, <4>5, RestoredCells
      <4> QED  BY <4>4, <4>6
    <3> QED  BY <3>2, <3>3
  <2>3. j \in Nat /\ n \in Nat  BY <1>4
  <2>4. j <= n \/ j > n  BY <2>3
  <2> QED  BY <2>1, <2>2, <2>4
<1>9. Streaming' /\ out' \in Seq(Cell) /\ buf' \in Seq(Cell)
  <2>1. CASE Dangling(text) = {} /\ out' = out \o text /\ buf' = <<>>
    <3>1. out' \in Seq(Cell) /\ buf' \in Seq(Cell) /\ Len(out') = n + Len(text)
      BY <1>2, <1>4, <2>1, ConcatProperties, EmptySeq
    <3>2. out' \o buf' = InPlace(S)  BY <1>2, <2>1, <3>1, ConcatEmptySeq
    <3>3. \A j \in 1..Len(text) : text[j] = OPEN =>
            \E i \in j + 1..Len(text) : text[i] \in Sentinels
      BY <2>1 DEF Dangling
    <3>4. SentBehind(S, n + Len(text))
      <4>1. Len(text) \in 0..Len(text)  BY <1>4
      <4> QED  BY <1>8, <3>3, <4>1
    <3>5. Unclosed(buf')  BY <2>1 DEF Unclosed
    <3> QED  BY <1>5, <3>1, <3>2, <3>4, <3>5 DEF Streaming, Unclosed
  <2>2. ASSUME NEW i \in Dangling(text),
               out' = out \o SubSeq(text, 1, i - 1), buf' = SubSeq(text, i, Len(text))
        PROVE  Streaming' /\ out' \in Seq(Cell) /\ buf' \in Seq(Cell)
    <3> DEFINE h == SubSeq(text, 1, i - 1)
    <3>1. /\ i \in 1..Len(text) /\ text[i] = OPEN
          /\ \A j \in i + 1..Len(text) : text[j] \notin Sentinels
      BY DEF Dangling
    <3>2. \A j \in 1..Len(text) : text[j] \in Cell  BY <1>2, ElementOfSeq
    <3>3. /\ h \in Seq(Cell) /\ Len(h) = i - 1 /\ \A j \in 1..i - 1 : h[j] = text[j]
      <4>1. 1 \in Int /\ i - 1 \in Int /\ \A j \in 1..i - 1 : text[j] \in Cell
        BY <1>4, <3>1, <3>2
      <4> QED  BY <1>4, <3>1, <4>1, SubSeqProperties
    <3>4. /\ buf' \in Seq(Cell) /\ Len(buf') = Len(text) - i + 1
          /\ \A j \in 1..Len(text) - i + 1 : buf'[j] = text[i + j - 1]
      <4>1. i \in Int /\ Len(text) \in Int /\ \A j \in i..Len(text) : text[j] \in Cell
        BY <1>4, <3>1, <3>2
      <4> QED  BY <1>4, <2>2, <3>1, <4>1, SubSeqProperties
    <3>5. h \o buf' = text
      <4>1. h \o buf' \in Seq(Cell) /\ Len(h \o buf') = Len(text)
        <5>1. Len(h \o buf') = Len(h) + Len(buf')  BY <3>3, <3>4, ConcatProperties
        <5>2. Len(h) + Len(buf') = Len(text)
          <6>1. Len(h) = i - 1 /\ Len(buf') = Len(text) - i + 1  BY <3>3, <3>4
          <6> HIDE DEF h
          <6> QED  BY <1>4, <3>1, <6>1
        <5> QED  BY <3>3, <3>4, <5>1, <5>2, ConcatProperties
      <4>2. ASSUME NEW j \in 1..Len(text) PROVE (h \o buf')[j] = text[j]
        <5>1. (h \o buf')[j] = IF j <= Len(h) THEN h[j] ELSE buf'[j - Len(h)]
          <6>1. j \in 1..Len(h) + Len(buf')  BY <1>4, <3>1, <3>3, <3>4
          <6> QED  BY <3>3, <3>4, <6>1, ConcatProperties
        <5>2. CASE j <= i - 1  BY <1>4, <3>1, <3>3, <5>1, <5>2
        <5>3. CASE j > i - 1
          <6>1. /\ j - (i - 1) \in 1..Len(text) - i + 1 /\ i + (j - (i - 1)) - 1 = j
                /\ ~(j <= i - 1)
            BY <1>4, <3>1, <5>3
          <6>2. (h \o buf')[j] = buf'[j - (i - 1)]  BY <3>3, <5>1, <6>1
          <6> QED  BY <3>4, <6>1, <6>2
        <5>4. j <= i - 1 \/ j > i - 1  BY <1>4, <3>1
        <5> QED  BY <5>2, <5>3, <5>4
      <4> QED  BY <1>2, <4>1, <4>2, SeqEqual
    <3>6. out' \in Seq(Cell) /\ Len(out') = n + (i - 1)
      <4> HIDE DEF h
      <4> QED  BY <1>4, <2>2, <3>3, ConcatProperties DEF h
    <3>7. out' \o buf' = InPlace(S)
      <4>1. out' = out \o h  BY <2>2
      <4>2. (out \o h) \o buf' = out \o (h \o buf')
        <5>1. h \in Seq(Cell) /\ buf' \in Seq(Cell)  BY <3>3, <3>4
        <5> HIDE DEF h
        <5> QED  BY <1>4, <5>1, ConcatAssociative, SMTT(30)
      <4> QED  BY <1>2, <3>5, <4>1, <4>2
    <3>8. SentBehind(S, n + (i - 1))
      <4>1. \A j \in 1..i - 1 : i \in j + 1..Len(text) /\ text[i] \in Sentinels
        BY <1>4, <3>1 DEF Sentinels
      <4>2. i - 1 \in 0..Len(text)  BY <1>4, <3>1
      <4> QED  BY <1>8, <4>1, <4>2
    <3>9. Unclosed(buf')
      <4>1. buf'[1] = OPEN
        <5>1. 1 \in 1..Len(text) - i + 1 /\ i + 1 - 1 = i  BY <1>4, <3>1
        <5> QED  BY <3>1, <3>4, <5>1
      <4>2. ASSUME NEW j \in 2..Len(buf') PROVE buf'[j] \notin Sentinels
        <5>1. j \in 1..Len(text) - i + 1 /\ i + j - 1 \in i + 1..Len(text)
          BY <1>4, <3>1, <3>4
        <5> QED  BY <3>1, <3>4, <5>1
      <4> QED  BY <4>1, <4>2 DEF Unclosed
    <3> QED  BY <1>5, <3>4, <3>6, <3>7, <3>8, <3>9 DEF Streaming, Unclosed
  <2> QED  BY <1>7, <2>1, <2>2
<1> QED  BY <1>9

(* What was sent is a prefix of the restored whole: it is final.           *)
LEMMA StreamingIsPrefix ==
  ASSUME TypeOK, Untangled, Streaming
  PROVE  Prefix
<1>0. /\ stream \in Seq(Cell) /\ Len(stream) \in Nat /\ decoded \in 0..Len(stream)
      /\ out \in Seq(Cell) /\ Len(out) \in Nat /\ buf \in Seq(Cell) /\ Len(buf) \in Nat
  BY StreamCells, LenProperties DEF TypeOK
<1>2. /\ Decoded \in Seq(Cell) /\ Len(Decoded) = decoded
      /\ \A i \in 1..decoded : Decoded[i] = stream[i]
  <2>1. 0 \in 0..Len(stream) - decoded /\ decoded + 0 = decoded  BY <1>0
  <2> QED  BY <2>1, StreamCells DEF Decoded
<1>3. Begins(Decoded, stream)  BY <1>0, <1>2 DEF Begins
<1>p. ~Tangled(stream) /\ ~Tangled(Decoded)
  BY <1>0, <1>2, <1>3, PrefixUntangled DEF Untangled
<1>r. InPlace(stream) \in Seq(Cell) /\ Len(InPlace(stream)) = Len(stream)
  BY <1>0, <1>p, RestoredCells
<1>4. InPlace(Decoded) = out \o buf /\ Len(InPlace(Decoded)) = decoded
  BY <1>2, <1>p, RestoredCells DEF Streaming
<1>5. Len(out) + Len(buf) = decoded
      /\ \A i \in 1..Len(out) + Len(buf) :
           (out \o buf)[i] = IF i <= Len(out) THEN out[i] ELSE buf[i - Len(out)]
  BY <1>0, <1>4, ConcatProperties
<1>6. ASSUME NEW j \in 1..Len(out) PROVE InPlace(stream)[j] = out[j]
  <2>1. Len(out) \in 0..Len(Decoded)  BY <1>0, <1>2, <1>5
  <2>2. InPlace(stream)[j] = InPlace(Decoded)[j]
    BY <1>0, <1>p, <1>2, <1>3, <2>1, SentIsFinal DEF Streaming
  <2>3. (out \o buf)[j] = out[j]  BY <1>0, <1>5
  <2> QED  BY <1>4, <2>2, <2>3
<1>7. /\ SubSeq(InPlace(stream), 1, Len(out)) \in Seq(Cell)
      /\ Len(SubSeq(InPlace(stream), 1, Len(out))) = Len(out)
      /\ \A i \in 1..Len(out) : SubSeq(InPlace(stream), 1, Len(out))[i] = InPlace(stream)[i]
  <2>1. Len(out) <= Len(stream)  BY <1>0, <1>5
  <2>2. \A i \in 1..Len(out) : InPlace(stream)[i] \in Cell  BY <1>0, <1>r, <2>1, ElementOfSeq
  <2> QED  BY <1>0, <1>r, <2>2, SubSeqProperties
<1> QED  BY <1>0, <1>6, <1>7, SeqEqual DEF Prefix
(* Half a surrogate pair in what an untangled text restores to is the      *)
(* value of a placeholder of the response.                                 *)
LEMMA LoneShown ==
  ASSUME NEW S \in Seq(Cell), stream \in Seq(Cell), Begins(S, stream), ~Tangled(stream),
         \A j \in 1..Len(S) : S[j] \in Char \cup {Bad},
         NEW j \in 1..Len(S), InPlace(S)[j] \in Lone
  PROVE  \E t \in Tokens : HoldsLone(t) /\ Answered(t)
<1>0. /\ Len(S) \in Nat /\ Len(stream) \in Nat /\ Len(S) <= Len(stream) /\ j \in Nat \ {0}
      /\ ~Tangled(S)
  BY LenProperties, PrefixUntangled DEF Begins
<1>1. InPlace(S)[j] \notin Char \cup {Gone, Bad}  BY CellKinds
<1>2. Starts(S, j)  BY <1>0, <1>1, RestoredCells
<1>3. PICK t \in Tokens : TokenAt(S, j, t)  BY <1>2 DEF Starts
<1>4. Value[t][1] \in Lone /\ Len(Value[t]) = 1
  BY <1>0, <1>3, RestoredCells DEF Tangled, Plain
<1>5. HoldsLone(t)  BY <1>4 DEF HoldsLone, ValueCells
<1>6. TokenAt(stream, j, t)
  <2>1. Len(t) \in Nat /\ j + Len(t) - 1 <= Len(S)
    BY <1>0, <1>3, TokenFacts DEF Occurrence
  <2>2. \A l \in 0..Len(t) - 1 : j + l \in 1..Len(S)  BY <1>0, <2>1
  <2>3. \A l \in 0..Len(t) - 1 : S[j + l] = stream[j + l]  BY <2>2 DEF Begins
  <2>4. j + Len(t) - 1 <= Len(stream)  BY <1>0, <2>1
  <2> QED  BY <1>0, <1>3, <2>3, <2>4, TokenMoves
<1>7. j \in 1..Len(stream)  BY <1>0
<1> QED  BY <1>5, <1>6, <1>7 DEF Answered

(* Half a surrogate pair in any text of the restorer is one of a value.    *)
LEMMA LoneIsOfValue ==
  ASSUME NEW h \in Seq(Cell), ~Encodes(h)
  PROVE  \E t \in Tokens : HoldsLone(t)
<1>1. PICK i \in 1..Len(h) : h[i] \in Lone  BY DEF Encodes
<1>2. h[i] \in Cell /\ h[i] \notin Char \cup {Gone, Bad}  BY <1>1, ElementOfSeq, CellKinds
<1>3. PICK t \in Tokens : h[i] \in ValueCells(t)  BY <1>2 DEF Cell
<1> QED  BY <1>1, <1>3 DEF HoldsLone

(* The text a call restores, T, is of known cells, and if it does not      *)
(* encode then a value that does not was to blame.                         *)
LEMMA RestoredText ==
  ASSUME TypeOK, Untangled => Streaming, NEW m \in 0..Len(stream) - decoded
  PROVE  LET text == Restore(buf \o Decode(m)) IN
         /\ text \in Seq(Cell) /\ Len(text) \in Nat
         /\ \A i \in 1..Len(text) : text[i] \in Lone =>
              \E t \in Tokens : HoldsLone(t) /\ (Untangled => Answered(t))
<1> DEFINE T == buf \o Decode(m)
           S == SubSeq(stream, 1, decoded + m)
<1>1. /\ Decode(m) \in Seq(Cell) /\ S \in Seq(Cell) /\ Len(S) = decoded + m
      /\ \A i \in 1..decoded + m : S[i] = stream[i]
      /\ stream \in Seq(Cell) /\ Len(stream) \in Nat /\ decoded \in Nat /\ m \in Nat
      /\ decoded + m <= Len(stream)
  BY StreamCells
<1>2. T \in Seq(Cell)  BY <1>1, ConcatProperties DEF TypeOK
<1> HIDE DEF T
<1>3. Restore(T) \in Seq(Cell) /\ Len(Restore(T)) \in Nat  BY <1>2, RestoreTyped, LenProperties
<1>4. ASSUME NEW i \in 1..Len(Restore(T)), Restore(T)[i] \in Lone
      PROVE  \E t \in Tokens : HoldsLone(t) /\ (Untangled => Answered(t))
  <2>1. CASE Untangled
    <3>0. Streaming  BY <2>1
    <3>1. /\ ~Tangled(T) /\ ~Tangled(S) /\ InPlace(T) \in Seq(Cell)
          /\ Len(out) + Len(InPlace(T)) = Len(S)
          /\ \A k \in 1..Len(InPlace(T)) : InPlace(T)[k] = InPlace(S)[Len(out) + k]
      BY <2>1, <3>0, FeedRestores DEF T
    <3>2. Restore(T) = InPlace(T)  BY <3>1 DEF Restore
    <3>3. Len(out) \in Nat  BY LenProperties DEF TypeOK
    <3> DEFINE j == Len(out) + i
    <3>4. j \in 1..Len(S) /\ InPlace(S)[j] \in Lone
      <4>1. i \in 1..Len(InPlace(T)) /\ Len(InPlace(T)) \in Nat  BY <1>3, <3>2
      <4>2. InPlace(S)[j] = InPlace(T)[i]  BY <3>1, <4>1
      <4>3. InPlace(T)[i] \in Lone  BY <1>4, <3>2
      <4>4. j \in 1..Len(S)
        <5> DEFINE l == Len(InPlace(T))
        <5>1. l \in Nat /\ i \in 1..l /\ Len(out) + l = Len(S)  BY <3>1, <4>1
        <5> HIDE DEF l, S
        <5>2. PICK e \in Nat : e = Len(S)  BY <1>1
        <5>3. Len(out) + i \in 1..e  BY <3>3, <5>1, <5>2
        <5> QED  BY <5>2, <5>3
      <4> QED  BY <4>2, <4>3, <4>4
    <3> HIDE DEF j
    <3>5. Begins(S, stream)
      <4> HIDE DEF S
      <4> QED  BY <1>1 DEF Begins
    <3>6. \A k \in 1..Len(S) : S[k] \in Char \cup {Bad}
      <4>1. stream \in Seq(Char \cup {Bad})  BY StreamsType DEF TypeOK
      <4>2. \A k \in 1..Len(S) : k \in 1..Len(stream) /\ k \in 1..decoded + m  BY <1>1
      <4>3. \A k \in 1..Len(stream) : stream[k] \in Char \cup {Bad}  BY <4>1, ElementOfSeq
      <4> HIDE DEF S
      <4> QED  BY <1>1, <4>2, <4>3
    <3> HIDE DEF S
    <3>7. ~Tangled(stream)  BY <2>1 DEF Untangled
    <3> QED  BY <1>1, <3>4, <3>5, <3>6, <3>7, LoneShown
  <2>2. CASE ~Untangled
    <3>1. ~Encodes(Restore(T))  BY <1>4 DEF Encodes
    <3> QED  BY <1>3, <2>2, <3>1, LoneIsOfValue
  <2> QED  BY <2>1, <2>2
<1> QED  BY <1>3, <1>4 DEF T

(* The invariant after a call that returns h, a part of what it restored.  *)
LEMMA ReturnKeeps ==
  ASSUME IInv, state = "streaming", NEW h \in Seq(Cell), NEW next \in {"streaming", "flushed"},
         Return(h, next), stream' = stream, buf' \in Seq(Cell),
         decoded' \in 0..Len(stream), partial' \in BOOLEAN,
         ~Encodes(h) => \E t \in Tokens : HoldsLone(t) /\ (Untangled => Answered(t)),
         Untangled /\ state' = "streaming" => Streaming',
         Untangled /\ state' = "flushed" => out' = InPlace(stream)
  PROVE  IInv'
<1>1. TypeOK /\ (Untangled => Streaming)  BY DEF IInv
<1>2. /\ out' = (IF Encodes(h) THEN out \o h ELSE out)
      /\ state' = (IF Encodes(h) THEN next ELSE "failed")
  BY DEF Return
<1>3. out' \in Seq(Cell)
  <2>1. out \in Seq(Cell)  BY <1>1 DEF TypeOK
  <2> QED  BY <1>2, <2>1, ConcatProperties
<1>4. TypeOK'  BY <1>1, <1>2, <1>3 DEF TypeOK
<1>5. Untangled' <=> Untangled  BY DEF Untangled
<1>6. OnlyBadTextFails'
  <2>1. CASE Encodes(h)  BY <1>2, <2>1 DEF OnlyBadTextFails
  <2>2. CASE ~Encodes(h)
    <3>1. PICK t \in Tokens : HoldsLone(t) /\ (Untangled => Answered(t))  BY <2>2
    <3>2. Answered(t) => Answered(t)'  BY DEF Answered
    <3> QED  BY <1>5, <3>1, <3>2 DEF OnlyBadTextFails
  <2> QED  BY <2>1, <2>2
<1>7. Untangled /\ state' = "failed" => Prefix'
  <2> SUFFICES ASSUME Untangled, state' = "failed" PROVE Prefix'
    OBVIOUS
  <2>1. out' = out  BY <1>2
  <2>2. Prefix  BY <1>1, StreamingIsPrefix
  <2> QED  BY <2>1, <2>2 DEF Prefix
<1> QED  BY <1>4, <1>5, <1>6, <1>7 DEF IInv

LEMMA FeedInv ==
  ASSUME IInv, NEW m \in 0..Len(stream) - decoded, NEW p \in BOOLEAN, Feed(m, p)
  PROVE  IInv'
<1> DEFINE text == Restore(buf \o Decode(m))
<1>1. /\ TypeOK /\ (Untangled => Streaming) /\ state = "streaming"
      /\ decoded' = decoded + m /\ stream' = stream /\ partial' = p
  BY DEF IInv, Feed
<1>2. /\ text \in Seq(Cell) /\ Len(text) \in Nat
      /\ \A i \in 1..Len(text) : text[i] \in Lone =>
           \E t \in Tokens : HoldsLone(t) /\ (Untangled => Answered(t))
  BY <1>1, RestoredText
<1>3. decoded' \in 0..Len(stream) /\ partial' \in BOOLEAN  BY <1>1, StreamCells
<1>4. Untangled /\ state' = "streaming" => Streaming'  BY <1>1, FeedStreams
<1>5. \/ Dangling(text) = {} /\ Return(text, "streaming") /\ buf' = <<>>
      \/ \E i \in Dangling(text) :
           Return(SubSeq(text, 1, i - 1), "streaming") /\ buf' = SubSeq(text, i, Len(text))
  BY FeedReturns
<1> HIDE DEF text
<1>6. ASSUME NEW h \in Seq(Cell), Return(h, "streaming"), buf' \in Seq(Cell), Len(h) <= Len(text),
             \A i \in 1..Len(h) : h[i] = text[i]
      PROVE  IInv'
  <2>1. ~Encodes(h) => \E t \in Tokens : HoldsLone(t) /\ (Untangled => Answered(t))
    <3> SUFFICES ASSUME NEW i \in 1..Len(h), h[i] \in Lone
                 PROVE  \E t \in Tokens : HoldsLone(t) /\ (Untangled => Answered(t))
      BY DEF Encodes
    <3>1. i \in 1..Len(text) /\ text[i] \in Lone  BY <1>2, <1>6, LenProperties
    <3> QED  BY <1>2, <3>1
  <2>2. state' # "flushed"  BY <1>6 DEF Return
  <2> QED  BY <1>1, <1>3, <1>4, <1>6, <2>1, <2>2, ReturnKeeps
<1>7. CASE Return(text, "streaming") /\ buf' = <<>>
  <2>1. <<>> \in Seq(Cell)  BY EmptySeq
  <2> QED  BY <1>2, <1>6, <1>7, <2>1
<1>8. ASSUME NEW i \in Dangling(text), Return(SubSeq(text, 1, i - 1), "streaming"),
             buf' = SubSeq(text, i, Len(text))
      PROVE  IInv'
  <2> DEFINE h == SubSeq(text, 1, i - 1)
  <2>1. i \in 1..Len(text)  BY DEF Dangling
  <2>2. \A j \in 1..Len(text) : text[j] \in Cell  BY <1>2, ElementOfSeq
  <2>3. h \in Seq(Cell) /\ Len(h) = i - 1 /\ \A j \in 1..i - 1 : h[j] = text[j]
    <3>1. 1 \in Int /\ i - 1 \in Int /\ \A j \in 1..i - 1 : text[j] \in Cell
      BY <1>2, <2>1, <2>2
    <3> QED  BY <1>2, <2>1, <3>1, SubSeqProperties
  <2>4. buf' \in Seq(Cell)
    <3>1. i \in Int /\ Len(text) \in Int /\ \A j \in i..Len(text) : text[j] \in Cell
      BY <1>2, <2>1, <2>2
    <3> QED  BY <1>2, <1>8, <2>1, <3>1, SubSeqProperties
  <2>5. Len(h) <= Len(text)  BY <1>2, <2>1, <2>3
  <2>6. Return(h, "streaming")  BY <1>8
  <2> HIDE DEF h
  <2> QED  BY <1>6, <2>3, <2>4, <2>5, <2>6
<1> QED  BY <1>5, <1>7, <1>8

LEMMA FlushInv ==
  ASSUME IInv, Flush
  PROVE  IInv'
<1>1. /\ TypeOK /\ (Untangled => Streaming) /\ state = "streaming" /\ decoded = Len(stream)
      /\ stream' = stream /\ decoded' = decoded /\ partial' = partial
      /\ Return(Restore(buf), "flushed") /\ buf' = <<>>
  BY DEF IInv, Flush
<1>2. /\ stream \in Seq(Cell) /\ Len(stream) \in Nat /\ 0 \in 0..Len(stream) - decoded
      /\ buf \in Seq(Cell) /\ out \in Seq(Cell) /\ decoded \in 0..Len(stream)
  BY <1>1, StreamCells DEF TypeOK
<1>3. SubSeq(stream, 1, decoded + 0) = stream
  BY <1>1, <1>2, SubSeqFull
<1>4. buf \o Decode(0) = buf
  <2>1. Decode(0) = <<>>  BY <1>1, <1>2, SubSeqEmpty DEF Decode
  <2> QED  BY <1>2, <2>1, ConcatEmptySeq
<1> DEFINE text == Restore(buf)
<1>5. /\ text \in Seq(Cell)
      /\ \A i \in 1..Len(text) : text[i] \in Lone =>
           \E t \in Tokens : HoldsLone(t) /\ (Untangled => Answered(t))
  BY <1>1, <1>2, <1>4, RestoredText
<1>6. ~Encodes(text) => \E t \in Tokens : HoldsLone(t) /\ (Untangled => Answered(t))
  <2> HIDE DEF text
  <2> QED  BY <1>5 DEF Encodes
<1>7. Untangled /\ state' = "flushed" => out' = InPlace(stream)
  <2> SUFFICES ASSUME Untangled, state' = "flushed" PROVE out' = InPlace(stream)
    OBVIOUS
  <2>1. ~Tangled(buf) /\ out \o InPlace(buf) = InPlace(stream)
    BY <1>1, <1>2, <1>3, <1>4, FeedRestores
  <2>2. text = InPlace(buf)  BY <2>1 DEF Restore
  <2>3. out' = out \o text
    <3> HIDE DEF text
    <3>1. Return(text, "flushed")  BY <1>1 DEF text
    <3> QED  BY <3>1, Returned
  <2> QED  BY <2>1, <2>2, <2>3
<1>8. state' # "streaming"  BY <1>1 DEF Return
<1>9. buf' \in Seq(Cell) /\ decoded' \in 0..Len(stream) /\ partial' \in BOOLEAN
  BY <1>1, <1>2, EmptySeq DEF TypeOK
<1>10. Return(text, "flushed")  BY <1>1
<1> HIDE DEF text
<1> QED  BY <1>1, <1>5, <1>6, <1>7, <1>8, <1>9, <1>10, ReturnKeeps

LEMMA StepInv == IInv /\ [Next]_vars => IInv'
<1> SUFFICES ASSUME IInv, [Next]_vars PROVE IInv'
  OBVIOUS
<1>1. ASSUME NEW m \in 0..Len(stream) - decoded, NEW p \in BOOLEAN, Feed(m, p)
      PROVE  IInv'
  BY <1>1, FeedInv
<1>2. CASE Flush  BY <1>2, FlushInv
<1>3. ASSUME UNCHANGED <<stream, decoded, partial, buf, out>>, state = "streaming",
             state' = "failed", \E i \in 1..Len(stream) : stream[i] = Bad
      PROVE  IInv'
  <2>1. TypeOK'  BY <1>3 DEF IInv, TypeOK
  <2>2. OnlyBadTextFails'  BY <1>3 DEF OnlyBadTextFails, ValidUtf8
  <2>3. Untangled' => Prefix'
    <3>1. Untangled' = Untangled  BY <1>3 DEF Untangled
    <3>2. Untangled => Prefix  BY <1>3, StreamingIsPrefix DEF IInv
    <3> QED  BY <1>3, <3>1, <3>2 DEF Prefix
  <2> QED  BY <1>3, <2>1, <2>2, <2>3 DEF IInv
<1>4. ASSUME NEW m \in 0..Len(stream) - decoded, FeedFails(m)
      PROVE  IInv'
  <2>1. PICK i \in decoded + 1..decoded + m : stream[i] = Bad
    BY <1>4 DEF FeedFails, Decodable
  <2>2. i \in 1..Len(stream)  BY StreamCells DEF IInv
  <2> QED  BY <1>3, <1>4, <2>1, <2>2 DEF FeedFails
<1>5. CASE FlushFails
  <2>1. decoded + 1 \in 1..Len(stream) /\ stream[decoded + 1] = Bad
    BY <1>5, StreamCells DEF FlushFails, IInv
  <2> QED  BY <1>3, <1>5, <2>1 DEF FlushFails
<1>6. CASE UNCHANGED vars
  <2>1. stream' = stream /\ decoded' = decoded /\ partial' = partial /\ buf' = buf
        /\ out' = out /\ state' = state
    BY <1>6 DEF vars
  <2>2. TypeOK' /\ OnlyBadTextFails'
    BY <2>1 DEF IInv, TypeOK, OnlyBadTextFails, ValidUtf8, Untangled, Answered
  <2>3. (Streaming <=> Streaming') /\ (Prefix <=> Prefix') /\ (Untangled <=> Untangled')
    BY <2>1 DEF Streaming, Decoded, SentBehind, Unclosed, Prefix, Untangled
  <2> QED  BY <2>1, <2>2, <2>3 DEF IInv
<1> QED  BY <1>1, <1>2, <1>4, <1>5, <1>6 DEF Next

LEMMA InvGivesPrefix == IInv => ChunkIndependence
<1> SUFFICES ASSUME IInv, Untangled PROVE out = SubSeq(Restore(stream), 1, Len(out))
  BY DEF ChunkIndependence
<1>1. Restore(stream) = InPlace(stream)  BY DEF Untangled, Restore
<1>2. CASE state = "flushed"
  <2>1. out = InPlace(stream) /\ out \in Seq(Cell)  BY <1>2 DEF IInv, TypeOK
  <2>2. SubSeq(out, 1, Len(out)) = out  BY <2>1, SubSeqFull, LenProperties
  <2> QED  BY <1>1, <2>1, <2>2
<1>3. CASE state = "streaming"
  <2>1. Prefix  BY <1>3, StreamingIsPrefix DEF IInv
  <2> QED  BY <1>1, <2>1 DEF Prefix
<1>4. CASE state = "failed"  BY <1>1, <1>4 DEF IInv, Prefix
<1> QED  BY <1>2, <1>3, <1>4 DEF IInv, TypeOK

-----------------------------------------------------------------------------
(* TypeOK is an invariant of every stream restorer: feed, flush and their  *)
(* failures keep the buffer and the output texts of known cells.           *)
THEOREM RestorerTypes == Spec => []TypeOK
<1>1. IInv => TypeOK  BY DEF IInv
<1> QED  BY InitInv, StepInv, <1>1, PTL DEF Spec

(* INV-3 on the wire: however feed's chunks are cut, the client is sent a  *)
(* prefix of the restored response, and never part of a placeholder whose  *)
(* other part comes later, if the values the response repeats hold no      *)
(* sentinel; what the vault holds besides them does not matter.            *)
THEOREM ChunksDoNotMatter == Spec => []ChunkIndependence
<1> QED  BY InitInv, StepInv, InvGivesPrefix, PTL DEF Spec

(* After flush the client has the whole restored response, under the same  *)
(* condition on the values it repeats.                                     *)
THEOREM FlushCompletes == Spec => []FlushedIsWhole
<1>1. IInv => FlushedIsWhole  BY DEF IInv, FlushedIsWhole, Untangled, Restore
<1> QED  BY InitInv, StepInv, <1>1, PTL DEF Spec

(* Wherever the chunks are cut, feed holds back an unclosed opening        *)
(* sentinel with what is behind it, and nothing else, under the same       *)
(* condition on the values the response repeats.                           *)
THEOREM BufferingIsMinimal == Spec => []OnlyUnclosedIsHeld
<1>1. IInv => OnlyUnclosedIsHeld
  <2> SUFFICES ASSUME IInv, Untangled, state = "streaming"
               PROVE  /\ out \o buf = Restore(Decoded)
                      /\ buf # <<>> => buf[1] = OPEN /\ \A i \in 2..Len(buf) : buf[i] \notin Sentinels
    BY DEF OnlyUnclosedIsHeld, Decoded
  <2>1. Streaming /\ TypeOK  BY DEF IInv
  <2>2. /\ stream \in Seq(Cell) /\ Decoded \in Seq(Cell) /\ Begins(Decoded, stream)
    <3>1. /\ stream \in Seq(Cell) /\ Len(stream) \in Nat /\ decoded \in 0..Len(stream)
          /\ 0 \in 0..Len(stream) - decoded /\ decoded + 0 = decoded
      BY <2>1, StreamCells
    <3>2. /\ Decoded \in Seq(Cell) /\ Len(Decoded) = decoded
          /\ \A i \in 1..decoded : Decoded[i] = stream[i]
      BY <2>1, <3>1, StreamCells DEF Decoded
    <3> QED  BY <3>1, <3>2 DEF Begins
  <2>3. ~Tangled(Decoded)  BY <2>2, PrefixUntangled DEF Untangled
  <2>4. Restore(Decoded) = InPlace(Decoded)  BY <2>3 DEF Restore
  <2> QED  BY <2>1, <2>4 DEF Streaming, Unclosed
<1> QED  BY InitInv, StepInv, <1>1, PTL DEF Spec

(* A response of valid UTF-8 makes feed or flush raise only when it        *)
(* repeats a value that does not encode, or repeats one that holds a       *)
(* sentinel while the vault holds one that does not encode.                *)
THEOREM OnlyBadTextRaises == Spec => []OnlyBadTextFails
<1>1. IInv => OnlyBadTextFails  BY DEF IInv
<1> QED  BY InitInv, StepInv, <1>1, PTL DEF Spec
=============================================================================
