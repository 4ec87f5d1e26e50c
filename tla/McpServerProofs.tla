-------------------------- MODULE McpServerProofs ---------------------------
(***************************************************************************)
(* The audit trail and its summary, for any number of writers, calls,      *)
(* records and short writes, and the answers of the MCP server for any     *)
(* lines.                                                                  *)
(*                                                                         *)
(* The argument for the trail: the file is the records' cells in order but *)
(* for its cuts, the places where a short write ended inside a record.  A  *)
(* cell that is not the last of its record is followed by the next one, or *)
(* is at a cut; one that is not the first follows the one before it, or    *)
(* that one is at a cut.  There are no more cuts than short writes.  The   *)
(* reader always stands at a line end or at a cut, so the only records it  *)
(* can miss are the one cut and the one that comes right after the cut,    *)
(* and two halves can only meet between two cuts.                          *)
(***************************************************************************)
EXTENDS McpServer, FiniteSetTheorems, SequenceTheorems, WellFoundedInduction, TLAPS

LEMMA LeastNumber ==
  ASSUME NEW T \in SUBSET Nat, T # {}
  PROVE  \E m \in T : \A k \in T : m <= k
<1> DEFINE R == OpToRel(<, Nat)
<1>1. IsWellFoundedOn(R, Nat)  BY NatLessThanWellFounded
<1>2. \A x, y \in Nat : <<x, y>> \in R <=> x < y  BY DEF OpToRel
<1> HIDE DEF R
<1>3. PICK m \in T : \A k \in T : ~(<<k, m>> \in R)  BY <1>1, WFMin
<1>4. ASSUME NEW k \in T PROVE m <= k
  <2>1. m \in Nat /\ k \in Nat /\ ~(<<k, m>> \in R)  BY <1>3
  <2> QED  BY <1>2, <2>1
<1> QED  BY <1>4

Cells == UNION {Range(Lines(b)) : b \in UNION {Range(Batches[w]) : w \in Writers}}
Form == Nat \X (1..3)

\* d is the next cell of the record of c.
Cont(c, d) == d[1] = c[1] /\ d[2] = c[2] + 1

\* Where the k-th cell of the lines of a batch comes from.
LEMMA LinesShape ==
  ASSUME NEW b \in Seq(Nat)
  PROVE  /\ Lines(b) \in Seq(Form) /\ Len(Lines(b)) = 3 * Len(b)
         /\ \A i \in 1..Len(Lines(b)) : \E j \in 1..Len(b) : \E k \in 1..3 :
              i = 3 * (j - 1) + k /\ Lines(b)[i] = <<b[j], k>>
         /\ \A j \in 1..Len(b) : \A k \in 1..3 :
              3 * (j - 1) + k \in 1..Len(Lines(b)) /\ Lines(b)[3 * (j - 1) + k] = <<b[j], k>>
<1> DEFINE n == 3 * Len(b)
<1>1. Len(b) \in Nat /\ n \in Nat /\ \A j \in 1..Len(b) : b[j] \in Nat  BY LenProperties, ElementOfSeq
<1>2. ASSUME NEW i \in 1..n
      PROVE  LET j == (i + 2) \div 3
                 k == 1 + ((i - 1) % 3)
             IN  j \in 1..Len(b) /\ k \in 1..3 /\ i = 3 * (j - 1) + k
  BY <1>1
<1>3. ASSUME NEW j \in 1..Len(b), NEW k \in 1..3
      PROVE  LET i == 3 * (j - 1) + k
             IN  i \in 1..n /\ (i + 2) \div 3 = j /\ 1 + ((i - 1) % 3) = k
  BY <1>1
<1>4. \A i \in 1..n : <<b[(i + 2) \div 3], 1 + ((i - 1) % 3)>> \in Form  BY <1>1, <1>2 DEF Form
<1> HIDE DEF n
<1>5. Lines(b) = [i \in 1..n |-> <<b[(i + 2) \div 3], 1 + ((i - 1) % 3)>>]  BY DEF Lines, n
<1>6. Lines(b) \in Seq(Form) /\ Len(Lines(b)) = n
  <2>1. Lines(b) \in [1..n -> Form]  BY <1>4, <1>5
  <2> QED  BY <1>1, <2>1
<1>7. \A i \in 1..n : \E j \in 1..Len(b) : \E k \in 1..3 :
        i = 3 * (j - 1) + k /\ Lines(b)[i] = <<b[j], k>>
  BY <1>2, <1>5
<1>8. \A j \in 1..Len(b) : \A k \in 1..3 :
        3 * (j - 1) + k \in 1..n /\ Lines(b)[3 * (j - 1) + k] = <<b[j], k>>
  BY <1>3, <1>5
<1> QED  BY <1>6, <1>7, <1>8 DEF n

-----------------------------------------------------------------------------
(* The file, its cuts and what the writers still have to put.              *)

Chained(f, C) ==
  /\ C \subseteq 1..Len(f)
  /\ \A p \in 1..Len(f) : f[p][2] < 3 /\ p \notin C => p < Len(f) /\ Cont(f[p], f[p + 1])
  /\ \A p \in 1..Len(f) : f[p][2] > 1 =>
       \E q \in 1..p - 1 : (q = p - 1 \/ q \in C) /\ Cont(f[q], f[p])

\* A buffer s that goes on where the file was cut, or where a record ended.
Resumes(s, f, C) ==
  /\ \A n \in 1..Len(s) : s[n][2] < 3 => n < Len(s) /\ Cont(s[n], s[n + 1])
  /\ \A n \in 1..Len(s) : s[n][2] > 1 =>
       IF n = 1 THEN \E q \in C : Cont(f[q], s[1]) ELSE Cont(s[n - 1], s[n])

Distinct(s) == \A i, j \in 1..Len(s) : s[i] = s[j] => i = j

LEMMA FormOf ==
  ASSUME NEW f \in Seq(Form), NEW p \in 1..Len(f)
  PROVE  f[p][1] \in Nat /\ f[p][2] \in 1..3 /\ f[p] = <<f[p][1], f[p][2]>>
<1>1. f[p] \in Form  BY ElementOfSeq
<1> QED  BY <1>1 DEF Form

LEMMA LinesResume ==
  ASSUME NEW b \in Seq(Nat), Distinct(b), NEW f, NEW C
  PROVE  Resumes(Lines(b), f, C) /\ Distinct(Lines(b))
<1> DEFINE s == Lines(b)
<1>1. /\ Len(b) \in Nat /\ Len(s) = 3 * Len(b)
      /\ \A i \in 1..Len(s) : \E j \in 1..Len(b) : \E k \in 1..3 : i = 3 * (j - 1) + k /\ s[i] = <<b[j], k>>
      /\ \A j \in 1..Len(b) : \A k \in 1..3 :
           3 * (j - 1) + k \in 1..Len(s) /\ s[3 * (j - 1) + k] = <<b[j], k>>
  BY LinesShape, LenProperties
<1> HIDE DEF s
<1>0. Len(b) \in Nat /\ Len(s) \in Nat /\ \A j \in 1..Len(b) : j \in Nat  BY <1>1
<1>2. ASSUME NEW n \in 1..Len(s), s[n][2] < 3 PROVE n < Len(s) /\ Cont(s[n], s[n + 1])
  <2>1. PICK j \in 1..Len(b), k \in 1..3 : n = 3 * (j - 1) + k /\ s[n] = <<b[j], k>>  BY <1>1
  <2>2. k + 1 \in 1..3  BY <1>2, <2>1
  <2>3. 3 * (j - 1) + (k + 1) \in 1..Len(s) /\ s[3 * (j - 1) + (k + 1)] = <<b[j], k + 1>>
    BY <1>1, <2>2
  <2>4. PICK m \in Nat : m = j  BY <1>0
  <2>5. 3 * (j - 1) + (k + 1) = n + 1  BY <2>1, <2>4
  <2>6. n < Len(s)  BY <1>0, <2>3, <2>5
  <2> QED  BY <2>1, <2>3, <2>5, <2>6 DEF Cont
<1>3. ASSUME NEW n \in 1..Len(s), s[n][2] > 1 PROVE n # 1 /\ Cont(s[n - 1], s[n])
  <2>1. PICK j \in 1..Len(b), k \in 1..3 : n = 3 * (j - 1) + k /\ s[n] = <<b[j], k>>  BY <1>1
  <2>2. k - 1 \in 1..3 /\ (k - 1) + 1 = k  BY <1>3, <2>1
  <2>3. 3 * (j - 1) + (k - 1) \in 1..Len(s) /\ s[3 * (j - 1) + (k - 1)] = <<b[j], k - 1>>
    BY <1>1, <2>2
  <2>4. PICK m \in Nat : m = j  BY <1>0
  <2>5. 3 * (j - 1) + (k - 1) = n - 1  BY <2>1, <2>4
  <2>6. n # 1  BY <1>0, <2>3, <2>5
  <2> QED  BY <2>1, <2>2, <2>3, <2>5, <2>6 DEF Cont
<1>4. ASSUME NEW i \in 1..Len(s), NEW j \in 1..Len(s), s[i] = s[j] PROVE i = j
  <2>1. PICK x \in 1..Len(b), k \in 1..3 : i = 3 * (x - 1) + k /\ s[i] = <<b[x], k>>  BY <1>1
  <2>2. PICK y \in 1..Len(b), l \in 1..3 : j = 3 * (y - 1) + l /\ s[j] = <<b[y], l>>  BY <1>1
  <2>3. b[x] = b[y] /\ k = l  BY <1>4, <2>1, <2>2
  <2>4. x = y  BY <2>3 DEF Distinct
  <2> QED  BY <2>1, <2>2, <2>3, <2>4
<1> QED  BY <1>2, <1>3, <1>4 DEF Resumes, Distinct, s

\* The cells a step puts at the end of the file.
LEMMA PutCells ==
  ASSUME NEW E, NEW f \in Seq(E), NEW s \in Seq(E), NEW n \in 1..Len(s)
  PROVE  LET g == f \o SubSeq(s, 1, n)
             t == SubSeq(s, n + 1, Len(s))
         IN  /\ Len(f) \in Nat /\ Len(s) \in Nat
             /\ g \in Seq(E) /\ Len(g) = Len(f) + n
             /\ \A p \in 1..Len(f) : g[p] = f[p]
             /\ \A i \in 1..n : g[Len(f) + i] = s[i]
             /\ t \in Seq(E) /\ Len(t) = Len(s) - n
             /\ \A i \in 1..Len(s) - n : t[i] = s[n + i]
<1>1. Len(f) \in Nat /\ Len(s) \in Nat /\ \A i \in 1..Len(s) : s[i] \in E  BY LenProperties, ElementOfSeq
<1>2. PICK a, t, l : a = SubSeq(s, 1, n) /\ t = SubSeq(s, n + 1, Len(s)) /\ l = Len(s)  OBVIOUS
<1>3. a \in Seq(E) /\ Len(a) = n /\ \A i \in 1..n : a[i] = s[i]
  <2>1. \A i \in 1..n : s[i] \in E  BY <1>1
  <2>2. SubSeq(s, 1, n) \in Seq(E) /\ Len(SubSeq(s, 1, n)) = n
        /\ \A i \in 1..n - 1 + 1 : SubSeq(s, 1, n)[i] = s[1 + i - 1]
    BY <1>1, <2>1, SubSeqProperties
  <2> QED  BY <1>1, <1>2, <2>2
<1>4. t \in Seq(E) /\ Len(t) = l - n /\ \A i \in 1..l - n : t[i] = s[n + i]
  <2>1. \A i \in n + 1..l : s[i] \in E  BY <1>1, <1>2
  <2>2. n + 1 \in Int /\ l \in Int  BY <1>1, <1>2
  <2>3. t \in Seq(E) /\ Len(t) = (IF n + 1 <= l THEN l - (n + 1) + 1 ELSE 0)
        /\ \A i \in 1..l - (n + 1) + 1 : t[i] = s[n + 1 + i - 1]
    BY <1>2, <2>1, <2>2, SubSeqProperties
  <2> QED  BY <1>1, <1>2, <2>3
<1>5. /\ f \o a \in Seq(E) /\ Len(f \o a) = Len(f) + Len(a)
      /\ \A i \in 1..Len(f) + Len(a) : (f \o a)[i] = IF i <= Len(f) THEN f[i] ELSE a[i - Len(f)]
  BY <1>3, ConcatProperties
<1>6. /\ \A p \in 1..Len(f) : p \in 1..Len(f) + n /\ p <= Len(f)
      /\ \A i \in 1..n : Len(f) + i \in 1..Len(f) + n /\ ~(Len(f) + i <= Len(f)) /\ (Len(f) + i) - Len(f) = i
  BY <1>1
<1> QED  BY <1>1, <1>2, <1>3, <1>4, <1>5, <1>6

\* A flush ends at a line end; a short write leaves a cut where it ends.
LEMMA PutChains ==
  ASSUME NEW f \in Seq(Form), NEW s \in Seq(Form), NEW n \in 1..Len(s), NEW C, NEW D,
         Chained(f, C), Resumes(s, f, C),
         C \subseteq D, D \subseteq C \cup {Len(f) + n}, s[n][2] = 3 \/ Len(f) + n \in D
  PROVE  /\ Chained(f \o SubSeq(s, 1, n), D)
         /\ Resumes(SubSeq(s, n + 1, Len(s)), f \o SubSeq(s, 1, n), D)
<1>1. PICK g, t, m : g = f \o SubSeq(s, 1, n) /\ t = SubSeq(s, n + 1, Len(s)) /\ m = Len(f)  OBVIOUS
<1>2. /\ m \in Nat /\ Len(s) \in Nat /\ g \in Seq(Form) /\ Len(g) = m + n
      /\ \A p \in 1..m : g[p] = f[p]
      /\ \A i \in 1..n : g[m + i] = s[i]
      /\ t \in Seq(Form) /\ Len(t) = Len(s) - n
      /\ \A i \in 1..Len(s) - n : t[i] = s[n + i]
  BY <1>1, PutCells, SMTT(30)
<1>3. \A q \in C : q \in 1..m /\ q \in D /\ g[q] = f[q]  BY <1>1, <1>2 DEF Chained
<1>4. D \subseteq 1..Len(g)
  <2>1. m + n \in 1..Len(g) /\ \A q \in 1..m : q \in 1..Len(g)  BY <1>2
  <2> QED  BY <1>1, <1>3, <2>1
<1>5. ASSUME NEW p \in 1..Len(g), g[p][2] < 3, p \notin D
      PROVE  p < Len(g) /\ Cont(g[p], g[p + 1])
  <2>1. CASE p \in 1..m
    <3>1. p \notin C /\ f[p][2] < 3  BY <1>2, <1>3, <1>5, <2>1
    <3>2. p < m /\ Cont(f[p], f[p + 1])  BY <1>1, <2>1, <3>1 DEF Chained
    <3>3. p + 1 \in 1..m /\ p < Len(g)  BY <1>2, <2>1, <3>2, SMTT(30)
    <3> QED  BY <1>2, <2>1, <3>2, <3>3
  <2>2. CASE p \notin 1..m
    <3>1. PICK i \in 1..n : p = m + i  
      <4>1. p - m \in 1..n /\ p = m + (p - m)  BY <1>2, <2>2
      <4> QED  BY <4>1
    <3>2. g[p] = s[i] /\ i \in 1..Len(s)  BY <1>2, <3>1
    <3>3. i < Len(s) /\ Cont(s[i], s[i + 1])  BY <1>5, <3>2 DEF Resumes
    <3>4. i # n  BY <1>1, <1>5, <3>1, <3>2, SMTT(30)
    <3>5. i + 1 \in 1..n /\ p + 1 = m + (i + 1) /\ p < Len(g)  BY <1>2, <3>1, <3>4, SMTT(30)
    <3> QED  BY <1>2, <3>2, <3>3, <3>5, SMTT(30)
  <2> QED  BY <2>1, <2>2
<1>6. ASSUME NEW p \in 1..Len(g), g[p][2] > 1
      PROVE  \E q \in 1..p - 1 : (q = p - 1 \/ q \in D) /\ Cont(g[q], g[p])
  <2>1. CASE p \in 1..m
    <3>1. PICK q \in 1..p - 1 : (q = p - 1 \/ q \in C) /\ Cont(f[q], f[p])
      BY <1>1, <1>2, <1>6, <2>1 DEF Chained
    <3>2. q \in 1..m  BY <1>2, <2>1
    <3> QED  BY <1>2, <1>3, <2>1, <3>1, <3>2
  <2>2. CASE p \notin 1..m
    <3>1. PICK i \in 1..n : p = m + i  
      <4>1. p - m \in 1..n /\ p = m + (p - m)  BY <1>2, <2>2
      <4> QED  BY <4>1
    <3>2. g[p] = s[i] /\ i \in 1..Len(s) /\ s[i][2] > 1  BY <1>2, <1>6, <3>1
    <3>3. CASE i = 1
      <4>1. PICK q \in C : Cont(f[q], s[1])  BY <3>2, <3>3 DEF Resumes
      <4>2. q \in 1..p - 1 /\ q \in D /\ g[q] = f[q]  BY <1>2, <1>3, <3>1
      <4> QED  BY <3>2, <3>3, <4>1, <4>2
    <3>4. CASE i # 1
      <4>1. Cont(s[i - 1], s[i])  BY <3>2, <3>4 DEF Resumes
      <4>2. i - 1 \in 1..n /\ p - 1 = m + (i - 1) /\ p - 1 \in 1..p - 1  BY <1>2, <3>1, <3>4
      <4> QED  BY <1>2, <3>2, <4>1, <4>2
    <3> QED  BY <3>3, <3>4
  <2> QED  BY <2>1, <2>2
<1>7. ASSUME NEW i \in 1..Len(t) PROVE t[i] = s[n + i] /\ n + i \in 1..Len(s) /\ i \in Nat /\ n + i # 1
  <2>1. i \in 1..Len(s) - n /\ n \in Nat /\ i \in Nat  BY <1>2
  <2>2. n + i \in 1..Len(s) /\ n + i # 1  BY <1>2, <2>1
  <2> QED  BY <1>2, <2>1, <2>2
<1>8. ASSUME NEW i \in 1..Len(t) PROVE t[i][2] \in 1..3
  <2>1. t \in Seq(Form)  BY <1>2
  <2> QED  BY <2>1, FormOf
<1>9. ASSUME NEW i \in 1..Len(t), t[i][2] < 3 PROVE i < Len(t) /\ Cont(t[i], t[i + 1])
  <2>1. t[i] = s[n + i] /\ n + i \in 1..Len(s) /\ i \in Nat  BY <1>7
  <2>2. n + i < Len(s) /\ Cont(s[n + i], s[(n + i) + 1])  BY <1>9, <2>1 DEF Resumes
  <2>3. i < Len(t) /\ i + 1 \in 1..Len(s) - n /\ n + (i + 1) = (n + i) + 1  BY <1>2, <2>1, <2>2
  <2>4. t[i + 1] = s[n + (i + 1)]  BY <1>2, <2>3
  <2> QED  BY <2>1, <2>2, <2>3, <2>4
<1>10. ASSUME NEW i \in 1..Len(t), t[i][2] > 1
      PROVE  IF i = 1 THEN \E q \in D : Cont(g[q], t[1]) ELSE Cont(t[i - 1], t[i])
  <2>1. t[i] = s[n + i] /\ n + i \in 1..Len(s) /\ i \in Nat /\ n + i # 1  BY <1>7
  <2>2. Cont(s[(n + i) - 1], s[n + i])  BY <1>10, <2>1 DEF Resumes
  <2>3. CASE i = 1
    <3>1. (n + i) - 1 = n  BY <1>2, <2>3
    <3>2. Cont(s[n], t[1])  BY <2>1, <2>2, <2>3, <3>1
    <3>3. s[n][2] # 3
      <4>1. t[i][2] \in 1..3  BY <1>8
      <4>2. s[n][2] \in 1..3  BY FormOf
      <4> QED  BY <2>3, <3>2, <4>1, <4>2 DEF Cont
    <3>4. m + n \in D /\ g[m + n] = s[n]
      <4>1. n \in 1..n  BY <1>2
      <4>2. m + n \in D  BY <1>1, <3>3
      <4> QED  BY <1>2, <4>1, <4>2
    <3> QED  BY <2>3, <3>2, <3>4
  <2>4. CASE i # 1
    <3>1. i \in 1..Len(s) - n /\ n \in Nat /\ Len(s) \in Nat  BY <1>2
    <3>2. i - 1 \in 1..Len(s) - n /\ n + (i - 1) = (n + i) - 1  BY <2>4, <3>1
    <3> QED  BY <1>2, <2>1, <2>2, <2>4, <3>2
  <2> QED  BY <2>3, <2>4
<1>11. Chained(g, D)  BY <1>4, <1>5, <1>6 DEF Chained
<1>12. Resumes(t, g, D)  BY <1>9, <1>10 DEF Resumes
<1> QED  BY <1>1, <1>11, <1>12

\* The buffers of the others are not concerned.
LEMMA OthersResume ==
  ASSUME NEW f, NEW g, NEW s, NEW C, NEW D, Resumes(s, f, C), C \subseteq D,
         \A q \in C : g[q] = f[q]
  PROVE  Resumes(s, g, D)
<1>1. ASSUME NEW n \in 1..Len(s), s[n][2] > 1
      PROVE  IF n = 1 THEN \E q \in D : Cont(g[q], s[1]) ELSE Cont(s[n - 1], s[n])
  <2>1. CASE n = 1
    <3>1. PICK q \in C : Cont(f[q], s[1])  BY <1>1, <2>1 DEF Resumes
    <3> QED  BY <2>1, <3>1
  <2>2. CASE n # 1  BY <1>1, <2>2 DEF Resumes
  <2> QED  BY <2>1, <2>2
<1> QED  BY <1>1 DEF Resumes

-----------------------------------------------------------------------------
(* The trail.                                                              *)

\* The record r is of the i-th call of the writer w.
From(r, w, i) == i \in DOMAIN Batches[w] /\ \E j \in DOMAIN Batches[w][i] : Batches[w][i][j] = r
Begun(w) == Len(Batches[w]) - Len(left[w])

LeftInv ==
  /\ left \in [Writers -> Seq(Seq(Nat))]
  /\ \A w \in Writers :
       /\ Len(left[w]) <= Len(Batches[w])
       /\ \A i \in 1..Len(left[w]) : left[w][i] = Batches[w][Begun(w) + i]

FileInv(C) ==
  /\ file \in Seq(Cells) /\ pending \in [Writers -> Seq(Cells)]
  /\ Chained(file, C) /\ \A w \in Writers : Resumes(pending[w], file, C)
  /\ IsFiniteSet(C) /\ tears \in 0..MaxTears /\ Cardinality(C) <= tears

ApartInv ==
  /\ Distinct(file) /\ \A w \in Writers : Distinct(pending[w])
  /\ \A p \in 1..Len(file) : \E w \in Writers : \E i \in 1..Begun(w) : From(file[p][1], w, i)
  /\ \A w \in Writers : \A n \in 1..Len(pending[w]) :
       /\ From(pending[w][n][1], w, Begun(w))
       /\ \A p \in 1..Len(file) : file[p] # pending[w][n]

\* The records the cuts C may cost a reader.
Hurt(f, C) == {f[p][1] : p \in C} \cup {f[p + 1][1] : p \in {q \in C : q < Len(f)}}

ReadInv(C) ==
  /\ reading \in BOOLEAN /\ pos \in 0..Len(file) /\ since \in 0..Len(file)
  /\ ~reading => since <= pos
  /\ pos = 0 \/ file[pos][2] = 3 \/ pos \in C
  /\ rows \in Seq(Cells \X Cells) /\ Distinct(rows)
  /\ \A i \in 1..Len(rows) : \E p \in 1..pos - 1 :
       rows[i] = <<file[p], file[p + 1]>> /\ file[p][2] = 1 /\ file[p + 1][2] = 2
  /\ \A j \in 1..pos : file[j][2] = 3 =>
       file[j][1] \in Hurt(file, C) \/ \E i \in 1..Len(rows) : rows[i][1][1] = file[j][1]

Trail(C) == LeftInv /\ FileInv(C) /\ ApartInv /\ ReadInv(C)
TrailInv == \E C : Trail(C)

LEMMA BatchTyped ==
  ASSUME NEW w \in Writers
  PROVE  /\ Batches[w] \in Seq(Seq(Nat)) /\ Len(Batches[w]) \in Nat /\ DOMAIN Batches[w] = 1..Len(Batches[w])
         /\ \A i \in 1..Len(Batches[w]) :
              /\ Batches[w][i] \in Seq(Nat) /\ DOMAIN Batches[w][i] = 1..Len(Batches[w][i])
              /\ Distinct(Batches[w][i]) /\ Lines(Batches[w][i]) \in Seq(Cells)
<1> DEFINE S == Seq(Nat)
<1>1. Batches[w] \in Seq(S)  BY BatchesAreSequences
<1> HIDE DEF S
<1>2. Len(Batches[w]) \in Nat /\ DOMAIN Batches[w] = 1..Len(Batches[w])  BY <1>1, LenProperties
<1>3. ASSUME NEW i \in 1..Len(Batches[w])
      PROVE  /\ Batches[w][i] \in Seq(Nat) /\ DOMAIN Batches[w][i] = 1..Len(Batches[w][i])
             /\ Distinct(Batches[w][i]) /\ Lines(Batches[w][i]) \in Seq(Cells)
  <2>1. Batches[w][i] \in S  BY <1>1, ElementOfSeq
  <2>2. PICK b : b = Batches[w][i]  OBVIOUS
  <2>3. b \in Seq(Nat) /\ DOMAIN b = 1..Len(b)  BY <2>1, <2>2, LenProperties DEF S
  <2>4. Distinct(b)  BY <1>2, <2>2, <2>3, RecordsAreNamedApart, SMTT(30) DEF Distinct
  <2>5. Lines(b) \in Seq(Form)  BY <2>3, LinesShape
  <2>6. Lines(b) \in Seq(Range(Lines(b)))  BY <2>5, SeqOfRange
  <2>7. Range(Lines(b)) \subseteq Cells
    <3>1. b \in Range(Batches[w])  BY <1>2, <2>2 DEF Range
    <3> QED  BY <3>1 DEF Cells
  <2>8. Lines(b) \in Seq(Cells)  BY <2>6, <2>7, SeqMonotonic
  <2> QED  BY <2>2, <2>3, <2>4, <2>8
<1> QED  BY <1>1, <1>2, <1>3 DEF S

LEMMA CellsHaveForm == Cells \subseteq Form
<1> SUFFICES ASSUME NEW c \in Cells PROVE c \in Form  OBVIOUS
<1>1. PICK w \in Writers : \E b \in Range(Batches[w]) : c \in Range(Lines(b))  BY DEF Cells
<1>2. PICK b \in Range(Batches[w]) : c \in Range(Lines(b))  BY <1>1
<1>3. PICK i \in DOMAIN Batches[w] : b = Batches[w][i]  BY DEF Range
<1>4. b \in Seq(Nat)  BY <1>3, BatchTyped
<1>5. Lines(b) \in Seq(Form)  BY <1>4, LinesShape
<1> QED  BY <1>2, <1>5, RangeOfSeq

\* A record is of one call of one writer.
LEMMA OneOrigin ==
  ASSUME NEW r, NEW v \in Writers, NEW w \in Writers, NEW i, NEW k, From(r, v, i), From(r, w, k)
  PROVE  v = w /\ i = k
BY RecordsAreNamedApart DEF From

LEMMA BegunGrows ==
  ASSUME LeftInv, NEW w \in Writers
  PROVE  Begun(w) \in 0..Len(Batches[w]) /\ Len(left[w]) \in Nat
<1> DEFINE S == Seq(Nat)
<1>1. left[w] \in Seq(S)  BY DEF LeftInv
<1> HIDE DEF S
<1>2. Len(left[w]) \in Nat  BY <1>1, LenProperties
<1> QED  BY <1>2, BatchTyped DEF LeftInv, Begun

LEMMA TrailInit1 == TrailInit => TrailInv
<1> SUFFICES ASSUME TrailInit PROVE Trail({})  BY DEF TrailInv
<1>1. LeftInv
  <2>1. \A w \in Writers : Len(left[w]) = Len(Batches[w]) /\ Begun(w) = 0 /\ left[w] = Batches[w]
    BY BatchTyped DEF TrailInit, Begun
  <2>2. \A w \in Writers : Len(Batches[w]) \in Nat  BY BatchTyped
  <2> QED  BY <2>1, <2>2, BatchesAreSequences DEF TrailInit, LeftInv
<1>2. Len(file) = 0 /\ \A w \in Writers : pending[w] = <<>> /\ Len(pending[w]) = 0
  BY DEF TrailInit
<1>3. FileInv({})
  <2>1. file \in Seq(Cells) /\ pending \in [Writers -> Seq(Cells)]  BY DEF TrailInit
  <2> QED  BY <1>2, <2>1, FS_EmptySet, BatchesAreSequences DEF TrailInit, FileInv, Chained, Resumes
<1>4. ApartInv  BY <1>2 DEF ApartInv, Distinct
<1>5. ReadInv({})
  <2>1. rows \in Seq(Cells \X Cells) /\ Len(rows) = 0  BY DEF TrailInit
  <2>2. reading = FALSE /\ pos = 0 /\ since = 0  BY DEF TrailInit
  <2>3. \A i \in 1..Len(rows) : FALSE  BY <2>1
  <2>4. Distinct(rows)  BY <2>3 DEF Distinct
  <2>5. \A j \in 1..pos : FALSE  BY <2>2
  <2>6. 0 \in 0..Len(file)  BY <1>2
  <2>7. reading \in BOOLEAN /\ pos \in 0..Len(file) /\ since \in 0..Len(file) /\ since <= pos
    <3>1. reading \in BOOLEAN  BY <2>2
    <3>2. pos \in 0..Len(file) /\ since \in 0..Len(file)  BY <1>2, <2>2
    <3>3. since <= pos  BY <2>2
    <3> QED  BY <3>1, <3>2, <3>3
  <2> QED  BY <2>1, <2>2, <2>3, <2>4, <2>5, <2>7 DEF ReadInv
<1> QED  BY <1>1, <1>3, <1>4, <1>5 DEF Trail

LEMMA WriteKeeps ==
  ASSUME NEW C, Trail(C), NEW w \in Writers, Write(w)
  PROVE  Trail(C)'
<1> DEFINE k == Begun(w) + 1
           b == Batches[w][k]
<1>1. /\ file' = file /\ tears' = tears /\ reading' = reading /\ pos' = pos /\ since' = since /\ rows' = rows
      /\ left' = [left EXCEPT ![w] = Tail(@)] /\ left[w] # <<>>
      /\ pending' = [pending EXCEPT ![w] = Lines(Head(left[w]))]
  BY DEF Write, NotReading
<1>2. LeftInv /\ FileInv(C) /\ ApartInv /\ ReadInv(C)  BY DEF Trail
<1> DEFINE S == Seq(Nat)
<1>3. /\ left \in [Writers -> Seq(S)] /\ left[w] \in Seq(S)
      /\ Len(left[w]) \in Nat /\ Len(left[w]) # 0
      /\ Head(left[w]) = left[w][1] /\ Tail(left[w]) \in Seq(S) /\ Len(Tail(left[w])) = Len(left[w]) - 1
      /\ \A i \in 1..Len(left[w]) - 1 : Tail(left[w])[i] = left[w][i + 1]
  <2>1. left \in [Writers -> Seq(S)] /\ left[w] \in Seq(S)  BY <1>2 DEF LeftInv
  <2> HIDE DEF S
  <2>2. Len(left[w]) \in Nat \ {0}  BY <1>1, <2>1, EmptySeq
  <2>3. /\ Tail(left[w]) \in Seq(S) /\ Len(Tail(left[w])) = Len(left[w]) - 1
        /\ \A i \in 1..Len(Tail(left[w])) : Tail(left[w])[i] = left[w][i + 1]
    BY <1>1, <2>1, HeadTailProperties
  <2>4. Head(left[w]) = left[w][1]  BY <2>1
  <2> QED  BY <2>1, <2>2, <2>3, <2>4
<1>4. Len(Batches[w]) \in Nat /\ Begun(w) \in Nat /\ Len(left[w]) = Len(Batches[w]) - Begun(w)
  <2>1. Len(Batches[w]) \in Nat  BY BatchTyped
  <2>2. Begun(w) \in 0..Len(Batches[w])  BY <1>2, BegunGrows
  <2>3. PICK x, y : x = Len(Batches[w]) /\ y = Len(left[w])  OBVIOUS
  <2>4. x \in Nat /\ y \in Nat /\ Begun(w) = x - y  BY <1>3, <2>1, <2>3 DEF Begun
  <2> QED  BY <2>1, <2>2, <2>3, <2>4
<1>5. k \in 1..Len(Batches[w]) /\ Head(left[w]) = b
  BY <1>2, <1>3, <1>4 DEF LeftInv
<1>6. b \in Seq(Nat) /\ Distinct(b) /\ Lines(b) \in Seq(Cells)  BY <1>5, BatchTyped
<1>7. left'[w] = Tail(left[w]) /\ \A v \in Writers : v # w => left'[v] = left[v]
  BY <1>1, <1>3
<1>8. pending'[w] = Lines(b) /\ \A v \in Writers : v # w => pending'[v] = pending[v]
  BY <1>1, <1>2, <1>5 DEF FileInv
<1>9. Begun(w)' = k /\ \A v \in Writers : v # w => Begun(v)' = Begun(v)
  <2>1. PICK x, y, z : x = Len(Batches[w]) /\ y = Len(left[w]) /\ z = Len(left'[w])  OBVIOUS
  <2>2. x \in Nat /\ y \in Nat /\ z = y - 1  BY <1>3, <1>4, <1>7, <2>1
  <2>3. Begun(w) = x - y /\ Begun(w)' = x - z  BY <2>1 DEF Begun
  <2>4. Begun(w)' = k  BY <2>2, <2>3
  <2> QED  BY <1>7, <2>4 DEF Begun
<1>10. LeftInv'
  <2>1. left' \in [Writers -> Seq(S)]
    <3> HIDE DEF S
    <3> QED  BY <1>1, <1>3
  <2>2. ASSUME NEW v \in Writers
        PROVE  /\ Len(left'[v]) <= Len(Batches[v])
               /\ \A i \in 1..Len(left'[v]) : left'[v][i] = Batches[v][Begun(v)' + i]
    <3>1. CASE v # w  BY <1>2, <1>7, <1>9, <3>1 DEF LeftInv
    <3>2. CASE v = w
      <4>1. Len(left'[w]) = Len(left[w]) - 1  BY <1>3, <1>7
      <4>2. ASSUME NEW i \in 1..Len(left'[w]) PROVE left'[w][i] = Batches[w][Begun(w)' + i]
        <5>1. i \in 1..Len(left[w]) - 1 /\ i + 1 \in 1..Len(left[w]) /\ Begun(w) + (i + 1) = k + i
          <6>1. PICK x, y : x = Len(left[w]) /\ y = Begun(w)  OBVIOUS
          <6>2. x \in Nat /\ y \in Nat /\ i \in 1..x - 1  BY <1>3, <1>4, <4>1, <6>1
          <6> QED  BY <6>1, <6>2
        <5>2. left'[w][i] = left[w][i + 1]  BY <1>3, <1>7, <5>1
        <5>3. left[w][i + 1] = Batches[w][Begun(w) + (i + 1)]  BY <1>2, <5>1 DEF LeftInv
        <5> QED  BY <1>9, <5>1, <5>2, <5>3
      <4> QED  BY <1>3, <1>4, <3>2, <4>1, <4>2
    <3> QED  BY <3>1, <3>2
  <2> QED  BY <2>1, <2>2 DEF LeftInv
<1> HIDE DEF b, k
<1>11. FileInv(C)'
  <2>1. pending' \in [Writers -> Seq(Cells)]  BY <1>1, <1>2, <1>5, <1>6 DEF FileInv
  <2>2. ASSUME NEW v \in Writers PROVE Resumes(pending'[v], file, C)
    <3>1. CASE v = w  BY <1>6, <1>8, <3>1, LinesResume
    <3>2. CASE v # w  BY <1>2, <1>8, <3>2 DEF FileInv
    <3> QED  BY <3>1, <3>2
  <2> QED  BY <1>1, <1>2, <2>1, <2>2 DEF FileInv
<1>12. ASSUME NEW n \in 1..Len(Lines(b)) PROVE From(Lines(b)[n][1], w, k)
  <2>1. PICK j \in 1..Len(b), l \in 1..3 : Lines(b)[n] = <<b[j], l>>  BY <1>6, LinesShape
  <2>2. Lines(b)[n][1] = b[j]  BY <2>1
  <2>3. k \in DOMAIN Batches[w] /\ j \in DOMAIN Batches[w][k]  BY <1>5, BatchTyped DEF b
  <2> QED  BY <2>2, <2>3 DEF From, b
<1>13. ApartInv'
  <2>1. \A v \in Writers : Distinct(pending'[v])
    BY <1>2, <1>6, <1>8, LinesResume DEF ApartInv
  <2>2. \A v \in Writers : \A i \in 1..Begun(v) : i \in 1..Begun(v)'
    <3>1. \A v \in Writers : Begun(v) \in Nat  BY <1>2, BegunGrows
    <3>2. \A v \in Writers : Begun(v)' = Begun(v) \/ Begun(v)' = Begun(v) + 1  BY <1>9 DEF k
    <3> QED  BY <3>1, <3>2
  <2>3. \A p \in 1..Len(file) : \E v \in Writers : \E i \in 1..Begun(v)' : From(file[p][1], v, i)
    BY <1>2, <2>2 DEF ApartInv
  <2>4. ASSUME NEW v \in Writers, NEW n \in 1..Len(pending'[v])
        PROVE  /\ From(pending'[v][n][1], v, Begun(v)')
               /\ \A p \in 1..Len(file) : file[p] # pending'[v][n]
    <3>1. CASE v # w  BY <1>2, <1>8, <1>9, <3>1 DEF ApartInv
    <3>2. CASE v = w
      <4>1. From(pending'[w][n][1], w, k)  BY <1>8, <1>12, <3>2
      <4>2. ASSUME NEW p \in 1..Len(file), file[p] = pending'[w][n] PROVE FALSE
        <5>1. PICK u \in Writers : \E i \in 1..Begun(u) : From(file[p][1], u, i)  BY <1>2 DEF ApartInv
        <5>2. PICK i \in 1..Begun(u) : From(file[p][1], u, i)  BY <5>1
        <5>3. u = w /\ i = k  BY <4>1, <4>2, <5>2, OneOrigin
        <5> QED  BY <1>4, <5>3 DEF k
      <4> QED  BY <1>9, <3>2, <4>1, <4>2
    <3> QED  BY <3>1, <3>2
  <2> QED  BY <1>1, <1>2, <2>1, <2>3, <2>4 DEF ApartInv
<1>14. ReadInv(C)'
  <2>1. Hurt(file, C)' = Hurt(file, C)  BY <1>1 DEF Hurt
  <2> QED  BY <1>1, <1>2, <2>1 DEF ReadInv
<1> QED  BY <1>10, <1>11, <1>13, <1>14 DEF Trail

\* Which writers' records stand where, once w has put n cells.
LEMMA PutKeepsApart ==
  ASSUME LeftInv, ApartInv, NEW w \in Writers, NEW n \in 1..Len(pending[w]), Put(w, n),
         file \in Seq(Cells), pending \in [Writers -> Seq(Cells)]
  PROVE  ApartInv'
<1>1. PICK f, s, g, t, m :
        /\ f = file /\ s = pending[w] /\ m = Len(file)
        /\ g = f \o SubSeq(s, 1, n) /\ t = SubSeq(s, n + 1, Len(s))
  OBVIOUS
<1>2. /\ file' = g /\ left' = left /\ pending' = [pending EXCEPT ![w] = t]  BY <1>1 DEF Put
<1>3. pending'[w] = t /\ \A v \in Writers : v # w => pending'[v] = pending[v]  BY <1>2
<1>4. f \in Seq(Cells) /\ s \in Seq(Cells) /\ n \in 1..Len(s)  BY <1>1
<1>5. /\ m \in Nat /\ Len(s) \in Nat /\ Len(g) = m + n
      /\ \A p \in 1..m : g[p] = f[p]
      /\ \A i \in 1..n : g[m + i] = s[i]
      /\ Len(t) = Len(s) - n
      /\ \A i \in 1..Len(s) - n : t[i] = s[n + i]
  BY <1>1, <1>4, PutCells
<1>6. /\ Distinct(f) /\ Distinct(s)
      /\ \A p \in 1..m : \E v \in Writers : \E i \in 1..Begun(v) : From(f[p][1], v, i)
      /\ \A i \in 1..Len(s) : From(s[i][1], w, Begun(w))
      /\ \A i \in 1..Len(s), p \in 1..m : f[p] # s[i]
  BY <1>1 DEF ApartInv
<1>7. \A v \in Writers : Begun(v)' = Begun(v)  BY <1>2 DEF Begun
<1>8. Begun(w) \in 1..Begun(w)
  <2>1. From(s[n][1], w, Begun(w))  BY <1>4, <1>6
  <2>2. Begun(w) \in DOMAIN Batches[w]  BY <2>1 DEF From
  <2>3. Begun(w) \in 1..Len(Batches[w])  BY <2>2, BatchTyped
  <2> QED  BY <2>3, BatchTyped
<1>9. ASSUME NEW p \in 1..Len(g)
      PROVE  \/ p \in 1..m /\ g[p] = f[p]
             \/ \E i \in 1..n : p = m + i /\ i \in 1..Len(s) /\ g[p] = s[i]
  <2>1. CASE p \in 1..m  BY <1>5, <2>1
  <2>2. CASE p \notin 1..m
    <3>1. p - m \in 1..n /\ p = m + (p - m) /\ p - m \in 1..Len(s)  BY <1>5, <2>2
    <3>2. g[m + (p - m)] = s[p - m]  BY <1>5, <3>1
    <3> QED  BY <3>1, <3>2
  <2> QED  BY <2>1, <2>2
<1>10. ASSUME NEW i \in 1..Len(t) PROVE n + i \in 1..Len(s) /\ t[i] = s[n + i] /\ i \in Nat /\ i > 0
  <2>1. i \in 1..Len(s) - n /\ n \in Nat  BY <1>5
  <2>2. n + i \in 1..Len(s)  BY <1>5, <2>1
  <2> QED  BY <1>5, <2>1, <2>2
<1>11. Distinct(g)
  <2> SUFFICES ASSUME NEW p \in 1..Len(g), NEW q \in 1..Len(g), g[p] = g[q] PROVE p = q  BY DEF Distinct
  <2>1. CASE p \in 1..m /\ g[p] = f[p] /\ q \in 1..m /\ g[q] = f[q]
    BY <1>1, <1>6, <2>1 DEF Distinct
  <2>2. CASE \E i \in 1..n : p = m + i /\ i \in 1..Len(s) /\ g[p] = s[i]
    <3>1. PICK i \in 1..n : p = m + i /\ i \in 1..Len(s) /\ g[p] = s[i]  BY <2>2
    <3>2. PICK j \in 1..n : q = m + j /\ j \in 1..Len(s) /\ g[q] = s[j]  BY <1>6, <1>9, <3>1
    <3> QED  BY <1>6, <3>1, <3>2 DEF Distinct
  <2>3. CASE \E j \in 1..n : q = m + j /\ j \in 1..Len(s) /\ g[q] = s[j]
    <3>1. PICK j \in 1..n : q = m + j /\ j \in 1..Len(s) /\ g[q] = s[j]  BY <2>3
    <3>2. PICK i \in 1..n : p = m + i /\ i \in 1..Len(s) /\ g[p] = s[i]  BY <1>6, <1>9, <3>1
    <3> QED  BY <1>6, <3>1, <3>2 DEF Distinct
  <2> QED  BY <1>9, <2>1, <2>2, <2>3
<1>12. ASSUME NEW v \in Writers PROVE Distinct(pending'[v])
  <2>1. CASE v # w  BY <1>3, <2>1 DEF ApartInv
  <2>2. CASE v = w
    <3>1. ASSUME NEW i \in 1..Len(t), NEW j \in 1..Len(t), t[i] = t[j] PROVE i = j
      <4>1. n + i \in 1..Len(s) /\ n + j \in 1..Len(s) /\ s[n + i] = s[n + j] /\ i \in Nat /\ j \in Nat
        BY <1>10, <3>1
      <4>2. n + i = n + j  BY <1>6, <4>1 DEF Distinct
      <4> QED  BY <4>1, <4>2
    <3> QED  BY <1>3, <2>2, <3>1 DEF Distinct
  <2> QED  BY <2>1, <2>2
<1>13. \A p \in 1..Len(g) : \E v \in Writers : \E i \in 1..Begun(v) : From(g[p][1], v, i)
  BY <1>6, <1>8, <1>9
<1>14. ASSUME NEW v \in Writers, NEW j \in 1..Len(pending'[v])
       PROVE  /\ From(pending'[v][j][1], v, Begun(v))
              /\ \A p \in 1..Len(g) : g[p] # pending'[v][j]
  <2>1. CASE v = w
    <3>1. n + j \in 1..Len(s) /\ pending'[v][j] = s[n + j] /\ j \in Nat /\ j > 0  BY <1>3, <1>10, <2>1
    <3>2. ASSUME NEW p \in 1..Len(g), g[p] = s[n + j] PROVE FALSE
      <4>1. PICK i \in 1..n : i \in 1..Len(s) /\ s[i] = s[n + j]  BY <1>6, <1>9, <3>1, <3>2, SMTT(30)
      <4>2. i = n + j  BY <1>6, <3>1, <4>1 DEF Distinct
      <4> QED  BY <1>5, <3>1, <4>2
    <3> QED  BY <1>6, <2>1, <3>1, <3>2
  <2>2. CASE v # w
    <3>1. /\ pending'[v] = pending[v] /\ From(pending'[v][j][1], v, Begun(v))
          /\ \A p \in 1..m : f[p] # pending'[v][j]
      BY <1>1, <1>3, <2>2 DEF ApartInv
    <3>2. ASSUME NEW p \in 1..Len(g), g[p] = pending'[v][j] PROVE FALSE
      <4>1. PICK i \in 1..n : i \in 1..Len(s) /\ g[p] = s[i]  BY <1>9, <3>1, <3>2
      <4>2. From(g[p][1], w, Begun(w))  BY <1>6, <4>1
      <4> QED  BY <2>2, <3>1, <3>2, <4>2, OneOrigin
    <3> QED  BY <3>1, <3>2
  <2> QED  BY <2>1, <2>2
<1> QED  BY <1>2, <1>7, <1>11, <1>12, <1>13, <1>14 DEF ApartInv

\* More cuts and a longer file cost a reader no less.
LEMMA ReaderStays ==
  ASSUME NEW C, NEW D, ReadInv(C), Chained(file, C), C \subseteq D, Len(file) \in Nat, Len(file') \in Nat,
         Len(file) <= Len(file'), \A p \in 1..Len(file) : file'[p] = file[p],
         UNCHANGED <<reading, pos, since, rows>>
  PROVE  ReadInv(D)'
<1>1. pos \in Nat /\ pos <= Len(file) /\ since \in Nat /\ since <= Len(file)  BY DEF ReadInv
<1>2. \A p \in 1..pos : p \in 1..Len(file) /\ file'[p] = file[p]  BY <1>1
<1>3. ASSUME NEW r \in Hurt(file, C) PROVE r \in Hurt(file', D)
  <2>1. CASE \E p \in C : r = file[p][1]
    <3>1. PICK p \in C : r = file[p][1]  BY <2>1
    <3>2. p \in 1..Len(file) /\ p \in D /\ r = file'[p][1]  BY <3>1 DEF Chained
    <3> QED  BY <3>2 DEF Hurt
  <2>2. CASE \E p \in {q \in C : q < Len(file)} : r = file[p + 1][1]
    <3>1. PICK p \in {q \in C : q < Len(file)} : r = file[p + 1][1]  BY <2>2
    <3>2. p \in 1..Len(file) /\ p + 1 \in 1..Len(file) /\ p \in D /\ p < Len(file')  BY <3>1 DEF Chained
    <3>3. r = file'[p + 1][1]  BY <3>1, <3>2
    <3>4. p \in {q \in D : q < Len(file')}  BY <3>2
    <3> QED  BY <3>3, <3>4 DEF Hurt
  <2> QED  BY <2>1, <2>2 DEF Hurt
<1>4. pos \in 0..Len(file') /\ since \in 0..Len(file')  BY <1>1
<1>5. pos = 0 \/ file'[pos][2] = 3 \/ pos \in D
  <2>1. pos # 0 => pos \in 1..pos  BY <1>1
  <2> QED  BY <1>2, <2>1 DEF ReadInv
<1>6. ASSUME NEW i \in 1..Len(rows)
      PROVE  \E p \in 1..pos - 1 :
               rows[i] = <<file'[p], file'[p + 1]>> /\ file'[p][2] = 1 /\ file'[p + 1][2] = 2
  <2>1. PICK p \in 1..pos - 1 :
               rows[i] = <<file[p], file[p + 1]>> /\ file[p][2] = 1 /\ file[p + 1][2] = 2
    BY DEF ReadInv
  <2>2. p \in 1..pos /\ p + 1 \in 1..pos  BY <1>1
  <2> QED  BY <1>2, <2>1, <2>2
<1>7. ASSUME NEW j \in 1..pos, file'[j][2] = 3
      PROVE  file'[j][1] \in Hurt(file', D) \/ \E i \in 1..Len(rows) : rows[i][1][1] = file'[j][1]
  <2>1. file'[j] = file[j]  BY <1>2
  <2> QED  BY <1>3, <1>7, <2>1 DEF ReadInv
<1>8. Hurt(file, D)' = Hurt(file', D)  BY DEF Hurt
<1> QED  BY <1>4, <1>5, <1>6, <1>7, <1>8 DEF ReadInv

LEMMA PutKeeps ==
  ASSUME NEW C, NEW D, Trail(C), NEW w \in Writers, NEW n \in 1..Len(pending[w]), Put(w, n),
         C \subseteq D, D \subseteq C \cup {Len(file) + n},
         pending[w][n][2] = 3 \/ Len(file) + n \in D,
         IsFiniteSet(D), tears' \in 0..MaxTears, Cardinality(D) <= tears'
  PROVE  Trail(D)'
<1>1. LeftInv /\ FileInv(C) /\ ApartInv /\ ReadInv(C)  BY DEF Trail
<1>2. PICK f, s, g, t :
        f = file /\ s = pending[w] /\ g = f \o SubSeq(s, 1, n) /\ t = SubSeq(s, n + 1, Len(s))
  OBVIOUS
<1>3. file' = g /\ left' = left /\ pending' = [pending EXCEPT ![w] = t]
      /\ UNCHANGED <<reading, pos, since, rows>>
  BY <1>2 DEF Put, NotReading
<1>4. f \in Seq(Cells) /\ s \in Seq(Cells) /\ n \in 1..Len(s)  BY <1>1, <1>2 DEF FileInv
<1>5. g \in Seq(Cells) /\ t \in Seq(Cells) /\ Len(f) \in Nat /\ Len(g) = Len(f) + n
      /\ \A p \in 1..Len(f) : g[p] = f[p]
  BY <1>2, <1>4, PutCells
<1>6. Chained(g, D) /\ Resumes(t, g, D)
  <2>1. f \in Seq(Form) /\ s \in Seq(Form)  BY <1>4, CellsHaveForm, SeqMonotonic
  <2>2. Chained(f, C) /\ Resumes(s, f, C)  BY <1>1, <1>2 DEF FileInv
  <2>3. D \subseteq C \cup {Len(f) + n} /\ (s[n][2] = 3 \/ Len(f) + n \in D)  BY <1>2
  <2> QED  BY <1>2, <1>4, <2>1, <2>2, <2>3, PutChains
<1>7. pending' \in [Writers -> Seq(Cells)]
      /\ pending'[w] = t /\ \A v \in Writers : v # w => pending'[v] = pending[v]
  BY <1>1, <1>3, <1>5 DEF FileInv
<1>8. ASSUME NEW v \in Writers PROVE Resumes(pending'[v], g, D)
  <2>1. CASE v = w  BY <1>6, <1>7, <2>1
  <2>2. CASE v # w
    <3>1. Resumes(pending[v], f, C) /\ \A q \in C : g[q] = f[q]
      BY <1>1, <1>2, <1>5 DEF FileInv, Chained
    <3> QED  BY <1>7, <2>2, <3>1, OthersResume
  <2> QED  BY <2>1, <2>2
<1>9. FileInv(D)'  BY <1>3, <1>5, <1>6, <1>7, <1>8 DEF FileInv
<1>10. ApartInv'  BY <1>1, PutKeepsApart DEF FileInv
<1>11. ReadInv(D)'
  <2>1. Len(file) <= Len(file') /\ Len(file) \in Nat /\ Len(file') \in Nat  BY <1>2, <1>3, <1>5
  <2>2. \A p \in 1..Len(file) : file'[p] = file[p]  BY <1>2, <1>3, <1>5
  <2>3. Chained(file, C)  BY <1>1 DEF FileInv
  <2> QED  BY <1>1, <1>3, <2>1, <2>2, <2>3, ReaderStays
<1>12. LeftInv'  BY <1>1, <1>3 DEF LeftInv, Begun
<1> QED  BY <1>9, <1>10, <1>11, <1>12 DEF Trail

LEMMA OneMore ==
  ASSUME NEW S, IsFiniteSet(S), NEW x
  PROVE  /\ IsFiniteSet(S \cup {x}) /\ Cardinality(S \cup {x}) \in Nat
         /\ Cardinality(S \cup {x}) <= Cardinality(S) + 1
<1>1. PICK T, n, m : T = S \cup {x} /\ n = Cardinality(S) /\ m = Cardinality(T)  OBVIOUS
<1>2. n \in Nat  BY <1>1, FS_CardinalityType
<1>3. x \in S => T = S  BY <1>1
<1>4. x \notin S => IsFiniteSet(T) /\ m = n + 1  BY <1>1, FS_AddElement
<1>5. IsFiniteSet(T) /\ (m = n \/ m = n + 1)  BY <1>1, <1>3, <1>4
<1>6. m \in Nat /\ m <= n + 1  BY <1>2, <1>5
<1> QED  BY <1>1, <1>5, <1>6

LEMMA WritingKeeps ==
  ASSUME TrailInv, NEW w \in Writers, Writing(w)
  PROVE  TrailInv'
<1>1. PICK C : Trail(C)  BY DEF TrailInv
<1>2. IsFiniteSet(C) /\ tears \in 0..MaxTears /\ Cardinality(C) <= tears /\ Cardinality(C) \in Nat
      /\ MaxTears \in Nat /\ DOMAIN pending[w] = 1..Len(pending[w]) /\ C \subseteq 1..Len(file)
  <2>1. pending[w] \in Seq(Cells)  BY <1>1 DEF Trail, FileInv
  <2> QED  BY <1>1, <2>1, LenProperties, FS_CardinalityType, BatchesAreSequences
           DEF Trail, FileInv, Chained
<1>3. CASE Write(w)  BY <1>1, <1>3, WriteKeeps DEF TrailInv
<1>4. CASE Flush(w)
  <2>1. PICK n \in DOMAIN pending[w] : IsLineEnd(pending[w][n]) /\ Put(w, n) /\ UNCHANGED tears
    BY <1>4 DEF Flush
  <2>2. n \in 1..Len(pending[w]) /\ pending[w][n][2] = 3 /\ tears' = tears  BY <1>2, <2>1 DEF IsLineEnd
  <2>3. Trail(C)'  BY <1>1, <1>2, <2>1, <2>2, PutKeeps
  <2> QED  BY <2>3 DEF TrailInv
<1>5. CASE ShortWrite(w)
  <2>1. PICK n \in DOMAIN pending[w] : tears < MaxTears /\ Put(w, n) /\ tears' = tears + 1
    BY <1>5 DEF ShortWrite
  <2>2. PICK D : D = C \cup {Len(file) + n}  OBVIOUS
  <2>3. IsFiniteSet(D) /\ Cardinality(D) <= Cardinality(C) + 1 /\ Cardinality(D) \in Nat
    BY <1>2, <2>2, OneMore
  <2>4. tears' \in 0..MaxTears /\ Cardinality(D) <= tears'  BY <1>2, <2>1, <2>3
  <2>5. n \in 1..Len(pending[w])  BY <1>2
  <2>6. C \subseteq D /\ D \subseteq C \cup {Len(file) + n} /\ Len(file) + n \in D  BY <2>2
  <2>7. Trail(D)'  BY <1>1, <2>1, <2>3, <2>4, <2>5, <2>6, PutKeeps
  <2> QED  BY <2>7 DEF TrailInv
<1>6. CASE Abandon(w)
  <2>1. /\ file' = file /\ left' = left /\ tears' = tears
        /\ UNCHANGED <<reading, pos, since, rows>> /\ pending' = [pending EXCEPT ![w] = <<>>]
    BY <1>6 DEF Abandon, NotReading
  <2>2. LeftInv /\ FileInv(C) /\ ApartInv /\ ReadInv(C)  BY <1>1 DEF Trail
  <2>3. \A v \in Writers : pending'[v] = pending[v] \/ pending'[v] = <<>>
    BY <2>1, <2>2 DEF FileInv
  <2>4. \A f, D : Resumes(<<>>, f, D) /\ Distinct(<<>>) /\ Len(<<>>) = 0  BY DEF Resumes, Distinct
  <2>5. pending' \in [Writers -> Seq(Cells)]  BY <2>1, <2>2 DEF FileInv
  <2>6. FileInv(C)'
    <3>1. \A v \in Writers : Resumes(pending'[v], file, C)  BY <2>2, <2>3, <2>4 DEF FileInv
    <3> QED  BY <2>1, <2>2, <2>5, <3>1 DEF FileInv
  <2>7. LeftInv' /\ \A v \in Writers : Begun(v)' = Begun(v)  BY <2>1, <2>2 DEF LeftInv, Begun
  <2>8. ApartInv'
    <3>1. \A v \in Writers : Distinct(pending'[v])  BY <2>2, <2>3, <2>4 DEF ApartInv
    <3>2. \A v \in Writers : \A i \in 1..Len(pending'[v]) : pending'[v] = pending[v]  BY <2>3, <2>4
    <3> QED  BY <2>1, <2>2, <2>7, <3>1, <3>2 DEF ApartInv
  <2>9. ReadInv(C)'
    <3>1. Len(file) \in Nat /\ Chained(file, C)  BY <2>2, LenProperties DEF FileInv
    <3> QED  BY <2>1, <2>2, <3>1, ReaderStays
  <2>10. Trail(C)'  BY <2>6, <2>7, <2>8, <2>9 DEF Trail
  <2> QED  BY <2>10 DEF TrailInv
<1> QED  BY <1>3, <1>4, <1>5, <1>6 DEF Writing

LEMMA OpenKeeps ==
  ASSUME TrailInv, OpenTrail
  PROVE  TrailInv'
<1>1. PICK C : Trail(C)  BY DEF TrailInv
<1>2. /\ file' = file /\ left' = left /\ pending' = pending /\ tears' = tears
      /\ reading' = TRUE /\ pos' = 0 /\ rows' = <<>> /\ since' = Len(file)
  BY DEF OpenTrail
<1>3. Len(file) \in Nat  BY <1>1, LenProperties DEF Trail, FileInv
<1>4. LeftInv' /\ FileInv(C)' /\ ApartInv'
  BY <1>1, <1>2 DEF Trail, LeftInv, FileInv, ApartInv, Begun
<1>5. ReadInv(C)'
  <2>1. <<>> \in Seq(Cells \X Cells) /\ \A i \in 1..Len(<<>>) : FALSE  OBVIOUS
  <2>2. Distinct(<<>>)  BY DEF Distinct
  <2>3. 0 \in 0..Len(file) /\ Len(file) \in 0..Len(file) /\ \A j \in 1..0 : FALSE  BY <1>3
  <2> QED  BY <1>2, <2>1, <2>2, <2>3 DEF ReadInv
<1> QED  BY <1>4, <1>5 DEF Trail, TrailInv

LEMMA CloseKeeps ==
  ASSUME TrailInv, CloseTrail
  PROVE  TrailInv'
<1>1. PICK C : Trail(C)  BY DEF TrailInv
<1>2. /\ file' = file /\ left' = left /\ pending' = pending /\ tears' = tears
      /\ reading' = FALSE /\ pos' = pos /\ rows' = rows /\ since' = since /\ pos = Len(file)
  BY DEF CloseTrail
<1>3. LeftInv' /\ FileInv(C)' /\ ApartInv'
  BY <1>1, <1>2 DEF Trail, LeftInv, FileInv, ApartInv, Begun
<1>4. ReadInv(C)  BY <1>1 DEF Trail
<1>5. since <= pos  BY <1>2, <1>4 DEF ReadInv
<1>6. Hurt(file, C)' = Hurt(file, C)  BY <1>2 DEF Hurt
<1>7. ReadInv(C)'  BY <1>2, <1>4, <1>5, <1>6 DEF ReadInv
<1> QED  BY <1>3, <1>7 DEF Trail, TrailInv

\* Up to where a turn of the loop reads, and what stands between.
LEMMA StopIsNext ==
  ASSUME file \in Seq(Cells), pos \in Nat, pos < Len(file)
  PROVE  /\ Stop \in pos + 1..Len(file)
         /\ file[Stop][2] = 3 \/ Stop = Len(file)
         /\ \A q \in pos + 1..Stop - 1 : file[q][2] # 3
<1> DEFINE ends == {n \in pos + 1..Len(file) : IsLineEnd(file[n])}
<1>1. Len(file) \in Nat  BY LenProperties
<1>2. CASE ends = {}
  <2>1. Stop = Len(file)  BY <1>2 DEF Stop
  <2>2. \A q \in pos + 1..Len(file) : file[q][2] # 3  BY <1>2 DEF IsLineEnd
  <2> QED  BY <1>1, <2>1, <2>2
<1>3. CASE ends # {}
  <2>1. ends \in SUBSET Nat  BY <1>1
  <2>2. Stop = Min(ends)  BY <1>3 DEF Stop
  <2>3. \A n \in ends : n \in pos + 1..Len(file) /\ file[n][2] = 3  BY DEF IsLineEnd
  <2>4. \A n \in pos + 1..Len(file) : file[n][2] = 3 => n \in ends  BY DEF IsLineEnd
  <2> HIDE DEF ends
  <2>5. PICK m \in ends : \A k \in ends : m <= k  BY <1>3, <2>1, LeastNumber
  <2>6. Stop \in ends /\ \A k \in ends : Stop <= k  BY <2>2, <2>5 DEF Min
  <2>7. ASSUME NEW q \in pos + 1..Stop - 1 PROVE file[q][2] # 3
    <3>1. q \in pos + 1..Len(file) /\ ~(Stop <= q)  BY <1>1, <2>3, <2>6
    <3> QED  BY <2>4, <2>6, <3>1
  <2> QED  BY <2>3, <2>6, <2>7
<1> QED  BY <1>2, <1>3

\* A record that is complete when the reader passes it, and lost all the same,
\* was cut or comes right after a cut.
LEMMA PassedRecords ==
  ASSUME NEW C, FileInv(C), ReadInv(C), pos < Len(file), file[Stop][2] = 3
  PROVE  \/ file[Stop][1] \in Hurt(file, C)
         \/ /\ pos = Stop - 3
            /\ file[pos + 1] = <<file[Stop][1], 1>> /\ file[pos + 2] = <<file[Stop][1], 2>>
<1> SUFFICES ASSUME file[Stop][1] \notin Hurt(file, C)
             PROVE  /\ pos = Stop - 3
                    /\ file[pos + 1] = <<file[Stop][1], 1>> /\ file[pos + 2] = <<file[Stop][1], 2>>
  OBVIOUS
<1>1. /\ pos \in Nat /\ file \in Seq(Form) /\ Len(file) \in Nat
      /\ pos = 0 \/ file[pos][2] = 3 \/ pos \in C
  <2>1. file \in Seq(Cells)  BY DEF FileInv
  <2> QED  BY <2>1, CellsHaveForm, SeqMonotonic, LenProperties DEF ReadInv
<1>2. PICK z, r : z = Stop /\ r = file[z][1]  OBVIOUS
<1>3. z \in pos + 1..Len(file) /\ file[z][2] = 3 /\ \A q \in pos + 1..z - 1 : file[q][2] # 3
  BY <1>1, <1>2, StopIsNext DEF FileInv
<1>4. ASSUME NEW q \in C PROVE q \in 1..Len(file) /\ file[q][1] # r /\ (q < Len(file) => file[q + 1][1] # r)
  <2>1. q \in 1..Len(file)  BY DEF FileInv, Chained
  <2>2. file[q][1] # r  BY <1>2 DEF Hurt
  <2>3. q < Len(file) => file[q + 1][1] # r  BY <1>2 DEF Hurt
  <2> QED  BY <2>1, <2>2, <2>3
<1>5. ASSUME NEW p \in 1..Len(file), file[p][1] = r, file[p][2] > 1
      PROVE  p - 1 \in 1..Len(file) /\ Cont(file[p - 1], file[p])
  <2>1. PICK q \in 1..p - 1 : (q = p - 1 \/ q \in C) /\ Cont(file[q], file[p])
    BY <1>5 DEF FileInv, Chained
  <2>2. file[q][1] = r  BY <1>5, <2>1 DEF Cont
  <2>3. q = p - 1  BY <1>4, <2>1, <2>2
  <2> QED  BY <1>1, <2>1, <2>3
<1>6. z \in 1..Len(file) /\ z - 1 \in 1..Len(file) /\ file[z - 1][1] = r /\ file[z - 1][2] = 2
  <2>1. z \in 1..Len(file)  BY <1>1, <1>3
  <2>2. z - 1 \in 1..Len(file) /\ Cont(file[z - 1], file[z])  BY <1>2, <1>3, <1>5, <2>1
  <2>3. file[z - 1][2] \in 1..3  BY <1>1, <2>2, FormOf
  <2> QED  BY <1>2, <1>3, <2>1, <2>2, <2>3 DEF Cont
<1>7. z - 2 \in 1..Len(file) /\ file[z - 2][1] = r /\ file[z - 2][2] = 1
  <2>1. PICK y : y = z - 1  OBVIOUS
  <2>2. y \in 1..Len(file) /\ file[y][1] = r /\ file[y][2] = 2  BY <1>6, <2>1
  <2>3. y - 1 \in 1..Len(file) /\ Cont(file[y - 1], file[y])  BY <1>5, <2>2
  <2>4. file[y - 1][2] \in 1..3  BY <1>1, <2>3, FormOf
  <2>5. y - 1 = z - 2  BY <1>6, <2>1
  <2> QED  BY <2>2, <2>3, <2>4, <2>5 DEF Cont
<1>8. pos # z - 1 /\ pos # z - 2
  <2>1. pos \in C => file[pos][1] # r  BY <1>4
  <2> QED  BY <1>1, <1>6, <1>7, <2>1
<1>9. pos <= z - 3  BY <1>1, <1>3, <1>6, <1>8
<1>10. pos = z - 3
  <2> SUFFICES ASSUME pos # z - 3 PROVE FALSE  OBVIOUS
  <2>1. PICK y : y = z - 3  OBVIOUS
  <2>2. y \in pos + 1..z - 1 /\ y \in 1..Len(file) /\ y < Len(file) /\ y + 1 = z - 2
    BY <1>1, <1>3, <1>6, <1>9, <2>1
  <2>3. file[y][2] \in 1..3 /\ file[y][2] # 3  BY <1>1, <1>3, <2>2, FormOf
  <2>4. y \notin C  BY <1>4, <1>7, <2>2
  <2>5. Cont(file[y], file[y + 1])  BY <2>2, <2>3, <2>4 DEF FileInv, Chained
  <2> QED  BY <1>7, <2>2, <2>3, <2>5 DEF Cont
<1>11. pos + 1 = z - 2 /\ pos + 2 = z - 1  BY <1>1, <1>6, <1>10
<1>12. file[z - 2] = <<r, 1>> /\ file[z - 1] = <<r, 2>>  BY <1>1, <1>6, <1>7, FormOf
<1> QED  BY <1>2, <1>10, <1>11, <1>12

\* What is taken for a record: two cells that stand side by side.
LEMMA LineIsTwoCells ==
  ASSUME file \in Seq(Cells), pos \in Nat, pos < Len(file), Parses(TheLine)
  PROVE  /\ pos + 2 <= Stop /\ TheLine = <<file[pos + 1], file[pos + 2]>>
         /\ file[pos + 1][2] = 1 /\ file[pos + 2][2] = 2
<1>1. /\ Stop \in pos + 1..Len(file) /\ Len(file) \in Nat
  BY StopIsNext, LenProperties
<1>2. PICK e, l : e = (IF IsLineEnd(file[Stop]) THEN Stop - 1 ELSE Stop) /\ l = SubSeq(file, pos + 1, e)
  OBVIOUS
<1>3. e \in pos..Stop /\ e \in Int /\ pos + 1 \in Int  BY <1>1, <1>2
<1>4. \A i \in pos + 1..e : file[i] \in Cells
  <2>1. \A i \in pos + 1..e : i \in 1..Len(file)  BY <1>1, <1>3
  <2> QED  BY <2>1, ElementOfSeq
<1>5. /\ l \in Seq(Cells) /\ Len(l) = (IF pos + 1 <= e THEN e - (pos + 1) + 1 ELSE 0)
      /\ \A i \in 1..e - (pos + 1) + 1 : l[i] = file[pos + 1 + i - 1]
  BY <1>2, <1>3, <1>4, SubSeqProperties
<1>6. TheLine = l  BY <1>2 DEF TheLine
<1>7. Len(l) = 2 /\ l[1][2] = 1 /\ l[2][2] = 2  BY <1>6 DEF Parses
<1>8. e = pos + 2
  <2>1. Len(l) = (IF pos + 1 <= e THEN e - (pos + 1) + 1 ELSE 0) /\ Len(l) = 2  BY <1>5, <1>7
  <2>2. CASE pos + 1 <= e
    <3>1. e - (pos + 1) + 1 = 2  BY <2>1, <2>2
    <3>2. e \in Int /\ pos \in Int  BY <1>3
    <3> QED  BY <3>1, <3>2
  <2>3. CASE ~(pos + 1 <= e)
    <3>1. Len(l) = 0  BY <2>1, <2>3
    <3> QED  BY <2>1, <3>1
  <2> QED  BY <2>2, <2>3
<1>9. l[1] = file[pos + 1] /\ l[2] = file[pos + 2]
  <2>1. 1 \in 1..e - (pos + 1) + 1 /\ 2 \in 1..e - (pos + 1) + 1
        /\ pos + 1 + 1 - 1 = pos + 1 /\ pos + 1 + 2 - 1 = pos + 2
    BY <1>8
  <2>2. l[1] = file[pos + 1 + 1 - 1] /\ l[2] = file[pos + 1 + 2 - 1]  BY <1>5, <2>1
  <2> QED  BY <2>1, <2>2
<1>10. l = <<l[1], l[2]>>
  <2>1. DOMAIN l = 1..2 /\ l = [i \in 1..2 |-> l[i]]  BY <1>5, <1>7, LenProperties
  <2> QED  BY <2>1
<1> QED  BY <1>3, <1>6, <1>7, <1>8, <1>9, <1>10

LEMMA ReadKeeps ==
  ASSUME TrailInv, ReadLine
  PROVE  TrailInv'
<1>1. PICK C : Trail(C)  BY DEF TrailInv
<1>2. /\ file' = file /\ left' = left /\ pending' = pending /\ tears' = tears
      /\ reading' = reading /\ since' = since /\ reading /\ pos < Len(file) /\ pos' = Stop
      /\ rows' = IF Parses(TheLine) THEN Append(rows, TheLine) ELSE rows
  BY DEF ReadLine
<1>3. LeftInv' /\ FileInv(C)' /\ ApartInv'
  BY <1>1, <1>2 DEF Trail, LeftInv, FileInv, ApartInv, Begun
<1>4. ReadInv(C) /\ FileInv(C) /\ Distinct(file) /\ Chained(file, C)
  BY <1>1 DEF Trail, FileInv, ApartInv
<1>5. file \in Seq(Cells) /\ Len(file) \in Nat /\ pos \in Nat  BY <1>4, LenProperties DEF FileInv, ReadInv
<1>6. /\ Stop \in pos + 1..Len(file)
      /\ file[Stop][2] = 3 \/ Stop = Len(file)
      /\ \A q \in pos + 1..Stop - 1 : file[q][2] # 3
  BY <1>2, <1>5, StopIsNext
<1>7. file[Stop][2] = 3 \/ Stop \in C
  <2>1. CASE file[Stop][2] # 3
    <3>1. PICK z : z = Stop  OBVIOUS
    <3>2. z \in 1..Len(file) /\ ~(z < Len(file)) /\ file[z][2] # 3
      <4>1. Stop = Len(file) /\ Stop \in 1..Len(file)  BY <1>5, <1>6, <2>1
      <4> QED  BY <1>5, <2>1, <3>1, <4>1
    <3>3. file[z][2] \in 1..3
      <4>1. file \in Seq(Form)  BY <1>5, CellsHaveForm, SeqMonotonic
      <4> QED  BY <3>2, <4>1, FormOf
    <3>4. z \in C  BY <1>4, <3>2, <3>3 DEF Chained
    <3> QED  BY <3>1, <3>4
  <2> QED  BY <2>1
<1>8. rows \in Seq(Cells \X Cells) /\ Len(rows) \in Nat  BY <1>4, LenProperties DEF ReadInv
<1>9. ASSUME Parses(TheLine)
      PROVE  /\ pos + 1 \in 1..Len(file) /\ pos + 2 \in 1..Len(file) /\ pos + 1 \in 1..Stop - 1
             /\ TheLine = <<file[pos + 1], file[pos + 2]>>
             /\ file[pos + 1][2] = 1 /\ file[pos + 2][2] = 2 /\ TheLine \in Cells \X Cells
             /\ rows' \in Seq(Cells \X Cells) /\ Len(rows') = Len(rows) + 1
             /\ \A i \in 1..Len(rows) : rows'[i] = rows[i]
             /\ rows'[Len(rows) + 1] = TheLine
  <2>1. /\ pos + 2 <= Stop /\ TheLine = <<file[pos + 1], file[pos + 2]>>
        /\ file[pos + 1][2] = 1 /\ file[pos + 2][2] = 2
    BY <1>2, <1>5, <1>9, LineIsTwoCells
  <2>2. pos + 1 \in 1..Len(file) /\ pos + 2 \in 1..Len(file) /\ pos + 1 \in 1..Stop - 1
    BY <1>5, <1>6, <2>1
  <2>3. TheLine \in Cells \X Cells
    <3>1. file[pos + 1] \in Cells /\ file[pos + 2] \in Cells  BY <1>5, <2>2, ElementOfSeq
    <3> QED  BY <2>1, <3>1
  <2> DEFINE P == Cells \X Cells
  <2>4. rows \in Seq(P) /\ TheLine \in P  BY <1>8, <2>3
  <2> HIDE DEF P
  <2>5. rows' = Append(rows, TheLine)  BY <1>2, <1>9
  <2>6. /\ rows' \in Seq(P) /\ Len(rows') = Len(rows) + 1
        /\ \A i \in 1..Len(rows) : rows'[i] = rows[i]
        /\ rows'[Len(rows) + 1] = TheLine
    BY <2>4, <2>5, AppendProperties
  <2> QED  BY <2>1, <2>2, <2>3, <2>6 DEF P
<1>10. \/ rows' = rows
       \/ /\ Parses(TheLine) /\ rows' \in Seq(Cells \X Cells) /\ Len(rows') = Len(rows) + 1
          /\ \A i \in 1..Len(rows) : rows'[i] = rows[i]
  BY <1>2, <1>9
<1>11. ASSUME NEW i \in 1..Len(rows')
       PROVE  \/ i \in 1..Len(rows) /\ rows'[i] = rows[i]
              \/ i = Len(rows) + 1 /\ Parses(TheLine) /\ rows'[i] = TheLine
  <2>1. CASE rows' = rows  BY <2>1
  <2>2. CASE Parses(TheLine)
    <3>1. i \in 1..Len(rows) \/ i = Len(rows) + 1  BY <1>8, <1>9, <2>2
    <3> QED  BY <1>9, <2>2, <3>1
  <2> QED  BY <1>10, <2>1, <2>2
<1>12. ASSUME NEW i \in 1..Len(rows)
       PROVE  \E p \in 1..pos - 1 :
                rows[i] = <<file[p], file[p + 1]>> /\ file[p][2] = 1 /\ file[p + 1][2] = 2
  BY <1>4 DEF ReadInv
<1>13. ASSUME Parses(TheLine), NEW i \in 1..Len(rows), rows[i] = TheLine PROVE FALSE
  <2>1. PICK p \in 1..pos - 1 : rows[i] = <<file[p], file[p + 1]>>  BY <1>12
  <2>2. file[p] = file[pos + 1] /\ p \in 1..Len(file)  BY <1>2, <1>5, <1>9, <1>13, <2>1
  <2>3. p = pos + 1  BY <1>4, <1>9, <1>13, <2>2 DEF Distinct
  <2> QED  BY <1>5, <2>1, <2>3
<1>14. Distinct(rows')
  <2>1. ASSUME NEW i \in 1..Len(rows'), NEW j \in 1..Len(rows'), rows'[i] = rows'[j] PROVE i = j
    <3>1. CASE i \in 1..Len(rows) /\ rows'[i] = rows[i] /\ j \in 1..Len(rows) /\ rows'[j] = rows[j]
      BY <1>4, <2>1, <3>1, ZenonT(30) DEF ReadInv, Distinct
    <3> QED  BY <1>11, <1>13, <2>1, <3>1
  <2> QED  BY <2>1 DEF Distinct
<1>15. ASSUME NEW i \in 1..Len(rows')
       PROVE  \E p \in 1..Stop - 1 :
                rows'[i] = <<file[p], file[p + 1]>> /\ file[p][2] = 1 /\ file[p + 1][2] = 2
  <2>1. CASE i \in 1..Len(rows) /\ rows'[i] = rows[i]
    <3>1. PICK p \in 1..pos - 1 :
                rows[i] = <<file[p], file[p + 1]>> /\ file[p][2] = 1 /\ file[p + 1][2] = 2
      BY <1>12, <2>1
    <3>2. PICK z : z = Stop  OBVIOUS
    <3>3. pos \in Nat /\ z \in pos + 1..Len(file) /\ Len(file) \in Nat  BY <1>5, <1>6, <3>2
    <3>4. p \in 1..z - 1  BY <3>3
    <3> QED  BY <2>1, <3>1, <3>2, <3>4
  <2>2. CASE Parses(TheLine) /\ rows'[i] = TheLine
    <3>1. (pos + 1) + 1 = pos + 2  BY <1>5
    <3>2. PICK p : p = pos + 1  OBVIOUS
    <3>3. /\ p \in 1..Stop - 1 /\ rows'[i] = <<file[p], file[p + 1]>>
          /\ file[p][2] = 1 /\ file[p + 1][2] = 2
      BY <1>9, <2>2, <3>1, <3>2
    <3> QED  BY <3>3
  <2> QED  BY <1>11, <2>1, <2>2
<1>16. ASSUME NEW j \in 1..Stop, file[j][2] = 3
       PROVE  file[j][1] \in Hurt(file, C) \/ \E i \in 1..Len(rows') : rows'[i][1][1] = file[j][1]
  <2>1. CASE j \in 1..pos
    <3>1. CASE file[j][1] \in Hurt(file, C)  BY <3>1
    <3>2. CASE \E i \in 1..Len(rows) : rows[i][1][1] = file[j][1]
      <4>1. PICK i \in 1..Len(rows) : rows[i][1][1] = file[j][1]  BY <3>2
      <4>2. i \in 1..Len(rows') /\ rows'[i] = rows[i]  BY <1>8, <1>10
      <4> QED  BY <4>1, <4>2
    <3> QED  BY <1>4, <1>16, <2>1, <3>1, <3>2 DEF ReadInv
  <2>2. CASE j \notin 1..pos
    <3>1. j = Stop  BY <1>5, <1>6, <1>16, <2>2
    <3>2. CASE /\ pos = Stop - 3
               /\ file[pos + 1] = <<file[Stop][1], 1>> /\ file[pos + 2] = <<file[Stop][1], 2>>
      <4>1. Parses(TheLine)
        <5>1. IsLineEnd(file[Stop]) /\ Stop - 1 = pos + 2  BY <1>5, <1>6, <1>16, <3>1, <3>2 DEF IsLineEnd
        <5>2. PICK x, y, l : x = pos + 1 /\ y = pos + 2 /\ l = SubSeq(file, x, y)  OBVIOUS
        <5>3. TheLine = l  BY <5>1, <5>2 DEF TheLine
        <5>4. x \in Int /\ y \in Int /\ x <= y /\ y - x + 1 = 2 /\ x + 1 - 1 = x /\ x + 2 - 1 = y
          BY <1>5, <5>2
        <5>5. \A i \in x..y : file[i] \in Cells
          <6>1. \A i \in x..y : i \in 1..Len(file)  BY <1>5, <1>6, <5>1, <5>2
          <6> QED  BY <1>5, <6>1, ElementOfSeq
        <5>6. Len(l) = (IF x <= y THEN y - x + 1 ELSE 0) /\ \A i \in 1..y - x + 1 : l[i] = file[x + i - 1]
          BY <5>2, <5>4, <5>5, SubSeqProperties
        <5>7. Len(l) = 2 /\ l[1] = file[x] /\ l[2] = file[y]  BY <5>4, <5>6
        <5>8. l[1] = <<file[Stop][1], 1>> /\ l[2] = <<file[Stop][1], 2>>  BY <3>2, <5>2, <5>7
        <5>9. l[1][2] = 1 /\ l[2][2] = 2  BY <5>8
        <5> QED  BY <5>3, <5>7, <5>9 DEF Parses
      <4>2. Len(rows) + 1 \in 1..Len(rows') /\ rows'[Len(rows) + 1] = TheLine  BY <1>8, <1>9, <4>1
      <4>3. TheLine[1] = file[pos + 1]  BY <1>9, <4>1
      <4> QED  BY <3>1, <3>2, <4>2, <4>3
    <3>3. file[Stop][2] = 3  BY <1>16, <3>1
    <3> QED  BY <1>2, <1>4, <3>1, <3>2, <3>3, PassedRecords
  <2> QED  BY <2>1, <2>2
<1>17. Hurt(file, C)' = Hurt(file, C)  BY <1>2 DEF Hurt
<1>18. ReadInv(C)'
  <2>1. rows' \in Seq(Cells \X Cells)  BY <1>8, <1>10
  <2>2. Stop \in 0..Len(file) /\ since \in 0..Len(file) /\ reading \in BOOLEAN
    BY <1>4, <1>5, <1>6 DEF ReadInv
  <2> QED  BY <1>2, <1>7, <1>14, <1>15, <1>16, <1>17, <2>1, <2>2 DEF ReadInv
<1> QED  BY <1>3, <1>18 DEF Trail, TrailInv

-----------------------------------------------------------------------------
(* The server.                                                             *)

Done == IF phase \in {"busy", "dead"} THEN Len(heard) - 1 ELSE Len(heard)
Answers == {i \in 1..Len(said) : said[i].id # NoId}
Wanted == {n \in 1..Done : IsRequest(heard[n])}

Ordered ==
  /\ \A i \in Answers : said[i].id \in Wanted
  /\ \A n \in Wanted : \E i \in Answers : said[i].id = n
  /\ \A i, j \in Answers : i < j => said[i].id < said[j].id
  /\ \A i \in Answers : said[i].outcome = "error" <=>
       heard[said[i].id].ask \in {"unknown method", "unknown tool"}

ServerInv ==
  /\ heard \in Seq(Input) /\ Len(heard) <= MaxLines /\ said \in Seq(Answer)
  /\ phase \in {"idle", "busy", "closed", "dead"}
  /\ phase \in {"busy", "dead"} => heard # <<>>
  /\ reading => phase = "busy" /\ Last(heard).ask = "exodus_audit"
  /\ Ordered

LEMMA LastHeard ==
  ASSUME ServerInv, phase \in {"busy", "dead"}
  PROVE  /\ Len(heard) \in Nat \ {0} /\ Len(heard) \in 1..Len(heard)
         /\ Last(heard) = heard[Len(heard)] /\ Last(heard) \in Line
<1>1. Len(heard) \in Nat \ {0}  BY EmptySeq DEF ServerInv
<1>2. heard[Len(heard)] \in Input
  <2>1. PICK n : n = Len(heard)  OBVIOUS
  <2>2. n \in 1..Len(heard)  BY <1>1, <2>1
  <2>3. heard[n] \in Input  BY <2>2, ElementOfSeq DEF ServerInv
  <2> QED  BY <2>1, <2>3
<1> QED  BY <1>1, <1>2, InputsAreLines DEF Last

\* Nothing is said of the line at hand, which is no request.
LEMMA SilenceKeeps ==
  ASSUME ServerInv, phase \in {"busy", "dead"}, ~IsRequest(Last(heard)),
         heard' = heard, said' = said, phase' = "idle"
  PROVE  Ordered'
<1>1. Len(heard) \in Nat \ {0} /\ Last(heard) = heard[Len(heard)]  BY LastHeard
<1>2. Done = Len(heard) - 1 /\ Done' = Len(heard)  BY DEF Done
<1>3. \A n \in 1..Len(heard) : IsRequest(heard[n]) => n \in 1..Len(heard) - 1  BY <1>1
<1>4. Wanted' = Wanted
  <2>1. \A n \in 1..Len(heard) - 1 : n \in 1..Len(heard)  BY <1>1
  <2>2. Wanted' = {n \in 1..Len(heard) : IsRequest(heard[n])}  BY <1>2 DEF Wanted, IsRequest
  <2>3. Wanted = {n \in 1..Len(heard) - 1 : IsRequest(heard[n])}  BY <1>2 DEF Wanted
  <2> QED  BY <1>3, <2>1, <2>2, <2>3
<1>5. Answers' = Answers  BY DEF Answers
<1> QED  BY <1>4, <1>5 DEF ServerInv, Ordered

\* The line at hand is answered; it is a request if it has an id.
Replied(outcome) ==
  /\ phase = "busy" /\ Reply(outcome) /\ outcome \in {"result", "tool failed", "error"}
  /\ Last(heard).ask \notin Broken \cup Notifications \cup {"no JSON"}
  /\ outcome = "error" <=> Last(heard).ask \in {"unknown method", "unknown tool"}

LEMMA ReplyKeeps ==
  ASSUME ServerInv, NEW outcome, Replied(outcome)
  PROVE  said' \in Seq(Answer) /\ heard' = heard /\ phase' = "idle" /\ Ordered'
<1>1. /\ Len(heard) \in Nat \ {0} /\ Len(heard) \in 1..Len(heard)
      /\ Last(heard) = heard[Len(heard)] /\ Last(heard) \in Line
  BY LastHeard DEF Replied
<1>2. heard' = heard /\ phase' = "idle"  BY DEF Replied, Reply
<1>3. Done = Len(heard) - 1 /\ Done' = Len(heard)  BY <1>2 DEF Done, Replied
<1>4. PICK l, a : /\ l = Last(heard)
                  /\ a = [id |-> IF l.hasId THEN Len(heard) ELSE NoId, outcome |-> outcome]
  OBVIOUS
<1>5. a \in Answer /\ said' = Append(said, a)
  <2>1. Len(heard) \in 0..MaxLines /\ NoId \in 0..MaxLines
    BY <1>1, InputsAreLines DEF ServerInv, NoId
  <2> QED  BY <1>4, <2>1 DEF Replied, Reply, Answer
<1>6. PICK m : m = Len(said) + 1  OBVIOUS
<1>7. /\ said' \in Seq(Answer) /\ Len(said') = m /\ Len(said) \in Nat
      /\ \A i \in 1..Len(said) : said'[i] = said[i]
      /\ said'[m] = a
  BY <1>5, <1>6, AppendProperties, LenProperties DEF ServerInv
<1>8. IsRequest(l) <=> l.hasId  BY <1>4 DEF IsRequest, Replied
<1>9. a.outcome = outcome /\ (l.hasId => a.id = Len(heard) /\ a.id # NoId) /\ (~l.hasId => a.id = NoId)
  BY <1>1, <1>4 DEF NoId
<1>10. ASSUME NEW i PROVE i \in Answers' <=> i \in Answers \/ (i = m /\ l.hasId)
  <2>1. Answers' = {k \in 1..m : said'[k].id # NoId}  BY <1>7 DEF Answers
  <2>2. i \in 1..m <=> i \in 1..Len(said) \/ i = m  BY <1>6, <1>7
  <2>3. m \notin 1..Len(said)  BY <1>6, <1>7
  <2> QED  BY <1>7, <1>9, <2>1, <2>2, <2>3 DEF Answers
<1>11. \A i \in Answers : said'[i] = said[i] /\ i < m /\ i \in 1..Len(said)
  BY <1>6, <1>7 DEF Answers
<1>12. ASSUME NEW n PROVE n \in Wanted' <=> n \in Wanted \/ (n = Len(heard) /\ l.hasId)
  <2>1. Wanted' = {k \in 1..Len(heard) : IsRequest(heard[k])}  BY <1>2, <1>3 DEF Wanted, IsRequest
  <2>2. Wanted = {k \in 1..Len(heard) - 1 : IsRequest(heard[k])}  BY <1>3 DEF Wanted
  <2>3. n \in 1..Len(heard) <=> n \in 1..Len(heard) - 1 \/ n = Len(heard)  BY <1>1
  <2>4. Len(heard) \notin 1..Len(heard) - 1  BY <1>1
  <2> QED  BY <1>1, <1>4, <1>8, <2>1, <2>2, <2>3, <2>4
<1>13. \A n \in Wanted : n < Len(heard)  BY <1>1, <1>3 DEF Wanted
<1>14. /\ \A i \in Answers : said[i].id \in Wanted
       /\ \A n \in Wanted : \E i \in Answers : said[i].id = n
       /\ \A i, j \in Answers : i < j => said[i].id < said[j].id
       /\ \A i \in Answers : said[i].outcome = "error" <=>
            heard[said[i].id].ask \in {"unknown method", "unknown tool"}
  BY DEF ServerInv, Ordered
<1>15. \A i \in Answers' : said'[i].id \in Wanted'  BY <1>7, <1>9, <1>10, <1>11, <1>12, <1>14
<1>16. ASSUME NEW n \in Wanted' PROVE \E i \in Answers' : said'[i].id = n
  <2>1. CASE n \in Wanted
    <3>1. PICK i \in Answers : said[i].id = n  BY <1>14, <2>1
    <3> QED  BY <1>10, <1>11, <3>1
  <2>2. CASE n = Len(heard) /\ l.hasId
    <3>1. m \in Answers'  BY <1>10, <2>2
    <3> QED  BY <1>7, <1>9, <2>2, <3>1
  <2> QED  BY <1>12, <2>1, <2>2
<1>17. ASSUME NEW i \in Answers', NEW j \in Answers', i < j PROVE said'[i].id < said'[j].id
  <2>1. CASE i \in Answers /\ j \in Answers  BY <1>11, <1>14, <1>17, <2>1
  <2>2. CASE i \in Answers /\ j = m /\ l.hasId  BY <1>7, <1>9, <1>11, <1>13, <1>14, <2>2
  <2>3. CASE i = m /\ j \in Answers
    <3>1. j < m /\ j \in Nat /\ m \in Nat  BY <1>6, <1>7, <1>11, <2>3
    <3> QED  BY <1>17, <2>3, <3>1
  <2>4. CASE i = m /\ j = m
    <3>1. m \in Nat  BY <1>6, <1>7
    <3> QED  BY <1>17, <2>4, <3>1
  <2> QED  BY <1>10, <2>1, <2>2, <2>3, <2>4
<1>18. ASSUME NEW i \in Answers'
       PROVE  said'[i].outcome = "error" <=> heard[said'[i].id].ask \in {"unknown method", "unknown tool"}
  <2>1. CASE i \in Answers  BY <1>11, <1>14, <2>1
  <2>2. CASE i = m /\ l.hasId  BY <1>1, <1>4, <1>7, <1>9, <2>2 DEF Replied
  <2> QED  BY <1>10, <2>1, <2>2
<1> QED  BY <1>2, <1>7, <1>15, <1>16, <1>17, <1>18 DEF Ordered

LEMMA ServerInit == Init => ServerInv
<1> SUFFICES ASSUME Init PROVE ServerInv  OBVIOUS
<1>1. heard = <<>> /\ said = <<>> /\ phase = "idle" /\ reading = FALSE  BY DEF Init, TrailInit
<1>2. Len(heard) = 0 /\ Len(said) = 0 /\ heard \in Seq(Input) /\ said \in Seq(Answer)  BY <1>1
<1>3. Done = 0  BY <1>1, <1>2 DEF Done
<1>4. Answers = {} /\ Wanted = {}  BY <1>2, <1>3 DEF Answers, Wanted
<1> QED  BY <1>1, <1>2, <1>4, InputsAreLines DEF ServerInv, Ordered

LEMMA ServerStep ==
  ASSUME ServerInv, [Next]_vars
  PROVE  ServerInv'
<1> USE DEF ServerInv
<1>1. ASSUME Hear PROVE ServerInv'
  <2>1. PICK l \in Input : heard' = Append(heard, l)  BY <1>1 DEF Hear
  <2>2. /\ phase = "idle" /\ Len(heard) < MaxLines /\ phase' = "busy"
        /\ said' = said /\ reading' = reading /\ ~reading
    BY <1>1 DEF Hear, trailVars
  <2>3. /\ heard' \in Seq(Input) /\ Len(heard) \in Nat /\ Len(heard') = Len(heard) + 1
        /\ \A n \in 1..Len(heard) : heard'[n] = heard[n]
    BY <2>1, AppendProperties, LenProperties
  <2>4. heard' # <<>> /\ Len(heard') <= MaxLines
    <3>1. heard' # <<>>  BY <2>1, <2>3, AppendProperties
    <3> QED  BY <2>2, <2>3, <3>1, InputsAreLines
  <2>5. Done = Len(heard) /\ Done' = Len(heard)  BY <2>2, <2>3 DEF Done
  <2>6. Answers' = Answers  BY <2>2 DEF Answers
  <2>7. Wanted' = Wanted  BY <2>3, <2>5 DEF Wanted, IsRequest
  <2>8. \A n \in Wanted : heard'[n] = heard[n]  BY <2>3, <2>5 DEF Wanted
  <2>9. Ordered'
    <3>1. /\ \A i \in Answers : said[i].id \in Wanted
          /\ \A n \in Wanted : \E i \in Answers : said[i].id = n
          /\ \A i, j \in Answers : i < j => said[i].id < said[j].id
          /\ \A i \in Answers : said[i].outcome = "error" <=>
               heard[said[i].id].ask \in {"unknown method", "unknown tool"}
      BY DEF Ordered
    <3> HIDE DEF ServerInv
    <3>2. \A i \in Answers : said[i].outcome = "error" <=>
            heard'[said[i].id].ask \in {"unknown method", "unknown tool"}
      BY <2>8, <3>1
    <3> QED  BY <2>2, <2>6, <2>7, <3>1, <3>2 DEF Ordered
  <2> QED  BY <2>2, <2>3, <2>4, <2>9
<1>2. ASSUME phase = "idle", phase' = "closed", UNCHANGED <<heard, said, trailVars>> PROVE ServerInv'
  <2>1. Done' = Done  BY <1>2 DEF Done
  <2>2. Ordered'  BY <1>2, <2>1 DEF Ordered, Answers, Wanted, IsRequest
  <2> QED  BY <1>2, <2>2 DEF trailVars
<1>3. ASSUME Ignore PROVE ServerInv'
  <2>1. phase = "busy" /\ ~reading /\ phase' = "idle" /\ heard' = heard /\ said' = said /\ reading' = reading
    BY <1>3 DEF Ignore, Asked, trailVars
  <2>2. ~IsRequest(Last(heard))  BY <1>3 DEF Ignore, Asked, IsRequest
  <2>3. Ordered'
    <3> HIDE DEF ServerInv
    <3> QED  BY <2>1, <2>2, SilenceKeeps
  <2> QED  BY <2>1, <2>3
<1>4. ASSUME NEW outcome, Replied(outcome), ~reading' PROVE ServerInv'
  <2>1. said' \in Seq(Answer) /\ heard' = heard /\ phase' = "idle" /\ Ordered'
    <3> HIDE DEF ServerInv
    <3> QED  BY <1>4, ReplyKeeps
  <2> QED  BY <1>4, <2>1
<1>5. ASSUME Result PROVE Replied("result") /\ ~reading'
  BY <1>5 DEF Result, Asked, Methods, Broken, Notifications, Replied, Reply, trailVars
<1>6. ASSUME Refuse PROVE Replied("error") /\ ~reading'
  BY <1>6 DEF Refuse, Asked, Broken, Notifications, Replied, Reply, trailVars
<1>7. ASSUME Mask PROVE Replied("result") /\ ~reading'
  BY <1>7 DEF Mask, Asked, Broken, Notifications, Replied, Reply, trailVars
<1>8. ASSUME ToolFails PROVE Replied("tool failed") /\ ~reading'
  BY <1>8 DEF ToolFails, Asked, Broken, Notifications, Replied, Reply, trailVars
<1>9. ASSUME Verify PROVE (Replied("result") \/ Replied("tool failed")) /\ ~reading'
  BY <1>9 DEF Verify, Asked, Broken, Notifications, Replied, Reply, trailVars
<1>10. ASSUME BeginAudit PROVE ServerInv'
  <2>1. phase = "busy" /\ Last(heard).ask = "exodus_audit" /\ heard' = heard /\ said' = said /\ phase' = phase
    BY <1>10 DEF BeginAudit, Asked, serverVars
  <2>2. Ordered'  BY <2>1 DEF Ordered, Answers, Wanted, Done, IsRequest
  <2> QED  BY <2>1, <2>2
<1>11. ASSUME UNCHANGED serverVars, reading' = reading PROVE ServerInv'
  <2>1. Ordered'  BY <1>11 DEF Ordered, Answers, Wanted, Done, IsRequest, serverVars
  <2> QED  BY <1>11, <2>1 DEF serverVars
<1>12. ASSUME EndAudit PROVE Replied("result") /\ ~reading'
  BY <1>12 DEF EndAudit, CloseTrail, Broken, Notifications, Replied, Reply
<1>13. ASSUME Die PROVE ServerInv'
  <2>1. phase = "busy" /\ ~reading /\ phase' = "dead" /\ heard' = heard /\ said' = said /\ reading' = reading
    BY <1>13 DEF Die, Asked, trailVars
  <2>2. Done' = Done  BY <2>1 DEF Done
  <2>3. Ordered'  BY <2>1, <2>2 DEF Ordered, Answers, Wanted, IsRequest
  <2> QED  BY <2>1, <2>3
<1> HIDE DEF ServerInv
<1>14. CASE Handle
  BY <1>3, <1>4, <1>5, <1>6, <1>7, <1>8, <1>10, <1>11, <1>12, <1>13, <1>14 DEF Handle, ReadTrail, ReadLine
<1>15. CASE \E w \in Writers : Writing(w) /\ UNCHANGED serverVars
  BY <1>11, <1>15 DEF Writing, Write, Flush, ShortWrite, Abandon, Put, NotReading
<1>16. CASE UNCHANGED vars  BY <1>11, <1>16 DEF vars, trailVars
<1> QED  BY <1>1, <1>2, <1>4, <1>9, <1>14, <1>15, <1>16 DEF Next, EndOfInput

LEMMA TrailStep ==
  ASSUME TrailInv, [Next]_vars
  PROVE  TrailInv'
<1>1. ASSUME UNCHANGED trailVars PROVE TrailInv'
  <2>1. PICK C : Trail(C)  BY DEF TrailInv
  <2>2. LeftInv' /\ FileInv(C)' /\ ApartInv'
    BY <1>1, <2>1 DEF trailVars, Trail, LeftInv, FileInv, ApartInv, Begun
  <2>3. ReadInv(C)'  BY <1>1, <2>1 DEF trailVars, Trail, ReadInv
  <2> QED  BY <2>2, <2>3 DEF TrailInv, Trail
<1>2. CASE Hear \/ EndOfInput \/ Verify  BY <1>1, <1>2 DEF Hear, EndOfInput, Verify
<1>3. CASE Handle
  <2>1. CASE Ignore \/ Result \/ Refuse \/ Mask \/ ToolFails \/ Die
    BY <1>1, <2>1 DEF Ignore, Result, Refuse, Mask, ToolFails, Die
  <2>2. CASE BeginAudit  BY <2>2, OpenKeeps DEF BeginAudit
  <2>3. CASE ReadTrail  BY <2>3, ReadKeeps DEF ReadTrail
  <2>4. CASE EndAudit  BY <2>4, CloseKeeps DEF EndAudit
  <2> QED  BY <1>3, <2>1, <2>2, <2>3, <2>4 DEF Handle
<1>4. CASE \E w \in Writers : Writing(w) /\ UNCHANGED serverVars  BY <1>4, WritingKeeps
<1>5. CASE UNCHANGED vars  BY <1>1, <1>5 DEF vars
<1> QED  BY <1>2, <1>3, <1>4, <1>5 DEF Next

LEMMA ServerInvariant == Spec => [](TrailInv /\ ServerInv)
<1>1. Init => TrailInv /\ ServerInv  BY TrailInit1, ServerInit DEF Init
<1>2. TrailInv /\ ServerInv /\ [Next]_vars => TrailInv' /\ ServerInv'  BY TrailStep, ServerStep
<1> QED  BY <1>1, <1>2, PTL DEF Spec

-----------------------------------------------------------------------------
(* The theorems.                                                           *)

\* The file, what each writer still has to put, the summary under way and the
\* answers have their types, whatever the lines and the records
\* (mcp_server.py, main; audit/log.py, write and summarize).
THEOREM ServerTypes == Spec => []TypeOK
<1>1. ASSUME TrailInv, ServerInv PROVE TypeOK
  <2>1. PICK C : Trail(C)  BY <1>1 DEF TrailInv
  <2>2. TrailTypeOK  BY <2>1 DEF Trail, LeftInv, FileInv, ReadInv, TrailTypeOK, Cells
  <2> QED  BY <1>1, <2>2 DEF ServerInv, TypeOK
<1> QED  BY <1>1, ServerInvariant, PTL

\* A row whose halves are of two records begins at a cut, and its second half
\* goes on where there was another one.
LEMMA TwoCuts ==
  ASSUME NEW C, FileInv(C), NEW p \in 1..Len(file) - 1, file[p][2] = 1, file[p + 1][2] = 2,
         file[p][1] # file[p + 1][1]
  PROVE  p \in C /\ \E q \in C : q # p
<1>1. Chained(file, C) /\ Len(file) \in Nat  BY LenProperties DEF FileInv
<1>2. p \in 1..Len(file) /\ p + 1 \in 1..Len(file)  BY <1>1
<1>3. p \in C  BY <1>1, <1>2 DEF Chained, Cont
<1>4. PICK r : r = p + 1  OBVIOUS
<1>5. PICK q \in 1..r - 1 : (q = r - 1 \/ q \in C) /\ Cont(file[q], file[r])
  <2>1. r \in 1..Len(file) /\ file[r][2] > 1  BY <1>2, <1>4
  <2> QED  BY <1>1, <2>1 DEF Chained
<1>6. q # p  BY <1>4, <1>5 DEF Cont
<1>7. q \in C  BY <1>4, <1>5, <1>6
<1> QED  BY <1>3, <1>6, <1>7

LEMMA OneCut ==
  ASSUME NEW C, IsFiniteSet(C), Cardinality(C) < 2, NEW p \in C, NEW q \in C
  PROVE  p = q
<1>1. SUFFICES ASSUME p # q PROVE FALSE  OBVIOUS
<1>2. IsFiniteSet({p}) /\ Cardinality({p}) = 1  BY FS_Singleton
<1>3. Cardinality({p} \cup {q}) = 2  BY <1>1, <1>2, FS_AddElement
<1>4. {p} \cup {q} \in SUBSET C  OBVIOUS
<1>5. Cardinality({p} \cup {q}) <= Cardinality(C)  BY <1>4, FS_Subset
<1>6. Cardinality(C) \in Nat  BY FS_CardinalityType
<1> QED  BY <1>3, <1>5, <1>6

\* summarize takes no two records for one and counts none twice, as long as no
\* two writes were cut short (audit/log.py, summarize).
THEOREM SummaryInventsNothing == Spec => []RowsAreRecords
<1>1. ASSUME TrailInv PROVE RowsAreRecords
  <2>1. PICK C : Trail(C)  BY <1>1 DEF TrailInv
  <2>2. /\ rows \in Seq(Cells \X Cells) /\ Distinct(rows) /\ pos \in 0..Len(file)
        /\ \A i \in 1..Len(rows) : \E p \in 1..pos - 1 :
             rows[i] = <<file[p], file[p + 1]>> /\ file[p][2] = 1 /\ file[p + 1][2] = 2
    BY <2>1 DEF Trail, ReadInv
  <2>3. DOMAIN rows = 1..Len(rows)  BY <2>2, LenProperties
  <2>4. IsInjective(rows)  BY <2>2, <2>3 DEF IsInjective, Distinct
  <2>5. ASSUME tears < 2, NEW i \in 1..Len(rows) PROVE rows[i][1][1] = rows[i][2][1]
    <3>1. PICK p \in 1..pos - 1 :
            rows[i] = <<file[p], file[p + 1]>> /\ file[p][2] = 1 /\ file[p + 1][2] = 2
      BY <2>2
    <3>2. FileInv(C) /\ Len(file) \in Nat  BY <2>1, LenProperties DEF Trail, FileInv
    <3>3. p \in 1..Len(file) - 1  BY <2>2, <3>2
    <3>4. IsFiniteSet(C) /\ Cardinality(C) < 2
      <4>1. IsFiniteSet(C) /\ Cardinality(C) <= tears /\ tears \in 0..MaxTears  BY <3>2 DEF FileInv
      <4>2. Cardinality(C) \in Nat  BY <4>1, FS_CardinalityType
      <4> QED  BY <2>5, <4>1, <4>2
    <3>5. file[p][1] = file[p + 1][1]  BY <3>1, <3>2, <3>3, <3>4, TwoCuts, OneCut
    <3> QED  BY <3>1, <3>5
  <2> QED  BY <2>3, <2>4, <2>5 DEF RowsAreRecords
<1> QED  BY <1>1, ServerInvariant, PTL

\* Two records for each cut.
LEMMA HurtIsBounded ==
  ASSUME NEW f, NEW C, IsFiniteSet(C)
  PROVE  /\ IsFiniteSet(Hurt(f, C)) /\ Cardinality(Hurt(f, C)) \in Nat
         /\ Cardinality(Hurt(f, C)) <= 2 * Cardinality(C)
<1> DEFINE B == {q \in C : q < Len(f)}
           A1 == {f[p][1] : p \in C}
           A2 == {f[p + 1][1] : p \in B}
<1>1. IsFiniteSet(B) /\ Cardinality(B) <= Cardinality(C)
  <2>1. B \in SUBSET C  OBVIOUS
  <2> QED  BY <2>1, FS_Subset
<1>2. IsFiniteSet(A1) /\ Cardinality(A1) <= Cardinality(C)
  <2>1. [p \in C |-> f[p][1]] \in Surjection(C, A1)  BY DEF Surjection
  <2> QED  BY <2>1, FS_Surjection
<1>3. IsFiniteSet(A2) /\ Cardinality(A2) <= Cardinality(B)
  <2>1. [p \in B |-> f[p + 1][1]] \in Surjection(B, A2)  BY DEF Surjection
  <2> QED  BY <1>1, <2>1, FS_Surjection
<1> HIDE DEF B, A1, A2
<1>4. /\ IsFiniteSet(A1 \cup A2)
      /\ Cardinality(A1 \cup A2) = Cardinality(A1) + Cardinality(A2) - Cardinality(A1 \cap A2)
  BY <1>2, <1>3, FS_Union
<1>5. IsFiniteSet(A1 \cap A2)
  <2>1. A1 \cap A2 \in SUBSET A1  OBVIOUS
  <2> QED  BY <1>2, <2>1, FS_Subset
<1>6. /\ Cardinality(A1 \cup A2) \in Nat /\ Cardinality(A1) \in Nat /\ Cardinality(A2) \in Nat
      /\ Cardinality(A1 \cap A2) \in Nat /\ Cardinality(B) \in Nat /\ Cardinality(C) \in Nat
  BY <1>1, <1>2, <1>3, <1>4, <1>5, FS_CardinalityType
<1>7. Cardinality(A1 \cup A2) <= 2 * Cardinality(C)  BY <1>1, <1>2, <1>3, <1>4, <1>6
<1>8. Hurt(f, C) = A1 \cup A2  BY DEF Hurt, A1, A2, B
<1> QED  BY <1>4, <1>6, <1>7, <1>8

\* Each short write costs a summary at most two of the records that were
\* complete when it began (audit/log.py, write and summarize).
THEOREM LossesStayBounded == Spec => []LossesAreBounded
<1>1. ASSUME TrailInv PROVE LossesAreBounded
  <2>1. SUFFICES ASSUME ~reading
        PROVE Cardinality(Complete(since) \ {rows[i][1][1] : i \in DOMAIN rows}) <= 2 * tears
    BY DEF LossesAreBounded
  <2>2. PICK C : Trail(C)  BY <1>1 DEF TrailInv
  <2>3. PICK M : M = Complete(since) \ {rows[i][1][1] : i \in DOMAIN rows}  OBVIOUS
  <2>4. /\ pos \in 0..Len(file) /\ since \in 0..Len(file) /\ since <= pos
        /\ rows \in Seq(Cells \X Cells)
        /\ \A j \in 1..pos : file[j][2] = 3 =>
             file[j][1] \in Hurt(file, C) \/ \E i \in 1..Len(rows) : rows[i][1][1] = file[j][1]
    BY <2>1, <2>2 DEF Trail, ReadInv
  <2>5. Len(file) \in Nat /\ DOMAIN rows = 1..Len(rows)
    BY <2>2, <2>4, LenProperties DEF Trail, FileInv
  <2>6. \A r \in Complete(since) : \E j \in 1..since : file[j][2] = 3 /\ r = file[j][1]
    BY DEF Complete, IsLineEnd
  <2>7. ASSUME NEW r \in M PROVE r \in Hurt(file, C)
    <3>1. r \in Complete(since) /\ ~\E i \in 1..Len(rows) : rows[i][1][1] = r
      BY <2>3, <2>5
    <3>2. PICK j \in 1..since : file[j][2] = 3 /\ r = file[j][1]  BY <2>6, <3>1
    <3>3. j \in 1..pos  BY <2>4, <2>5
    <3> QED  BY <2>4, <3>1, <3>2, <3>3
  <2>8. /\ IsFiniteSet(C) /\ Cardinality(C) <= tears /\ tears \in Nat
        /\ Cardinality(C) \in Nat
    <3>1. IsFiniteSet(C) /\ Cardinality(C) <= tears /\ tears \in 0..MaxTears
      BY <2>2 DEF Trail, FileInv
    <3> QED  BY <3>1, FS_CardinalityType
  <2>9. PICK H : H = Hurt(file, C)  OBVIOUS
  <2>10. IsFiniteSet(H) /\ Cardinality(H) \in Nat /\ Cardinality(H) <= 2 * Cardinality(C)
    BY <2>8, <2>9, HurtIsBounded
  <2>11. IsFiniteSet(M) /\ Cardinality(M) <= Cardinality(H)
    <3>1. M \in SUBSET H  BY <2>7, <2>9
    <3> QED  BY <2>10, <3>1, FS_Subset
  <2>12. Cardinality(M) \in Nat  BY <2>11, FS_CardinalityType
  <2>13. Cardinality(M) <= 2 * tears  BY <2>8, <2>10, <2>11, <2>12
  <2> QED  BY <2>3, <2>13
<1> QED  BY <1>1, ServerInvariant, PTL

\* Requests are answered once each, in their order, and by an error only for
\* what the server does not have, whatever the lines (mcp_server.py, handle).
THEOREM RequestsAreAnswered == Spec => []RequestsAnsweredInOrder
<1>1. ASSUME ServerInv PROVE RequestsAnsweredInOrder
  <2>1. Ordered /\ said \in Seq(Answer)  BY <1>1 DEF ServerInv
  <2>2. DOMAIN said = 1..Len(said)  BY <2>1, LenProperties
  <2>3. Answers = {i \in DOMAIN said : said[i].id # NoId}  BY <2>2 DEF Answers
  <2>4. {said[i].id : i \in Answers} = Wanted  BY <2>1 DEF Ordered
  <2> QED  BY <2>1, <2>3, <2>4 DEF Ordered, RequestsAnsweredInOrder, Wanted, Done
<1> QED  BY <1>1, ServerInvariant, PTL
=============================================================================
