------------------------- MODULE AttestationProofs -------------------------
(***************************************************************************)
(* A trusted verdict is earned, for any number of verifiers, processes,    *)
(* certificates, builds and restarts.                                      *)
(*                                                                         *)
(* The argument: while a handler has written its commitment, the file of   *)
(* its process holds it (HandlerInv), since no other handler of the process*)
(* runs; so a document a process makes, and the quote in it, commit to the *)
(* nonce and the certificate it was made for (DocsInv).  What a verifier   *)
(* receives may say anything, but its quote was in such a document, and    *)
(* there are two ways only to commit to a challenge and a certificate      *)
(* (WhoseCommitment).                                                      *)
(***************************************************************************)
EXTENDS Attestation, SequenceTheorems, TLAPS

Commitments == {<<>>} \cup {ReportDataFor(n, k.binding) : n \in Nonces, k \in Configs}
Handlers ==
  [for : Nonces \cup {<<>>}, kind : {k.kind : k \in Configs} \cup {None, "unavailable"}, written : BOOLEAN]

Types ==
  /\ config \in [Servers -> Configs]
  /\ waiting \in [Servers -> SUBSET Nonces]
  /\ handler \in [Servers -> Handlers]
  /\ file \in [Servers -> Commitments]
  /\ pc \in [Challenges -> {"start", "ask", "asked", "judged", "raised"}]
  /\ seen \in [Challenges -> {k.serves : k \in Configs} \cup {None}]
  /\ got \in [Challenges -> SUBSET Receivable]
  /\ trusted \in [Challenges -> BOOLEAN]
  /\ restarts \in 0..MaxRestarts /\ inquiries \in 0..MaxInquiries

HandlerInv ==
  \A s \in Servers :
    /\ handler[s].for = <<>> => handler[s] = Idle
    /\ handler[s].kind = "dcap" => config[s].kind = "dcap"
    /\ file[s] # <<>> => config[s].kind = "dcap"
    /\ handler[s].written => file[s] = ReportDataFor(handler[s].for, config[s].binding)

Origin(d, a) ==
  /\ d.nonce = a.for /\ d.binding = a.binding /\ d.data = ReportDataFor(a.for, a.binding)
  /\ d.simulated = a.simulated
  /\ d.quote = {} \/ (~d.simulated /\ d.quote = {[build |-> a.build, data |-> d.data]})

DocsInv ==
  /\ \A d \in docs : \E a \in answers : Origin(d, a)
  /\ \A a \in answers : a.for \in Nonces /\ \E k \in Configs : a.binding = k.binding

VerdictInv ==
  \A c \in Challenges :
    /\ trusted[c] => got[c] # {}
    /\ \A d \in got[c] : pc[c] = "judged" /\ trusted[c] = Accepts(c, seen[c], d)

IInv == Types /\ HandlerInv /\ DocsInv /\ VerdictInv

\* Every nonce has a part.
LEMMA NoncesAreSeqs == \A n \in Nonces : n # <<>> /\ \E P : n \in Seq(P)
<1> SUFFICES ASSUME NEW n \in Nonces PROVE n # <<>> /\ \E P : n \in Seq(P)
  OBVIOUS
<1>1. CASE n \in Inquiries
  BY <1>1, InquiriesType
<1>2. CASE \E c \in Challenges : n = <<c>>
  <2>1. PICK c \in Challenges : n = <<c>>  BY <1>2
  <2>2. n \in Seq({c}) /\ n # <<>>  BY <2>1
  <2> QED  BY <2>2
<1> QED  BY <1>1, <1>2 DEF Nonces

\* What binds a challenge to a certificate, or to none, is the challenge asked
\* of a process with that certificate, or the two asked of one without.
LEMMA WhoseCommitment ==
  ASSUME NEW c \in Challenges, NEW seenFp, NEW n \in Nonces, NEW k \in Configs,
         ReportDataFor(n, k.binding) = ExpectedReportData(<<c>>, seenFp)
  PROVE  \/ n = <<c>> /\ k.binding = seenFp
         \/ n = <<c, seenFp>> /\ k.binding = None
<1> DEFINE b == k.binding
           want == ExpectedReportData(<<c>>, seenFp)
<1>1. PICK P : n \in Seq(P) /\ n # <<>>  BY NoncesAreSeqs
<1>2. Append(<<c>>, seenFp) = <<c, seenFp>>
  <2>1. PICK E : E = {c, seenFp}  OBVIOUS
  <2>2. PICK one : one = <<c>>  OBVIOUS
  <2>3. PICK two : two = <<c, seenFp>>  OBVIOUS
  <2>4. Len(one) = 1 /\ one[1] = c  BY <2>2
  <2>10. seenFp \in E /\ one \in Seq(E)  BY <2>1, <2>2
  <2>5. two \in Seq(E) /\ Len(two) = 2 /\ two[1] = c /\ two[2] = seenFp
    BY <2>1, <2>3
  <2>6. PICK long : long = Append(one, seenFp)  OBVIOUS
  <2>7. long \in Seq(E) /\ Len(long) = 2 /\ long[1] = c /\ long[2] = seenFp
    <3>1. /\ Append(one, seenFp) \in Seq(E) /\ Len(Append(one, seenFp)) = Len(one) + 1
          /\ \A i \in 1..Len(one) : Append(one, seenFp)[i] = one[i]
          /\ Append(one, seenFp)[Len(one) + 1] = seenFp
      BY <2>10, AppendProperties
    <3>2. long \in Seq(E) /\ Len(long) = Len(one) + 1 /\ long[Len(one) + 1] = seenFp
          /\ \A i \in 1..Len(one) : long[i] = one[i]
      BY <2>6, <3>1
    <3> QED  BY <2>4, <3>2
  <2>8. \A i \in 1..2 : long[i] = two[i]
    <3>1. \A i \in 1..2 : i = 1 \/ i = 2  OBVIOUS
    <3> QED  BY <2>5, <2>7, <3>1
  <2>9. long = two  BY <2>5, <2>7, <2>8, SeqEqual
  <2> QED  BY <2>2, <2>3, <2>6, <2>9
<1>3. CASE b = None
  <2>1. n = want  BY <1>3 DEF ReportDataFor
  <2> QED  BY <1>2, <1>3, <2>1 DEF ExpectedReportData
<1>4. CASE b # None
  <2>1. Append(n, b) = want  BY <1>4 DEF ReportDataFor
  <2>2. /\ Len(n) \in Nat /\ DOMAIN n = 1..Len(n) /\ Len(Append(n, b)) = Len(n) + 1
        /\ Append(n, b)[Len(n) + 1] = b /\ \A i \in 1..Len(n) : Append(n, b)[i] = n[i]
    <3>1. P \subseteq P \cup {b} /\ b \in P \cup {b}  OBVIOUS
    <3>2. n \in Seq(P \cup {b})  BY <1>1, <3>1, SeqMonotonic
    <3>3. Len(n) \in Nat /\ DOMAIN n = 1..Len(n)  BY <3>2, LenProperties
    <3> QED  BY <3>1, <3>2, <3>3, AppendProperties
  <2>3. Len(n) # 0  BY <1>1, EmptySeq
  <2>4. CASE seenFp = None
    <3>1. want = <<c>>  BY <2>4 DEF ExpectedReportData
    <3>2. Len(<<c>>) = 1  OBVIOUS
    <3> HIDE DEF want
    <3> QED  BY <2>1, <2>2, <2>3, <3>1, <3>2
  <2>5. CASE seenFp # None
    <3>1. want = <<c, seenFp>>  BY <1>2, <2>5 DEF ExpectedReportData
    <3>2. Len(<<c, seenFp>>) = 2 /\ <<c, seenFp>>[1] = c /\ <<c, seenFp>>[2] = seenFp  OBVIOUS
    <3> HIDE DEF want
    <3>3. Len(n) = 1  BY <2>1, <2>2, <3>1, <3>2
    <3>4. n[1] = c /\ b = seenFp  BY <2>1, <2>2, <3>1, <3>2, <3>3
    <3>5. n = <<c>>  BY <1>1, <2>2, <3>3, <3>4
    <3> QED  BY <3>4, <3>5
  <2> QED  BY <2>4, <2>5
<1> QED  BY <1>3, <1>4

\* What can be received stays receivable.
LEMMA ReceivableGrows == docs \subseteq docs' => Receivable \subseteq Receivable'
BY DEF Receivable, Quotes

LEMMA InitInv == Init => IInv
<1> SUFFICES ASSUME Init PROVE IInv  OBVIOUS
<1>1. Idle \in Handlers  BY DEF Idle, Handlers
<1>2. Types  BY <1>1, BoundsAreNumbers DEF Init, Types, Commitments
<1>3. HandlerInv  BY NoneIsNothing DEF Init, HandlerInv, Idle
<1>4. DocsInv /\ VerdictInv  BY DEF Init, DocsInv, VerdictInv
<1> QED  BY <1>2, <1>3, <1>4 DEF IInv

\* Steps of a verifier leave the processes and what they have answered alone.
LEMMA VerifierStep ==
  ASSUME IInv, NEW c \in Challenges, Observe(c) \/ Ask(c) \/ Receive(c) \/ GiveUp(c)
  PROVE  IInv'
<1>1. UNCHANGED <<config, handler, file, docs, answers, inquiries, restarts>>
  BY DEF Observe, Ask, Receive, GiveUp, Served
<1>7. Receivable' = Receivable  BY <1>1 DEF Receivable, Quotes
<1>2. HandlerInv'  BY <1>1 DEF IInv, HandlerInv
<1>3. DocsInv'  BY <1>1 DEF IInv, DocsInv
<1>4. CASE Observe(c)
  <2>1. UNCHANGED <<waiting, got, trusted>>  BY <1>4 DEF Observe, Served
  <2>2. Types'
    <3>1. seen' \in [Challenges -> {k.serves : k \in Configs} \cup {None}]
      BY <1>4 DEF IInv, Types, Observe
    <3>2. pc' \in [Challenges -> {"start", "ask", "asked", "judged", "raised"}]
      BY <1>4 DEF IInv, Types, Observe
    <3> QED  BY <1>1, <1>7, <2>1, <3>1, <3>2 DEF IInv, Types
  <2>3. VerdictInv'
    <3> SUFFICES ASSUME NEW x \in Challenges
                 PROVE  /\ trusted[x] => got[x] # {}
                        /\ \A d \in got[x] : pc'[x] = "judged" /\ trusted[x] = Accepts(x, seen'[x], d)
      BY <2>1 DEF VerdictInv, Accepts
    <3>1. CASE x = c
      <4>1. got[c] = {}  BY <1>4 DEF IInv, VerdictInv, Observe
      <4> QED  BY <3>1, <4>1 DEF IInv, VerdictInv
    <3>2. CASE x # c
      <4>1. pc'[x] = pc[x] /\ seen'[x] = seen[x]  BY <1>4, <3>2 DEF IInv, Types, Observe
      <4> QED  BY <4>1 DEF IInv, VerdictInv
    <3> QED  BY <3>1, <3>2
  <2> QED  BY <1>2, <1>3, <2>2, <2>3 DEF IInv
<1>5. CASE Ask(c) \/ GiveUp(c)
  <2>1. UNCHANGED <<seen, got, trusted>>  BY <1>5 DEF Ask, GiveUp
  <2>2. Types'
    <3>1. waiting' \in [Servers -> SUBSET Nonces]
      <4>1. <<c>> \in Nonces  BY DEF Nonces
      <4> QED  BY <1>5, <4>1 DEF IInv, Types, Ask, GiveUp, Served
    <3>2. pc' \in [Challenges -> {"start", "ask", "asked", "judged", "raised"}]
      BY <1>5 DEF IInv, Types, Ask, GiveUp
    <3> QED  BY <1>1, <1>7, <2>1, <3>1, <3>2 DEF IInv, Types
  <2>3. VerdictInv'
    <3> SUFFICES ASSUME NEW x \in Challenges
                 PROVE  /\ trusted[x] => got[x] # {}
                        /\ \A d \in got[x] : pc'[x] = "judged" /\ trusted[x] = Accepts(x, seen[x], d)
      BY <2>1 DEF VerdictInv, Accepts
    <3>1. CASE x = c
      <4>1. got[c] = {}  BY <1>5 DEF IInv, VerdictInv, Ask, GiveUp
      <4> QED  BY <3>1, <4>1 DEF IInv, VerdictInv
    <3>2. CASE x # c
      <4>1. pc'[x] = pc[x]  BY <1>5, <3>2 DEF IInv, Types, Ask, GiveUp
      <4> QED  BY <4>1 DEF IInv, VerdictInv
    <3> QED  BY <3>1, <3>2
  <2> QED  BY <1>2, <1>3, <2>2, <2>3 DEF IInv
<1>6. CASE Receive(c)
  <2>1. UNCHANGED <<waiting, seen>>  BY <1>6 DEF Receive, Served
  <2>9. PICK d \in Receivable :
          /\ trusted' = [trusted EXCEPT ![c] = Accepts(c, seen[c], d)]
          /\ got' = [got EXCEPT ![c] =
                       IF Accepts(c, seen[c], d) \/ (d \in docs /\ d.nonce = <<c>>) THEN {d} ELSE {}]
    BY <1>6 DEF Receive
  <2> DEFINE D == IF Accepts(c, seen[c], d) \/ (d \in docs /\ d.nonce = <<c>>) THEN {d} ELSE {}
  <2>2. /\ got' = [got EXCEPT ![c] = D] /\ D \in SUBSET {d}
        /\ Accepts(c, seen[c], d) => D = {d}
    BY <2>9
  <2> HIDE DEF D
  <2>3. Accepts(c, seen[c], d) \in BOOLEAN  BY DEF Accepts
  <2>4. pc' \in [Challenges -> {"start", "ask", "asked", "judged", "raised"}] /\ pc'[c] = "judged"
    BY <1>6 DEF IInv, Types, Receive
  <2>5. got' \in [Challenges -> SUBSET Receivable]  BY <2>2 DEF IInv, Types
  <2>6. trusted' \in [Challenges -> BOOLEAN]  BY <2>3, <2>9 DEF IInv, Types
  <2>7. Types'  BY <1>1, <1>7, <2>1, <2>4, <2>5, <2>6 DEF IInv, Types
  <2>8. VerdictInv'
    <3> SUFFICES ASSUME NEW x \in Challenges
                 PROVE  /\ trusted'[x] => got'[x] # {}
                        /\ \A e \in got'[x] : pc'[x] = "judged" /\ trusted'[x] = Accepts(x, seen[x], e)
      BY <2>1, ZenonT(30) DEF VerdictInv, Accepts
    <3>1. CASE x = c
      <4>1. got'[c] = D /\ trusted'[c] = Accepts(c, seen[c], d)  BY <2>2, <2>9 DEF IInv, Types
      <4> QED  BY <2>2, <2>4, <3>1, <4>1
    <3>2. CASE x # c
      <4>1. pc'[x] = pc[x] /\ got'[x] = got[x] /\ trusted'[x] = trusted[x]
        BY <1>6, <2>2, <2>9, <3>2 DEF IInv, Types, Receive
      <4> QED  BY <4>1 DEF IInv, VerdictInv
    <3> QED  BY <3>1, <3>2
  <2> QED  BY <1>2, <1>3, <2>7, <2>8 DEF IInv
<1> QED  BY <1>4, <1>5, <1>6

\* Steps of a process leave the verdicts alone; none takes an answer back.
LEMMA ServerStep ==
  ASSUME IInv, NEW s \in Servers,
         Begin(s) \/ Write(s) \/ AnswerQuoted(s) \/ AnswerSimulated(s) \/ Fail(s) \/ Restart(s)
  PROVE  IInv'
<1>1. UNCHANGED <<pc, seen, got, trusted>>
  BY DEF Begin, Write, AnswerQuoted, AnswerSimulated, Answer, Fail, Restart
<1>2. VerdictInv'  BY <1>1, ZenonT(30) DEF IInv, VerdictInv, Accepts
<1>11. got' \in [Challenges -> SUBSET Receivable']
  <2>1. docs \subseteq docs'
    BY DEF Begin, Write, AnswerQuoted, AnswerSimulated, Answer, Fail, Restart
  <2>2. Receivable \subseteq Receivable'  BY <2>1, ReceivableGrows
  <2> QED  BY <1>1, <2>2 DEF IInv, Types
<1>12. inquiries' = inquiries
  BY DEF Begin, Write, AnswerQuoted, AnswerSimulated, Answer, Fail, Restart
<1>3. Idle \in Handlers  BY DEF Idle, Handlers
<1>4. CASE Begin(s)
  <2>1. UNCHANGED <<config, file, docs, answers, restarts>>  BY <1>4 DEF Begin
  <2>2. PICK n \in waiting[s], kind \in {config[s].kind, "unavailable"} :
          /\ handler' = [handler EXCEPT ![s] = [for |-> n, kind |-> kind, written |-> FALSE]]
          /\ waiting' = [waiting EXCEPT ![s] = @ \ {n}]
    BY <1>4 DEF Begin
  <2>3. n \in Nonces /\ n # <<>> /\ config[s] \in Configs  BY NoncesAreSeqs DEF IInv, Types
  <2>4. [for |-> n, kind |-> kind, written |-> FALSE] \in Handlers  BY <2>3 DEF Handlers
  <2>5. Types'  BY <1>1, <1>11, <1>12, <2>1, <2>2, <2>4 DEF IInv, Types
  <2>6. HandlerInv'
    BY <2>1, <2>2, <2>3, NoneIsNothing DEF IInv, Types, HandlerInv
  <2>7. DocsInv'  BY <2>1 DEF IInv, DocsInv
  <2> QED  BY <1>2, <2>5, <2>6, <2>7 DEF IInv
<1>5. CASE Write(s)
  <2> DEFINE data == ReportDataFor(handler[s].for, config[s].binding)
  <2>1. UNCHANGED <<config, waiting, docs, answers, restarts>>  BY <1>5 DEF Write
  <2>2. file' = [file EXCEPT ![s] = data] /\ handler' = [handler EXCEPT ![s].written = TRUE]
    BY <1>5 DEF Write
  <2>3. handler[s].for \in Nonces /\ config[s].kind = "dcap" /\ handler[s].kind = "dcap"
    <3>1. handler[s].kind = "dcap"  BY <1>5 DEF Write
    <3>2. handler[s].for # <<>>  BY <3>1, NoneIsNothing DEF IInv, HandlerInv, Idle
    <3> QED  BY <3>1, <3>2 DEF IInv, Types, HandlerInv, Handlers
  <2>4. data \in Commitments  BY <2>3 DEF IInv, Types, Commitments
  <2>5. handler' \in [Servers -> Handlers]  BY <2>2, ZenonT(30) DEF IInv, Types, Handlers
  <2>6. file' \in [Servers -> Commitments]  BY <2>2, <2>4 DEF IInv, Types
  <2>7. Types'  BY <1>1, <1>11, <1>12, <2>1, <2>5, <2>6 DEF IInv, Types
  <2>8. /\ handler'[s].for = handler[s].for /\ handler'[s].kind = "dcap" /\ file'[s] = data
        /\ \A t \in Servers \ {s} : handler'[t] = handler[t] /\ file'[t] = file[t]
    BY <2>2, <2>3 DEF IInv, Types, Handlers
  <2>9. HandlerInv'
    <3> SUFFICES ASSUME NEW t \in Servers
                 PROVE  /\ handler'[t].for = <<>> => handler'[t] = Idle
                        /\ handler'[t].kind = "dcap" => config[t].kind = "dcap"
                        /\ file'[t] # <<>> => config[t].kind = "dcap"
                        /\ handler'[t].written => file'[t] = ReportDataFor(handler'[t].for, config[t].binding)
      BY <2>1 DEF HandlerInv, Idle, ReportDataFor
    <3>1. CASE t = s
      <4>1. handler[s].for # <<>>  BY <2>3, NoncesAreSeqs
      <4> QED  BY <3>1, <4>1, <2>3, <2>8
    <3>2. CASE t # s  BY <3>2, <2>8 DEF IInv, HandlerInv
    <3> QED  BY <3>1, <3>2
  <2>10. DocsInv'  BY <2>1 DEF IInv, DocsInv
  <2> QED  BY <1>2, <2>7, <2>9, <2>10 DEF IInv
<1>6. ASSUME NEW simulated \in BOOLEAN, NEW quote, Answer(s, simulated, quote), handler[s] # Idle,
             quote = {} \/ (~simulated /\ quote =
               {[build |-> config[s].build, data |-> ReportDataFor(handler[s].for, config[s].binding)]})
      PROVE  IInv'
  <2> DEFINE n == handler[s].for
             d == [nonce |-> n, binding |-> config[s].binding, simulated |-> simulated,
                   data |-> ReportDataFor(n, config[s].binding), quote |-> quote]
             a == [for |-> n, binding |-> config[s].binding,
                   simulated |-> simulated, build |-> config[s].build]
  <2>1. /\ docs' = docs \cup {d} /\ answers' = answers \cup {a}
        /\ handler' = [handler EXCEPT ![s] = Idle]
        /\ UNCHANGED <<config, waiting, file, restarts>>
    BY <1>6 DEF Answer
  <2>2. Types'  BY <1>1, <1>11, <1>12, <1>3, <2>1 DEF IInv, Types
  <2>3. HandlerInv'  BY <2>1, NoneIsNothing DEF IInv, Types, HandlerInv, Idle
  <2>4. Origin(d, a)  BY <1>6 DEF Origin
  <2>5. DocsInv'
    <3> HIDE DEF d, a
    <3>1. \A e \in docs : \E b \in answers : Origin(e, b)  BY DEF IInv, DocsInv
    <3>2. \A e \in docs' : \E b \in answers' : Origin(e, b)  BY <2>1, <2>4, <3>1
    <3>3. handler[s].for \in Nonces /\ config[s] \in Configs
      BY <1>6 DEF IInv, Types, HandlerInv, Handlers
    <3>4. a.for \in Nonces /\ \E k \in Configs : a.binding = k.binding  BY <3>3 DEF a
    <3>5. \A b \in answers' : b.for \in Nonces /\ \E k \in Configs : b.binding = k.binding
      BY <2>1, <3>4 DEF IInv, DocsInv
    <3> QED  BY <3>2, <3>5 DEF DocsInv, Origin, ReportDataFor
  <2> QED  BY <1>2, <2>2, <2>3, <2>5 DEF IInv
<1>7. CASE AnswerQuoted(s)
  <2>1. PICK quote \in {{}, {[build |-> config[s].build, data |-> file[s]]}} : Answer(s, FALSE, quote)
    BY <1>7 DEF AnswerQuoted
  <2>2. file[s] = ReportDataFor(handler[s].for, config[s].binding)
    BY <1>7 DEF AnswerQuoted, IInv, HandlerInv
  <2>3. handler[s] # Idle  BY <1>7, NoneIsNothing DEF AnswerQuoted, Idle
  <2> QED  BY <1>6, <2>1, <2>2, <2>3
<1>8. CASE AnswerSimulated(s)
  BY <1>6, <1>8 DEF AnswerSimulated
<1>9. CASE Fail(s)
  <2>1. handler' = [handler EXCEPT ![s] = Idle]
        /\ UNCHANGED <<config, waiting, file, docs, answers, restarts>>
    BY <1>9 DEF Fail
  <2>2. Types'  BY <1>1, <1>11, <1>12, <1>3, <2>1 DEF IInv, Types
  <2>3. HandlerInv'  BY <2>1, NoneIsNothing DEF IInv, Types, HandlerInv, Idle
  <2>4. DocsInv'  BY <2>1 DEF IInv, DocsInv
  <2> QED  BY <1>2, <2>2, <2>3, <2>4 DEF IInv
<1>10. CASE Restart(s)
  <2>1. PICK new \in Configs : config' = [config EXCEPT ![s] = new]  BY <1>10 DEF Restart
  <2>2. /\ waiting' = [waiting EXCEPT ![s] = {}] /\ handler' = [handler EXCEPT ![s] = Idle]
        /\ file' = [file EXCEPT ![s] = <<>>] /\ restarts' = restarts + 1 /\ restarts < MaxRestarts
        /\ UNCHANGED <<docs, answers>>
    BY <1>10 DEF Restart
  <2>3. Types'
    <3>1. restarts' \in 0..MaxRestarts  BY <2>2, BoundsAreNumbers DEF IInv, Types
    <3>2. config' \in [Servers -> Configs]  BY <2>1 DEF IInv, Types
    <3>3. waiting' \in [Servers -> SUBSET Nonces] /\ file' \in [Servers -> Commitments]
      BY <2>2 DEF IInv, Types, Commitments
    <3>4. handler' \in [Servers -> Handlers]  BY <1>3, <2>2 DEF IInv, Types
    <3> QED  BY <1>1, <1>11, <1>12, <2>2, <3>1, <3>2, <3>3, <3>4 DEF IInv, Types
  <2>4. HandlerInv'
    <3> SUFFICES ASSUME NEW t \in Servers
                 PROVE  /\ handler'[t].for = <<>> => handler'[t] = Idle
                        /\ handler'[t].kind = "dcap" => config'[t].kind = "dcap"
                        /\ file'[t] # <<>> => config'[t].kind = "dcap"
                        /\ handler'[t].written => file'[t] = ReportDataFor(handler'[t].for, config'[t].binding)
      BY DEF HandlerInv, Idle, ReportDataFor
    <3>1. CASE t = s
      <4>1. handler'[t] = Idle /\ file'[t] = <<>>  BY <3>1, <2>2 DEF IInv, Types
      <4> QED  BY <4>1, NoneIsNothing DEF Idle
    <3>2. CASE t # s
      <4>1. handler'[t] = handler[t] /\ file'[t] = file[t] /\ config'[t] = config[t]
        BY <3>2, <2>1, <2>2 DEF IInv, Types
      <4> QED  BY <4>1 DEF IInv, HandlerInv
    <3> QED  BY <3>1, <3>2
  <2>5. DocsInv'  BY <2>2 DEF IInv, DocsInv
  <2> QED  BY <1>2, <2>3, <2>4, <2>5 DEF IInv
<1> QED  BY <1>4, <1>5, <1>7, <1>8, <1>9, <1>10

\* Somebody else asks: the nonce waits, and nothing else happens.
LEMMA InquireStep == ASSUME IInv, NEW s \in Servers, NEW n \in Inquiries, Inquire(s, n) PROVE IInv'
<1>1. UNCHANGED <<config, handler, file, docs, answers, restarts, pc, seen, got, trusted>>
  BY DEF Inquire
<1>2. Receivable' = Receivable  BY <1>1 DEF Receivable, Quotes
<1>3. waiting' \in [Servers -> SUBSET Nonces]  BY DEF Inquire, IInv, Types, Nonces
<1>4. inquiries' \in 0..MaxInquiries  BY BoundsAreNumbers DEF Inquire, IInv, Types
<1>5. Types'  BY <1>1, <1>2, <1>3, <1>4 DEF IInv, Types
<1>6. HandlerInv' /\ DocsInv'  BY <1>1 DEF IInv, HandlerInv, DocsInv
<1>7. VerdictInv'  BY <1>1, ZenonT(30) DEF IInv, VerdictInv, Accepts
<1> QED  BY <1>5, <1>6, <1>7 DEF IInv

LEMMA StepInv == IInv /\ [Next]_vars => IInv'
<1> SUFFICES ASSUME IInv, [Next]_vars PROVE IInv'  OBVIOUS
<1>1. CASE UNCHANGED vars
  <2>1. UNCHANGED <<config, waiting, handler, file, docs, answers, pc, seen, got, trusted,
               inquiries, restarts>>
    BY <1>1 DEF vars
  <2>6. Receivable' = Receivable  BY <2>1 DEF Receivable, Quotes
  <2>2. Types'  BY <2>1, <2>6 DEF IInv, Types
  <2>3. HandlerInv'  BY <2>1 DEF IInv, HandlerInv
  <2>4. DocsInv'  BY <2>1 DEF IInv, DocsInv
  <2>5. VerdictInv'  BY <2>1, ZenonT(30) DEF IInv, VerdictInv, Accepts
  <2> QED  BY <2>2, <2>3, <2>4, <2>5 DEF IInv
<1>2. CASE Next  BY <1>2, VerifierStep, ServerStep, InquireStep DEF Next
<1> QED  BY <1>1, <1>2

LEMMA InvHolds == Spec => []IInv
BY InitInv, StepInv, PTL DEF Spec

-----------------------------------------------------------------------------
(* Type correctness: only a process in an enclave ever writes the file.    *)
THEOREM AttestationTypes == Spec => []TypeOK
<1>1. IInv => TypeOK
  BY DEF IInv, Types, HandlerInv, VerdictInv, Handlers, TypeOK
<1> QED  BY <1>1, InvHolds, PTL

(* The quote in a document is over the commitment it states.               *)
THEOREM QuotesCommit == Spec => []QuotesAreOwn
<1>1. IInv => QuotesAreOwn  BY DEF IInv, DocsInv, Origin, QuotesAreOwn
<1> QED  BY <1>1, InvHolds, PTL

(* A verdict is trusted for what a process of the pinned build, in an      *)
(* enclave, has answered to this challenge, bound to the certificate the   *)
(* verifier had seen, or if the verifier takes a simulated document:       *)
(* whoever wrote the document that came back.                              *)
THEOREM TrustMeansAnswered == Spec => []TrustIsEarned
<1>1. IInv => TrustIsEarned
  <2> SUFFICES ASSUME IInv, NEW c \in Challenges, trusted[c]
               PROVE  got[c] # {} /\ \A d \in got[c] : IF d.simulated THEN Call[c].allow_simulated ELSE Earned(c)
    BY DEF TrustIsEarned
  <2>1. got[c] # {}  BY DEF IInv, VerdictInv
  <2>2. ASSUME NEW d \in got[c]
        PROVE  IF d.simulated THEN Call[c].allow_simulated ELSE Earned(c)
    <3>1. Accepts(c, seen[c], d)  BY DEF IInv, VerdictInv
    <3>2. CASE d.simulated  BY <3>1, <3>2 DEF Accepts
    <3>3. CASE ~d.simulated
      <4>1. PICK q \in d.quote : q.data = ExpectedReportData(<<c>>, seen[c]) /\ PinHolds(c, q)
        BY <3>1, <3>3 DEF Accepts
      <4>2. d \in Receivable  BY DEF IInv, Types
      <4>3. q \in Quotes  BY <4>1, <4>2 DEF Receivable, Quotes
      <4>4. PICK e \in docs : q \in e.quote  BY <4>3 DEF Quotes
      <4>5. PICK a \in answers : Origin(e, a)  BY DEF IInv, DocsInv
      <4>6. ~a.simulated /\ q.build = a.build /\ q.data = ReportDataFor(a.for, a.binding)
        BY <4>4, <4>5 DEF Origin
      <4>7. PICK k \in Configs : a.binding = k.binding /\ a.for \in Nonces
        BY DEF IInv, DocsInv
      <4>8. \/ a.for = <<c>> /\ a.binding = seen[c]
            \/ a.for = <<c, seen[c]>> /\ a.binding = None
        BY <4>1, <4>6, <4>7, WhoseCommitment
      <4>9. PinHolds(c, a)  BY <4>1, <4>6 DEF PinHolds
      <4> QED  BY <3>3, <4>6, <4>8, <4>9 DEF Earned
    <3> QED  BY <3>2, <3>3
  <2> QED  BY <2>1, <2>2
<1> QED  BY <1>1, InvHolds, PTL

(* A verifier trusts the document that was made for it.                    *)
THEOREM HonestAnswersAreTrusted == Spec => []HonestIsTrusted
<1>1. IInv => HonestIsTrusted
  <2> SUFFICES ASSUME IInv, NEW c \in Challenges, NEW d \in got[c] \cap docs, NEW q \in d.quote,
                      d.nonce = <<c>>, d.binding = seen[c], PinHolds(c, q)
               PROVE  trusted[c]
    BY DEF HonestIsTrusted
  <2>1. PICK a \in answers : Origin(d, a)  BY DEF IInv, DocsInv
  <2>2. d.data = ExpectedReportData(<<c>>, seen[c])
    BY <2>1 DEF Origin, ExpectedReportData, ReportDataFor
  <2>3. ~d.simulated /\ \A r \in d.quote : r = q /\ r.data = d.data  BY <2>1 DEF Origin
  <2>4. Accepts(c, seen[c], d)  BY <2>2, <2>3 DEF Accepts
  <2> QED  BY <2>4 DEF IInv, VerdictInv
<1> QED  BY <1>1, InvHolds, PTL
=============================================================================
