---------------------------- MODULE Attestation ----------------------------
(***************************************************************************)
(* The attestation handshake: verify_url of src/exodus/verify.py takes the *)
(* certificate of a proxy, sends it a fresh nonce, and judges the document *)
(* that comes back; build_report of src/exodus/attest.py makes it, from a  *)
(* quote the enclave gives over what was last written to a pseudo-file.    *)
(*                                                                         *)
(* An address may lead to any of several processes, as behind a load       *)
(* balancer, and to a front that ends the TLS connection; a process may be *)
(* started anew between two steps of a verifier, and be asked by others,   *)
(* with the nonce of a verification too; and what a verifier receives is   *)
(* any document at all, with any quote that an enclave has given.  (That a *)
(* quote is one is left to the caller: verify.py does not check signatures.)*)
(*                                                                         *)
(* A nonce is the sequence of its parts, as a bar divides them: a challenge *)
(* is one part, which is fresh; others may ask with more than one.         *)
(***************************************************************************)
EXTENDS Naturals, SequencesExt

CONSTANTS
  Challenges,   \* the verifications; each stands for what it draws, which is fresh
  Call,         \* how each is called: [https, pin, allow_simulated]
  Servers,      \* the processes an address leads to
  Configs,      \* how one is started: [kind, build, binding, serves]
  Inquiries,    \* the nonces with which others ask
  Forms,        \* what a document received may say: [nonce, binding, simulated, data]
  None,         \* no certificate, no pinned build, nothing written, nobody served
  MaxInquiries, \* bound: how often others ask
  MaxRestarts   \* bound: how often a process is started anew

ASSUME NoneIsNothing == None # "dcap"
ASSUME InquiriesType == \A n \in Inquiries : n # <<>> /\ n \in Seq(Range(n))
ASSUME BoundsAreNumbers == MaxRestarts \in Nat /\ MaxInquiries \in Nat
ASSUME CallType ==
  \A c \in Challenges : Call[c].https \in BOOLEAN /\ Call[c].allow_simulated \in BOOLEAN

VARIABLES
  config,     \* each process: attestation type, build, tls_fingerprint, and the
              \* certificate of the connections to it
  waiting,    \* requests not yet handled
  handler,    \* the request each event loop is in, and how far
  file,       \* user_report_data, by process
  docs,       \* every document answered
  answers,    \* history: whom each was made for, and by what
  pc, seen, got, trusted,  \* of each verification: step, fingerprint, document, verdict
  inquiries, restarts

vars == <<config, waiting, handler, file, docs, answers, pc, seen, got, trusted, inquiries, restarts>>

-----------------------------------------------------------------------------
Nonces == {<<c>> : c \in Challenges} \cup Inquiries

\* Faulty variant: the certificate is left out of what the server commits to.
NonceOnly(nonce, binding) == nonce

\* _report_data_for: a digest stands for the text it is taken of, that is for
\* the nonce and, behind a bar, the fingerprint.
ReportDataFor(nonce, binding) == IF binding = None THEN nonce ELSE Append(nonce, binding)

\* expected_report_data, the verifier's copy of it.
ExpectedReportData(nonce, binding) == IF binding = None THEN nonce ELSE Append(nonce, binding)

PinHolds(c, q) == Call[c].pin = None \/ q.build = Call[c].pin

\* Faulty variant: what is expected is computed from the nonce of the document.
AcceptsItsWord(c, binding, d) ==
  LET want == ExpectedReportData(d.nonce, binding)
  IN  /\ binding # None => d.binding = binding
      /\ d.data = want
      /\ IF d.simulated THEN Call[c].allow_simulated
         ELSE d.quote # {} /\ \A q \in d.quote : q.data = want /\ PinHolds(c, q)

\* verify_document: no check of it fails.
Accepts(c, binding, d) ==
  LET want == ExpectedReportData(<<c>>, binding)
  IN  /\ d.nonce = <<c>>
      /\ binding # None => d.binding = binding
      /\ d.data = want
      /\ IF d.simulated THEN Call[c].allow_simulated
         ELSE d.quote # {} /\ \A q \in d.quote : q.data = want /\ PinHolds(c, q)

-----------------------------------------------------------------------------
Idle == [for |-> <<>>, kind |-> None, written |-> FALSE]

Init ==
  /\ config \in [Servers -> Configs]
  /\ waiting = [s \in Servers |-> {}]
  /\ handler = [s \in Servers |-> Idle]
  /\ file = [s \in Servers |-> <<>>]
  /\ docs = {} /\ answers = {}
  /\ pc = [c \in Challenges |-> "start"]
  /\ seen = [c \in Challenges |-> None]
  /\ got = [c \in Challenges |-> {}]
  /\ trusted = [c \in Challenges |-> FALSE]
  /\ inquiries = 0 /\ restarts = 0

Served == <<config, waiting, handler, file, docs, answers, inquiries, restarts>>

\* verify_url takes the fingerprint of the certificate, over https only.
Observe(c) ==
  /\ pc[c] = "start" /\ pc' = [pc EXCEPT ![c] = "ask"]
  /\ IF Call[c].https
     THEN \E s \in Servers : config[s].serves # None /\ seen' = [seen EXCEPT ![c] = config[s].serves]
     ELSE UNCHANGED seen
  /\ UNCHANGED <<Served, got, trusted>>

\* httpx.get: another connection, which may lead to another process.
Ask(c) ==
  /\ pc[c] = "ask" /\ pc' = [pc EXCEPT ![c] = "asked"]
  /\ \E s \in Servers :
       /\ (config[s].serves # None) = Call[c].https
       /\ waiting' = [waiting EXCEPT ![s] = @ \cup {<<c>>}]
  /\ UNCHANGED <<config, handler, file, docs, answers, inquiries, restarts, seen, got, trusted>>

\* Another client asks a process, with a nonce of its own or one it has been
\* sent, whole or in part.
Inquire(s, n) ==
  /\ inquiries < MaxInquiries /\ inquiries' = inquiries + 1
  /\ \A c \in Challenges \cap Range(n) : pc[c] \in {"asked", "judged"}
  /\ waiting' = [waiting EXCEPT ![s] = @ \cup {n}]
  /\ UNCHANGED <<config, handler, file, docs, answers, restarts, pc, seen, got, trusted>>

Quotes == UNION {d.quote : d \in docs}

\* What may come back, on a connection nobody vouches for: the documents made
\* so far, or anything else with one of their quotes or none.
Receivable ==
  docs \cup {[nonce |-> f.nonce, binding |-> f.binding, simulated |-> f.simulated,
              data |-> f.data, quote |-> quote] : f \in Forms, quote \in {{}} \cup {{q} : q \in Quotes}}

\* A document comes and is judged. It is kept in got if a process made it for
\* this challenge, or if it is trusted.
Receive(c) ==
  /\ pc[c] = "asked" /\ pc' = [pc EXCEPT ![c] = "judged"]
  /\ \E d \in Receivable :
       LET verdict == Accepts(c, seen[c], d) IN
         /\ trusted' = [trusted EXCEPT ![c] = verdict]
         /\ got' = [got EXCEPT ![c] = IF verdict \/ (d \in docs /\ d.nonce = <<c>>) THEN {d} ELSE {}]
  /\ UNCHANGED <<Served, seen>>

\* A connection fails, the timeout passes, or the answer is an error.
GiveUp(c) ==
  /\ pc[c] \in {"start", "ask", "asked"} /\ pc' = [pc EXCEPT ![c] = "raised"]
  /\ UNCHANGED <<Served, seen, got, trusted>>

\* Faulty variant: the route is a plain function, run in a thread of its own.
BeginAnytime(s) ==
  /\ \E n \in waiting[s], kind \in {config[s].kind, "unavailable"} :
       /\ handler' = [handler EXCEPT ![s] = [for |-> n, kind |-> kind, written |-> handler[s].written]]
       /\ waiting' = [waiting EXCEPT ![s] = @ \ {n}]
  /\ UNCHANGED <<config, file, docs, answers, inquiries, restarts, pc, seen, got, trusted>>

\* The event loop enters attest_report, which has no await: no other request of
\* the process runs before it returns. attestation_type may fail to read.
Begin(s) ==
  /\ handler[s] = Idle
  /\ \E n \in waiting[s], kind \in {config[s].kind, "unavailable"} :
       /\ handler' = [handler EXCEPT ![s] = [for |-> n, kind |-> kind, written |-> FALSE]]
       /\ waiting' = [waiting EXCEPT ![s] = @ \ {n}]
  /\ UNCHANGED <<config, file, docs, answers, inquiries, restarts, pc, seen, got, trusted>>

\* Faulty variant: the pseudo-file is written in whatever environment.
WriteAnywhere(s) ==
  /\ handler[s] # Idle /\ ~handler[s].written
  /\ file' = [file EXCEPT ![s] = ReportDataFor(handler[s].for, config[s].binding)]
  /\ handler' = [handler EXCEPT ![s].written = TRUE]
  /\ UNCHANGED <<config, waiting, docs, answers, inquiries, restarts, pc, seen, got, trusted>>

Write(s) ==
  /\ handler[s].kind = "dcap" /\ ~handler[s].written
  /\ file' = [file EXCEPT ![s] = ReportDataFor(handler[s].for, config[s].binding)]
  /\ handler' = [handler EXCEPT ![s].written = TRUE]
  /\ UNCHANGED <<config, waiting, docs, answers, inquiries, restarts, pc, seen, got, trusted>>

\* build_report returns a document with this quote, or none of use.
Answer(s, simulated, quote) ==
  LET n == handler[s].for
  IN  /\ docs' = docs \cup {[nonce |-> n, binding |-> config[s].binding, simulated |-> simulated,
                             data |-> ReportDataFor(n, config[s].binding), quote |-> quote]}
      /\ answers' = answers \cup {[for |-> n, binding |-> config[s].binding,
                                   simulated |-> simulated, build |-> config[s].build]}
      /\ handler' = [handler EXCEPT ![s] = Idle]
      /\ UNCHANGED <<config, waiting, file, inquiries, restarts, pc, seen, got, trusted>>

\* The quote is over what the file holds; it may also be cut, or empty.
AnswerQuoted(s) ==
  /\ handler[s].kind = "dcap" /\ handler[s].written
  /\ \E quote \in {{}, {[build |-> config[s].build, data |-> file[s]]}} : Answer(s, FALSE, quote)

AnswerSimulated(s) ==
  /\ handler[s] # Idle /\ handler[s].kind # "dcap"
  /\ Answer(s, TRUE, {})

\* A pseudo-file cannot be opened, written or read: the request ends in an error.
Fail(s) ==
  /\ handler[s].kind = "dcap"
  /\ handler' = [handler EXCEPT ![s] = Idle]
  /\ UNCHANGED <<config, waiting, file, docs, answers, inquiries, restarts, pc, seen, got, trusted>>

\* exodus serve, anew: with another certificate perhaps, or another build.
Restart(s) ==
  /\ restarts < MaxRestarts /\ restarts' = restarts + 1
  /\ \E new \in Configs : config' = [config EXCEPT ![s] = new]
  /\ waiting' = [waiting EXCEPT ![s] = {}]
  /\ handler' = [handler EXCEPT ![s] = Idle]
  /\ file' = [file EXCEPT ![s] = <<>>]
  /\ UNCHANGED <<docs, answers, inquiries, pc, seen, got, trusted>>

Next ==
  \/ \E c \in Challenges : Observe(c) \/ Ask(c) \/ Receive(c) \/ GiveUp(c)
  \/ \E s \in Servers : Begin(s) \/ Write(s) \/ AnswerQuoted(s) \/ AnswerSimulated(s) \/ Fail(s) \/ Restart(s)
  \/ \E s \in Servers, n \in Inquiries : Inquire(s, n)

Spec == Init /\ [][Next]_vars

-----------------------------------------------------------------------------
TypeOK ==
  /\ config \in [Servers -> Configs] /\ restarts \in 0..MaxRestarts /\ inquiries \in 0..MaxInquiries
  /\ \A s \in Servers :
       /\ waiting[s] \subseteq Nonces /\ handler[s].for \in Nonces \cup {<<>>}
       /\ file[s] # <<>> => config[s].kind = "dcap"
  /\ \A c \in Challenges :
       /\ pc[c] \in {"start", "ask", "asked", "judged", "raised"}
       /\ got[c] \subseteq Receivable /\ (trusted[c] => pc[c] = "judged")

\* A process of the pinned build, in an enclave, has answered this very
\* challenge for the certificate the verifier had seen: either that is its
\* tls_fingerprint, or, having none, it was asked for the two joined by a bar.
Earned(c) ==
  \E a \in answers :
    /\ ~a.simulated /\ PinHolds(c, a)
    /\ \/ a.for = <<c>> /\ a.binding = seen[c]
       \/ a.for = <<c, seen[c]>> /\ a.binding = None

\* A trusted verdict was earned, or the verifier waived the hardware. Whatever
\* process, restart or old document the verifier's two connections led to, and
\* whoever wrote what came back.
TrustIsEarned ==
  \A c \in Challenges : trusted[c] =>
    got[c] # {} /\ \A d \in got[c] : IF d.simulated THEN Call[c].allow_simulated ELSE Earned(c)

\* The quote in a document is over the commitment the document states, however
\* many challenges a process is sent at once.
QuotesAreOwn == \A d \in docs : \A q \in d.quote : q.data = d.data

\* A verifier that gets the document made for it by the process whose
\* certificate it has seen, quoted in hardware and of the pinned build, trusts it.
HonestIsTrusted ==
  \A c \in Challenges : \A d \in got[c] \cap docs : \A q \in d.quote :
    d.nonce = <<c>> /\ d.binding = seen[c] /\ PinHolds(c, q) => trusted[c]
=============================================================================
