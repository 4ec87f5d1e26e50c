------------------------------- MODULE Proxy -------------------------------
(***************************************************************************)
(* The proxy of src/exodus/proxy/server.py: many requests at once on one   *)
(* event loop, each through the local pass, the firewall, the audit log,   *)
(* the upstream and back through the restorer, with a pool of upstream     *)
(* connections and an audit file they share.                               *)
(*                                                                         *)
(* A body or an answer is a sequence of items: prose, detected values, the *)
(* placeholders and the block marks put for them, and bare values, which   *)
(* stand where the firewall does not look: in a body that is not JSON, in  *)
(* a key, in a number.  How values are found and replaced is the subject   *)
(* of Masking, how placeholders cut in two are restored that of            *)
(* StreamRestorer; here the restorer hands on some prefix of the restored  *)
(* answer, and the rest when it is flushed.                                *)
(*                                                                         *)
(* Between two awaits the handler runs alone, so each action is the code   *)
(* from one await to the next.                                             *)
(***************************************************************************)
EXTENDS Policy, SequencesExt

CONSTANTS
  Requests,
  Prose,        \* items in which nothing is detected
  Kind,         \* the kind of each detected value
  PolicyFile,   \* the policy file the process starts with
  Bodies,       \* the bodies clients send
  Guesses,      \* placeholders an upstream may write without having seen them
  LocalModel,   \* EXODUS_LOCAL_MODEL
  NoRestore,    \* EXODUS_NO_RESTORE
  Inspect,      \* EXODUS_INSPECT
  Rewritten,    \* the prose the local pass puts for a text
  PoolSize,     \* connections the HTTP client opens at most
  MaxAnswer,    \* bound: items of an answer
  MaxCrashes    \* bound: crashes of the process

VARIABLES
  pc,         \* where each request's handler is
  body,       \* original_body
  work,       \* body, after the local pass
  masked,     \* sanitized
  vault,      \* the request's vault: placeholder -> value
  held,       \* the requests whose upstream connection is not given back
  answer,     \* what the upstream has answered
  delivered,  \* what the client has been sent
  egress,     \* every body that went upstream
  audit,      \* the audit file
  log,        \* the inspection log
  crashes

vars == <<pc, body, work, masked, vault, held, answer, delivered, egress, audit, log, crashes>>

-----------------------------------------------------------------------------
Values == DOMAIN Kind
ActionOf(v) == ActionForKind(FromYaml(PolicyFile), Kind[v])
Reversible == {v \in Values : ActionOf(v) = "pseudonymize"}
Protected == {v \in Values : ActionOf(v) # "forward"}

\* A value the firewall does not look at.
Bare(v) == <<"bare", v>>
BareItems == {Bare(v) : v \in Values}

ASSUME ProseIsProse == Prose \cap (Values \cup BareItems) = {} /\ Rewritten \in Prose
ASSUME TokensAreNew ==
  Values \cap (({"EXODUS"} \X Range(Kind) \X Nat) \cup ({"EXODUS-BLOCKED"} \X Range(Kind))) = {}
ASSUME BareIsApart == BareItems \cap Values = {}
ASSUME GuessesAreNoValues == Guesses \cap (Values \cup BareItems) = {}
ASSUME BodiesType == Bodies \subseteq Seq(Prose \cup Values \cup BareItems)
ASSUME PolicyLoads == Loads(PolicyFile)
ASSUME BoundsAreNumbers == PoolSize \in Nat /\ MaxAnswer \in Nat /\ MaxCrashes \in Nat

\* Faulty variant: numbers are given once the whole body is walked.
NumberAtEnd(b, v) == Cardinality(Range(b) \cap Reversible)

\* The number placeholder_for gives v in b: values are numbered as they are met.
Number(b, v) ==
  Cardinality({b[j] : j \in {k \in 1..Len(b) : b[k] \in Reversible /\ \A l \in 1..k - 1 : b[l] # v}})

Token(b, v) == <<"EXODUS", Kind[v], Number(b, v)>>
Mark(v) == <<"EXODUS-BLOCKED", Kind[v]>>

\* sanitize_request_body: the masked body, the vault, and what was applied.
\* What is forwarded and what is bare stays as it is.
Mask(b) ==
  [i \in 1..Len(b) |->
     IF b[i] \in Reversible THEN Token(b, b[i])
     ELSE IF b[i] \in Protected THEN Mark(b[i])
     ELSE b[i]]

\* Faulty variants: blocked values are remembered too; one vault for the process.
VaultOfAll(b) ==
  LET kept == Range(b) \cap Protected
  IN  [t \in {Token(b, v) : v \in kept} |-> CHOOSE v \in kept : Token(b, v) = t]
SharedVault(b) ==
  LET own == {Token(b, v) : v \in Range(b) \cap Reversible}
      others == UNION {DOMAIN vault[r] : r \in Requests}
  IN  [t \in own \cup others |->
         IF t \in own THEN CHOOSE v \in Range(b) \cap Reversible : Token(b, v) = t
         ELSE vault[CHOOSE r \in Requests : t \in DOMAIN vault[r]][t]]

VaultOf(b) ==
  LET kept == Range(b) \cap Reversible
  IN  [t \in {Token(b, v) : v \in kept} |-> CHOOSE v \in kept : Token(b, v) = t]

Note(applied, v) == IF v \in Protected THEN Append(applied, v) ELSE applied
Applied(b) == FoldLeft(Note, <<>>, b)
Records(r, b) ==
  [i \in 1..Len(Applied(b)) |->
     [req |-> r, kind |-> Kind[Applied(b)[i]], action |-> ActionOf(Applied(b)[i])]]

Restore(v, s) == [i \in 1..Len(s) |-> IF s[i] \in DOMAIN v THEN v[s[i]] ELSE s[i]]

\* Faulty variant: EXODUS_NO_RESTORE is not looked at.
ShownRestored(r, s) == Restore(vault[r], s)

\* What the client is sent for the answer s to request r.
Shown(r, s) == IF NoRestore THEN s ELSE Restore(vault[r], s)

-----------------------------------------------------------------------------
Init ==
  /\ pc = [r \in Requests |-> "idle"]
  /\ body = [r \in Requests |-> <<>>] /\ work = body /\ masked = body
  /\ vault = [r \in Requests |-> [t \in {} |-> t]]
  /\ held = {}
  /\ answer = body /\ delivered = body
  /\ egress = {} /\ audit = <<>> /\ log = {}
  /\ crashes = 0

Goto(r, from, to) == pc[r] = from /\ pc' = [pc EXCEPT ![r] = to]

\* await request.body()
Arrive(r) ==
  /\ Goto(r, "idle", "arrived")
  /\ \E b \in Bodies : body' = [body EXCEPT ![r] = b] /\ work' = [work EXCEPT ![r] = b]
  /\ UNCHANGED <<masked, vault, held, answer, delivered, egress, audit, log, crashes>>

\* The places of a body that are texts, of which contextual_pass reads some.
Texts(b) == {i \in 1..Len(b) : b[i] \notin BareItems}

\* contextual_pass, when there is a local model, in a thread: any of the texts
\* of the user may have been rewritten or blocked.
Prepare(r) ==
  /\ Goto(r, "arrived", "prepared")
  /\ \E T \in IF LocalModel THEN SUBSET Texts(work[r]) ELSE {{}} :
       work' = [work EXCEPT ![r] = [i \in 1..Len(work[r]) |-> IF i \in T THEN Rewritten ELSE work[r][i]]]
  /\ UNCHANGED <<body, masked, vault, held, answer, delivered, egress, audit, log, crashes>>

\* contextual_pass raises: the body it has changed does not encode.
PrepareFails(r) ==
  /\ LocalModel /\ Texts(work[r]) # {} /\ Goto(r, "arrived", "failed")
  /\ UNCHANGED <<body, work, masked, vault, held, answer, delivered, egress, audit, log, crashes>>

\* The firewall and the audit records, with no await between.
Sanitize(r) ==
  /\ Goto(r, "prepared", "ready")
  /\ masked' = [masked EXCEPT ![r] = Mask(work[r])]
  /\ vault' = [vault EXCEPT ![r] = VaultOf(work[r])]
  /\ audit' = audit \o Records(r, work[r])
  /\ UNCHANGED <<body, work, held, answer, delivered, egress, log, crashes>>

\* Faulty variant: what audit.write raises is swallowed, and the request goes on.
AuditFailsQuietly(r) ==
  /\ Goto(r, "prepared", "ready")
  /\ masked' = [masked EXCEPT ![r] = Mask(work[r])]
  /\ vault' = [vault EXCEPT ![r] = VaultOf(work[r])]
  /\ UNCHANGED <<body, work, held, answer, delivered, egress, audit, log, crashes>>

\* sanitize_request_body raises, on a body with something replaced that does not
\* encode, or audit.write does with some of the records written whole (a part of
\* a record is no record): the handler ends there.
AuditFails(r) ==
  /\ Goto(r, "prepared", "failed")
  /\ Records(r, work[r]) # <<>>
  /\ \E n \in 0..Len(Records(r, work[r])) - 1 : audit' = audit \o SubSeq(Records(r, work[r]), 1, n)
  /\ UNCHANGED <<body, work, masked, vault, held, answer, delivered, egress, log, crashes>>

\* upstream.send takes a connection of the pool and writes the request.
Send(r) ==
  /\ Goto(r, "ready", "sent")
  /\ Cardinality(held) < PoolSize
  /\ held' = held \cup {r}
  /\ egress' = egress \cup {[req |-> r, body |-> masked[r]]}
  /\ UNCHANGED <<body, work, masked, vault, answer, delivered, audit, log, crashes>>

\* Faulty variant: a request waits for a connection without a timeout.
SendFailsOnceSent(r) ==
  /\ Goto(r, "sent", "failed") /\ held' = held \ {r}
  /\ UNCHANGED <<body, work, masked, vault, answer, delivered, egress, audit, log, crashes>>

\* build_request or upstream.send raises: a request that cannot be built, no
\* connection in time, or no answer on it.
SendFails(r) ==
  /\ \/ Goto(r, "ready", "failed") /\ UNCHANGED held
     \/ Goto(r, "sent", "failed") /\ held' = held \ {r}
  /\ UNCHANGED <<body, work, masked, vault, answer, delivered, egress, audit, log, crashes>>

\* upstream.send returns with the head of the answer; its body is not read yet.
Answered(r) ==
  /\ Goto(r, "sent", "answered")
  /\ UNCHANGED <<body, work, masked, vault, held, answer, delivered, egress, audit, log, crashes>>

\* The server starts to iterate over body_iter.
Start(r) ==
  /\ Goto(r, "answered", "streaming")
  /\ UNCHANGED <<body, work, masked, vault, held, answer, delivered, egress, audit, log, crashes>>

\* StreamingResponse is not built, or not started: body_iter's finally clause is
\* never reached, and nothing else closes the answer of the upstream.
StartFails(r) ==
  /\ Goto(r, "answered", "failed")
  /\ UNCHANGED <<body, work, masked, vault, held, answer, delivered, egress, audit, log, crashes>>

\* The protected values one can read in s.
Shows(s) == {v \in Protected : {v, Bare(v)} \cap Range(s) # {}}

\* Those that went upstream, in the body of any request.
SentRaw == UNION {Shows(e.body) : e \in egress}

\* What an upstream can write: prose, and what it was sent or makes up.
Utterable == Prose \cup Guesses \cup SentRaw \cup UNION {Range(e.body) : e \in egress}

\* Faulty variant: what is held back may have been handed on already.
RelayAgain(r) ==
  /\ pc[r] = "streaming" /\ Len(answer[r]) < MaxAnswer
  /\ \E item \in Utterable :
       LET s == Append(answer[r], item) IN
         /\ answer' = [answer EXCEPT ![r] = s]
         /\ \E n \in IF NoRestore THEN {Len(s)} ELSE 0..Len(s) :
              delivered' = [delivered EXCEPT ![r] = SubSeq(Shown(r, s), 1, n)]
  /\ UNCHANGED <<pc, body, work, masked, vault, held, egress, audit, log, crashes>>

\* A chunk comes, is fed to the restorer, and what that returns is yielded.
Relay(r) ==
  /\ pc[r] = "streaming" /\ Len(answer[r]) < MaxAnswer
  /\ \E item \in Utterable :
       LET s == Append(answer[r], item) IN
         /\ answer' = [answer EXCEPT ![r] = s]
         /\ \E n \in IF NoRestore THEN {Len(s)} ELSE Len(delivered[r])..Len(s) :
              delivered' = [delivered EXCEPT ![r] = SubSeq(Shown(r, s), 1, n)]
  /\ UNCHANGED <<pc, body, work, masked, vault, held, egress, audit, log, crashes>>

\* Faulty variant: the exchange is recorded before the restorer is flushed.
CompleteRecordingFirst(r) ==
  /\ Goto(r, "streaming", "done")
  /\ delivered' = [delivered EXCEPT ![r] = Shown(r, answer[r])]
  /\ Inspect /\ log' = log \cup {[req |-> r, wrote |-> body[r], sent |-> masked[r], received |-> delivered[r]]}
  /\ held' = held \ {r}
  /\ UNCHANGED <<body, work, masked, vault, answer, egress, audit, crashes>>

\* The answer ends: the restorer is flushed, the exchange recorded when that is
\* on (a record that cannot be written is given up), the connection given back.
Complete(r) ==
  /\ Goto(r, "streaming", "done")
  /\ delivered' = [delivered EXCEPT ![r] = Shown(r, answer[r])]
  /\ \/ Inspect /\ log' = log \cup {[req |-> r, wrote |-> body[r], sent |-> masked[r], received |-> delivered'[r]]}
     \/ UNCHANGED log
  /\ held' = held \ {r}
  /\ UNCHANGED <<body, work, masked, vault, answer, egress, audit, crashes>>

\* Faulty variant: the connection is given back only when the answer ends.
BreakOffHolding(r) ==
  /\ Goto(r, "streaming", "broken")
  /\ UNCHANGED <<body, work, masked, vault, held, answer, delivered, egress, audit, log, crashes>>

\* The answer breaks off, or the client does: the finally clause still runs.
BreakOff(r) ==
  /\ Goto(r, "streaming", "broken")
  /\ held' = held \ {r}
  /\ UNCHANGED <<body, work, masked, vault, answer, delivered, egress, audit, log, crashes>>

Ended == {"done", "broken", "failed", "lost"}

\* The process dies and starts again: its requests and connections are lost.
Crash ==
  /\ crashes < MaxCrashes
  /\ crashes' = crashes + 1
  /\ pc' = [r \in Requests |-> IF pc[r] \in Ended \cup {"idle"} THEN pc[r] ELSE "lost"]
  /\ held' = {}
  /\ UNCHANGED <<body, work, masked, vault, answer, delivered, egress, audit, log>>

\* What the handler does of itself, or is made to do by a timeout.
Handle(r) ==
  \/ Prepare(r) \/ PrepareFails(r) \/ Sanitize(r) \/ AuditFails(r) \/ Send(r) \/ SendFails(r)
  \/ Answered(r) \/ Start(r) \/ StartFails(r) \/ Relay(r) \/ Complete(r) \/ BreakOff(r)

Next == (\E r \in Requests : Arrive(r) \/ Handle(r)) \/ Crash

\* Every await of the handler ends: the timeouts of the client library bound
\* those on the upstream, and a client reads or goes away.
Fairness == \A r \in Requests : WF_vars(Handle(r))

Spec == Init /\ [][Next]_vars /\ Fairness

-----------------------------------------------------------------------------
TypeOK ==
  /\ pc \in [Requests -> Ended \cup {"idle", "arrived", "prepared", "ready", "sent", "answered", "streaming"}]
  /\ held \subseteq Requests
  /\ \A r \in Requests :
       /\ Len(answer[r]) <= MaxAnswer /\ Len(delivered[r]) <= Len(answer[r])
       /\ Range(vault[r]) \subseteq Reversible
  /\ \A e \in egress : e.req \in Requests
  /\ crashes \in 0..MaxCrashes

\* A client is only ever sent protected values of its own body and those an
\* upstream was sent because they stood where the firewall does not look,
\* whatever placeholders the upstream writes into its answer, those of the
\* other requests in flight included.
Isolation == \A r \in Requests : Shows(delivered[r]) \subseteq Shows(body[r]) \cup SentRaw

\* The audit file by request, each with its records in the order of the file.
File(filed, a) == [filed EXCEPT ![a.req] = Append(@, a)]
ByRequest(file) == FoldLeft(File, [r \in Requests |-> <<>>], file)

\* A body goes upstream only after all that was done to it is in the audit
\* file, in order, whatever the other requests write there and whether or not
\* the process has died since.
AuditedBeforeEgress ==
  \A e \in egress : ByRequest(audit)[e.req] = Records(e.req, work[e.req])

\* INV-3 end to end: a client whose masked body comes back as the answer is
\* sent the body that left the local pass, but for what was blocked, unless the
\* body itself holds the text of a placeholder it is given.
EchoRoundTrips ==
  \A r \in Requests :
    /\ pc[r] = "done" /\ answer[r] = masked[r] /\ ~NoRestore
    /\ Range(work[r]) \cap DOMAIN vault[r] = {}
    =>
      delivered[r] = [i \in 1..Len(work[r]) |->
        IF work[r][i] \in Protected \ Reversible THEN Mark(work[r][i]) ELSE work[r][i]]

\* With EXODUS_NO_RESTORE the client sees what the cloud saw, and no protected
\* value the cloud did not.
NothingRestored ==
  NoRestore => \A r \in Requests : Shows(delivered[r]) \subseteq SentRaw

\* A connection is out of the pool only for a request on its way, or for one
\* that has failed, of which the code leaves those whose response was never
\* started.
ConnectionsAccounted ==
  /\ Cardinality(held) <= PoolSize
  /\ \A r \in held : pc[r] \in {"sent", "answered", "streaming", "failed"}

\* What the inspection log holds of an exchange is what went upstream and what
\* the client was sent, and only of exchanges that were completed.
InspectionIsTrue ==
  \A e \in log : pc[e.req] = "done"
                 /\ [req |-> e.req, body |-> e.sent] \in egress
                 /\ e.received = delivered[e.req] /\ e.wrote = body[e.req]

\* The proxy as its clients see it, whatever goes on inside: it does no more
\* than a gateway that forwards each body once, with no protected value but the
\* bare ones of that body, and whose answers only grow and hold nothing of
\* another client that was not sent upstream.
StageOf(place) ==
  CASE place = "idle" -> "idle" [] place \in Ended -> "closed" [] OTHER -> "open"
Gateway == INSTANCE PrivacyGateway WITH asked <- body, stage <- [r \in Requests |-> StageOf(pc[r])]
IsPrivacyGateway == Gateway!Spec

\* Every request that came in is answered, refused or broken off, even when
\* connections leak until none is left.
EveryRequestEnds == \A r \in Requests : pc[r] = "arrived" ~> pc[r] \in Ended

\* Upstream.send: "Caller must aclose() the returned response", so a request
\* that has ended has given its connection back.
EveryResponseClosed == \A r \in held : pc[r] \notin Ended
=============================================================================
