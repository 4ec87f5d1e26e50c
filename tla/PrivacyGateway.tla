--------------------------- MODULE PrivacyGateway ---------------------------
(***************************************************************************)
(* What the proxy promises its clients, without saying how: of each body   *)
(* that comes in, at most one goes out, and shows no protected value but   *)
(* those that stand bare in what came in, where no firewall looks; what    *)
(* comes back is only ever added to, and shows protected values of that    *)
(* client's own body, or of what has gone out.                             *)
(***************************************************************************)
EXTENDS SequencesExt

CONSTANTS Requests, Bodies, Protected

VARIABLES
  stage,      \* "idle", "open" or "closed", for each request
  asked,      \* the body of each
  egress,     \* what has gone out, and for which request
  delivered   \* what each client has been sent

vars == <<stage, asked, egress, delivered>>

Init ==
  /\ stage = [r \in Requests |-> "idle"]
  /\ asked = [r \in Requests |-> <<>>] /\ delivered = asked
  /\ egress = {}

Accept(r) ==
  /\ stage[r] = "idle" /\ stage' = [stage EXCEPT ![r] = "open"]
  /\ \E b \in Bodies : asked' = [asked EXCEPT ![r] = b]
  /\ UNCHANGED <<egress, delivered>>

\* The protected values of a body that stand bare in it, and all it shows.
InTheOpen(s) == {v \in Protected : <<"bare", v>> \in Range(s)}
Shows(s) == (Range(s) \cap Protected) \cup InTheOpen(s)

WentOut(r) == \E e \in egress : e.req = r

Forward(r) ==
  /\ stage[r] = "open" /\ ~WentOut(r)
  /\ \E e \in egress' : /\ e.req = r /\ Shows(e.body) \subseteq InTheOpen(asked[r])
                        /\ egress' = egress \cup {e}
  /\ UNCHANGED <<stage, asked, delivered>>

\* More of the answer, or the last of it.
Deliver(r) ==
  /\ stage[r] = "open" /\ WentOut(r)
  /\ \E s \in {"open", "closed"} : stage' = [stage EXCEPT ![r] = s]
  /\ \E d \in {delivered'[r]} :
       /\ delivered' = [delivered EXCEPT ![r] = d]
       /\ IsPrefix(delivered[r], d)
       /\ Shows(d) \subseteq Shows(asked[r]) \cup UNION {Shows(e.body) : e \in egress}
  /\ UNCHANGED <<asked, egress>>

\* Requests may end at any time, one of them or, when the process dies, all.
Close ==
  /\ \E S \in SUBSET {r \in Requests : stage[r] = "open"} :
       stage' = [r \in Requests |-> IF r \in S THEN "closed" ELSE stage[r]]
  /\ UNCHANGED <<asked, egress, delivered>>

Next == (\E r \in Requests : Accept(r) \/ Forward(r) \/ Deliver(r)) \/ Close

Spec == Init /\ [][Next]_vars
=============================================================================
