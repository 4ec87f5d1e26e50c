---------------------------- MODULE Minimization ----------------------------
(***************************************************************************)
(* What contextual_pass promises the proxy: the texts of the user in a     *)
(* body may be replaced, any of them, and nothing else changes; or the     *)
(* pass raises.  This is the local pass as Proxy has it, in one step.      *)
(***************************************************************************)
EXTENDS Naturals, Sequences

CONSTANTS Bodies, Replacements

VARIABLES body, phase, contents
vars == <<body, phase, contents>>

\* A text of the user, whether it is the whole content of a message or a block.
UsersText(p) == p.role = "user" /\ p.form \in {"string", "text"}

Init == body \in Bodies /\ phase = "asked" /\ contents = <<>>

Minimize ==
  /\ phase = "asked" /\ phase' = "returned"
  /\ \E replaced \in [1..Len(body.pieces) -> Replacements],
        T \in SUBSET {i \in 1..Len(body.pieces) : body.form = "messages" /\ UsersText(body.pieces[i])} :
       contents' = [i \in 1..Len(body.pieces) |-> IF i \in T THEN replaced[i] ELSE body.pieces[i].text]
  /\ UNCHANGED body

Fail == phase = "asked" /\ phase' = "failed" /\ UNCHANGED <<body, contents>>

\* The pass ends, whatever the model does meanwhile.
Spec == Init /\ [][Minimize \/ Fail]_vars /\ <>(phase # "asked")
=============================================================================
