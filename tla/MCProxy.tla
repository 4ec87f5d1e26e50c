------------------------------ MODULE MCProxy ------------------------------
(* Proxy with two requests at once and one connection for them.  Their     *)
(* bodies hold the same two tokens in either order, so that one            *)
(* placeholder stands for another value in the other request.  In one of   *)
(* them a token stands where the firewall does not look.                   *)
EXTENDS Proxy, TLC

CONSTANTS r1, r2, k1, k2, card, mail, word

MCSecretKinds == {"github_token"}
MCIdentityKinds == {"credit_card"}
MCContactKinds == {"email"}

MCKind == [v \in {k1, k2, card, mail} |->
             CASE v \in {k1, k2} -> "github_token" [] v = card -> "credit_card" [] v = mail -> "email"]

\* Identity numbers are blocked, the rest is as by default.
MCPolicyFile == [kinds |-> [k \in {} |-> HIGH], tiers |-> [t \in {HIGH} |-> "block"]]

\* A body may hold the text of the placeholder it is given, as a transcript does.
Literal == <<"EXODUS", "github_token", 1>>
MCProse == {word, Literal}
MCLiteral == {Literal}

MCBodies == {<<k1, k2>>, <<k2, card>>, <<mail, Bare(k2)>>, <<Literal, k1>>}
Symmetric == Permutations(Requests)

MCGuesses == {<<"EXODUS", "github_token", 2>>}
=============================================================================
