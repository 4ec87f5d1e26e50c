----------------------------- MODULE MCMasking -----------------------------
(* Masking on bodies of one to three short leaves, three kinds of value and *)
(* three policy files, one of which does not load.  The literal placeholder *)
(* is what the vault would mint for the first card of a body.               *)
EXTENDS Masking

CONSTANTS c1, c2, c3, c4, quote, backslash, surrogate

MCSecretKinds == {"github_token"}
MCIdentityKinds == {"credit_card"}
MCContactKinds == {"email"}
MCScanners == <<"github_token", "credit_card", "email">>

NoEntries == [x \in {} |-> 0]
MCFiles ==
  {[kinds |-> NoEntries, tiers |-> NoEntries],
   [kinds |-> [x \in {"email"} |-> LOW], tiers |-> [x \in {HIGH} |-> "block"]],
   [kinds |-> NoEntries, tiers |-> [x \in {HIGH} |-> "abstract"]]}
DefaultFile == {[kinds |-> NoEntries, tiers |-> NoEntries]}

S(text) == [text |-> text, str |-> TRUE]
K(text) == [text |-> text, str |-> FALSE]
Literal == Token("credit_card", 1)

PlainBodies ==
  {<<>>, <<S(<<c1, c2, c3, c4>>)>>, <<S(<<c1, c2, c3>>), S(<<c2, c3>>)>>,
   <<S(<<c1, c2, c1>>), K(<<c1>>), S(<<c1, c2, c1>>)>>, <<K(<<surrogate>>), S(<<c1>>)>>}
LiteralBodies == {<<S(<<c1, Literal>>)>>, <<S(<<BlockMark("credit_card"), c1>>)>>}
EscapedBodies == {<<S(<<c1, quote, c2>>)>>}

MCDetectable == {c1, c2, c3, c4, quote}
MCEscaped == {quote, backslash}
MCBodies == PlainBodies \cup LiteralBodies \cup EscapedBodies
=============================================================================
