---------------------------- MODULE MCLocalPass ----------------------------
(* LocalPass with bodies of up to three pieces, two of them texts of the   *)
(* user, and those it leaves alone: an answer of the assistant, a tool's   *)
(* result, a text with half of a character, and bodies without messages.   *)
EXTENDS LocalPass

CONSTANTS t1, t2, t3, brief, broken

Piece(role, form, text) == [role |-> role, form |-> form, text |-> text]

MCBodies ==
  {[form |-> "messages", pieces |-> ps] : ps \in
     {<<Piece("user", "string", t1), Piece("assistant", "string", t2), Piece("user", "text", t3)>>,
      <<Piece("user", "text", t1), Piece("user", "text", t1)>>,
      <<Piece("user", "other", t1), Piece("assistant", "text", t2)>>,
      <<Piece("user", "string", t1), Piece("assistant", "string", broken)>>}}
  \cup {[form |-> f, pieces |-> <<Piece("user", "string", t1)>>] : f \in {"not json", "no messages"}}
=============================================================================
