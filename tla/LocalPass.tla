----------------------------- MODULE LocalPass -----------------------------
(***************************************************************************)
(* contextual_pass of src/exodus/transform/pipeline.py: each text of the   *)
(* user in a request body is shown to a local model, which says how        *)
(* sensitive it is and rewrites it when it is too sensitive.  The model is *)
(* a server of its own (or a library that may fail to load) that goes away *)
(* and comes back, and fails, at any point of the pass.                    *)
(*                                                                         *)
(* A body is a sequence of pieces: a message whose content is a string is  *)
(* one piece, one whose content is a list has a piece for each block.      *)
(***************************************************************************)
EXTENDS Sensitivity, Sequences, FiniteSets, SequencesExt

CONSTANTS
  Bodies,       \* the bodies passed in
  Rewritings,   \* what the model may write for a text
  Empty,        \* ... when nothing is left of it once stripped
  BlockMark,    \* BLOCK_MARK
  Unencodable,  \* the texts UTF-8 cannot encode: JSON can escape a lone surrogate
  MinTier,      \* min_tier
  MaxFlips      \* bound: how often the model goes away or comes back

ASSUME BodiesHavePieces == \A b \in Bodies : b.pieces \in Seq(Range(b.pieces))
ASSUME BoundsAreSound == MinTier \in PUBLIC..HIGH /\ MaxFlips \in Nat

VARIABLES
  up,        \* the model answers
  flips,
  body,      \* the body, as parsed
  at,        \* the piece the loop is at
  stage,     \* how far it is with that piece
  out,       \* new content of the pieces before at
  statuses,  \* statuses
  result,    \* what is returned: the content of each piece, and how it is encoded
  said,      \* history: the tier words the model answered for each piece
  engaged,   \* history: the pieces the model was asked about
  raised     \* history: those for which the model failed

vars == <<up, flips, body, at, stage, out, statuses, result, said, engaged, raised>>

TierWords == {"HIGH", "MEDIUM", "LOW", "PUBLIC"}
TierOf(w) == CASE w = "HIGH" -> HIGH [] w = "MEDIUM" -> MEDIUM [] w = "LOW" -> LOW [] w = "PUBLIC" -> PUBLIC

\* Faulty variant: an answer without a tier word is taken for harmless.
ParseHarmless(words) == Max({TierOf(w) : w \in words} \cup {PUBLIC})

\* The tier of an answer, given the tier words that occur in it.
ParseTier(words) == IF words = {} THEN HIGH ELSE Max({TierOf(w) : w \in words})

\* Faulty variant: whose text it is, is not looked at.
ForAnyone(p) == p.form \in {"string", "text"}

\* A text of the user: the content itself, or a block of type text.
ForModel(p) == p.role = "user" /\ p.form \in {"string", "text"}

Contents(b) == [i \in 1..Len(b.pieces) |-> b.pieces[i].text]

\* Faulty variant: a blocked text alone does not count as a change.
OnlyAbstracted(ss) == \E i \in 1..Len(ss) : ss[i] = "abstracted"

Changed(ss) == \E i \in 1..Len(ss) : ss[i] \in {"abstracted", "blocked"}

-----------------------------------------------------------------------------
Init ==
  /\ up \in BOOLEAN /\ flips = 0
  /\ body \in Bodies
  /\ at = 1 /\ stage = "next" /\ out = <<>> /\ statuses = <<>>
  /\ result = <<>>
  /\ said = [i \in {} |-> {}] /\ engaged = {} /\ raised = {}

Running == stage \notin {"returned", "failed"}
Looping == Running /\ body.form = "messages" /\ at <= Len(body.pieces)

\* Faulty variant: a status is kept by _min_content and by its caller.
PutUncounted(c, ss) ==
  /\ out' = Append(out, c) /\ statuses' = statuses \o ss \o ss
  /\ at' = at + 1 /\ stage' = "next"
  /\ UNCHANGED <<up, flips, body, result>>

\* The loop has the content c, and perhaps a status, for the piece it is at.
Put(c, ss) ==
  /\ out' = Append(out, c) /\ statuses' = statuses \o ss
  /\ at' = at + 1 /\ stage' = "next"
  /\ UNCHANGED <<up, flips, body, result>>

\* A body that is empty, not JSON, or has no list of messages.
PassThrough ==
  /\ stage = "next" /\ body.form # "messages"
  /\ stage' = "returned"
  /\ result' = [encoding |-> "as received", contents |-> Contents(body)]
  /\ UNCHANGED <<up, flips, body, at, out, statuses, said, engaged, raised>>

Keep ==
  /\ Looping /\ stage = "next" /\ ~ForModel(body.pieces[at])
  /\ Put(body.pieces[at].text, <<>>)
  /\ UNCHANGED <<said, engaged, raised>>

\* available() finds no model: the text goes on as it is.
Skip ==
  /\ Looping /\ stage = "next" /\ ForModel(body.pieces[at]) /\ ~up
  /\ Put(body.pieces[at].text, <<"skipped">>)
  /\ UNCHANGED <<said, engaged, raised>>

\* available() finds the model: from here on it is asked.
Engage ==
  /\ Looping /\ stage = "next" /\ ForModel(body.pieces[at]) /\ up
  /\ stage' = "classify" /\ engaged' = engaged \cup {at}
  /\ UNCHANGED <<up, flips, body, at, out, statuses, result, said, raised>>

\* classify_text: the answer holds some tier words, or none.
Classify ==
  /\ Looping /\ stage = "classify" /\ up
  /\ \E words \in SUBSET TierWords :
       /\ said' = [i \in DOMAIN said \cup {at} |-> IF i = at THEN words ELSE said[i]]
       /\ IF ParseTier(words) < MinTier
          THEN Put(body.pieces[at].text, <<"forwarded">>)
          ELSE stage' = "rewrite" /\ UNCHANGED <<up, flips, body, at, out, statuses, result>>
  /\ UNCHANGED <<engaged, raised>>

\* Faulty variant: a rewriting of which nothing is left keeps the text.
AbstractOrKeep ==
  /\ Looping /\ stage = "rewrite" /\ up
  /\ \E c \in Rewritings \cup {Empty} :
       Put(IF c = Empty THEN body.pieces[at].text ELSE c, <<"abstracted">>)
  /\ UNCHANGED <<said, engaged, raised>>

\* abstract: a rewriting, or nothing, which blocks the text.
Abstract ==
  /\ Looping /\ stage = "rewrite" /\ up
  /\ \E c \in Rewritings \cup {Empty} :
       IF c = Empty THEN Put(BlockMark, <<"blocked">>) ELSE Put(c, <<"abstracted">>)
  /\ UNCHANGED <<said, engaged, raised>>

\* generate raises: the model is gone, too slow, or answers an error.
Fails ==
  /\ Looping /\ stage \in {"classify", "rewrite"}
  /\ Put(BlockMark, <<"blocked">>)
  /\ raised' = raised \cup {at}
  /\ UNCHANGED <<said, engaged>>

\* The body as received if no text was changed, or encoded anew if it can be.
Return ==
  /\ stage = "next" /\ body.form = "messages" /\ at > Len(body.pieces)
  /\ IF ~Changed(statuses)
     THEN stage' = "returned" /\ result' = [encoding |-> "as received", contents |-> Contents(body)]
     ELSE IF Range(out) \cap Unencodable = {}
     THEN stage' = "returned" /\ result' = [encoding |-> "dumped", contents |-> out]
     ELSE stage' = "failed" /\ UNCHANGED result
  /\ UNCHANGED <<up, flips, body, at, out, statuses, said, engaged, raised>>

\* The model goes away or comes back.
Flip ==
  /\ flips < MaxFlips
  /\ up' = ~up /\ flips' = flips + 1
  /\ UNCHANGED <<body, at, stage, out, statuses, result, said, engaged, raised>>

Pass == PassThrough \/ Keep \/ Skip \/ Engage \/ Classify \/ Abstract \/ Fails \/ Return
Next == Pass \/ Flip

\* Every call to the model ends, by its timeout at the latest.
Spec == Init /\ [][Next]_vars /\ WF_vars(Pass)

-----------------------------------------------------------------------------
Returned == stage = "returned"
Raw(i) == result.contents[i] = body.pieces[i].text

TypeOK ==
  /\ up \in BOOLEAN /\ flips \in 0..MaxFlips
  /\ at \in 1..Len(body.pieces) + 1 /\ stage \in {"next", "classify", "rewrite", "returned", "failed"}
  /\ Len(out) = at - 1 /\ Len(statuses) < at
  /\ Range(statuses) \subseteq {"skipped", "forwarded", "abstracted", "blocked"}
  /\ DOMAIN said \subseteq engaged /\ raised \subseteq engaged
  /\ Returned => Len(result.contents) = Len(body.pieces)

\* INV-4: a text during which the model failed is returned blocked, however far
\* the model had come with it and whether or not any other text was changed.
FailedIsBlocked == Returned => \A i \in raised : result.contents[i] = BlockMark

\* A text for which the model named a tier of MinTier or more, among others
\* even, or none at all, is never returned as it came.
SensitiveNeverRaw ==
  Returned => \A i \in DOMAIN said :
    said[i] = {} \/ (\E w \in said[i] : TierOf(w) >= MinTier) =>
      result.contents[i] \in Rewritings \cup {BlockMark}

\* The texts of the user among the first n pieces.
UsersTexts(n) == {i \in 1..n : ForModel(body.pieces[i])}

\* The status of the text i: they are in the order of the texts.
StatusOf(i) == statuses[Cardinality(UsersTexts(i))]

\* What the server logs of the pass is what happened: there is a status for each
\* text of the user and it says what is returned for it; and the body is encoded
\* anew exactly when it tells of a change, and else is the one received.
StatusesTellAll ==
  Returned /\ body.form = "messages" =>
    LET all == UsersTexts(Len(body.pieces))
    IN  /\ Len(statuses) = Cardinality(all)
        /\ \A i \in all :
             /\ StatusOf(i) \in {"skipped", "forwarded"} => Raw(i)
             /\ StatusOf(i) = "abstracted" => result.contents[i] \in Rewritings
             /\ StatusOf(i) = "blocked" => result.contents[i] = BlockMark
        /\ IF \E i \in all : StatusOf(i) \in {"abstracted", "blocked"}
           THEN result.encoding = "dumped"
           ELSE result.encoding = "as received" /\ \A i \in 1..Len(body.pieces) : Raw(i)

\* The pass as the rest of the proxy sees it: in the end and at once, some texts
\* of the user are replaced and nothing else is, or the request fails.
Minimized == INSTANCE Minimization WITH Replacements <- Rewritings \cup {BlockMark},
                                        phase <- IF Running THEN "asked" ELSE stage,
                                        contents <- IF Returned THEN result.contents ELSE <<>>
Minimizes == Minimized!Spec

\* INV-4 for the whole request: once the model has been engaged for one text, no
\* later text goes on as it came because the model is gone.
EngagedFailsClosed ==
  Returned => \A i, j \in 1..Len(body.pieces) :
    i \in engaged /\ i < j /\ ForModel(body.pieces[j]) /\ j \notin engaged => ~Raw(j)
=============================================================================
