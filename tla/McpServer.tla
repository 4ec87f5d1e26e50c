----------------------------- MODULE McpServer ------------------------------
(***************************************************************************)
(* mcp_server.py: the loop that reads JSON-RPC messages line by line and   *)
(* answers each before it reads the next, while proxies write the audit    *)
(* trail that its tool exodus_audit sums up.                               *)
(*                                                                         *)
(* A line is what it asks for and whether it carries an id; the id of the  *)
(* n-th line is n.                                                         *)
(***************************************************************************)
EXTENDS AuditTrail

CONSTANTS Input,      \* the lines a client may send
          MaxLines    \* bound on the lines read

Methods       == {"initialize", "ping", "tools/list"}
Notifications == {"notifications/initialized", "notifications/cancelled"}
Tools         == {"exodus_mask", "exodus_verify", "exodus_audit"}
Broken == {"not an object",     \* a batch, a number: msg.get does not exist
           "bad params",        \* not a dictionary, or a tool name without a hash
           "half a surrogate"}  \* in the text to mask: the answer does not encode
Asks == Methods \cup Notifications \cup Tools \cup Broken
          \cup {"no JSON", "unknown method", "unknown tool", "bad arguments"}
Line == [ask : Asks, hasId : BOOLEAN]

ASSUME InputsAreLines == Input \subseteq Line /\ MaxLines \in Nat

VARIABLES heard,      \* the lines read
          said,       \* the answers written
          phase       \* "idle": waiting for a line, "busy", "closed" or "dead"
serverVars == <<heard, said, phase>>
vars == <<trailVars, serverVars>>

NoId == 0
Answer == [id : 0..MaxLines, outcome : {"result", "tool failed", "error"}]

Init == TrailInit /\ heard = <<>> /\ said = <<>> /\ phase = "idle"

-----------------------------------------------------------------------------
(* main *)

Hear == \E l \in Input :
  /\ phase = "idle" /\ Len(heard) < MaxLines
  /\ heard' = Append(heard, l) /\ phase' = "busy"
  /\ UNCHANGED <<said, trailVars>>

EndOfInput ==
  /\ phase = "idle" /\ phase' = "closed"
  /\ UNCHANGED <<heard, said, trailVars>>

\* The line in hand asks for one of these, and nothing is under way for it.
Asked(set) == phase = "busy" /\ ~reading /\ Last(heard).ask \in set

Reply(outcome) ==
  /\ said' = Append(said, [id |-> IF Last(heard).hasId THEN Len(heard) ELSE NoId,
                           outcome |-> outcome])
  /\ phase' = "idle" /\ UNCHANGED heard

-----------------------------------------------------------------------------
(* handle *)

\* Faulty variant: an unknown method is ignored, whether or not it has an id.
IgnoreUnknown ==
  /\ Asked({"no JSON", "unknown method"} \cup Notifications)
  /\ phase' = "idle" /\ UNCHANGED <<heard, said, trailVars>>

\* No answer: what is no JSON, and the notifications, known and unknown.
Ignore ==
  /\ \/ Asked({"no JSON"} \cup Notifications)
     \/ Asked({"unknown method"}) /\ ~Last(heard).hasId
  /\ phase' = "idle" /\ UNCHANGED <<heard, said, trailVars>>

\* Methods that need no tool are answered, with an id or without.
Result == Asked(Methods) /\ Reply("result") /\ UNCHANGED trailVars

Refuse ==
  /\ \/ Asked({"unknown tool"})
     \/ Asked({"unknown method"}) /\ Last(heard).hasId
  /\ Reply("error") /\ UNCHANGED trailVars

Mask == Asked({"exodus_mask"}) /\ Reply("result") /\ UNCHANGED trailVars

\* Faulty variant: what a tool raises is not caught.
ToolFailsForGood ==
  /\ Asked({"bad arguments", "exodus_audit"})
  /\ phase' = "dead" /\ UNCHANGED <<heard, said, trailVars>>

\* Whatever a tool raises becomes a result of its own kind.
ToolFails ==
  /\ Asked({"bad arguments", "exodus_audit"})
  /\ Reply("tool failed") /\ UNCHANGED trailVars

\* verify_url returns a verdict or raises, when the proxy it asks lets it.
Verify ==
  /\ Asked({"exodus_verify"})
  /\ Reply("result") \/ Reply("tool failed")
  /\ UNCHANGED trailVars

BeginAudit == Asked({"exodus_audit"}) /\ OpenTrail /\ UNCHANGED serverVars
ReadTrail  == ReadLine /\ UNCHANGED serverVars
EndAudit   == CloseTrail /\ Reply("result")

\* An exception outside the tools ends the loop.
Die ==
  /\ Asked(Broken) /\ phase' = "dead"
  /\ UNCHANGED <<heard, said, trailVars>>

-----------------------------------------------------------------------------
Handle == \/ Ignore \/ Result \/ Refuse \/ Mask \/ ToolFails
          \/ BeginAudit \/ ReadTrail \/ EndAudit \/ Die

Next == \/ Hear \/ EndOfInput \/ Handle \/ Verify
        \/ \E w \in Writers : Writing(w) /\ UNCHANGED serverVars

\* The loop goes on by itself, but for a verification: verify_url takes the
\* certificate without a timeout.  The client may send nothing more.
Spec == Init /\ [][Next]_vars /\ WF_vars(Handle)

-----------------------------------------------------------------------------
(* Properties *)

\* Type invariant of the server's own state.
TypeOK == /\ TrailTypeOK
          /\ heard \in Seq(Input) /\ Len(heard) <= MaxLines
          /\ said \in Seq(Answer)
          /\ phase \in {"idle", "busy", "closed", "dead"}

\* A well-formed request: an object with an id, its parts of the right types and
\* its text in whole characters.
IsRequest(l) == l.hasId /\ l.ask \notin Broken \cup Notifications \cup {"no JSON"}

\* The requests among the lines done with are answered once each, in the order
\* they came, and only those for something the server does not have by an error.
RequestsAnsweredInOrder ==
  LET done == IF phase \in {"busy", "dead"} THEN Len(heard) - 1 ELSE Len(heard)
      answers == {i \in DOMAIN said : said[i].id # NoId}
  IN  /\ {said[i].id : i \in answers} = {n \in 1..done : IsRequest(heard[n])}
      /\ \A i, j \in answers : i < j => said[i].id < said[j].id
      /\ \A i \in answers : said[i].outcome = "error" <=>
           heard[said[i].id].ask \in {"unknown method", "unknown tool"}

\* No line and no tool that fails keeps a request from its answer; a request
\* is answered, or a verification that does not return is in its way (of the
\* line of a verification itself nothing more is asked).
EveryRequestAnswered == \A n \in 1..MaxLines :
  (Len(heard) = n /\ IsRequest(heard[n]))
    ~> \/ \E i \in DOMAIN said : said[i].id = n
       \/ Asked({"exodus_verify"})

=============================================================================
