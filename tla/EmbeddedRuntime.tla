-------------------------- MODULE EmbeddedRuntime ---------------------------
(***************************************************************************)
(* local_model/embedded.py: one LlamaCppRuntime, whose model is loaded by  *)
(* the first call that finds none, used without a lock by the worker       *)
(* threads in which contextual_pass runs.                                  *)
(*                                                                         *)
(* The process asks available() once before it serves (server.py).  Then   *)
(* each text a worker minimizes asks available() and, if told so, generate *)
(* for the text's tier and, if that is high, for an abstract of it.        *)
(***************************************************************************)
EXTENDS Naturals, FiniteSets

CONSTANTS Starter,    \* the thread that starts the process
          Workers,    \* the threads of the pool
          MaxTexts    \* bound on the texts each worker minimizes

ASSUME StarterIsNoWorker == Starter \notin Workers
ASSUME PoolIsFinite == IsFiniteSet(Workers)

Threads == Workers \cup {Starter}
None == 0    \* no model; models are numbered as they are built

VARIABLES
  llm,        \* self._llm
  built,      \* models built so far
  installed,  \* can llama_cpp be imported?
  start,      \* "pending", or what the process was told at its start
  pc,         \* where each thread is
  asks,       \* what its call is for: "available", "tier" or "abstract"
  using,      \* the model its completion runs on
  texts,      \* texts it has begun
  said,       \* has available() ever returned True?
  sure        \* per thread: had it, when its call of available() began?
vars == <<llm, built, installed, start, pc, asks, using, texts, said, sure>>

Init ==
  /\ llm = None /\ built = 0 /\ installed \in BOOLEAN /\ start = "pending"
  /\ pc = [t \in Threads |-> "idle"]
  /\ asks = [t \in Threads |-> "available"]
  /\ using = [t \in Threads |-> None]
  /\ texts = [t \in Threads |-> 0]
  /\ said = FALSE /\ sure = [t \in Threads |-> FALSE]

Goto(t, from, to) == pc[t] = from /\ pc' = [pc EXCEPT ![t] = to]

-----------------------------------------------------------------------------
(* _ensure_loaded *)

\* Faulty variants: whether there is a model already is not looked at; the
\* runtime has its model before it is built.
EnsureEarly(t) ==
  /\ Goto(t, "ensure", IF llm # None THEN "loaded"
                       ELSE IF installed THEN "loading" ELSE "raised")
  /\ llm' = IF installed THEN built + 1 ELSE llm
  /\ UNCHANGED <<built, installed, start, asks, using, texts, said, sure>>
EnsureAnew(t) ==
  /\ Goto(t, "ensure", IF installed THEN "loading" ELSE "raised")
  /\ UNCHANGED <<llm, built, installed, start, asks, using, texts, said, sure>>

\* A model that is there will do; without the package there is none to be had.
Ensure(t) ==
  /\ Goto(t, "ensure", IF llm # None THEN "loaded"
                       ELSE IF installed THEN "loading" ELSE "raised")
  /\ UNCHANGED <<llm, built, installed, start, asks, using, texts, said, sure>>

\* The model is downloaded and read, and takes the place of any that another
\* thread has put there meanwhile.
Load(t) ==
  /\ Goto(t, "loading", "loaded")
  /\ built' = built + 1 /\ llm' = built'
  /\ UNCHANGED <<installed, start, asks, using, texts, said, sure>>

\* Faulty variant: a failed load leaves the runtime as it was at first.
LoadFailsClearing(t) ==
  /\ Goto(t, "loading", "raised") /\ llm' = None
  /\ UNCHANGED <<built, installed, start, asks, using, texts, said, sure>>

LoadFails(t) ==
  /\ Goto(t, "loading", "raised")
  /\ UNCHANGED <<llm, built, installed, start, asks, using, texts, said, sure>>

-----------------------------------------------------------------------------
(* available *)

\* The process starts, or a worker of one that serves takes its next text.
Ask(t) ==
  /\ IF t = Starter THEN start = "pending" ELSE start # "pending" /\ texts[t] < MaxTexts
  /\ Goto(t, "idle", "ensure")
  /\ asks' = [asks EXCEPT ![t] = "available"]
  /\ texts' = [texts EXCEPT ![t] = @ + 1]
  /\ sure' = [sure EXCEPT ![t] = said]
  /\ UNCHANGED <<llm, built, installed, start, using, said>>

\* True: a worker goes on to generate.
Available(t) ==
  /\ asks[t] = "available" /\ said' = TRUE
  /\ IF t = Starter THEN Goto(t, "loaded", "idle") /\ start' = "good"
                    ELSE Goto(t, "loaded", "ensure") /\ UNCHANGED start
  /\ asks' = [asks EXCEPT ![t] = "tier"]
  /\ UNCHANGED <<llm, built, installed, using, texts, sure>>

\* False, whatever was raised: the process starts all the same, and a worker
\* skips the text.
Unavailable(t) ==
  /\ asks[t] = "available" /\ Goto(t, "raised", "skipped")
  /\ start' = IF t = Starter THEN "bad" ELSE start
  /\ UNCHANGED <<llm, built, installed, asks, using, texts, said, sure>>

-----------------------------------------------------------------------------
(* generate *)

\* A completion on the model in hand; another that runs on it is no obstacle.
Complete(t) ==
  /\ asks[t] # "available" /\ Goto(t, "loaded", "completing")
  /\ using' = [using EXCEPT ![t] = llm]
  /\ UNCHANGED <<llm, built, installed, start, asks, texts, said, sure>>

\* It answers or raises, and that is all, or the text is to be abstracted.
Completed(t) ==
  /\ \/ Goto(t, "completing", "idle") /\ UNCHANGED asks
     \/ /\ asks[t] = "tier" /\ asks' = [asks EXCEPT ![t] = "abstract"]
        /\ Goto(t, "completing", "ensure")
  /\ using' = [using EXCEPT ![t] = None]
  /\ UNCHANGED <<llm, built, installed, start, texts, said, sure>>

\* The text is skipped, or blocked because generate raised.
GiveUp(t) ==
  /\ \/ Goto(t, "skipped", "idle")
     \/ asks[t] # "available" /\ Goto(t, "raised", "idle")
  /\ UNCHANGED <<llm, built, installed, start, asks, using, texts, said, sure>>

-----------------------------------------------------------------------------
Run(t) == \/ Ensure(t) \/ Load(t) \/ LoadFails(t) \/ Available(t) \/ Unavailable(t)
          \/ Complete(t) \/ Completed(t) \/ GiveUp(t)

Next == \E t \in Threads : Ask(t) \/ Run(t)

Spec == Init /\ [][Next]_vars

-----------------------------------------------------------------------------
(* Properties *)

\* Type invariant: what runs, runs on a model that was built.
TypeOK ==
  /\ built \in Nat /\ llm \in 0..built
  /\ installed \in BOOLEAN /\ start \in {"pending", "good", "bad"}
  /\ pc \in [Threads -> {"idle", "ensure", "loading", "loaded", "raised", "skipped", "completing"}]
  /\ asks \in [Threads -> {"available", "tier", "abstract"}]
  /\ using \in [Threads -> Nat]
  /\ \A t \in Threads : using[t] \in IF pc[t] = "completing" THEN 1..built ELSE {None}
  /\ texts \in [Threads -> Nat]
  /\ said \in BOOLEAN /\ sure \in [Threads -> BOOLEAN]

\* Once available() has said True to any thread, a call that begins later never
\* says False, whatever loads still fail in other threads.
OnceAvailableAlways == \A t \in Threads : pc[t] = "skipped" => ~sure[t]

\* A text whose model was there is never blocked for want of it: generate finds
\* the model available() spoke of and neither loads one nor fails to.
GenerateNeverLoads ==
  \A t \in Threads : pc[t] \in {"loading", "raised"} => asks[t] = "available"

\* However many threads find no model at once, each builds one at most; after a
\* start that loaded it, none builds another.
ModelsBounded == built <= IF start = "bad" THEN Cardinality(Workers) ELSE 1
=============================================================================
