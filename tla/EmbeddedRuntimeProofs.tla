----------------------- MODULE EmbeddedRuntimeProofs ------------------------
(***************************************************************************)
(* A model that was announced stays, and few are built, for any number of  *)
(* threads and texts.                                                      *)
(*                                                                         *)
(* The argument: the model is never unset, so available() has a model to   *)
(* speak of whenever it says True (ModelInv), and a thread that began      *)
(* after that, or that generates, finds it (ThreadInv).  A thread begins   *)
(* to load only while nothing was built; so the models built and those     *)
(* being loaded are together no more than the threads there are            *)
(* (LoadsInv), and while the process starts there is one (StartInv).       *)
(***************************************************************************)
EXTENDS EmbeddedRuntime, FiniteSetTheorems, TLAPS

ModelInv ==
  /\ said => llm # None
  /\ llm = None <=> built = 0

ThreadInv == \A t \in Threads :
  /\ asks[t] # "available" => said
  /\ pc[t] \in {"loading", "raised"} => asks[t] = "available"
  /\ pc[t] \in {"loading", "raised", "skipped"} => ~sure[t]
  /\ sure[t] => said
  /\ pc[t] = "loaded" => llm # None

Loading == {t \in Threads : pc[t] = "loading"}

StartInv ==
  /\ start = "pending" =>
       /\ \A t \in Workers : pc[t] = "idle"
       /\ asks[Starter] = "available"
       /\ pc[Starter] # "loaded" => built = 0
       /\ pc[Starter] = "loaded" => built = 1
       /\ pc[Starter] \notin {"completing", "skipped"}
  /\ start # "pending" => pc[Starter] \in {"idle", "skipped"}
  /\ start = "good" => built = 1 /\ Loading = {}

LoadsInv == start = "bad" => built + Cardinality(Loading) <= Cardinality(Workers)

IInv == TypeOK /\ ModelInv /\ ThreadInv /\ StartInv /\ LoadsInv

LEMMA InitInv == Init => IInv
<1> SUFFICES ASSUME Init PROVE IInv  OBVIOUS
<1>1. built = 0 /\ llm = None /\ None = 0  BY DEF Init, None
<1>2. TypeOK
  <2>1. llm \in 0..built /\ built \in Nat  BY <1>1
  <2>2. using \in [Threads -> Nat] /\ texts \in [Threads -> Nat]  BY <1>1 DEF Init
  <2>3. \A t \in Threads : pc[t] = "idle" /\ using[t] = None  BY DEF Init
  <2>4. said \in BOOLEAN /\ sure \in [Threads -> BOOLEAN]  BY DEF Init
  <2> QED  BY <2>1, <2>2, <2>3, <2>4 DEF Init, TypeOK
<1>3. ModelInv /\ ThreadInv  BY <1>1 DEF Init, ModelInv, ThreadInv
<1>4. StartInv  BY <1>1 DEF Init, StartInv, Threads
<1>5. LoadsInv  BY DEF Init, LoadsInv
<1> QED  BY <1>2, <1>3, <1>4, <1>5 DEF IInv

\* After the start, only workers load.
LEMMA LoadersAreWorkers ==
  ASSUME StartInv, start # "pending"
  PROVE  /\ Loading \subseteq Workers
         /\ IsFiniteSet(Loading) /\ Cardinality(Loading) \in Nat
         /\ Cardinality(Loading) <= Cardinality(Workers)
<1>1. Loading \subseteq Workers  BY DEF StartInv, Loading, Threads
<1> QED  BY <1>1, PoolIsFinite, FS_Subset, FS_CardinalityType

LEMMA EnsureKeeps == ASSUME IInv, NEW t \in Threads, Ensure(t) PROVE IInv'
<1> USE DEF IInv, Goto, Ensure, None
<1>1. TypeOK'  BY DEF TypeOK, ModelInv, ThreadInv
<1>2. ModelInv'  BY DEF TypeOK, ModelInv, ThreadInv
<1>3. ThreadInv'  BY DEF TypeOK, ModelInv, ThreadInv
<1>4. StartInv'  BY StarterIsNoWorker DEF TypeOK, StartInv, ModelInv, ThreadInv, Loading, Threads
<1>5. LoadsInv'
  <2> SUFFICES ASSUME start = "bad" PROVE (built + Cardinality(Loading) <= Cardinality(Workers))'
    BY DEF LoadsInv
  <2>1. CASE pc'[t] = "loading"
    <3>1. built' = 0  BY <2>1 DEF TypeOK, ModelInv
    <3>2. (Cardinality(Loading) <= Cardinality(Workers))' /\ (Cardinality(Loading) \in Nat)'
      <4>1. Loading' \subseteq Workers  BY <1>4 DEF StartInv, Loading, Threads
      <4> QED  BY <4>1, PoolIsFinite, FS_Subset, FS_CardinalityType
    <3> QED  BY <3>1, <3>2
  <2>2. CASE pc'[t] # "loading"
    <3>1. Loading' = Loading  BY <2>2 DEF TypeOK, Loading
    <3> QED  BY <3>1 DEF LoadsInv
  <2> QED  BY <2>1, <2>2
<1> QED  BY <1>1, <1>2, <1>3, <1>4, <1>5

LEMMA LoadKeeps == ASSUME IInv, NEW t \in Threads, Load(t) PROVE IInv'
<1> USE DEF IInv, Goto, Load, None
<1>1. TypeOK'  BY DEF TypeOK, ModelInv, ThreadInv
<1>2. ModelInv'  BY DEF TypeOK, ModelInv, ThreadInv
<1>3. ThreadInv'  BY DEF TypeOK, ModelInv, ThreadInv
<1>4. StartInv'  BY StarterIsNoWorker DEF TypeOK, StartInv, ModelInv, ThreadInv, Loading, Threads
<1>5. LoadsInv'
  <2> SUFFICES ASSUME start = "bad" PROVE (built + Cardinality(Loading) <= Cardinality(Workers))'
    BY DEF LoadsInv
  <2>1. t \in Loading /\ Loading' = Loading \ {t}  BY DEF TypeOK, Loading
  <2>2. IsFiniteSet(Loading) /\ Cardinality(Loading) \in Nat  BY LoadersAreWorkers
  <2>3. Cardinality(Loading') = Cardinality(Loading) - 1  BY <2>1, <2>2, FS_RemoveElement
  <2>4. Cardinality(Workers) \in Nat  BY PoolIsFinite, FS_CardinalityType
  <2> QED  BY <2>2, <2>3, <2>4 DEF LoadsInv, TypeOK
<1> QED  BY <1>1, <1>2, <1>3, <1>4, <1>5

LEMMA LoadFailsKeeps == ASSUME IInv, NEW t \in Threads, LoadFails(t) PROVE IInv'
<1> USE DEF IInv, Goto, LoadFails, None
<1>1. TypeOK'  BY DEF TypeOK, ModelInv, ThreadInv
<1>2. ModelInv'  BY DEF TypeOK, ModelInv, ThreadInv
<1>3. ThreadInv'  BY DEF TypeOK, ModelInv, ThreadInv
<1>4. StartInv'  BY StarterIsNoWorker DEF TypeOK, StartInv, ModelInv, ThreadInv, Loading, Threads
<1>5. LoadsInv'
  <2> SUFFICES ASSUME start = "bad" PROVE (built + Cardinality(Loading) <= Cardinality(Workers))'
    BY DEF LoadsInv
  <2>1. t \in Loading /\ Loading' = Loading \ {t}  BY DEF TypeOK, Loading
  <2>2. IsFiniteSet(Loading) /\ Cardinality(Loading) \in Nat  BY LoadersAreWorkers
  <2>3. Cardinality(Loading') = Cardinality(Loading) - 1  BY <2>1, <2>2, FS_RemoveElement
  <2>4. Cardinality(Workers) \in Nat  BY PoolIsFinite, FS_CardinalityType
  <2> QED  BY <2>2, <2>3, <2>4 DEF LoadsInv, TypeOK
<1> QED  BY <1>1, <1>2, <1>3, <1>4, <1>5

LEMMA AskKeeps == ASSUME IInv, NEW t \in Threads, Ask(t) PROVE IInv'
<1> USE DEF IInv, Goto, Ask, None
<1>1. TypeOK'  BY DEF TypeOK, ModelInv, ThreadInv
<1>2. ModelInv'  BY DEF TypeOK, ModelInv, ThreadInv
<1>3. ThreadInv'  BY DEF TypeOK, ModelInv, ThreadInv
<1>4. StartInv'  BY StarterIsNoWorker DEF TypeOK, StartInv, ModelInv, ThreadInv, Loading, Threads
<1>5. LoadsInv'
  <2>1. Loading' = Loading  BY DEF TypeOK, Loading
  <2> QED  BY <2>1 DEF LoadsInv
<1> QED  BY <1>1, <1>2, <1>3, <1>4, <1>5

LEMMA AvailableKeeps == ASSUME IInv, NEW t \in Threads, Available(t) PROVE IInv'
<1> USE DEF IInv, Goto, Available, None
<1>1. TypeOK'  BY DEF TypeOK, ModelInv, ThreadInv
<1>2. ModelInv'  BY DEF TypeOK, ModelInv, ThreadInv
<1>3. ThreadInv'  BY DEF TypeOK, ModelInv, ThreadInv
<1>4. StartInv'  BY StarterIsNoWorker DEF TypeOK, StartInv, ModelInv, ThreadInv, Loading, Threads
<1>5. LoadsInv'
  <2>1. Loading' = Loading  BY DEF TypeOK, Loading
  <2> QED  BY <2>1 DEF LoadsInv
<1> QED  BY <1>1, <1>2, <1>3, <1>4, <1>5

LEMMA UnavailableKeeps == ASSUME IInv, NEW t \in Threads, Unavailable(t) PROVE IInv'
<1> USE DEF IInv, Goto, Unavailable, None
<1>1. TypeOK'  BY DEF TypeOK, ModelInv, ThreadInv
<1>2. ModelInv'  BY DEF TypeOK, ModelInv, ThreadInv
<1>3. ThreadInv'  BY DEF TypeOK, ModelInv, ThreadInv
<1>4. StartInv'  BY StarterIsNoWorker DEF TypeOK, StartInv, ModelInv, ThreadInv, Loading, Threads
<1>5. LoadsInv'
  <2>1. Loading' = Loading  BY DEF TypeOK, Loading
  <2>2. CASE start = "pending" /\ t = Starter
    <3>1. built' = 0 /\ Loading' = {}  BY <2>1, <2>2 DEF StartInv, TypeOK, Loading, Threads
    <3> QED  BY <3>1, PoolIsFinite, FS_EmptySet, FS_CardinalityType DEF LoadsInv
  <2>3. CASE start # "pending" \/ t # Starter
    <3>1. start' = "bad" => start = "bad"  BY <2>3 DEF StartInv, TypeOK
    <3> QED  BY <2>1, <3>1 DEF LoadsInv
  <2> QED  BY <2>2, <2>3
<1> QED  BY <1>1, <1>2, <1>3, <1>4, <1>5

LEMMA CompleteKeeps == ASSUME IInv, NEW t \in Threads, Complete(t) PROVE IInv'
<1> USE DEF IInv, Goto, Complete, None
<1>1. TypeOK'  BY DEF TypeOK, ModelInv, ThreadInv
<1>2. ModelInv'  BY DEF TypeOK, ModelInv, ThreadInv
<1>3. ThreadInv'  BY DEF TypeOK, ModelInv, ThreadInv
<1>4. StartInv'  BY StarterIsNoWorker DEF TypeOK, StartInv, ModelInv, ThreadInv, Loading, Threads
<1>5. LoadsInv'
  <2>1. Loading' = Loading  BY DEF TypeOK, Loading
  <2> QED  BY <2>1 DEF LoadsInv
<1> QED  BY <1>1, <1>2, <1>3, <1>4, <1>5

LEMMA CompletedKeeps == ASSUME IInv, NEW t \in Threads, Completed(t) PROVE IInv'
<1> USE DEF IInv, Goto, Completed, None
<1>1. TypeOK'  BY DEF TypeOK, ModelInv, ThreadInv
<1>2. ModelInv'  BY DEF TypeOK, ModelInv, ThreadInv
<1>3. ThreadInv'  BY DEF TypeOK, ModelInv, ThreadInv
<1>4. StartInv'  BY StarterIsNoWorker DEF TypeOK, StartInv, ModelInv, ThreadInv, Loading, Threads
<1>5. LoadsInv'
  <2>1. Loading' = Loading  BY DEF TypeOK, Loading
  <2> QED  BY <2>1 DEF LoadsInv
<1> QED  BY <1>1, <1>2, <1>3, <1>4, <1>5

LEMMA GiveUpKeeps == ASSUME IInv, NEW t \in Threads, GiveUp(t) PROVE IInv'
<1> USE DEF IInv, Goto, GiveUp, None
<1>1. TypeOK'  BY DEF TypeOK, ModelInv, ThreadInv
<1>2. ModelInv'  BY DEF TypeOK, ModelInv, ThreadInv
<1>3. ThreadInv'  BY DEF TypeOK, ModelInv, ThreadInv
<1>4. StartInv'  BY StarterIsNoWorker DEF TypeOK, StartInv, ModelInv, ThreadInv, Loading, Threads
<1>5. LoadsInv'
  <2>1. Loading' = Loading  BY DEF TypeOK, Loading
  <2> QED  BY <2>1 DEF LoadsInv
<1> QED  BY <1>1, <1>2, <1>3, <1>4, <1>5

LEMMA StepInv == IInv /\ [Next]_vars => IInv'
<1> SUFFICES ASSUME IInv, [Next]_vars PROVE IInv'  OBVIOUS
<1>1. ASSUME NEW t \in Threads, Ask(t) \/ Run(t) PROVE IInv'
  BY <1>1, EnsureKeeps, LoadKeeps, LoadFailsKeeps, AskKeeps, AvailableKeeps, UnavailableKeeps, CompleteKeeps, CompletedKeeps, GiveUpKeeps DEF Run
<1>2. CASE UNCHANGED vars
  BY <1>2 DEF vars, IInv, TypeOK, ModelInv, ThreadInv, StartInv, LoadsInv, Loading
<1> QED  BY <1>1, <1>2 DEF Next

\* Every value has its type, and every completion a model.
THEOREM RuntimeTypes == Spec => []TypeOK
<1>1. IInv => TypeOK  BY DEF IInv
<1> QED  BY InitInv, StepInv, <1>1, PTL DEF Spec

\* available() never takes back what it said, whichever thread asks.
THEOREM AvailabilityStays == Spec => []OnceAvailableAlways
<1>1. IInv => OnceAvailableAlways  BY DEF IInv, ThreadInv, OnceAvailableAlways
<1> QED  BY InitInv, StepInv, <1>1, PTL DEF Spec

\* generate finds the model that available() spoke of.
THEOREM GenerateFindsTheModel == Spec => []GenerateNeverLoads
<1>1. IInv => GenerateNeverLoads  BY DEF IInv, ThreadInv, GenerateNeverLoads
<1> QED  BY InitInv, StepInv, <1>1, PTL DEF Spec

\* The models built are no more than the threads that found none, and one when
\* the process started with it.
THEOREM FewModelsAreBuilt == Spec => []ModelsBounded
<1>1. IInv => ModelsBounded
  <2> SUFFICES ASSUME IInv PROVE ModelsBounded  OBVIOUS
  <2>1. CASE start = "bad"
    <3>1. Cardinality(Loading) \in Nat /\ Cardinality(Workers) \in Nat
      BY <2>1, LoadersAreWorkers, PoolIsFinite, FS_CardinalityType DEF IInv
    <3> QED  BY <2>1, <3>1 DEF IInv, TypeOK, LoadsInv, ModelsBounded
  <2>2. CASE start # "bad"
    BY <2>2 DEF IInv, TypeOK, StartInv, ModelsBounded
  <2> QED  BY <2>1, <2>2
<1> QED  BY InitInv, StepInv, <1>1, PTL DEF Spec
=============================================================================
