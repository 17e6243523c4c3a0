-------------------------- MODULE ServiceOwner_proofs --------------------------
(***************************************************************************)
(* Proofs about ServiceOwner, for any number of connections, slots and     *)
(* worker threads: one worker at a time, demands retired with the worker   *)
(* that served them, and every demand counted exactly once.                *)
(***************************************************************************)
EXTENDS ServiceOwner, FiniteSetTheorems, TLAPS

USE SetsAssumption

Types ==
  /\ conn \in [Conn -> ConnStates] /\ work \in [Worker -> WorkStates]
  /\ todo \in [Worker -> SUBSET Conn] /\ thread \in Worker \cup {None}
  /\ retire \subseteq Conn /\ demands \in Int /\ slots \in Int
  /\ old \subseteq Conn

-----------------------------------------------------------------------------
\* The owner knows the worker thread that is alive; once it has joined it
\* there is none, and it starts none.
Known ==
  /\ \A w \in Worker : work[w] \in Alive => thread = w
  /\ owner = "done" => \A w \in Worker : work[w] \notin Alive

WorkInv == Types /\ Known

LEMMA WorkInit == Init => WorkInv
  BY TimesAssumption DEF Init, WorkInv, Types, Known, Alive, ConnStates, WorkStates

LEMMA OwnerKeepsWork ==
  ASSUME WorkInv, OwnerSteps
  PROVE  WorkInv'
<1> USE DEF WorkInv, Types, Known, Alive, WorkStates, ThreadAlive, FoundDead, Forget,
        demandVars, workVars, mainVars
<1>1. CASE PolicyStarts
  BY <1>1 DEF PolicyStarts
<1>2. CASE ReadPolicy
  BY <1>2 DEF ReadPolicy
<1>3. CASE StartWorker
  BY <1>3 DEF StartWorker
<1>4. CASE KeepWorker
  BY <1>4 DEF KeepWorker
<1>5. CASE IdleWorker
  BY <1>5 DEF IdleWorker
<1>6. CASE Rest
  BY <1>6 DEF Rest
<1>7. CASE OwnerLeaves
  BY <1>7 DEF OwnerLeaves
<1>8. CASE OwnerJoins
  BY <1>8 DEF OwnerJoins
<1>9. CASE OwnerGivesUp
  BY <1>9 DEF OwnerGivesUp
<1> QED BY <1>1, <1>2, <1>3, <1>4, <1>5, <1>6, <1>7, <1>8, <1>9 DEF OwnerSteps, Reconcile

LEMMA WorkerKeepsWork ==
  ASSUME WorkInv, NEW w \in Worker, WorkerSteps(w)
  PROVE  WorkInv'
<1> USE DEF WorkInv, Types, Known, Alive, WorkStates, ConnStates, InPlace, Snapshot,
        demandVars, ownerVars, mainVars
<1>1. CASE WorkerStarts(w)
  BY <1>1 DEF WorkerStarts
<1>2. CASE WorkerEnds(w)
  BY <1>2 DEF WorkerEnds
<1>3. CASE TakeSnapshot(w)
  BY <1>3 DEF TakeSnapshot
<1>4. ASSUME NEW c \in Conn, Retire(w, c)
      PROVE  WorkInv'
  BY <1>4 DEF Retire
<1>5. CASE WorkerThreadEnds(w)
  BY <1>5 DEF WorkerThreadEnds
<1> QED BY <1>1, <1>2, <1>3, <1>4, <1>5 DEF WorkerSteps, Retires

LEMMA ConnectionKeepsWork ==
  ASSUME WorkInv, NEW c \in Conn, Accept(c) \/ PeerLeaves(c) \/ Handles(c)
  PROVE  WorkInv'
<1> USE DEF WorkInv, Types, Known, ConnStates, ownerVars, workVars, mainVars
<1>1. CASE Accept(c)
  BY <1>1 DEF Accept
<1>2. CASE PeerLeaves(c)
  BY <1>2 DEF PeerLeaves
<1>3. CASE AddDemand(c)
  BY <1>3 DEF AddDemand
<1>4. CASE LeaveLoop(c)
  BY <1>4 DEF LeaveLoop
<1>5. CASE RemoveDemand(c)
  BY <1>5 DEF RemoveDemand, DemandsLess
<1> QED BY <1>1, <1>2, <1>3, <1>4, <1>5 DEF Handles

\* Time, the policy and the main thread change nothing of this.
Others == Elapse \/ PolicyChanges \/ MainSteps \/ Stopped \/ UNCHANGED vars

LEMMA OthersChangeNothing ==
  ASSUME Others
  PROVE  UNCHANGED <<demandVars, workVars, thread, owner, old>>
  BY DEF Others, Elapse, PolicyChanges, MainSteps, Signal, ServeEnds, StopOwner, MainEnds,
     Stopped, vars, demandVars, ownerVars, workVars, mainVars

LEMMA WorkNext == WorkInv /\ [Next]_vars => WorkInv'
<1> SUFFICES ASSUME WorkInv, [Next]_vars PROVE WorkInv'
  OBVIOUS
<1>1. CASE OwnerSteps
  BY <1>1, OwnerKeepsWork
<1>2. CASE \E w \in Worker : WorkerSteps(w)
  BY <1>2, WorkerKeepsWork
<1>3. CASE \E c \in Conn : Accept(c) \/ PeerLeaves(c) \/ Handles(c)
  BY <1>3, ConnectionKeepsWork
<1>4. CASE Others
  BY <1>4, OthersChangeNothing DEF WorkInv, Types, Known, demandVars, workVars
<1> QED BY <1>1, <1>2, <1>3, <1>4 DEF Next, Others

\* There are never two workers alive, and none behind a clean end of run().
THEOREM OneWorkerAtATime == Spec => []OneWorker
<1>1. WorkInv => OneWorker
  BY DEF WorkInv, Known, OneWorker
<1> QED BY <1>1, WorkInit, WorkNext, PTL DEF Spec

-----------------------------------------------------------------------------
\* The counts are cardinalities of sets of connections.
Connected == {c \in Conn : conn[c] # "none"}

LEMMA FiniteConnections ==
  /\ IsFiniteSet(Holding) /\ Cardinality(Holding) \in Nat
  /\ IsFiniteSet(Connected) /\ Cardinality(Connected) \in Nat
<1>1. IsFiniteSet(Holding) /\ IsFiniteSet(Connected)
  BY FS_Subset DEF Holding, Connected
<1> QED BY <1>1, FS_CardinalityType

LEMMA CountedInit == Init => DemandsCounted
<1> SUFFICES ASSUME Init PROVE DemandsCounted
  OBVIOUS
<1>1. Holding = {} /\ Connected = {}
  BY DEF Init, Holding, Connected
<1> QED BY <1>1, TimesAssumption, FS_EmptySet DEF Init, DemandsCounted, Connected

\* A step that leaves both sets alone, and the counts.
LEMMA SameSets ==
  ASSUME DemandsCounted, Holding' = Holding, Connected' = Connected,
         UNCHANGED <<demands, retire, slots>>
  PROVE  DemandsCounted'
  BY DEF DemandsCounted, Connected

LEMMA ConnectionKeepsCount ==
  ASSUME WorkInv, DemandsCounted, NEW c \in Conn, Accept(c) \/ PeerLeaves(c) \/ Handles(c)
  PROVE  DemandsCounted'
<1> USE DEF WorkInv, Types, ConnStates
<1>1. CASE Accept(c)
  <2>1. Holding' = Holding /\ Connected' = Connected \cup {c} /\ c \notin Connected
    BY <1>1 DEF Accept, Holding, Connected
  <2>2. Cardinality(Connected') = Cardinality(Connected) + 1
    BY <2>1, FiniteConnections, FS_AddElement
  <2> QED BY <1>1, <2>1, <2>2, FiniteConnections, TimesAssumption
      DEF Accept, DemandsCounted, Connected
<1>2. CASE PeerLeaves(c)
  BY <1>2, SameSets DEF PeerLeaves, Holding, Connected
<1>3. CASE AddDemand(c)
  <2>1. Connected' = Connected /\ Holding' = Holding \cup {c} /\ c \notin Holding
    BY <1>3 DEF AddDemand, Holding, Connected
  <2>2. Cardinality(Holding') = Cardinality(Holding) + 1
    BY <2>1, FiniteConnections, FS_AddElement
  <2> QED BY <1>3, <2>1, <2>2 DEF AddDemand, DemandsCounted, Connected
<1>4. CASE LeaveLoop(c)
  BY <1>4, SameSets DEF LeaveLoop, Holding, Connected
<1>5. CASE RemoveDemand(c)
  <2>1. /\ Holding' = Holding \ {c} /\ c \in Holding
        /\ Connected' = Connected \ {c} /\ c \in Connected
    BY <1>5 DEF RemoveDemand, Holding, Connected
  <2>2. /\ Cardinality(Holding') = Cardinality(Holding) - 1
        /\ Cardinality(Connected') = Cardinality(Connected) - 1
    BY <2>1, FiniteConnections, FS_RemoveElement
  <2> QED BY <1>5, <2>1, <2>2, FiniteConnections, TimesAssumption
      DEF RemoveDemand, DemandsLess, DemandsCounted, Connected
<1> QED BY <1>1, <1>2, <1>3, <1>4, <1>5 DEF Handles

\* A retired demand is still held: its handler removes it itself.
LEMMA WorkerKeepsCount ==
  ASSUME WorkInv, DemandsCounted, NEW w \in Worker, WorkerSteps(w)
  PROVE  DemandsCounted'
<1> USE DEF WorkInv, Types, ConnStates
<1>1. CASE WorkerStarts(w) \/ WorkerEnds(w) \/ TakeSnapshot(w) \/ WorkerThreadEnds(w)
  BY <1>1, SameSets DEF WorkerStarts, WorkerEnds, TakeSnapshot, WorkerThreadEnds,
     demandVars, Holding, Connected
<1>2. ASSUME NEW c \in Conn, Retire(w, c)
      PROVE  DemandsCounted'
  BY <1>2, SameSets DEF Retire, Holding, Connected
<1> QED BY <1>1, <1>2 DEF WorkerSteps, Retires

LEMMA CountedNext == WorkInv /\ DemandsCounted /\ [Next]_vars => DemandsCounted'
<1> SUFFICES ASSUME WorkInv, DemandsCounted, [Next]_vars PROVE DemandsCounted'
  OBVIOUS
<1>1. CASE OwnerSteps
  <2>1. UNCHANGED demandVars
    BY <1>1 DEF OwnerSteps, PolicyStarts, ReadPolicy, Reconcile, StartWorker, KeepWorker,
       IdleWorker, Rest, OwnerLeaves, OwnerJoins, OwnerGivesUp
  <2> QED BY <2>1, SameSets DEF demandVars, Holding, Connected
<1>2. CASE \E w \in Worker : WorkerSteps(w)
  BY <1>2, WorkerKeepsCount
<1>3. CASE \E c \in Conn : Accept(c) \/ PeerLeaves(c) \/ Handles(c)
  BY <1>3, ConnectionKeepsCount
<1>4. CASE Others
  BY <1>4, OthersChangeNothing, SameSets DEF demandVars, Holding, Connected
<1> QED BY <1>1, <1>2, <1>3, <1>4 DEF Next, Others

\* Every demand is counted exactly once, and holds a slot and its callback for
\* as long as its handler has it.
THEOREM EveryDemandCounted == Spec => []DemandsCounted
  BY WorkInit, WorkNext, CountedInit, CountedNext, PTL DEF Spec

-----------------------------------------------------------------------------
\* A demand that was in place when a worker ended is about to be retired for
\* as long as it is in its loop: the worker's thread has yet to take the
\* callbacks, or has this one.
AboutToRetire ==
  \A c \in old :
    /\ conn[c] \in {"served", "shut"}
    /\ conn[c] = "served" =>
         \E w \in Worker : work[w] = "exited" \/ (work[w] = "retiring" /\ c \in todo[w])

LEMMA OwnerKeepsRetiring ==
  ASSUME WorkInv, AboutToRetire, OwnerSteps
  PROVE  AboutToRetire'
<1> USE DEF WorkInv, Types, Known, Alive, WorkStates, AboutToRetire, ThreadAlive, FoundDead,
        Forget, demandVars, workVars, mainVars
<1>1. CASE PolicyStarts
  BY <1>1 DEF PolicyStarts
<1>2. CASE ReadPolicy
  BY <1>2 DEF ReadPolicy
<1>3. CASE StartWorker
  BY <1>3 DEF StartWorker
<1>4. CASE KeepWorker
  BY <1>4 DEF KeepWorker
<1>5. CASE IdleWorker
  BY <1>5 DEF IdleWorker
<1>6. CASE Rest
  BY <1>6 DEF Rest
<1>7. CASE OwnerLeaves
  BY <1>7 DEF OwnerLeaves
<1>8. CASE OwnerJoins
  BY <1>8 DEF OwnerJoins
<1>9. CASE OwnerGivesUp
  BY <1>9 DEF OwnerGivesUp
<1> QED BY <1>1, <1>2, <1>3, <1>4, <1>5, <1>6, <1>7, <1>8, <1>9 DEF OwnerSteps, Reconcile

LEMMA WorkerKeepsRetiring ==
  ASSUME WorkInv, DemandsCounted, AboutToRetire, NEW w \in Worker, WorkerSteps(w)
  PROVE  AboutToRetire'
<1> USE DEF WorkInv, Types, Known, Alive, WorkStates, ConnStates, AboutToRetire,
        demandVars, ownerVars, mainVars
<1>1. CASE WorkerStarts(w)
  BY <1>1 DEF WorkerStarts
<1>2. CASE WorkerEnds(w)
  BY <1>2 DEF WorkerEnds, InPlace
<1>3. CASE TakeSnapshot(w)
  BY <1>3 DEF TakeSnapshot, Snapshot, DemandsCounted, Holding
<1>4. ASSUME NEW c \in Conn, Retire(w, c)
      PROVE  AboutToRetire'
  BY <1>4 DEF Retire
<1>5. CASE WorkerThreadEnds(w)
  BY <1>5 DEF WorkerThreadEnds
<1> QED BY <1>1, <1>2, <1>3, <1>4, <1>5 DEF WorkerSteps, Retires

LEMMA ConnectionKeepsRetiring ==
  ASSUME WorkInv, AboutToRetire, NEW c \in Conn, Accept(c) \/ PeerLeaves(c) \/ Handles(c)
  PROVE  AboutToRetire'
<1> USE DEF WorkInv, Types, ConnStates, AboutToRetire, ownerVars, workVars, mainVars
<1>1. CASE Accept(c)
  BY <1>1 DEF Accept
<1>2. CASE PeerLeaves(c)
  BY <1>2 DEF PeerLeaves
<1>3. CASE AddDemand(c)
  BY <1>3 DEF AddDemand
<1>4. CASE LeaveLoop(c)
  BY <1>4 DEF LeaveLoop
<1>5. CASE RemoveDemand(c)
  BY <1>5 DEF RemoveDemand
<1> QED BY <1>1, <1>2, <1>3, <1>4, <1>5 DEF Handles

LEMMA RetiringNext ==
  WorkInv /\ DemandsCounted /\ AboutToRetire /\ [Next]_vars => AboutToRetire'
<1> SUFFICES ASSUME WorkInv, DemandsCounted, AboutToRetire, [Next]_vars PROVE AboutToRetire'
  OBVIOUS
<1>1. CASE OwnerSteps
  BY <1>1, OwnerKeepsRetiring
<1>2. CASE \E w \in Worker : WorkerSteps(w)
  BY <1>2, WorkerKeepsRetiring
<1>3. CASE \E c \in Conn : Accept(c) \/ PeerLeaves(c) \/ Handles(c)
  BY <1>3, ConnectionKeepsRetiring
<1>4. CASE Others
  BY <1>4, OthersChangeNothing DEF AboutToRetire, demandVars, workVars
<1> QED BY <1>1, <1>2, <1>3, <1>4 DEF Next, Others

\* A worker starts only when the thread of the one before has ended, and by
\* then no demand of that one is in its loop.
LEMMA StartAfterRetiring ==
  ASSUME WorkInv, AboutToRetire, StartWorker
  PROVE  \A c \in old : conn[c] # "served"
<1>1. \A w \in Worker : work[w] \notin Alive
  BY DEF StartWorker, ThreadAlive, FoundDead, WorkInv, Known, Types
<1> QED BY <1>1 DEF AboutToRetire, Alive

\* A demand never outlives the worker that served it into the next one,
\* although the callbacks are a snapshot taken without the worker's end.
THEOREM DemandsRetireWithWorker == Spec => RetiredWithWorker
<1>1. Init => AboutToRetire
  BY DEF Init, AboutToRetire
<1>2. WorkInv /\ AboutToRetire /\ [Next]_vars
        => [StartWorker => \A c \in old : conn[c] # "served"]_vars
  BY StartAfterRetiring
<1> QED
  BY <1>1, <1>2, WorkInit, WorkNext, CountedInit, CountedNext, RetiringNext, PTL
  DEF Spec, RetiredWithWorker

================================================================================
