----------------------------- MODULE ServiceOwner -----------------------------
(***************************************************************************)
(* The process that owns one GPU service across standby periods:           *)
(* ServiceOwner, DemandSocket, owner_main and the loop of demand_main in   *)
(* services/accelerator/.../service_owner.py.                              *)
(*                                                                         *)
(* Four kinds of threads meet here.  The owner's thread reconciles the     *)
(* policy and the demands with the worker.  A worker thread runs a lease   *)
(* supervisor and, when that returns, retires the demands its worker       *)
(* served.  A handler thread per connection keeps one demand while its     *)
(* peer stays connected.  The main thread accepts connections and shuts    *)
(* everything down.                                                        *)
(*                                                                         *)
(* Each block under the owner's lock is one action.  Inside reconcile the  *)
(* policy is read before the lock is taken, and the callbacks of a worker  *)
(* thread run after it is given back.  The supervisor is what              *)
(* LeaseSupervisor shows of it: it ends by itself or because it is asked   *)
(* to, and its worker with it.  The events that only shorten a wait        *)
(* (_wake, the poll and receive timeouts) are not state.                   *)
(***************************************************************************)
EXTENDS Integers, FiniteSets

CONSTANTS
  Conn,      \* connections to the demand socket
  Slots,     \* how many are served at once
  Worker,    \* worker threads
  IdleStop,  \* idle_stop_seconds
  Retry,     \* retry_seconds
  None

ASSUME TimesAssumption == Slots \in Nat \ {0} /\ IdleStop \in Nat /\ Retry \in Nat \ {0}
ASSUME SetsAssumption == IsFiniteSet(Conn) /\ None \notin Worker

Unset == -1

VARIABLES
  demands,     \* _demands
  retire,      \* _demand_retire, by connection
  idle,        \* time since _idle_since, or Unset
  nextIn,      \* time until _next_start
  thread,      \* _runner_thread, and _runner with it
  owner,       \* where ServiceOwner.run is
  wish,        \* policy_wish of the current reconcile
  stop,        \* ServiceOwner._stop
  work,        \* what each worker thread does
  asked,       \* workers whose supervisor was asked to stop
  todo,        \* callbacks a worker thread has still to call
  conn,        \* what the handler of each connection does
  slots,       \* free places of _slots
  main,        \* where DemandSocket.serve and owner_main are
  socketStop,  \* DemandSocket._stop
  policy,      \* whether policy.unload_requested() would be False: the
               \* model is wanted (not True, and not None)
  old          \* auxiliary: demands that were in place when a worker ended

demandVars == <<demands, retire, conn, slots>>
ownerVars  == <<idle, nextIn, thread, owner, wish>>
workVars   == <<work, asked, todo>>
mainVars   == <<stop, main, socketStop>>
vars == <<demandVars, ownerVars, workVars, mainVars, policy, old>>

Alive == {"new", "running", "exited", "retiring"}
WorkStates == Alive \cup {"none", "dead"}
ConnStates == {"none", "accepted", "served", "shut", "leaving"}
OwnerPlaces == {"starting", "looking", "wished", "resting", "joining", "done", "failed"}
MainPlaces == {"serving", "closing", "joining", "ended"}
OwnerEnded == owner \in {"done", "failed"}

Init ==
  /\ demands = 0 /\ retire = {} /\ idle = Unset /\ nextIn = 0 /\ thread = None
  /\ owner = "starting" /\ wish = FALSE /\ stop = FALSE
  /\ work = [w \in Worker |-> "none"] /\ asked = {} /\ todo = [w \in Worker |-> {}]
  /\ conn = [c \in Conn |-> "none"] /\ slots = Slots
  /\ main = "serving" /\ socketStop = FALSE
  /\ policy \in BOOLEAN /\ old = {}

\* A reconcile takes no time.
Elapse ==
  /\ owner # "wished"
  /\ (idle # Unset /\ idle < IdleStop) \/ nextIn > 0
  /\ idle' = IF idle # Unset /\ idle < IdleStop THEN idle + 1 ELSE idle
  /\ nextIn' = IF nextIn > 0 THEN nextIn - 1 ELSE 0
  /\ UNCHANGED <<demandVars, thread, owner, wish, workVars, mainVars, policy, old>>

PolicyChanges ==
  /\ policy' = ~policy
  /\ UNCHANGED <<demandVars, ownerVars, workVars, mainVars, old>>

-----------------------------------------------------------------------------
\* ServiceOwner.run
PolicyStarts ==
  /\ owner = "starting"
  /\ owner' = "looking"
  /\ UNCHANGED <<demandVars, idle, nextIn, thread, wish, workVars, mainVars, policy, old>>

ReadPolicy ==
  /\ owner = "looking" /\ ~stop
  /\ wish' = policy /\ owner' = "wished"
  /\ UNCHANGED <<demandVars, idle, nextIn, thread, workVars, mainVars, policy, old>>

\* reconcile, under the lock.  A worker found dead delays the next start.
ThreadRuns == thread # None /\ work[thread] \in {"new", "running"}
ThreadAlive == thread # None /\ work[thread] \in Alive
FoundDead == thread # None /\ ~ThreadAlive
DesiredByPolicy == wish
Desired == demands > 0 \/ wish

Forget ==
  /\ thread' = IF FoundDead THEN None ELSE thread
  /\ nextIn' = IF FoundDead THEN Retry ELSE nextIn
  /\ work' = IF FoundDead THEN [work EXCEPT ![thread] = "none"] ELSE work

StartWorker ==
  /\ owner = "wished" /\ Desired /\ ~ThreadAlive /\ ~FoundDead /\ nextIn = 0 /\ ~stop
  /\ \E w \in Worker :
       /\ work[w] = "none"
       /\ work' = [work EXCEPT ![w] = "new"] /\ thread' = w
       /\ asked' = asked \ {w}
  /\ idle' = Unset /\ owner' = "resting" /\ wish' = FALSE
  /\ UNCHANGED <<demandVars, nextIn, todo, mainVars, policy, old>>

KeepWorker ==
  /\ owner = "wished" /\ Desired /\ (ThreadAlive \/ FoundDead \/ nextIn > 0 \/ stop)
  /\ Forget
  /\ idle' = Unset /\ owner' = "resting" /\ wish' = FALSE
  /\ UNCHANGED <<demandVars, asked, todo, mainVars, policy, old>>

IdleWorker ==
  /\ owner = "wished" /\ ~Desired
  /\ Forget
  /\ idle' = IF idle = Unset THEN 0 ELSE idle
  /\ asked' = IF ThreadAlive /\ idle' >= IdleStop THEN asked \cup {thread} ELSE asked
  /\ owner' = "resting" /\ wish' = FALSE
  /\ UNCHANGED <<demandVars, todo, mainVars, policy, old>>

Rest ==
  /\ owner = "resting"
  /\ owner' = "looking"
  /\ UNCHANGED <<demandVars, idle, nextIn, thread, wish, workVars, mainVars, policy, old>>

\* The finally clause of run: after _stop, or when policy.start() raised.
OwnerLeaves ==
  /\ owner = "starting" \/ (owner = "looking" /\ stop)
  /\ asked' = IF thread # None THEN asked \cup {thread} ELSE asked
  /\ owner' = "joining"
  /\ UNCHANGED <<demandVars, idle, nextIn, thread, wish, work, todo, mainVars, policy, old>>

OwnerJoins ==
  /\ owner = "joining" /\ ~ThreadAlive
  /\ owner' = "done"
  /\ UNCHANGED <<demandVars, idle, nextIn, thread, wish, workVars, mainVars, policy, old>>

OwnerGivesUp ==
  /\ owner = "joining" /\ ThreadAlive
  /\ owner' = "failed"
  /\ UNCHANGED <<demandVars, idle, nextIn, thread, wish, workVars, mainVars, policy, old>>

-----------------------------------------------------------------------------
\* A worker thread.  The supervisor gets a lease and starts the worker, or
\* returns at once; it returns when the worker ends or it is asked to stop.
InPlace == {c \in Conn : conn[c] \in {"served", "shut"}}

WorkerStarts(w) ==
  /\ work[w] = "new"
  /\ work' = [work EXCEPT ![w] = "running"]
  /\ UNCHANGED <<demandVars, ownerVars, asked, todo, mainVars, policy, old>>

WorkerEnds(w) ==
  /\ work[w] \in {"new", "running"}
  /\ work' = [work EXCEPT ![w] = "exited"]
  /\ old' = old \cup InPlace
  /\ UNCHANGED <<demandVars, ownerVars, asked, todo, mainVars, policy>>

\* _run_worker: a snapshot of the callbacks, then each of them.
NoSnapshot == {}
Snapshot == retire

TakeSnapshot(w) ==
  /\ work[w] = "exited"
  /\ work' = [work EXCEPT ![w] = "retiring"]
  /\ todo' = [todo EXCEPT ![w] = Snapshot]
  /\ UNCHANGED <<demandVars, ownerVars, asked, mainVars, policy, old>>

\* retire(): shuts the socket down; on a closed one nothing happens.
Retire(w, c) ==
  /\ c \in todo[w]
  /\ todo' = [todo EXCEPT ![w] = @ \ {c}]
  /\ conn' = IF conn[c] = "served" THEN [conn EXCEPT ![c] = "shut"] ELSE conn
  /\ UNCHANGED <<demands, retire, slots, ownerVars, work, asked, mainVars, policy, old>>

WorkerThreadEnds(w) ==
  /\ work[w] = "retiring" /\ todo[w] = {}
  /\ work' = [work EXCEPT ![w] = "dead"]
  /\ UNCHANGED <<demandVars, ownerVars, asked, todo, mainVars, policy, old>>

-----------------------------------------------------------------------------
\* serve accepts a connection while there is a slot; without one it closes
\* it at once, which changes nothing.  A connection object is new.
Accept(c) ==
  /\ main = "serving" /\ conn[c] = "none" /\ slots > 0
  /\ \A w \in Worker : c \notin todo[w]
  /\ slots' = slots - 1 /\ conn' = [conn EXCEPT ![c] = "accepted"]
  /\ UNCHANGED <<demands, retire, ownerVars, workVars, mainVars, policy, old>>

\* _handle: add_demand, then READY and the receive loop.
AddDemand(c) ==
  /\ conn[c] = "accepted"
  /\ demands' = demands + 1 /\ idle' = Unset /\ retire' = retire \cup {c}
  /\ conn' = [conn EXCEPT ![c] = "served"]
  /\ UNCHANGED <<slots, nextIn, thread, owner, wish, workVars, mainVars, policy, old>>

\* The peer (demand_main) is gone: its loop ended, or its parent did.
PeerLeaves(c) ==
  /\ conn[c] = "served"
  /\ conn' = [conn EXCEPT ![c] = "shut"]
  /\ UNCHANGED <<demands, retire, slots, ownerVars, workVars, mainVars, policy, old>>

LeaveLoop(c) ==
  /\ conn[c] = "shut" \/ (conn[c] = "served" /\ socketStop)
  /\ conn' = [conn EXCEPT ![c] = "leaving"]
  /\ old' = old \ {c}
  /\ UNCHANGED <<demands, retire, slots, ownerVars, workVars, mainVars, policy>>

\* remove_demand, and the slot is free again.
DemandsKept == demands
DemandsLess == demands - 1
RemoveDemand(c) ==
  /\ conn[c] = "leaving" /\ demands > 0
  /\ demands' = DemandsLess /\ retire' = retire \ {c}
  /\ conn' = [conn EXCEPT ![c] = "none"] /\ slots' = slots + 1
  /\ UNCHANGED <<ownerVars, workVars, mainVars, policy, old>>

-----------------------------------------------------------------------------
\* The main thread: a signal, or the owner's thread has ended unexpectedly.
Signal ==
  /\ main = "serving"
  /\ socketStop' = TRUE
  /\ UNCHANGED <<demandVars, ownerVars, workVars, stop, main, policy, old>>

ServeEnds ==
  /\ main = "serving" /\ (socketStop \/ OwnerEnded)
  /\ socketStop' = TRUE /\ main' = "closing"
  /\ UNCHANGED <<demandVars, ownerVars, workVars, stop, policy, old>>

\* The handlers were joined, for two seconds each; then owner.stop().
StopOwner ==
  /\ main = "closing"
  /\ stop' = TRUE /\ main' = "joining"
  /\ UNCHANGED <<demandVars, ownerVars, workVars, socketStop, policy, old>>

MainEnds ==
  /\ main = "joining" /\ OwnerEnded
  /\ main' = "ended"
  /\ UNCHANGED <<demandVars, ownerVars, workVars, stop, socketStop, policy, old>>

-----------------------------------------------------------------------------
Reconcile == StartWorker \/ KeepWorker \/ IdleWorker
OwnerSteps == PolicyStarts \/ ReadPolicy \/ Reconcile \/ Rest \/ OwnerLeaves
                \/ OwnerJoins \/ OwnerGivesUp
Retires(w) == TakeSnapshot(w) \/ (\E c \in Conn : Retire(w, c)) \/ WorkerThreadEnds(w)
WorkerSteps(w) == WorkerStarts(w) \/ WorkerEnds(w) \/ Retires(w)
Handles(c) == AddDemand(c) \/ LeaveLoop(c) \/ RemoveDemand(c)
MainSteps == Signal \/ ServeEnds \/ StopOwner \/ MainEnds
Stopped == main = "ended" /\ UNCHANGED vars

Next ==
  \/ Elapse \/ PolicyChanges \/ OwnerSteps \/ MainSteps \/ Stopped
  \/ \E w \in Worker : WorkerSteps(w)
  \/ \E c \in Conn : Accept(c) \/ PeerLeaves(c) \/ Handles(c)

Spec == Init /\ [][Next]_vars

\* Every thread goes on; a supervisor that is asked to stop, or has a worker
\* to start, does so (LeaseSupervisor, WorkerEnds).
FairSpec ==
  /\ Spec /\ SF_vars(Elapse) /\ WF_vars(OwnerSteps)
  /\ WF_vars(ServeEnds \/ StopOwner \/ MainEnds)
  /\ \A w \in Worker :
       /\ WF_vars(Retires(w)) /\ WF_vars(work[w] = "new" /\ WorkerSteps(w))
       /\ WF_vars(w \in asked /\ WorkerEnds(w))
  /\ \A c \in Conn : WF_vars(Handles(c))

-----------------------------------------------------------------------------
TypeOK ==
  /\ demands \in Nat /\ retire \subseteq Conn /\ slots \in 0..Slots
  /\ conn \in [Conn -> ConnStates]
  /\ idle \in {Unset} \cup 0..IdleStop /\ nextIn \in 0..Retry
  /\ thread \in Worker \cup {None} /\ owner \in OwnerPlaces /\ wish \in BOOLEAN
  /\ work \in [Worker -> WorkStates] /\ asked \subseteq Worker
  /\ todo \in [Worker -> SUBSET Conn]
  /\ stop \in BOOLEAN /\ main \in MainPlaces /\ socketStop \in BOOLEAN
  /\ policy \in BOOLEAN /\ old \subseteq Conn

\* The owner never has two workers, and once run() has returned without an
\* error it has none: nothing of the GPU is in use behind a clean exit.
OneWorker ==
  /\ \A v, w \in Worker : work[v] \in Alive /\ work[w] \in Alive => v = w
  /\ owner = "done" => \A w \in Worker : work[w] \notin Alive

\* Every demand is counted once and has its callback for as long as its
\* handler holds it, and none is released twice: a demand too many would keep
\* the model loaded for ever, one too few would unload it under a session.
Holding == {c \in Conn : conn[c] \in {"served", "shut", "leaving"}}
DemandsCounted ==
  /\ demands = Cardinality(Holding) /\ retire = Holding
  /\ slots + Cardinality({c \in Conn : conn[c] # "none"}) = Slots

\* "Existing demand subprocesses must retire with the actual worker, even
\* when this CPU owner keeps running and later starts another": when a worker
\* starts, no demand that an earlier worker served is still in its loop.
RetiredWithWorker ==
  [][StartWorker => \A c \in old : conn[c] # "served"]_vars

\* A demand gets a worker, or is told that there is none: it is retired, or
\* the owner stops.
DemandServed ==
  \A c \in Conn :
    conn[c] = "served" ~> \/ \E w \in Worker : work[w] = "running"
                          \/ conn[c] # "served" \/ OwnerEnded

\* Once nobody is connected and the schedule does not want the model loaded,
\* the worker goes for good.
Unwanted == ~policy /\ \A c \in Conn : conn[c] = "none"
StandbyAtLast == <>[]Unwanted => <>[](\A w \in Worker : work[w] # "running")
=============================================================================
