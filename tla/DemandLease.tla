----------------------------- MODULE DemandLease -----------------------------
(***************************************************************************)
(* The demand lease of a service that loads its model when it is asked to  *)
(* work: AcceleratorDemandLease of services/accelerator/.../demand_lease.py *)
(* and the threads that use it in services/embedding/.../runtime.py, behind *)
(* the admission of the HTTP server in server.py.                          *)
(*                                                                         *)
(* A request thread is admitted, waits for a place to execute, acquires    *)
(* the lease, works, releases (embed), and answers.  The drainer thread    *)
(* unloads the model and gives the lease back when nobody has used it for  *)
(* a while, and sends a readiness probe through embed itself.  The main    *)
(* thread closes everything at shutdown, while request threads, which are  *)
(* daemons, may still run.                                                 *)
(*                                                                         *)
(* Each `with self._condition' block is one action; what runs between two  *)
(* of them (the broker, Ollama, a keeper's close) are actions of their     *)
(* own.  A wait on the condition ends by itself after a quarter second, so *)
(* a waiting thread is one whose loop turn changes nothing.  The lease     *)
(* keeper is abstract: it holds a lease, is healthy or not, and is closed. *)
(***************************************************************************)
EXTENDS Integers, FiniteSets

CONSTANTS
  Caller,    \* request threads of the server
  Parallel,  \* max_parallel, the places of `execution'
  Queued,    \* max_queued; `admission' has max_parallel + max_queued
  Drainer,   \* the thread of _drain_loop
  Closer,    \* the main thread, in close()
  Keeper,    \* AcceleratorLeaseKeeper objects
  None

Embedder == Caller \cup {Drainer}
Thread == Embedder \cup {Closer}

ASSUME ThreadAssumption ==
  /\ Drainer \notin Caller /\ Closer \notin Embedder /\ None \notin Keeper
  /\ IsFiniteSet(Caller)
ASSUME PlacesAssumption == Parallel \in Nat \ {0} /\ Queued \in Nat

VARIABLES
  transition,  \* _transition
  keeper,      \* _keeper
  active,      \* _active
  idle,        \* _idle_since: unset, set, or set long enough ago
  closing,     \* _closing
  at,          \* where each thread is
  has,         \* the keeper a thread has in a local variable
  open,        \* keepers that hold a lease
  healthy,     \* keepers whose lease is being renewed
  unload,      \* the broker asks for unloading
  resident,    \* Ollama has the model in memory
  caught       \* auxiliary: threads at work when close() began

leaseVars == <<transition, keeper, active, idle, closing>>
envVars   == <<healthy, unload>>
vars == <<leaseVars, at, has, open, envVars, resident, caught>>

Transitions == {"idle", "acquiring", "ready", "draining"}
Places == {"out", "admitted", "asking", "starting", "started", "discarding", "embedding",
           "embedded", "quiescing", "polling", "proven", "closed", "gone"}

AtWork == {t \in Embedder : at[t] \in {"embedding", "embedded"}}
Unloading == {"quiescing", "polling", "proven", "closed"}

MoveTo(t, place) == at' = [at EXCEPT ![t] = place]
MoveWith(t, place, k) == MoveTo(t, place) /\ has' = [has EXCEPT ![t] = k]
Return(t) == MoveWith(t, "out", None)

IsHealthy(k) == k \in open \cap healthy
WantsUnload(k) == ~IsHealthy(k) \/ unload
IsReady == transition = "ready" /\ keeper # None /\ IsHealthy(keeper)

Init ==
  /\ transition = "idle" /\ keeper = None /\ active = 0 /\ idle = "unset"
  /\ closing = FALSE
  /\ at = [t \in Thread |-> "out"] /\ has = [t \in Thread |-> None]
  /\ open = {} /\ healthy = {} /\ unload \in BOOLEAN
  /\ resident = FALSE /\ caught = {}

-----------------------------------------------------------------------------
\* do_POST: the semaphores are the requests that hold them.  A full server
\* answers at once, which changes nothing.  The answer belongs to the last
\* step of a request: both places are free after it.
Admitted == {c \in Caller : at[c] # "out"}
Executing == {c \in Caller : at[c] \notin {"out", "admitted"}}

AdmitRequest(c) ==
  /\ at[c] = "out" /\ Cardinality(Admitted) < Parallel + Queued
  /\ MoveTo(c, "admitted")
  /\ UNCHANGED <<leaseVars, has, open, envVars, resident, caught>>

InvalidRequest(c) ==
  /\ at[c] = "admitted"
  /\ MoveTo(c, "out")
  /\ UNCHANGED <<leaseVars, has, open, envVars, resident, caught>>

Execute(c) ==
  /\ at[c] = "admitted" /\ Cardinality(Executing) < Parallel
  /\ MoveTo(c, "asking")
  /\ UNCHANGED <<leaseVars, has, open, envVars, resident, caught>>

\* The drainer's probe goes straight to embed: it needs a policy that wants
\* the model and a lease that is not ready.
Probe ==
  /\ at[Drainer] = "out" /\ ~closing /\ ~unload /\ ~IsReady
  /\ MoveTo(Drainer, "asking")
  /\ UNCHANGED <<leaseVars, has, open, envVars, resident, caught>>

\* acquire, one turn of its loop: refuse, wait, join, or go and get a lease.
InTransitionAcquiring == transition = "acquiring"
InTransition == transition \in {"acquiring", "draining"}
MustWait == InTransition \/ (keeper # None /\ ~IsHealthy(keeper))

Refused(t) ==
  /\ at[t] = "asking" /\ (closing \/ MustWait)   \* closing, or the deadline
  /\ Return(t)
  /\ UNCHANGED <<leaseVars, open, envVars, resident, caught>>

Join(t) ==
  /\ at[t] = "asking" /\ ~closing /\ ~MustWait /\ keeper # None
  /\ active' = active + 1 /\ idle' = "unset"
  /\ MoveTo(t, "embedding")
  /\ UNCHANGED <<transition, keeper, closing, has, open, envVars, resident, caught>>

Fresh == {k \in Keeper : k \notin open /\ k # keeper /\ \A t \in Thread : has[t] # k}
ClaimUnmarked(t) ==
  /\ at[t] = "asking" /\ ~closing /\ ~MustWait /\ keeper = None
  /\ \E k \in Fresh : MoveWith(t, "starting", k)
  /\ UNCHANGED <<leaseVars, open, envVars, resident, caught>>
Claim(t) ==
  /\ at[t] = "asking" /\ ~closing /\ ~MustWait /\ keeper = None
  /\ transition' = "acquiring"
  /\ \E k \in Fresh : MoveWith(t, "starting", k)
  /\ UNCHANGED <<keeper, active, idle, closing, open, envVars, resident, caught>>

\* keeper.start() is answered by the broker, or raises.
StartSucceeds(t) ==
  /\ at[t] = "starting"
  /\ open' = open \cup {has[t]} /\ healthy' = healthy \cup {has[t]}
  /\ MoveTo(t, "started")
  /\ UNCHANGED <<leaseVars, has, unload, resident, caught>>

StartFailsUnmarked(t) ==
  /\ at[t] = "starting"
  /\ Return(t)
  /\ UNCHANGED <<leaseVars, open, envVars, resident, caught>>
StartFails(t) ==
  /\ at[t] = "starting"
  /\ transition' = "idle"
  /\ Return(t)
  /\ UNCHANGED <<keeper, active, idle, closing, open, envVars, resident, caught>>

Install(t) ==
  /\ at[t] = "started" /\ ~closing
  /\ keeper' = has[t] /\ active' = 1 /\ idle' = "unset" /\ transition' = "ready"
  /\ MoveWith(t, "embedding", None)
  /\ UNCHANGED <<closing, open, envVars, resident, caught>>

ShutDownDuringStart(t) ==
  /\ at[t] = "started" /\ closing
  /\ transition' = "draining"
  /\ MoveTo(t, "discarding")
  /\ UNCHANGED <<keeper, active, idle, closing, has, open, envVars, resident, caught>>

Discard(t) ==
  /\ at[t] = "discarding"
  /\ open' = open \ {has[t]} /\ healthy' = healthy \ {has[t]}
  /\ Return(t)
  /\ UNCHANGED <<leaseVars, unload, resident, caught>>

\* The request to Ollama, which loads the model if it has to; it may fail
\* before or after that, and so may the proof of residency that follows.
Embed(t) ==
  /\ at[t] = "embedding"
  /\ resident' \in {resident, TRUE}
  /\ MoveTo(t, "embedded")
  /\ UNCHANGED <<leaseVars, has, open, envVars, caught>>

\* release, which raises when the count is no longer positive.
NotIdleSince == idle
IdleSince == IF active = 1 THEN "set" ELSE idle
ReleaseUnchecked(t) ==
  /\ at[t] = "embedded"
  /\ active' = active - 1 /\ idle' = IdleSince
  /\ Return(t)
  /\ UNCHANGED <<transition, keeper, closing, open, envVars, resident, caught>>
Release(t) ==
  /\ at[t] = "embedded"
  /\ IF active > 0
     THEN active' = active - 1 /\ idle' = IdleSince
     ELSE UNCHANGED <<active, idle>>
  /\ Return(t)
  /\ UNCHANGED <<transition, keeper, closing, open, envVars, resident, caught>>

-----------------------------------------------------------------------------
\* drain_if_idle, up to the mark that keeps acquirers out.
DrainBegins ==
  /\ at[Drainer] = "out" /\ ~closing
  /\ keeper # None /\ transition = "ready" /\ active = 0
  /\ idle # "unset" /\ (IsHealthy(keeper) => idle = "over")
  /\ WantsUnload(keeper)
  /\ transition' = "draining"
  /\ MoveWith(Drainer, "quiescing", keeper)
  /\ UNCHANGED <<keeper, active, idle, closing, open, envVars, resident, caught>>

\* close(): marked as closing first, whoever is at work.
CloseBegins ==
  /\ at[Closer] = "out"
  /\ closing' = TRUE /\ caught' = AtWork
  /\ IF keeper # None
     THEN transition' = "draining" /\ MoveWith(Closer, "quiescing", keeper)
     ELSE UNCHANGED <<transition, has>> /\ MoveTo(Closer, "closed")
  /\ UNCHANGED <<keeper, active, idle, open, envVars, resident>>

\* _unload_and_verify: ask Ollama to unload, then look until nothing is
\* loaded.  Either request may fail and the look may time out.
AskUnload(t) ==
  /\ at[t] = "quiescing"
  /\ resident' = FALSE
  /\ MoveTo(t, "polling")
  /\ UNCHANGED <<leaseVars, has, open, envVars, caught>>

SeeUnloaded(t) ==
  /\ at[t] = "polling" /\ ~resident
  /\ MoveTo(t, "proven")
  /\ UNCHANGED <<leaseVars, has, open, envVars, resident, caught>>

QuiesceIgnored(t) ==
  /\ at[t] \in {"quiescing", "polling"}
  /\ MoveTo(t, "proven")
  /\ UNCHANGED <<leaseVars, has, open, envVars, resident, caught>>
QuiesceFails(t) ==
  /\ at[t] \in {"quiescing", "polling"}
  /\ IF t = Drainer
     THEN transition' = "ready" /\ idle' = "set" /\ Return(t)
     ELSE UNCHANGED <<transition, idle>> /\ MoveWith(t, "gone", None)
  /\ UNCHANGED <<keeper, active, closing, open, envVars, resident, caught>>

\* keeper.close(): the keeper forgets its lease whether or not the broker
\* hears of it.
CloseKeeper(t) ==
  /\ at[t] = "proven"
  /\ open' = open \ {has[t]} /\ healthy' = healthy \ {has[t]}
  /\ MoveTo(t, "closed")
  /\ UNCHANGED <<leaseVars, has, unload, resident, caught>>

\* In close(), a broker that cannot be reached raises past the reset.
ReleaseRaises ==
  /\ at[Closer] = "proven"
  /\ open' = open \ {has[Closer]} /\ healthy' = healthy \ {has[Closer]}
  /\ MoveWith(Closer, "gone", None)
  /\ UNCHANGED <<leaseVars, unload, resident, caught>>

DrainEnds ==
  /\ at[Drainer] = "closed"
  /\ keeper' = IF keeper = has[Drainer] THEN None ELSE keeper
  /\ idle' = "unset" /\ transition' = "idle"
  /\ Return(Drainer)
  /\ UNCHANGED <<active, closing, open, envVars, resident, caught>>

CloseEnds ==
  /\ at[Closer] = "closed"
  /\ keeper' = None /\ active' = 0 /\ idle' = "unset" /\ transition' = "idle"
  /\ MoveWith(Closer, "gone", None)
  /\ UNCHANGED <<closing, open, envVars, resident, caught>>

-----------------------------------------------------------------------------
\* The keepers' renewals, the broker's policy, Ollama's own expiry, time.
HealthChanges ==
  /\ \E k \in open : healthy' = IF k \in healthy THEN healthy \ {k} ELSE healthy \cup {k}
  /\ UNCHANGED <<leaseVars, at, has, open, unload, resident, caught>>

PolicyChanges ==
  /\ unload' = ~unload
  /\ UNCHANGED <<leaseVars, at, has, open, healthy, resident, caught>>

ModelExpires ==
  /\ resident /\ resident' = FALSE
  /\ UNCHANGED <<leaseVars, at, has, open, envVars, caught>>

IdlePasses ==
  /\ idle = "set" /\ idle' = "over"
  /\ UNCHANGED <<transition, keeper, active, closing, at, has, open, envVars,
                 resident, caught>>

\* The steps a thread owes once it has begun to embed; nobody owes a request,
\* and a place to execute is not given in any order.
Works(t) ==
  \/ Refused(t) \/ Join(t) \/ Claim(t)
  \/ StartSucceeds(t) \/ StartFails(t) \/ Install(t)
  \/ ShutDownDuringStart(t) \/ Discard(t)
  \/ Embed(t) \/ Release(t)
Unloads(t) ==
  \/ AskUnload(t) \/ SeeUnloaded(t) \/ QuiesceFails(t) \/ CloseKeeper(t)

Next ==
  \/ \E c \in Caller : AdmitRequest(c) \/ InvalidRequest(c) \/ Execute(c)
  \/ Probe
  \/ \E t \in Embedder : Works(t)
  \/ \E t \in {Drainer, Closer} : Unloads(t)
  \/ DrainBegins \/ DrainEnds \/ CloseBegins \/ ReleaseRaises \/ CloseEnds
  \/ HealthChanges \/ PolicyChanges \/ ModelExpires \/ IdlePasses

Spec == Init /\ [][Next]_vars

\* Threads go on, time passes, and an unload tried again and again succeeds.
FairSpec ==
  /\ Spec
  /\ \A t \in Embedder : WF_vars(Works(t))
  /\ \A t \in {Drainer, Closer} :
       WF_vars(Unloads(t)) /\ SF_vars(AskUnload(t)) /\ SF_vars(SeeUnloaded(t))
  /\ WF_vars(DrainBegins) /\ WF_vars(DrainEnds) /\ WF_vars(CloseEnds)
  /\ WF_vars(IdlePasses)

-----------------------------------------------------------------------------
\* The type of every variable.
TypeOK ==
  /\ transition \in Transitions /\ keeper \in Keeper \cup {None}
  /\ active \in Nat /\ idle \in {"unset", "set", "over"}
  /\ {closing, unload, resident} \subseteq BOOLEAN
  /\ at \in [Thread -> Places] /\ has \in [Thread -> Keeper \cup {None}]
  /\ open \subseteq Keeper /\ healthy \subseteq Keeper /\ caught \subseteq Embedder

\* Until shutdown every request at work is counted and runs under the lease
\* the service holds, and the drainer unloads nothing under it.
WorkHoldsTheLease ==
  ~closing =>
    /\ active = Cardinality(AtWork)
    /\ AtWork # {} => keeper \in open /\ at[Drainer] \notin Unloading

\* Requests that race for the first lease get one between them.
OneLease == Cardinality(open) <= 1

GivesBack == ~(open \subseteq open')

\* services/embedding/README.md:15: the lease is given back only after the
\* model is out of the device.
ReleaseAfterUnload == [][ GivesBack => ~resident ]_vars

\* The same, unless close() began under a request at work.
QuietReleaseAfterUnload == [][ GivesBack /\ caught = {} => ~resident ]_vars

\* No thread leaves the lease in a transition that keeps the others out.
TransitionEnds == InTransition ~> ~InTransition \/ closing

\* An idle model is unloaded, and its lease given back, when the broker asks.
IdleModelUnloads ==
  (keeper # None /\ active = 0 /\ unload) ~>
    (keeper = None \/ active > 0 \/ ~unload \/ closing)
=============================================================================
