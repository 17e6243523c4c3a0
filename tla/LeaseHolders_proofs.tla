------------------------- MODULE LeaseHolders_proofs -------------------------
(***************************************************************************)
(* Proofs about the two programs that hold a GPU lease around the work     *)
(* they do with it, each for itself: no definition of one is used for the  *)
(* other.                                                                  *)
(*                                                                         *)
(* DemandLease, for any number of request threads, of places and of        *)
(* keepers: requests that race for the lease get one between them, until   *)
(* shutdown every request at work is counted and covered, and no lease     *)
(* goes back while the model is loaded.                                    *)
(*                                                                         *)
(* LeaseSupervisor: for every configuration whose ttl covers               *)
(* LongestUnproven, the worker never runs past the expiry the broker last  *)
(* promised; for every configuration at all, it is not ended before its    *)
(* grace is over.                                                          *)
(***************************************************************************)
EXTENDS DemandLease, LeaseSupervisor, FiniteSetTheorems, TLAPS

\* The embedding server (DemandLease).

\* A thread that has claimed a fresh keeper and not yet installed it.
Starting == {"starting", "started", "discarding"}
Starters == {t \in Embedder : at[t] \in Starting}

Types ==
  /\ at \in [Thread -> Places] /\ has \in [Thread -> Keeper \cup {None}]
  /\ keeper \in Keeper \cup {None} /\ open \subseteq Keeper

\* Who can be where, and that closing is what the main thread has begun.
WhoIsWhere ==
  /\ at[Closer] \in {"out", "gone"} \cup Unloading
  /\ at[Closer] = "out" => has[Closer] = None
  /\ \A c \in Caller : at[c] \notin Unloading
  /\ closing = (at[Closer] # "out")
  /\ \A t \in Embedder : at[t] = "discarding" => closing

\* One thread at most starts a keeper; nobody else knows it, and there is no
\* other.  Until shutdown the transition says so.
OneStarter ==
  /\ \A s, t \in Starters : s = t
  /\ \A s \in Starters :
       /\ keeper = None /\ has[s] # None
       /\ \A t \in Thread : t # s => has[t] # has[s]
       /\ ~closing => transition = "acquiring"

\* While the drainer unloads before shutdown, it does so for the keeper of
\* the service; so does the main thread, as long as there is one.
UnloadersHold ==
  /\ ~closing /\ at[Drainer] \in Unloading =>
       keeper # None /\ has[Drainer] = keeper /\ transition = "draining"
  /\ at[Closer] \in Unloading /\ keeper # None => has[Closer] = keeper

\* Every lease is known: to the service, or to the one that starts it, which
\* has it once it has started; and a keeper that was closed has none.
LeasesKnown ==
  /\ \A k \in open : k = keeper \/ \E t \in Starters : has[t] = k /\ at[t] # "starting"
  /\ \A t \in Starters : at[t] = "started" => has[t] \in open
  /\ \A t \in {Drainer, Closer} : at[t] = "closed" => has[t] \notin open

Inv == Types /\ WhoIsWhere /\ OneStarter /\ UnloadersHold /\ LeasesKnown

USE ThreadAssumption

LEMMA InvInit == Init => Inv
  BY DEF Init, Inv, Types, WhoIsWhere, OneStarter, UnloadersHold, LeasesKnown,
     Starters, Starting, Places, Unloading, Thread, Embedder

\* The steps of a thread that acquires, works and releases.
LEMMA WorksKeepsInv ==
  ASSUME Inv, NEW t \in Embedder, Works(t)
  PROVE  Inv'
<1> USE DEF Inv, Starters, Starting, Places, Unloading, Thread, Embedder,
        MoveTo, MoveWith, Return, leaseVars, envVars
<1>1. CASE Refused(t)
  BY <1>1 DEF Refused, Types, WhoIsWhere, OneStarter, UnloadersHold, LeasesKnown
<1>2. CASE Join(t)
  BY <1>2 DEF Join, Types, WhoIsWhere, OneStarter, UnloadersHold, LeasesKnown
<1>3. CASE Claim(t)
  BY <1>3 DEF Claim, Fresh, MustWait, InTransition, Types, WhoIsWhere, OneStarter, UnloadersHold, LeasesKnown
<1>4. CASE StartSucceeds(t)
  BY <1>4 DEF StartSucceeds, Types, WhoIsWhere, OneStarter, UnloadersHold, LeasesKnown
<1>5. CASE StartFails(t)
  BY <1>5 DEF StartFails, Types, WhoIsWhere, OneStarter, UnloadersHold, LeasesKnown
<1>6. CASE Install(t)
  <2>1. Types'
    BY <1>6 DEF Install, Types
  <2>2. WhoIsWhere'
    BY <1>6 DEF Install, Types, WhoIsWhere
  <2>3. OneStarter'
    BY <1>6 DEF Install, Types, WhoIsWhere, OneStarter
  <2>4. UnloadersHold'
    BY <1>6 DEF Install, Types, WhoIsWhere, OneStarter, UnloadersHold
  <2>5. LeasesKnown'
    BY <1>6 DEF Install, Types, WhoIsWhere, OneStarter, UnloadersHold, LeasesKnown
  <2> QED BY <2>1, <2>2, <2>3, <2>4, <2>5
<1>7. CASE ShutDownDuringStart(t)
  <2>1. Types'
    BY <1>7 DEF ShutDownDuringStart, Types
  <2>2. WhoIsWhere'
    BY <1>7 DEF ShutDownDuringStart, Types, WhoIsWhere
  <2>3. OneStarter'
    BY <1>7 DEF ShutDownDuringStart, Types, WhoIsWhere, OneStarter
  <2>4. UnloadersHold'
    BY <1>7 DEF ShutDownDuringStart, Types, WhoIsWhere, OneStarter, UnloadersHold
  <2>5. LeasesKnown'
    BY <1>7 DEF ShutDownDuringStart, Types, WhoIsWhere, OneStarter, UnloadersHold, LeasesKnown
  <2> QED BY <2>1, <2>2, <2>3, <2>4, <2>5
<1>8. CASE Discard(t)
  BY <1>8 DEF Discard, Types, WhoIsWhere, OneStarter, UnloadersHold, LeasesKnown
<1>9. CASE Embed(t)
  BY <1>9 DEF Embed, Types, WhoIsWhere, OneStarter, UnloadersHold, LeasesKnown
<1>10. CASE Release(t)
  BY <1>10 DEF Release, Types, WhoIsWhere, OneStarter, UnloadersHold, LeasesKnown
<1> QED BY <1>1, <1>2, <1>3, <1>4, <1>5, <1>6, <1>7, <1>8, <1>9, <1>10 DEF Works

\* The steps of the drainer and of close().
LEMMA UnloadsKeepInv ==
  ASSUME Inv, NEW t \in {Drainer, Closer}, Unloads(t)
  PROVE  Inv'
<1> USE DEF Inv, Starters, Starting, Places, Unloading, Thread, Embedder,
        MoveTo, MoveWith, Return, leaseVars, envVars
<1>1. CASE AskUnload(t)
  BY <1>1 DEF AskUnload, Types, WhoIsWhere, OneStarter, UnloadersHold, LeasesKnown
<1>2. CASE SeeUnloaded(t)
  BY <1>2 DEF SeeUnloaded, Types, WhoIsWhere, OneStarter, UnloadersHold, LeasesKnown
<1>3. CASE QuiesceFails(t)
  BY <1>3 DEF QuiesceFails, Types, WhoIsWhere, OneStarter, UnloadersHold, LeasesKnown
<1>4. CASE CloseKeeper(t)
  BY <1>4 DEF CloseKeeper, Types, WhoIsWhere, OneStarter, UnloadersHold, LeasesKnown
<1> QED BY <1>1, <1>2, <1>3, <1>4 DEF Unloads

LEMMA BeginAndEndKeepInv ==
  ASSUME Inv,
         DrainBegins \/ DrainEnds \/ CloseBegins \/ ReleaseRaises \/ CloseEnds
  PROVE  Inv'
<1> USE DEF Inv, Starters, Starting, Places, Unloading, Thread, Embedder,
        MoveTo, MoveWith, Return, leaseVars, envVars
<1>1. CASE DrainBegins
  BY <1>1 DEF DrainBegins, Types, WhoIsWhere, OneStarter, UnloadersHold, LeasesKnown
<1>2. CASE DrainEnds
  BY <1>2 DEF DrainEnds, Types, WhoIsWhere, OneStarter, UnloadersHold, LeasesKnown
<1>3. CASE CloseBegins
  <2>1. Types'
    BY <1>3 DEF CloseBegins, Types
  <2>2. WhoIsWhere'
    BY <1>3 DEF CloseBegins, Types, WhoIsWhere
  <2>3. OneStarter'
    BY <1>3 DEF CloseBegins, Types, WhoIsWhere, OneStarter
  <2>4. UnloadersHold'
    BY <1>3 DEF CloseBegins, Types, WhoIsWhere, OneStarter, UnloadersHold
  <2>5. LeasesKnown'
    BY <1>3 DEF CloseBegins, Types, WhoIsWhere, OneStarter, UnloadersHold, LeasesKnown
  <2> QED BY <2>1, <2>2, <2>3, <2>4, <2>5
<1>4. CASE ReleaseRaises
  BY <1>4 DEF ReleaseRaises, Types, WhoIsWhere, OneStarter, UnloadersHold, LeasesKnown
<1>5. CASE CloseEnds
  <2>1. Types'
    BY <1>5 DEF CloseEnds, Types
  <2>2. WhoIsWhere'
    BY <1>5 DEF CloseEnds, Types, WhoIsWhere
  <2>3. OneStarter'
    BY <1>5 DEF CloseEnds, Types, WhoIsWhere, OneStarter
  <2>4. UnloadersHold'
    BY <1>5 DEF CloseEnds, Types, WhoIsWhere, OneStarter, UnloadersHold
  <2>5. LeasesKnown'
    BY <1>5 DEF CloseEnds, Types, WhoIsWhere, OneStarter, UnloadersHold, LeasesKnown
  <2> QED BY <2>1, <2>2, <2>3, <2>4, <2>5
<1> QED BY <1>1, <1>2, <1>3, <1>4, <1>5

LEMMA OthersKeepInv ==
  ASSUME Inv,
         \/ \E c \in Caller : AdmitRequest(c) \/ InvalidRequest(c) \/ Execute(c)
         \/ Probe \/ HealthChanges \/ PolicyChanges \/ ModelExpires \/ IdlePasses
         \/ UNCHANGED vars
  PROVE  Inv'
<1> USE DEF Inv, Starters, Starting, Places, Unloading, Thread, Embedder,
        MoveTo, MoveWith, Return, leaseVars, envVars
<1>1. ASSUME NEW c \in Caller, AdmitRequest(c) \/ InvalidRequest(c) \/ Execute(c)
      PROVE  Inv'
  BY <1>1 DEF AdmitRequest, InvalidRequest, Execute, Types, WhoIsWhere, OneStarter, UnloadersHold, LeasesKnown
<1>2. CASE Probe
  BY <1>2 DEF Probe, Types, WhoIsWhere, OneStarter, UnloadersHold, LeasesKnown
<1>3. CASE HealthChanges
  BY <1>3 DEF HealthChanges, Types, WhoIsWhere, OneStarter, UnloadersHold, LeasesKnown
<1>4. CASE PolicyChanges
  BY <1>4 DEF PolicyChanges, Types, WhoIsWhere, OneStarter, UnloadersHold, LeasesKnown
<1>5. CASE ModelExpires
  BY <1>5 DEF ModelExpires, Types, WhoIsWhere, OneStarter, UnloadersHold, LeasesKnown
<1>6. CASE IdlePasses
  BY <1>6 DEF IdlePasses, Types, WhoIsWhere, OneStarter, UnloadersHold, LeasesKnown
<1>7. CASE UNCHANGED vars
  BY <1>7 DEF vars, Types, WhoIsWhere, OneStarter, UnloadersHold, LeasesKnown
<1> QED BY <1>1, <1>2, <1>3, <1>4, <1>5, <1>6, <1>7

LEMMA InvNext == Inv /\ [Next]_vars => Inv'
<1> SUFFICES ASSUME Inv, [Next]_vars PROVE Inv'
  OBVIOUS
<1>1. CASE \E t \in Embedder : Works(t)
  BY <1>1, WorksKeepsInv
<1>2. CASE \E t \in {Drainer, Closer} : Unloads(t)
  BY <1>2, UnloadsKeepInv
<1>3. CASE DrainBegins \/ DrainEnds \/ CloseBegins \/ ReleaseRaises \/ CloseEnds
  BY <1>3, BeginAndEndKeepInv
<1>4. CASE \/ \E c \in Caller : AdmitRequest(c) \/ InvalidRequest(c) \/ Execute(c)
           \/ Probe \/ HealthChanges \/ PolicyChanges \/ ModelExpires \/ IdlePasses
           \/ UNCHANGED vars
  BY <1>4, OthersKeepInv
<1> QED BY <1>1, <1>2, <1>3, <1>4 DEF Next

\* The invariant holds in every reachable state.
THEOREM InvHolds == Spec => []Inv
  BY InvInit, InvNext, PTL DEF Spec

LEMMA InvImpliesOneLease == Inv => OneLease
<1> SUFFICES ASSUME Inv PROVE Cardinality(open) <= 1
  BY DEF OneLease
<1>1. \A j, k \in open : j = k
  BY DEF Inv, Types, OneStarter, LeasesKnown, Starters
<1>2. open = {} \/ \E k : open = {k}
  BY <1>1
<1> QED BY <1>2, FS_EmptySet, FS_Singleton

\* Requests that race for the first lease, the drainer's probe and a shutdown
\* between any two of their steps: at most one lease is held at the broker.
THEOREM OneLeaseAtATime == Spec => []OneLease
  BY InvHolds, InvImpliesOneLease, PTL

-----------------------------------------------------------------------------
\* Until shutdown: the service's keeper holds its lease while the drainer has
\* not closed it, requests work under it, and they are counted.
Covered ==
  ~closing =>
    /\ keeper # None /\ at[Drainer] # "closed" => keeper \in open
    /\ AtWork # {} => keeper # None /\ at[Drainer] \notin Unloading
    /\ active = Cardinality(AtWork)

LEMMA AtWorkFinite == IsFiniteSet(AtWork) /\ Cardinality(AtWork) \in Nat
<1>1. IsFiniteSet(Embedder)
  BY FS_AddElement DEF Embedder
<1>2. IsFiniteSet(AtWork)
  BY <1>1, FS_Subset DEF AtWork
<1> QED BY <1>2, FS_CardinalityType

LEMMA CoveredInit == Init => Covered
<1> SUFFICES ASSUME Init PROVE Covered
  OBVIOUS
<1>1. AtWork = {}
  BY DEF Init, AtWork, Thread, Embedder
<1> QED BY <1>1, FS_EmptySet DEF Init, Covered

\* The steps that change who is at work.
LEMMA JoinKeepsCovered ==
  ASSUME Inv, Covered, NEW t \in Embedder, Join(t)
  PROVE  Covered'
<1> SUFFICES ASSUME ~closing PROVE Covered'
  BY DEF Join, Covered
<1>1. AtWork' = AtWork \cup {t} /\ t \notin AtWork
  BY DEF Join, AtWork, MoveTo, MoveWith, Return, leaseVars, envVars, Inv, Types, WhoIsWhere, OneStarter, UnloadersHold, Starters, Starting, Places, Unloading, Thread, Embedder
<1>2. Cardinality(AtWork') = Cardinality(AtWork) + 1
  BY <1>1, AtWorkFinite, FS_AddElement
<1>3. transition # "draining" /\ at[Drainer] \notin Unloading
  BY DEF Join, MustWait, InTransition, Inv, Types, WhoIsWhere, OneStarter, UnloadersHold, Starters, Starting, Places, Unloading, Thread, Embedder
<1>4. at'[Drainer] \notin Unloading
  BY <1>3 DEF Join, MoveTo, MoveWith, Return, leaseVars, envVars, Inv, Types, WhoIsWhere, OneStarter, UnloadersHold, Starters, Starting, Places, Unloading, Thread, Embedder
<1> QED BY <1>2, <1>3, <1>4, AtWorkFinite DEF Join, Covered, Unloading

LEMMA InstallKeepsCovered ==
  ASSUME Inv, Covered, NEW t \in Embedder, Install(t)
  PROVE  Covered'
<1>1. ~closing /\ keeper = None /\ has[t] # None
  BY DEF Install, Inv, Types, WhoIsWhere, OneStarter, UnloadersHold, Starters, Starting, Places, Unloading, Thread, Embedder
<1>2. AtWork = {} /\ at[Drainer] \notin Unloading
  BY <1>1 DEF Covered, Inv, Types, WhoIsWhere, OneStarter, UnloadersHold, Starters, Starting, Places, Unloading, Thread, Embedder
<1>3. AtWork' = {t}
  BY <1>2 DEF Install, AtWork, MoveTo, MoveWith, Return, leaseVars, envVars, Inv, Types, WhoIsWhere, OneStarter, UnloadersHold, Starters, Starting, Places, Unloading, Thread, Embedder
<1>4. at'[Drainer] \notin Unloading
  BY <1>2 DEF Install, MoveTo, MoveWith, Return, leaseVars, envVars, Inv, Types, WhoIsWhere, OneStarter, UnloadersHold, Starters, Starting, Places, Unloading, Thread, Embedder
<1>5. has[t] \in open
  BY DEF Install, LeasesKnown, Inv, Types, WhoIsWhere, OneStarter, UnloadersHold, Starters, Starting, Places, Unloading, Thread, Embedder
<1> QED BY <1>1, <1>3, <1>4, <1>5, FS_Singleton DEF Install, Covered, leaseVars, Unloading

LEMMA ReleaseKeepsCovered ==
  ASSUME Inv, Covered, NEW t \in Embedder, Release(t)
  PROVE  Covered'
<1> SUFFICES ASSUME ~closing PROVE Covered'
  BY DEF Release, Covered
<1>1. t \in AtWork /\ AtWork' = AtWork \ {t}
  BY DEF Release, AtWork, MoveTo, MoveWith, Return, leaseVars, envVars, Inv, Types, WhoIsWhere, OneStarter, UnloadersHold, Starters, Starting, Places, Unloading, Thread, Embedder
<1>2. Cardinality(AtWork') = Cardinality(AtWork) - 1
  BY <1>1, AtWorkFinite, FS_RemoveElement
<1>3. AtWork # {} /\ keeper \in open /\ at[Drainer] \notin Unloading
  BY <1>1 DEF Covered, Unloading
<1>4. active = Cardinality(AtWork) /\ active > 0
  <2>1. Cardinality(AtWork) # 0 /\ Cardinality(AtWork) \in Nat
    BY <1>3, AtWorkFinite, FS_EmptySet
  <2> QED BY <2>1 DEF Covered
<1>5. at'[Drainer] \notin Unloading
  BY <1>3 DEF Release, MoveTo, MoveWith, Return, leaseVars, envVars, Inv, Types, WhoIsWhere, OneStarter, UnloadersHold, Starters, Starting, Places, Unloading, Thread, Embedder
<1> QED BY <1>2, <1>3, <1>4, <1>5 DEF Release, Covered, Unloading

\* All other steps leave the requests at work and their count alone, or begin
\* the shutdown.
LEMMA WorksKeepsCovered ==
  ASSUME Inv, Covered, NEW t \in Embedder, Works(t)
  PROVE  Covered'
<1> USE DEF Covered, AtWork, MoveTo, MoveWith, Return, leaseVars, envVars, Inv, Types, WhoIsWhere, OneStarter, UnloadersHold, Starters, Starting, Places, Unloading, Thread, Embedder
<1>1. CASE Refused(t)
  BY <1>1 DEF Refused
<1>2. CASE Claim(t)
  BY <1>2 DEF Claim
<1>3. CASE StartSucceeds(t)
  BY <1>3 DEF StartSucceeds
<1>4. CASE StartFails(t)
  BY <1>4 DEF StartFails
<1>5. CASE ShutDownDuringStart(t)
  BY <1>5 DEF ShutDownDuringStart
<1>6. CASE Discard(t)
  BY <1>6 DEF Discard
<1>7. CASE Embed(t)
  BY <1>7 DEF Embed
<1>8. CASE Join(t)
  BY <1>8, JoinKeepsCovered
<1>9. CASE Install(t)
  BY <1>9, InstallKeepsCovered
<1>10. CASE Release(t)
  BY <1>10, ReleaseKeepsCovered
<1> QED BY <1>1, <1>2, <1>3, <1>4, <1>5, <1>6, <1>7, <1>8, <1>9, <1>10 DEF Works

LEMMA UnloadsKeepCovered ==
  ASSUME Inv, Covered, NEW t \in {Drainer, Closer}, Unloads(t)
  PROVE  Covered'
<1> USE DEF Covered, AtWork, MoveTo, MoveWith, Return, leaseVars, envVars, Inv, Types, WhoIsWhere, OneStarter, UnloadersHold, Starters, Starting, Places, Unloading, Thread, Embedder
<1>1. CASE AskUnload(t)
  BY <1>1 DEF AskUnload
<1>2. CASE SeeUnloaded(t)
  BY <1>2 DEF SeeUnloaded
<1>3. CASE QuiesceFails(t)
  BY <1>3 DEF QuiesceFails
<1>4. CASE CloseKeeper(t)
  BY <1>4 DEF CloseKeeper
<1> QED BY <1>1, <1>2, <1>3, <1>4 DEF Unloads

\* The drainer begins only when the count says that nobody is at work.
LEMMA BeginAndEndKeepCovered ==
  ASSUME Inv, Covered,
         DrainBegins \/ DrainEnds \/ CloseBegins \/ ReleaseRaises \/ CloseEnds
  PROVE  Covered'
<1> USE DEF Covered, MoveTo, MoveWith, Return, leaseVars, envVars, Inv, Types, WhoIsWhere, OneStarter, UnloadersHold, Starters, Starting, Places, Unloading, Thread, Embedder
<1>1. CASE DrainBegins
  <2>1. AtWork = {}
    BY <1>1, AtWorkFinite, FS_EmptySet DEF DrainBegins
  <2>2. AtWork' = AtWork
    BY <1>1 DEF DrainBegins, AtWork
  <2> QED BY <1>1, <2>1, <2>2 DEF DrainBegins
<1>2. CASE DrainEnds
  BY <1>2 DEF DrainEnds, AtWork
<1>3. CASE CloseBegins
  BY <1>3 DEF CloseBegins, AtWork
<1>4. CASE ReleaseRaises
  BY <1>4 DEF ReleaseRaises, AtWork
<1>5. CASE CloseEnds
  BY <1>5 DEF CloseEnds, AtWork
<1> QED BY <1>1, <1>2, <1>3, <1>4, <1>5

LEMMA OthersKeepCovered ==
  ASSUME Inv, Covered,
         \/ \E c \in Caller : AdmitRequest(c) \/ InvalidRequest(c) \/ Execute(c)
         \/ Probe \/ HealthChanges \/ PolicyChanges \/ ModelExpires \/ IdlePasses
         \/ UNCHANGED vars
  PROVE  Covered'
<1> USE DEF Covered, AtWork, MoveTo, MoveWith, Return, leaseVars, envVars, Inv, Types, WhoIsWhere, OneStarter, UnloadersHold, Starters, Starting, Places, Unloading, Thread, Embedder
<1>1. ASSUME NEW c \in Caller, AdmitRequest(c) \/ InvalidRequest(c) \/ Execute(c)
      PROVE  Covered'
  BY <1>1 DEF AdmitRequest, InvalidRequest, Execute
<1>2. CASE Probe
  BY <1>2 DEF Probe
<1>3. CASE HealthChanges
  BY <1>3 DEF HealthChanges
<1>4. CASE PolicyChanges
  BY <1>4 DEF PolicyChanges
<1>5. CASE ModelExpires
  BY <1>5 DEF ModelExpires
<1>6. CASE IdlePasses
  BY <1>6 DEF IdlePasses
<1>7. CASE UNCHANGED vars
  BY <1>7 DEF vars
<1> QED BY <1>1, <1>2, <1>3, <1>4, <1>5, <1>6, <1>7

LEMMA CoveredNext == Inv /\ Covered /\ [Next]_vars => Covered'
<1> SUFFICES ASSUME Inv, Covered, [Next]_vars PROVE Covered'
  OBVIOUS
<1>1. CASE \E t \in Embedder : Works(t)
  BY <1>1, WorksKeepsCovered
<1>2. CASE \E t \in {Drainer, Closer} : Unloads(t)
  BY <1>2, UnloadsKeepCovered
<1>3. CASE DrainBegins \/ DrainEnds \/ CloseBegins \/ ReleaseRaises \/ CloseEnds
  BY <1>3, BeginAndEndKeepCovered
<1>4. CASE \/ \E c \in Caller : AdmitRequest(c) \/ InvalidRequest(c) \/ Execute(c)
           \/ Probe \/ HealthChanges \/ PolicyChanges \/ ModelExpires \/ IdlePasses
           \/ UNCHANGED vars
  BY <1>4, OthersKeepCovered
<1> QED BY <1>1, <1>2, <1>3, <1>4 DEF Next

\* Until shutdown, a request at work is counted and runs under the lease of the
\* service, however many requests, probes and drains there are.
THEOREM WorkAlwaysCovered == Spec => []WorkHoldsTheLease
<1>1. Covered => WorkHoldsTheLease
  BY DEF Covered, WorkHoldsTheLease, Unloading
<1> QED BY <1>1, InvInit, InvNext, CoveredInit, CoveredNext, PTL DEF Spec

-----------------------------------------------------------------------------
\* The model stays out of the device while a lease may go.  Until shutdown
\* somebody must be at work to load it, hence not while the service has no
\* keeper or the drainer has seen it unloaded; after a close() that caught
\* nobody at work, nobody works again.
Unloaded == {"polling", "proven", "closed"}

Quiet ==
  /\ ~closing => caught = {}
  /\ caught = {} =>
       /\ closing => AtWork = {}
       /\ ~closing /\ keeper = None => ~resident
       /\ Starters # {} => ~resident
       /\ \A t \in {Drainer, Closer} : at[t] \in Unloaded => ~resident

LEMMA QuietInit == Init => Quiet
  BY DEF Init, Quiet, Unloaded, AtWork, Starters, Starting, Thread, Embedder

\* A request can load the model only while the service holds its lease and
\* nobody unloads.
LEMMA EmbedKeepsQuiet ==
  ASSUME Inv, Covered, Quiet, NEW t \in Embedder, Embed(t)
  PROVE  Quiet'
<1> USE DEF Embed, MoveTo, leaseVars, envVars, Thread, Embedder
<1>1. t \in AtWork /\ AtWork' = AtWork
  BY DEF AtWork, Inv, Types
<1>2. UNCHANGED <<closing, caught, keeper>>
  OBVIOUS
<1>3. ASSUME caught = {}
      PROVE  ~closing /\ keeper # None /\ Starters = {}
             /\ at[Drainer] \notin Unloading /\ at[Closer] = "out"
  <2>1. ~closing
    BY <1>1, <1>3 DEF Quiet
  <2>2. keeper # None /\ at[Drainer] \notin Unloading
    BY <1>1, <2>1 DEF Covered
  <2>3. at[Closer] = "out"
    BY <2>1 DEF Inv, WhoIsWhere
  <2>4. Starters = {}
    BY <2>2 DEF Inv, OneStarter
  <2> QED BY <2>1, <2>2, <2>3, <2>4
<1>4. Starters' = Starters
  BY DEF Starters, Starting, Inv, Types
<1>5. at'[Closer] = at[Closer] /\ (at'[Drainer] \in Unloading => at[Drainer] \in Unloading)
  BY DEF Inv, Types, Unloading
<1>6. ASSUME caught = {}
      PROVE  \A u \in {Drainer, Closer} : at'[u] \notin Unloaded
  BY <1>3, <1>5, <1>6 DEF Unloaded, Unloading
<1> QED BY <1>1, <1>2, <1>3, <1>4, <1>6 DEF Quiet

LEMMA WorksKeepsQuiet ==
  ASSUME Inv, Covered, Quiet, NEW t \in Embedder, Works(t)
  PROVE  Quiet'
<1> USE DEF Quiet, Unloaded, AtWork, Inv, Types, Starters, Starting, Thread, Embedder,
        MoveTo, MoveWith, Return, leaseVars, envVars
<1>1. CASE Refused(t)
  BY <1>1 DEF Refused
<1>2. CASE Join(t)
  BY <1>2 DEF Join
<1>3. CASE Claim(t)
  BY <1>3 DEF Claim
<1>4. CASE StartSucceeds(t)
  BY <1>4 DEF StartSucceeds
<1>5. CASE StartFails(t)
  BY <1>5 DEF StartFails
<1>6. CASE Install(t)
  BY <1>6 DEF Install, OneStarter
<1>7. CASE ShutDownDuringStart(t)
  BY <1>7 DEF ShutDownDuringStart
<1>8. CASE Discard(t)
  BY <1>8 DEF Discard
<1>9. CASE Embed(t)
  BY <1>9, EmbedKeepsQuiet
<1>10. CASE Release(t)
  BY <1>10 DEF Release
<1> QED BY <1>1, <1>2, <1>3, <1>4, <1>5, <1>6, <1>7, <1>8, <1>9, <1>10 DEF Works

LEMMA UnloadsKeepQuiet ==
  ASSUME Inv, Quiet, NEW t \in {Drainer, Closer}, Unloads(t)
  PROVE  Quiet'
<1> USE DEF Quiet, Unloaded, AtWork, Inv, Types, Starters, Starting, Thread, Embedder,
        MoveTo, MoveWith, Return, leaseVars, envVars
<1>1. CASE AskUnload(t)
  BY <1>1 DEF AskUnload
<1>2. CASE SeeUnloaded(t)
  BY <1>2 DEF SeeUnloaded
<1>3. CASE QuiesceFails(t)
  BY <1>3 DEF QuiesceFails
<1>4. CASE CloseKeeper(t)
  BY <1>4 DEF CloseKeeper
<1> QED BY <1>1, <1>2, <1>3, <1>4 DEF Unloads

\* What close() catches is what is at work when it begins: nothing, or the
\* invariant has no more to say.
LEMMA BeginAndEndKeepQuiet ==
  ASSUME Inv, Quiet,
         DrainBegins \/ DrainEnds \/ CloseBegins \/ ReleaseRaises \/ CloseEnds
  PROVE  Quiet'
<1> USE DEF Quiet, Unloaded, AtWork, Inv, Types, WhoIsWhere, Starters, Starting, Thread,
        Embedder, MoveTo, MoveWith, Return, leaseVars, envVars
<1>1. CASE DrainBegins
  BY <1>1 DEF DrainBegins
<1>2. CASE DrainEnds
  BY <1>2 DEF DrainEnds
<1>3. CASE CloseBegins
  BY <1>3 DEF CloseBegins
<1>4. CASE ReleaseRaises
  BY <1>4 DEF ReleaseRaises
<1>5. CASE CloseEnds
  BY <1>5 DEF CloseEnds
<1> QED BY <1>1, <1>2, <1>3, <1>4, <1>5

LEMMA OthersKeepQuiet ==
  ASSUME Inv, Quiet,
         \/ \E c \in Caller : AdmitRequest(c) \/ InvalidRequest(c) \/ Execute(c)
         \/ Probe \/ HealthChanges \/ PolicyChanges \/ ModelExpires \/ IdlePasses
         \/ UNCHANGED vars
  PROVE  Quiet'
<1> USE DEF Quiet, Unloaded, AtWork, Inv, Types, Starters, Starting, Thread, Embedder,
        MoveTo, leaseVars, envVars
<1>1. ASSUME NEW c \in Caller, AdmitRequest(c) \/ InvalidRequest(c) \/ Execute(c)
      PROVE  Quiet'
  BY <1>1 DEF AdmitRequest, InvalidRequest, Execute, Return, MoveWith
<1>2. CASE Probe
  BY <1>2 DEF Probe
<1>3. CASE HealthChanges \/ PolicyChanges \/ ModelExpires \/ IdlePasses \/ UNCHANGED vars
  BY <1>3 DEF HealthChanges, PolicyChanges, ModelExpires, IdlePasses, vars
<1> QED BY <1>1, <1>2, <1>3

LEMMA QuietNext == Inv /\ Covered /\ Quiet /\ [Next]_vars => Quiet'
<1> SUFFICES ASSUME Inv, Covered, Quiet, [Next]_vars PROVE Quiet'
  OBVIOUS
<1>1. CASE \E t \in Embedder : Works(t)
  BY <1>1, WorksKeepsQuiet
<1>2. CASE \E t \in {Drainer, Closer} : Unloads(t)
  BY <1>2, UnloadsKeepQuiet
<1>3. CASE DrainBegins \/ DrainEnds \/ CloseBegins \/ ReleaseRaises \/ CloseEnds
  BY <1>3, BeginAndEndKeepQuiet
<1>4. CASE \/ \E c \in Caller : AdmitRequest(c) \/ InvalidRequest(c) \/ Execute(c)
           \/ Probe \/ HealthChanges \/ PolicyChanges \/ ModelExpires \/ IdlePasses
           \/ UNCHANGED vars
  BY <1>4, OthersKeepQuiet
<1> QED BY <1>1, <1>2, <1>3, <1>4 DEF Next

\* A lease is given back by the one that started it after a shutdown began,
\* and by the two that unload, once they have seen the model out.
LEMMA OnlyTheseGiveBack ==
  ASSUME Inv, [Next]_vars, GivesBack
  PROVE  Starters # {} \/ \E t \in {Drainer, Closer} : at[t] = "proven"
<1>1. CASE \E t \in Embedder : Works(t)
  <2>1. PICK t \in Embedder : Works(t)
    BY <1>1
  <2>2. Discard(t) \/ open \subseteq open'
    BY <2>1 DEF Works, Refused, Join, Claim, StartSucceeds, StartFails, Install,
       ShutDownDuringStart, Embed, Release
  <2>3. t \in Starters
    BY <2>2 DEF GivesBack, Discard, Starters, Starting
  <2> QED BY <2>3
<1>2. CASE \E t \in {Drainer, Closer} : Unloads(t)
  BY <1>2 DEF GivesBack, Unloads, AskUnload, SeeUnloaded, QuiesceFails, CloseKeeper
<1>3. CASE DrainBegins \/ DrainEnds \/ CloseBegins \/ ReleaseRaises \/ CloseEnds
  BY <1>3 DEF GivesBack, DrainBegins, DrainEnds, CloseBegins, ReleaseRaises, CloseEnds
<1>4. CASE \/ \E c \in Caller : AdmitRequest(c) \/ InvalidRequest(c) \/ Execute(c)
           \/ Probe \/ HealthChanges \/ PolicyChanges \/ ModelExpires \/ IdlePasses
           \/ UNCHANGED vars
  BY <1>4 DEF GivesBack, AdmitRequest, InvalidRequest, Execute, Probe, HealthChanges,
     PolicyChanges, ModelExpires, IdlePasses, vars
<1> QED BY <1>1, <1>2, <1>3, <1>4 DEF Next

\* No lease goes back to the broker while the model is in the device, unless
\* close() found a request at work: whatever the health of the lease, the
\* broker's policy and the failures of Ollama are.
THEOREM QuietReleases == Spec => QuietReleaseAfterUnload
<1>1. Inv /\ Quiet /\ [Next]_vars => (GivesBack /\ caught = {} => ~resident)
  <2> SUFFICES ASSUME Inv, Quiet, [Next]_vars, GivesBack, caught = {} PROVE ~resident
    OBVIOUS
  <2>1. Starters # {} \/ \E t \in {Drainer, Closer} : at[t] = "proven"
    BY OnlyTheseGiveBack
  <2> QED BY <2>1 DEF Quiet, Unloaded
<1>2. Inv /\ Quiet /\ [Next]_vars => [GivesBack /\ caught = {} => ~resident]_vars
  BY <1>1
<1> QED BY <1>2, InvInit, InvNext, CoveredInit, CoveredNext, QuietInit, QuietNext, PTL
        DEF Spec, QuietReleaseAfterUnload

-----------------------------------------------------------------------------
\* The lease runner (LeaseSupervisor).

\* How long it can take until the next renewal starts.
StartBound ==
  CASE pc = "wait" /\ untilRenew = 0 -> PollInterval - waited
    [] pc = "check" /\ untilRenew = 0 -> 0
    [] OTHER -> untilRenew + PollInterval

\* After a failed renewal inside the grace: one more retry, which may hang
\* past the end of the grace, and the shutdown.
Retry == RetryDelay + PollInterval + RequestTimeout + ShutdownTimeout

\* The longest the worker can run from here on without another good answer.
Remaining ==
  CASE pc = "term" -> ShutdownTimeout - waited
    [] pc = "renewing" ->
         IF AgeOfFailure = FailureGrace
         THEN RequestTimeout - waited + ShutdownTimeout
         ELSE FailureGrace - AgeOfFailure + Retry
    [] pc \in {"check", "wait"} /\ failing ->
         IF failAge = FailureGrace
         THEN StartBound + RequestTimeout + ShutdownTimeout
         ELSE FailureGrace - failAge + Retry
    [] OTHER -> StartBound + FailureGrace + Retry

\* A good answer in flight was promised when the request was sent or later.
AnswerFresh == answer = "ready" => /\ pc \in {"acquiring", "renewing"}
                                   /\ promise + waited >= Ttl
\* A retry is never further away than the retry delay and one turn.
RetrySoon ==
  /\ pc = "acquiring" => ~failing
  /\ failing /\ pc \in {"check", "wait"} =>
       StartBound <= RetryDelay + PollInterval
Bounded == leader = "running" => /\ pc \in {"check", "wait", "renewing", "term"}
                                 /\ promise > Remaining
IInv == RunnerTypeOK /\ AnswerFresh /\ RetrySoon /\ Bounded

LEMMA PlacesTyped ==
  ASSUME PlaceTypes, [RunnerNext]_runnerVars
  PROVE  PlaceTypes'
<1> USE RangeAssumption DEF PlaceTypes, GoTo, workerVars, renewVars, brokerVars, Blocked,
        BlockedFor, Answers
<1>1. CASE UNCHANGED runnerVars
  BY <1>1 DEF runnerVars
<1>2. CASE BrokerAnswers \/ BrokerForgets \/ LeaderExits \/ ChildrenExit
           \/ RequestStop
  BY <1>2 DEF BrokerAnswers, BrokerForgets, LeaderExits, ChildrenExit,
     RequestStop
<1>3. CASE Acquired \/ AcquireFails
  BY <1>3 DEF Acquired, AcquireFails
<1>4. CASE CheckExited \/ CheckStop \/ CheckRenew \/ CheckWait \/ WaitEnds
  BY <1>4 DEF CheckExited, CheckStop, CheckRenew, CheckWait, WaitEnds
<1>5. CASE Renewed \/ RenewFails
  BY <1>5 DEF Renewed, RenewFails, AgeOfFailure, Upto
<1>6. CASE TermEnds \/ TermTimesOut \/ KillEnds \/ ReleaseLease
  BY <1>6 DEF TermEnds, TermTimesOut, KillEnds, ReleaseLease
<1>7. CASE Tick
  BY <1>7 DEF Tick, Down, Upto
<1>. QED
  BY <1>1, <1>2, <1>3, <1>4, <1>5, <1>6, <1>7 DEF RunnerNext, Runner, Idle

LEMMA FlagsTyped ==
  ASSUME FlagTypes, [RunnerNext]_runnerVars
  PROVE  FlagTypes'
<1> USE RangeAssumption DEF FlagTypes, GoTo, workerVars, renewVars, brokerVars
<1>1. CASE UNCHANGED runnerVars
  BY <1>1 DEF runnerVars
<1>2. CASE BrokerAnswers \/ BrokerForgets \/ LeaderExits \/ ChildrenExit
           \/ RequestStop
  BY <1>2 DEF BrokerAnswers, BrokerForgets, LeaderExits, ChildrenExit,
     RequestStop
<1>3. CASE Acquired \/ AcquireFails
  BY <1>3 DEF Acquired, AcquireFails
<1>4. CASE CheckExited \/ CheckStop \/ CheckRenew \/ CheckWait \/ WaitEnds
  BY <1>4 DEF CheckExited, CheckStop, CheckRenew, CheckWait, WaitEnds
<1>5. CASE Renewed \/ RenewFails
  BY <1>5 DEF Renewed, RenewFails, AgeOfFailure, Upto
<1>6. CASE TermEnds \/ TermTimesOut \/ KillEnds \/ ReleaseLease
  BY <1>6 DEF TermEnds, TermTimesOut, KillEnds, ReleaseLease
<1>7. CASE Tick
  BY <1>7 DEF Tick, Down, Upto
<1>. QED
  BY <1>1, <1>2, <1>3, <1>4, <1>5, <1>6, <1>7 DEF RunnerNext, Runner, Idle

LEMMA TimesTyped ==
  ASSUME PlaceTypes, TimeTypes, [RunnerNext]_runnerVars
  PROVE  TimeTypes'
<1> USE RangeAssumption DEF TimeTypes, PlaceTypes, GoTo, workerVars, renewVars, brokerVars
<1>1. CASE UNCHANGED runnerVars
  BY <1>1 DEF runnerVars
<1>2. CASE BrokerAnswers \/ BrokerForgets \/ LeaderExits \/ ChildrenExit
           \/ RequestStop
  BY <1>2 DEF BrokerAnswers, BrokerForgets, LeaderExits, ChildrenExit,
     RequestStop
<1>3. CASE Acquired \/ AcquireFails
  BY <1>3 DEF Acquired, AcquireFails
<1>4. CASE CheckExited \/ CheckStop \/ CheckRenew \/ CheckWait \/ WaitEnds
  BY <1>4 DEF CheckExited, CheckStop, CheckRenew, CheckWait, WaitEnds
<1>5. CASE Renewed \/ RenewFails
  BY <1>5 DEF Renewed, RenewFails, AgeOfFailure, Upto
<1>6. CASE TermEnds \/ TermTimesOut \/ KillEnds \/ ReleaseLease
  BY <1>6 DEF TermEnds, TermTimesOut, KillEnds, ReleaseLease
<1>7. CASE Tick
  BY <1>7 DEF Tick, Down, Upto
<1>. QED
  BY <1>1, <1>2, <1>3, <1>4, <1>5, <1>6, <1>7 DEF RunnerNext, Runner, Idle

LEMMA TypeStep == RunnerTypeOK /\ [RunnerNext]_runnerVars => RunnerTypeOK'
BY PlacesTyped, TimesTyped, FlagsTyped DEF RunnerTypeOK

LEMMA TypeInit == RunnerInit => RunnerTypeOK
<1> SUFFICES ASSUME RunnerInit PROVE RunnerTypeOK
  OBVIOUS
<1>1. PlaceTypes
  BY RangeAssumption DEF RunnerInit, PlaceTypes, Blocked, BlockedFor, Answers
<1>2. TimeTypes
  BY RangeAssumption DEF RunnerInit, TimeTypes
<1>3. FlagTypes
  BY DEF RunnerInit, FlagTypes
<1>. QED  BY <1>1, <1>2, <1>3 DEF RunnerTypeOK

\* Type correctness of the supervisor.
THEOREM RunnerTypes == RunnerSpec => []RunnerTypeOK
BY TypeInit, TypeStep, PTL DEF RunnerSpec

-----------------------------------------------------------------------------
\* A renewal answered, or acquire answered, leaves a whole chain ahead.
LEMMA FreshChain ==
  ASSUME RunnerTypeOK, AnswerFresh, Safe, answer = "ready"
  PROVE  promise > RenewInterval + PollInterval + FailureGrace + Retry
BY RangeAssumption DEF RunnerTypeOK, PlaceTypes, TimeTypes, Blocked, BlockedFor,
   AnswerFresh, Safe, LongestUnproven, Retry

LEMMA FreshStep ==
  ASSUME RunnerTypeOK, AnswerFresh, [RunnerNext]_runnerVars
  PROVE  AnswerFresh'
<1> USE RangeAssumption DEF AnswerFresh, GoTo, brokerVars
<1>1. CASE BrokerAnswers
  BY <1>1 DEF BrokerAnswers, RunnerTypeOK, PlaceTypes
<1>2. CASE Tick
  BY <1>2 DEF Tick, Down, RunnerTypeOK, PlaceTypes, TimeTypes, Blocked
<1>3. CASE BrokerForgets \/ LeaderExits \/ ChildrenExit \/ RequestStop
           \/ UNCHANGED runnerVars
  BY <1>3 DEF BrokerForgets, LeaderExits, ChildrenExit, RequestStop, runnerVars
<1>4. CASE Runner
  BY <1>4 DEF Runner, Acquired, AcquireFails, CheckExited, CheckStop,
     CheckRenew, CheckWait, WaitEnds, Renewed, RenewFails, TermEnds,
     TermTimesOut, KillEnds, ReleaseLease
<1>. QED  BY <1>1, <1>2, <1>3, <1>4 DEF RunnerNext, Idle

LEMMA RetryStep ==
  ASSUME RunnerTypeOK, RetrySoon, [RunnerNext]_runnerVars
  PROVE  RetrySoon'
<1> USE RangeAssumption DEF RetrySoon, StartBound, RunnerTypeOK, PlaceTypes, TimeTypes,
        GoTo, renewVars
<1>1. CASE Tick
  BY <1>1 DEF Tick, Down, Blocked, BlockedFor
<1>2. CASE RenewFails \/ Renewed
  BY <1>2 DEF RenewFails, Renewed
<1>3. CASE CheckWait \/ WaitEnds
  BY <1>3 DEF CheckWait, WaitEnds, BlockedFor, Blocked
<1>5. CASE Acquired
  BY <1>5 DEF Acquired
<1>6. CASE AcquireFails \/ CheckExited \/ CheckStop \/ CheckRenew \/ TermEnds
           \/ TermTimesOut \/ KillEnds \/ ReleaseLease
  BY <1>6 DEF AcquireFails, CheckExited, CheckStop, CheckRenew, TermEnds,
     TermTimesOut, KillEnds, ReleaseLease
<1>4. CASE BrokerAnswers \/ BrokerForgets \/ LeaderExits \/ ChildrenExit
           \/ RequestStop \/ UNCHANGED runnerVars
  BY <1>4 DEF BrokerAnswers, BrokerForgets, LeaderExits, ChildrenExit,
     RequestStop, runnerVars
<1>. QED  BY <1>1, <1>2, <1>3, <1>4, <1>5, <1>6 DEF RunnerNext, Runner, Idle

LEMMA BoundedStep ==
  ASSUME IInv, Safe, [RunnerNext]_runnerVars
  PROVE  Bounded'
<1> USE RangeAssumption
    DEF IInv, RunnerTypeOK, PlaceTypes, TimeTypes, Bounded, Remaining, StartBound,
        Retry, GoTo
<1>1. CASE Tick
  <2>. SUFFICES ASSUME leader = "running" PROVE promise' > Remaining'
    BY <1>1 DEF Tick, workerVars
  <2>1. /\ pc \in {"wait", "renewing", "term"} /\ waited' = waited + 1
        /\ waited + 1 <= BlockedFor(pc) /\ promise' = promise - 1
        /\ pc' = pc /\ failing' = failing
    BY <1>1 DEF Tick, Down, Blocked, BlockedFor, Upto, AgeOfFailure
  <2>2. CASE pc = "term"
    BY <2>1, <2>2 DEF BlockedFor
  <2>3. CASE pc = "renewing"
    <3>1. /\ AgeOfFailure \in 0..FailureGrace
          /\ AgeOfFailure' = Upto(AgeOfFailure + 1, FailureGrace)
      BY <1>1, <2>1, <2>3 DEF AgeOfFailure, Tick, Upto
    <3>2. waited + 1 <= RequestTimeout
      BY <2>1, <2>3 DEF BlockedFor
    <3>. HIDE DEF AgeOfFailure
    <3>. QED  BY <2>1, <2>3, <3>1, <3>2 DEF Upto
  <2>4. CASE pc = "wait"
    <3>1. StartBound' + 1 <= StartBound
      BY <1>1, <2>1, <2>4 DEF Tick, Down, BlockedFor
    <3>2. StartBound \in Nat /\ StartBound' \in Nat
      BY <1>1, <2>1, <2>4 DEF Tick, Down, BlockedFor
    <3>3. failing => StartBound <= RetryDelay + PollInterval
      BY <2>4 DEF RetrySoon
    <3>. HIDE DEF StartBound
    <3>4. CASE failing
      <4>1. failAge' = Upto(failAge + 1, FailureGrace)
        BY <1>1, <3>4 DEF Tick
      <4>. QED  BY <2>1, <2>4, <3>1, <3>2, <3>3, <3>4, <4>1 DEF Upto
    <3>5. CASE ~failing
      BY <2>1, <2>4, <3>1, <3>2, <3>5
    <3>. QED  BY <3>4, <3>5
  <2>. QED  BY <2>1, <2>2, <2>3, <2>4
<1>2. CASE Acquired
  BY <1>2, FreshChain DEF Acquired, brokerVars, workerVars
<1>3. CASE Renewed
  BY <1>3, FreshChain DEF Renewed, brokerVars, workerVars
<1>4. CASE RenewFails
  <2>. SUFFICES ASSUME leader = "running" PROVE Bounded'
    BY <1>4 DEF RenewFails, workerVars
  <2>1. /\ pc = "renewing" /\ answer # "ready" /\ mine' = mine
        /\ promise' = promise /\ failing' = TRUE /\ failAge' = AgeOfFailure
        /\ waited' = 0
    BY <1>4, FreshChain DEF RenewFails, TooShort, brokerVars
  <2>2. AgeOfFailure \in 0..FailureGrace /\ waited <= RequestTimeout
    BY <2>1 DEF AgeOfFailure, Upto, Blocked, BlockedFor
  <2>3. promise > ShutdownTimeout
    BY <2>1, <2>2
  <2>. HIDE DEF AgeOfFailure
  <2>4. CASE GiveUp
    BY <1>4, <2>1, <2>3, <2>4 DEF RenewFails
  <2>5. CASE ~GiveUp
    <3>1. pc' = "wait" /\ AgeOfFailure # FailureGrace
      BY <1>4, <2>5 DEF RenewFails, GiveUp
    <3>. QED  BY <2>1, <2>2, <3>1
  <2>. QED  BY <2>4, <2>5
<1>5. CASE CheckRenew
  BY <1>5 DEF CheckRenew, AgeOfFailure, Upto, brokerVars, workerVars, renewVars
<1>6. CASE CheckWait \/ WaitEnds
  BY <1>6 DEF CheckWait, WaitEnds, brokerVars, workerVars, renewVars
<1>7. CASE CheckStop
  BY <1>7 DEF CheckStop, brokerVars, workerVars, renewVars
<1>8. CASE AcquireFails \/ CheckExited \/ TermEnds \/ TermTimesOut \/ KillEnds
           \/ ReleaseLease \/ LeaderExits
  BY <1>8 DEF AcquireFails, CheckExited, TermEnds, TermTimesOut, KillEnds,
     ReleaseLease, LeaderExits, workerVars
<1>9. CASE BrokerAnswers
  BY <1>9 DEF BrokerAnswers, AgeOfFailure, Upto, brokerVars, workerVars,
     renewVars
<1>10. CASE BrokerForgets \/ ChildrenExit \/ RequestStop \/ UNCHANGED runnerVars
  BY <1>10 DEF BrokerForgets, ChildrenExit, RequestStop, AgeOfFailure, Upto,
     brokerVars, workerVars, renewVars, runnerVars
<1>. QED
  BY <1>1, <1>2, <1>3, <1>4, <1>5, <1>6, <1>7, <1>8, <1>9, <1>10
     DEF RunnerNext, Runner, Idle

\* When the ttl covers the longest unproven stretch, the worker never runs
\* past the expiry the broker last promised.
THEOREM WorkerCovered == RunnerSpec => []WorkerWithinLeaseIfSafe
<1>1. CASE Safe
  <2>1. RunnerInit => IInv
    BY TypeInit DEF RunnerInit, IInv, AnswerFresh, RetrySoon, Bounded
  <2>2. IInv /\ [RunnerNext]_runnerVars => IInv'
    BY <1>1, TypeStep, FreshStep, RetryStep, BoundedStep DEF IInv
  <2>3. IInv => WorkerWithinLeaseIfSafe
    BY RangeAssumption DEF IInv, RunnerTypeOK, TimeTypes, PlaceTypes, Bounded,
       Remaining, StartBound, Retry, AgeOfFailure, Upto, Blocked, BlockedFor,
       WorkerWithinLeaseIfSafe, WorkerWithinLease
  <2>. QED  BY <2>1, <2>2, <2>3, PTL DEF RunnerSpec
<1>2. CASE ~Safe
  BY <1>2, PTL DEF WorkerWithinLeaseIfSafe
<1>. QED  BY <1>1, <1>2

-----------------------------------------------------------------------------
\* What the clocks of the loop know of the last good answer: the next renewal
\* is due an interval after it, a failure is no older than the renewal that
\* failed, and so the interval always lies behind the grace.
Grace ==
  /\ pc \in {"check", "wait"} /\ ~failing => sinceGood + untilRenew >= RenewInterval
  /\ pc = "renewing" /\ ~failing =>
       sinceGood >= RenewInterval + Upto(waited, FailureGrace)
  /\ failing => sinceGood >= RenewInterval + failAge

LEMMA GraceStep ==
  ASSUME RunnerTypeOK, RetrySoon, Grace, [RunnerNext]_runnerVars
  PROVE  Grace'
<1> USE RangeAssumption DEF Grace, Upto, RunnerTypeOK, PlaceTypes, TimeTypes, FlagTypes, GoTo,
        renewVars
<1>1. CASE Tick
  <2>1. /\ pc' = pc /\ failing' = failing /\ waited' \in {waited, waited + 1, 0}
        /\ pc # "done" => waited' = waited + 1
        /\ untilRenew' = Down(untilRenew)
        /\ failing => failAge' = Upto(failAge + 1, FailureGrace)
        /\ sinceGood' = Upto(sinceGood + 1, RenewInterval + FailureGrace)
    BY <1>1 DEF Tick, Blocked
  <2>2. /\ sinceGood \in Nat /\ untilRenew \in Nat /\ waited \in Nat /\ failAge \in Nat
        /\ sinceGood' \in Nat
        /\ sinceGood' >= sinceGood + 1 \/ sinceGood' = RenewInterval + FailureGrace
    BY <2>1
  <2>3. pc' \in {"check", "wait"} /\ ~failing' => sinceGood' + untilRenew' >= RenewInterval
    BY <2>1, <2>2 DEF Down
  <2>4. pc' = "renewing" /\ ~failing' =>
           sinceGood' >= RenewInterval + Upto(waited', FailureGrace)
    BY <2>1, <2>2
  <2>5. failing' => sinceGood' >= RenewInterval + failAge'
    BY <2>1, <2>2
  <2> QED BY <2>3, <2>4, <2>5
<1>2. CASE Acquired
  BY <1>2 DEF Acquired, RetrySoon
<1>3. CASE Renewed
  BY <1>3 DEF Renewed
<1>4. CASE RenewFails
  <2>1. /\ pc = "renewing" /\ failing' = TRUE /\ failAge' = AgeOfFailure
        /\ sinceGood' = sinceGood
    BY <1>4 DEF RenewFails
  <2>2. sinceGood >= RenewInterval + AgeOfFailure
    BY <2>1 DEF AgeOfFailure
  <2> QED BY <2>1, <2>2
<1>5. CASE CheckRenew
  BY <1>5 DEF CheckRenew
<1>6. CASE CheckWait \/ WaitEnds
  BY <1>6 DEF CheckWait, WaitEnds
<1>7. CASE AcquireFails \/ CheckExited \/ CheckStop \/ TermEnds \/ TermTimesOut
           \/ KillEnds \/ ReleaseLease
  BY <1>7 DEF AcquireFails, CheckExited, CheckStop, TermEnds, TermTimesOut, KillEnds, ReleaseLease
<1>8. CASE BrokerAnswers \/ BrokerForgets \/ LeaderExits \/ ChildrenExit
           \/ RequestStop \/ UNCHANGED runnerVars
  BY <1>8 DEF BrokerAnswers, BrokerForgets, LeaderExits, ChildrenExit, RequestStop, runnerVars
<1>. QED  BY <1>1, <1>2, <1>3, <1>4, <1>5, <1>6, <1>7, <1>8 DEF RunnerNext, Runner, Idle

\* Only a renewal that failed ends the worker from there, and only when its
\* grace is over or the lease is.
LEMMA OnlyGivingUp ==
  ASSUME RunnerTypeOK, Grace, [RunnerNext]_runnerVars, pc = "renewing", pc' = "term"
  PROVE  sinceGood = RenewInterval + FailureGrace \/ mine' = 0
<1>1. RenewFails /\ GiveUp
  BY DEF RunnerNext, Runner, Idle, Acquired, AcquireFails, CheckExited, CheckStop, CheckRenew,
     CheckWait, WaitEnds, Renewed, RenewFails, TermEnds, TermTimesOut, KillEnds, ReleaseLease,
     GoTo, Tick, BrokerAnswers, BrokerForgets, LeaderExits, ChildrenExit, RequestStop, runnerVars
<1>2. AgeOfFailure = FailureGrace => sinceGood >= RenewInterval + FailureGrace
  BY DEF AgeOfFailure, Grace
<1>3. sinceGood <= RenewInterval + FailureGrace /\ sinceGood \in Nat
  BY RangeAssumption DEF RunnerTypeOK, TimeTypes
<1> QED BY <1>1, <1>2, <1>3, RangeAssumption DEF GiveUp

\* Whatever the configuration, the broker and the operator do, no worker is
\* ended by failed renewals before an interval and the grace have passed
\* since the last good answer, or its lease has run out.
THEOREM GraceIsGiven == RunnerSpec => WorkerGetsItsGrace
<1> DEFINE Kept == RunnerTypeOK /\ RetrySoon /\ Grace
<1>1. RunnerInit => Kept
  BY TypeInit DEF RunnerInit, RetrySoon, Grace
<1>2. Kept /\ [RunnerNext]_runnerVars => Kept'
  BY TypeStep, RetryStep, GraceStep
<1>3. Kept /\ [RunnerNext]_runnerVars =>
        [pc = "renewing" /\ pc' = "term" =>
           sinceGood = RenewInterval + FailureGrace \/ mine' = 0]_runnerVars
  BY OnlyGivingUp
<1>. QED  BY <1>1, <1>2, <1>3, PTL DEF RunnerSpec, WorkerGetsItsGrace
=============================================================================
