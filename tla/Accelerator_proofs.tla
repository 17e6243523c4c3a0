--------------------------- MODULE Accelerator_proofs ---------------------------
(***************************************************************************)
(* Proofs about the two halves of the accelerator service, for every set   *)
(* of peers, tokens and processes and every configuration: the manager,    *)
(* which grants leases and decides about the power of the device, and the  *)
(* PCI backend that carries out what it decides, where every step is one   *)
(* the manager may expect and hardware that nobody named is never removed. *)
(***************************************************************************)
EXTENDS AcceleratorManager, PciBackend, TLAPS

-----------------------------------------------------------------------------
\* The manager: its leases, its power policy and its monitor.

\* The flags stay Boolean.
LEMMA FlagsTyped ==
  ASSUME FlagTypes, Next
  PROVE  FlagTypes'
<1> USE DEF FlagTypes, hwVars, readyVars
<1>1. CASE Call
  <2>1. CASE Status
    <3>1. inUse' = inUse /\ window' = window /\ failed' = failed
      BY <2>1 DEF Status
    <3>2. verified' \in BOOLEAN
      BY <2>1, Zenon DEF Status
    <3>. QED  BY <3>1, <3>2
  <2>2. CASE \E u \in Uid, ttl \in Ttl, t \in Token : AcquireReady(u, t, ttl)
    <3>1. inUse' = inUse /\ window' = window /\ verified' = TRUE /\ failed' = FALSE
      BY <2>2 DEF AcquireReady
    <3>. QED  BY <3>1
  <2>3. CASE UNCHANGED <<inUse, window, verified, failed>>
    BY <2>3
  <2>4. \/ Status
        \/ \E u \in Uid, ttl \in Ttl, t \in Token : AcquireReady(u, t, ttl)
        \/ UNCHANGED <<inUse, window, verified, failed>>
    BY <1>1 DEF Call, AcquireBegins, Renew, SubscribePolicy, RenewPolicy,
       Release, ReleasePolicy, Refused
  <2>. QED  BY <2>1, <2>2, <2>3, <2>4
<1>2. CASE Finish
  BY <1>2 DEF Finish, AcquireAttached, AcquireFails, WakeAttached, WakeFails,
     DetachDone, DetachBusy, DetachFindsClient, DetachBusyLate, DetachFails,
     Proven, Faulted
<1>3. CASE Tick
  BY <1>3 DEF Tick, TickWakes, TickRests, TickObserves, TickDetaches, TickRaises
<1>4. CASE Environment \/ RecordMonitorFault
  BY <1>4 DEF Environment, Elapse, ScheduleBoundary, HardwareChanges,
     ClientOpensOrCloses, Restart, Started, RecordMonitorFault
<1>. QED  BY <1>1, <1>2, <1>3, <1>4 DEF Next

\* The state of the hardware, of the backend call and of the monitor.
LEMMA PowerTyped ==
  ASSUME PowerTypes, Next
  PROVE  PowerTypes'
<1> USE TtlAssumption
    DEF PowerTypes, hwVars, readyVars, opVars, monVars, Hardware, States, Ops,
        HoldLock, FreeLock, NoRequest, Rearm
<1>1. CASE Call
  BY <1>1 DEF Call, AcquireBegins, AcquireReady, Renew, SubscribePolicy,
     RenewPolicy, Release, ReleasePolicy, Refused, Status
<1>2. CASE Finish
  BY <1>2 DEF Finish, AcquireAttached, AcquireFails, WakeAttached, WakeFails,
     DetachDone, DetachBusy, DetachFindsClient, DetachBusyLate, DetachFails,
     Proven, Faulted
<1>3. CASE Tick
  BY <1>3 DEF Tick, TickWakes, TickRests, TickObserves, TickDetaches, TickRaises
<1>4. CASE Environment \/ RecordMonitorFault
  BY <1>4 DEF Environment, Elapse, ScheduleBoundary, HardwareChanges,
     ClientOpensOrCloses, Restart, Started, RecordMonitorFault
<1>. QED  BY <1>1, <1>2, <1>3, <1>4 DEF Next

\* The timers stay within their thresholds.
LEMMA TimersTyped ==
  ASSUME TimerTypes, Next
  PROVE  TimerTypes'
<1> USE TimerAssumption
    DEF TimerTypes, timerVars, opVars, monVars, HoldLock, FreeLock, Rearm,
        Reap, ReapLeases, ReapedIdle, Upto, Down
<1>1. CASE Call
  BY <1>1 DEF Call, AcquireBegins, AcquireReady, Renew, SubscribePolicy,
     RenewPolicy, Release, ReleasePolicy, Refused, Status
<1>2. CASE Finish
  BY <1>2 DEF Finish, AcquireAttached, AcquireFails, WakeAttached, WakeFails,
     DetachDone, DetachBusy, DetachFindsClient, DetachBusyLate, DetachFails
<1>3. CASE Tick
  BY <1>3 DEF Tick, TickWakes, TickRests, TickObserves, TickDetaches, TickRaises
<1>4. CASE Environment \/ RecordMonitorFault
  BY <1>4 DEF Environment, Elapse, ScheduleBoundary, HardwareChanges,
     ClientOpensOrCloses, Restart, Started, RecordMonitorFault
<1>. QED  BY <1>1, <1>2, <1>3, <1>4 DEF Next

\* Reaping keeps the types of the lease table.
LEMMA ReapTypes ==
  ASSUME TableTypes
  PROVE  /\ ReapedOwner \in [Token -> Uid \cup {Nobody}]
         /\ ReapedLeft \in [Token -> 0..MaxTtl]
         /\ ReapPolicy => /\ policyOwner' \in [PolicyToken -> Uid \cup {Nobody}]
                          /\ policyLeft' \in [PolicyToken -> 0..MaxTtl]
BY TtlAssumption DEF TableTypes, ReapedOwner, ReapedLeft, ReapPolicy

\* A lease granted late still fits its ttl.
LEMMA GrantTypes ==
  ASSUME TableTypes, PowerTypes, TimerTypes, NEW t \in Token,
         GrantLate(t, request.uid, request.ttl, elapsed)
  PROVE  /\ leaseOwner' \in [Token -> Uid \cup {Nobody}]
         /\ leaseLeft' \in [Token -> 0..MaxTtl]
         /\ told' \in [Token -> 0..MaxTtl]
<1>1. /\ request.uid \in Uid \cup {Nobody} /\ request.ttl \in 0..MaxTtl
      /\ elapsed \in Nat
  BY TimerAssumption DEF PowerTypes, TimerTypes
<1>2. Down(request.ttl, elapsed) \in 0..MaxTtl
  BY <1>1, TtlAssumption DEF Down
<1>. QED  BY <1>1, <1>2 DEF GrantLate, TableTypes

\* The two lease tables.
LEMMA TablesTyped ==
  ASSUME TableTypes, PowerTypes, TimerTypes, Next
  PROVE  TableTypes'
<1> USE TtlAssumption DEF TableTypes, leaseVars, policyVars
<1>1. CASE Call
  BY <1>1, ReapTypes DEF Call, AcquireBegins, AcquireReady, Renew, Release,
     SubscribePolicy, RenewPolicy, ReleasePolicy, Refused, Status, Reap,
     ReapLeases
<1>2. CASE Finish
  BY <1>2, GrantTypes DEF Finish, AcquireAttached, AcquireFails, WakeAttached,
     WakeFails, DetachDone, DetachBusy, DetachFindsClient, DetachBusyLate,
     DetachFails
<1>3. CASE Tick
  BY <1>3, ReapTypes DEF Tick, TickWakes, TickRests, TickObserves,
     TickDetaches, TickRaises, Reap, ReapLeases
<1>4. CASE Environment \/ RecordMonitorFault
  BY <1>4 DEF Environment, Elapse, ScheduleBoundary, HardwareChanges,
     ClientOpensOrCloses, Restart, Started, RecordMonitorFault, Down
<1>. QED  BY <1>1, <1>2, <1>3, <1>4 DEF Next

LEMMA InitTyped == Init => TypeOK
<1> SUFFICES ASSUME Init PROVE TypeOK
  OBVIOUS
<1> USE TtlAssumption, TimerAssumption DEF Init
<1>1. TableTypes
  BY DEF TableTypes
<1>2. PowerTypes
  BY DEF PowerTypes, NoRequest, Ops, States, Hardware
<1>3. TimerTypes
  BY DEF TimerTypes
<1>4. FlagTypes
  BY DEF FlagTypes
<1>. QED  BY <1>1, <1>2, <1>3, <1>4 DEF TypeOK

LEMMA StutterTyped == TypeOK /\ UNCHANGED vars => TypeOK'
BY DEF TypeOK, TableTypes, PowerTypes, TimerTypes, FlagTypes, vars, leaseVars,
   policyVars, hwVars, readyVars, timerVars, opVars, monVars

\* Type correctness of the lease tables, the timers and the power state.
THEOREM TypeCorrect == Spec => []TypeOK
<1>1. Init => TypeOK
  BY InitTyped
<1>2. TypeOK /\ [Next]_vars => TypeOK'
  BY StutterTyped, FlagsTyped, PowerTyped, TimersTyped, TablesTyped DEF TypeOK
<1>. QED  BY <1>1, <1>2, PTL DEF Spec

-----------------------------------------------------------------------------
(***************************************************************************)
(* Standby only when idle.  DetachOnlyWhenIdle is not inductive: it needs  *)
(* that the code's idle time never runs ahead of the true one while the    *)
(* table is empty, and that an absent token carries no time.               *)
(***************************************************************************)
AbsentIsSpent == \A t \in Token : leaseOwner[t] = Nobody => leaseLeft[t] = 0
IdleIsTrue == Held = {} => idle <= sinceLive
IdleInv == TypeOK /\ AbsentIsSpent /\ IdleIsTrue /\ DetachOnlyWhenIdle

\* The reaped table, and when reaping leaves it empty.
LEMMA ReapFacts ==
  ASSUME TypeOK, AbsentIsSpent, ReapLeases
  PROVE  /\ AbsentIsSpent'
         /\ Held' = Live
         /\ Held' = {} => (Held = {} /\ idle' = idle) \/ idle' = 0
BY NobodyAssumption
   DEF TypeOK, TableTypes, AbsentIsSpent, ReapLeases, ReapedOwner, ReapedLeft,
       ReapedIdle, Held, Live, Expired

\* While the detach runs the lock is held, so the table stays empty; the
\* timers it was checked against only grow.
LEMMA IdleStep ==
  ASSUME IdleInv, [Next]_vars
  PROVE  AbsentIsSpent' /\ IdleIsTrue' /\ DetachOnlyWhenIdle'
<1> USE TimerAssumption, NobodyAssumption DEF IdleInv, LockFree
<1>1. CASE UNCHANGED vars
  BY <1>1 DEF vars, leaseVars, timerVars, opVars, AbsentIsSpent, IdleIsTrue,
     DetachOnlyWhenIdle, Detaching, Held
<1>2. ASSUME ReapLeases, UNCHANGED <<sinceLive, up>>, LockFree,
             op' \in {"none", "acquire", "wake"}
      PROVE  AbsentIsSpent' /\ IdleIsTrue' /\ DetachOnlyWhenIdle'
  BY <1>2, ReapFacts DEF TypeOK, TimerTypes, IdleIsTrue, DetachOnlyWhenIdle,
     Detaching
<1>3. CASE TickDetaches
  BY <1>3, ReapFacts DEF TickDetaches, TickDue, Reap, HoldLock, timerVars,
     MayStandBy, ReapLeases, ReapedIdle, TypeOK, TimerTypes, IdleIsTrue,
     DetachOnlyWhenIdle, Detaching
<1>4. CASE \/ \E u \in Uid, ttl \in Ttl : AcquireBegins(u, ttl)
           \/ Refused \/ Status
           \/ \E u \in Uid, ttl \in Ttl, p \in PolicyToken :
                SubscribePolicy(u, p, ttl) \/ RenewPolicy(u, p, ttl)
           \/ TickWakes \/ TickRests \/ TickObserves \/ TickRaises
  BY <1>2, <1>4 DEF AcquireBegins, Refused, Status, SubscribePolicy,
     RenewPolicy, TickWakes, TickRests, TickObserves, TickRaises, TickDue, Reap,
     HoldLock, timerVars, opVars
<1>5. ASSUME NEW u \in Uid, NEW ttl \in Ttl, NEW t \in Token,
             AcquireReady(u, t, ttl) \/ Renew(u, t, ttl)
      PROVE  AbsentIsSpent' /\ IdleIsTrue' /\ DetachOnlyWhenIdle'
  BY <1>5 DEF AcquireReady, Renew, Renewable, ReapedOwner, ReapedLeft,
     Live, Expired, Held, TypeOK, TableTypes, opVars, AbsentIsSpent,
     IdleIsTrue, DetachOnlyWhenIdle, Detaching
<1>6. ASSUME NEW u \in Uid, NEW t \in Token, Release(u, t)
      PROVE  AbsentIsSpent' /\ IdleIsTrue' /\ DetachOnlyWhenIdle'
  BY <1>6 DEF Release, Held, TypeOK, TableTypes, TimerTypes, opVars, timerVars,
     AbsentIsSpent, IdleIsTrue, DetachOnlyWhenIdle, Detaching
<1>7. ASSUME NEW t \in Token, AcquireAttached(t)
      PROVE  AbsentIsSpent' /\ IdleIsTrue' /\ DetachOnlyWhenIdle'
  BY <1>7 DEF AcquireAttached, GrantLate, FreeLock, Held, TypeOK, TableTypes,
     PowerTypes, timerVars, AbsentIsSpent, IdleIsTrue, DetachOnlyWhenIdle,
     Detaching
<1>8. CASE AcquireFails \/ WakeAttached \/ WakeFails \/ RecordMonitorFault
           \/ HardwareChanges \/ ClientOpensOrCloses \/ ScheduleBoundary
           \/ \E u \in Uid, p \in PolicyToken : ReleasePolicy(u, p)
  BY <1>8 DEF AcquireFails, WakeAttached, WakeFails, RecordMonitorFault,
     HardwareChanges, ClientOpensOrCloses, ScheduleBoundary, ReleasePolicy,
     FreeLock, leaseVars, timerVars, opVars, AbsentIsSpent, IdleIsTrue,
     DetachOnlyWhenIdle, Detaching, Held
<1>9. CASE DetachDone \/ DetachBusy \/ DetachFindsClient \/ DetachBusyLate
           \/ DetachFails
  BY <1>9 DEF DetachDone, DetachBusy, DetachFindsClient, DetachBusyLate,
     DetachFails, FreeLock, Upto, TypeOK, TimerTypes, leaseVars, timerVars,
     AbsentIsSpent, IdleIsTrue, DetachOnlyWhenIdle, Detaching, Held
<1>10. CASE Elapse
  BY <1>10 DEF Elapse, Down, Upto, TypeOK, TableTypes, TimerTypes,
     AbsentIsSpent, IdleIsTrue, DetachOnlyWhenIdle, Detaching, Held, Live,
     Expired
<1>11. CASE Restart
  BY <1>11 DEF Restart, Started, FreeLock, TypeOK, TimerTypes, AbsentIsSpent,
     IdleIsTrue, DetachOnlyWhenIdle, Detaching, Held
<1>. QED
  BY <1>1, <1>3, <1>4, <1>5, <1>6, <1>7, <1>8, <1>9, <1>10, <1>11
     DEF Next, Call, Finish, Tick, Environment

\* The device is detached only when the table is empty, the startup guard is
\* over and no lease was live for the whole idle timeout.
THEOREM DetachIdle == Spec => []DetachOnlyWhenIdle
<1>1. Init => IdleInv
  BY InitTyped, TimerAssumption DEF Init, IdleInv, AbsentIsSpent, IdleIsTrue,
     DetachOnlyWhenIdle, Detaching
<1>2. IdleInv /\ [Next]_vars => IdleInv'
  BY IdleStep, StutterTyped, FlagsTyped, PowerTyped, TimersTyped, TablesTyped
     DEF IdleInv, TypeOK
<1>3. IdleInv => DetachOnlyWhenIdle
  BY DEF IdleInv
<1>. QED  BY <1>1, <1>2, <1>3, PTL DEF Spec

-----------------------------------------------------------------------------
(***************************************************************************)
(* Standby only after every promised expiry.  A promise is covered by the  *)
(* lease it came with, which it outlives by at most one backend call; once *)
(* the lease has left the table, by the idle time; after a restart, by the *)
(* startup guard.                                                          *)
(***************************************************************************)
Covered(t) == \/ told[t] = 0
              \/ told[t] + up <= MaxTtl
              \/ leaseOwner[t] # Nobody /\ told[t] <= leaseLeft[t] + MaxOperation
              \/ leaseOwner[t] = Nobody /\ told[t] <= MaxOperation
CoveredWhenIdle(t) == \/ told[t] = 0
                      \/ told[t] + up <= MaxTtl
                      \/ told[t] + idle <= MaxOperation
AllCovered == /\ \A t \in Token : Covered(t)
              /\ Held = {} => \A t \in Token : CoveredWhenIdle(t)
              /\ Detaching => \A t \in Token : told[t] = 0
PromiseInv == IdleInv /\ (PromisesCovered => AllCovered)

\* Reaping keeps the cover: a lease is reaped when its time is 0, so what
\* is left of its promise is at most one backend call.
LEMMA ReapCovers ==
  ASSUME IdleInv, ReapLeases, UNCHANGED <<told, up>>,
         \A t \in Token : Covered(t),
         Held = {} => \A t \in Token : CoveredWhenIdle(t)
  PROVE  /\ \A t \in Token : Covered(t)'
         /\ Held' = {} => \A t \in Token : CoveredWhenIdle(t)'
<1>1. \A t \in Token : Covered(t)'
  BY TimerAssumption, NobodyAssumption
     DEF Covered, IdleInv, TypeOK, TableTypes, TimerTypes, ReapLeases,
         ReapedOwner, ReapedLeft, Held, Expired
<1>2. ASSUME Held' = {}, idle' = 0
      PROVE  \A t \in Token : CoveredWhenIdle(t)'
  <2>1. \A t \in Token : leaseOwner'[t] = Nobody /\ leaseLeft'[t] = 0
    BY <1>2, ReapFacts DEF IdleInv, AbsentIsSpent, Held
  <2>. QED
    BY <1>1, <1>2, <2>1, TimerAssumption
       DEF Covered, CoveredWhenIdle, IdleInv, TypeOK, TableTypes, TimerTypes
<1>3. ASSUME Held = {}, idle' = idle
      PROVE  \A t \in Token : CoveredWhenIdle(t)'
  BY <1>3 DEF CoveredWhenIdle
<1>4. Held' = {} => (Held = {} /\ idle' = idle) \/ idle' = 0
  BY ReapFacts DEF IdleInv
<1>. QED  BY <1>1, <1>2, <1>3, <1>4

\* The cover at the moment the detach begins: the timers have outrun it.
LEMMA DetachCovered ==
  ASSUME IdleInv, PromisesCovered, AllCovered, TickDetaches
  PROVE  AllCovered'
<1>1. /\ ReapLeases /\ UNCHANGED <<told, up>>
      /\ up = StartupGuard /\ ReapedIdle = IdleTimeout /\ Live = {}
  BY DEF TickDetaches, Reap, timerVars, MayStandBy
<1>2. Held = {} /\ idle = IdleTimeout
  BY <1>1, TimerAssumption DEF ReapedIdle, Live, Expired, Held
<1>3. \A t \in Token : told[t] = 0
  BY <1>1, <1>2, TtlAssumption, TimerAssumption
     DEF AllCovered, CoveredWhenIdle, PromisesCovered, IdleInv, TypeOK,
         TableTypes
<1>4. \A t \in Token : told'[t] = 0
  BY <1>1, <1>3
<1>. QED  BY <1>4 DEF AllCovered, Covered, CoveredWhenIdle

LEMMA PromiseStep ==
  ASSUME IdleInv, IdleInv', PromisesCovered, AllCovered, [Next]_vars
  PROVE  AllCovered'
<1> USE TimerAssumption, TtlAssumption, NobodyAssumption
    DEF IdleInv, TypeOK, LockFree
<1>1. CASE UNCHANGED vars
  BY <1>1 DEF vars, leaseVars, timerVars, opVars, AllCovered, Covered,
     CoveredWhenIdle, Held, Detaching
<1>2. ASSUME ReapLeases, UNCHANGED <<told, up>>,
             op' \in {"none", "acquire", "wake"}
      PROVE  AllCovered'
  BY <1>2, ReapCovers DEF AllCovered, Detaching
<1>3. CASE TickDetaches
  BY <1>3, DetachCovered
<1>4. CASE \/ \E u \in Uid, ttl \in Ttl : AcquireBegins(u, ttl)
           \/ Refused \/ Status
           \/ \E u \in Uid, ttl \in Ttl, p \in PolicyToken :
                SubscribePolicy(u, p, ttl) \/ RenewPolicy(u, p, ttl)
           \/ TickWakes \/ TickRests \/ TickObserves \/ TickRaises
  BY <1>2, <1>4 DEF AcquireBegins, Refused, Status, SubscribePolicy,
     RenewPolicy, TickWakes, TickRests, TickObserves, TickRaises, TickDue, Reap,
     HoldLock, timerVars, opVars
<1>5. ASSUME NEW u \in Uid, NEW ttl \in Ttl, NEW t \in Token,
             AcquireReady(u, t, ttl) \/ Renew(u, t, ttl)
      PROVE  AllCovered'
  <2>1. leaseOwner'[t] # Nobody /\ op' = "none"
    BY <1>5 DEF AcquireReady, Renew, Renewable, ReapedOwner, Live, Expired,
       Held, TableTypes, opVars
  <2>2. /\ told'[t] = ttl /\ leaseLeft'[t] = ttl
        /\ \A s \in Token \ {t} : /\ told'[s] = told[s]
                                  /\ leaseOwner'[s] = ReapedOwner[s]
                                  /\ leaseLeft'[s] = ReapedLeft[s]
        /\ up' = up
    BY <1>5 DEF AcquireReady, Renew, ReapedOwner, ReapedLeft, TableTypes,
       timerVars
  <2>3. Covered(t)'
    <3>1. ttl \in Nat /\ ttl <= ttl + MaxOperation
      OBVIOUS
    <3>2. leaseOwner'[t] # Nobody /\ told'[t] <= leaseLeft'[t] + MaxOperation
      BY <2>1, <2>2, <3>1
    <3>. QED  BY <3>2 DEF Covered
  <2>4. \A s \in Token \ {t} : Covered(s)'
    BY <2>2 DEF AllCovered, Covered, ReapedOwner, ReapedLeft, Expired, Held,
       TableTypes, TimerTypes
  <2>5. \A s \in Token : Covered(s)'
    BY <2>3, <2>4
  <2>. QED  BY <2>1, <2>5 DEF AllCovered, Held, Detaching
<1>6. ASSUME NEW u \in Uid, NEW t \in Token, Release(u, t)
      PROVE  AllCovered'
  <2>1. \A s \in Token : Covered(s)'
    BY <1>6 DEF Release, TableTypes, TimerTypes, timerVars, AllCovered, Covered
  <2>2. Held' = {} => \A s \in Token : CoveredWhenIdle(s)'
    BY <1>6, <2>1 DEF Release, Held, TableTypes, TimerTypes, timerVars, Covered,
       CoveredWhenIdle
  <2>. QED  BY <1>6, <2>1, <2>2 DEF Release, opVars, AllCovered, Detaching
<1>7. ASSUME NEW t \in Token, AcquireAttached(t)
      PROVE  AllCovered'
  <2>1. leaseOwner'[t] # Nobody /\ op' = "none"
    BY <1>7 DEF AcquireAttached, GrantLate, FreeLock, TableTypes, PowerTypes
  <2>2. told'[t] <= leaseLeft'[t] + MaxOperation
    BY <1>7 DEF AcquireAttached, GrantLate, Down, TableTypes, PowerTypes,
       TimerTypes
  <2>3. \A s \in Token : Covered(s)'
    BY <1>7, <2>1, <2>2 DEF AcquireAttached, GrantLate, TableTypes, timerVars,
       AllCovered, Covered
  <2>. QED  BY <2>1, <2>3 DEF AllCovered, Held, Detaching
<1>8. CASE AcquireFails \/ WakeAttached \/ WakeFails \/ RecordMonitorFault
           \/ HardwareChanges \/ ClientOpensOrCloses \/ ScheduleBoundary
           \/ \E u \in Uid, p \in PolicyToken : ReleasePolicy(u, p)
  BY <1>8 DEF AcquireFails, WakeAttached, WakeFails, RecordMonitorFault,
     HardwareChanges, ClientOpensOrCloses, ScheduleBoundary, ReleasePolicy,
     FreeLock, leaseVars, timerVars, opVars, AllCovered, Covered,
     CoveredWhenIdle, Detaching, Held
<1>9. CASE DetachDone \/ DetachBusy \/ DetachFindsClient \/ DetachBusyLate
           \/ DetachFails
  <2>1. \A t \in Token : told'[t] = 0
    BY <1>9 DEF DetachDone, DetachBusy, DetachFindsClient, DetachBusyLate,
       DetachFails, leaseVars, AllCovered, Detaching
  <2>. QED  BY <2>1 DEF AllCovered, Covered, CoveredWhenIdle
<1>10. CASE Elapse
  <2>1. \A t \in Token : Covered(t)'
    BY <1>10 DEF Elapse, Down, Upto, TableTypes, TimerTypes, AllCovered,
       Covered, PromisesCovered
  <2>2. Held' = {} => \A t \in Token : CoveredWhenIdle(t)'
    BY <1>10 DEF Elapse, Down, Upto, TableTypes, TimerTypes, AllCovered,
       CoveredWhenIdle, PromisesCovered, Held
  <2>3. Detaching' => \A t \in Token : told'[t] = 0
    BY <1>10 DEF Elapse, Down, AllCovered, Detaching
  <2>. QED  BY <2>1, <2>2, <2>3 DEF AllCovered
<1>11. CASE Restart
  BY <1>11 DEF Restart, Started, FreeLock, TableTypes, AllCovered, Covered,
     CoveredWhenIdle, Detaching
<1>. QED
  BY <1>1, <1>3, <1>4, <1>5, <1>6, <1>7, <1>8, <1>9, <1>10, <1>11
     DEF Next, Call, Finish, Tick, Environment

\* When a backend call is no longer than the idle timeout and a lease no
\* longer than the startup guard, no promised expiry is in the future when the
\* device is detached, whatever calls were slow and whenever the broker died.
THEOREM DetachPromises == Spec => []DetachAfterPromises
<1>1. Init => PromiseInv
  BY InitTyped, TimerAssumption, TtlAssumption
     DEF Init, PromiseInv, IdleInv, AbsentIsSpent, IdleIsTrue,
         DetachOnlyWhenIdle, AllCovered, Covered, CoveredWhenIdle, Detaching
<1>2. IdleInv /\ [Next]_vars => IdleInv'
  BY IdleStep, StutterTyped, FlagsTyped, PowerTyped, TimersTyped, TablesTyped
     DEF IdleInv, TypeOK
<1>3. PromiseInv /\ [Next]_vars => PromiseInv'
  BY <1>2, PromiseStep DEF PromiseInv, PromisesCovered
<1>4. PromiseInv => DetachAfterPromises
  BY DEF PromiseInv, AllCovered, DetachAfterPromises
<1>. QED  BY <1>1, <1>3, <1>4, PTL DEF Spec

-----------------------------------------------------------------------------
(***************************************************************************)
(* Grants and live leases: two action properties.                          *)
(***************************************************************************)
VerifiedIsProven == verified => proof # "none"

LEMMA VerifiedStep ==
  ASSUME VerifiedIsProven, [Next]_vars
  PROVE  VerifiedIsProven'
<1> USE DEF VerifiedIsProven, readyVars
<1>1. CASE Call
  BY <1>1 DEF Call, AcquireBegins, AcquireReady, Renew, SubscribePolicy,
     RenewPolicy, Release, ReleasePolicy, Refused, Status, NeedsNoProof
<1>2. CASE Finish
  BY <1>2 DEF Finish, AcquireAttached, AcquireFails, WakeAttached, WakeFails,
     DetachDone, DetachBusy, DetachFindsClient, DetachBusyLate, DetachFails,
     Proven, Faulted
<1>3. CASE Tick
  BY <1>3 DEF Tick, TickWakes, TickRests, TickObserves, TickDetaches, TickRaises
<1>4. CASE Environment \/ RecordMonitorFault
  BY <1>4 DEF Environment, Elapse, ScheduleBoundary, HardwareChanges,
     ClientOpensOrCloses, Restart, Started, RecordMonitorFault
<1>5. CASE UNCHANGED vars
  BY <1>5 DEF vars
<1>. QED  BY <1>1, <1>2, <1>3, <1>4, <1>5 DEF Next

\* Only two actions put a new owner in the table.
LEMMA OnlyGrantsAdd ==
  ASSUME TypeOK, [Next]_vars, NEW t \in Token,
         leaseOwner[t] = Nobody, leaseOwner'[t] # Nobody
  PROVE  \/ \E u \in Uid, ttl \in Ttl, s \in Token : AcquireReady(u, s, ttl)
         \/ \E s \in Token : AcquireAttached(s)
<1> USE DEF TypeOK, TableTypes, leaseVars
<1>1. ~ReapLeases
  BY DEF ReapLeases, ReapedOwner
<1>2. CASE Call
  <2>1. ASSUME NEW u \in Uid, NEW s \in Token, NEW ttl \in Ttl, Renew(u, s, ttl)
        PROVE  FALSE
    BY <2>1 DEF Renew, ReapedOwner
  <2>. QED
    BY <1>1, <1>2, <2>1 DEF Call, AcquireBegins, SubscribePolicy,
       RenewPolicy, Release, ReleasePolicy, Refused, Status, Reap
<1>3. CASE Finish
  BY <1>3 DEF Finish, AcquireFails, WakeAttached, WakeFails,
     DetachDone, DetachBusy, DetachFindsClient, DetachBusyLate, DetachFails
<1>4. CASE Tick
  BY <1>1, <1>4 DEF Tick, TickWakes, TickRests, TickObserves, TickDetaches,
     TickRaises, Reap
<1>5. CASE Environment \/ RecordMonitorFault
  BY <1>5 DEF Environment, Elapse, ScheduleBoundary, HardwareChanges,
     ClientOpensOrCloses, Restart, Started, RecordMonitorFault
<1>6. CASE UNCHANGED vars
  BY <1>6 DEF vars
<1>. QED  BY <1>2, <1>3, <1>4, <1>5, <1>6 DEF Next

\* Every grant stands on hardware that is ready now and was proven by this
\* process.
THEOREM GrantsAreProven == Spec => GrantAfterProof
<1>1. Init => VerifiedIsProven
  BY DEF Init, VerifiedIsProven
<1>2. VerifiedIsProven /\ [Next]_vars => VerifiedIsProven'
  BY VerifiedStep
<1>3. ASSUME VerifiedIsProven, TypeOK, [Next]_vars, NEW t \in Token,
             leaseOwner[t] = Nobody, leaseOwner'[t] # Nobody
      PROVE  hw' = "ready" /\ proof' # "none"
  <2>1. ASSUME NEW u \in Uid, NEW ttl \in Ttl, NEW s \in Token,
               AcquireReady(u, s, ttl)
        PROVE  hw' = "ready" /\ proof' # "none"
    BY <1>3, <2>1 DEF AcquireReady, NeedsNoProof, VerifiedIsProven, hwVars
  <2>2. ASSUME NEW s \in Token, AcquireAttached(s)
        PROVE  hw' = "ready" /\ proof' # "none"
    BY <2>2 DEF AcquireAttached, Proven
  <2>. QED  BY <1>3, <2>1, <2>2, OnlyGrantsAdd
<1>4. VerifiedIsProven /\ TypeOK /\ [Next]_vars =>
        [\A t \in Token : leaseOwner[t] = Nobody /\ leaseOwner'[t] # Nobody =>
           hw' = "ready" /\ proof' # "none"]_vars
  BY <1>3
<1>. QED  BY <1>1, <1>2, <1>4, TypeCorrect, PTL DEF Spec, GrantAfterProof

\* A live lease leaves the table only by its owner's release or by a restart.
THEOREM LiveLeasesKept == Spec => LiveLeaseKept
<1>1. ASSUME TypeOK, Next, ~Restart, NEW t \in Token,
             leaseOwner[t] # Nobody, leaseLeft[t] > 0
      PROVE  leaseOwner'[t] = leaseOwner[t] \/ Release(leaseOwner[t], t)
  <2> USE <1>1 DEF TypeOK, TableTypes, leaseVars
  <2>1. t \notin Expired
    BY DEF Expired
  <2>2. CASE ReapLeases
    BY <2>1, <2>2 DEF ReapLeases, ReapedOwner
  <2>3. CASE Call
    <3>1. ASSUME NEW u \in Uid, NEW s \in Token, NEW ttl \in Ttl,
                 AcquireReady(u, s, ttl) \/ Renew(u, s, ttl)
          PROVE  leaseOwner'[t] = leaseOwner[t]
      BY <2>1, <3>1 DEF AcquireReady, Renew, TokenFor, ReapedOwner
    <3>2. ASSUME NEW u \in Uid, NEW s \in Token, Release(u, s)
          PROVE  leaseOwner'[t] = leaseOwner[t] \/ Release(leaseOwner[t], t)
      <4>1. CASE s = t
        BY <3>2, <4>1 DEF Release
      <4>2. CASE s # t
        BY <3>2, <4>2 DEF Release
      <4>. QED  BY <4>1, <4>2
    <3>. QED
      BY <2>2, <2>3, <3>1, <3>2 DEF Call, AcquireBegins, SubscribePolicy,
         RenewPolicy, ReleasePolicy, Refused, Status, Reap
  <2>4. CASE Finish
    BY <2>4 DEF Finish, AcquireAttached, TokenFor, GrantLate, AcquireFails,
       WakeAttached, WakeFails, DetachDone, DetachBusy, DetachFindsClient,
       DetachBusyLate, DetachFails
  <2>5. CASE Tick
    BY <2>2, <2>5 DEF Tick, TickWakes, TickRests, TickObserves, TickDetaches,
       TickRaises, Reap
  <2>6. CASE Environment \/ RecordMonitorFault
    BY <2>6 DEF Environment, Elapse, ScheduleBoundary, HardwareChanges,
       ClientOpensOrCloses, RecordMonitorFault
  <2>. QED  BY <2>3, <2>4, <2>5, <2>6 DEF Next
<1>2. TypeOK /\ [Next]_vars =>
        [\/ Restart
         \/ \A t \in Token :
              leaseOwner[t] # Nobody /\ leaseLeft[t] > 0 =>
                leaseOwner'[t] = leaseOwner[t] \/ Release(leaseOwner[t], t)]_vars
  BY <1>1
<1>. QED  BY <1>2, TypeCorrect, PTL DEF Spec, LiveLeaseKept

-----------------------------------------------------------------------------
\* The backend: what a call to it can do to the hardware.
Refusing  == {"look", "validate"}
DetachSteps == {"stop", "clients", "unbind", "unload", "remove"}
Finding   == {"identify", "judge", "enumerate"}
Preparing == {"load", "bind", "bindAudio", "start", "query", "final"}
Kinds     == {"busy", "failed"}

\* Where a call can be, and with which error.
InCall ==
  /\ call \in {"none", "ensure", "off"}
  /\ pc \in {"none"} \cup Refusing \cup DetachSteps \cup Finding \cup Preparing \cup {"gone"}
  /\ error \in Kinds \cup {"none"} /\ (call # "off" => error = "none")
  /\ (call = "none") <=> (pc = "none")
  /\ pc = "look" => call = "off" /\ error = "none"
  /\ call = "off" /\ pc \in Finding \cup Preparing => error # "none"
  /\ step \in Nat /\ loaded \in Nat /\ (pc \in {"load", "unload"} => step >= 1)

\* The device is open only while the GPU is bound, which takes a loaded module
\* and the GPU itself.
DeviceThere ==
  /\ present \subseteq Nodes
  /\ clients # {} => gpu = "nvidia"
  /\ gpu = "nvidia" => present # {} /\ loaded >= 1
  /\ pc \in Preparing => present = Nodes
  /\ pc \in Preparing \ {"load"} => loaded >= 1

\* Why nobody is there when the branch goes: a reset found the GPU unbound,
\* and a power-off has unloaded the module that binds it.
NobodyThere ==
  /\ pc = "judge" /\ probed.stranded => gpu # "nvidia"
  /\ Resetting /\ pc \in DetachSteps \cup {"validate"} => gpu # "nvidia"
  /\ pc = "remove" => gpu # "nvidia"

OnlyNamed == pc \in DetachSteps => ~foreign

IInv == InCall /\ DeviceThere /\ NobodyThere /\ OnlyNamed

LEMMA InitIInv == PciInit => IInv
<1>. SUFFICES ASSUME PciInit PROVE IInv
  OBVIOUS
<1>. USE DEF Refusing, DetachSteps, Finding, Preparing, Kinds
<1>1. Len(Modules) = 4
  BY DEF Modules
<1>a. /\ loaded \in Nat /\ present \subseteq Nodes
      /\ gpu = "nvidia" => present = Nodes /\ loaded = 4
  <2>1. \/ present = Nodes /\ gpu = "nvidia" /\ loaded = 4
        \/ present = Nodes /\ gpu # "nvidia" /\ loaded \in 0..4
        \/ present \in {{}, {"branch"}} /\ gpu # "nvidia" /\ loaded = 0
    BY <1>1 DEF PciInit
  <2>2. CASE present = Nodes /\ gpu = "nvidia" /\ loaded = 4
    BY <2>2
  <2>3. CASE present = Nodes /\ gpu # "nvidia" /\ loaded \in 0..4
    BY <2>3
  <2>4. CASE present \in {{}, {"branch"}} /\ gpu # "nvidia" /\ loaded = 0
    BY <2>4 DEF Nodes
  <2>. QED  BY <2>1, <2>2, <2>3, <2>4
<1>b. /\ call = "none" /\ pc = "none" /\ step = 0 /\ error = "none" /\ clients = {}
  BY DEF PciInit
<1>2. InCall
  BY <1>a, <1>b DEF InCall
<1>3. DeviceThere
  BY <1>a, <1>b DEF DeviceThere, Nodes
<1>4. NobodyThere
  BY <1>b DEF NobodyThere
<1>5. OnlyNamed
  BY <1>b DEF OnlyNamed
<1>. QED  BY <1>2, <1>3, <1>4, <1>5 DEF IInv

\* How a step ends without hardware being touched: it goes on elsewhere,
\* returns, or raises.
LEMMA RaiseKeeps ==
  ASSUME IInv, NEW kind \in Kinds, pc # "none", pc # "look",
         pc = "validate" => Resetting,
         Raise(kind), UNCHANGED <<hardware, users>>
  PROVE  IInv'
<1>. USE DEF Refusing, DetachSteps, Finding, Preparing, Kinds
<1>1. \/ pc' = "none" /\ call' = "none" /\ error' = "none" /\ step' = 0
      \/ /\ call = "off" /\ call' = "off" /\ pc' = "identify"
         /\ error' = kind /\ step' = 0
  BY DEF Raise, Return, Recovering, IInv, InCall
<1>2. InCall'
  BY <1>1 DEF IInv, InCall, hardware
<1>3. DeviceThere'
  BY <1>1 DEF IInv, DeviceThere, hardware, users
<1>4. NobodyThere'
  BY <1>1 DEF NobodyThere
<1>5. OnlyNamed'
  BY <1>1 DEF OnlyNamed
<1>. QED  BY <1>2, <1>3, <1>4, <1>5 DEF IInv

LEMMA ReturnKeeps ==
  ASSUME IInv, NEW outcome, Return(outcome), UNCHANGED <<hardware, users>>
  PROVE  IInv'
<1>. USE DEF Refusing, DetachSteps, Finding, Preparing, Kinds, Return
<1>1. InCall'
  BY DEF IInv, InCall, hardware
<1>2. DeviceThere'
  BY DEF IInv, DeviceThere, hardware, users
<1>3. NobodyThere'
  BY DEF NobodyThere
<1>4. OnlyNamed'
  BY DEF OnlyNamed
<1>. QED  BY <1>1, <1>2, <1>3, <1>4 DEF IInv

LEMMA EnvironmentKeeps ==
  ASSUME IInv, PciEnvironment \/ UNCHANGED pciVars
  PROVE  IInv'
<1>. USE DEF Refusing, DetachSteps, Finding, Preparing, Kinds, control, hardware, users
<1>1. CASE UNCHANGED pciVars
  BY <1>1 DEF pciVars, IInv, InCall, DeviceThere, NobodyThere, OnlyNamed, Resetting,
     Recovering
<1>2. CASE \E c \in Client : Opens(c) \/ Closes(c)
  <2>1. UNCHANGED <<hardware, control>> /\ (clients' # {} => gpu = "nvidia")
    BY <1>2 DEF Opens, Closes, IInv, DeviceThere
  <2>. QED  BY <2>1 DEF IInv, InCall, DeviceThere, NobodyThere, OnlyNamed, Resetting,
            Recovering
<1>3. CASE Fails
  <2>1. /\ gpu' = "" /\ clients' = {} /\ UNCHANGED <<foreign, loaded, control>>
        /\ present' = present \/ (call = "none" /\ present' = {})
    BY <1>3 DEF Fails
  <2>2. InCall'
    BY <2>1 DEF IInv, InCall
  <2>3. DeviceThere'
    BY <2>1 DEF IInv, InCall, DeviceThere
  <2>4. NobodyThere' /\ OnlyNamed'
    BY <2>1 DEF IInv, NobodyThere, OnlyNamed, Resetting, Recovering
  <2>. QED  BY <2>2, <2>3, <2>4 DEF IInv
<1>. QED  BY <1>1, <1>2, <1>3 DEF PciEnvironment

\* The steps that read, and decide where the call goes.
LEMMA ReadingSteps ==
  ASSUME IInv,
         \/ Identify \/ Judge \/ Look \/ Validate \/ LookAgain \/ Gone \/ Query \/ Final
         \/ \E k \in {"ensure", "off"} : Begin(k)
  PROVE  IInv'
<1>. USE DEF Refusing, DetachSteps, Finding, Preparing, Kinds, Untouched, hardware, users
<1>1. ASSUME NEW p \in DetachSteps \cup Finding \cup Preparing \cup {"validate", "gone"},
             call # "none",
             To(p), UNCHANGED <<hardware, users>>,
             p = "validate" => (Resetting => gpu # "nvidia"),
             p \in DetachSteps => ~foreign /\ (Resetting => gpu # "nvidia") /\ p \notin {"remove", "unload"},
             p \in Finding \cup Preparing => Resetting,
             p \in Preparing => pc \in Preparing \ {"load"} /\ p # "load",
             p # "judge"
      PROVE  IInv'
  <2>1. pc' = p /\ UNCHANGED <<call, step, stable, probed, error>>
    BY <1>1 DEF To
  <2>2. InCall'
    BY <1>1, <2>1 DEF IInv, InCall, Resetting, Recovering
  <2>3. DeviceThere'
    BY <1>1, <2>1 DEF IInv, DeviceThere
  <2>4. NobodyThere' /\ OnlyNamed'
    BY <1>1, <2>1 DEF IInv, NobodyThere, OnlyNamed, Resetting, Recovering
  <2>. QED  BY <2>2, <2>3, <2>4 DEF IInv
<1>2. CASE Identify
  <2>1. CASE Raise("failed")
    BY <1>2, <2>1, RaiseKeeps DEF Identify
  <2>2. CASE /\ pc' = "judge" /\ probed' = Probe
             /\ UNCHANGED <<call, step, stable, error, result>>
    <3>1. probed'.stranded => gpu # "nvidia"
      BY <2>2 DEF Probe
    <3>2. pc = "identify" /\ UNCHANGED <<hardware, users>>
      BY <1>2 DEF Identify
    <3>3. InCall'
      BY <2>2, <3>2 DEF IInv, InCall
    <3>4. DeviceThere' /\ NobodyThere' /\ OnlyNamed'
      BY <2>2, <3>1, <3>2 DEF IInv, DeviceThere, NobodyThere, OnlyNamed
    <3>. QED  BY <3>3, <3>4 DEF IInv
  <2>. QED  BY <1>2, <2>1, <2>2 DEF Identify
<1>3. CASE Judge
  <2>1. pc = "judge" /\ UNCHANGED <<hardware, users>> /\ Resetting /\ call # "none"
    BY <1>3 DEF Judge, Resetting, Recovering, IInv, InCall
  <2>2. CASE ~probed.stranded
    BY <1>1, <1>3, <2>1, <2>2 DEF Judge
  <2>3. CASE probed.stranded /\ probed.blocking
    BY <1>3, <2>1, <2>3, RaiseKeeps DEF Judge
  <2>4. CASE probed.stranded /\ ~probed.blocking
    BY <1>1, <1>3, <2>1, <2>4 DEF Judge, IInv, NobodyThere
  <2>. QED  BY <2>2, <2>3, <2>4
<1>4. CASE Look
  <2>1. /\ pc = "look" /\ UNCHANGED <<hardware, users>> /\ ~Resetting /\ call # "none"
    BY <1>4 DEF Look, Resetting, Recovering, IInv, InCall
  <2>2. CASE Return("busy")
    BY <2>1, <2>2, ReturnKeeps
  <2>3. CASE To("validate")
    BY <1>1, <2>1, <2>3
  <2>. QED  BY <1>4, <2>2, <2>3 DEF Look
<1>5. CASE Validate
  <2>1. pc = "validate" /\ UNCHANGED <<hardware, users>> /\ call # "none"
    BY <1>5 DEF Validate, IInv, InCall
  <2>2. CASE ValidTopology
    <3>1. To("stop") /\ ~foreign /\ (Resetting => gpu # "nvidia")
      BY <1>5, <2>1, <2>2 DEF Validate, ValidTopology, IInv, NobodyThere
    <3>. QED  BY <1>1, <2>1, <3>1
  <2>3. CASE ~ValidTopology /\ Resetting
    BY <1>5, <2>1, <2>3, RaiseKeeps DEF Validate
  <2>4. CASE ~ValidTopology /\ ~Resetting
    BY <1>5, <2>1, <2>4, ReturnKeeps DEF Validate
  <2>. QED  BY <2>2, <2>3, <2>4
<1>6. CASE LookAgain
  <2>1. pc = "clients" /\ UNCHANGED <<hardware, users>> /\ call # "none"
    BY <1>6 DEF LookAgain, IInv, InCall
  <2>2. CASE Raise("busy")
    BY <2>1, <2>2, RaiseKeeps
  <2>3. CASE To("unbind")
    BY <1>1, <2>1, <2>3 DEF IInv, NobodyThere, OnlyNamed
  <2>. QED  BY <1>6, <2>2, <2>3 DEF LookAgain
<1>7. CASE Gone
  <2>1. pc = "gone" /\ UNCHANGED <<hardware, users>> /\ call # "none"
    BY <1>7 DEF Gone, IInv, InCall
  <2>2. CASE Raise("failed")
    BY <2>1, <2>2, RaiseKeeps
  <2>3. CASE Resetting /\ To("enumerate")
    BY <1>1, <2>1, <2>3
  <2>4. CASE Return("ok")
    BY <2>1, <2>4, ReturnKeeps
  <2>. QED  BY <1>7, <2>2, <2>3, <2>4 DEF Gone
<1>8. CASE Query
  <2>1. pc = "query" /\ UNCHANGED <<hardware, users>> /\ call # "none" /\ Resetting
    BY <1>8 DEF Query, IInv, InCall, Resetting, Recovering
  <2>2. CASE Raise("failed")
    BY <2>1, <2>2, RaiseKeeps
  <2>3. CASE To("final")
    BY <1>1, <2>1, <2>3
  <2>. QED  BY <1>8, <2>2, <2>3 DEF Query
<1>9. CASE Final
  <2>1. pc = "final" /\ UNCHANGED <<hardware, users>>
    BY <1>9 DEF Final
  <2>2. CASE Raise("failed")
    BY <2>1, <2>2, RaiseKeeps
  <2>3. CASE \E outcome \in {error, "ok"} : Return(outcome)
    BY <2>1, <2>3, ReturnKeeps
  <2>. QED  BY <1>9, <2>2, <2>3 DEF Final
<1>10. CASE \E k \in {"ensure", "off"} : Begin(k)
  <2>1. PICK k \in {"ensure", "off"} : Begin(k)
    BY <1>10
  <2>2. /\ call' = k /\ pc' = (IF k = "ensure" THEN "identify" ELSE "look")
        /\ UNCHANGED <<step, error, hardware, users>> /\ call = "none"
    BY <2>1 DEF Begin
  <2>3. error' = "none" \/ error' \in Kinds
    BY <2>2 DEF IInv, InCall
  <2>. QED  BY <2>2, <2>3 DEF IInv, InCall, DeviceThere, NobodyThere, OnlyNamed,
            Resetting, Recovering
<1>. QED  BY <1>2, <1>3, <1>4, <1>5, <1>6, <1>7, <1>8, <1>9, <1>10

\* The steps that touch the hardware.
LEMMA TouchingSteps ==
  ASSUME IInv,
         \/ StopService \/ UnbindAudio \/ Unload \/ Remove
         \/ Enumerate \/ LoadModule \/ BindGpu \/ BindAudio \/ StartService
  PROVE  IInv'
<1>. USE DEF Refusing, DetachSteps, Finding, Preparing, Kinds, users
<1>0. Len(Modules) = 4 /\ Modules[1] = "nvidia"
  BY DEF Modules
<1>1. CASE StopService
  <2>1. pc = "stop" /\ UNCHANGED <<present, foreign, gpu, audio, loaded, users>>
    BY <1>1 DEF StopService
  <2>2. CASE Raise("failed") /\ UNCHANGED persistence
    BY <2>1, <2>2, RaiseKeeps DEF hardware
  <2>3. CASE To("clients")
    BY <2>1, <2>3 DEF To, IInv, InCall, DeviceThere, NobodyThere, OnlyNamed, Resetting,
       Recovering
  <2>. QED  BY <1>1, <2>2, <2>3 DEF StopService
<1>2. CASE UnbindAudio
  <2>1. pc = "unbind" /\ UNCHANGED <<present, foreign, gpu, loaded, persistence, users>>
    BY <1>2 DEF UnbindAudio
  <2>2. CASE Raise("failed") /\ UNCHANGED audio
    BY <2>1, <2>2, RaiseKeeps DEF hardware
  <2>3. CASE ToModule("unload", Len(Modules))
    BY <1>0, <2>1, <2>3 DEF ToModule, IInv, InCall, DeviceThere, NobodyThere, OnlyNamed,
       Resetting, Recovering
  <2>. QED  BY <1>2, <2>2, <2>3 DEF UnbindAudio
<1>3. CASE StartService
  <2>1. pc = "start" /\ UNCHANGED <<present, foreign, gpu, audio, loaded, users>>
    BY <1>3 DEF StartService
  <2>2. CASE Raise("failed") /\ UNCHANGED persistence
    BY <2>1, <2>2, RaiseKeeps DEF hardware
  <2>3. CASE To("query")
    BY <2>1, <2>3 DEF To, IInv, InCall, DeviceThere, NobodyThere, OnlyNamed
  <2>. QED  BY <1>3, <2>2, <2>3 DEF StartService
<1>4. CASE BindAudio
  <2>1. pc = "bindAudio" /\ UNCHANGED <<present, foreign, gpu, loaded, persistence, users>>
    BY <1>4 DEF BindAudio
  <2>2. CASE Raise("failed") /\ UNCHANGED audio
    BY <2>1, <2>2, RaiseKeeps DEF hardware
  <2>3. CASE To("start")
    BY <2>1, <2>3 DEF To, IInv, InCall, DeviceThere, NobodyThere, OnlyNamed
  <2>. QED  BY <1>4, <2>2, <2>3 DEF BindAudio
<1>5. CASE BindGpu
  <2>1. pc = "bind" /\ UNCHANGED <<present, foreign, audio, loaded, persistence, users>>
    BY <1>5 DEF BindGpu
  <2>2. CASE Raise("failed") /\ UNCHANGED gpu
    BY <2>1, <2>2, RaiseKeeps DEF hardware
  <2>3. CASE To("bindAudio") /\ gpu' = "nvidia"
    BY <2>1, <2>3 DEF To, IInv, InCall, DeviceThere, NobodyThere, OnlyNamed, Nodes
  <2>. QED  BY <1>5, <2>2, <2>3 DEF BindGpu
<1>6. CASE LoadModule
  <2>1. pc = "load" /\ UNCHANGED <<present, foreign, audio, persistence, users>>
    BY <1>6 DEF LoadModule
  <2>2. CASE Raise("failed") /\ UNCHANGED <<gpu, loaded>>
    BY <2>1, <2>2, RaiseKeeps DEF hardware
  <2>3. CASE /\ loaded' = (IF loaded < step THEN step ELSE loaded)
             /\ gpu' \in {gpu} \cup (IF loaded = 0 THEN {"nvidia"} ELSE {})
             /\ IF step = Len(Modules) THEN ToModule("bind", 0)
                                       ELSE ToModule("load", step + 1)
    <3>1. /\ \/ pc' = "bind" /\ step' = 0
             \/ pc' = "load" /\ step' = step + 1
          /\ UNCHANGED <<call, probed, error>>
      BY <2>3 DEF ToModule
    <3>2. loaded' \in Nat /\ loaded' >= 1
      BY <2>1, <2>3 DEF IInv, InCall
    <3>3. gpu' = gpu \/ gpu' = "nvidia"
      BY <2>3
    <3>4. InCall'
      BY <2>1, <3>1, <3>2 DEF IInv, InCall
    <3>5. DeviceThere'
      BY <2>1, <3>1, <3>2, <3>3 DEF IInv, DeviceThere, Nodes
    <3>6. NobodyThere' /\ OnlyNamed'
      BY <2>1, <3>1 DEF NobodyThere, OnlyNamed
    <3>. QED  BY <3>4, <3>5, <3>6 DEF IInv
  <2>. QED  BY <1>6, <2>2, <2>3 DEF LoadModule
<1>7. CASE Enumerate
  <2>1. pc = "enumerate" /\ UNCHANGED <<foreign, loaded, persistence, users>>
    BY <1>7 DEF Enumerate
  <2>2. CASE Raise("failed") /\ UNCHANGED <<present, gpu, audio>>
    BY <2>1, <2>2, RaiseKeeps DEF hardware
  <2>3. CASE /\ present = Nodes /\ pc' = "load" /\ step' = 1
             /\ UNCHANGED <<call, probed, error, present, gpu, audio>>
    BY <2>1, <2>3 DEF IInv, InCall, DeviceThere, NobodyThere, OnlyNamed
  <2>4. CASE UNCHANGED <<call, pc, step, probed, error, present, gpu, audio>>
    BY <2>1, <2>4 DEF IInv, InCall, DeviceThere, NobodyThere, OnlyNamed, Resetting,
       Recovering
  <2>5. CASE /\ present' \in SUBSET Nodes /\ present \subseteq present'
             /\ UNCHANGED <<gpu, audio, call, pc, step, probed, error>>
    BY <2>1, <2>5 DEF IInv, InCall, DeviceThere, NobodyThere, OnlyNamed, Resetting,
       Recovering
  <2>. QED  BY <1>7, <2>2, <2>3, <2>4, <2>5 DEF Enumerate, ValidTopology
<1>8. CASE Remove
  <2>1. pc = "remove" /\ UNCHANGED <<foreign, loaded, persistence>>
    BY <1>8 DEF Remove
  <2>2. CASE Raise("failed") /\ UNCHANGED <<present, gpu, audio, users>>
    BY <2>1, <2>2, RaiseKeeps DEF hardware
  <2>3. CASE To("gone") /\ UNCHANGED <<present, gpu, audio, users>>
    BY <2>1, <2>3 DEF To, IInv, InCall, DeviceThere, NobodyThere, OnlyNamed
  <2>4. CASE To("gone") /\ present' = {} /\ gpu' = "" /\ clients' = {}
    BY <2>1, <2>4 DEF To, IInv, InCall, DeviceThere, NobodyThere, OnlyNamed
  <2>. QED  BY <1>8, <2>2, <2>3, <2>4 DEF Remove
<1>9. CASE Unload
  <2>1. pc = "unload" /\ UNCHANGED <<present, foreign, audio, persistence, users>>
    BY <1>9 DEF Unload
  <2>2. CASE Raise("failed") /\ UNCHANGED <<gpu, loaded>>
    BY <2>1, <2>2, RaiseKeeps DEF hardware
  <2>3. ASSUME NEW m \in Nat, NEW g, loaded' = m, gpu' = g,
               g = "nvidia" => gpu = "nvidia" /\ m >= 1,
               clients # {} => g = "nvidia",
               \/ step = 1 /\ ToModule("remove", 0) /\ g # "nvidia"
               \/ step # 1 /\ ToModule("unload", step - 1)
        PROVE  IInv'
    <3>1. /\ \/ pc' = "remove" /\ step' = 0 /\ gpu' # "nvidia"
             \/ pc' = "unload" /\ step' = step - 1 /\ step >= 2
          /\ UNCHANGED <<call, error, probed>>
      BY <2>1, <2>3 DEF ToModule, IInv, InCall
    <3>2. InCall'
      BY <2>1, <2>3, <3>1 DEF IInv, InCall
    <3>3. gpu' = "nvidia" => gpu = "nvidia" /\ loaded' >= 1
      BY <2>3
    <3>4. clients # {} => gpu' = "nvidia"
      BY <2>3
    <3>5. DeviceThere'
      BY <2>1, <3>1, <3>3, <3>4 DEF IInv, DeviceThere
    <3>6. NobodyThere' /\ OnlyNamed'
      BY <2>1, <2>3, <3>1 DEF IInv, NobodyThere, OnlyNamed, Resetting, Recovering
    <3>. QED  BY <3>2, <3>5, <3>6 DEF IInv
  <2>4. CASE /\ Unloadable(step)
             /\ loaded' = IF loaded = step THEN step - 1 ELSE loaded
             /\ gpu' = IF loaded' = 0 THEN "" ELSE gpu
             /\ IF step = 1 THEN ToModule("remove", 0) ELSE ToModule("unload", step - 1)
    <3>1. loaded \in Nat /\ step \in Nat /\ step >= 1 /\ loaded <= step
      BY <2>1, <2>4 DEF IInv, InCall, Unloadable
    <3>2. loaded' \in Nat /\ (loaded' = 0 => step = 1 \/ loaded = 0) /\ (step = 1 => loaded' = 0)
      <4>0. (loaded = step => loaded' = step - 1) /\ (loaded # step => loaded' = loaded)
        BY <2>4
      <4>1. CASE loaded = step
        BY <3>1, <4>0, <4>1
      <4>2. CASE loaded # step
        BY <3>1, <4>0, <4>2
      <4>. QED  BY <4>1, <4>2
    <3>3. loaded' = 0 => gpu' # "nvidia"
      BY <2>4
    <3>4. loaded' # 0 => gpu' = gpu
      BY <2>4
    <3>5. clients # {} => loaded' # 0
      <4>1. clients # {} => loaded >= 1
        BY DEF IInv, DeviceThere
      <4>2. step = 1 /\ loaded >= 1 => clients = {}
        <5>1. Unloadable(step)
          BY <2>4
        <5>2. step = 1 /\ loaded = step => clients = {}
          BY <1>0, <5>1 DEF Unloadable, InUse, AnyClient
        <5>. QED  BY <3>1, <5>2
      <4>. QED  BY <3>1, <3>2, <4>1, <4>2
    <3>6. gpu' = "nvidia" => gpu = "nvidia" /\ loaded' >= 1
      BY <3>2, <3>3, <3>4
    <3>7. clients # {} => gpu' = "nvidia"
      BY <3>4, <3>5 DEF IInv, DeviceThere
    <3>8. \/ step = 1 /\ ToModule("remove", 0) /\ gpu' # "nvidia"
          \/ step # 1 /\ ToModule("unload", step - 1)
      BY <2>4, <3>2, <3>3
    <3>. QED  BY <2>3, <3>2, <3>6, <3>7, <3>8
  <2>5. CASE /\ ~MustUnload(step) /\ UNCHANGED <<gpu, loaded>>
             /\ IF step = 1 THEN ToModule("remove", 0) ELSE ToModule("unload", step - 1)
    <3>1. gpu # "nvidia" /\ clients = {} /\ loaded \in Nat
      BY <2>1, <2>5 DEF MustUnload, IInv, InCall, NobodyThere, DeviceThere
    <3>2. \/ step = 1 /\ ToModule("remove", 0)
          \/ step # 1 /\ ToModule("unload", step - 1)
      BY <2>5
    <3>. QED  BY <2>3, <2>5, <3>1, <3>2
  <2>. QED  BY <1>9, <2>2, <2>4, <2>5 DEF Unload
<1>. QED  BY <1>1, <1>2, <1>3, <1>4, <1>5, <1>6, <1>7, <1>8, <1>9

LEMMA StepIInv == IInv /\ [PciNext]_pciVars => IInv'
<1>. SUFFICES ASSUME IInv, [PciNext]_pciVars PROVE IInv'
  OBVIOUS
<1>1. CASE PciEnvironment \/ UNCHANGED pciVars
  BY <1>1, EnvironmentKeeps
<1>2. CASE EnsureReady
  BY <1>2, ReadingSteps, TouchingSteps DEF EnsureReady
<1>3. CASE Detach
  BY <1>3, ReadingSteps, TouchingSteps DEF Detach
<1>4. CASE \E k \in {"ensure", "off"} : Begin(k)
  BY <1>4, ReadingSteps
<1>. QED  BY <1>1, <1>2, <1>3, <1>4 DEF PciNext

\* A branch is removed only with the inventory that the configuration names.
THEOREM RemovesOnlyNamed == PciSpec => ProtectedUntouched
<1>1. IInv /\ [PciNext]_pciVars => [pc = "remove" /\ ~Off /\ Off' => ~foreign]_pciVars
  BY DEF IInv, OnlyNamed, DetachSteps
<1>. QED  BY InitIInv, StepIInv, <1>1, PTL DEF PciSpec, ProtectedUntouched

-----------------------------------------------------------------------------
\* The safety part of ImplementsBackend.
Hw == IF Ready THEN "ready" ELSE IF Off THEN "off" ELSE "other"

LEMMA HwIs ==
  /\ Hw \in {"ready", "off", "other"}
  /\ Hw = "ready" <=> Ready
  /\ Hw = "off" <=> Off
<1>1. ~(Ready /\ Off)
  BY DEF Ready, Off, Nodes
<1>. QED  BY <1>1 DEF Hw

LEMMA SameHw == ASSUME UNCHANGED hardware PROVE Hw' = Hw
BY DEF hardware, Hw, Ready, Off

\* A command of a call, or an access to sysfs, is the backend at work.
LEMMA WorkRefines ==
  ASSUME IInv', call # "none", UNCHANGED <<clients, call, result>>
  PROVE  Promise!Work
<1>1. Hw' \in {"ready", "off", "other"}
  BY DEF Hw
<1>2. Hw' = "off" => Off'
  BY DEF Hw
<1>3. Off' => clients' = {}
  BY DEF IInv, DeviceThere, Off
<1>4. Hw' = "off" => ~(clients # {})
  BY <1>2, <1>3
<1>5. (clients # {})' = (clients # {})
  OBVIOUS
<1>. QED  BY <1>1, <1>4, <1>5 DEF Promise!Work, Hw

LEMMA ReturnRefines ==
  ASSUME call # "none", NEW outcome \in {"ok", "busy", "failed"}, Return(outcome),
         outcome = "ok" => (call = "ensure" /\ Ready) \/ (call = "off" /\ Off),
         UNCHANGED <<hardware, users>>
  PROVE  Promise!Return
<1>1. Hw' = Hw /\ clients' = clients
  BY SameHw DEF users
<1>2. outcome = "ok" => Hw = [ensure |-> "ready", off |-> "off"][call]
  BY HwIs
<1>. QED  BY <1>1, <1>2 DEF Promise!Return, Promise!Promised, Return, Hw

LEMMA RaiseRefines ==
  ASSUME IInv, IInv', call # "none", NEW kind \in Kinds, Raise(kind),
         UNCHANGED <<hardware, users>>
  PROVE  Promise!Return \/ Promise!Work
<1>. USE DEF Kinds
<1>1. CASE Return(kind)
  BY <1>1, ReturnRefines
<1>2. CASE Recovering /\ Return(error)
  <2>1. error \in Kinds
    BY <1>2 DEF IInv, InCall, Recovering
  <2>. QED  BY <1>2, <2>1, ReturnRefines
<1>3. CASE UNCHANGED <<call, result>>
  BY <1>3, WorkRefines DEF users
<1>. QED  BY <1>1, <1>2, <1>3 DEF Raise

LEMMA CallRefines ==
  ASSUME IInv, IInv', EnsureReady \/ Detach
  PROVE  Promise!Return \/ Promise!Work
<1>. USE DEF Kinds, Untouched, hardware, users
<1>0. call # "none"
  BY DEF EnsureReady, Detach, Identify, Judge, Enumerate, LoadModule, BindGpu, BindAudio,
     StartService, Query, Final, Look, Validate, StopService, LookAgain, UnbindAudio,
     Unload, Remove, Gone, IInv, InCall
<1>1. ASSUME NEW p, To(p), UNCHANGED clients PROVE Promise!Work
  BY <1>0, <1>1, WorkRefines DEF To
<1>2. ASSUME NEW p, NEW m, ToModule(p, m), UNCHANGED clients PROVE Promise!Work
  BY <1>0, <1>2, WorkRefines DEF ToModule
<1>3. CASE Identify \/ Judge
  BY <1>0, <1>1, <1>3, RaiseRefines, WorkRefines DEF Identify, Judge
<1>4. CASE Look
  <2>1. CASE Return("busy")
    BY <1>0, <1>4, <2>1, ReturnRefines DEF Look
  <2>. QED  BY <1>1, <1>4, <2>1 DEF Look
<1>5. CASE Validate
  <2>1. CASE Return("failed")
    BY <1>0, <1>5, <2>1, ReturnRefines DEF Validate
  <2>. QED  BY <1>0, <1>1, <1>5, <2>1, RaiseRefines DEF Validate
<1>6. CASE StopService \/ LookAgain \/ UnbindAudio
  BY <1>0, <1>1, <1>2, <1>6, RaiseRefines DEF StopService, LookAgain, UnbindAudio
<1>7. CASE Unload
  <2>1. CASE Raise("failed") /\ UNCHANGED <<gpu, loaded>>
    BY <1>0, <1>7, <2>1, RaiseRefines DEF Unload
  <2>2. CASE \E p \in {"remove", "unload"}, m \in {0, step - 1} : ToModule(p, m)
    BY <1>2, <1>7, <2>2 DEF Unload
  <2>. QED  BY <1>7, <2>1, <2>2 DEF Unload
<1>8. CASE Remove
  <2>1. CASE Raise("failed") /\ UNCHANGED <<present, gpu, audio, users>>
    BY <1>0, <1>8, <2>1, RaiseRefines DEF Remove
  <2>2. CASE To("gone") /\ UNCHANGED users
    BY <1>1, <2>2
  <2>3. CASE To("gone") /\ clients' = {}
    <3>1. clients = {}
      BY <1>8 DEF Remove, IInv, NobodyThere, DeviceThere
    <3>. QED  BY <1>1, <2>3, <3>1
  <2>. QED  BY <1>8, <2>1, <2>2, <2>3 DEF Remove
<1>9. CASE Gone
  <2>1. CASE ~Resetting /\ Off /\ Return("ok")
    <3>1. call = "off"
      BY <1>0, <2>1 DEF Resetting, IInv, InCall
    <3>. QED  BY <1>0, <1>9, <2>1, <3>1, ReturnRefines DEF Gone
  <2>. QED  BY <1>0, <1>1, <1>9, <2>1, RaiseRefines DEF Gone
<1>10. CASE Enumerate
  <2>1. CASE Raise("failed") /\ UNCHANGED <<present, gpu, audio>>
    BY <1>0, <1>10, <2>1, RaiseRefines DEF Enumerate
  <2>2. CASE UNCHANGED <<call, result>>
    BY <1>0, <1>10, <2>2, WorkRefines DEF Enumerate
  <2>. QED  BY <1>10, <2>1, <2>2 DEF Enumerate
<1>11. CASE LoadModule \/ BindGpu \/ BindAudio
  BY <1>0, <1>1, <1>2, <1>11, RaiseRefines DEF LoadModule, BindGpu, BindAudio
<1>12. CASE StartService \/ Query
  BY <1>0, <1>1, <1>12, RaiseRefines DEF StartService, Query
<1>13. CASE Final
  <2>1. CASE Raise("failed")
    BY <1>0, <1>13, <2>1, RaiseRefines DEF Final
  <2>2. CASE Recovering /\ Return(error)
    <3>1. error \in Kinds
      BY <2>2 DEF Recovering, IInv, InCall
    <3>. QED  BY <1>0, <1>13, <2>2, <3>1, ReturnRefines DEF Final
  <2>3. CASE FinallyReady /\ ~Recovering /\ Return("ok")
    <3>1. call = "ensure"
      BY <1>0, <1>13 , <2>3 DEF Final, Recovering, IInv, InCall, Preparing
    <3>2. Ready
      BY <2>3 DEF FinallyReady
    <3>. QED  BY <1>0, <1>13, <2>3, <3>1, <3>2, ReturnRefines DEF Final
  <2>. QED  BY <1>13, <2>1, <2>2, <2>3 DEF Final
<1>. QED  BY <1>3, <1>4, <1>5, <1>6, <1>7, <1>8, <1>9, <1>10, <1>11, <1>12, <1>13
          DEF EnsureReady, Detach

LEMMA StepRefines ==
  ASSUME IInv, IInv', [PciNext]_pciVars
  PROVE  [Promise!Next]_(Promise!vars)
<1>. USE DEF Promise!Next
<1>1. CASE EnsureReady \/ Detach
  BY <1>1, CallRefines
<1>2. CASE \E k \in {"ensure", "off"} : Begin(k)
  <2>1. /\ call = "none" /\ call' \in {"ensure", "off"} /\ result' = "none"
        /\ UNCHANGED <<hardware, clients>>
    BY <1>2 DEF Begin, Untouched, users
  <2>2. Hw' = Hw
    BY <2>1, SameHw
  <2>. QED  BY <2>1, <2>2 DEF Promise!Begin, Hw
<1>3. CASE UNCHANGED pciVars
  <2>1. Hw' = Hw /\ UNCHANGED <<clients, call, result>>
    BY <1>3, SameHw DEF pciVars, users, control
  <2>. QED  BY <2>1 DEF Promise!vars, Hw
<1>4. CASE \E c \in Client : Opens(c) \/ Closes(c)
  <2>1. UNCHANGED <<hardware, call, result>> /\ gpu = "nvidia"
    BY <1>4 DEF Opens, Closes, control, IInv, DeviceThere
  <2>2. Hw' = Hw /\ Hw # "off"
    BY <2>1, SameHw, HwIs DEF IInv, DeviceThere, Off
  <2>. QED  BY <2>1, <2>2 DEF Promise!Use, Hw
<1>5. CASE Fails
  <2>1. /\ gpu = "nvidia" /\ gpu' = "" /\ clients' = {} /\ UNCHANGED <<call, result>>
        /\ present' = present \/ (call = "none" /\ present' = {})
    BY <1>5 DEF Fails, control
  <2>2. ~Ready'
    BY <2>1 DEF Ready
  <2>3. present # {}
    BY <2>1 DEF IInv, DeviceThere
  <2>4. Hw' \in {"other"} \cup (IF call = "none" THEN {"off"} ELSE {})
    BY <2>1, <2>2, <2>3 DEF Hw, Off
  <2>. QED  BY <2>1, <2>4 DEF Promise!Fail, Hw
<1>. QED  BY <1>1, <1>2, <1>3, <1>4, <1>5 DEF PciNext, PciEnvironment

\* Whatever the steps of ensure_ready and power_off meet, a good answer is
\* true and no process loses a device it has open: Promise!Spec without the
\* fairness, which the run checks.
THEOREM RefinesBackend == PciSpec => Promise!Init /\ [][Promise!Next]_(Promise!vars)
<1>1. PciInit => Promise!Init
  <2>. SUFFICES ASSUME PciInit PROVE Promise!Init
    OBVIOUS
  <2>1. clients = {} /\ call = "none" /\ result = "none"
    BY DEF PciInit
  <2>2. Hw \in {"ready", "off", "other"}
    BY HwIs
  <2>. QED  BY <2>1, <2>2 DEF Promise!Init, Hw
<1>. QED  BY <1>1, InitIInv, StepIInv, StepRefines, PTL DEF PciSpec
=================================================================================
