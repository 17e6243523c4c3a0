------------------------- MODULE AcceleratorManager -------------------------
(***************************************************************************)
(* The lease table and the power policy of one accelerator: the class      *)
(* AcceleratorManager of services/accelerator/.../broker.py, with its      *)
(* monitor thread, over an abstract AcceleratorBackend.                    *)
(*                                                                         *)
(* Every method runs under one lock.  The short ones are single actions.   *)
(* The two backend calls that take minutes, ensure_ready and power_off,    *)
(* are split into a begin and an end: `op' names the call in progress,     *)
(* which holds the lock while time passes, the hardware fails, clients     *)
(* open the device, or the process dies.                                   *)
(*                                                                         *)
(* Time is counted down instead of up: what the code computes as           *)
(* `expires_monotonic - now' is leaseLeft, and `now - _idle_since' is      *)
(* idle, saturated at the threshold it is compared with, so the state      *)
(* space is finite without a bound on the clock.  `now' is read when a     *)
(* method takes the lock; `elapsed' is how stale that reading has become.  *)
(***************************************************************************)
EXTENDS Naturals, FiniteSets

CONSTANTS
  Uid,             \* peers, identified by SO_PEERCRED
  Token,           \* lease ids of acquire
  PolicyToken,     \* lease ids of subscribe_policy
  Nobody,          \* the owner of a token that is not in the table
  Ttl,             \* the ttls a request may ask for
  MaxTtl,          \* max_lease_ttl_sec
  LeaseLimit,      \* MAX_LEASES_PER_UID
  IdleTimeout,     \* idle_timeout_sec
  StartupGuard,    \* startup_guard_sec
  FailureRetry,    \* MONITOR_FAILURE_RETRY_SEC
  MonitorPeriod,   \* the wait of _monitor_loop
  MaxOperation,    \* the sum of the timeouts of one backend call
  Automatic,       \* automatic_power_management
  HasSchedule      \* standby_schedule is not None

ASSUME TtlAssumption == MaxTtl \in Nat /\ Ttl \subseteq 1..MaxTtl
ASSUME TimerAssumption ==
  /\ IdleTimeout \in Nat \ {0} /\ StartupGuard \in Nat \ {0}
  /\ FailureRetry \in Nat /\ MonitorPeriod \in Nat
  /\ MaxOperation \in Nat /\ LeaseLimit \in Nat
ASSUME ConfigAssumption == Automatic \in BOOLEAN /\ HasSchedule \in BOOLEAN
ASSUME NobodyAssumption == Nobody \notin Uid

VARIABLES
  leaseOwner,   \* _leases: the owner of each token, Nobody when absent
  leaseLeft,    \* _leases: expires_monotonic - now, 0 when expired
  told,         \* expires_at_epoch - now, as last returned to the holder
  policyOwner,  \* _policy_leases: the owner of each token
  policyLeft,   \* _policy_leases: time to expiry
  hw,           \* what backend.probe() would report
  inUse,        \* a non-persistence process has the device open
  state,        \* _state
  verified,     \* _readiness_verified
  failed,       \* _last_error is set
  idle,         \* now - _idle_since, up to IdleTimeout
  up,           \* now - _started_at, up to StartupGuard
  wake,         \* _next_wake_attempt - now, 0 when due
  window,       \* standby_schedule.requested(now): the standby window is open
  op,           \* the backend call in progress, which holds _lock
  request,      \* the uid and ttl of the acquire in progress
  elapsed,      \* time since the method in progress read the clock
  monitor,      \* "wait", or "failed": tick raised and is not yet recorded
  monitorWait,  \* time until the monitor runs again
  proof,        \* auxiliary: the last thing this process learnt of the device
  sinceLive     \* auxiliary: time since a lease was last live

leaseVars  == <<leaseOwner, leaseLeft, told>>
policyVars == <<policyOwner, policyLeft>>
hwVars     == <<hw, inUse>>
readyVars  == <<state, verified, failed, proof>>
timerVars  == <<up, wake, sinceLive>>
opVars     == <<op, request, elapsed>>
monVars    == <<monitor, monitorWait>>
vars == <<leaseVars, policyVars, hwVars, readyVars, timerVars, idle, window,
          opVars, monVars>>

Hardware == {"ready", "off", "degraded"}
States   == {"ready", "off", "degraded", "attaching", "detaching", "fault"}
Ops      == {"none", "acquire", "wake", "detach", "recover"}
NoRequest == [uid |-> Nobody, ttl |-> 0]

Down(n, d) == IF n > d THEN n - d ELSE 0
Upto(n, cap) == IF n < cap THEN n ELSE cap

Held == {t \in Token : leaseOwner[t] # Nobody}
LeasesOf(u) == {t \in Token : leaseOwner[t] = u /\ leaseLeft[t] > 0}

\* Lease.expires_monotonic <= now
ExpiredEarly == {t \in Held : leaseLeft[t] <= 1}
Expired == {t \in Held : leaseLeft[t] = 0}
Live == Held \ Expired

\* _policy_locked: is unloading requested now?
UnloadRequested == Automatic /\ (HasSchedule => window)

-----------------------------------------------------------------------------
\* _reap_locked, which every method below runs first, except the releases.
ReapedOwner == [t \in Token |-> IF t \in Expired THEN Nobody ELSE leaseOwner[t]]
ReapedLeft  == [t \in Token |-> IF t \in Expired THEN 0 ELSE leaseLeft[t]]
ReapedIdleKept == idle
ReapedIdle  == IF Expired # {} /\ Live = {} THEN 0 ELSE idle
ReapPolicy  == /\ policyOwner' = [t \in PolicyToken |->
                     IF policyLeft[t] = 0 THEN Nobody ELSE policyOwner[t]]
               /\ UNCHANGED policyLeft
ReapLeases  == /\ leaseOwner' = ReapedOwner
               /\ leaseLeft' = ReapedLeft
               /\ idle' = ReapedIdle
Reap == ReapLeases /\ ReapPolicy

LockFree == op = "none"
HoldLock(kind) == op' = kind /\ elapsed' = 0
FreeLock == op' = "none" /\ elapsed' = 0 /\ request' = NoRequest

\* The outcomes of ensure_ready and power_off, as the manager sees them.
Proven     == state' = "ready" /\ verified' = TRUE /\ failed' = FALSE
              /\ hw' = "ready" /\ proof' = "good"
Faulted    == state' = "fault" /\ verified' = FALSE /\ failed' = TRUE
              /\ hw' \in Hardware /\ proof' = "none"

-----------------------------------------------------------------------------
\* acquire.  A device that is ready and verified is granted at once.
TokenFor(t) == leaseOwner[t] = Nobody /\ told[t] = 0
WithinLimit(u) == Cardinality(LeasesOf(u)) < LeaseLimit
NeedsNoProofStructural == hw = "ready"
NeedsNoProof == hw = "ready" /\ verified

GrantExtended(t, u, ttl, late) ==
  /\ leaseOwner' = [leaseOwner EXCEPT ![t] = u]
  /\ leaseLeft' = [leaseLeft EXCEPT ![t] = ttl + late]
  /\ told' = [told EXCEPT ![t] = ttl]

GrantLate(t, u, ttl, late) ==
  /\ leaseOwner' = [leaseOwner EXCEPT ![t] = u]
  /\ leaseLeft' = [leaseLeft EXCEPT ![t] = Down(ttl, late)]
  /\ told' = [told EXCEPT ![t] = ttl]

AcquireReady(u, t, ttl) ==
  /\ LockFree /\ WithinLimit(u) /\ NeedsNoProof
  /\ TokenFor(t)
  /\ leaseOwner' = [ReapedOwner EXCEPT ![t] = u]
  /\ leaseLeft' = [ReapedLeft EXCEPT ![t] = ttl]
  /\ told' = [told EXCEPT ![t] = ttl]
  /\ idle' = ReapedIdle
  /\ ReapPolicy
  /\ state' = "ready" /\ verified' = TRUE /\ failed' = FALSE
  /\ UNCHANGED <<hwVars, proof, timerVars, window, opVars, monVars>>

\* Otherwise ensure_ready runs, under the lock, before anything is granted.
AcquireBegins(u, ttl) ==
  /\ LockFree /\ WithinLimit(u) /\ ~NeedsNoProof
  /\ \E t \in Token : TokenFor(t)
  /\ Reap
  /\ state' = "attaching"
  /\ HoldLock("acquire")
  /\ request' = [uid |-> u, ttl |-> ttl]
  /\ UNCHANGED <<told, hwVars, verified, failed, proof, timerVars, window,
                 monVars>>

\* The lease runs from the clock read before ensure_ready; the expiry the
\* holder is told runs from the clock read after it.
AcquireAttached(t) ==
  /\ op = "acquire"
  /\ TokenFor(t)
  /\ GrantLate(t, request.uid, request.ttl, elapsed)
  /\ Proven
  /\ FreeLock
  /\ UNCHANGED <<policyVars, inUse, idle, timerVars, window, monVars>>

AcquireFails ==
  /\ op = "acquire"
  /\ Faulted
  /\ FreeLock
  /\ UNCHANGED <<leaseVars, policyVars, inUse, idle, timerVars, window,
                 monVars>>

\* A call that reaps and is then refused: the limit, an unknown token, a
\* token of another peer, or a probe that raises.
Refused ==
  /\ LockFree
  /\ Reap
  /\ UNCHANGED <<told, hwVars, readyVars, timerVars, window, opVars, monVars>>

Renewable(u, t) == t \in Live /\ leaseOwner[t] = u

Renew(u, t, ttl) ==
  /\ LockFree
  /\ Renewable(u, t)
  /\ leaseOwner' = ReapedOwner
  /\ leaseLeft' = [ReapedLeft EXCEPT ![t] = ttl]
  /\ told' = [told EXCEPT ![t] = ttl]
  /\ idle' = ReapedIdle
  /\ ReapPolicy
  /\ UNCHANGED <<hwVars, readyVars, timerVars, window, opVars, monVars>>

\* release does not reap: an expired lease can still be released.
Release(u, t) ==
  /\ LockFree
  /\ t \in Held /\ leaseOwner[t] = u
  /\ leaseOwner' = [leaseOwner EXCEPT ![t] = Nobody]
  /\ leaseLeft' = [leaseLeft EXCEPT ![t] = 0]
  /\ told' = [told EXCEPT ![t] = 0]
  /\ idle' = IF Held = {t} THEN 0 ELSE idle
  /\ UNCHANGED <<policyVars, hwVars, readyVars, timerVars, window, opVars,
                 monVars>>

-----------------------------------------------------------------------------
\* subscribe_policy, renew_policy and release_policy: a second table, which
\* never wakes the device and never keeps it awake.
PolicyOf(u) == {p \in PolicyToken : policyOwner[p] = u /\ policyLeft[p] > 0}

SubscribePolicy(u, p, ttl) ==
  /\ LockFree
  /\ Cardinality(PolicyOf(u)) < LeaseLimit
  /\ policyOwner[p] = Nobody
  /\ ReapLeases
  /\ policyOwner' = [t \in PolicyToken |->
       IF t = p THEN u ELSE IF policyLeft[t] = 0 THEN Nobody ELSE policyOwner[t]]
  /\ policyLeft' = [policyLeft EXCEPT ![p] = ttl]
  /\ UNCHANGED <<told, hwVars, readyVars, timerVars, window, opVars, monVars>>

RenewPolicy(u, p, ttl) ==
  /\ LockFree
  /\ policyOwner[p] = u /\ policyLeft[p] > 0
  /\ ReapLeases
  /\ policyOwner' = [t \in PolicyToken |->
       IF policyLeft[t] = 0 THEN Nobody ELSE policyOwner[t]]
  /\ policyLeft' = [policyLeft EXCEPT ![p] = ttl]
  /\ UNCHANGED <<told, hwVars, readyVars, timerVars, window, opVars, monVars>>

ReleasePolicy(u, p) ==
  /\ LockFree
  /\ policyOwner[p] = u
  /\ policyOwner' = [policyOwner EXCEPT ![p] = Nobody]
  /\ policyLeft' = [policyLeft EXCEPT ![p] = 0]
  /\ UNCHANGED <<leaseVars, hwVars, readyVars, timerVars, idle, window, opVars,
                 monVars>>

-----------------------------------------------------------------------------
\* status: a diagnostic that also writes _state and _readiness_verified.
Status ==
  /\ LockFree
  /\ Reap
  /\ state' = CASE hw = "ready" /\ verified -> "ready"
                [] hw = "ready" /\ ~verified /\ failed -> "fault"
                [] hw = "off" -> "off"
                [] OTHER -> "degraded"
  /\ verified' = (verified /\ hw = "ready")
  /\ UNCHANGED <<told, hwVars, failed, proof, timerVars, window, opVars,
                 monVars>>

-----------------------------------------------------------------------------
\* tick, run by the monitor thread every MonitorPeriod.
TickDue == monitor = "wait" /\ monitorWait = 0 /\ LockFree
Rearm == monitor' = "wait" /\ monitorWait' = MonitorPeriod

\* The daytime branch: wake a device that is not proven ready.
WakeWantedWhenDown == /\ Automatic /\ HasSchedule /\ ~window
                      /\ hw # "ready" /\ wake = 0
WakeWanted == /\ Automatic /\ HasSchedule /\ ~window
              /\ (~verified \/ hw # "ready") /\ wake = 0

TickWakes ==
  /\ TickDue /\ WakeWanted
  /\ Reap
  /\ HoldLock("wake")
  /\ UNCHANGED <<told, hwVars, readyVars, timerVars, window, request, monVars>>

WakeAttached ==
  /\ op = "wake"
  /\ Proven
  /\ FreeLock /\ Rearm
  /\ UNCHANGED <<leaseVars, policyVars, inUse, idle, timerVars, window>>

WakeFails ==
  /\ op = "wake"
  /\ Faulted
  /\ wake' = Down(FailureRetry, elapsed)
  /\ FreeLock /\ Rearm
  /\ UNCHANGED <<leaseVars, policyVars, inUse, idle, up, sinceLive, window>>

\* The standby branch: no lease, the startup guard and the idle timeout over.
MayStandByUnguarded == UnloadRequested /\ Live = {} /\ ReapedIdle = IdleTimeout
MayStandByPolicy == /\ UnloadRequested /\ Live = {} /\ up = StartupGuard
                    /\ ReapedIdle = IdleTimeout
                    /\ \A p \in PolicyToken : policyLeft[p] = 0
MayStandBy == /\ UnloadRequested
              /\ Live = {}
              /\ up = StartupGuard
              /\ ReapedIdle = IdleTimeout

TickRests ==
  /\ TickDue /\ ~WakeWanted /\ ~MayStandBy
  /\ Reap /\ Rearm
  /\ UNCHANGED <<told, hwVars, readyVars, timerVars, window, opVars>>

TickObserves ==
  /\ TickDue /\ MayStandBy /\ hw # "ready"
  /\ Reap /\ Rearm
  /\ state' = hw /\ verified' = FALSE
  /\ UNCHANGED <<told, hwVars, failed, proof, timerVars, window, opVars>>

TickDetaches ==
  /\ TickDue /\ MayStandBy /\ hw = "ready"
  /\ Reap
  /\ state' = "detaching"
  /\ HoldLock("detach")
  /\ UNCHANGED <<told, hwVars, verified, failed, proof, timerVars, window,
                 request, monVars>>

\* power_off ends: the branch is removed only when no client holds the
\* modules it unloads first.
DetachDone ==
  /\ op = "detach" /\ ~inUse
  /\ hw' = "off" /\ state' = "off" /\ verified' = FALSE /\ failed' = FALSE
  /\ FreeLock /\ Rearm
  /\ UNCHANGED <<leaseVars, policyVars, inUse, proof, idle, timerVars, window>>

\* power_off finds a client, before it has touched anything.
DetachBusy ==
  /\ op = "detach" /\ inUse
  /\ state' = "ready" /\ failed' = TRUE
  /\ idle' = Upto(elapsed, IdleTimeout)
  /\ FreeLock /\ Rearm
  /\ UNCHANGED <<leaseVars, policyVars, hwVars, verified, proof, timerVars,
                 window>>

\* power_off finds a client after it stopped the persistence service, runs
\* ensure_ready to recover, and reports the device busy either way.
DetachFindsClient ==
  /\ op = "detach" /\ inUse
  /\ op' = "recover"
  /\ UNCHANGED <<leaseVars, policyVars, hwVars, readyVars, timerVars, idle,
                 window, request, elapsed, monVars>>

DetachBusyLate ==
  /\ op = "recover"
  /\ \/ hw' = "ready" /\ proof' = "good"
     \/ hw' \in Hardware /\ proof' = "stale"
  /\ state' = "ready" /\ failed' = TRUE
  /\ idle' = Upto(elapsed, IdleTimeout)
  /\ FreeLock /\ Rearm
  /\ UNCHANGED <<leaseVars, policyVars, inUse, verified, timerVars, window>>

\* power_off fails otherwise; ensure_ready has run, its outcome ignored.
DetachFails ==
  /\ op = "detach"
  /\ Faulted
  /\ idle' = Upto(elapsed, IdleTimeout)
  /\ FreeLock /\ Rearm
  /\ UNCHANGED <<leaseVars, policyVars, inUse, timerVars, window>>

\* The probe of tick raises.  The lock is released before _monitor_loop takes
\* it again to record the fault, so other calls may run in between.
TickProbes == \/ /\ Automatic /\ HasSchedule /\ ~window /\ verified
              \/ MayStandBy

TickRaises ==
  /\ TickDue /\ TickProbes
  /\ Reap
  /\ monitor' = "failed"
  /\ UNCHANGED <<told, hwVars, readyVars, timerVars, window, opVars,
                 monitorWait>>

RecordMonitorFault ==
  /\ monitor = "failed" /\ LockFree
  /\ state' = "fault" /\ verified' = FALSE /\ failed' = TRUE
  /\ monitor' = "wait" /\ monitorWait' = FailureRetry + MonitorPeriod
  /\ UNCHANGED <<leaseVars, policyVars, hwVars, proof, timerVars, idle, window,
                 opVars>>

-----------------------------------------------------------------------------
\* The environment: time, the schedule, the hardware, other processes.
Elapse ==
  /\ ~LockFree => elapsed < MaxOperation
  /\ elapsed' = IF LockFree THEN 0 ELSE elapsed + 1
  /\ leaseLeft' = [t \in Token |-> Down(leaseLeft[t], 1)]
  /\ told' = [t \in Token |-> Down(told[t], 1)]
  /\ policyLeft' = [p \in PolicyToken |-> Down(policyLeft[p], 1)]
  /\ idle' = Upto(idle + 1, IdleTimeout)
  /\ up' = Upto(up + 1, StartupGuard)
  /\ wake' = Down(wake, 1)
  /\ monitorWait' = Down(monitorWait, 1)
  /\ sinceLive' = IF Live # {} THEN 0 ELSE Upto(sinceLive + 1, IdleTimeout)
  /\ UNCHANGED <<leaseOwner, policyOwner, hwVars, readyVars, window, op,
                 request, monitor>>

ScheduleBoundary ==
  /\ HasSchedule
  /\ window' = ~window
  /\ UNCHANGED <<leaseVars, policyVars, hwVars, readyVars, timerVars, idle,
                 opVars, monVars>>

HardwareChanges ==
  /\ hw' \in Hardware \ {hw}
  /\ UNCHANGED <<leaseVars, policyVars, inUse, readyVars, timerVars, idle,
                 window, opVars, monVars>>

ClientOpensOrCloses ==
  /\ inUse \/ hw = "ready"
  /\ inUse' = ~inUse
  /\ UNCHANGED <<leaseVars, policyVars, hw, readyVars, timerVars, idle, window,
                 opVars, monVars>>

\* __init__ and _reconcile_locked, at the first start and after a crash.
Started ==
  /\ leaseOwner' = [t \in Token |-> Nobody]
  /\ leaseLeft' = [t \in Token |-> 0]
  /\ policyOwner' = [p \in PolicyToken |-> Nobody]
  /\ policyLeft' = [p \in PolicyToken |-> 0]
  /\ state' = hw' /\ verified' = FALSE /\ failed' = FALSE /\ proof' = "none"
  /\ idle' = 0 /\ up' = 0 /\ wake' = 0
  /\ FreeLock /\ Rearm

Restart ==
  /\ hw' \in IF LockFree THEN {hw} ELSE Hardware
  /\ Started
  /\ UNCHANGED <<told, inUse, sinceLive, window>>

Init ==
  /\ leaseOwner = [t \in Token |-> Nobody]
  /\ leaseLeft = [t \in Token |-> 0]
  /\ told = [t \in Token |-> 0]
  /\ policyOwner = [p \in PolicyToken |-> Nobody]
  /\ policyLeft = [p \in PolicyToken |-> 0]
  /\ hw \in Hardware /\ inUse \in BOOLEAN /\ window \in BOOLEAN
  /\ state = hw /\ verified = FALSE /\ failed = FALSE /\ proof = "none"
  /\ idle = 0 /\ up = 0 /\ wake = 0
  /\ op = "none" /\ elapsed = 0 /\ request = NoRequest
  /\ monitor = "wait" /\ monitorWait = MonitorPeriod
  /\ sinceLive = IdleTimeout

Call ==
  \/ \E u \in Uid, ttl \in Ttl :
       \/ AcquireBegins(u, ttl)
       \/ \E t \in Token : AcquireReady(u, t, ttl) \/ Renew(u, t, ttl)
       \/ \E p \in PolicyToken :
            SubscribePolicy(u, p, ttl) \/ RenewPolicy(u, p, ttl)
  \/ \E u \in Uid :
       \/ \E t \in Token : Release(u, t)
       \/ \E p \in PolicyToken : ReleasePolicy(u, p)
  \/ Refused
  \/ Status

Finish ==
  \/ \E t \in Token : AcquireAttached(t)
  \/ AcquireFails
  \/ WakeAttached \/ WakeFails
  \/ DetachDone \/ DetachBusy \/ DetachFindsClient \/ DetachBusyLate \/ DetachFails

Tick == TickWakes \/ TickRests \/ TickObserves \/ TickDetaches \/ TickRaises

Environment ==
  Elapse \/ ScheduleBoundary \/ HardwareChanges \/ ClientOpensOrCloses \/ Restart

Next == Call \/ Finish \/ Tick \/ RecordMonitorFault \/ Environment

Spec == Init /\ [][Next]_vars

-----------------------------------------------------------------------------
TableTypes ==
  /\ leaseOwner \in [Token -> Uid \cup {Nobody}]
  /\ leaseLeft \in [Token -> 0..MaxTtl]
  /\ told \in [Token -> 0..MaxTtl]
  /\ policyOwner \in [PolicyToken -> Uid \cup {Nobody}]
  /\ policyLeft \in [PolicyToken -> 0..MaxTtl]
PowerTypes ==
  /\ hw \in Hardware /\ state \in States /\ proof \in {"none", "good", "stale"}
  /\ op \in Ops /\ monitor \in {"wait", "failed"}
  /\ request \in [uid : Uid \cup {Nobody}, ttl : 0..MaxTtl]
  /\ op = "acquire" => request.uid \in Uid
TimerTypes ==
  /\ idle \in 0..IdleTimeout /\ up \in 0..StartupGuard
  /\ wake \in 0..FailureRetry /\ sinceLive \in 0..IdleTimeout
  /\ elapsed \in 0..MaxOperation
  /\ monitorWait \in 0..(FailureRetry + MonitorPeriod)
FlagTypes == {inUse, window, verified, failed} \subseteq BOOLEAN

\* The type invariant of the whole state.
TypeOK == TableTypes /\ PowerTypes /\ TimerTypes /\ FlagTypes

Detaching == op \in {"detach", "recover"}

\* The device is detached only when the table is empty, the startup guard is
\* over, and no lease has been live for the whole idle timeout: measured from
\* the moment the last lease really ended, by release or by expiry, not from
\* the moment a later call noticed.
DetachOnlyWhenIdle ==
  Detaching => /\ Held = {}
               /\ sinceLive = IdleTimeout
               /\ up = StartupGuard

PromisesCovered == MaxOperation <= IdleTimeout /\ MaxTtl <= StartupGuard

\* What a holder was told outlives what the broker keeps: an expiry computed
\* after a slow ensure_ready is later than the table's, and a broker restart
\* drops the table.  Even so, with an idle timeout no shorter than a backend
\* call and a startup guard no shorter than a lease, the device is never
\* detached before every promised expiry has passed.
DetachAfterPromises ==
  PromisesCovered /\ Detaching => \A t \in Token : told[t] = 0

\* A live lease leaves the table only by its owner's release or by a restart,
\* whatever the schedule, the hardware and the other peers do.
LiveLeaseKept ==
  [][ \/ Restart
      \/ \A t \in Token :
           leaseOwner[t] # Nobody /\ leaseLeft[t] > 0 =>
             leaseOwner'[t] = leaseOwner[t] \/ Release(leaseOwner[t], t)
    ]_vars

\* A lease is granted only over hardware that is ready now and that this
\* process has proven by a run of ensure_ready, not undone by a failure it
\* recorded since.
GrantAfterProof ==
  [][ \A t \in Token : leaseOwner[t] = Nobody /\ leaseOwner'[t] # Nobody =>
        hw' = "ready" /\ proof' # "none" ]_vars

\* README.md:25 of the service: no lease stands on an unproven backend.  The
\* stronger form of GrantAfterProof, in which the recovery of a late busy
\* detach counts too.
GrantBackendProven ==
  [][ \A t \in Token : leaseOwner[t] = Nobody /\ leaseOwner'[t] # Nobody =>
        hw' = "ready" /\ proof' = "good" ]_vars

\* Fairness: time passes, a backend call ends within its timeouts, and the
\* monitor thread keeps running.  That the hardware, tried again and again,
\* at last obeys is an assumption about the device: SF on the two successes.
\* The monitor competes for the lock, hence SF on what it does with it.
Fairness ==
  /\ WF_vars(Elapse)
  /\ WF_vars(Finish)
  /\ SF_vars(RecordMonitorFault)
  /\ SF_vars(TickWakes)
  /\ SF_vars(TickDetaches)
  /\ SF_vars(WakeAttached)
  /\ SF_vars(DetachDone)
FairSpec == Spec /\ Fairness

FewRestarts == <>[][~Restart]_vars
Quiet == UnloadRequested /\ Held = {} /\ ~inUse /\ op # "acquire"
Daytime == Automatic /\ HasSchedule /\ ~window

\* Standby is reached: once unloading stays requested with no lease and no
\* other client of the device, it is detached, whatever policy leases are
\* renewed, calls refused and ticks failed meanwhile.
StandbyReached == (<>[]Quiet /\ FewRestarts) => []<>(hw # "ready")

\* The morning wake is reached: while the window stays closed, the device is
\* made ready and proven again and again, without any lease.
WakeReached == (<>[]Daytime /\ FewRestarts) => []<>(verified /\ hw = "ready")
=============================================================================
