--------------------------- MODULE LeaseSupervisor ---------------------------
(***************************************************************************)
(* The lease runner: LeaseSupervisor.run of services/accelerator/.../      *)
(* runner.py, the lease of client.py it renews, and the worker process     *)
(* group it starts and stops.  The broker is the environment: it may       *)
(* answer, answer late, lose an answer, or forget the lease.               *)
(*                                                                         *)
(* Time is counted down.  It passes only where the code blocks: in a       *)
(* request (at most RequestTimeout), in the wait of the loop               *)
(* (PollInterval) and while the worker is given time to exit               *)
(* (ShutdownTimeout); the steps in between take none.                      *)
(***************************************************************************)
EXTENDS Naturals

CONSTANTS
  Ttl,              \* ttl_seconds
  RenewInterval,    \* renew_interval_seconds
  FailureGrace,     \* renewal_failure_grace_seconds
  RetryDelay,       \* min(1.0, renew_interval / 4)
  RequestTimeout,   \* broker_timeout_seconds
  PollInterval,     \* poll_interval_seconds
  ShutdownTimeout   \* shutdown_timeout_seconds

\* The ranges of RunnerConfig.validate and its safety window, which leaves
\* out the retry, the waits of the loop, the age of the answer and the
\* shutdown.
ASSUME RangeAssumption ==
  /\ Ttl \in Nat \ {0} /\ RenewInterval \in Nat \ {0}
  /\ FailureGrace \in Nat \ {0} /\ RetryDelay \in Nat
  /\ RequestTimeout \in Nat \ {0} /\ PollInterval \in Nat \ {0}
  /\ ShutdownTimeout \in Nat \ {0}
Validated ==
  /\ 2 * RenewInterval <= Ttl /\ 2 * FailureGrace <= Ttl
  /\ RenewInterval + FailureGrace + RequestTimeout < Ttl
ASSUME ValidAssumption == Validated

VARIABLES
  pc,           \* where run() is
  waited,       \* time since it blocked there
  leader,       \* the worker process
  children,     \* the rest of its process group is running
  mine,         \* lease.expires_at_epoch - now, as the runner knows it
  untilRenew,   \* next_renew - now, 0 when due
  failing,      \* renewal_failure_started is set
  failAge,      \* now - renewal_failure_started, up to FailureGrace
  stop,         \* request_stop was called
  promise,      \* the broker's expiry: epoch of the last grant + ttl
  known,        \* the broker has the lease in its table
  answer,       \* what the broker answered the request in progress
  sinceGood     \* auxiliary: time since the last good answer

brokerVars == <<promise, known>>
workerVars == <<leader, children>>
renewVars  == <<untilRenew, failing, failAge>>
runnerVars == <<pc, waited, workerVars, mine, renewVars, stop, brokerVars, answer,
          sinceGood>>

Blocked == {"acquiring", "wait", "renewing", "term", "kill"}
Answers == {"none", "ready", "refused"}
BlockedFor(place) ==
  CASE place \in {"acquiring", "renewing"} -> RequestTimeout
    [] place = "wait" -> PollInterval
    [] OTHER -> ShutdownTimeout

Down(n) == IF n = 0 THEN 0 ELSE n - 1
Upto(n, cap) == IF n < cap THEN n ELSE cap
GoToOnOldClock(place) == pc' = place /\ UNCHANGED waited
GoTo(place) == pc' = place /\ waited' = 0

RunnerInit ==
  /\ pc = "acquiring" /\ waited = 0
  /\ leader = "none" /\ children = FALSE
  /\ mine = 0 /\ untilRenew = 0 /\ failing = FALSE /\ failAge = 0
  /\ stop = FALSE /\ promise = 0 /\ known = FALSE /\ answer = "none"
  /\ sinceGood = 0

-----------------------------------------------------------------------------
\* The broker takes the request in progress: acquire grants, renew extends
\* what it still knows.  A renewed lease may be answered "not ready".
BrokerAnswers ==
  /\ pc \in {"acquiring", "renewing"} /\ answer = "none"
  /\ \/ /\ pc = "acquiring" \/ known
        /\ promise' = Ttl /\ known' = TRUE
        /\ answer' \in {"ready", "refused"}
     \/ answer' = "refused" /\ UNCHANGED brokerVars
  /\ UNCHANGED <<pc, waited, workerVars, mine, renewVars, stop, sinceGood>>

\* It restarts, or its own expiry is earlier than the one it promised.
BrokerForgets ==
  /\ known
  /\ known' = FALSE
  /\ UNCHANGED <<pc, waited, workerVars, mine, renewVars, stop, promise, answer,
                 sinceGood>>

-----------------------------------------------------------------------------
\* acquire returns; a window too short to renew in is given back.
TooShort == mine' <= RenewInterval
Acquired ==
  /\ pc = "acquiring" /\ answer = "ready"
  /\ mine' = promise /\ answer' = "none"
  /\ IF TooShort
     THEN GoTo("release") /\ UNCHANGED <<workerVars, untilRenew>>
     ELSE \/ /\ leader' = "running" /\ children' \in BOOLEAN
             /\ untilRenew' = RenewInterval
             /\ GoTo("check")
          \/ \* Popen raises
             GoTo("release") /\ UNCHANGED <<workerVars, untilRenew>>
  /\ sinceGood' = 0
  /\ UNCHANGED <<failing, failAge, stop, brokerVars>>

AcquireFails ==
  /\ pc = "acquiring" /\ answer # "ready"
  /\ GoTo("done")
  /\ UNCHANGED <<workerVars, mine, renewVars, stop, brokerVars, answer,
                 sinceGood>>

-----------------------------------------------------------------------------
\* One turn of the loop, in the order of the code: the worker has exited, a
\* stop was requested, a renewal is due, and otherwise wait.
CheckExited ==
  /\ pc = "check" /\ leader = "exited"
  /\ GoTo("release")
  /\ UNCHANGED <<workerVars, mine, renewVars, stop, brokerVars, answer,
                 sinceGood>>

CheckStop ==
  /\ pc = "check" /\ leader = "running" /\ stop
  /\ GoTo("term")
  /\ UNCHANGED <<workerVars, mine, renewVars, stop, brokerVars, answer,
                 sinceGood>>

CheckRenew ==
  /\ pc = "check" /\ leader = "running" /\ ~stop /\ untilRenew = 0
  /\ GoTo("renewing")
  /\ UNCHANGED <<workerVars, mine, renewVars, stop, brokerVars, answer,
                 sinceGood>>

CheckWait ==
  /\ pc = "check" /\ leader = "running" /\ ~stop /\ untilRenew > 0
  /\ GoTo("wait")
  /\ UNCHANGED <<workerVars, mine, renewVars, stop, brokerVars, answer,
                 sinceGood>>

WaitEnds ==
  /\ pc = "wait" /\ waited = PollInterval
  /\ GoTo("check")
  /\ UNCHANGED <<workerVars, mine, renewVars, stop, brokerVars, answer,
                 sinceGood>>

RenewedStillFailing ==
  /\ pc = "renewing" /\ answer = "ready"
  /\ mine' = promise /\ ~TooShort
  /\ untilRenew' = RenewInterval /\ sinceGood' = 0
  /\ answer' = "none" /\ GoTo("wait")
  /\ UNCHANGED <<workerVars, failing, failAge, stop, brokerVars>>

Renewed ==
  /\ pc = "renewing" /\ answer = "ready"
  /\ mine' = promise /\ ~TooShort
  /\ failing' = FALSE /\ failAge' = 0 /\ untilRenew' = RenewInterval
  /\ answer' = "none" /\ sinceGood' = 0 /\ GoTo("wait")
  /\ UNCHANGED <<workerVars, stop, brokerVars>>

\* A renewal fails: refused, lost, not ready, too short.  The grace runs from
\* the start of the first failed one; the lease record is the last good one.
AgeOfThisFailure == Upto(waited, FailureGrace)
AgeOfFailure == IF failing THEN failAge ELSE Upto(waited, FailureGrace)
GiveUp == AgeOfFailure = FailureGrace \/ mine' = 0

RenewFails ==
  /\ pc = "renewing"
  /\ \/ answer # "ready" /\ UNCHANGED mine
     \/ answer = "ready" /\ mine' = promise /\ TooShort
  /\ failing' = TRUE /\ failAge' = AgeOfFailure
  /\ IF GiveUp
     THEN GoTo("term") /\ UNCHANGED untilRenew
     ELSE GoTo("wait") /\ untilRenew' = RetryDelay
  /\ answer' = "none"
  /\ UNCHANGED <<workerVars, stop, brokerVars, sinceGood>>

-----------------------------------------------------------------------------
\* _stop_worker: SIGTERM to the group, then SIGKILL to the group if the
\* leader has not exited in time, then one more wait for the leader.
TermEnds ==
  /\ pc = "term" /\ leader = "exited"
  /\ GoTo("release")
  /\ UNCHANGED <<workerVars, mine, renewVars, stop, brokerVars, answer,
                 sinceGood>>

TermGivesUp ==
  /\ pc = "term" /\ leader = "running" /\ waited = ShutdownTimeout
  /\ GoTo("release")
  /\ UNCHANGED <<workerVars, mine, renewVars, stop, brokerVars, answer,
                 sinceGood>>

\* SIGKILL stops every process of the group; a leader in an uninterruptible
\* call is stuck there and has not been reaped.
TermTimesOut ==
  /\ pc = "term" /\ leader = "running" /\ waited = ShutdownTimeout
  /\ leader' \in {"exited", "stuck"} /\ children' = FALSE
  /\ GoTo("kill")
  /\ UNCHANGED <<mine, renewVars, stop, brokerVars, answer, sinceGood>>

KillEnds ==
  /\ pc = "kill"
  /\ leader = "exited" \/ waited = ShutdownTimeout
  /\ GoTo("release")
  /\ UNCHANGED <<workerVars, mine, renewVars, stop, brokerVars, answer,
                 sinceGood>>

\* The finally block: the lease is given back only after the worker.  The
\* release may be lost.
WorkerStopped == leader \in {"none", "exited"}
ReleaseLease ==
  /\ pc = "release"
  /\ \/ WorkerStopped /\ promise' = 0 /\ known' = FALSE
     \/ UNCHANGED brokerVars
  /\ GoTo("done")
  /\ UNCHANGED <<workerVars, mine, renewVars, stop, answer, sinceGood>>

-----------------------------------------------------------------------------
\* The worker, the operator and time.
LeaderExits ==
  /\ leader \in {"running", "stuck"}
  /\ leader' = "exited"
  /\ UNCHANGED <<pc, waited, children, mine, renewVars, stop, brokerVars, answer,
                 sinceGood>>

ChildrenExit ==
  /\ children
  /\ children' = FALSE
  /\ UNCHANGED <<pc, waited, leader, mine, renewVars, stop, brokerVars, answer,
                 sinceGood>>

RequestStop ==
  /\ ~stop /\ pc # "done"
  /\ stop' = TRUE
  /\ UNCHANGED <<pc, waited, workerVars, mine, renewVars, brokerVars, answer, sinceGood>>

\* The broker's promise runs on after the runner is done.
Tick ==
  /\ \/ pc \in Blocked /\ waited < BlockedFor(pc) /\ waited' = waited + 1
     \/ pc = "done" /\ promise > 0 /\ waited' = 0
  /\ mine' = Down(mine) /\ promise' = Down(promise)
  /\ untilRenew' = Down(untilRenew)
  /\ failAge' = IF failing THEN Upto(failAge + 1, FailureGrace) ELSE 0
  /\ sinceGood' = Upto(sinceGood + 1, RenewInterval + FailureGrace)
  /\ UNCHANGED <<pc, workerVars, failing, stop, known, answer>>

Idle == pc = "done" /\ UNCHANGED runnerVars

Runner ==
  \/ Acquired \/ AcquireFails
  \/ CheckExited \/ CheckStop \/ CheckRenew \/ CheckWait \/ WaitEnds
  \/ Renewed \/ RenewFails
  \/ TermEnds \/ TermTimesOut \/ KillEnds \/ ReleaseLease

RunnerNext ==
  \/ Runner \/ Tick
  \/ BrokerAnswers \/ BrokerForgets
  \/ LeaderExits \/ ChildrenExit \/ RequestStop
  \/ Idle

RunnerSpec == RunnerInit /\ [][RunnerNext]_runnerVars
\* Time passes while the runner blocks, and the runner takes its next step.
RunnerFairSpec == RunnerSpec /\ WF_runnerVars(Tick) /\ WF_runnerVars(Runner)

-----------------------------------------------------------------------------
PlaceTypes ==
  /\ pc \in Blocked \cup {"check", "release", "done"}
  /\ waited \in Nat
  /\ pc \in Blocked => waited <= BlockedFor(pc)
  /\ leader \in {"none", "running", "stuck", "exited"} /\ answer \in Answers
TimeTypes ==
  /\ mine \in 0..Ttl /\ promise \in 0..Ttl
  /\ untilRenew \in Nat /\ failAge \in 0..FailureGrace
  /\ sinceGood \in 0..(RenewInterval + FailureGrace)
FlagTypes == {children, failing, stop, known} \subseteq BOOLEAN

\* The type of every variable; run() never blocks in one place longer than the
\* timeout it passes there.
RunnerTypeOK == PlaceTypes /\ TimeTypes /\ FlagTypes

\* The longest the worker can run on after the broker promised an expiry: the
\* answer's way back, a renewal interval, one turn of the loop, the grace, one
\* more retry that hangs, and the shutdown.
LongestUnproven ==
  RequestTimeout + RenewInterval + PollInterval
  + FailureGrace + RetryDelay + PollInterval + RequestTimeout + ShutdownTimeout
Safe == LongestUnproven < Ttl

\* services/accelerator/README.md:34: the worker is killed before an unproven
\* lease can expire.  What validate() accepts is not enough for it.
WorkerWithinLease == leader = "running" => promise > 0

\* The same, for the configurations whose ttl covers the longest chain.
WorkerWithinLeaseIfSafe == Safe => WorkerWithinLease

\* A worker is not ended for a blip: after every good answer it has a renewal
\* interval and the whole grace, unless its lease expires first.
WorkerGetsItsGrace ==
  [][ pc = "renewing" /\ pc' = "term" =>
        sinceGood = RenewInterval + FailureGrace \/ mine' = 0 ]_runnerVars

\* A worker that should stop does: on request, or because the broker has lost
\* the lease, even when every request hangs and SIGTERM is ignored.
WorkerEnds == (stop \/ ~known) /\ leader = "running" ~> leader # "running"
=============================================================================
