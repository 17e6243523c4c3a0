------------------------------ MODULE LeaseKeeper ------------------------------
(***************************************************************************)
(* A long-running consumer keeps one GPU lease alive:                      *)
(* AcceleratorLeaseKeeper of services/accelerator/.../lease_keeper.py, the *)
(* acquire, renew and release of client.py, and what the broker does with  *)
(* its leases.  DemandLease uses the keeper as a whole; here are its parts *)
(* and the messages between it and the broker.                             *)
(*                                                                         *)
(* The owner starts and closes the keeper, the monitor renews the lease    *)
(* and replaces one the broker no longer knows.  A request may not reach   *)
(* the broker, be refused, or be answered too late or to nobody; an        *)
(* acquire given up by its client may still be granted afterwards.         *)
(*                                                                         *)
(* A stored date is held as the time left until it.  An answer whose       *)
(* schedule wants the model unloaded is one that is valid no longer.       *)
(* Steps between two requests take no time.  No caller in this repository  *)
(* installs the callbacks on_unavailable and on_restored.                  *)
(***************************************************************************)
EXTENDS Integers, FiniteSets

CONSTANTS
  Ttl,      \* ttl_seconds
  Renew,    \* renew_interval_seconds
  Grace,    \* failure_grace_seconds
  Timeout,  \* how long a request may take
  Join,     \* how long close() waits for the monitor
  MaxAge,   \* POLICY_MAX_AGE_SEC
  Token,    \* tokens of leases
  None

ASSUME TimesAssumption ==
  /\ {Ttl, Renew, Grace, Timeout, Join, MaxAge} \subseteq Nat \ {0}
  /\ 2 * Renew <= Ttl /\ Grace <= Ttl      \* AcceleratorLeaseKeeper.__init__
\* The embedding service: 60 s of policy, a ttl of 90 s.
ASSUME MaxAgeAssumption == MaxAge <= Ttl
ASSUME NoneAssumption == None \notin Token

VARIABLES
  left,       \* broker: how long each lease stays in the table
  late,       \* an acquire whose client has gone waits at the broker
  held,       \* _lease: the token, or None
  exp, valid, \* time left of its expires_at_epoch, policy_valid_until_epoch
  healthy,    \* _healthy
  since,      \* time since _last_success
  at,         \* where the thread is that makes the requests
  timer,      \* time left of its wait, or of its request
  mine,       \* its local lease
  reply,      \* the answer under way to it
  owner,      \* where the owner's thread is
  stop,       \* _stop
  joining,    \* time left of close()'s join
  taken       \* the lease close() has taken

brokerVars == <<left, late>>
keeperVars == <<held, exp, valid, healthy, since>>
monitorVars == <<at, timer, mine, reply>>
ownerVars == <<owner, stop, joining, taken>>
vars == <<brokerVars, keeperVars, monitorVars, ownerVars>>

NoReply == [token |-> None, exp |-> 0, valid |-> 0]
Lapse(n) == IF n > 0 THEN n - 1 ELSE 0

\* No success is older than this while the keeper calls itself healthy.
Longest == Grace + Renew + 2 * Timeout

Init ==
  /\ left = [t \in Token |-> 0] /\ late = FALSE
  /\ held = None /\ exp = 0 /\ valid = 0 /\ healthy = FALSE /\ since = 0
  /\ at = "none" /\ timer = 0 /\ mine = None /\ reply = NoReply
  /\ owner = "new" /\ stop = FALSE /\ joining = 0 /\ taken = None

Asking == at \in {"acquire", "renew"}
Answered == at \in {"granted", "renewed"}

\* _monitor looks at _stop before and after its wait.
GoesOnAlways == TRUE
GoesOn == ~stop
Waits == at = "waiting" /\ GoesOn

JoinEnds == owner = "joining" /\ (at = "ended" \/ joining = 0)
Elapse ==
  /\ ~JoinEnds
  /\ at \in {"none", "ended"} \/ ((Waits \/ Asking \/ Answered) /\ timer > 0)
  /\ left' = [t \in Token |-> Lapse(left[t])]
  /\ exp' = Lapse(exp) /\ valid' = Lapse(valid)
  /\ reply' = [reply EXCEPT !.exp = Lapse(@), !.valid = Lapse(@)]
  /\ since' = IF since < Longest THEN since + 1 ELSE since
  /\ timer' = Lapse(timer) /\ joining' = Lapse(joining)
  /\ UNCHANGED <<late, held, healthy, at, mine, owner, stop, taken>>

-----------------------------------------------------------------------------
\* start() asks for the first lease in the owner's thread.
Start ==
  /\ owner = "new" /\ at = "none"
  /\ at' = "acquire" /\ timer' = Timeout
  /\ UNCHANGED <<brokerVars, keeperVars, mine, reply, ownerVars>>

\* _monitor: the wait is over.  _maintain_once takes the lease and renews it.
Wake ==
  /\ Waits /\ timer = 0
  /\ mine' = held
  /\ IF held = None THEN at' = "failed" /\ timer' = 0
                    ELSE at' = "renew" /\ timer' = Timeout
  /\ UNCHANGED <<brokerVars, keeperVars, reply, ownerVars>>

\* The broker grants, or renews, or does not find the lease.  Tokens that are
\* all in use stand for its limit of leases: the acquire is refused then.
\* acquire reads the clock for its table before the hardware is made ready,
\* and the clock for the expiry it tells afterwards.
Answer(token, v) == [token |-> token, exp |-> Ttl, valid |-> v]
TimeLeft(spent) == IF spent < Ttl THEN Ttl - spent ELSE 0
Unused == {t \in Token : left[t] = 0 /\ t \notin {held, mine, reply.token, taken}}

Grant ==
  /\ at = "acquire"
  /\ \E t \in Unused, v \in 0..MaxAge, spent \in 0..Timeout-timer :
       left' = [left EXCEPT ![t] = TimeLeft(spent)] /\ reply' = Answer(t, v)
  /\ at' = "granted"
  /\ UNCHANGED <<late, keeperVars, timer, mine, ownerVars>>

RenewLease ==
  /\ at = "renew"
  /\ \/ /\ left[mine] > 0
        /\ left' = [left EXCEPT ![mine] = Ttl]
        /\ \E v \in 0..MaxAge : reply' = Answer(mine, v)
        /\ at' = "renewed"
     \/ /\ left[mine] = 0
        /\ at' = "notfound" /\ UNCHANGED <<left, reply>>
  /\ UNCHANGED <<late, keeperVars, timer, mine, ownerVars>>

LateGrant ==
  /\ late
  /\ \E t \in Unused, n \in 0..Ttl : left' = [left EXCEPT ![t] = n]
  /\ late' = FALSE
  /\ UNCHANGED <<keeperVars, monitorVars, ownerVars>>

BrokerRestarts ==
  /\ late \/ \E t \in Token : left[t] > 0
  /\ left' = [t \in Token |-> 0] /\ late' = FALSE
  /\ UNCHANGED <<keeperVars, monitorVars, ownerVars>>

\* No good answer: not reached, refused, lost, too late, not ready, expired.
\* Without a first lease start() raises and the keeper is not used.
RequestFails ==
  /\ Asking \/ Answered
  /\ late' \in {late} \cup (IF at = "acquire" THEN {TRUE} ELSE {})
  /\ reply' = NoReply
  /\ IF owner = "new" THEN at' = "ended" /\ timer' = 0 /\ owner' = "closed"
                      ELSE at' = "failed" /\ UNCHANGED <<timer, owner>>
  /\ UNCHANGED <<left, keeperVars, mine, stop, joining, taken>>

-----------------------------------------------------------------------------
\* _maintain_once with its answer.
WaitAgain == at' = "waiting" /\ timer' = Renew /\ mine' = None /\ reply' = NoReply

SetHealthy == healthy' = TRUE /\ since' = 0

\* _set_unavailable
StaysHealthyAlways == healthy
StaysHealthy == healthy /\ since < Grace

Fail ==
  /\ at = "failed"
  /\ healthy' = StaysHealthy /\ WaitAgain
  /\ UNCHANGED <<brokerVars, held, exp, valid, since, ownerVars>>

NotFoundGivesUp == at = "notfound" /\ at' = "failed" /\ timer' = 0
NotFound == at = "notfound" /\ at' = "acquire" /\ timer' = Timeout
Replace ==
  /\ NotFound
  /\ UNCHANGED <<brokerVars, keeperVars, mine, reply, ownerVars>>

\* The first lease, or a replacement: stored whatever happened meanwhile.
Store ==
  /\ at = "granted" /\ reply.exp > 0
  /\ held' = reply.token /\ exp' = reply.exp /\ valid' = reply.valid
  /\ SetHealthy /\ WaitAgain
  /\ owner' = IF owner = "new" THEN "open" ELSE owner
  /\ UNCHANGED <<brokerVars, stop, joining, taken>>

\* renew() writes to the lease object; then the lock is taken.
WriteAnswer ==
  /\ at = "renewed" /\ reply.exp > 0
  /\ IF held = mine THEN exp' = reply.exp /\ valid' = reply.valid
                    ELSE UNCHANGED <<exp, valid>>
  /\ at' = "written"
  /\ UNCHANGED <<brokerVars, held, healthy, since, timer, mine, reply, ownerVars>>

Succeed ==
  /\ at = "written"
  /\ SetHealthy /\ WaitAgain
  /\ UNCHANGED <<brokerVars, held, exp, valid, ownerVars>>

MonitorEnds ==
  /\ at = "waiting" /\ ~GoesOn
  /\ at' = "ended" /\ timer' = 0
  /\ UNCHANGED <<brokerVars, keeperVars, mine, reply, ownerVars>>

-----------------------------------------------------------------------------
\* close: stop, wait for the monitor, take the lease, give it back.
CloseBegins ==
  /\ owner = "open"
  /\ owner' = "joining" /\ stop' = TRUE /\ joining' = Join
  /\ UNCHANGED <<brokerVars, keeperVars, monitorVars, taken>>

CloseTakesLease ==
  /\ JoinEnds
  /\ held' = None /\ exp' = 0 /\ valid' = 0 /\ healthy' = FALSE /\ taken' = held
  /\ owner' = "releasing"
  /\ UNCHANGED <<brokerVars, since, monitorVars, stop, joining>>

Release ==
  /\ owner = "releasing"
  /\ \/ left' = [left EXCEPT ![taken] = 0]
     \/ UNCHANGED left
  /\ owner' = "closed" /\ taken' = None
  /\ UNCHANGED <<late, keeperVars, monitorVars, stop, joining>>

-----------------------------------------------------------------------------
Broker == Grant \/ RenewLease \/ LateGrant
Monitor == Wake \/ Fail \/ Replace \/ Store \/ WriteAnswer \/ Succeed \/ MonitorEnds
Close == CloseTakesLease \/ Release
Fault == BrokerRestarts \/ RequestFails
Next == Elapse \/ Start \/ Broker \/ Monitor \/ CloseBegins \/ Close \/ Fault

Spec == Init /\ [][Next]_vars

\* Time passes; the broker answers what reaches it, or the request times out;
\* both threads go on.
FairSpec ==
  /\ Spec /\ WF_vars(Elapse) /\ WF_vars(Monitor) /\ WF_vars(Close)
  /\ WF_vars(Grant \/ RenewLease) /\ WF_vars(timer = 0 /\ RequestFails)

-----------------------------------------------------------------------------
\* unload_requested() is False: the consumer may keep its model loaded.
StaysWithoutDate == healthy /\ held # None /\ since <= 2 * Renew
MayStay == healthy /\ held # None /\ since <= 2 * Renew /\ valid > 0

\* While the keeper lets the model stay, the expiry it was told is ahead, even
\* if renewals fail, are late or their answers are lost, or the broker has
\* restarted: the manager detaches nothing before that expiry
\* (AcceleratorManager, DetachAfterPromises).
KeptUnderPromise == MayStay => exp > 0

\* An open keeper that calls itself healthy has succeeded not longer ago than the
\* grace, one interval and the two requests of one attempt: a broker that is
\* gone, or that restarted and refuses, is noticed in bounded time.
HealthyMeansRecent == owner = "open" /\ healthy => since < Longest

\* Once faults cease, an open keeper is healthy for good: also after a restart
\* of the broker it gets a new lease by itself.
HealthyAgain ==
  (<>[](owner = "open") /\ <>[][~Fault]_vars) => <>[]healthy

\* Whatever is lost, late or granted to nobody, a closed keeper or one that
\* never started leaves no lease at the broker in the end.
LeaseRunsOut == <>(owner = "closed") => <>[](\A t \in Token : left[t] = 0)
=============================================================================
