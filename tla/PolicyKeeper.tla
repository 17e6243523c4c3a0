----------------------------- MODULE PolicyKeeper -----------------------------
(***************************************************************************)
(* A service that has no GPU lease keeps a policy lease instead and asks   *)
(* it whether the standby schedule wants the model unloaded:               *)
(* AcceleratorPolicyKeeper of services/accelerator/.../policy_keeper.py,   *)
(* AcceleratorPolicyLease of client.py, and the schedule, _policy_locked   *)
(* and the three policy calls of broker.py.                                *)
(*                                                                         *)
(* Two threads share the lease object: the monitor, which renews it, and   *)
(* the owner, which reads it and closes the keeper.  renew() writes the    *)
(* three fields of the answer one after the other and without the lock     *)
(* the reader takes, so a read may see a half-written answer.              *)
(*                                                                         *)
(* At the broker every request has a thread of its own, which waits for    *)
(* the manager's lock while another request or the tick makes the hardware *)
(* ready.  A request whose client has given up is still carried out then,  *)
(* to nobody: these requests are in late, apart from the one the monitor   *)
(* waits for.                                                              *)
(*                                                                         *)
(* The clock goes round a day of DayMinutes minutes of MinuteSec seconds.  *)
(* A stored date (expires_at_epoch, policy_valid_until_epoch) is held as   *)
(* the time left until it, in memory as in a message under way.  Changes   *)
(* of the schedule or of daylight saving time and jumps of the clock are   *)
(* left out; the shortest wait (0.25 s) is no time.  Join may be shorter   *)
(* than a request, which has several phases of Timeout each in the code.   *)
(***************************************************************************)
EXTENDS Integers, FiniteSets, FiniteSetsExt

CONSTANTS
  DayMinutes,  \* minutes of a day
  MinuteSec,   \* seconds of a minute
  Start, End,  \* the minutes at which a window may start and end
  MaxAge,      \* POLICY_MAX_AGE_SEC
  Ttl,         \* ttl_seconds of the keeper
  Renew,       \* renew_interval_seconds
  Timeout,     \* how long a request may take
  Lag,         \* how long the broker may still keep it after that
  Join,        \* how long close() waits for the monitor
  Token,       \* tokens of policy leases
  None

Day == DayMinutes * MinuteSec

ASSUME TimesAssumption ==
  /\ {DayMinutes, MinuteSec, MaxAge, Ttl, Renew, Timeout, Join} \subseteq Nat \ {0}
  /\ MaxAge <= MinuteSec       \* a window lasts a minute at least
  /\ 2 * Renew <= Ttl          \* AcceleratorPolicyKeeper.__init__
ASSUME LagAssumption == Lag \in Nat
ASSUME WindowAssumption == Start \cup End \subseteq 0..DayMinutes-1
ASSUME NoneAssumption == None \notin Token

VARIABLES
  now,       \* the time of day, the same clock for broker and keeper
  schedule,  \* automatic_power_management and standby_schedule
  left,      \* broker: how long each policy lease stays in the table
  late,      \* broker: the requests whose client has gone
  held,      \* _lease: the token, or None
  obj,       \* the fields of the lease object
  mine,      \* the monitor's local lease
  reply,     \* the answer under way to the monitor; NoLease: not found
  wrote,     \* how many fields of the answer renew() has written
  monitor,   \* where the monitor is
  timer,     \* time left of its wait, or of its request
  owner,     \* where the owner's thread is
  stop,      \* _stop
  joining,   \* time left of close()'s join
  taken,     \* the lease close() has taken
  seen       \* auxiliary: what the schedule wanted during the current read

brokerVars == <<left, late>>
keeperVars == <<held, obj>>
monitorVars == <<mine, reply, wrote, monitor, timer>>
ownerVars == <<owner, stop, joining, taken, seen>>
vars == <<now, schedule, brokerVars, keeperVars, monitorVars, ownerVars>>

\* Off: no automatic power management; Always: no schedule; or a window.
Off == [kind |-> "off"]
Always == [kind |-> "always"]
Windows == [kind : {"daily"}, start : Start, end : End]
Schedules == {Off, Always} \cup {w \in Windows : w.start # w.end}

\* StandbySchedule.requested
Requested(w, epoch) ==
  LET minute == (epoch % Day) \div MinuteSec
  IN IF w.start < w.end THEN w.start <= minute /\ minute < w.end
                        ELSE w.start <= minute \/ minute < w.end

Wanted(epoch) ==
  CASE schedule.kind = "off" -> FALSE
    [] schedule.kind = "always" -> TRUE
    [] OTHER -> Requested(schedule, epoch)

\* _policy_locked: how long an answer given now is valid, by halving.
Changed(d) == Wanted(now + d) # Wanted(now)
Halving == (0..MaxAge) \X (0..MaxAge)
FirstChange ==
  LET f[r \in Halving] ==  \* from r[1], before the change, to r[2], after it
        LET middle == (r[1] + r[2]) \div 2
        IN IF r[2] - r[1] <= 1 THEN r[2]
           ELSE f[IF Changed(middle) THEN <<r[1], middle>> ELSE <<middle, r[2]>>]
  IN f[<<0, MaxAge>>]
ValidForMaxAge == MaxAge
ValidFor == IF Changed(MaxAge) THEN FirstChange ELSE MaxAge

Lapse(n) == IF n > 0 THEN n - 1 ELSE 0
LapseOf(r) == [r EXCEPT !.exp = Lapse(@), !.valid = Lapse(@)]
NoLease == [token |-> None, exp |-> 0, valid |-> 0, unload |-> FALSE]

Init ==
  /\ now \in 0..Day-1 /\ schedule \in Schedules
  /\ left = [t \in Token |-> 0] /\ late = {}
  /\ held = None /\ obj = NoLease
  /\ mine = None /\ reply = NoLease /\ wrote = 0 /\ monitor = "waiting" /\ timer = 0
  /\ owner = "idle" /\ stop = FALSE /\ joining = 0 /\ taken = None /\ seen = {}

\* A request ends within its timeout, at the broker within Lag more; what
\* follows it takes no longer.
Refreshing == {"asked", "answered"}
Elapse ==
  /\ monitor \in Refreshing => timer > 0
  /\ \A r \in late : r.wait > 0
  /\ now' = (now + 1) % Day
  /\ left' = [t \in Token |-> Lapse(left[t])]
  /\ late' = {[r EXCEPT !.wait = @ - 1] : r \in late}
  /\ obj' = LapseOf(obj) /\ reply' = LapseOf(reply)
  /\ timer' = Lapse(timer) /\ joining' = Lapse(joining)
  /\ seen' = IF owner = "checked" THEN seen \cup {Wanted(now')} ELSE {}
  /\ UNCHANGED <<schedule, held, mine, wrote, monitor, owner, stop, taken>>

-----------------------------------------------------------------------------
\* The end of _refresh: its locals are gone.
RefreshReturns ==
  monitor' = "done" /\ mine' = None /\ reply' = NoLease /\ wrote' = 0 /\ timer' = 0

\* _monitor looks at _stop before and after its wait.
GoesOnAlways == TRUE
GoesOn == ~stop

\* The owner's thread may hold the lock between two of its steps.
LockFree == owner # "checked"

\* _monitor: the wait is over and _refresh begins; start() calls it first.
Ask ==
  /\ monitor = "waiting" /\ timer = 0 /\ GoesOn /\ LockFree
  /\ mine' = held /\ wrote' = 0 /\ monitor' = "asked" /\ timer' = Timeout
  /\ UNCHANGED <<now, schedule, brokerVars, keeperVars, reply, ownerVars>>

\* subscribe_policy and renew_policy at the broker.  A token is new when it
\* is in use nowhere, and which one it is makes no difference.
Answer(token) == [token |-> token, exp |-> Ttl, valid |-> ValidFor, unload |-> Wanted(now)]
InUse == {held, mine, obj.token, reply.token, taken} \cup {r.token : r \in late}
Unused == {t \in Token \ InUse : left[t] = 0}
New == IF Unused = {} THEN {} ELSE {CHOOSE t \in Unused : TRUE}

Subscribe ==
  /\ monitor = "asked" /\ mine = None
  /\ \E t \in New : left' = [left EXCEPT ![t] = Ttl] /\ reply' = Answer(t)
  /\ monitor' = "answered"
  /\ UNCHANGED <<now, schedule, late, keeperVars, mine, wrote, timer, ownerVars>>

RenewPolicy ==
  /\ monitor = "asked" /\ mine # None
  /\ IF left[mine] > 0
       THEN left' = [left EXCEPT ![mine] = Ttl] /\ reply' = Answer(mine)
       ELSE reply' = NoLease /\ UNCHANGED left
  /\ monitor' = "answered"
  /\ UNCHANGED <<now, schedule, late, keeperVars, mine, wrote, timer, ownerVars>>

\* The broker gets to a request whose client has gone, in any order, and may
\* refuse to subscribe.
GivenUp(call, token) == [call |-> call, token |-> token, wait |-> Lag]

LateAnswer ==
  /\ \E r \in late :
       /\ late' = late \ {r}
       /\ \/ r.call = "subscribe" /\ \E t \in New : left' = [left EXCEPT ![t] = Ttl]
          \/ r.call = "subscribe" /\ UNCHANGED left
          \/ r.call = "renew" /\ left[r.token] > 0 /\ left' = [left EXCEPT ![r.token] = Ttl]
          \/ r.call = "renew" /\ left[r.token] = 0 /\ UNCHANGED left
          \/ r.call = "release" /\ left' = [left EXCEPT ![r.token] = 0]
  /\ UNCHANGED <<now, schedule, keeperVars, monitorVars, ownerVars>>

\* A restarted broker knows no lease; a request it has not yet taken from its
\* socket, which systemd keeps open, is still there.
BrokerRestarts ==
  /\ late' \in SUBSET late
  /\ late' # late \/ \E t \in Token : left[t] > 0
  /\ left' = [t \in Token |-> 0]
  /\ UNCHANGED <<now, schedule, keeperVars, monitorVars, ownerVars>>

Found == monitor = "answered" /\ reply # NoLease

\* No good answer: the broker is not reached or refuses (consumers of the same
\* user share MAX_LEASES_PER_UID), its reply is lost, too late or already
\* expired, or the request still waits at the broker when its time is up.
\* (To lose a "not found" is the same as not to reach the broker.)
RequestFails ==
  /\ \/ (monitor = "asked" \/ Found) /\ UNCHANGED late
     \/ /\ monitor = "asked" /\ timer = 0
        /\ late' = late \cup {GivenUp(IF mine = None THEN "subscribe" ELSE "renew", mine)}
  /\ wrote = 0 /\ RefreshReturns
  /\ UNCHANGED <<now, schedule, left, keeperVars, ownerVars>>

-----------------------------------------------------------------------------
\* _refresh with its answer.
NotFoundKept ==
  /\ monitor = "answered" /\ reply = NoLease /\ LockFree
  /\ RefreshReturns
  /\ UNCHANGED <<now, schedule, brokerVars, keeperVars, ownerVars>>
NotFound ==
  /\ monitor = "answered" /\ reply = NoLease /\ LockFree
  /\ held' = None /\ obj' = NoLease /\ RefreshReturns
  /\ UNCHANGED <<now, schedule, brokerVars, ownerVars>>

\* AcceleratorPolicyLease.renew writes one field after the other.
FieldsDateFirst == <<"exp", "valid", "unload">>
Fields == <<"exp", "unload", "valid">>

WriteField ==
  /\ Found /\ mine # None /\ wrote < 3
  /\ wrote = 0 => reply.exp > 0
  /\ obj' = [obj EXCEPT ![Fields[wrote + 1]] = reply[Fields[wrote + 1]]]
  /\ wrote' = wrote + 1
  /\ UNCHANGED <<now, schedule, brokerVars, held, mine, reply, monitor, timer, ownerVars>>

\* The replacement becomes the keeper's lease, whatever happened meanwhile.
Store ==
  /\ Found /\ LockFree
  /\ \/ wrote = 3 /\ UNCHANGED obj
     \/ mine = None /\ reply.exp > 0 /\ obj' = reply
  /\ held' = reply.token /\ RefreshReturns
  /\ UNCHANGED <<now, schedule, brokerVars, ownerVars>>

\* _monitor again: how long to wait, or the end.
DelayFree == IF held = None THEN 0 ELSE Min({Renew, Lapse(obj.valid)})
Delay == IF held = None THEN Renew ELSE Min({Renew, Lapse(obj.valid)})

Rest ==
  /\ monitor = "done" /\ LockFree /\ GoesOn
  /\ monitor' = "waiting" /\ timer' = Delay
  /\ UNCHANGED <<now, schedule, brokerVars, keeperVars, mine, reply, wrote, ownerVars>>

MonitorEnds ==
  /\ monitor \in {"waiting", "done"} /\ ~GoesOn
  /\ monitor' = "ended" /\ timer' = 0
  /\ UNCHANGED <<now, schedule, brokerVars, keeperVars, mine, reply, wrote, ownerVars>>

-----------------------------------------------------------------------------
\* unload_requested: the lease and its dates are looked at, then the wish is
\* read; None is answered at once.  The dates count as one look.
Known == held # None /\ obj.exp > 0 /\ obj.valid > 0

Look ==
  /\ owner = "idle" /\ Known
  /\ owner' = "checked" /\ seen' = {Wanted(now)}
  /\ UNCHANGED <<now, schedule, brokerVars, keeperVars, monitorVars, stop, joining, taken>>

ReadWish ==
  /\ owner = "checked"
  /\ owner' = "idle" /\ seen' = {}
  /\ UNCHANGED <<now, schedule, brokerVars, keeperVars, monitorVars, stop, joining, taken>>

\* close: stop, wait for the monitor, take the lease, give it back.
CloseBegins ==
  /\ owner = "idle"
  /\ owner' = "joining" /\ stop' = TRUE /\ joining' = Join
  /\ UNCHANGED <<now, schedule, brokerVars, keeperVars, monitorVars, taken, seen>>

CloseTakesLease ==
  /\ owner = "joining" /\ (monitor = "ended" \/ joining = 0)
  /\ held' = None /\ taken' = held
  /\ obj' = IF mine = None THEN NoLease ELSE obj
  /\ owner' = IF held = None THEN "closed" ELSE "releasing"
  /\ UNCHANGED <<now, schedule, brokerVars, monitorVars, stop, joining, seen>>

\* release_policy, which may not be reached, not find the lease, or be carried
\* out after close() has given up on it.
ReleasePolicy ==
  /\ owner = "releasing"
  /\ \/ left' = [left EXCEPT ![taken] = 0] /\ UNCHANGED late
     \/ late' = late \cup {GivenUp("release", taken)} /\ UNCHANGED left
     \/ UNCHANGED brokerVars
  /\ owner' = "closed" /\ taken' = None
  /\ UNCHANGED <<now, schedule, keeperVars, monitorVars, stop, joining, seen>>

-----------------------------------------------------------------------------
Broker == Subscribe \/ RenewPolicy \/ LateAnswer
Refresh == NotFound \/ WriteField
             \/ Store \/ Rest \/ MonitorEnds
Close == CloseTakesLease \/ ReleasePolicy
Fault == BrokerRestarts \/ RequestFails
Next == \/ Elapse \/ Ask \/ Broker \/ Refresh \/ Fault
        \/ Look \/ ReadWish \/ CloseBegins \/ Close

Spec == Init /\ [][Next]_vars

\* Time passes; the broker answers in time; both threads go on.  The monitor
\* needs the lock, which the owner gives back again and again.
FairSpec ==
  /\ Spec /\ WF_vars(Elapse) /\ WF_vars(Broker) /\ WF_vars(ReadWish)
  /\ SF_vars(Ask) /\ SF_vars(Refresh) /\ WF_vars(Close)

-----------------------------------------------------------------------------
\* A wish that unload_requested returns was the schedule's at some moment of
\* the call, even when the monitor replaces the answer during the call: an
\* answer is valid no longer than the window, and renew() writes the wish
\* before the date that vouches for it.
NeverStale == owner = "checked" => obj.unload \in seen

\* One keeper never has more policy leases in the broker's table than requests
\* that end one renewal interval apart within a ttl and the time the broker may
\* be late, however many replies are lost and however many requests pile up
\* behind the manager's lock to be granted at once when it is released.
LeakBounded ==
  Cardinality({t \in Token : left[t] > 0}) * Renew <= Ttl + Lag + Renew - 1

\* Once requests are answered promptly again after broker restarts and lost
\* messages, an open keeper gets to know the schedule again and again.
SlowReply == monitor = "answered" /\ now' # now
KnownAgain == (<>[][~Fault /\ ~SlowReply]_vars /\ []~stop) => []<>Known

\* After close() nothing stays at the broker, even if the join gave up on a
\* renewal that came back later, or the broker grants what it was asked for
\* after both have given up.
LeaseRunsOut == <>stop => <>[](\A t \in Token : left[t] = 0)
=============================================================================
