-------------------------- MODULE LeaseKeeper_proofs --------------------------
(***************************************************************************)
(* Proofs about LeaseKeeper, for any times that __init__ accepts and any   *)
(* number of tokens: a model that may stay is covered by the expiry the    *)
(* keeper was told, and an open keeper that calls itself healthy has       *)
(* succeeded recently.                                                     *)
(***************************************************************************)
EXTENDS LeaseKeeper, TLAPS

\* The clocks and what the argument needs of the threads' places.
Clocks ==
  /\ exp \in Nat /\ valid \in Nat /\ since \in Nat /\ timer \in Nat
  /\ reply.exp \in Nat /\ reply.valid \in Nat

\* A schedule's answer never outlives the lease it came with: both were cut
\* at the same moment and run out together.
ValidWithinLease ==
  /\ valid <= exp
  /\ reply = [token |-> reply.token, exp |-> reply.exp, valid |-> reply.valid]
  /\ reply.valid <= reply.exp

PromiseInv == Clocks /\ ValidWithinLease

LEMMA LapseKeepsOrder ==
  ASSUME NEW m \in Nat, NEW n \in Nat, m <= n
  PROVE  Lapse(m) \in Nat /\ Lapse(n) \in Nat /\ Lapse(m) <= Lapse(n)
BY DEF Lapse

LEMMA InitPromise == Init => PromiseInv
BY DEF Init, PromiseInv, Clocks, ValidWithinLease, NoReply

LEMMA StepPromise == PromiseInv /\ [Next]_vars => PromiseInv'
<1>. SUFFICES ASSUME PromiseInv, [Next]_vars PROVE PromiseInv'
  OBVIOUS
<1>. USE TimesAssumption DEF PromiseInv, Clocks, ValidWithinLease
<1>1. ASSUME UNCHANGED <<exp, valid, since, timer, reply>> PROVE PromiseInv'
  BY <1>1
<1>2. CASE Elapse
  <2>1. exp' = Lapse(exp) /\ valid' = Lapse(valid) /\ timer' = Lapse(timer)
    BY <1>2 DEF Elapse
  <2>2. reply' = [token |-> reply.token, exp |-> Lapse(reply.exp), valid |-> Lapse(reply.valid)]
    BY <1>2 DEF Elapse
  <2>3. since' \in Nat
    BY <1>2 DEF Elapse
  <2>4. Lapse(timer) \in Nat
    BY DEF Lapse
  <2>5. Lapse(exp) \in Nat /\ Lapse(valid) \in Nat /\ Lapse(valid) <= Lapse(exp)
    BY LapseKeepsOrder
  <2>6. /\ Lapse(reply.exp) \in Nat /\ Lapse(reply.valid) \in Nat
        /\ Lapse(reply.valid) <= Lapse(reply.exp)
    BY LapseKeepsOrder
  <2>. QED  BY <2>1, <2>2, <2>3, <2>4, <2>5, <2>6
<1>3. ASSUME NEW t, NEW v \in 0..MaxAge, reply' = Answer(t, v),
             UNCHANGED <<exp, valid, since, timer>>
      PROVE  PromiseInv'
  <2>1. v \in Nat /\ v <= Ttl /\ Ttl \in Nat
    BY MaxAgeAssumption
  <2>2. reply' = [token |-> t, exp |-> Ttl, valid |-> v]
    BY <1>3 DEF Answer
  <2>. QED  BY <1>3, <2>1, <2>2
<1>4. CASE Grant
  <2>1. PICK t \in Unused, v \in 0..MaxAge : reply' = Answer(t, v)
    BY <1>4 DEF Grant
  <2>2. UNCHANGED <<exp, valid, since, timer>>
    BY <1>4 DEF Grant, keeperVars
  <2>. QED  BY <1>3, <2>1, <2>2
<1>5. CASE RenewLease
  <2>1. UNCHANGED <<exp, valid, since, timer>>
    BY <1>5 DEF RenewLease, keeperVars
  <2>2. CASE reply' = reply
    BY <1>1, <2>1, <2>2
  <2>3. CASE \E v \in 0..MaxAge : reply' = Answer(mine, v)
    BY <1>3, <2>1, <2>3
  <2>. QED  BY <1>5, <2>2, <2>3 DEF RenewLease
<1>6. CASE RequestFails
  <2>1. reply' = NoReply /\ timer' \in {0, timer} /\ UNCHANGED <<exp, valid, since>>
    BY <1>6 DEF RequestFails, keeperVars
  <2>. QED  BY <2>1 DEF NoReply
<1>7. CASE Store
  <2>1. /\ exp' = reply.exp /\ valid' = reply.valid /\ since' = 0
        /\ timer' = Renew /\ reply' = NoReply
    BY <1>7 DEF Store, SetHealthy, WaitAgain
  <2>. QED  BY <2>1 DEF NoReply
<1>8. CASE WriteAnswer
  <2>1. UNCHANGED <<since, timer, reply>>
    BY <1>8 DEF WriteAnswer
  <2>2. \/ exp' = reply.exp /\ valid' = reply.valid
        \/ UNCHANGED <<exp, valid>>
    BY <1>8 DEF WriteAnswer
  <2>. QED  BY <2>1, <2>2
<1>9. CASE Succeed \/ Fail
  <2>1. /\ UNCHANGED <<exp, valid>> /\ since' \in {0, since}
        /\ timer' = Renew /\ reply' = NoReply
    BY <1>9 DEF Succeed, Fail, SetHealthy, WaitAgain
  <2>. QED  BY <2>1 DEF NoReply
<1>10. CASE CloseTakesLease
  <2>1. exp' = 0 /\ valid' = 0 /\ UNCHANGED <<since, timer, reply>>
    BY <1>10 DEF CloseTakesLease, monitorVars
  <2>. QED  BY <2>1
<1>11. CASE Start \/ Wake \/ Replace \/ MonitorEnds
  <2>1. /\ timer' \in {0, Timeout} /\ Timeout \in Nat
        /\ UNCHANGED <<exp, valid, since, reply>>
    BY <1>11 DEF Start, Wake, Replace, NotFound, MonitorEnds, keeperVars
  <2>. QED  BY <2>1
<1>12. CASE LateGrant \/ CloseBegins \/ Release \/ BrokerRestarts \/ UNCHANGED vars
  BY <1>1, <1>12 DEF LateGrant, CloseBegins, Release, BrokerRestarts, vars, keeperVars,
     monitorVars
<1>. QED  BY <1>2, <1>4, <1>5, <1>6, <1>7, <1>8, <1>9, <1>10, <1>11, <1>12
          DEF Next, Broker, Monitor, Close, Fault

\* While the keeper lets the model stay, the expiry it was told is ahead.
THEOREM StaysUnderPromise == Spec => []KeptUnderPromise
<1>1. PromiseInv => KeptUnderPromise
  BY DEF PromiseInv, Clocks, ValidWithinLease, KeptUnderPromise, MayStay
<1>. QED  BY InitPromise, StepPromise, <1>1, PTL DEF Spec

-----------------------------------------------------------------------------
\* The wait, a renewal and a replacement each add their time to the age of the
\* last success; a failure keeps the keeper healthy only below the grace.
Sum(n) == since + timer < Grace + Renew + n
Recent ==
  /\ at = "waiting" => Sum(0)
  /\ at \in {"renew", "renewed"} => Sum(Timeout)
  /\ at = "notfound" => since < Grace + Renew + Timeout
  /\ at \in {"acquire", "granted"} => Sum(2 * Timeout)
  /\ at \in {"written", "failed"} => since < Longest

OpenInv ==
  /\ since \in Nat /\ timer \in Nat
  /\ at \in {"none", "waiting", "renew", "renewed", "notfound", "acquire", "granted",
             "written", "failed", "ended"}
  /\ owner \in {"new", "open"} => ~stop
  /\ owner = "new" => ~healthy /\ at \in {"none", "acquire", "granted"}
  /\ owner = "open" => at \notin {"none", "ended"}
  /\ owner = "open" /\ healthy => Recent

LEMMA InitOpen == Init => OpenInv
BY DEF Init, OpenInv

LEMMA StepOpen == OpenInv /\ [Next]_vars => OpenInv'
<1>. SUFFICES ASSUME OpenInv, [Next]_vars PROVE OpenInv'
  OBVIOUS
<1>. USE TimesAssumption DEF OpenInv, Recent, Sum, Longest
<1>1. CASE Elapse
  <2>1. /\ at \in {"none", "waiting", "ended", "acquire", "renew", "granted", "renewed"}
        /\ at \in {"waiting", "acquire", "renew", "granted", "renewed"} => timer > 0
        /\ since' \in {since, since + 1} /\ timer' = Lapse(timer)
        /\ UNCHANGED <<healthy, at, owner, stop>>
    BY <1>1 DEF Elapse, Waits, Asking, Answered
  <2>2. timer' \in Nat /\ (timer > 0 => timer' = timer - 1)
    BY <2>1 DEF Lapse
  <2>. QED  BY <2>1, <2>2
<1>2. CASE Start
  BY <1>2 DEF Start, keeperVars, ownerVars
<1>3. CASE Wake
  BY <1>3 DEF Wake, Waits, keeperVars, ownerVars
<1>4. CASE Grant
  BY <1>4 DEF Grant, keeperVars, ownerVars
<1>5. CASE RenewLease
  BY <1>5 DEF RenewLease, keeperVars, ownerVars
<1>6. CASE RequestFails
  BY <1>6 DEF RequestFails, Asking, Answered, keeperVars
<1>7. CASE Fail
  <2>1. healthy' = (healthy /\ since < Grace)
    BY <1>7 DEF Fail, StaysHealthy
  <2>2. healthy' => since < Grace
    BY <2>1
  <2>3. /\ at = "failed" /\ at' = "waiting" /\ timer' = Renew
        /\ UNCHANGED <<since, owner, stop>>
    BY <1>7 DEF Fail, WaitAgain, ownerVars
  <2>. QED  BY <2>2, <2>3
<1>8. CASE Replace
  BY <1>8 DEF Replace, NotFound, keeperVars, ownerVars
<1>9. CASE Store
  BY <1>9 DEF Store, SetHealthy, WaitAgain
<1>10. CASE WriteAnswer
  BY <1>10 DEF WriteAnswer, ownerVars
<1>11. CASE Succeed
  BY <1>11 DEF Succeed, SetHealthy, WaitAgain, ownerVars
<1>12. CASE MonitorEnds
  BY <1>12 DEF MonitorEnds, GoesOn, keeperVars, ownerVars
<1>13. CASE CloseBegins
  BY <1>13 DEF CloseBegins, keeperVars, monitorVars
<1>14. CASE CloseTakesLease \/ Release
  BY <1>14 DEF CloseTakesLease, Release, JoinEnds, keeperVars, monitorVars
<1>15. CASE LateGrant \/ BrokerRestarts \/ UNCHANGED vars
  BY <1>15 DEF LateGrant, BrokerRestarts, vars, keeperVars, monitorVars, ownerVars
<1>. QED  BY <1>1, <1>2, <1>3, <1>4, <1>5, <1>6, <1>7, <1>8, <1>9, <1>10, <1>11, <1>12,
             <1>13, <1>14, <1>15 DEF Next, Broker, Monitor, Close, Fault

\* An open keeper that calls itself healthy has succeeded within the grace, one
\* interval and two requests.
THEOREM HealthIsRecent == Spec => []HealthyMeansRecent
<1>1. OpenInv => HealthyMeansRecent
  BY TimesAssumption DEF OpenInv, Recent, Sum, Longest, HealthyMeansRecent
<1>. QED  BY InitOpen, StepOpen, <1>1, PTL DEF Spec
=============================================================================
