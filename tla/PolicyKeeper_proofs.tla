------------------------- MODULE PolicyKeeper_proofs -------------------------
(***************************************************************************)
(* Proofs about PolicyKeeper, for any day, windows, times and tokens.      *)
(* The policy leases one keeper leaks at the broker are bounded: each was  *)
(* granted to a request that ended for the keeper at its own time, and     *)
(* these times are a renewal interval apart even when the broker gets to   *)
(* the requests late and all at once.  So the invariant is about the ages  *)
(* of the requests that became leases or may yet become some.  The wish    *)
(* that unload_requested returns was the schedule's during the call: the   *)
(* halving at the broker finds the change of the schedule (by the least    *)
(* pair of ages for which it would not), so an answer is right while it is *)
(* valid, and renew() never lets a reader combine a wish with the date of  *)
(* another.                                                                *)
(***************************************************************************)
EXTENDS PolicyKeeper, FiniteSetTheorems, WellFoundedInduction, TLAPS

Live == {t \in Token : left[t] > 0}

\* What waits at the broker and may still become a lease, and may be renewed.
Subs == {r \in late : r.call = "subscribe"}
Renewed == {r.token : r \in {q \in late : q.call = "renew"}}

\* How long ago the client of r gave up.
Waited(r) == Lag - r.wait

IsRequest(r) ==
  r = [call |-> r.call, token |-> r.token, wait |-> r.wait] /\ r.wait \in 0..Lag

Tables ==
  /\ left \in [Token -> 0..Ttl]
  /\ (\A r \in late : IsRequest(r)) /\ Renewed \subseteq Token
  /\ held \in Token \cup {None} /\ mine \in Token \cup {None}
  /\ reply = [token |-> reply.token, exp |-> reply.exp, valid |-> reply.valid,
               unload |-> reply.unload]
  /\ reply.token \in Token \cup {None}
  /\ owner \in {"joining", "releasing", "closed"} => stop

\* What the monitor asks for is what the keeper has, until it is closed; a
\* renewal that is carried out late is one of that lease or of a dead one.
OpenInv ==
  /\ monitor \in Refreshing => mine = held
  /\ \A x \in Renewed : left[x] = 0 \/ x = held

RefreshInv ==
  /\ monitor \in Refreshing => \A x \in Renewed : left[x] = 0 \/ x = mine
  /\ monitor = "answered" /\ reply = NoLease => mine \in Token /\ left[mine] = 0
  /\ monitor = "answered" /\ reply # NoLease =>
       reply.token \in Token /\ (mine # None => mine = reply.token)

KnownInv == Tables /\ (~stop => OpenInv) /\ RefreshInv

-----------------------------------------------------------------------------
\* The requests that have become leases, or may yet, ended for their client at
\* least a renewal interval apart; age tells how long ago, for a live lease.
Apart(m, n) == m + Renew <= n \/ n + Renew <= m

Spaced(age) ==
  /\ \A t, u \in Live : t # u => Apart(age[t], age[u])
  /\ \A t \in Live, r \in Subs : Apart(age[t], Waited(r))
  /\ \A r, s \in Subs : r # s => Apart(Waited(r), Waited(s))
  /\ \A t \in Live : age[t] + left[t] <= Ttl + Lag

\* All that is live but x, or may become so, ended n ago or earlier.
Since(age, x, n) ==
  /\ \A t \in Live \ {x} : n <= age[t]
  /\ \A r \in Subs : n <= Waited(r)

\* The leases that may yet be renewed.
Claimed == Renewed \cup (IF stop THEN {} ELSE {held})
             \cup (IF monitor \in Refreshing THEN {mine} ELSE {})
             \cup (IF monitor = "answered" THEN {reply.token} ELSE {})

\* A lease that may be renewed is the last; a new one has to wait.
Last(age) ==
  /\ \A x \in Claimed \cap Live : Since(age, x, age[x] + Renew)
  /\ monitor = "asked" /\ mine = None => Since(age, None, Renew)
  /\ ~stop /\ monitor = "waiting" /\ held = None => timer \in Nat /\ Since(age, None, Renew - timer)

Aged(age) == Spaced(age) /\ Last(age)
LeakInv == KnownInv /\ \E age \in [Token -> Nat] : Aged(age)

-----------------------------------------------------------------------------
LEMMA KnownInit == Init => KnownInv
<1> SUFFICES ASSUME Init PROVE KnownInv
  OBVIOUS
<1> USE TimesAssumption DEF Init
<1>1. Live = {} /\ late = {} /\ Renewed = {}
  BY DEF Live, Renewed
<1>2. Tables
  BY <1>1 DEF Tables, NoLease
<1> QED BY <1>1, <1>2 DEF KnownInv, OpenInv, RefreshInv, Refreshing

\* What is left of all leases and of all waits at the broker shrinks together.
LEMMA LapseOfTables ==
  ASSUME KnownInv, Elapse
  PROVE  /\ left' \in [Token -> 0..Ttl]
         /\ \A t \in Token : left'[t] = IF left[t] > 0 THEN left[t] - 1 ELSE 0
         /\ \A r \in late' : IsRequest(r)
         /\ \A q \in late' : \E r \in late :
              q = [call |-> r.call, token |-> r.token, wait |-> r.wait - 1]
<1> USE TimesAssumption, LagAssumption
<1>1. /\ left' = [t \in Token |-> Lapse(left[t])]
      /\ late' = {[r EXCEPT !.wait = @ - 1] : r \in late}
      /\ \A r \in late : r.wait > 0
  BY DEF Elapse
<1>2. left \in [Token -> 0..Ttl] /\ \A r \in late : IsRequest(r)
  BY DEF KnownInv, Tables
<1>3. \A t \in Token : left'[t] = IF left[t] > 0 THEN left[t] - 1 ELSE 0
  BY <1>1, <1>2 DEF Lapse
<1>4. left' \in [Token -> 0..Ttl]
  BY <1>1, <1>2, <1>3
<1>5. ASSUME NEW r \in late
      PROVE  /\ [r EXCEPT !.wait = @ - 1] = [call |-> r.call, token |-> r.token, wait |-> r.wait - 1]
             /\ IsRequest([r EXCEPT !.wait = @ - 1])
  BY <1>1, <1>2 DEF IsRequest
<1> QED BY <1>1, <1>3, <1>4, <1>5

LEMMA KnownElapse == KnownInv /\ Elapse => KnownInv'
<1> SUFFICES ASSUME KnownInv, Elapse PROVE KnownInv'
  OBVIOUS
<1>1. /\ reply' = LapseOf(reply)
      /\ UNCHANGED <<held, mine, monitor, owner, stop>>
  BY DEF Elapse
<1>2. /\ reply' = [token |-> reply'.token, exp |-> reply'.exp, valid |-> reply'.valid,
                   unload |-> reply'.unload]
      /\ reply'.token = reply.token
      /\ reply = NoLease => reply' = NoLease
  <2>1. reply = [token |-> reply.token, exp |-> reply.exp, valid |-> reply.valid,
                 unload |-> reply.unload]
    BY DEF KnownInv, Tables
  <2>2. reply' = [token |-> reply.token, exp |-> Lapse(reply.exp),
                  valid |-> Lapse(reply.valid), unload |-> reply.unload]
    BY <1>1, <2>1 DEF LapseOf
  <2>3. reply = NoLease => reply' = NoLease
    BY <2>2 DEF NoLease, Lapse
  <2> QED BY <2>2, <2>3
<1>3. Renewed' \subseteq Renewed
  BY LapseOfTables DEF Renewed
<1>4. \A t \in Token : left[t] = 0 => left'[t] = 0
  BY LapseOfTables
<1>5. Tables'
  BY <1>1, <1>2, <1>3, LapseOfTables DEF KnownInv, Tables
<1>6. ~stop => OpenInv'
  BY <1>1, <1>3, <1>4 DEF KnownInv, Tables, OpenInv
<1>7. RefreshInv'
  <2>1. monitor = "answered" /\ reply' = NoLease => reply = NoLease
    BY <1>2, NoneAssumption DEF KnownInv, RefreshInv, NoLease
  <2>2. monitor = "answered" /\ reply' # NoLease => reply # NoLease
    BY <1>2
  <2> QED BY <1>1, <1>2, <1>3, <1>4, <2>1, <2>2 DEF KnownInv, Tables, RefreshInv
<1> QED BY <1>1, <1>5, <1>6, <1>7 DEF KnownInv

\* What the steps of the broker do to its tables, apart from a restart: a lease
\* that was nobody's is granted, a live one is renewed, or one is released.
Grants(n) == n \in Unused /\ left' = [left EXCEPT ![n] = Ttl]
Renews(x) == x \in Token /\ left[x] > 0 /\ left' = [left EXCEPT ![x] = Ttl]
Releases == \A t \in Token : left'[t] = left[t] \/ left'[t] = 0

LEMMA NewIsUnused == New \subseteq Unused
<1>1. CASE Unused = {}
  BY <1>1 DEF New
<1>2. CASE Unused # {}
  <2>1. (CHOOSE t \in Unused : TRUE) \in Unused
    BY <1>2
  <2> QED BY <1>2, <2>1 DEF New
<1> QED BY <1>1, <1>2

\* subscribe_policy and renew_policy, asked for by the monitor.
LEMMA KnownSubscribe == KnownInv /\ Subscribe => KnownInv'
<1> SUFFICES ASSUME KnownInv, Subscribe PROVE KnownInv'
  OBVIOUS
<1> USE TimesAssumption, NoneAssumption
<1>1. PICK n \in Unused : left' = [left EXCEPT ![n] = Ttl] /\ reply' = Answer(n)
  BY NewIsUnused DEF Subscribe
<1>2. /\ monitor = "asked" /\ mine = None /\ monitor' = "answered"
      /\ UNCHANGED <<late, held, mine, owner, stop>>
  BY DEF Subscribe, keeperVars, ownerVars
<1>3. n \in Token /\ n \notin Renewed /\ left \in [Token -> 0..Ttl]
  BY <1>1 DEF Unused, InUse, Renewed, KnownInv, Tables
<1>4. /\ reply' = [token |-> n, exp |-> reply'.exp, valid |-> reply'.valid,
                   unload |-> reply'.unload]
      /\ reply'.token = n
  BY <1>1 DEF Answer
<1>5. left' \in [Token -> 0..Ttl] /\ \A t \in Token \ {n} : left'[t] = left[t]
  BY <1>1, <1>3
<1>6. Renewed' = Renewed
  BY <1>2 DEF Renewed
<1>7. Tables'
  BY <1>2, <1>3, <1>4, <1>5, <1>6 DEF KnownInv, Tables
<1>8. ~stop => OpenInv'
  BY <1>2, <1>3, <1>5, <1>6 DEF KnownInv, Tables, OpenInv, Refreshing
<1>9. reply' # NoLease
  BY <1>3, <1>4 DEF NoLease
<1>10. RefreshInv'
  BY <1>2, <1>3, <1>4, <1>5, <1>6, <1>9 DEF KnownInv, Tables, RefreshInv, Refreshing
<1> QED BY <1>2, <1>7, <1>8, <1>10 DEF KnownInv

LEMMA KnownRenew == KnownInv /\ RenewPolicy => KnownInv'
<1> SUFFICES ASSUME KnownInv, RenewPolicy PROVE KnownInv'
  OBVIOUS
<1> USE TimesAssumption, NoneAssumption
<1>1. /\ monitor = "asked" /\ mine # None /\ monitor' = "answered"
      /\ UNCHANGED <<late, held, mine, owner, stop>>
  BY DEF RenewPolicy, keeperVars, ownerVars
<1>2. mine \in Token /\ left \in [Token -> 0..Ttl]
  BY <1>1 DEF KnownInv, Tables
<1>3. /\ left' \in [Token -> 0..Ttl]
      /\ \A t \in Token : left[t] = 0 => left'[t] = 0
      /\ reply' = [token |-> reply'.token, exp |-> reply'.exp, valid |-> reply'.valid,
                   unload |-> reply'.unload]
      /\ \/ reply' # NoLease /\ reply'.token = mine
         \/ reply' = NoLease /\ reply'.token = None /\ left'[mine] = 0
  <2>1. CASE left[mine] > 0
    <3>1. left' = [left EXCEPT ![mine] = Ttl] /\ reply' = Answer(mine)
      BY <2>1 DEF RenewPolicy
    <3> QED BY <1>2, <2>1, <3>1 DEF Answer, NoLease
  <2>2. CASE ~(left[mine] > 0)
    <3>1. left' = left /\ reply' = NoLease
      BY <2>2 DEF RenewPolicy
    <3> QED BY <1>2, <2>2, <3>1 DEF NoLease
  <2> QED BY <2>1, <2>2
<1>4. Renewed' = Renewed
  BY <1>1 DEF Renewed
<1>5. Tables'
  BY <1>1, <1>2, <1>3, <1>4 DEF KnownInv, Tables
<1>6. ~stop => OpenInv'
  BY <1>1, <1>3, <1>4 DEF KnownInv, Tables, OpenInv, Refreshing
<1>7. RefreshInv'
  BY <1>1, <1>2, <1>3, <1>4 DEF KnownInv, Tables, RefreshInv, Refreshing
<1> QED BY <1>1, <1>5, <1>6, <1>7 DEF KnownInv

\* One of the requests whose client has gone is taken away and carried out.
LEMMA LateAnswerDoes ==
  ASSUME KnownInv, LateAnswer
  PROVE  \E r \in late :
           /\ late' = late \ {r}
           /\ \/ r \in Subs /\ \E n : Grants(n)
              \/ r.token \in Renewed /\ Renews(r.token)
              \/ left' \in [Token -> 0..Ttl] /\ Releases
<1>1. PICK r \in late :
        /\ late' = late \ {r}
        /\ \/ r.call = "subscribe" /\ \E t \in New : left' = [left EXCEPT ![t] = Ttl]
           \/ r.call = "subscribe" /\ UNCHANGED left
           \/ r.call = "renew" /\ left[r.token] > 0 /\ left' = [left EXCEPT ![r.token] = Ttl]
           \/ r.call = "renew" /\ left[r.token] = 0 /\ UNCHANGED left
           \/ r.call = "release" /\ left' = [left EXCEPT ![r.token] = 0]
  BY DEF LateAnswer
<1>2. left \in [Token -> 0..Ttl] /\ Renewed \subseteq Token /\ Ttl \in Nat
  BY TimesAssumption DEF KnownInv, Tables
<1>3. CASE r.call = "subscribe" /\ \E t \in New : left' = [left EXCEPT ![t] = Ttl]
  <2>1. r \in Subs
    BY <1>3 DEF Subs
  <2>2. \E n : Grants(n)
    BY <1>3, NewIsUnused DEF Grants
  <2> QED BY <1>1, <2>1, <2>2
<1>4. CASE UNCHANGED left
  BY <1>1, <1>2, <1>4 DEF Releases
<1>5. CASE r.call = "renew" /\ left[r.token] > 0 /\ left' = [left EXCEPT ![r.token] = Ttl]
  <2>1. r.token \in Renewed
    BY <1>5 DEF Renewed
  <2> QED BY <1>1, <1>2, <1>5, <2>1 DEF Renews
<1>6. CASE left' = [left EXCEPT ![r.token] = 0]
  <2> DEFINE x == r.token
  <2>1. left' = [left EXCEPT ![x] = 0]
    BY <1>6
  <2> HIDE DEF x
  <2>2. Releases
    BY <1>2, <2>1 DEF Releases
  <2>3. left' \in [Token -> 0..Ttl]
    <3>1. 0 \in 0..Ttl
      BY <1>2
    <3> QED BY <1>2, <2>1, <3>1
  <2> QED BY <1>1, <2>2, <2>3
<1> QED BY <1>1, <1>3, <1>4, <1>5, <1>6

LEMMA KnownLate == KnownInv /\ LateAnswer => KnownInv'
<1> SUFFICES ASSUME KnownInv, LateAnswer PROVE KnownInv'
  OBVIOUS
<1> USE TimesAssumption, NoneAssumption
<1>1. PICK r \in late :
        /\ late' = late \ {r}
        /\ \/ r \in Subs /\ \E n : Grants(n)
           \/ r.token \in Renewed /\ Renews(r.token)
           \/ left' \in [Token -> 0..Ttl] /\ Releases
  BY LateAnswerDoes
<1>2. UNCHANGED <<held, mine, reply, monitor, owner, stop>>
  BY DEF LateAnswer, keeperVars, monitorVars, ownerVars
<1>3. late' \subseteq late /\ Renewed' \subseteq Renewed
  BY <1>1 DEF Renewed
<1>4. /\ left' \in [Token -> 0..Ttl]
      /\ \A t \in Token : left[t] = 0 /\ (t \in Renewed \/ t = mine) => left'[t] = 0
  <2>1. left \in [Token -> 0..Ttl]
    BY DEF KnownInv, Tables
  <2>2. ASSUME NEW n, Grants(n)
        PROVE  /\ left' \in [Token -> 0..Ttl]
               /\ \A t \in Token : left[t] = 0 /\ (t \in Renewed \/ t = mine) => left'[t] = 0
    <3>1. n \in Token /\ n # mine /\ n \notin Renewed /\ left' = [left EXCEPT ![n] = Ttl]
      BY <2>2 DEF Grants, Unused, InUse, Renewed
    <3> QED BY <2>1, <3>1
  <2>3. ASSUME Renews(r.token)
        PROVE  left' \in [Token -> 0..Ttl] /\ \A t \in Token : left[t] = 0 => left'[t] = 0
    BY <2>1, <2>3 DEF Renews
  <2> QED BY <1>1, <2>2, <2>3 DEF Releases
<1>5. Tables'
  BY <1>2, <1>3, <1>4 DEF KnownInv, Tables
<1>6. ~stop => OpenInv'
  BY <1>2, <1>3, <1>4 DEF KnownInv, Tables, OpenInv
<1>7. RefreshInv'
  BY <1>2, <1>3, <1>4 DEF KnownInv, Tables, RefreshInv
<1> QED BY <1>2, <1>5, <1>6, <1>7 DEF KnownInv

\* A restarted broker has forgotten every lease.
LEMMA KnownRestart == KnownInv /\ BrokerRestarts => KnownInv'
<1> SUFFICES ASSUME KnownInv, BrokerRestarts PROVE KnownInv'
  OBVIOUS
<1>1. /\ left' = [t \in Token |-> 0] /\ late' \subseteq late
      /\ UNCHANGED <<keeperVars, monitorVars, ownerVars>>
  BY DEF BrokerRestarts
<1>2. Renewed' \subseteq Renewed
  BY <1>1 DEF Renewed
<1> USE DEF keeperVars, monitorVars, ownerVars
<1>3. Tables'
  BY <1>1, <1>2, TimesAssumption DEF KnownInv, Tables
<1>4. ~stop => OpenInv'
  BY <1>1, <1>2 DEF KnownInv, Tables, OpenInv
<1>5. RefreshInv'
  BY <1>1, <1>2 DEF KnownInv, Tables, RefreshInv
<1> QED BY <1>1, <1>3, <1>4, <1>5 DEF KnownInv

LEMMA KnownRelease == KnownInv /\ ReleasePolicy => KnownInv'
<1> SUFFICES ASSUME KnownInv, ReleasePolicy PROVE KnownInv'
  OBVIOUS
<1> USE TimesAssumption, NoneAssumption DEF keeperVars, monitorVars, brokerVars
<1>1. /\ left' = [left EXCEPT ![taken] = 0] \/ left' = left
      /\ late' = late \/ late' = late \cup {GivenUp("release", taken)}
      /\ owner = "releasing" /\ UNCHANGED <<held, mine, reply, monitor, stop>>
  BY DEF ReleasePolicy
<1>2. left' \in [Token -> 0..Ttl] /\ \A t \in Token : left[t] = 0 => left'[t] = 0
  BY <1>1 DEF KnownInv, Tables
<1>4. \A r \in late' : IsRequest(r)
  BY <1>1, LagAssumption DEF GivenUp, IsRequest, KnownInv, Tables
<1>5. Renewed' = Renewed
  BY <1>1 DEF Renewed, GivenUp
<1>6. Tables'
  BY <1>1, <1>2, <1>4, <1>5 DEF KnownInv, Tables, ReleasePolicy
<1>7. RefreshInv'
  BY <1>1, <1>2, <1>5 DEF KnownInv, Tables, RefreshInv
<1>8. stop'
  BY <1>1 DEF KnownInv, Tables
<1> QED BY <1>6, <1>7, <1>8 DEF KnownInv

\* The steps of the monitor: a renewal that it gives up on is one of its lease.
LEMMA GivesUp ==
  ASSUME KnownInv, RequestFails
  PROVE  /\ \A r \in late' : IsRequest(r)
         /\ \/ late' = late
            \/ /\ monitor = "asked" /\ mine = None
               /\ late' = late \cup {GivenUp("subscribe", None)} /\ Renewed' = Renewed
            \/ /\ monitor = "asked" /\ mine \in Token
               /\ Subs' = Subs /\ Renewed' = Renewed \cup {mine}
<1>1. mine \in Token \cup {None} /\ \A r \in late : IsRequest(r)
  BY DEF KnownInv, Tables
<1>2. CASE late' = late
  BY <1>1, <1>2
<1>3. CASE /\ monitor = "asked" /\ mine = None
           /\ late' = late \cup {GivenUp("subscribe", None)}
  <2>1. IsRequest(GivenUp("subscribe", None))
    BY LagAssumption DEF GivenUp, IsRequest
  <2>2. Renewed' = Renewed
    BY <1>3 DEF GivenUp, Renewed
  <2> QED BY <1>1, <1>3, <2>1, <2>2
<1>4. CASE /\ monitor = "asked" /\ mine \in Token
           /\ late' = late \cup {GivenUp("renew", mine)}
  <2>1. IsRequest(GivenUp("renew", mine))
    BY <1>1, LagAssumption DEF GivenUp, IsRequest
  <2>2. Subs' = Subs
    BY <1>4 DEF GivenUp, Subs
  <2>3. Renewed' = Renewed \cup {mine}
    <3> DEFINE q == GivenUp("renew", mine)
    <3>1. q.call = "renew" /\ q.token = mine /\ late' = late \cup {q}
      BY <1>4 DEF GivenUp
    <3> HIDE DEF q
    <3> QED BY <3>1 DEF Renewed
  <2> QED BY <1>1, <1>4, <2>1, <2>2, <2>3
<1> QED BY <1>1, <1>2, <1>3, <1>4, NoneAssumption DEF RequestFails

LEMMA KnownMonitor ==
  ASSUME KnownInv,
         \/ Ask \/ RequestFails \/ NotFound \/ WriteField \/ Store \/ Rest \/ MonitorEnds
  PROVE  KnownInv'
<1> USE NoneAssumption DEF RefreshReturns, Refreshing, Found,
        brokerVars, keeperVars, monitorVars, ownerVars
<1>1. left' = left /\ UNCHANGED <<owner, stop>>
  BY DEF Ask, RequestFails, NotFound, WriteField, Store, Rest, MonitorEnds
<1>2. CASE Ask
  <2>1. /\ monitor = "waiting" /\ ~stop /\ mine' = held /\ monitor' = "asked"
        /\ UNCHANGED <<late, held, reply>>
    BY <1>2 DEF Ask, GoesOn
  <2> QED BY <1>1, <2>1 DEF KnownInv, Tables, OpenInv, RefreshInv, Renewed
<1>3. CASE RequestFails
  <2>1. /\ monitor' = "done" /\ mine' = None /\ reply' = NoLease /\ UNCHANGED held
        /\ monitor \in Refreshing
    BY <1>3 DEF RequestFails
  <2>2. /\ \A r \in late' : IsRequest(r)
        /\ Renewed' \subseteq Token
        /\ Renewed' \subseteq Renewed \cup {mine}
    BY <1>3, GivesUp DEF KnownInv, Tables, Renewed
  <2>3. Tables'
    BY <1>1, <2>1, <2>2 DEF KnownInv, Tables, NoLease
  <2>4. ~stop => OpenInv'
    BY <1>1, <2>1, <2>2 DEF KnownInv, Tables, OpenInv
  <2> QED BY <1>1, <2>1, <2>3, <2>4 DEF KnownInv, RefreshInv
<1>4. CASE NotFound
  <2>1. /\ monitor = "answered" /\ reply = NoLease /\ held' = None /\ UNCHANGED late
        /\ monitor' = "done" /\ mine' = None /\ reply' = NoLease
    BY <1>4 DEF NotFound
  <2>2. Tables'
    BY <1>1, <2>1 DEF KnownInv, Tables, NoLease, Renewed
  <2>3. OpenInv'
    BY <1>1, <2>1 DEF KnownInv, Tables, OpenInv, RefreshInv, Renewed
  <2> QED BY <1>1, <2>1, <2>2, <2>3 DEF KnownInv, RefreshInv
<1>5. CASE WriteField
  <2>1. UNCHANGED <<late, held, mine, reply, monitor>>
    BY <1>5 DEF WriteField
  <2> QED BY <1>1, <2>1 DEF KnownInv, Tables, OpenInv, RefreshInv, Renewed
<1>6. CASE Store
  <2>1. /\ monitor = "answered" /\ reply # NoLease /\ held' = reply.token /\ UNCHANGED late
        /\ monitor' = "done" /\ mine' = None /\ reply' = NoLease
    BY <1>6 DEF Store
  <2>2. /\ reply.token \in Token
        /\ \A x \in Renewed : left[x] = 0 \/ x = reply.token
    BY <2>1 DEF KnownInv, Tables, RefreshInv
  <2>3. Tables'
    BY <1>1, <2>1, <2>2 DEF KnownInv, Tables, NoLease, Renewed
  <2>4. OpenInv'
    BY <1>1, <2>1, <2>2 DEF OpenInv, Renewed
  <2> QED BY <1>1, <2>1, <2>3, <2>4 DEF KnownInv, RefreshInv
<1>7. CASE Rest \/ MonitorEnds
  <2>1. monitor' \in {"waiting", "ended"} /\ UNCHANGED <<late, held, mine, reply>>
    BY <1>7 DEF Rest, MonitorEnds
  <2> QED BY <1>1, <2>1 DEF KnownInv, Tables, OpenInv, RefreshInv, Renewed
<1> QED BY <1>2, <1>3, <1>4, <1>5, <1>6, <1>7

LEMMA KnownOwner ==
  ASSUME KnownInv,
         Look \/ ReadWish \/ CloseBegins \/ CloseTakesLease \/ UNCHANGED vars
  PROVE  KnownInv'
<1> USE DEF brokerVars, keeperVars, monitorVars, ownerVars, Refreshing
<1>1. /\ UNCHANGED <<left, late, mine, reply, monitor>>
      /\ stop => stop'
      /\ owner' \in {"joining", "releasing", "closed"} => stop'
      /\ ~stop' => held' = held
      /\ held' \in Token \cup {None}
  BY DEF Look, ReadWish, CloseBegins, CloseTakesLease, vars, KnownInv, Tables
<1>2. Tables'
  BY <1>1 DEF KnownInv, Tables, Renewed
<1>3. ~stop' => OpenInv'
  BY <1>1 DEF KnownInv, OpenInv, Renewed
<1>4. RefreshInv'
  BY <1>1 DEF KnownInv, RefreshInv, Renewed
<1> QED BY <1>1, <1>2, <1>3, <1>4 DEF KnownInv

LEMMA KnownNext == KnownInv /\ [Next]_vars => KnownInv'
  BY KnownElapse, KnownSubscribe, KnownRenew, KnownLate, KnownRestart, KnownRelease,
     KnownMonitor, KnownOwner DEF Next, Broker, Refresh, Close, Fault

-----------------------------------------------------------------------------
\* When leases and requests only go, and no lease gets more time, what is left
\* is as far apart as before.
LEMMA FewerSpaced ==
  ASSUME NEW age, Spaced(age), KnownInv, KnownInv', Live' \subseteq Live, Subs' \subseteq Subs,
         age \in [Token -> Nat], \A t \in Live' : left'[t] <= left[t]
  PROVE  Spaced(age)'
<1>1. \A t \in Live' : left'[t] <= left[t] /\ left[t] \in Nat /\ left'[t] \in Nat /\ age[t] \in Nat
  BY DEF KnownInv, Tables, Live
<1>2. ASSUME NEW t \in Live' PROVE age[t] + left'[t] <= Ttl + Lag
  <2>1. age[t] + left[t] <= Ttl + Lag
    BY <1>2 DEF Spaced
  <2> QED BY <1>1, <1>2, <2>1, TimesAssumption, LagAssumption
<1> QED BY <1>2 DEF Spaced

LEMMA FewerSince ==
  ASSUME NEW age, NEW x, NEW n, Since(age, x, n), Live' \subseteq Live, Subs' \subseteq Subs
  PROVE  Since(age, x, n)'
  BY DEF Since

\* So a step keeps the ages that claims no other lease, if it lets the monitor
\* subscribe when the others are old enough.
LEMMA FewerAged ==
  ASSUME NEW age \in [Token -> Nat], Aged(age), KnownInv, KnownInv',
         Live' \subseteq Live, Subs' \subseteq Subs, \A t \in Live' : left'[t] <= left[t],
         Claimed' \cap Live' \subseteq Claimed,
         monitor' = "asked" /\ mine' = None => Since(age, None, Renew),
         ~stop' /\ monitor' = "waiting" /\ held' = None =>
           timer' \in Nat /\ Since(age, None, Renew - timer')
  PROVE  LeakInv'
<1>1. Spaced(age)'
  BY FewerSpaced DEF Aged
<1>2. \A x \in (Claimed \cap Live)' : Since(age, x, age[x] + Renew)'
  BY FewerSince DEF Aged, Last
<1>3. (monitor = "asked" /\ mine = None)' => Since(age, None, Renew)'
  BY FewerSince
<1>4. ASSUME ~stop', monitor' = "waiting", held' = None
      PROVE  timer' \in Nat /\ Since(age, None, Renew - timer)'
  <2>1. timer' \in Nat /\ Since(age, None, Renew - timer')
    BY <1>4
  <2> QED BY <2>1 DEF Since
<1> QED BY <1>1, <1>2, <1>3, <1>4 DEF LeakInv, Aged, Last

\* What a step of the monitor or the owner finds when it subscribes or renews
\* nothing: the claim and the wait it may have.
LEMMA SameAged ==
  ASSUME LeakInv, KnownInv', left' = left, Subs' = Subs,
         Claimed' \cap Live' \subseteq Claimed,
         ~(monitor' = "asked" /\ mine' = None),
         ~(~stop' /\ monitor' = "waiting" /\ held' = None)
  PROVE  LeakInv'
<1>1. PICK age \in [Token -> Nat] : Aged(age)
  BY DEF LeakInv
<1>2. Live' = Live
  BY DEF Live
<1>3. \A t \in Live' : left'[t] <= left[t]
  BY <1>2 DEF LeakInv, KnownInv, Tables, Live
<1> QED BY <1>1, <1>2, <1>3, FewerAged DEF LeakInv

LEMMA LeakInit == Init => LeakInv
<1> SUFFICES ASSUME Init PROVE LeakInv
  OBVIOUS
<1> DEFINE age == [t \in Token |-> 0]
<1>1. Live = {} /\ Subs = {}
  BY DEF Init, Live, Subs
<1>2. /\ held = None /\ timer = 0 /\ monitor = "waiting"
  BY DEF Init
<1>3. Spaced(age)
  BY <1>1 DEF Spaced
<1>4. Last(age)
  BY <1>1, <1>2 DEF Last, Since
<1>5. age \in [Token -> Nat]
  OBVIOUS
<1> QED BY <1>3, <1>4, <1>5, KnownInit DEF LeakInv, Aged

\* Every age and every wait at the broker grows, and what is left shrinks.
LEMMA AgedElapse == LeakInv /\ Elapse => LeakInv'
<1> SUFFICES ASSUME LeakInv, Elapse PROVE LeakInv'
  OBVIOUS
<1> USE TimesAssumption, LagAssumption, NoneAssumption
<1>1. KnownInv /\ KnownInv'
  BY KnownElapse DEF LeakInv
<1>2. PICK old \in [Token -> Nat] : Aged(old)
  BY DEF LeakInv
<1> DEFINE age == [t \in Token |-> old[t] + 1]
<1>3. age \in [Token -> Nat] /\ \A t \in Token : age[t] = old[t] + 1 /\ old[t] \in Nat
  BY <1>2
<1> HIDE DEF age
<1>4. /\ timer' = Lapse(timer) /\ reply'.token = reply.token
      /\ UNCHANGED <<held, mine, monitor, stop>>
  BY <1>1 DEF Elapse, LapseOf, KnownInv, Tables
<1>5. \A t \in Live' : t \in Live /\ t \in Token /\ left[t] \in Nat /\ left'[t] = left[t] - 1
  BY <1>1, LapseOfTables DEF Live, KnownInv, Tables
<1>6. ASSUME NEW q \in Subs'
      PROVE  \E r \in Subs : /\ Waited(q) = Waited(r) + 1 /\ Waited(r) \in Nat
                             /\ q = [call |-> r.call, token |-> r.token, wait |-> r.wait - 1]
  BY <1>1, LapseOfTables DEF Subs, Waited, KnownInv, Tables, IsRequest
<1>7. Claimed' \subseteq Claimed
  <2>1. Renewed' \subseteq Renewed
    BY <1>1, LapseOfTables DEF Renewed
  <2> QED BY <1>4, <2>1 DEF Claimed
<1>8. Spaced(age)'
  <2>1. ASSUME NEW t \in Live', NEW u \in Live', t # u PROVE Apart(age[t], age[u])
    <3>1. Apart(old[t], old[u])
      BY <1>2, <1>5, <2>1 DEF Aged, Spaced
    <3> QED BY <1>3, <1>5, <3>1 DEF Apart
  <2>2. ASSUME NEW t \in Live', NEW q \in Subs' PROVE Apart(age[t], Waited(q))
    <3>1. PICK r \in Subs : Waited(q) = Waited(r) + 1 /\ Waited(r) \in Nat
      BY <1>6
    <3>2. Apart(old[t], Waited(r))
      BY <1>2, <1>5 DEF Aged, Spaced
    <3> QED BY <1>3, <1>5, <3>1, <3>2 DEF Apart
  <2>3. ASSUME NEW p \in Subs', NEW q \in Subs', p # q PROVE Apart(Waited(p), Waited(q))
    <3>1. PICK r \in Subs : /\ Waited(p) = Waited(r) + 1 /\ Waited(r) \in Nat
                            /\ p = [call |-> r.call, token |-> r.token, wait |-> r.wait - 1]
      BY <1>6
    <3>2. PICK s \in Subs : /\ Waited(q) = Waited(s) + 1 /\ Waited(s) \in Nat
                            /\ q = [call |-> s.call, token |-> s.token, wait |-> s.wait - 1]
      BY <1>6
    <3>3. r # s
      BY <2>3, <3>1, <3>2
    <3>4. Apart(Waited(r), Waited(s))
      BY <1>2, <3>3 DEF Aged, Spaced
    <3> QED BY <3>1, <3>2, <3>4 DEF Apart
  <2>4. ASSUME NEW t \in Live' PROVE age[t] + left'[t] <= Ttl + Lag
    <3>1. old[t] + left[t] <= Ttl + Lag
      BY <1>2, <1>5 DEF Aged, Spaced
    <3> QED BY <1>3, <1>5, <3>1
  <2> QED BY <2>1, <2>2, <2>3, <2>4 DEF Spaced
<1>9. ASSUME NEW x, NEW n \in Int, Since(old, x, n) PROVE Since(age, x, n + 1)'
  <2>1. ASSUME NEW t \in Live' \ {x} PROVE n + 1 <= age[t]
    BY <1>3, <1>5, <1>9 DEF Since
  <2>2. ASSUME NEW q \in Subs' PROVE n + 1 <= Waited(q)
    BY <1>6, <1>9 DEF Since
  <2> QED BY <2>1, <2>2 DEF Since
<1>10. Last(age)'
  <2>1. ASSUME NEW x \in Claimed' \cap Live' PROVE Since(age, x, age[x] + Renew)'
    <3>1. Since(old, x, old[x] + Renew) /\ x \in Token
      BY <1>2, <1>5, <1>7 DEF Aged, Last
    <3>2. old[x] + Renew \in Int /\ old[x] + Renew + 1 = age[x] + Renew
      BY <1>3, <3>1
    <3> QED BY <1>9, <3>1, <3>2
  <2>2. ASSUME monitor' = "asked", mine' = None PROVE Since(age, None, Renew)'
    <3>1. Since(old, None, Renew)
      BY <1>2, <1>4, <2>2 DEF Aged, Last
    <3>2. Since(age, None, Renew + 1)'
      BY <1>9, <3>1
    <3> QED BY <1>3, <1>5, <1>6, <3>2 DEF Since
  <2>3. ASSUME ~stop', monitor' = "waiting", held' = None
        PROVE  timer' \in Nat /\ Since(age, None, Renew - timer)'
    <3>1. timer \in Nat /\ Since(old, None, Renew - timer)
      BY <1>2, <1>4, <2>3 DEF Aged, Last
    <3>2. PICK m \in Int : m = Renew - timer
      BY <3>1
    <3>3. Since(age, None, m + 1)'
      BY <1>9, <3>1, <3>2
    <3>4. timer' \in Nat /\ Renew - timer' <= m + 1
      BY <1>4, <3>1, <3>2 DEF Lapse
    <3>5. \A t \in Live' \ {None} : Renew - timer' <= age[t]
      BY <1>3, <1>5, <3>2, <3>3, <3>4 DEF Since
    <3>6. \A q \in Subs' : Renew - timer' <= Waited(q)
      BY <1>6, <3>2, <3>3, <3>4 DEF Since
    <3> QED BY <3>4, <3>5, <3>6 DEF Since
  <2> QED BY <2>1, <2>2, <2>3 DEF Last
<1> QED BY <1>1, <1>3, <1>8, <1>10 DEF LeakInv, Aged

\* A lease that was nobody's is granted to a request that ended a ago for its
\* client, apart from all others.
LEMMA GrantSpaced ==
  ASSUME NEW old \in [Token -> Nat], Spaced(old), KnownInv, Subs' \subseteq Subs,
         NEW n, Grants(n), NEW a \in 0..Lag,
         \A t \in Live : Apart(old[t], a), \A r \in Subs' : Apart(Waited(r), a)
  PROVE  LET age == [old EXCEPT ![n] = a]
         IN  /\ age \in [Token -> Nat] /\ age[n] = a
             /\ \A t \in Live : t # n /\ age[t] = old[t]
             /\ Live' \subseteq Live \cup {n} /\ Spaced(age)'
<1> USE TimesAssumption, LagAssumption
<1> DEFINE age == [old EXCEPT ![n] = a]
<1>1. /\ left \in [Token -> 0..Ttl] /\ n \in Token /\ left[n] = 0
      /\ left' = [left EXCEPT ![n] = Ttl]
  BY DEF KnownInv, Tables, Grants, Unused
<1>2. left'[n] = Ttl /\ \A t \in Token \ {n} : left'[t] = left[t]
  BY <1>1
<1>3. age \in [Token -> Nat] /\ age[n] = a /\ \A t \in Token \ {n} : age[t] = old[t]
  BY <1>1
<1> HIDE DEF age
<1>4. n \notin Live /\ \A t \in Live' : t \in Live \/ t = n
  BY <1>1, <1>2 DEF Live
<1>5. \A t \in Live : t \in Token /\ t # n /\ age[t] = old[t] /\ left'[t] = left[t]
  BY <1>2, <1>3, <1>4 DEF Live
<1>6. ASSUME NEW t \in Live', NEW u \in Live', t # u PROVE Apart(age[t], age[u])
  <2>1. CASE t = n
    BY <1>3, <1>4, <1>5, <1>6, <2>1 DEF Apart
  <2>2. CASE u = n
    BY <1>3, <1>4, <1>5, <1>6, <2>2 DEF Apart
  <2>3. CASE t # n /\ u # n
    BY <1>4, <1>5, <1>6, <2>3 DEF Spaced
  <2> QED BY <2>1, <2>2, <2>3
<1>7. ASSUME NEW t \in Live', NEW r \in Subs' PROVE Apart(age[t], Waited(r))
  <2>1. CASE t = n
    BY <1>3, <2>1 DEF Apart
  <2>2. CASE t # n
    BY <1>4, <1>5, <2>2 DEF Spaced
  <2> QED BY <2>1, <2>2
<1>8. ASSUME NEW t \in Live' PROVE age[t] + left'[t] <= Ttl + Lag
  <2>1. CASE t = n
    BY <1>2, <1>3, <2>1
  <2>2. CASE t # n
    BY <1>4, <1>5, <2>2 DEF Spaced
  <2> QED BY <2>1, <2>2
<1>9. Spaced(age)'
  BY <1>6, <1>7, <1>8 DEF Spaced
<1> QED BY <1>3, <1>4, <1>5, <1>9 DEF age

\* The monitor subscribes: all else is a renewal interval old.
LEMMA AgedSubscribe == LeakInv /\ Subscribe => LeakInv'
<1> SUFFICES ASSUME LeakInv, Subscribe PROVE LeakInv'
  OBVIOUS
<1> USE TimesAssumption, LagAssumption, NoneAssumption
<1>1. KnownInv /\ KnownInv'
  BY KnownSubscribe DEF LeakInv
<1>2. PICK old \in [Token -> Nat] : Aged(old)
  BY DEF LeakInv
<1>3. PICK n : Grants(n) /\ reply' = Answer(n)
  BY NewIsUnused DEF Subscribe, Grants
<1>4. /\ monitor = "asked" /\ mine = None /\ monitor' = "answered"
      /\ UNCHANGED <<late, held, mine, stop>> /\ reply'.token = n
  BY <1>3 DEF Subscribe, keeperVars, ownerVars, Answer
<1>5. Since(old, None, Renew)
  BY <1>2, <1>4 DEF Aged, Last
<1>6. Subs' = Subs /\ Renewed' = Renewed
  BY <1>4 DEF Subs, Renewed
<1>7. \A t \in Live : t # None /\ Renew <= old[t] /\ Apart(old[t], 0)
  BY <1>2, <1>5 DEF Since, Apart, Live
<1>8. \A r \in Subs : Renew <= Waited(r) /\ Apart(Waited(r), 0)
  <2>1. \A r \in Subs : Waited(r) \in Nat
    BY <1>1 DEF KnownInv, Tables, IsRequest, Subs, Waited
  <2> QED BY <1>5, <2>1 DEF Since, Apart
<1> DEFINE age == [old EXCEPT ![n] = 0]
<1>9. /\ age \in [Token -> Nat] /\ age[n] = 0
      /\ \A t \in Live : t # n /\ age[t] = old[t]
      /\ Live' \subseteq Live \cup {n} /\ Spaced(age)'
  <2>1. Spaced(old) /\ 0 \in 0..Lag
    BY <1>2 DEF Aged
  <2> QED BY <1>1, <1>3, <1>6, <1>7, <1>8, <2>1, GrantSpaced
<1> HIDE DEF age
<1>10. Claimed' \cap Live' \subseteq {n}
  <2>1. held = None \/ stop
    BY <1>1, <1>4 DEF KnownInv, OpenInv, Refreshing
  <2>2. \A x \in Renewed' : x \notin Live
    BY <1>1, <1>4, <1>6 DEF KnownInv, Tables, RefreshInv, Refreshing, Live
  <2>3. None \notin Live'
    BY DEF Live
  <2>4. \A x \in Claimed' : x \in Renewed' \/ x = None \/ x = n
    BY <1>4, <2>1 DEF Claimed
  <2> QED BY <1>9, <2>2, <2>3, <2>4
<1>11. Last(age)'
  <2>1. Since(age, n, age[n] + Renew)'
    <3>1. \A t \in Live' \ {n} : age[n] + Renew <= age[t]
      BY <1>2, <1>7, <1>9
    <3>2. \A r \in Subs' : age[n] + Renew <= Waited(r)
      BY <1>6, <1>8, <1>9
    <3> QED BY <3>1, <3>2 DEF Since
  <2> QED BY <1>4, <1>10, <2>1 DEF Last
<1> QED BY <1>1, <1>9, <1>11 DEF LeakInv, Aged

\* The last lease is renewed: it stays the last.
LEMMA RenewedAged ==
  ASSUME LeakInv, KnownInv', NEW x, Renews(x), x \in Claimed,
         Subs' \subseteq Subs, Claimed' \subseteq Claimed,
         ~(monitor' = "asked" /\ mine' = None),
         ~(~stop' /\ monitor' = "waiting" /\ held' = None)
  PROVE  LeakInv'
<1> USE TimesAssumption, LagAssumption
<1>1. PICK old \in [Token -> Nat] : Aged(old)
  BY DEF LeakInv
<1> DEFINE age == [old EXCEPT ![x] = 0]
<1>2. /\ left \in [Token -> 0..Ttl] /\ x \in Token /\ x \in Live
      /\ left' = [left EXCEPT ![x] = Ttl]
  BY DEF LeakInv, KnownInv, Tables, Renews, Live
<1>3. /\ left'[x] = Ttl /\ \A t \in Token \ {x} : left'[t] = left[t]
      /\ age \in [Token -> Nat] /\ age[x] = 0 /\ \A t \in Token \ {x} : age[t] = old[t]
  BY <1>2
<1> HIDE DEF age
<1>4. Live' = Live /\ Live \subseteq Token
  BY <1>2, <1>3 DEF Live
<1>5. /\ \A t \in Live \ {x} : old[x] + Renew <= old[t]
      /\ \A r \in Subs : old[x] + Renew <= Waited(r)
  BY <1>1, <1>2 DEF Aged, Last, Since
<1>6. /\ \A t \in Live \ {x} : Renew <= old[t] /\ age[t] = old[t] /\ left'[t] = left[t]
      /\ \A r \in Subs : Renew <= Waited(r) /\ Waited(r) \in Nat
  <2>1. \A r \in Subs : Waited(r) \in Nat
    BY DEF LeakInv, KnownInv, Tables, IsRequest, Subs, Waited
  <2> QED BY <1>1, <1>2, <1>3, <1>4, <1>5, <2>1
<1>7. Spaced(age)'
  <2>1. ASSUME NEW t \in Live', NEW u \in Live', t # u PROVE Apart(age[t], age[u])
    <3>1. CASE t = x
      BY <1>3, <1>4, <1>6, <2>1, <3>1 DEF Apart
    <3>2. CASE u = x
      BY <1>3, <1>4, <1>6, <2>1, <3>2 DEF Apart
    <3>3. CASE t # x /\ u # x
      BY <1>1, <1>4, <1>6, <2>1, <3>3 DEF Aged, Spaced
    <3> QED BY <3>1, <3>2, <3>3
  <2>2. ASSUME NEW t \in Live', NEW r \in Subs' PROVE Apart(age[t], Waited(r))
    <3>1. CASE t = x
      BY <1>3, <1>6, <3>1 DEF Apart
    <3>2. CASE t # x
      BY <1>1, <1>4, <1>6, <3>2 DEF Aged, Spaced
    <3> QED BY <3>1, <3>2
  <2>3. ASSUME NEW t \in Live' PROVE age[t] + left'[t] <= Ttl + Lag
    <3>1. CASE t = x
      BY <1>3, <3>1
    <3>2. CASE t # x
      BY <1>1, <1>4, <1>6, <3>2 DEF Aged, Spaced
    <3> QED BY <3>1, <3>2
  <2>4. \A r, s \in Subs' : r # s => Apart(Waited(r), Waited(s))
    BY <1>1 DEF Aged, Spaced
  <2> QED BY <2>1, <2>2, <2>3, <2>4 DEF Spaced
<1>8. ASSUME NEW y \in Claimed' \cap Live' PROVE y = x
  <2>1. SUFFICES ASSUME y # x PROVE FALSE
    OBVIOUS
  <2>2. old[y] + Renew <= old[x]
    BY <1>1, <1>2, <1>4, <2>1 DEF Aged, Last, Since
  <2>3. old[x] + Renew <= old[y]
    BY <1>4, <1>5, <2>1
  <2>4. old[x] \in Nat /\ old[y] \in Nat
    BY <1>1, <1>2, <1>4
  <2> QED BY <2>2, <2>3, <2>4
<1>9. Since(age, x, age[x] + Renew)'
  <2>1. \A t \in Live' \ {x} : age[x] + Renew <= age[t]
    BY <1>3, <1>4, <1>6
  <2>2. \A r \in Subs' : age[x] + Renew <= Waited(r)
    BY <1>3, <1>6
  <2> QED BY <2>1, <2>2 DEF Since
<1>10. Last(age)'
  BY <1>8, <1>9 DEF Last
<1> QED BY <1>3, <1>7, <1>10 DEF LeakInv, Aged

LEMMA AgedRenew == LeakInv /\ RenewPolicy => LeakInv'
<1> SUFFICES ASSUME LeakInv, RenewPolicy PROVE LeakInv'
  OBVIOUS
<1>1. KnownInv /\ KnownInv'
  BY KnownRenew DEF LeakInv
<1>2. /\ monitor = "asked" /\ mine # None /\ monitor' = "answered"
      /\ UNCHANGED <<late, held, mine, stop>> /\ mine \in Token
  BY <1>1 DEF RenewPolicy, keeperVars, ownerVars, KnownInv, Tables
<1>3. Subs' = Subs /\ Renewed' = Renewed
  BY <1>2 DEF Subs, Renewed
<1>4. CASE left[mine] > 0
  <2>1. Renews(mine) /\ reply'.token = mine
    BY <1>2, <1>4 DEF RenewPolicy, Renews, Answer
  <2>2. mine \in Claimed /\ Claimed' \subseteq Claimed
    BY <1>2, <1>3, <2>1 DEF Claimed, Refreshing
  <2> QED BY <1>1, <1>2, <1>3, <2>1, <2>2, RenewedAged
<1>5. CASE ~(left[mine] > 0)
  <2>1. left' = left /\ reply'.token = None
    BY <1>5 DEF RenewPolicy, NoLease
  <2>2. Claimed' \cap Live' \subseteq Claimed
    <3>1. None \notin Live'
      BY NoneAssumption DEF Live
    <3>2. \A x \in Claimed' : x \in Claimed \/ x = None
      BY <1>2, <1>3, <2>1 DEF Claimed, Refreshing
    <3> QED BY <3>1, <3>2
  <2> QED BY <1>1, <1>2, <1>3, <2>1, <2>2, SameAged
<1> QED BY <1>4, <1>5

\* A request whose client has gone is carried out: its lease is as old as it.
LEMMA AgedLate == LeakInv /\ LateAnswer => LeakInv'
<1> SUFFICES ASSUME LeakInv, LateAnswer PROVE LeakInv'
  OBVIOUS
<1> USE TimesAssumption, LagAssumption, NoneAssumption
<1>1. KnownInv /\ KnownInv'
  BY KnownLate DEF LeakInv
<1>2. PICK r \in late :
        /\ late' = late \ {r}
        /\ \/ r \in Subs /\ \E n : Grants(n)
           \/ r.token \in Renewed /\ Renews(r.token)
           \/ left' \in [Token -> 0..Ttl] /\ Releases
  BY <1>1, LateAnswerDoes
<1>3. UNCHANGED <<held, mine, reply, monitor, timer, owner, stop>>
  BY DEF LateAnswer, keeperVars, monitorVars, ownerVars
<1>4. Subs' = Subs \ {r} /\ Renewed' \subseteq Renewed
  BY <1>2 DEF Subs, Renewed
<1>5. Claimed' \subseteq Claimed
  BY <1>3, <1>4 DEF Claimed
<1>6. PICK old \in [Token -> Nat] : Aged(old)
  BY DEF LeakInv
<1>7. CASE r \in Subs /\ \E n : Grants(n)
  <2>1. PICK n : Grants(n)
    BY <1>7
  <2> DEFINE age == [old EXCEPT ![n] = Waited(r)]
  <2>2. Waited(r) \in 0..Lag
    BY <1>1, <1>7 DEF KnownInv, Tables, IsRequest, Subs, Waited
  <2>3. /\ age \in [Token -> Nat] /\ age[n] = Waited(r)
        /\ \A t \in Live : t # n /\ age[t] = old[t]
        /\ Live' \subseteq Live \cup {n} /\ Spaced(age)'
    <3>1. /\ \A t \in Live : Apart(old[t], Waited(r))
          /\ \A q \in Subs' : Apart(Waited(q), Waited(r))
      BY <1>4, <1>6, <1>7 DEF Aged, Spaced
    <3> QED BY <1>1, <1>4, <1>6, <2>1, <2>2, <3>1, GrantSpaced DEF Aged
  <2> HIDE DEF age
  <2>4. n \notin Claimed
    <3>1. n # None /\ n \notin InUse
      BY <2>1 DEF Grants, Unused
    <3> QED BY <3>1 DEF Claimed, InUse, Renewed
  <2>5. ASSUME NEW x, NEW m, Since(old, x, m), x \in Live \/ x = None PROVE Since(age, x, m)'
    <3>1. \A t \in Live' \ {x} : m <= age[t]
      BY <1>7, <2>3, <2>5 DEF Since
    <3>2. \A q \in Subs' : m <= Waited(q)
      BY <1>4, <2>5 DEF Since
    <3> QED BY <3>1, <3>2 DEF Since
  <2>6. ASSUME NEW x \in Claimed' \cap Live' PROVE Since(age, x, age[x] + Renew)'
    <3>1. x \in Claimed /\ x \in Live /\ age[x] = old[x]
      BY <1>5, <2>3, <2>4
    <3>2. Since(old, x, old[x] + Renew)
      BY <1>6, <3>1 DEF Aged, Last
    <3>3. Since(age, x, old[x] + Renew)'
      BY <2>5, <3>1, <3>2
    <3> QED BY <3>1, <3>3
  <2>7. monitor' = "asked" /\ mine' = None => Since(age, None, Renew)'
    BY <1>3, <1>6, <2>5 DEF Aged, Last
  <2>8. ASSUME ~stop', monitor' = "waiting", held' = None
        PROVE  timer' \in Nat /\ Since(age, None, Renew - timer)'
    <3>1. timer \in Nat /\ Since(old, None, Renew - timer) /\ timer' = timer
      BY <1>3, <1>6, <2>8 DEF Aged, Last
    <3>2. PICK m : m = Renew - timer
      OBVIOUS
    <3>3. Since(age, None, m)'
      BY <2>5, <3>1, <3>2
    <3> QED BY <3>1, <3>2, <3>3 DEF Since
  <2>9. Last(age)'
    BY <2>6, <2>7, <2>8 DEF Last
  <2> QED BY <1>1, <2>3, <2>9 DEF LeakInv, Aged
<1>8. CASE r.token \in Renewed /\ Renews(r.token)
  <2>1. r.token \in Claimed /\ r.token \in Token /\ left[r.token] # 0
    BY <1>1, <1>8 DEF Claimed, Renews
  <2>2. ~(monitor' = "asked" /\ mine' = None)
    BY <1>1, <1>3, <1>8, <2>1 DEF KnownInv, RefreshInv, Refreshing
  <2>3. ~(~stop' /\ monitor' = "waiting" /\ held' = None)
    BY <1>1, <1>3, <1>8, <2>1 DEF KnownInv, OpenInv
  <2> QED BY <1>1, <1>4, <1>5, <1>8, <2>1, <2>2, <2>3, RenewedAged
<1>9. CASE Releases
  <2>1. left \in [Token -> 0..Ttl] /\ left' \in [Token -> 0..Ttl]
    BY <1>1 DEF KnownInv, Tables
  <2>2. \A t \in Live' : t \in Live /\ left'[t] <= left[t]
    BY <1>9, <2>1 DEF Releases, Live
  <2>3. monitor' = "asked" /\ mine' = None => Since(old, None, Renew)
    BY <1>3, <1>6 DEF Aged, Last
  <2>4. ~stop' /\ monitor' = "waiting" /\ held' = None =>
          timer' \in Nat /\ Since(old, None, Renew - timer')
    BY <1>3, <1>6 DEF Aged, Last
  <2> QED BY <1>1, <1>4, <1>5, <1>6, <2>2, <2>3, <2>4, FewerAged
<1> QED BY <1>2, <1>7, <1>8, <1>9

LEMMA AgedRestart == LeakInv /\ BrokerRestarts => LeakInv'
<1> SUFFICES ASSUME LeakInv, BrokerRestarts PROVE LeakInv'
  OBVIOUS
<1>1. KnownInv /\ KnownInv'
  BY KnownRestart DEF LeakInv
<1>2. /\ left' = [t \in Token |-> 0] /\ late' \subseteq late
      /\ UNCHANGED <<held, mine, monitor, timer, stop>>
  BY DEF BrokerRestarts, keeperVars, monitorVars, ownerVars
<1>3. Live' = {} /\ Subs' \subseteq Subs
  BY <1>2 DEF Live, Subs
<1>4. PICK age \in [Token -> Nat] : Aged(age)
  BY DEF LeakInv
<1>5. /\ monitor' = "asked" /\ mine' = None => Since(age, None, Renew)
      /\ ~stop' /\ monitor' = "waiting" /\ held' = None =>
           timer' \in Nat /\ Since(age, None, Renew - timer')
  BY <1>2, <1>4 DEF Aged, Last
<1> QED BY <1>1, <1>3, <1>4, <1>5, FewerAged

\* close() gives the keeper's lease back, or asks for it in vain.
LEMMA AgedRelease == LeakInv /\ ReleasePolicy => LeakInv'
<1> SUFFICES ASSUME LeakInv, ReleasePolicy PROVE LeakInv'
  OBVIOUS
<1>1. KnownInv /\ KnownInv'
  BY KnownRelease DEF LeakInv
<1>2. /\ left' = [left EXCEPT ![taken] = 0] \/ left' = left
      /\ late' = late \/ late' = late \cup {GivenUp("release", taken)}
      /\ UNCHANGED <<held, mine, reply, monitor, timer, stop>>
  BY DEF ReleasePolicy, brokerVars, keeperVars, monitorVars
<1>3. left \in [Token -> 0..Ttl]
  BY <1>1 DEF KnownInv, Tables
<1>4. \A t \in Live' : t \in Live /\ left'[t] <= left[t]
  BY <1>2, <1>3, TimesAssumption DEF Live
<1>5. Subs' = Subs /\ Renewed' = Renewed
  BY <1>2 DEF Subs, Renewed, GivenUp
<1>6. Claimed' = Claimed
  BY <1>2, <1>5 DEF Claimed
<1>7. PICK age \in [Token -> Nat] : Aged(age)
  BY DEF LeakInv
<1>8. /\ monitor' = "asked" /\ mine' = None => Since(age, None, Renew)
      /\ ~stop' /\ monitor' = "waiting" /\ held' = None =>
           timer' \in Nat /\ Since(age, None, Renew - timer')
  BY <1>2, <1>7 DEF Aged, Last
<1> QED BY <1>1, <1>4, <1>5, <1>6, <1>7, <1>8, FewerAged

\* The monitor gives up on a subscribe, which waits at the broker from now on.
LEMMA AgedGivesUp ==
  ASSUME LeakInv, RequestFails, monitor = "asked", mine = None,
         late' = late \cup {GivenUp("subscribe", None)}
  PROVE  LeakInv'
<1> USE TimesAssumption, LagAssumption, NoneAssumption
<1> DEFINE q == GivenUp("subscribe", None)
<1>1. KnownInv /\ KnownInv'
  BY KnownMonitor DEF LeakInv
<1>2. PICK age \in [Token -> Nat] : Aged(age)
  BY DEF LeakInv
<1>3. left' = left /\ monitor' = "done" /\ UNCHANGED <<held, stop>>
  BY DEF RequestFails, RefreshReturns, keeperVars, ownerVars
<1>4. Live' = Live
  BY <1>3 DEF Live
<1>5. q.call = "subscribe" /\ Waited(q) = 0 /\ late' = late \cup {q}
  BY DEF GivenUp, Waited
<1> HIDE DEF q
<1>6. Subs' = Subs \cup {q} /\ Renewed' = Renewed
  <2>1. Subs' = Subs \cup {q}
    BY <1>5 DEF Subs
  <2>2. Renewed' = Renewed
    BY <1>5 DEF Renewed
  <2> QED BY <2>1, <2>2
<1>7. Since(age, None, Renew)
  BY <1>2 DEF Aged, Last
<1>8. /\ \A t \in Live : Renew <= age[t] /\ age[t] \in Nat /\ t # None
      /\ \A r \in Subs : Renew <= Waited(r) /\ Waited(r) \in Nat
  <2>1. \A r \in Subs : Waited(r) \in Nat
    BY <1>1 DEF KnownInv, Tables, IsRequest, Subs, Waited
  <2> QED BY <1>2, <1>7, <2>1 DEF Since, Live
<1>9. Spaced(age)'
  <2>1. ASSUME NEW t \in Live', NEW r \in Subs' PROVE Apart(age[t], Waited(r))
    <3>1. CASE r = q
      BY <1>4, <1>5, <1>8, <3>1 DEF Apart
    <3>2. CASE r # q
      BY <1>2, <1>4, <1>6, <3>2 DEF Aged, Spaced
    <3> QED BY <3>1, <3>2
  <2>2. ASSUME NEW r \in Subs', NEW s \in Subs', r # s PROVE Apart(Waited(r), Waited(s))
    <3>1. CASE r = q
      BY <1>5, <1>6, <1>8, <2>2, <3>1 DEF Apart
    <3>2. CASE s = q
      BY <1>5, <1>6, <1>8, <2>2, <3>2 DEF Apart
    <3>3. CASE r # q /\ s # q
      BY <1>2, <1>6, <2>2, <3>3 DEF Aged, Spaced
    <3> QED BY <3>1, <3>2, <3>3
  <2> QED BY <1>2, <1>3, <1>4, <2>1, <2>2 DEF Aged, Spaced
<1>10. Claimed' \cap Live' = {}
  <2>1. held = None \/ stop
    BY <1>1 DEF KnownInv, OpenInv, Refreshing
  <2>2. \A x \in Renewed' : x \notin Live'
    BY <1>1, <1>4, <1>6 DEF KnownInv, Tables, RefreshInv, Refreshing, Live
  <2>3. \A x \in Claimed' : x \in Renewed' \/ x = None
    BY <1>3, <2>1 DEF Claimed, Refreshing
  <2>4. None \notin Live'
    BY DEF Live
  <2> QED BY <2>2, <2>3, <2>4
<1>11. Last(age)'
  BY <1>3, <1>10 DEF Last
<1> QED BY <1>1, <1>9, <1>11 DEF LeakInv, Aged

LEMMA AgedMonitor ==
  ASSUME LeakInv,
         \/ Ask \/ RequestFails \/ NotFound \/ WriteField \/ Store \/ Rest \/ MonitorEnds
  PROVE  LeakInv'
<1> USE NoneAssumption DEF RefreshReturns, Refreshing, Found,
        brokerVars, keeperVars, monitorVars, ownerVars
<1>1. /\ left' = left /\ UNCHANGED <<owner, stop>>
      /\ KnownInv /\ KnownInv' /\ None \notin Live'
  <2>1. left' = left /\ UNCHANGED <<owner, stop>>
    BY DEF Ask, RequestFails, NotFound, WriteField, Store, Rest, MonitorEnds
  <2>2. KnownInv /\ KnownInv'
    BY KnownMonitor DEF LeakInv
  <2> QED BY <2>1, <2>2 DEF Live
<1>2. ~RequestFails => late' = late /\ Subs' = Subs /\ Renewed' = Renewed
  BY DEF Ask, NotFound, WriteField, Store, Rest, MonitorEnds, Subs, Renewed
<1>3. CASE Ask
  <2>1. /\ monitor = "waiting" /\ timer = 0 /\ ~stop /\ mine' = held /\ monitor' = "asked"
        /\ UNCHANGED <<held, reply>>
    BY <1>3 DEF Ask, GoesOn
  <2>2. Subs' = Subs /\ Renewed' = Renewed
    BY <1>3 DEF Ask, Subs, Renewed
  <2>3. Claimed' \subseteq Claimed
    BY <1>1, <2>1, <2>2 DEF Claimed
  <2>4. PICK age \in [Token -> Nat] : Aged(age)
    BY DEF LeakInv
  <2>5. monitor' = "asked" /\ mine' = None => Since(age, None, Renew)
    <3>1. held = None => Since(age, None, Renew - timer)
      BY <2>1, <2>4 DEF Aged, Last
    <3>2. Renew - timer = Renew
      BY <2>1, TimesAssumption
    <3> QED BY <2>1, <3>1, <3>2
  <2>6. Live' = Live /\ \A t \in Live' : left'[t] <= left[t]
    BY <1>1 DEF Live, KnownInv, Tables
  <2> QED BY <1>1, <2>1, <2>2, <2>3, <2>4, <2>5, <2>6, FewerAged
<1>4. CASE RequestFails
  <2>1. /\ monitor' = "done" /\ mine' = None /\ reply' = NoLease /\ UNCHANGED held
        /\ monitor \in Refreshing
    BY <1>4 DEF RequestFails
  <2>2. CASE late' = late
    <3>1. Subs' = Subs /\ Renewed' = Renewed
      BY <2>2 DEF Subs, Renewed
    <3>2. Claimed' \subseteq Claimed
      BY <1>1, <2>1, <3>1 DEF Claimed
    <3> QED BY <1>1, <2>1, <3>1, <3>2, SameAged
  <2>3. CASE /\ monitor = "asked" /\ mine = None
             /\ late' = late \cup {GivenUp("subscribe", None)}
    BY <1>4, <2>3, AgedGivesUp
  <2>4. CASE mine \in Token /\ Subs' = Subs /\ Renewed' = Renewed \cup {mine}
    <3>1. Claimed' \subseteq Claimed
      BY <1>1, <2>1, <2>4 DEF Claimed
    <3> QED BY <1>1, <2>1, <2>4, <3>1, SameAged
  <2> QED BY <1>1, <1>4, <2>2, <2>3, <2>4, GivesUp
<1>5. CASE NotFound
  <2>1. monitor' = "done" /\ mine' = None /\ reply' = NoLease /\ held' = None
    BY <1>5 DEF NotFound
  <2>2. Subs' = Subs /\ Renewed' = Renewed
    BY <1>5 DEF NotFound, Subs, Renewed
  <2>3. \A x \in Claimed' : x \in Claimed \/ x = None
    BY <1>1, <2>1, <2>2 DEF Claimed
  <2> QED BY <1>1, <2>1, <2>2, <2>3, SameAged
<1>6. CASE WriteField
  <2>1. UNCHANGED <<held, mine, reply, monitor, timer>> /\ Found
    BY <1>6 DEF WriteField
  <2>2. Subs' = Subs /\ Renewed' = Renewed
    BY <1>6 DEF WriteField, Subs, Renewed
  <2>3. Claimed' \subseteq Claimed
    BY <1>1, <2>1, <2>2 DEF Claimed
  <2> QED BY <1>1, <2>1, <2>2, <2>3, SameAged
<1>7. CASE Store
  <2>1. /\ monitor = "answered" /\ held' = reply.token
        /\ monitor' = "done" /\ mine' = None /\ reply' = NoLease
    BY <1>7 DEF Store
  <2>2. Subs' = Subs /\ Renewed' = Renewed
    BY <1>7 DEF Store, Subs, Renewed
  <2>3. Claimed' \subseteq Claimed
    BY <1>1, <2>1, <2>2 DEF Claimed
  <2> QED BY <1>1, <2>1, <2>2, <2>3, SameAged
<1>8. CASE Rest
  <2>1. /\ monitor = "done" /\ monitor' = "waiting" /\ UNCHANGED <<held, mine, reply>>
        /\ held = None => timer' = Renew
    BY <1>8 DEF Rest, Delay
  <2>2. Subs' = Subs /\ Renewed' = Renewed
    BY <1>8 DEF Rest, Subs, Renewed
  <2>3. Claimed' \subseteq Claimed
    BY <1>1, <2>1, <2>2 DEF Claimed
  <2>4. PICK age \in [Token -> Nat] : Aged(age)
    BY DEF LeakInv
  <2>5. Since(age, None, 0)
    BY LagAssumption DEF Since, Live, Subs, Waited, KnownInv, Tables, IsRequest, LeakInv
  <2>6. held' = None => timer' \in Nat /\ Since(age, None, Renew - timer')
    <3>1. ASSUME held' = None PROVE timer' = Renew /\ Renew - timer' = 0 /\ Renew \in Nat
      BY <2>1, <3>1, TimesAssumption
    <3> QED BY <2>5, <3>1
  <2>7. Live' = Live /\ \A t \in Live' : left'[t] <= left[t]
    BY <1>1 DEF Live, KnownInv, Tables
  <2> QED BY <1>1, <2>1, <2>2, <2>3, <2>4, <2>6, <2>7, FewerAged
<1>9. CASE MonitorEnds
  <2>1. monitor' = "ended" /\ monitor \in {"waiting", "done"} /\ UNCHANGED <<held, mine, reply>>
    BY <1>9 DEF MonitorEnds
  <2>2. Subs' = Subs /\ Renewed' = Renewed
    BY <1>9 DEF MonitorEnds, Subs, Renewed
  <2>3. Claimed' \subseteq Claimed
    BY <1>1, <2>1, <2>2 DEF Claimed
  <2> QED BY <1>1, <2>1, <2>2, <2>3, SameAged
<1> QED BY <1>3, <1>4, <1>5, <1>6, <1>7, <1>8, <1>9

LEMMA AgedOwner ==
  ASSUME LeakInv,
         Look \/ ReadWish \/ CloseBegins \/ CloseTakesLease \/ UNCHANGED vars
  PROVE  LeakInv'
<1> USE DEF brokerVars, keeperVars, monitorVars, ownerVars
<1>1. /\ UNCHANGED <<left, late, mine, reply, monitor, timer>>
      /\ stop => stop'
      /\ ~stop' => held' = held
  BY DEF Look, ReadWish, CloseBegins, CloseTakesLease, vars, LeakInv, KnownInv, Tables
<1>2. KnownInv /\ KnownInv'
  BY KnownOwner DEF LeakInv
<1>3. Live' = Live /\ Subs' = Subs /\ Renewed' = Renewed
  BY <1>1 DEF Live, Subs, Renewed
<1>4. Claimed' \subseteq Claimed
  BY <1>1, <1>3 DEF Claimed
<1>5. PICK age \in [Token -> Nat] : Aged(age)
  BY DEF LeakInv
<1>6. /\ monitor' = "asked" /\ mine' = None => Since(age, None, Renew)
      /\ ~stop' /\ monitor' = "waiting" /\ held' = None =>
           timer' \in Nat /\ Since(age, None, Renew - timer')
  BY <1>1, <1>5 DEF Aged, Last
<1>7. \A t \in Live' : left'[t] <= left[t]
  BY <1>1, <1>2, <1>3 DEF Live, KnownInv, Tables
<1> QED BY <1>2, <1>3, <1>4, <1>5, <1>6, <1>7, FewerAged

LEMMA LeakNext == LeakInv /\ [Next]_vars => LeakInv'
  BY AgedElapse, AgedSubscribe, AgedRenew, AgedLate, AgedRestart, AgedRelease,
     AgedMonitor, AgedOwner DEF Next, Broker, Refresh, Close, Fault
-----------------------------------------------------------------------------
\* Moments that are Renew apart fall into different intervals of that length.
Oldest == Ttl + Lag - 1
LastSlot == Oldest \div Renew

LEMMA Quotient ==
  ASSUME NEW n \in Nat, NEW d \in Nat \ {0}
  PROVE  n \div d \in Nat /\ (n \div d) * d <= n /\ n < (n \div d) * d + d
  OBVIOUS

LEMMA QuotientGrows ==
  ASSUME NEW m \in Nat, NEW n \in Nat, NEW d \in Nat \ {0}, m <= n
  PROVE  m \div d <= n \div d
<1> DEFINE p == m \div d
           q == n \div d
<1>1. /\ p \in Nat /\ p * d <= m /\ m < p * d + d
      /\ q \in Nat /\ q * d <= n /\ n < q * d + d
  BY Quotient
<1>2. ASSUME q < p PROVE FALSE
  <2> HIDE DEF p, q
  <2>1. (q + 1) * d <= p * d
    BY <1>1, <1>2
  <2> QED BY <1>1, <2>1
<1> QED BY <1>1, <1>2

LEMMA QuotientsDiffer ==
  ASSUME NEW m \in Nat, NEW n \in Nat, NEW d \in Nat \ {0}, m + d <= n
  PROVE  m \div d # n \div d
<1> DEFINE p == m \div d
<1>1. p \in Nat /\ p * d <= m
  BY Quotient
<1>2. n < (n \div d) * d + d
  BY Quotient
<1>3. n >= p * d + d
  <2> HIDE DEF p
  <2> QED BY <1>1
<1> QED BY <1>2, <1>3

LEMMA FewLive == LeakInv => LeakBounded
<1> SUFFICES ASSUME LeakInv PROVE LeakBounded
  OBVIOUS
<1>1. PICK age \in [Token -> Nat] : Aged(age)
  BY DEF LeakInv
<1> DEFINE Slot(t) == age[t] \div Renew
           f == [t \in Live |-> Slot(t)]
<1>2. Renew \in Nat \ {0} /\ Ttl \in Nat \ {0} /\ Lag \in Nat /\ Oldest \in Nat
  BY TimesAssumption, LagAssumption DEF Oldest
<1>3. \A t \in Live : age[t] \in Nat /\ age[t] <= Oldest
  <2> SUFFICES ASSUME NEW t \in Live PROVE age[t] \in Nat /\ age[t] <= Oldest
    OBVIOUS
  <2>1. age[t] \in Nat /\ left[t] \in Nat /\ left[t] > 0
    BY DEF LeakInv, KnownInv, Tables, Live
  <2>2. age[t] + left[t] <= Ttl + Lag
    BY <1>1 DEF Aged, Spaced
  <2> QED BY <1>2, <2>1, <2>2 DEF Oldest
<1>4. LastSlot \in Nat /\ LastSlot * Renew <= Oldest
  BY <1>2, Quotient DEF LastSlot
<1>5. \A t \in Live : Slot(t) \in 0..LastSlot
  <2> SUFFICES ASSUME NEW t \in Live PROVE Slot(t) \in 0..LastSlot
    OBVIOUS
  <2>1. age[t] \in Nat /\ age[t] <= Oldest
    BY <1>3
  <2>2. Slot(t) \in Nat
    BY <1>2, <2>1, Quotient
  <2>3. Slot(t) <= LastSlot
    BY <1>2, <2>1, QuotientGrows DEF LastSlot
  <2> QED BY <1>4, <2>2, <2>3
<1>6. ASSUME NEW t \in Live, NEW u \in Live, t # u PROVE Slot(t) # Slot(u)
  <2>1. age[t] \in Nat /\ age[u] \in Nat
    BY <1>3
  <2>2. age[t] + Renew <= age[u] \/ age[u] + Renew <= age[t]
    BY <1>1, <1>6 DEF Aged, Spaced, Apart
  <2> QED BY <1>2, <2>1, <2>2, QuotientsDiffer
<1>7. f \in Injection(Live, 0..LastSlot)
  BY <1>5, <1>6 DEF Injection, IsInjective
<1>8. IsFiniteSet(0..LastSlot) /\ Cardinality(0..LastSlot) = LastSlot + 1
  BY <1>4, FS_Interval
<1>9. IsFiniteSet(Live) /\ Cardinality(Live) <= LastSlot + 1
  BY <1>7, <1>8, FS_Injection
<1>10. Cardinality(Live) \in Nat
  BY <1>9, FS_CardinalityType
<1>11. Cardinality(Live) * Renew <= (LastSlot + 1) * Renew
  BY <1>2, <1>4, <1>9, <1>10
<1>12. (LastSlot + 1) * Renew = LastSlot * Renew + Renew
  BY <1>2, <1>4
<1>13. LastSlot * Renew \in Nat /\ Cardinality(Live) * Renew \in Nat
  BY <1>2, <1>4, <1>10
<1>14. Cardinality(Live) * Renew <= Oldest + Renew
  BY <1>2, <1>4, <1>11, <1>12, <1>13
<1>15. Cardinality(Live) * Renew <= Ttl + Lag + Renew - 1
  BY <1>2, <1>13, <1>14 DEF Oldest
<1> QED BY <1>15 DEF LeakBounded, Live

\* LeakBounded: however many replies are lost, however often the broker
\* restarts and however many requests it carries out after their client has
\* gone, the policy leases of one keeper in the table of its user are at most
\* the requests that end, one renewal interval apart, within a ttl and the time
\* the broker may be late.
THEOREM LeaksAreBounded == Spec => []LeakBounded
  BY LeakInit, LeakNext, FewLive, PTL DEF Spec


-----------------------------------------------------------------------------
\* Induction on a natural number, as the smallest of a set of them.
Less == {p \in Nat \X Nat : p[1] < p[2]}

LEMMA LessIsWellFounded == IsWellFoundedOn(Less, Nat)
<1>1. Less = OpToRel(<, Nat)
  BY DEF Less, OpToRel
<1> QED BY <1>1, NatLessThanWellFounded

\* A set of naturals has a smallest element: induction, as a fact to cite.
LEMMA Smallest ==
  ASSUME NEW T \in SUBSET Nat, T # {}
  PROVE  \E n \in T : \A m \in T : n <= m
<1>1. PICK n \in T : \A m \in T : <<m, n>> \notin Less
  BY LessIsWellFounded, WFMin
<1>2. ASSUME NEW m \in T PROVE n <= m
  <2>1. <<m, n>> \in Nat \X Nat /\ ~(<<m, n>>[1] < <<m, n>>[2])
    BY <1>1 DEF Less
  <2> QED BY <2>1
<1> QED BY <1>2

-----------------------------------------------------------------------------
\* How _policy_locked finds the first change of the schedule.
Ages == 0..MaxAge
Middle(s, e) == (s + e) \div 2

\* What the halving does with the ages from s to e, g telling it the rest.
Halve(g, s, e) ==
  IF e - s <= 1 THEN e
  ELSE g[IF Changed(Middle(s, e)) THEN <<s, Middle(s, e)>> ELSE <<Middle(s, e), e>>]

\* g is what the halving computes for the ages that are at most n apart.
HalvesUpTo(n, g) == \A s, e \in Ages : e - s <= n => g[<<s, e>>] = Halve(g, s, e)

LEMMA AgesNatural == MaxAge \in Nat /\ Ages \subseteq Nat
  BY TimesAssumption DEF Ages

\* The middle of two ages that are not next to each other is between them.
LEMMA InTheMiddle ==
  ASSUME NEW s \in Ages, NEW e \in Ages, ~(e - s <= 1)
  PROVE  Middle(s, e) \in Ages /\ s < Middle(s, e) /\ Middle(s, e) < e
  BY TimesAssumption DEF Ages, Middle

\* The recursion ends: there is such a g for any distance.
LEMMA HalvingExists == \A n \in Nat : \E g : HalvesUpTo(n, g)
<1> DEFINE Bad == {n \in Nat : ~ \E g : HalvesUpTo(n, g)}
<1>1. SUFFICES ASSUME Bad # {} PROVE FALSE
  OBVIOUS
<1>2. PICK n \in Bad : \A m \in Bad : n <= m
  BY <1>1, Smallest
<1>3. n \in Nat /\ ~ \E g : HalvesUpTo(n, g)
  OBVIOUS
<1>4. CASE n <= 1
  <2> DEFINE g == [r \in Halving |-> r[2]]
  <2>1. ASSUME NEW s \in Ages, NEW e \in Ages, e - s <= n PROVE g[<<s, e>>] = Halve(g, s, e)
    <3>1. e - s <= 1
      BY <1>3, <1>4, <2>1 DEF Ages
    <3>2. g[<<s, e>>] = e
      BY DEF Halving, Ages
    <3> QED BY <3>1, <3>2 DEF Halve
  <2>2. HalvesUpTo(n, g)
    BY <2>1 DEF HalvesUpTo
  <2> QED BY <1>3, <2>2
<1>5. CASE n > 1
  <2>1. n - 1 \in Nat /\ n - 1 \notin Bad
    BY <1>2, <1>3, <1>5
  <2>2. PICK h : HalvesUpTo(n - 1, h)
    BY <2>1
  <2> DEFINE g == [r \in Halving |-> Halve(h, r[1], r[2])]
  <2>3. \A s, e \in Ages : g[<<s, e>>] = Halve(h, s, e)
    BY DEF Halving, Ages
  <2> HIDE DEF g
  <2>4. \A s, e \in Ages : e - s <= n - 1 => g[<<s, e>>] = h[<<s, e>>]
    BY <2>2, <2>3 DEF HalvesUpTo
  <2>5. ASSUME NEW s \in Ages, NEW e \in Ages, e - s <= n PROVE Halve(h, s, e) = Halve(g, s, e)
    <3>1. CASE e - s <= 1
      BY <3>1 DEF Halve
    <3>2. CASE ~(e - s <= 1)
      <4> DEFINE m == Middle(s, e)
      <4>1. m \in Ages /\ s < m /\ m < e
        BY <3>2, InTheMiddle
      <4> HIDE DEF m
      <4>2. m - s <= n - 1 /\ e - m <= n - 1
        BY <1>3, <2>5, <4>1 DEF Ages
      <4>3. g[<<s, m>>] = h[<<s, m>>] /\ g[<<m, e>>] = h[<<m, e>>]
        BY <2>4, <4>1, <4>2
      <4> QED BY <3>2, <4>3 DEF Halve, m
    <3> QED BY <3>1, <3>2
  <2>6. HalvesUpTo(n, g)
    BY <2>3, <2>5 DEF HalvesUpTo
  <2> QED BY <1>3, <2>6
<1> QED BY <1>3, <1>4, <1>5

Halves(f) == \A s, e \in Ages : f[<<s, e>>] = Halve(f, s, e)

\* So the recursive function of FirstChange is one that halves.
LEMMA FirstChangeHalves == \E f : FirstChange = f[<<0, MaxAge>>] /\ Halves(f)
<1>0. MaxAge \in Nat
  BY TimesAssumption
<1> DEFINE Halved(f) == f = [r \in Halving |-> Halve(f, r[1], r[2])]
<1>1. PICK g : HalvesUpTo(MaxAge, g)
  BY <1>0, HalvingExists
<1>2. \A s, e \in Ages : g[<<s, e>>] = Halve(g, s, e)
  <2>1. \A s, e \in Ages : e - s <= MaxAge
    BY <1>0 DEF Ages
  <2> QED BY <1>1, <2>1 DEF HalvesUpTo
<1> DEFINE h == [r \in Halving |-> g[<<r[1], r[2]>>]]
<1>3. \A s, e \in Ages : h[<<s, e>>] = g[<<s, e>>]
  BY DEF Halving, Ages
<1>4. ASSUME NEW s \in Ages, NEW e \in Ages PROVE Halve(g, s, e) = Halve(h, s, e)
  <2> HIDE DEF h
  <2>1. CASE e - s <= 1
    BY <2>1 DEF Halve
  <2>2. CASE ~(e - s <= 1)
    BY <1>3, <2>2, InTheMiddle DEF Halve
  <2> QED BY <2>1, <2>2
<1>5. h = [r \in Halving |-> Halve(h, r[1], r[2])]
  <2>1. h = [r \in Halving |-> Halve(g, r[1], r[2])]
    BY <1>2 DEF Halving, Ages
  <2> HIDE DEF h
  <2>2. \A r \in Halving : Halve(g, r[1], r[2]) = Halve(h, r[1], r[2])
    BY <1>4 DEF Halving, Ages
  <2> QED BY <2>1, <2>2
<1>6. Halved(CHOOSE f : Halved(f))
  <2>1. \E f : Halved(f)
    <3> HIDE DEF h
    <3> QED BY <1>5
  <2> HIDE DEF Halved
  <2> QED BY <2>1
<1> DEFINE f == CHOOSE f : Halved(f)
<1>7. FirstChange = f[<<0, MaxAge>>]
  BY DEF FirstChange, Halve, Middle, Ages
<1>8. f = [r \in Halving |-> Halve(f, r[1], r[2])]
  <2>1. Halved(f)
    BY <1>6
  <2> HIDE DEF f
  <2> QED BY <2>1
<1>9. \A s, e \in Ages : f[<<s, e>>] = Halve(f, s, e)
  <2> HIDE DEF f
  <2> QED BY <1>8 DEF Halving, Ages
<1> HIDE DEF f
<1> QED BY <1>7, <1>9 DEF Halves

\* Halving between an age before the change and one after it ends at an age
\* that is after it while the age before is not.
ChangesAt(r, s, e) ==
  r \in Nat /\ s < r /\ r <= e /\ Changed(r) /\ ~Changed(r - 1)
Finds(f, s, e) == ChangesAt(f[<<s, e>>], s, e)
Misses(f, s, e) == s < e /\ ~Changed(s) /\ Changed(e) /\ ~Finds(f, s, e)

LEMMA HalvingFinds ==
  ASSUME NEW f, Halves(f), NEW a \in Ages, NEW b \in Ages, a < b, ~Changed(a), Changed(b)
  PROVE  Finds(f, a, b)
<1> DEFINE Bad == {n \in Nat : \E s, e \in Ages : e - s = n /\ Misses(f, s, e)}
<1>1. SUFFICES ASSUME Misses(f, a, b) PROVE FALSE
  BY DEF Misses
<1>2. b - a \in Nat
  BY AgesNatural
<1>3. b - a \in Bad
  BY <1>1, <1>2
<1>4. PICK n \in Bad : \A m \in Bad : n <= m
  BY <1>3, Smallest
<1>5. n \in Nat
  OBVIOUS
<1>6. PICK i \in Ages, j \in Ages : j - i = n /\ Misses(f, i, j)
  OBVIOUS
<1>7. i \in Nat /\ j \in Nat
  BY AgesNatural
<1>8. i < j /\ ~Changed(i) /\ Changed(j) /\ ~Finds(f, i, j)
  BY <1>6 DEF Misses
<1>9. f[<<i, j>>] = Halve(f, i, j)
  BY DEF Halves
<1>10. CASE j - i <= 1
  <2>1. f[<<i, j>>] = j
    BY <1>9, <1>10 DEF Halve
  <2>2. j - 1 = i
    BY <1>7, <1>8, <1>10
  <2>3. ChangesAt(j, i, j)
    BY <1>7, <1>8, <2>2 DEF ChangesAt
  <2> QED BY <1>8, <2>1, <2>3 DEF Finds
<1>11. CASE ~(j - i <= 1)
  <2> DEFINE m == Middle(i, j)
  <2>1. m \in Ages /\ i < m /\ m < j
    BY <1>11, InTheMiddle
  <2>2. f[<<i, j>>] = IF Changed(m) THEN f[<<i, m>>] ELSE f[<<m, j>>]
    BY <1>9, <1>11 DEF Halve
  <2> HIDE DEF m
  <2>3. m \in Int /\ m - i \in Nat /\ j - m \in Nat /\ m - i < n /\ j - m < n
    BY <1>6, <1>7, <2>1, AgesNatural
  <2>4. m - i \notin Bad /\ j - m \notin Bad
    <3> HIDE DEF Bad
    <3> QED BY <1>4, <1>5, <2>3
  <2>5. ~Misses(f, i, m) /\ ~Misses(f, m, j)
    BY <2>1, <2>3, <2>4
  <2>6. CASE Changed(m)
    <3>1. Finds(f, i, m)
      BY <1>8, <2>1, <2>5, <2>6 DEF Misses
    <3>2. \A r : ChangesAt(r, i, m) => ChangesAt(r, i, j)
      BY <1>7, <2>1, <2>3 DEF ChangesAt
    <3>3. f[<<i, j>>] = f[<<i, m>>]
      BY <2>2, <2>6
    <3> QED BY <1>8, <3>1, <3>2, <3>3 DEF Finds
  <2>7. CASE ~Changed(m)
    <3>1. Finds(f, m, j)
      BY <1>8, <2>1, <2>5, <2>7 DEF Misses
    <3>2. \A r : ChangesAt(r, m, j) => ChangesAt(r, i, j)
      BY <1>7, <2>1, <2>3 DEF ChangesAt
    <3>3. f[<<i, j>>] = f[<<m, j>>]
      BY <2>2, <2>7
    <3> QED BY <1>8, <3>1, <3>2, <3>3 DEF Finds
  <2> QED BY <2>6, <2>7
<1> QED BY <1>10, <1>11

\* The age it ends at is the first with the other wish after one with this.
LEMMA FirstChangeFound ==
  ASSUME now \in Nat, Changed(MaxAge)
  PROVE  FirstChange \in 1..MaxAge /\ Changed(FirstChange) /\ ~Changed(FirstChange - 1)
<1>1. ~Changed(0)
  BY DEF Changed
<1>2. 0 \in Ages /\ MaxAge \in Ages /\ 0 < MaxAge
  BY TimesAssumption DEF Ages
<1>3. PICK f : FirstChange = f[<<0, MaxAge>>] /\ Halves(f)
  BY FirstChangeHalves
<1> DEFINE c == f[<<0, MaxAge>>]
<1>4. Finds(f, 0, MaxAge)
  BY <1>1, <1>2, <1>3, HalvingFinds
<1>5. c \in Nat /\ 0 < c /\ c <= MaxAge /\ Changed(c) /\ ~Changed(c - 1)
  BY <1>4 DEF Finds, ChangesAt
<1>6. FirstChange = c
  BY <1>3
<1> HIDE DEF c
<1> QED BY <1>2, <1>5, <1>6, AgesNatural

-----------------------------------------------------------------------------
\* The minutes of a day.
LEMMA Division ==
  ASSUME NEW n \in Nat, NEW d \in Nat \ {0}
  PROVE  /\ n \div d \in Nat /\ n % d \in 0..d-1
         /\ n = (n \div d) * d + (n % d)
  OBVIOUS

\* A quotient and a remainder that fit are the quotient and the remainder.
LEMMA DivisionUnique ==
  ASSUME NEW d \in Nat \ {0}, NEW q \in Nat, NEW r \in 0..d-1, NEW n \in Nat, n = q * d + r
  PROVE  n \div d = q /\ n % d = r
<1> DEFINE p == n \div d
           s == n % d
<1>1. p \in Nat /\ s \in 0..d-1 /\ n = p * d + s
  BY Division
<1> HIDE DEF p, s
<1>2. ASSUME p < q PROVE FALSE
  <2>1. (p + 1) * d <= q * d
    BY <1>1, <1>2
  <2> QED BY <1>1, <2>1
<1>3. ASSUME q < p PROVE FALSE
  <2>1. (q + 1) * d <= p * d
    BY <1>1, <1>3
  <2> QED BY <1>1, <2>1
<1>4. p = q
  BY <1>1, <1>2, <1>3
<1>5. s = r
  BY <1>1, <1>4
<1> QED BY <1>4, <1>5 DEF p, s

\* StandbySchedule.requested looks at the minute of the day.
Minute(epoch) == (epoch % Day) \div MinuteSec

LEMMA DayOfMinutes == Day \in Nat \ {0}
  BY TimesAssumption DEF Day

\* The minute of the day is that of all minutes, modulo those of a day.
LEMMA MinuteIs ==
  ASSUME NEW x \in Nat
  PROVE  Minute(x) = (x \div MinuteSec) % DayMinutes
<1> DEFINE k == x \div Day
           r == x % Day
           j == r \div MinuteSec
           s == r % MinuteSec
<1>0. MinuteSec \in Nat \ {0} /\ DayMinutes \in Nat \ {0}
  BY TimesAssumption
<1>1. k \in Nat /\ r \in 0..Day-1 /\ x = k * Day + r
  BY DayOfMinutes, Division
<1> HIDE DEF k, r
<1>2. j \in Nat /\ s \in 0..MinuteSec-1 /\ r = j * MinuteSec + s
  <2>1. r \in Nat
    BY <1>1, DayOfMinutes
  <2> QED BY <1>0, <2>1, Division
<1> HIDE DEF j, s
<1>3. j < DayMinutes
  <2>1. ASSUME DayMinutes <= j PROVE FALSE
    <3>1. DayMinutes * MinuteSec <= j * MinuteSec
      BY <1>0, <1>2, <2>1
    <3> QED BY <1>0, <1>1, <1>2, <3>1 DEF Day
  <2> QED BY <1>0, <1>2, <2>1
<1>4. x = (k * DayMinutes + j) * MinuteSec + s
  <2>1. ASSUME NEW a \in Nat, NEW b \in Nat, NEW c \in Nat, NEW d \in Nat
        PROVE  (a * b + c) * d = a * (b * d) + c * d
    OBVIOUS
  <2>2. (k * DayMinutes + j) * MinuteSec = k * (DayMinutes * MinuteSec) + j * MinuteSec
    BY <1>0, <1>1, <1>2, <2>1
  <2>3. x = k * (DayMinutes * MinuteSec) + (j * MinuteSec + s)
    BY <1>1, <1>2 DEF Day
  <2>4. {k * (DayMinutes * MinuteSec), j * MinuteSec, s} \subseteq Nat
    BY <1>0, <1>1, <1>2
  <2> QED BY <2>2, <2>3, <2>4
<1>5. k * DayMinutes + j \in Nat
  BY <1>0, <1>1, <1>2
<1> DEFINE n == k * DayMinutes + j
<1>6. x \div MinuteSec = n
  <2> HIDE DEF n
  <2>1. x = n * MinuteSec + s /\ n \in Nat
    BY <1>4, <1>5 DEF n
  <2> QED BY <1>0, <1>2, <2>1, DivisionUnique
<1>7. n % DayMinutes = j
  <2>1. n \in Nat /\ n = k * DayMinutes + j /\ j \in 0..DayMinutes-1 /\ k \in Nat
    BY <1>0, <1>1, <1>2, <1>3, <1>5
  <2> HIDE DEF n
  <2> QED BY <1>0, <2>1, DivisionUnique
<1> HIDE DEF n
<1> QED BY <1>6, <1>7 DEF Minute, j, r

\* In less than a minute there is one other minute at most.
LEMMA MinuteBetween ==
  ASSUME NEW a \in Nat, NEW b \in Nat, NEW c \in Nat, a <= b, b <= c, c <= a + MinuteSec
  PROVE  Minute(b) = Minute(a) \/ Minute(b) = Minute(c)
<1> DEFINE p == a \div MinuteSec
           q == b \div MinuteSec
           r == c \div MinuteSec
<1>0. MinuteSec \in Nat \ {0}
  BY TimesAssumption
<1>1. /\ p \in Nat /\ p * MinuteSec <= a /\ a < p * MinuteSec + MinuteSec
      /\ q \in Nat /\ q * MinuteSec <= b /\ b < q * MinuteSec + MinuteSec
      /\ r \in Nat /\ r * MinuteSec <= c /\ c < r * MinuteSec + MinuteSec
  BY <1>0, Quotient
<1>2. p <= q /\ q <= r
  BY <1>0, QuotientGrows
<1>3. r <= p + 1
  <2> HIDE DEF p, q, r
  <2>1. ASSUME p + 2 <= r PROVE FALSE
    <3>1. (p + 2) * MinuteSec <= r * MinuteSec
      BY <1>0, <1>1, <2>1
    <3> QED BY <1>0, <1>1, <3>1
  <2> QED BY <1>1, <2>1
<1>4. q = p \/ q = r
  BY <1>1, <1>2, <1>3
<1> QED BY <1>4, MinuteIs

\* The schedule looks at nothing but the minute.
LEMMA WantedByMinute ==
  ASSUME NEW x \in Nat, NEW y \in Nat, Minute(x) = Minute(y)
  PROVE  Wanted(x) = Wanted(y)
  BY DEF Minute, Wanted, Requested

\* An answer given now is the schedule's for as long as it is valid, whatever
\* the window, the minute and the longest validity: the halving of
\* _policy_locked stops at the first change.
THEOREM ValidForIsRight ==
  ASSUME now \in Nat
  PROVE  ValidFor \in 1..MaxAge /\ \A d \in 0..ValidFor-1 : Wanted(now + d) = Wanted(now)
<1>0. MaxAge \in Nat \ {0} /\ MinuteSec \in Nat /\ MaxAge <= MinuteSec
  BY TimesAssumption
<1>1. ASSUME NEW n \in 0..MaxAge, ~Changed(n), NEW d \in 0..n
      PROVE  Wanted(now + d) = Wanted(now)
  <2>1. Minute(now + d) = Minute(now) \/ Minute(now + d) = Minute(now + n)
    BY <1>0, <1>1, MinuteBetween
  <2>2. now + d \in Nat /\ now + n \in Nat
    BY <1>0
  <2>3. Wanted(now + n) = Wanted(now)
    BY <1>1 DEF Changed
  <2> QED BY <2>1, <2>2, <2>3, WantedByMinute
<1>2. CASE Changed(MaxAge)
  <2>1. ValidFor = FirstChange
    BY <1>2 DEF ValidFor
  <2>2. ValidFor \in 1..MaxAge /\ ~Changed(ValidFor - 1)
    BY <1>2, <2>1, FirstChangeFound
  <2> QED BY <1>0, <1>1, <2>2
<1>3. CASE ~Changed(MaxAge)
  <2>1. ValidFor = MaxAge
    BY <1>3 DEF ValidFor
  <2> QED BY <1>0, <1>1, <1>3, <2>1
<1> QED BY <1>2, <1>3

-----------------------------------------------------------------------------
\* The clock may go round before the schedule is asked.
LEMMA WantedRound ==
  ASSUME NEW x \in Nat, NEW d \in Nat
  PROVE  Wanted((x % Day) + d) = Wanted(x + d)
<1> DEFINE k == x \div Day
           r == x % Day
           k2 == (r + d) \div Day
           r2 == (r + d) % Day
<1>1. k \in Nat /\ r \in 0..Day-1 /\ x = k * Day + r
  BY DayOfMinutes, Division
<1> HIDE DEF k, r
<1>2. r + d \in Nat
  BY <1>1, DayOfMinutes
<1>3. k2 \in Nat /\ r2 \in 0..Day-1 /\ r + d = k2 * Day + r2
  BY <1>2, DayOfMinutes, Division
<1>4. (r + d) % Day = r2
  OBVIOUS
<1> HIDE DEF k2, r2
<1>5. x + d = (k + k2) * Day + r2 /\ k + k2 \in Nat
  BY <1>1, <1>3, DayOfMinutes
<1>6. (x + d) % Day = r2
  <2>1. ASSUME NEW n \in Nat, NEW q \in Nat, n = q * Day + r2 PROVE n % Day = r2
    BY <1>3, <2>1, DayOfMinutes, DivisionUnique
  <2>2. x + d \in Nat
    OBVIOUS
  <2> QED BY <1>5, <2>1, <2>2
<1>7. Minute(r + d) = Minute(x + d)
  BY <1>4, <1>6 DEF Minute
<1>8. Wanted(r + d) = Wanted(x + d)
  BY <1>2, <1>7, WantedByMinute
<1> QED BY <1>8 DEF r

-----------------------------------------------------------------------------
\* The wish of an answer is the schedule's for as long as the answer is valid.
Right(r) == \A d \in 0..r.valid-1 : Wanted(now + d) = r.unload
Replacing == Found /\ mine # None

AnswerShape(r) ==
  /\ r = [token |-> r.token, exp |-> r.exp, valid |-> r.valid, unload |-> r.unload]
  /\ r.valid \in Nat

Dates == now \in Nat /\ wrote \in 0..3 /\ AnswerShape(obj) /\ AnswerShape(reply)

\* While renew() replaces an answer that is still valid by another, both have
\* the same wish, so half of each is as good.
Answers ==
  /\ Right(obj) /\ Right(reply)
  /\ Replacing /\ (obj.valid > 0 \/ wrote >= 2) => obj.unload = reply.unload
  /\ wrote > 0 => Replacing

Reading ==
  owner = "checked" =>
    /\ obj.unload \in seen /\ Wanted(now) \in seen
    /\ Replacing => reply.unload \in seen

WishInv == Dates /\ Answers /\ Reading

LEMMA NothingRight == AnswerShape(NoLease) /\ Right(NoLease)
  BY DEF AnswerShape, Right, NoLease

LEMMA WishInit == Init => WishInv
<1> SUFFICES ASSUME Init PROVE WishInv
  OBVIOUS
<1>1. obj = NoLease /\ reply = NoLease /\ wrote = 0 /\ owner = "idle" /\ now \in 0..Day-1
  BY DEF Init
<1>2. Dates
  BY <1>1, NothingRight, DayOfMinutes DEF Dates
<1>3. ~Replacing
  BY <1>1 DEF Replacing, Found
<1> QED BY <1>1, <1>2, <1>3, NothingRight DEF WishInv, Answers, Reading

LEMMA LapseOfFields ==
  ASSUME NEW r, r = [token |-> r.token, exp |-> r.exp, valid |-> r.valid, unload |-> r.unload]
  PROVE  LapseOf(r) = [token |-> r.token, exp |-> Lapse(r.exp), valid |-> Lapse(r.valid),
                       unload |-> r.unload]
<1> DEFINE q == [r EXCEPT !.exp = Lapse(@)]
<1>1. q = [token |-> r.token, exp |-> Lapse(r.exp), valid |-> r.valid, unload |-> r.unload]
  OBVIOUS
<1>2. LapseOf(r) = [q EXCEPT !.valid = Lapse(r.valid)]
  BY DEF LapseOf
<1> HIDE DEF q
<1> QED BY <1>1, <1>2

\* What is left of an answer when renew() has written one field of another.
LEMMA FieldWritten ==
  ASSUME NEW r, NEW s,
         r = [token |-> r.token, exp |-> r.exp, valid |-> r.valid, unload |-> r.unload]
  PROVE  /\ [r EXCEPT !["exp"] = s] =
              [token |-> r.token, exp |-> s, valid |-> r.valid, unload |-> r.unload]
         /\ [r EXCEPT !["unload"] = s] =
              [token |-> r.token, exp |-> r.exp, valid |-> r.valid, unload |-> s]
         /\ [r EXCEPT !["valid"] = s] =
              [token |-> r.token, exp |-> r.exp, valid |-> s, unload |-> r.unload]
<1>1. /\ [r EXCEPT !["exp"] = s] = [r EXCEPT !.exp = s]
      /\ [r EXCEPT !["unload"] = s] = [r EXCEPT !.unload = s]
      /\ [r EXCEPT !["valid"] = s] = [r EXCEPT !.valid = s]
  OBVIOUS
<1>2. [r EXCEPT !.exp = s] =
         [token |-> r.token, exp |-> s, valid |-> r.valid, unload |-> r.unload]
  OBVIOUS
<1>3. [r EXCEPT !.unload = s] =
         [token |-> r.token, exp |-> r.exp, valid |-> r.valid, unload |-> s]
  OBVIOUS
<1>4. [r EXCEPT !.valid = s] =
         [token |-> r.token, exp |-> r.exp, valid |-> s, unload |-> r.unload]
  OBVIOUS
<1> QED BY <1>1, <1>2, <1>3, <1>4

\* Time takes from an answer what it no longer says.
LEMMA RightLapses ==
  ASSUME NEW r, now \in Nat, AnswerShape(r), Right(r), schedule' = schedule,
         now' = (now + 1) % Day
  PROVE  /\ AnswerShape(LapseOf(r))
         /\ \A d \in 0..LapseOf(r).valid-1 : Wanted(now + d)' = LapseOf(r).unload
         /\ LapseOf(r).unload = r.unload /\ LapseOf(r).token = r.token
         /\ LapseOf(r).valid > 0 => r.valid > 0
<1>1. LapseOf(r) = [token |-> r.token, exp |-> Lapse(r.exp), valid |-> Lapse(r.valid),
                    unload |-> r.unload]
  BY LapseOfFields DEF AnswerShape
<1>2. r.valid \in Nat
  BY DEF AnswerShape
<1>3. Lapse(r.valid) \in Nat /\ (Lapse(r.valid) > 0 => Lapse(r.valid) = r.valid - 1)
  BY <1>2 DEF Lapse
<1>4. ASSUME NEW d \in 0..Lapse(r.valid)-1 PROVE Wanted(now + d)' = r.unload
  <2>1. d \in Nat /\ d + 1 \in 0..r.valid-1
    BY <1>2, <1>3
  <2>2. Wanted(now + (d + 1)) = r.unload
    BY <2>1 DEF Right
  <2>3. Wanted(now + d)' = Wanted(((now + 1) % Day) + d)
    BY DEF Wanted, Requested
  <2>4. Wanted(((now + 1) % Day) + d) = Wanted(now + 1 + d)
    BY <2>1, WantedRound
  <2>5. now + 1 + d = now + (d + 1)
    BY <2>1
  <2> QED BY <2>2, <2>3, <2>4, <2>5
<1>5. LapseOf(r).valid > 0 => r.valid > 0
  BY <1>1, <1>2, <1>3
<1> QED BY <1>1, <1>3, <1>4, <1>5 DEF AnswerShape

LEMMA ElapseWish == KnownInv /\ WishInv /\ Elapse => WishInv'
<1> SUFFICES ASSUME KnownInv, WishInv, Elapse PROVE WishInv'
  OBVIOUS
<1>1. /\ now' = (now + 1) % Day /\ obj' = LapseOf(obj) /\ reply' = LapseOf(reply)
      /\ UNCHANGED <<schedule, mine, wrote, monitor, owner>>
      /\ owner = "checked" => seen' = seen \cup {Wanted(now')}
  BY DEF Elapse
<1>2. /\ now \in Nat /\ AnswerShape(obj) /\ AnswerShape(reply) /\ Right(obj) /\ Right(reply)
  BY DEF WishInv, Dates, Answers
<1>3. /\ AnswerShape(LapseOf(obj)) /\ LapseOf(obj).unload = obj.unload
      /\ LapseOf(obj).valid > 0 => obj.valid > 0
      /\ \A d \in 0..LapseOf(obj).valid-1 : Wanted(now + d)' = LapseOf(obj).unload
  BY <1>1, <1>2, RightLapses
<1>4. /\ AnswerShape(LapseOf(reply)) /\ LapseOf(reply).unload = reply.unload
      /\ LapseOf(reply).token = reply.token
      /\ \A d \in 0..LapseOf(reply).valid-1 : Wanted(now + d)' = LapseOf(reply).unload
  BY <1>1, <1>2, RightLapses
<1>5. now' \in Nat
  <2>1. now + 1 \in Nat
    BY <1>2
  <2> QED BY <1>1, <2>1, DayOfMinutes, Division
<1>6. Dates'
  BY <1>1, <1>3, <1>4, <1>5 DEF WishInv, Dates, AnswerShape
<1>7. Right(obj)' /\ Right(reply)'
  BY <1>1, <1>3, <1>4 DEF Right
<1>8. Replacing' = Replacing
  <2>1. reply = NoLease => reply' = NoLease
    <3>1. NoLease = [token |-> NoLease.token, exp |-> NoLease.exp, valid |-> NoLease.valid,
                     unload |-> NoLease.unload]
      BY DEF NoLease
    <3>2. LapseOf(NoLease) = [token |-> NoLease.token, exp |-> Lapse(NoLease.exp),
                              valid |-> Lapse(NoLease.valid), unload |-> NoLease.unload]
      BY <3>1, LapseOfFields
    <3>3. LapseOf(NoLease) = NoLease
      BY <3>2 DEF NoLease, Lapse
    <3> QED BY <1>1, <3>3
  <2>2. monitor = "answered" /\ reply # NoLease => reply' # NoLease
    <3>1. monitor = "answered" /\ reply # NoLease => reply.token # None
      BY NoneAssumption DEF KnownInv, RefreshInv
    <3>2. reply'.token = reply.token
      BY <1>1, <1>4
    <3>3. NoLease.token = None
      BY DEF NoLease
    <3> QED BY <3>1, <3>2, <3>3
  <2> QED BY <1>1, <2>1, <2>2 DEF Replacing, Found
<1>9. Answers'
  <2>1. obj'.unload = obj.unload /\ reply'.unload = reply.unload
    BY <1>1, <1>3, <1>4
  <2>2. obj'.valid > 0 => obj.valid > 0
    BY <1>1, <1>3
  <2>3. wrote' = wrote
    BY <1>1
  <2>4. Replacing' /\ (obj'.valid > 0 \/ wrote' >= 2) => obj'.unload = reply'.unload
    BY <1>8, <2>1, <2>2, <2>3 DEF WishInv, Answers
  <2>5. wrote' > 0 => Replacing'
    BY <1>8, <2>3 DEF WishInv, Answers
  <2> QED BY <1>7, <2>4, <2>5 DEF Answers
<1>10. Reading'
  <2> SUFFICES ASSUME owner' = "checked"
               PROVE  /\ obj'.unload \in seen' /\ Wanted(now)' \in seen'
                      /\ Replacing' => reply'.unload \in seen'
    BY DEF Reading
  <2>1. owner = "checked" /\ seen' = seen \cup {Wanted(now')}
    BY <1>1
  <2>2. obj.unload \in seen /\ (Replacing => reply.unload \in seen)
    BY <2>1 DEF WishInv, Reading
  <2>3. obj'.unload = obj.unload /\ reply'.unload = reply.unload
    BY <1>1, <1>3, <1>4
  <2>4. Wanted(now)' = Wanted(now')
    BY <1>1 DEF Wanted, Requested
  <2> QED BY <1>8, <2>1, <2>2, <2>3, <2>4
<1> QED BY <1>6, <1>9, <1>10 DEF WishInv

-----------------------------------------------------------------------------
\* Nothing but time and the schedule makes an answer wrong.
LEMMA StillRight ==
  ASSUME UNCHANGED <<now, schedule>>, NEW r, Right(r)
  PROVE  \A d \in 0..r.valid-1 : Wanted(now + d)' = r.unload
  BY DEF Right, Wanted, Requested

LEMMA SameWish ==
  ASSUME UNCHANGED <<now, schedule>>
  PROVE  Wanted(now)' = Wanted(now)
  BY DEF Wanted, Requested

\* Steps that leave the answers alone.
LEMMA AnswersAlone ==
  ASSUME WishInv, UNCHANGED <<now, schedule, obj, reply, mine, wrote, monitor>>,
         owner' # "checked" \/ UNCHANGED <<owner, seen>>
  PROVE  WishInv'
<1>1. Right(obj)' /\ Right(reply)'
  BY StillRight DEF WishInv, Answers, Right
<1>2. Replacing' = Replacing
  BY DEF Replacing, Found
<1>3. Answers'
  BY <1>1, <1>2 DEF WishInv, Answers
<1>4. Dates'
  BY DEF WishInv, Dates, AnswerShape
<1>5. Reading'
  BY <1>2, SameWish DEF WishInv, Reading
<1> QED BY <1>3, <1>4, <1>5 DEF WishInv

\* Steps after which no answer is being replaced.
LEMMA NotReplacing ==
  ASSUME WishInv, UNCHANGED <<now, schedule>>, ~Replacing', wrote' = 0,
         obj' \in {obj, reply, NoLease},
         AnswerShape(reply)', Right(reply)',
         owner' # "checked" \/ UNCHANGED <<owner, seen, obj>>
  PROVE  WishInv'
<1>1. AnswerShape(obj') /\ \A d \in 0..obj'.valid-1 : Wanted(now + d)' = obj'.unload
  <2>1. ASSUME NEW r \in {obj, reply, NoLease}
        PROVE  AnswerShape(r) /\ Right(r)
    BY NothingRight DEF WishInv, Dates, Answers
  <2> QED BY <2>1, StillRight
<1>2. Right(obj)'
  BY <1>1 DEF Right
<1>3. Answers'
  BY <1>2 DEF Answers
<1>4. Dates'
  BY <1>1 DEF WishInv, Dates, AnswerShape
<1>5. Reading'
  BY SameWish DEF WishInv, Reading
<1> QED BY <1>3, <1>4, <1>5 DEF WishInv

LEMMA KeptReply ==
  ASSUME WishInv, UNCHANGED <<now, schedule>>, reply' \in {reply, NoLease}
  PROVE  AnswerShape(reply)' /\ Right(reply)'
<1>1. ASSUME NEW r \in {reply, NoLease} PROVE AnswerShape(r) /\ Right(r)
  BY NothingRight DEF WishInv, Dates, Answers
<1>2. AnswerShape(reply') /\ \A d \in 0..reply'.valid-1 : Wanted(now + d)' = reply'.unload
  BY <1>1, StillRight
<1> QED BY <1>2 DEF AnswerShape, Right

\* What the broker answers is right and says what is wanted now.
LEMMA FreshRight ==
  ASSUME WishInv, UNCHANGED <<now, schedule>>, NEW t, reply' = Answer(t)
  PROVE  AnswerShape(reply)' /\ Right(reply)' /\ reply'.unload = Wanted(now)
<1>1. now \in Nat
  BY DEF WishInv, Dates
<1>2. ValidFor \in Nat /\ \A d \in 0..ValidFor-1 : Wanted(now + d) = Wanted(now)
  BY <1>1, ValidForIsRight, AgesNatural
<1>3. reply' = [token |-> t, exp |-> Ttl, valid |-> ValidFor, unload |-> Wanted(now)]
  BY DEF Answer
<1>4. Right(Answer(t))
  BY <1>2 DEF Right, Answer
<1>5. \A d \in 0..reply'.valid-1 : Wanted(now + d)' = reply'.unload
  BY <1>4, StillRight
<1>6. Right(reply)'
  BY <1>5 DEF Right
<1>7. AnswerShape(reply)'
  BY <1>2, <1>3 DEF AnswerShape
<1> QED BY <1>3, <1>6, <1>7

\* The answer to a renewal under way says what the answer it replaces says.
LEMMA BrokerWish == WishInv /\ (Subscribe \/ RenewPolicy) => WishInv'
<1> SUFFICES ASSUME WishInv, Subscribe \/ RenewPolicy PROVE WishInv'
  OBVIOUS
<1>1. /\ UNCHANGED <<now, schedule, obj, mine, wrote, owner, seen>>
      /\ monitor = "asked" /\ monitor' = "answered"
  BY DEF Subscribe, RenewPolicy, keeperVars, ownerVars
<1>2. wrote = 0
  BY <1>1 DEF WishInv, Dates, Answers, Replacing, Found
<1>3. CASE Subscribe
  <2>1. mine = None /\ \E t \in New : reply' = Answer(t)
    BY <1>3 DEF Subscribe
  <2>2. AnswerShape(reply)' /\ Right(reply)'
    BY <1>1, <2>1, FreshRight
  <2>3. ~Replacing'
    BY <1>1, <2>1 DEF Replacing
  <2> QED BY <1>1, <1>2, <2>2, <2>3, NotReplacing
<1>4. CASE RenewPolicy /\ reply' = NoLease
  <2>1. AnswerShape(reply)' /\ Right(reply)'
    BY <1>1, <1>4, KeptReply
  <2>2. ~Replacing'
    BY <1>4 DEF Replacing, Found
  <2> QED BY <1>1, <1>2, <2>1, <2>2, NotReplacing
<1>5. CASE RenewPolicy /\ reply' = Answer(mine)
  <2>1. AnswerShape(reply)' /\ Right(reply)' /\ reply'.unload = Wanted(now)
    BY <1>1, <1>5, FreshRight
  <2>2. Right(obj) /\ obj.valid \in Nat
    BY DEF WishInv, Answers, Dates, AnswerShape
  <2>3. now \in Nat
    BY DEF WishInv, Dates
  <2>4. obj.valid > 0 => obj.unload = Wanted(now)
    <3> SUFFICES ASSUME obj.valid > 0 PROVE obj.unload = Wanted(now)
      OBVIOUS
    <3>1. 0 \in 0..obj.valid-1
      BY <2>2
    <3>2. Wanted(now + 0) = obj.unload
      BY <2>2, <3>1 DEF Right
    <3> QED BY <2>3, <3>2
  <2>5. Right(obj)'
    BY <1>1, <2>2, StillRight DEF Right
  <2>6. Answers'
    BY <1>1, <1>2, <2>1, <2>4, <2>5 DEF Answers
  <2>7. Dates'
    BY <1>1, <2>1 DEF WishInv, Dates, AnswerShape
  <2>8. Reading'
    <3>1. owner = "checked" => obj.unload \in seen /\ Wanted(now) \in seen
      BY DEF WishInv, Reading
    <3> QED BY <1>1, <2>1, <3>1, SameWish DEF Reading
  <2> QED BY <2>6, <2>7, <2>8 DEF WishInv
<1> QED BY <1>3, <1>4, <1>5 DEF RenewPolicy

\* The wish is written before the date that vouches for it.
LEMMA WriteWish == WishInv /\ WriteField => WishInv'
<1> SUFFICES ASSUME WishInv, WriteField PROVE WishInv'
  OBVIOUS
<1>1. /\ UNCHANGED <<now, schedule, mine, reply, monitor, owner, seen>>
      /\ Replacing /\ wrote \in {0, 1, 2} /\ wrote' = wrote + 1
      /\ obj' = [obj EXCEPT ![Fields[wrote + 1]] = reply[Fields[wrote + 1]]]
  BY DEF WriteField, Replacing, ownerVars, WishInv, Dates
<1>2. /\ obj = [token |-> obj.token, exp |-> obj.exp, valid |-> obj.valid,
                unload |-> obj.unload]
      /\ obj.valid \in Nat /\ reply.valid \in Nat
  BY DEF WishInv, Dates, AnswerShape
<1>3. /\ Right(obj) /\ Right(reply)
      /\ obj.valid > 0 \/ wrote >= 2 => obj.unload = reply.unload
  BY <1>1 DEF WishInv, Answers
<1>4. Replacing'
  BY <1>1 DEF Replacing, Found
<1>5. Fields[1] = "exp" /\ Fields[2] = "unload" /\ Fields[3] = "valid"
  BY DEF Fields
<1>6. /\ AnswerShape(obj')
      /\ obj'.valid > 0 \/ wrote' >= 2 => obj'.unload = reply.unload
      /\ obj'.unload \in {obj.unload, reply.unload}
      /\ obj'.valid \in {obj.valid, reply.valid}
  <2>1. CASE wrote = 0
    <3>1. obj' = [token |-> obj.token, exp |-> reply.exp, valid |-> obj.valid,
                  unload |-> obj.unload]
      <4>1. Fields[wrote + 1] = "exp"
        BY <1>5, <2>1
      <4>2. obj' = [obj EXCEPT !["exp"] = reply["exp"]]
        BY <1>1, <4>1
      <4> QED BY <1>2, <4>2, FieldWritten
    <3>2. AnswerShape(obj') /\ obj'.valid = obj.valid /\ obj'.unload = obj.unload
      BY <1>2, <3>1 DEF AnswerShape
    <3>3. wrote' = 1
      BY <1>1, <2>1
    <3> QED BY <1>3, <2>1, <3>2, <3>3
  <2>2. CASE wrote = 1
    <3>1. obj' = [token |-> obj.token, exp |-> obj.exp, valid |-> obj.valid,
                  unload |-> reply.unload]
      <4>1. Fields[wrote + 1] = "unload"
        BY <1>5, <2>2
      <4>2. obj' = [obj EXCEPT !["unload"] = reply["unload"]]
        BY <1>1, <4>1
      <4> QED BY <1>2, <4>2, FieldWritten
    <3>2. AnswerShape(obj') /\ obj'.valid = obj.valid /\ obj'.unload = reply.unload
      BY <1>2, <3>1 DEF AnswerShape
    <3>3. wrote' = 2
      BY <1>1, <2>2
    <3> QED BY <1>3, <2>2, <3>2, <3>3
  <2>3. CASE wrote = 2
    <3>1. obj' = [token |-> obj.token, exp |-> obj.exp, valid |-> reply.valid,
                  unload |-> obj.unload]
      <4>1. Fields[wrote + 1] = "valid"
        BY <1>5, <2>3
      <4>2. obj' = [obj EXCEPT !["valid"] = reply["valid"]]
        BY <1>1, <4>1
      <4> QED BY <1>2, <4>2, FieldWritten
    <3>2. AnswerShape(obj') /\ obj'.valid = reply.valid /\ obj'.unload = obj.unload
      BY <1>2, <3>1 DEF AnswerShape
    <3>3. wrote' = 3
      BY <1>1, <2>3
    <3> QED BY <1>3, <2>3, <3>2, <3>3
  <2> QED BY <1>1, <2>1, <2>2, <2>3
<1>7. \A d \in 0..obj'.valid-1 : Wanted(now + d)' = obj'.unload
  <2> SUFFICES ASSUME NEW d \in 0..obj'.valid-1 PROVE Wanted(now + d)' = obj'.unload
    OBVIOUS
  <2>1. obj'.valid > 0
    BY <1>2, <1>6
  <2>2. obj'.unload = reply.unload
    BY <1>6, <2>1
  <2>3. CASE obj'.valid = reply.valid
    BY <1>1, <1>3, <2>2, <2>3, StillRight
  <2>4. CASE obj'.valid = obj.valid
    <3>1. obj.unload = reply.unload
      BY <1>3, <2>1, <2>4
    <3>2. Wanted(now + d)' = obj.unload
      BY <1>1, <1>3, <2>4, StillRight
    <3> QED BY <2>2, <3>1, <3>2
  <2> QED BY <1>6, <2>3, <2>4
<1>8. Right(reply)'
  BY <1>1, <1>3, StillRight DEF Right
<1>9. Right(obj)'
  BY <1>7 DEF Right
<1>10. Answers'
  BY <1>1, <1>4, <1>6, <1>8, <1>9 DEF Answers
<1>11. Dates'
  BY <1>1, <1>6 DEF WishInv, Dates, AnswerShape
<1>12. Reading'
  <2>1. owner = "checked" => obj.unload \in seen /\ reply.unload \in seen /\ Wanted(now) \in seen
    BY <1>1 DEF WishInv, Reading
  <2> QED BY <1>1, <1>6, <2>1, SameWish DEF Reading
<1> QED BY <1>10, <1>11, <1>12 DEF WishInv

\* The other steps of the monitor store an answer while nobody reads, or none.
LEMMA MonitorWish ==
  WishInv /\ (Ask \/ RequestFails \/ NotFound \/ Store \/ Rest \/ MonitorEnds) => WishInv'
<1> SUFFICES ASSUME WishInv, Ask \/ RequestFails \/ NotFound \/ Store \/ Rest \/ MonitorEnds
             PROVE  WishInv'
  OBVIOUS
<1> USE DEF keeperVars, ownerVars, monitorVars, RefreshReturns
<1>1. UNCHANGED <<now, schedule, owner, seen>> /\ reply' \in {reply, NoLease}
  BY DEF Ask, RequestFails, NotFound, Store, Rest, MonitorEnds
<1>2. AnswerShape(reply)' /\ Right(reply)'
  BY <1>1, KeptReply
<1>3. obj' \in {obj, reply, NoLease} /\ (owner' # "checked" \/ UNCHANGED obj)
  BY <1>1 DEF Ask, RequestFails, NotFound, Store, Rest, MonitorEnds, LockFree
<1>4. ~Replacing'
  <2>1. monitor' \in {"asked", "done", "waiting", "ended"}
    BY DEF Ask, RequestFails, NotFound, Store, Rest, MonitorEnds
  <2> QED BY <2>1 DEF Replacing, Found
<1>5. wrote' = 0
  <2>1. CASE Ask \/ RequestFails \/ NotFound \/ Store
    BY <2>1 DEF Ask, RequestFails, NotFound, Store
  <2>2. CASE Rest \/ MonitorEnds
    <3>1. monitor # "answered" /\ wrote' = wrote
      BY <2>2 DEF Rest, MonitorEnds
    <3>2. ~(wrote > 0) /\ wrote \in 0..3
      BY <3>1 DEF WishInv, Answers, Dates, Replacing, Found
    <3> QED BY <3>1, <3>2
  <2> QED BY <2>1, <2>2
<1> QED BY <1>1, <1>2, <1>3, <1>4, <1>5, NotReplacing

\* What the owner looks at is valid, hence what the schedule wants now.
LEMMA OwnerWish ==
  WishInv /\ (Look \/ ReadWish \/ CloseBegins \/ CloseTakesLease \/ ReleasePolicy) => WishInv'
<1> SUFFICES ASSUME WishInv,
                    Look \/ ReadWish \/ CloseBegins \/ CloseTakesLease \/ ReleasePolicy
             PROVE  WishInv'
  OBVIOUS
<1> USE DEF keeperVars, monitorVars
<1>1. UNCHANGED <<now, schedule, mine, reply, wrote, monitor>>
  BY DEF Look, ReadWish, CloseBegins, CloseTakesLease, ReleasePolicy
<1>2. CASE Look
  <2>1. UNCHANGED obj /\ owner' = "checked" /\ seen' = {Wanted(now)} /\ obj.valid > 0
    BY <1>2 DEF Look, Known
  <2>2. Right(obj) /\ Right(reply) /\ obj.valid \in Nat /\ now \in Nat
    BY DEF WishInv, Answers, Dates, AnswerShape
  <2>3. obj.unload = Wanted(now)
    <3>1. 0 \in 0..obj.valid-1
      BY <2>1, <2>2
    <3>2. Wanted(now + 0) = obj.unload
      BY <2>2, <3>1 DEF Right
    <3> QED BY <2>2, <3>2
  <2>4. Replacing => reply.unload = obj.unload
    BY <2>1 DEF WishInv, Answers
  <2>5. Replacing' = Replacing
    BY <1>1 DEF Replacing, Found
  <2>6. Right(obj)' /\ Right(reply)'
    BY <1>1, <2>1, <2>2, StillRight DEF Right
  <2>7. Answers'
    BY <1>1, <2>1, <2>5, <2>6 DEF WishInv, Answers
  <2>8. Dates'
    BY <1>1, <2>1 DEF WishInv, Dates, AnswerShape
  <2>9. Reading'
    BY <1>1, <2>1, <2>3, <2>4, <2>5, SameWish DEF Reading
  <2> QED BY <2>7, <2>8, <2>9 DEF WishInv
<1>3. CASE ReadWish \/ CloseBegins \/ ReleasePolicy
  <2>1. UNCHANGED obj /\ owner' # "checked"
    BY <1>3 DEF ReadWish, CloseBegins, ReleasePolicy
  <2> QED BY <1>1, <2>1, AnswersAlone
<1>4. CASE CloseTakesLease
  <2>1. owner' # "checked"
    BY <1>4 DEF CloseTakesLease
  <2>2. CASE mine # None
    <3>1. UNCHANGED obj
      BY <1>4, <2>2 DEF CloseTakesLease
    <3> QED BY <1>1, <2>1, <3>1, AnswersAlone
  <2>3. CASE mine = None
    <3>1. ~Replacing /\ ~Replacing'
      BY <1>1, <2>3 DEF Replacing
    <3>2. wrote' = 0
      BY <1>1, <3>1 DEF WishInv, Answers, Dates
    <3>3. obj' = NoLease
      BY <1>4, <2>3 DEF CloseTakesLease
    <3>4. AnswerShape(reply)' /\ Right(reply)'
      BY <1>1, KeptReply
    <3> QED BY <1>1, <2>1, <3>1, <3>2, <3>3, <3>4, NotReplacing
  <2> QED BY <2>2, <2>3
<1> QED BY <1>2, <1>3, <1>4

LEMMA WishNext == KnownInv /\ WishInv /\ [Next]_vars => WishInv'
<1> SUFFICES ASSUME KnownInv, WishInv, [Next]_vars PROVE WishInv'
  OBVIOUS
<1>1. CASE Elapse
  BY <1>1, ElapseWish
<1>2. CASE LateAnswer \/ BrokerRestarts
  <2>1. UNCHANGED <<now, schedule, obj, reply, mine, wrote, monitor, owner, seen>>
    BY <1>2 DEF LateAnswer, BrokerRestarts, keeperVars, monitorVars, ownerVars
  <2> QED BY <2>1, AnswersAlone
<1>3. CASE UNCHANGED vars
  <2>1. UNCHANGED <<now, schedule, obj, reply, mine, wrote, monitor, owner, seen>>
    BY <1>3 DEF vars, keeperVars, monitorVars, ownerVars
  <2> QED BY <2>1, AnswersAlone
<1> QED
  BY <1>1, <1>2, <1>3, BrokerWish, WriteWish, MonitorWish, OwnerWish
  DEF Next, Broker, Refresh, Fault, Close

\* A wish that unload_requested returns was the schedule's at some moment of
\* the call, for any schedule and whatever the monitor replaces meanwhile.
THEOREM WishIsCurrent == Spec => []NeverStale
<1>1. Init => KnownInv /\ WishInv
  BY KnownInit, WishInit
<1>2. KnownInv /\ WishInv /\ [Next]_vars => (KnownInv /\ WishInv)'
  BY KnownNext, WishNext
<1>3. KnownInv /\ WishInv => NeverStale
  BY DEF WishInv, Reading, NeverStale
<1> QED BY <1>1, <1>2, <1>3, PTL DEF Spec
=============================================================================
