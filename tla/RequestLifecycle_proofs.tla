----------------------- MODULE RequestLifecycle_proofs -----------------------
(***************************************************************************)
(* Proofs about RequestLifecycle, for any number of handlers and ids and   *)
(* whatever the bounds: a request whose cancellation was acknowledged      *)
(* never starts another unit, the registry keeps to its size, whoever has  *)
(* a place finds a ticket, and background work is never in the queue.      *)
(***************************************************************************)
EXTENDS RequestLifecycle, FiniteSetTheorems, SequenceTheorems, TLAPS

\* What the argument needs of the types: the shape of the functions.
Shape ==
  /\ place \in [Handler -> Places] /\ id \in [Handler -> Id \cup {None}]
  /\ stale \subseteq Handler /\ retired \subseteq Id /\ active \subseteq Id

\* A handler has an id exactly while it serves a request, and that id is in
\* the registry for it alone.
OwnsItsId ==
  /\ \A h \in Handler : place[h] # "out" => id[h] \in active
  /\ \A h \in Handler : place[h] = "out" => id[h] = None
  /\ \A h, g \in Handler : id[h] = id[g] /\ id[h] # None => h = g

\* A cancelled id is served by a handler that knows, or cannot be registered.
CancelIsKnown ==
  /\ acked \subseteq active \cup retired
  /\ \A h \in Handler : id[h] \in acked => h \in stale
  /\ active \cap retired = {}

IInv == Shape /\ OwnsItsId /\ CancelIsKnown

LEMMA InitIInv == Init => IInv
<1> SUFFICES ASSUME Init PROVE IInv
  OBVIOUS
<1>. USE SizeAssumption DEF Init
<1>1. Shape
  BY DEF Shape, Places
<1>2. OwnsItsId
  BY DEF OwnsItsId
<1>3. CancelIsKnown
  BY DEF CancelIsKnown
<1>. QED  BY <1>1, <1>2, <1>3 DEF IInv

\* The steps that leave the registry and its marks alone: only places change,
\* and never to or from "out".
Inside(h) ==
  /\ place[h] # "out"
  /\ \E p \in Places \ {"out"} : place' = [place EXCEPT ![h] = p]
  /\ UNCHANGED <<id, stale, active, retired, acked>>

LEMMA InsideKeeps ==
  ASSUME IInv, NEW h \in Handler, Inside(h)
  PROVE  IInv'
<1>1. PICK p \in Places \ {"out"} : place' = [place EXCEPT ![h] = p]
  BY DEF Inside
<1>2. Shape'
  BY <1>1 DEF IInv, Shape, Inside
<1>3. OwnsItsId'
  BY <1>1 DEF IInv, Shape, OwnsItsId, Inside
<1>4. CancelIsKnown'
  BY DEF IInv, CancelIsKnown, Inside
<1>. QED  BY <1>2, <1>3, <1>4 DEF IInv

LEMMA InsideSteps ==
  ASSUME IInv, NEW h \in Handler,
         \/ Reject(h) \/ Reserve(h) \/ Unreserve(h) \/ Refused(h)
         \/ StartAtOnce(h) \/ TakeTicket(h) \/ Admit(h) \/ Abandon(h)
         \/ EndUnit(h) \/ NextSegment(h)
  PROVE  Inside(h)
<1>. USE DEF Inside, Places, MoveTo, Turn, SkipUnit, handlerVars, registryVars
<1>1. CASE Reject(h) \/ Reserve(h) \/ Unreserve(h)
  BY <1>1 DEF Reject, Reserve, Unreserve
<1>2. CASE Refused(h)
  BY <1>2 DEF Refused
<1>3. CASE StartAtOnce(h) \/ TakeTicket(h) \/ Admit(h)
  BY <1>3 DEF StartAtOnce, TakeTicket, Admit
<1>4. CASE Abandon(h)
  BY <1>4 DEF Abandon
<1>5. CASE EndUnit(h)
  BY <1>5 DEF EndUnit
<1>6. CASE NextSegment(h)
  BY <1>6 DEF NextSegment
<1>. QED  BY <1>1, <1>2, <1>3, <1>4, <1>5, <1>6

LEMMA RegisterKeeps ==
  ASSUME IInv, NEW h \in Handler, Register(h)
  PROVE  IInv'
<1>1. PICK i \in Id \ (active \cup retired) :
        active' = active \cup {i} /\ id' = [id EXCEPT ![h] = i]
  BY DEF Register
<1>2. /\ place[h] = "out" /\ place' = [place EXCEPT ![h] = "registered"]
      /\ stale' = stale \ {h} /\ UNCHANGED <<retired, acked>>
  BY DEF Register, MoveTo
<1>3. Shape'
  BY <1>1, <1>2 DEF IInv, Shape, Places
<1>4. OwnsItsId'
  <2>1. \A g \in Handler : id[g] # i
    BY <1>1, SizeAssumption DEF IInv, OwnsItsId, Shape
  <2>2. \A g \in Handler : id'[g] = IF g = h THEN i ELSE id[g]
    BY <1>1 DEF IInv, Shape
  <2>3. \A g \in Handler : place'[g] = IF g = h THEN "registered" ELSE place[g]
    BY <1>2 DEF IInv, Shape
  <2>. QED  BY <1>1, <2>1, <2>2, <2>3 DEF IInv, OwnsItsId
<1>5. CancelIsKnown'
  <2>1. \A g \in Handler : id'[g] = IF g = h THEN i ELSE id[g]
    BY <1>1 DEF IInv, Shape
  <2>. QED  BY <1>1, <1>2, <2>1 DEF IInv, CancelIsKnown
<1>. QED  BY <1>3, <1>4, <1>5 DEF IInv

LEMMA FinishKeeps ==
  ASSUME IInv, NEW h \in Handler, Finish(h)
  PROVE  IInv'
<1>1. /\ place[h] = "finishing" /\ place' = [place EXCEPT ![h] = "out"]
      /\ id' = [id EXCEPT ![h] = None]
      /\ active' = active \ {id[h]} /\ retired' = retired \cup {id[h]}
      /\ UNCHANGED <<stale, acked>>
  BY DEF Finish, Turn, MoveTo
<1>2. /\ \A g \in Handler : id'[g] = IF g = h THEN None ELSE id[g]
      /\ \A g \in Handler : place'[g] = IF g = h THEN "out" ELSE place[g]
  BY <1>1 DEF IInv, Shape
<1>3. id[h] \in active /\ id[h] # None
  BY <1>1, SizeAssumption DEF IInv, OwnsItsId, Shape
<1>4. Shape'
  BY <1>1, <1>3 DEF IInv, Shape, Places
<1>5. OwnsItsId'
  BY <1>1, <1>2, <1>3 DEF IInv, OwnsItsId
<1>6. CancelIsKnown'
  <2>1. None \notin acked
    BY SizeAssumption DEF IInv, CancelIsKnown, Shape
  <2>. QED  BY <1>1, <1>2, <1>3, <2>1 DEF IInv, CancelIsKnown
<1>. QED  BY <1>4, <1>5, <1>6 DEF IInv

LEMMA CancelKeeps ==
  ASSUME IInv, NEW i \in Id, Cancel(i)
  PROVE  IInv'
<1>1. UNCHANGED <<place, id, active>> /\ acked' = acked \cup {i}
  BY DEF Cancel, handlerVars
<1>2. CASE i \in active
  <2>1. stale' = stale \cup {h \in Handler : id[h] = i} /\ retired' = retired
    BY <1>2 DEF Cancel
  <2>. QED  BY <1>1, <1>2, <2>1 DEF IInv, Shape, OwnsItsId, CancelIsKnown
<1>3. CASE i \notin active
  <2>1. retired' = retired \cup {i} /\ stale' = stale
    BY <1>3 DEF Cancel
  <2>2. \A h \in Handler : id[h] # i
    BY <1>3, SizeAssumption DEF IInv, OwnsItsId, Shape
  <2>. QED  BY <1>1, <1>3, <2>1, <2>2 DEF IInv, Shape, OwnsItsId, CancelIsKnown
<1>. QED  BY <1>2, <1>3

LEMMA OthersKeep ==
  ASSUME IInv,
         \/ UNCHANGED vars
         \/ \E i \in Id : RetirementEnds(i)
         \/ \E h \in Handler : GoesStale(h)
  PROVE  IInv'
<1>. USE DEF IInv, Shape, OwnsItsId, CancelIsKnown, handlerVars, registryVars
<1>1. CASE UNCHANGED vars
  BY <1>1 DEF vars
<1>2. CASE \E i \in Id : RetirementEnds(i)
  BY <1>2 DEF RetirementEnds
<1>3. CASE \E h \in Handler : GoesStale(h)
  BY <1>3 DEF GoesStale
<1>. QED  BY <1>1, <1>2, <1>3

LEMMA StepIInv == IInv /\ [Next]_vars => IInv'
BY InsideSteps, InsideKeeps, RegisterKeeps, FinishKeeps, CancelKeeps, OthersKeep
   DEF Next

\* No unit of a cancelled request is started: the handler that owns the id is
\* stale, and a stale handler passes only to its cleanup.
LEMMA StepHonoursCancel ==
  ASSUME IInv, [Next]_vars, NEW h \in Handler,
         place[h] # "computing", place'[h] = "computing", duty[h] # "cleanup"
  PROVE  id[h] \notin acked
<1>1. Passes(h)
  <2>1. CASE UNCHANGED vars
    BY <2>1 DEF vars, handlerVars
  <2>2. CASE \E i \in Id : Cancel(i) \/ RetirementEnds(i)
    BY <2>2 DEF Cancel, RetirementEnds, handlerVars
  <2>3. CASE \E g \in Handler : Register(g) \/ Reject(g) \/ Finish(g) \/ GoesStale(g)
                                \/ Reserve(g) \/ Unreserve(g)
    BY <2>3 DEF Register, Reject, Finish, GoesStale, Reserve, Unreserve, MoveTo,
       Turn, handlerVars, IInv, Shape
  <2>4. CASE \E g \in Handler : Refused(g) \/ TakeTicket(g) \/ Abandon(g)
                                \/ EndUnit(g) \/ NextSegment(g)
    BY <2>4 DEF Refused, TakeTicket, Abandon, EndUnit, NextSegment, SkipUnit,
       MoveTo, Turn, IInv, Shape
  <2>5. CASE \E g \in Handler : StartAtOnce(g) \/ Admit(g)
    BY <2>5 DEF StartAtOnce, Admit, MoveTo, IInv, Shape
  <2>. QED  BY <2>1, <2>2, <2>3, <2>4, <2>5 DEF Next
<1>. QED  BY <1>1 DEF Passes, IInv, CancelIsKnown

\* A request whose cancellation was acknowledged never starts another unit.
THEOREM CancelHonoured == Spec => CancelledNeverStarts
<1>1. IInv /\ [Next]_vars =>
        [ \A h \in Handler :
            place[h] # "computing" /\ place'[h] = "computing" /\ duty[h] # "cleanup" =>
              id[h] \notin acked ]_vars
  BY StepHonoursCancel
<1>. QED  BY InitIInv, StepIInv, <1>1, PTL DEF Spec, CancelledNeverStarts

-----------------------------------------------------------------------------
\* The bounds of the registry.  That an id which finishes was active, so that
\* finishing moves an entry and adds none, is OwnsItsId.
Bounded == RegistryBounded /\ background \subseteq Id

LEMMA Counts ==
  ASSUME NEW S \in SUBSET Id, NEW i \in Id
  PROVE  /\ IsFiniteSet(S) /\ Cardinality(S) \in Nat
         /\ Cardinality(S \cup {i}) = Cardinality(S) + (IF i \in S THEN 0 ELSE 1)
         /\ Cardinality(S \ {i}) = Cardinality(S) - (IF i \in S THEN 1 ELSE 0)
<1>1. IsFiniteSet(S) /\ Cardinality(S) \in Nat
  BY SizeAssumption, FS_Subset, FS_CardinalityType
<1>2. Cardinality(S \cup {i}) = IF i \in S THEN Cardinality(S) ELSE Cardinality(S) + 1
  BY <1>1, FS_AddElement
<1>3. Cardinality(S \ {i}) = IF i \in S THEN Cardinality(S) - 1 ELSE Cardinality(S)
  BY <1>1, FS_RemoveElement
<1>. QED  BY <1>1, <1>2, <1>3

LEMMA InitBounded == Init => Bounded
<1>. SUFFICES ASSUME Init PROVE Bounded
  OBVIOUS
<1>1. Cardinality({}) = 0
  BY FS_EmptySet
<1>. QED  BY <1>1, SizeAssumption DEF Init, Bounded, RegistryBounded, Entries

LEMMA StepBounded ==
  ASSUME IInv, Bounded, [Next]_vars
  PROVE  Bounded'
<1>. USE SizeAssumption DEF Bounded, RegistryBounded, Entries
<1>a. active \in SUBSET Id /\ retired \in SUBSET Id /\ background \in SUBSET Id
  BY DEF IInv, Shape
<1>b. /\ Cardinality(active) \in Nat /\ Cardinality(retired) \in Nat
      /\ Cardinality(background) \in Nat
  BY <1>a, SizeAssumption, FS_Subset, FS_CardinalityType
<1>1. ASSUME UNCHANGED registryVars
      PROVE  Bounded'
  BY <1>1 DEF registryVars
<1>2. ASSUME NEW h \in Handler, Register(h)
      PROVE  Bounded'
  <2>1. PICK i \in Id \ (active \cup retired), c \in Classes :
          /\ c = "background" => BackgroundFits
          /\ active' = active \cup {i}
          /\ background' = IF c = "background" THEN background \cup {i}
                                               ELSE background
    BY <1>2 DEF Register
  <2>2. retired' = retired /\ Entries < RegistryCapacity
    BY <1>2 DEF Register
  <2>3. Cardinality(active') = Cardinality(active) + 1
    BY <1>a, <2>1, Counts
  <2>3a. background \cup {i} \subseteq Id
    BY <1>a, <2>1
  <2>4. CASE c = "background"
    <3>1. Cardinality(background') =
            Cardinality(background) + (IF i \in background THEN 0 ELSE 1)
      BY <1>a, <2>1, <2>4, Counts
    <3>2. Cardinality(background) < BackgroundQuota
      BY <2>1, <2>4 DEF BackgroundFits
    <3>3. Cardinality(background') <= BackgroundQuota
      BY <1>b, <3>1, <3>2
    <3>4. Cardinality(active') + Cardinality(retired') <= RegistryCapacity
      BY <1>b, <2>2, <2>3
    <3>. QED  BY <2>1, <2>3a, <2>4, <3>3, <3>4
  <2>5. CASE c # "background"
    <3>1. Cardinality(active') + Cardinality(retired') <= RegistryCapacity
      BY <1>b, <2>2, <2>3
    <3>. QED  BY <2>1, <2>5, <3>1
  <2>. QED  BY <2>4, <2>5
<1>3. ASSUME NEW h \in Handler, Finish(h)
      PROVE  Bounded'
  <2>1. id[h] \in active /\ id[h] \in Id
    BY <1>3, <1>a DEF Finish, IInv, OwnsItsId
  <2>2. /\ active' = active \ {id[h]} /\ retired' = retired \cup {id[h]}
        /\ background' = background
    BY <1>3 DEF Finish
  <2>3. Cardinality(active') = Cardinality(active) - 1
    BY <1>a, <2>1, <2>2, Counts
  <2>4. Cardinality(retired') = Cardinality(retired) + (IF id[h] \in retired THEN 0 ELSE 1)
    BY <1>a, <2>1, <2>2, Counts
  <2>5. Cardinality(active') + Cardinality(retired') <= RegistryCapacity
    BY <1>b, <2>3, <2>4
  <2>. QED  BY <2>2, <2>5
<1>4. ASSUME NEW i \in Id, Cancel(i)
      PROVE  Bounded'
  <2>1. UNCHANGED <<active, background>>
    BY <1>4 DEF Cancel
  <2>2. CASE i \in active
    BY <1>4, <2>1, <2>2 DEF Cancel
  <2>3. CASE i \notin active
    <3>1. retired' = retired \cup {i} /\ (i \in retired \/ Entries < RegistryCapacity)
      BY <1>4, <2>3 DEF Cancel
    <3>2. Cardinality(retired') =
            Cardinality(retired) + (IF i \in retired THEN 0 ELSE 1)
      BY <1>a, <3>1, Counts
    <3>. QED  BY <1>b, <2>1, <3>1, <3>2
  <2>. QED  BY <2>2, <2>3
<1>5. ASSUME NEW i \in Id, RetirementEnds(i)
      PROVE  Bounded'
  <2>1. /\ active' = active /\ retired' = retired \ {i}
        /\ background' = background \ {i}
    BY <1>5 DEF RetirementEnds
  <2>2. Cardinality(retired') = Cardinality(retired) - (IF i \in retired THEN 1 ELSE 0)
    BY <1>a, <2>1, Counts
  <2>3. Cardinality(background') =
          Cardinality(background) - (IF i \in background THEN 1 ELSE 0)
    BY <1>a, <2>1, Counts
  <2>4. /\ Cardinality(active') + Cardinality(retired') <= RegistryCapacity
        /\ Cardinality(background') <= BackgroundQuota
    BY <1>b, <2>1, <2>2, <2>3
  <2>. QED  BY <2>1, <2>4
<1>6. ASSUME NEW h \in Handler,
             \/ Reject(h) \/ GoesStale(h) \/ Reserve(h) \/ Unreserve(h) \/ Refused(h)
             \/ StartAtOnce(h) \/ TakeTicket(h) \/ Admit(h) \/ Abandon(h)
             \/ EndUnit(h) \/ NextSegment(h)
      PROVE  UNCHANGED registryVars
  BY <1>6 DEF Reject, GoesStale, Reserve, Unreserve, Refused, StartAtOnce,
     TakeTicket, Admit, Abandon, EndUnit, NextSegment
<1>7. CASE UNCHANGED vars
  BY <1>1, <1>7 DEF vars
<1>. QED  BY <1>1, <1>2, <1>3, <1>4, <1>5, <1>6, <1>7 DEF Next

\* The registry keeps to its size and background ids to their share.
THEOREM RegistryKeepsItsSize == Spec => []RegistryBounded
<1>1. Bounded => RegistryBounded
  BY DEF Bounded
<1>. QED  BY InitIInv, StepIInv, InitBounded, StepBounded, <1>1, PTL DEF Spec

-----------------------------------------------------------------------------
\* The queue.  Who holds a reservation, who is queued, and who computes.
Placeless == {"out", "registered", "finishing"}
Holders == {h \in Handler : place[h] \notin Placeless}
Queued == {h \in Handler : place[h] = "waiting"}
Computing == {h \in Handler : place[h] = "computing"}

Kinds ==
  /\ place \in [Handler -> Places] /\ class \in [Handler -> Classes]
  /\ waiters \in Seq(Handler) /\ busy \in BOOLEAN

\* The counters count: that no ticket is refused follows from these numbers.
Counted ==
  /\ reserved = Cardinality(Holders) /\ reserved <= Slots
  /\ Len(waiters) = Cardinality(Queued)
  /\ Cardinality(Computing) = IF busy THEN 1 ELSE 0

\* Each ticket is of another handler, which waits and is of the foreground.
QueueOfForeground ==
  /\ \A i \in 1..Len(waiters) :
       place[waiters[i]] = "waiting" /\ class[waiters[i]] = "foreground"
  /\ \A i, j \in 1..Len(waiters) : waiters[i] = waiters[j] => i = j

QInv == Kinds /\ Counted /\ QueueOfForeground

LEMMA InitQInv == Init => QInv
<1>. SUFFICES ASSUME Init PROVE QInv
  OBVIOUS
<1>. USE SizeAssumption DEF Init
<1>1. Kinds
  <2>1. place \in [Handler -> Places] /\ class \in [Handler -> Classes]
    BY DEF Places, Classes
  <2>2. waiters \in Seq(Handler)
    OBVIOUS
  <2>3. busy \in BOOLEAN
    OBVIOUS
  <2>. QED  BY <2>1, <2>2, <2>3 DEF Kinds
<1>2. Holders = {} /\ Queued = {} /\ Computing = {}
  BY DEF Holders, Queued, Computing, Placeless
<1>3. Cardinality({}) = 0
  BY FS_EmptySet
<1>4. Counted
  BY <1>2, <1>3 DEF Counted
<1>5. QueueOfForeground
  BY DEF QueueOfForeground
<1>. QED  BY <1>1, <1>4, <1>5 DEF QInv

\* What one handler's move does to the numbers.
LEMMA HandlerCounts ==
  ASSUME NEW S \in SUBSET Handler, NEW h \in Handler
  PROVE  /\ IsFiniteSet(S) /\ Cardinality(S) \in Nat
         /\ Cardinality(S \cup {h}) = Cardinality(S) + (IF h \in S THEN 0 ELSE 1)
         /\ Cardinality(S \ {h}) = Cardinality(S) - (IF h \in S THEN 1 ELSE 0)
         /\ h \in S => Cardinality(S) >= 1
<1>1. IsFiniteSet(S) /\ Cardinality(S) \in Nat
  BY SizeAssumption, FS_Subset, FS_CardinalityType
<1>2. Cardinality(S \cup {h}) = IF h \in S THEN Cardinality(S) ELSE Cardinality(S) + 1
  BY <1>1, FS_AddElement
<1>3. Cardinality(S \ {h}) = IF h \in S THEN Cardinality(S) - 1 ELSE Cardinality(S)
  BY <1>1, FS_RemoveElement
<1>4. h \in S => Cardinality(S) # 0
  BY <1>1, FS_EmptySet
<1>. QED  BY <1>1, <1>2, <1>3, <1>4

LEMMA Moves ==
  ASSUME place \in [Handler -> Places], NEW h \in Handler, NEW p \in Places,
         place' = [place EXCEPT ![h] = p]
  PROVE  /\ place' \in [Handler -> Places]
         /\ \A g \in Handler : place'[g] = IF g = h THEN p ELSE place[g]
         /\ Holders' = IF p \in Placeless
                       THEN Holders \ {h} ELSE Holders \cup {h}
         /\ Queued' = IF p = "waiting" THEN Queued \cup {h} ELSE Queued \ {h}
         /\ Computing' = IF p = "computing" THEN Computing \cup {h} ELSE Computing \ {h}
<1>1. /\ place' \in [Handler -> Places]
      /\ \A g \in Handler : place'[g] = IF g = h THEN p ELSE place[g]
  OBVIOUS
<1>2. Holders' = IF p \in Placeless
                 THEN Holders \ {h} ELSE Holders \cup {h}
  BY <1>1 DEF Holders
<1>3. Queued' = IF p = "waiting" THEN Queued \cup {h} ELSE Queued \ {h}
  BY <1>1 DEF Queued
<1>4. Computing' = IF p = "computing" THEN Computing \cup {h} ELSE Computing \ {h}
  BY <1>1 DEF Computing
<1>. QED  BY <1>1, <1>2, <1>3, <1>4

LEMMA MoveCounts ==
  ASSUME place \in [Handler -> Places], NEW h \in Handler, NEW p \in Places,
         place' = [place EXCEPT ![h] = p]
  PROVE  /\ Cardinality(Holders) \in Nat /\ Cardinality(Queued) \in Nat
         /\ Cardinality(Computing) \in Nat
         /\ Cardinality(Holders') =
              Cardinality(Holders)
              + (IF p \notin Placeless /\ h \notin Holders THEN 1 ELSE 0)
              - (IF p \in Placeless /\ h \in Holders THEN 1 ELSE 0)
         /\ Cardinality(Queued') =
              Cardinality(Queued) + (IF p = "waiting" /\ h \notin Queued THEN 1 ELSE 0)
                                  - (IF p # "waiting" /\ h \in Queued THEN 1 ELSE 0)
         /\ Cardinality(Computing') =
              Cardinality(Computing) + (IF p = "computing" /\ h \notin Computing THEN 1 ELSE 0)
                                     - (IF p # "computing" /\ h \in Computing THEN 1 ELSE 0)
         /\ h \in Queued => Cardinality(Queued) >= 1
         /\ h \in Computing => Cardinality(Computing) >= 1
<1>1. Holders \in SUBSET Handler /\ Queued \in SUBSET Handler /\ Computing \in SUBSET Handler
  BY DEF Holders, Queued, Computing
<1>0. /\ Cardinality(Holders) \in Nat /\ Cardinality(Queued) \in Nat
      /\ Cardinality(Computing) \in Nat
  BY <1>1, HandlerCounts
<1>2. Cardinality(Holders') =
              Cardinality(Holders)
              + (IF p \notin Placeless /\ h \notin Holders THEN 1 ELSE 0)
              - (IF p \in Placeless /\ h \in Holders THEN 1 ELSE 0)
  <2>1. CASE p \in Placeless
    <3>1. Holders' = Holders \ {h}
      BY <2>1, Moves
    <3>2. Cardinality(Holders \ {h}) = Cardinality(Holders) - (IF h \in Holders THEN 1 ELSE 0)
      BY <1>1, HandlerCounts
    <3>. QED  BY <1>0, <2>1, <3>1, <3>2
  <2>2. CASE p \notin Placeless
    <3>1. Holders' = Holders \cup {h}
      BY <2>2, Moves
    <3>2. Cardinality(Holders \cup {h}) = Cardinality(Holders) + (IF h \notin Holders THEN 1 ELSE 0)
      BY <1>1, HandlerCounts
    <3>. QED  BY <1>0, <2>2, <3>1, <3>2
  <2>. QED  BY <2>1, <2>2
<1>3. Cardinality(Queued') =
              Cardinality(Queued) + (IF p = "waiting" /\ h \notin Queued THEN 1 ELSE 0)
                                  - (IF p # "waiting" /\ h \in Queued THEN 1 ELSE 0)
  <2>1. CASE p = "waiting"
    <3>1. Queued' = Queued \cup {h}
      BY <2>1, Moves
    <3>2. Cardinality(Queued \cup {h}) = Cardinality(Queued) + (IF h \notin Queued THEN 1 ELSE 0)
      BY <1>1, HandlerCounts
    <3>. QED  BY <1>0, <2>1, <3>1, <3>2
  <2>2. CASE p # "waiting"
    <3>1. Queued' = Queued \ {h}
      BY <2>2, Moves
    <3>2. Cardinality(Queued \ {h}) = Cardinality(Queued) - (IF h \in Queued THEN 1 ELSE 0)
      BY <1>1, HandlerCounts
    <3>. QED  BY <1>0, <2>2, <3>1, <3>2
  <2>. QED  BY <2>1, <2>2
<1>4. Cardinality(Computing') =
              Cardinality(Computing) + (IF p = "computing" /\ h \notin Computing THEN 1 ELSE 0)
                                     - (IF p # "computing" /\ h \in Computing THEN 1 ELSE 0)
  <2>1. CASE p = "computing"
    <3>1. Computing' = Computing \cup {h}
      BY <2>1, Moves
    <3>2. Cardinality(Computing \cup {h}) = Cardinality(Computing) + (IF h \notin Computing THEN 1 ELSE 0)
      BY <1>1, HandlerCounts
    <3>. QED  BY <1>0, <2>1, <3>1, <3>2
  <2>2. CASE p # "computing"
    <3>1. Computing' = Computing \ {h}
      BY <2>2, Moves
    <3>2. Cardinality(Computing \ {h}) = Cardinality(Computing) - (IF h \in Computing THEN 1 ELSE 0)
      BY <1>1, HandlerCounts
    <3>. QED  BY <1>0, <2>2, <3>1, <3>2
  <2>. QED  BY <2>1, <2>2
<1>. QED  BY <1>0, <1>1, <1>2, <1>3, <1>4, HandlerCounts

\* The moves that touch neither queue nor worker: of a handler that does not
\* wait and does not compute, and will not.
Quiet(h, p) ==
  /\ p \in Places \ {"waiting", "computing"}
  /\ place[h] \notin {"waiting", "computing"}
  /\ place' = [place EXCEPT ![h] = p]
  /\ UNCHANGED <<waiters, busy>>
  /\ class' \in [Handler -> Classes]
  /\ \A g \in Handler : place[g] = "waiting" => class'[g] = class[g]
  /\ reserved' = Cardinality(Holders') /\ reserved' <= Slots

LEMMA QuietMove ==
  ASSUME QInv, NEW h \in Handler, NEW p \in Places, Quiet(h, p)
  PROVE  QInv'
<1>. USE DEF Quiet
<1>1. /\ place' \in [Handler -> Places]
      /\ \A g \in Handler : place'[g] = IF g = h THEN p ELSE place[g]
  BY Moves DEF QInv, Kinds
<1>2. Kinds'
  BY <1>1 DEF QInv, Kinds
<1>3. Queued' = Queued /\ Computing' = Computing
  BY <1>1 DEF Queued, Computing
<1>4. Counted'
  BY <1>3 DEF QInv, Counted
<1>5. QueueOfForeground'
  <2>1. \A i \in 1..Len(waiters) : waiters[i] \in Handler
    BY DEF QInv, Kinds
  <2>2. \A g \in Handler : place[g] = "waiting" => place'[g] = "waiting"
    BY <1>1
  <2>. QED  BY <2>1, <2>2 DEF QInv, QueueOfForeground
<1>. QED  BY <1>2, <1>4, <1>5 DEF QInv

\* What a quiet move has to do with the number of reservations.
LEMMA Reservations ==
  ASSUME QInv, NEW h \in Handler, NEW p \in Places,
         place' = [place EXCEPT ![h] = p]
  PROVE  /\ (p \in Placeless <=> place[h] \in Placeless) => Cardinality(Holders') = reserved
         /\ p \notin Placeless /\ place[h] \in Placeless => Cardinality(Holders') = reserved + 1
         /\ p \in Placeless /\ place[h] \notin Placeless => Cardinality(Holders') = reserved - 1
<1>1. place[h] \notin Placeless <=> h \in Holders
  BY DEF Holders
<1>2. /\ reserved \in Nat
      /\ Cardinality(Holders') =
              Cardinality(Holders)
              + (IF p \notin Placeless /\ h \notin Holders THEN 1 ELSE 0)
              - (IF p \in Placeless /\ h \in Holders THEN 1 ELSE 0)
  BY MoveCounts DEF QInv, Kinds, Counted
<1>. QED  BY <1>1, <1>2 DEF QInv, Counted

LEMMA QuietSteps ==
  ASSUME QInv, NEW h \in Handler,
         \/ Register(h) \/ Reject(h) \/ Finish(h) \/ Reserve(h) \/ Unreserve(h)
         \/ Refused(h) \/ NextSegment(h)
  PROVE  QInv'
<1>. USE DEF MoveTo, Turn, stateVars
<1>0. /\ reserved \in Nat /\ reserved <= Slots
      /\ place[h] \in Places /\ class \in [Handler -> Classes]
  <2>1. Holders \in SUBSET Handler
    BY DEF Holders
  <2>. QED  BY <2>1, HandlerCounts DEF QInv, Kinds, Counted
<1>1. CASE Register(h)
  <2>1. PICK c \in Classes : class' = [class EXCEPT ![h] = c]
    BY <1>1 DEF Register
  <2>2. /\ class' \in [Handler -> Classes]
        /\ \A g \in Handler : place[g] = "waiting" => class'[g] = class[g]
    BY <1>1, <2>1, <1>0 DEF Register
  <2>3. /\ place' = [place EXCEPT ![h] = "registered"] /\ place[h] = "out"
        /\ UNCHANGED <<waiters, busy, reserved>>
    BY <1>1 DEF Register
  <2>4. Quiet(h, "registered")
    BY <1>0, <2>2, <2>3, SizeAssumption, Reservations DEF Quiet, Places, Placeless
  <2>. QED  BY <2>4, QuietMove DEF Quiet
<1>2. CASE Finish(h)
  <2>1. class' = [class EXCEPT ![h] = "foreground"]
    BY <1>2 DEF Finish
  <2>2. /\ class' \in [Handler -> Classes]
        /\ \A g \in Handler : place[g] = "waiting" => class'[g] = class[g]
    BY <1>2, <2>1, <1>0 DEF Finish, Classes
  <2>3. /\ place' = [place EXCEPT ![h] = "out"] /\ place[h] = "finishing"
        /\ UNCHANGED <<waiters, busy, reserved>>
    BY <1>2 DEF Finish
  <2>4. Quiet(h, "out")
    BY <1>0, <2>2, <2>3, SizeAssumption, Reservations DEF Quiet, Places, Placeless
  <2>. QED  BY <2>4, QuietMove DEF Quiet
<1>3. CASE Reject(h)
  <2>1. /\ place' = [place EXCEPT ![h] = "finishing"] /\ place[h] = "registered"
        /\ UNCHANGED <<waiters, busy, reserved, class>>
    BY <1>3 DEF Reject
  <2>2. Quiet(h, "finishing")
    BY <1>0, <2>1, SizeAssumption, Reservations DEF Quiet, Places, Placeless
  <2>. QED  BY <2>2, QuietMove DEF Quiet
<1>4. CASE Reserve(h)
  <2>1. /\ place' = [place EXCEPT ![h] = "reserved"] /\ place[h] = "registered"
        /\ UNCHANGED <<waiters, busy, class>> /\ reserved' = reserved + 1
        /\ reserved < Slots
    BY <1>4 DEF Reserve, MayReserve
  <2>2. Cardinality(Holders') = reserved + 1
    BY <2>1, Reservations DEF Places, Placeless
  <2>3. Quiet(h, "reserved")
    BY <1>0, <2>1, <2>2, SizeAssumption DEF Quiet, Places
  <2>. QED  BY <2>3, QuietMove DEF Quiet
<1>5. CASE Unreserve(h)
  <2>1. /\ place' = [place EXCEPT ![h] = "finishing"] /\ place[h] = "releasing"
        /\ UNCHANGED <<waiters, busy, class>> /\ reserved' = reserved - 1
    BY <1>5 DEF Unreserve
  <2>2. Cardinality(Holders') = reserved - 1
    BY <2>1, Reservations DEF Places, Placeless
  <2>3. Quiet(h, "finishing")
    BY <1>0, <2>1, <2>2, SizeAssumption DEF Quiet, Places
  <2>. QED  BY <2>3, QuietMove DEF Quiet
<1>6. CASE Refused(h)
  <2>1. PICK p \in {"reserved", "releasing"} : place' = [place EXCEPT ![h] = p]
    BY <1>6 DEF Refused, SkipUnit
  <2>2. place[h] = "reserved" /\ UNCHANGED <<waiters, busy, reserved, class>>
    BY <1>6 DEF Refused
  <2>3. Quiet(h, p)
    BY <1>0, <2>1, <2>2, SizeAssumption, Reservations DEF Quiet, Places, Placeless
  <2>. QED  BY <2>3, QuietMove DEF Quiet
<1>7. CASE NextSegment(h)
  <2>1. /\ place' = [place EXCEPT ![h] = "reserved"] /\ place[h] = "between"
        /\ UNCHANGED <<waiters, busy, reserved, class>>
    BY <1>7 DEF NextSegment
  <2>2. Quiet(h, "reserved")
    BY <1>0, <2>1, SizeAssumption, Reservations DEF Quiet, Places, Placeless
  <2>. QED  BY <2>2, QuietMove DEF Quiet
<1>. QED  BY <1>1, <1>2, <1>3, <1>4, <1>5, <1>6, <1>7

\* The queue with one ticket taken out: shorter, and every ticket in it had a
\* place of its own before.
LEMMA TakenOut ==
  ASSUME NEW q \in Seq(Handler), NEW i \in 1..Len(q)
  PROVE  /\ Without(q, i) \in Seq(Handler) /\ Len(Without(q, i)) = Len(q) - 1
         /\ \A j \in 1..(Len(q) - 1) :
              Without(q, i)[j] = IF j < i THEN q[j] ELSE q[j + 1]
<1>. DEFINE a == SubSeq(q, 1, i - 1)
            b == SubSeq(q, i + 1, Len(q))
<1>0. Len(q) \in Nat /\ \A j \in 1..Len(q) : q[j] \in Handler
  OBVIOUS
<1>1. /\ a \in Seq(Handler) /\ Len(a) = i - 1
      /\ \A j \in 1..(i - 1) : a[j] = q[j]
  <2>1. /\ a \in Seq(Handler)
        /\ Len(a) = IF 1 <= i - 1 THEN (i - 1) - 1 + 1 ELSE 0
        /\ \A j \in 1 .. (i - 1) - 1 + 1 : a[j] = q[1 + j - 1]
    BY <1>0, SubSeqProperties
  <2>. QED  BY <2>1
<1>2. /\ b \in Seq(Handler) /\ Len(b) = Len(q) - i
      /\ \A j \in 1..(Len(q) - i) : b[j] = q[i + j]
  <2>1. /\ b \in Seq(Handler)
        /\ Len(b) = IF i + 1 <= Len(q) THEN Len(q) - (i + 1) + 1 ELSE 0
        /\ \A j \in 1 .. Len(q) - (i + 1) + 1 : b[j] = q[(i + 1) + j - 1]
    BY <1>0, SubSeqProperties
  <2>. QED  BY <1>0, <2>1
<1>3. /\ a \o b \in Seq(Handler) /\ Len(a \o b) = Len(a) + Len(b)
      /\ \A j \in 1..(Len(a) + Len(b)) :
           (a \o b)[j] = IF j <= Len(a) THEN a[j] ELSE b[j - Len(a)]
  BY <1>1, <1>2, ConcatProperties
<1>. HIDE DEF a, b
<1>4. Len(a \o b) = Len(q) - 1
  BY <1>0, <1>1, <1>2, <1>3
<1>5. \A j \in 1..(Len(q) - 1) : (a \o b)[j] = IF j < i THEN q[j] ELSE q[j + 1]
  <2>. SUFFICES ASSUME NEW j \in 1..(Len(q) - 1)
                PROVE  (a \o b)[j] = IF j < i THEN q[j] ELSE q[j + 1]
    OBVIOUS
  <2>1. (a \o b)[j] = IF j <= i - 1 THEN a[j] ELSE b[j - (i - 1)]
    BY <1>0, <1>1, <1>2, <1>3
  <2>2. CASE j < i
    BY <1>1, <2>1, <2>2
  <2>3. CASE ~(j < i)
    <3>1. b[j - (i - 1)] = q[i + (j - (i - 1))]
      BY <1>0, <1>2, <2>3
    <3>2. i + (j - (i - 1)) = j + 1
      BY <1>0
    <3>. QED  BY <1>0, <2>1, <2>3, <3>1, <3>2
  <2>. QED  BY <2>2, <2>3
<1>6. Without(q, i) = a \o b
  BY DEF Without, a, b
<1>7. a \o b \in Seq(Handler)
  BY <1>3
<1>. HIDE DEF Without
<1>. QED  BY <1>4, <1>5, <1>6, <1>7

LEMMA StartKeepsQueue ==
  ASSUME QInv, NEW h \in Handler, StartAtOnce(h)
  PROVE  QInv'
<1>1. /\ place[h] = "reserved" /\ place' = [place EXCEPT ![h] = "computing"]
      /\ ~busy /\ busy' = TRUE /\ UNCHANGED <<waiters, reserved, class>>
  BY DEF StartAtOnce, Alone, MoveTo
<1>2. \A g \in Handler : place'[g] = IF g = h THEN "computing" ELSE place[g]
  BY <1>1 DEF QInv, Kinds
<1>3. Kinds'
  BY <1>1 DEF QInv, Kinds, Places
<1>4. /\ Holders' = Holders /\ Queued' = Queued
      /\ Computing' = Computing \cup {h} /\ h \notin Computing
  BY <1>1, <1>2 DEF Holders, Queued, Computing, Placeless
<1>5. Cardinality(Computing') = Cardinality(Computing) + 1
  <2>1. Computing \in SUBSET Handler
    BY DEF Computing
  <2>. QED  BY <1>4, <2>1, HandlerCounts
<1>6. Counted'
  BY <1>1, <1>4, <1>5 DEF QInv, Counted
<1>7. QueueOfForeground'
  <2>1. \A i \in 1..Len(waiters) : waiters[i] \in Handler
    BY DEF QInv, Kinds
  <2>. QED  BY <1>1, <1>2, <2>1 DEF QInv, QueueOfForeground
<1>. QED  BY <1>3, <1>6, <1>7 DEF QInv

LEMMA TicketKeepsQueue ==
  ASSUME QInv, NEW h \in Handler, TakeTicket(h)
  PROVE  QInv'
<1>1. /\ place[h] = "reserved" /\ place' = [place EXCEPT ![h] = "waiting"]
      /\ waiters' = Append(waiters, h) /\ UNCHANGED <<busy, reserved, class>>
  BY DEF TakeTicket, MoveTo
<1>2. \A g \in Handler : place'[g] = IF g = h THEN "waiting" ELSE place[g]
  BY <1>1 DEF QInv, Kinds
<1>3. /\ waiters' \in Seq(Handler) /\ Len(waiters') = Len(waiters) + 1
      /\ \A i \in 1..Len(waiters) : waiters'[i] = waiters[i] /\ waiters[i] \in Handler
      /\ waiters'[Len(waiters) + 1] = h /\ Len(waiters) \in Nat
  BY <1>1, AppendProperties DEF QInv, Kinds
<1>4. Kinds'
  BY <1>1, <1>3 DEF QInv, Kinds, Places
<1>5. /\ Holders' = Holders /\ Computing' = Computing
      /\ Queued' = Queued \cup {h} /\ h \notin Queued
  BY <1>1, <1>2 DEF Holders, Queued, Computing, Placeless
<1>6. Cardinality(Queued') = Cardinality(Queued) + 1
  <2>1. Queued \in SUBSET Handler
    BY DEF Queued
  <2>. QED  BY <1>5, <2>1, HandlerCounts
<1>7. Counted'
  BY <1>1, <1>3, <1>5, <1>6 DEF QInv, Counted
<1>8. class[h] = "foreground"
  BY DEF TakeTicket, Yields, Alone, QInv, Kinds, Classes
<1>9. QueueOfForeground'
  <2>1. \A i \in 1..Len(waiters) : waiters[i] # h
    BY <1>1 DEF QInv, QueueOfForeground
  <2>2. \A i \in 1..Len(waiters') :
          place'[waiters'[i]] = "waiting" /\ class'[waiters'[i]] = "foreground"
    BY <1>1, <1>2, <1>3, <1>8 DEF QInv, QueueOfForeground
  <2>3. \A i, j \in 1..Len(waiters') : waiters'[i] = waiters'[j] => i = j
    BY <1>3, <2>1 DEF QInv, QueueOfForeground
  <2>. QED  BY <2>2, <2>3 DEF QueueOfForeground
<1>. QED  BY <1>4, <1>7, <1>9 DEF QInv

\* A queue q that is the old one without its i-th ticket, h's.
Shrinks(h, i) ==
  /\ i \in 1..Len(waiters) /\ waiters[i] = h
  /\ waiters' \in Seq(Handler) /\ Len(waiters') = Len(waiters) - 1
  /\ \A j \in 1..(Len(waiters) - 1) :
       waiters'[j] = IF j < i THEN waiters[j] ELSE waiters[j + 1]

LEMMA ShrinkKeepsQueue ==
  ASSUME QInv, NEW h \in Handler, NEW i \in Nat, Shrinks(h, i), UNCHANGED class,
         \A g \in Handler : g # h => place'[g] = place[g]
  PROVE  QueueOfForeground'
<1>. DEFINE old(j) == IF j < i THEN j ELSE j + 1
<1>1. Len(waiters) \in Nat /\ \A j \in 1..Len(waiters) : waiters[j] \in Handler
  BY DEF QInv, Kinds
<1>2. \A j \in 1..Len(waiters') :
        /\ old(j) \in 1..Len(waiters) /\ old(j) # i /\ waiters'[j] = waiters[old(j)]
  BY <1>1 DEF Shrinks
<1>3. \A j, k \in 1..Len(waiters') : old(j) = old(k) => j = k
  BY <1>1 DEF Shrinks
<1>. HIDE DEF old
<1>4. \A j \in 1..Len(waiters') : waiters'[j] # h /\ waiters'[j] \in Handler
  BY <1>1, <1>2 DEF Shrinks, QInv, QueueOfForeground
<1>5. \A j \in 1..Len(waiters') :
        place'[waiters'[j]] = "waiting" /\ class'[waiters'[j]] = "foreground"
  BY <1>2, <1>4 DEF QInv, QueueOfForeground
<1>6. \A j, k \in 1..Len(waiters') : waiters'[j] = waiters'[k] => j = k
  BY <1>2, <1>3 DEF QInv, QueueOfForeground
<1>. QED  BY <1>5, <1>6 DEF QueueOfForeground

LEMMA AdmitKeepsQueue ==
  ASSUME QInv, NEW h \in Handler, Admit(h)
  PROVE  QInv'
<1>1. /\ place[h] = "waiting" /\ place' = [place EXCEPT ![h] = "computing"]
      /\ Head(waiters) = h /\ waiters' = Tail(waiters)
      /\ ~busy /\ busy' = TRUE /\ UNCHANGED <<reserved, class>>
  BY DEF Admit, MoveTo
<1>2. \A g \in Handler : place'[g] = IF g = h THEN "computing" ELSE place[g]
  BY <1>1 DEF QInv, Kinds
<1>3. /\ Holders' = Holders /\ Queued' = Queued \ {h} /\ h \in Queued
      /\ Computing' = Computing \cup {h} /\ h \notin Computing
  BY <1>1, <1>2 DEF Holders, Queued, Computing, Placeless
<1>4. /\ Cardinality(Queued') = Cardinality(Queued) - 1 /\ Cardinality(Queued) >= 1
      /\ Cardinality(Computing') = Cardinality(Computing) + 1
  <2>1. Queued \in SUBSET Handler /\ Computing \in SUBSET Handler
    BY DEF Queued, Computing
  <2>. QED  BY <1>3, <2>1, HandlerCounts
<1>5. waiters # <<>>
  BY <1>4 DEF QInv, Counted
<1>6. Shrinks(h, 1)
  BY <1>1, <1>5, HeadTailProperties DEF Shrinks, QInv, Kinds
<1>7. Kinds'
  BY <1>1, <1>6 DEF QInv, Kinds, Places, Shrinks
<1>8. Counted'
  BY <1>1, <1>3, <1>4, <1>6 DEF QInv, Counted, Shrinks
<1>9. QueueOfForeground'
  BY <1>1, <1>2, <1>6, ShrinkKeepsQueue
<1>. QED  BY <1>7, <1>8, <1>9 DEF QInv

LEMMA AbandonKeepsQueue ==
  ASSUME QInv, NEW h \in Handler, Abandon(h)
  PROVE  QInv'
<1>1. /\ place[h] = "waiting" /\ UNCHANGED <<busy, reserved, class>>
  BY DEF Abandon
<1>2. PICK p \in {"reserved", "releasing"} : place' = [place EXCEPT ![h] = p]
  BY DEF Abandon, SkipUnit, Turn, MoveTo
<1>3. PICK i \in 1..Len(waiters) : waiters[i] = h /\ waiters' = Without(waiters, i)
  BY DEF Abandon
<1>4. \A g \in Handler : place'[g] = IF g = h THEN p ELSE place[g]
  BY <1>2 DEF QInv, Kinds
<1>5. /\ Holders' = Holders /\ Queued' = Queued \ {h} /\ h \in Queued
      /\ Computing' = Computing
  BY <1>1, <1>2, <1>4 DEF Holders, Queued, Computing, Placeless
<1>6. Cardinality(Queued') = Cardinality(Queued) - 1
  <2>1. Queued \in SUBSET Handler
    BY DEF Queued
  <2>. QED  BY <1>5, <2>1, HandlerCounts
<1>7. Shrinks(h, i)
  BY <1>3, TakenOut DEF Shrinks, QInv, Kinds
<1>8. Kinds'
  BY <1>1, <1>2, <1>7 DEF QInv, Kinds, Places, Shrinks
<1>9. Counted'
  BY <1>1, <1>5, <1>6, <1>7 DEF QInv, Counted, Shrinks
<1>10. QueueOfForeground'
  BY <1>1, <1>4, <1>7, ShrinkKeepsQueue
<1>. QED  BY <1>8, <1>9, <1>10 DEF QInv

LEMMA EndKeepsQueue ==
  ASSUME QInv, NEW h \in Handler, EndUnit(h)
  PROVE  QInv'
<1>1. /\ place[h] = "computing" /\ busy' = FALSE /\ UNCHANGED <<waiters, reserved, class>>
  BY DEF EndUnit
<1>2. PICK p \in {"between", "releasing"} : place' = [place EXCEPT ![h] = p]
  BY DEF EndUnit, Turn, MoveTo
<1>3. \A g \in Handler : place'[g] = IF g = h THEN p ELSE place[g]
  BY <1>2 DEF QInv, Kinds
<1>4. /\ Holders' = Holders /\ Queued' = Queued
      /\ Computing' = Computing \ {h} /\ h \in Computing
  BY <1>1, <1>2, <1>3 DEF Holders, Queued, Computing, Placeless
<1>5. Cardinality(Computing') = Cardinality(Computing) - 1 /\ Cardinality(Computing) >= 1
  <2>1. Computing \in SUBSET Handler
    BY DEF Computing
  <2>. QED  BY <1>4, <2>1, HandlerCounts
<1>6. Kinds'
  BY <1>1, <1>2 DEF QInv, Kinds, Places
<1>7. Counted'
  BY <1>1, <1>4, <1>5 DEF QInv, Counted
<1>8. QueueOfForeground'
  <2>1. \A i \in 1..Len(waiters) : waiters[i] \in Handler
    BY DEF QInv, Kinds
  <2>. QED  BY <1>1, <1>3, <2>1 DEF QInv, QueueOfForeground
<1>. QED  BY <1>6, <1>7, <1>8 DEF QInv

LEMMA StepQInv == QInv /\ [Next]_vars => QInv'
<1>. SUFFICES ASSUME QInv, [Next]_vars PROVE QInv'
  OBVIOUS
<1>1. ASSUME UNCHANGED <<place, class, waiters, busy, reserved>>
      PROVE  QInv'
  BY <1>1 DEF QInv, Kinds, Counted, QueueOfForeground, Holders, Queued, Computing
<1>2. CASE \E h \in Handler : GoesStale(h)
  BY <1>1, <1>2 DEF GoesStale, handlerVars, stateVars
<1>3. CASE \E i \in Id : Cancel(i) \/ RetirementEnds(i)
  BY <1>1, <1>3 DEF Cancel, RetirementEnds, handlerVars, stateVars
<1>4. CASE UNCHANGED vars
  BY <1>1, <1>4 DEF vars, handlerVars, stateVars
<1>. QED  BY <1>2, <1>3, <1>4, QuietSteps, StartKeepsQueue, TicketKeepsQueue,
             AdmitKeepsQueue, AbandonKeepsQueue, EndKeepsQueue DEF Next

\* Background work is never among the tickets.
THEOREM BackgroundStaysOut == Spec => []BackgroundNeverWaits
<1>1. QInv => BackgroundNeverWaits
  BY DEF QInv, QueueOfForeground, BackgroundNeverWaits
<1>. QED  BY InitQInv, StepQInv, <1>1, PTL DEF Spec

\* Whoever has reserved a place finds a ticket for each of its units.
THEOREM ReservedFindsTicket == Spec => []TicketAlwaysFits
<1>1. ASSUME QInv PROVE TicketAlwaysFits
  <2>1. SUFFICES ASSUME NEW h \in Handler, place[h] = "reserved"
                 PROVE  Tickets < Slots
    BY DEF TicketAlwaysFits
  <2>2. /\ Holders \in SUBSET Handler /\ Queued \in SUBSET Handler
        /\ Computing \in SUBSET Handler /\ Queued \cup Computing \in SUBSET Handler
    BY DEF Holders, Queued, Computing
  <2>3. /\ IsFiniteSet(Holders) /\ IsFiniteSet(Queued) /\ IsFiniteSet(Computing)
        /\ Cardinality(Queued) \in Nat /\ Cardinality(Computing) \in Nat
        /\ Cardinality(Holders) \in Nat
    BY <2>2, HandlerCounts
  <2>4. Queued \cap Computing = {}
    BY DEF Queued, Computing
  <2>5. Cardinality(Queued \cup Computing) = Cardinality(Queued) + Cardinality(Computing)
    <3>1. Cardinality(Queued \cap Computing) = 0
      BY <2>4, FS_EmptySet
    <3>2. Cardinality(Queued \cup Computing) =
            Cardinality(Queued) + Cardinality(Computing) - Cardinality(Queued \cap Computing)
      BY <2>3, FS_Union
    <3>. QED  BY <2>3, <3>1, <3>2
  <2>6. Cardinality((Queued \cup Computing) \cup {h}) = Cardinality(Queued \cup Computing) + 1
    <3>1. h \notin Queued \cup Computing
      BY <2>1 DEF Queued, Computing
    <3>. QED  BY <2>2, <3>1, HandlerCounts
  <2>7. (Queued \cup Computing) \cup {h} \in SUBSET Holders
    BY <2>1 DEF Holders, Queued, Computing, Placeless
  <2>8. Cardinality((Queued \cup Computing) \cup {h}) <= Cardinality(Holders)
    BY <2>3, <2>7, FS_Subset
  <2>9. Slots \in Nat
    BY SizeAssumption
  <2>10. Cardinality(Queued) + Cardinality(Computing) + 1 <= Slots
    <3>1. Cardinality(Holders) <= Slots
      BY <1>1 DEF QInv, Counted
    <3>. QED  BY <2>3, <2>5, <2>6, <2>8, <2>9, <3>1
  <2>11. Tickets = Cardinality(Queued) + Cardinality(Computing)
    BY <1>1 DEF Tickets, QInv, Counted
  <2>. QED  BY <2>3, <2>9, <2>10, <2>11
<1>. QED  BY InitQInv, StepQInv, <1>1, PTL DEF Spec

-----------------------------------------------------------------------------
\* The tickets are a FIFO around one worker: each step is one of FairQueue, or
\* leaves its queue and its holder as they are.
LEMMA WorkerFree ==
  ASSUME QInv
  PROVE  /\ ~busy => Computing = {}
         /\ \A h \in Computing : Computing = {h}
<1>1. Computing \in SUBSET Handler
  BY DEF Computing
<1>2. IsFiniteSet(Computing) /\ Cardinality(Computing) \in Nat
  BY <1>1, SizeAssumption, FS_Subset, FS_CardinalityType
<1>3. ~busy => Computing = {}
  BY <1>2, FS_EmptySet DEF QInv, Counted
<1>4. ASSUME NEW h \in Computing PROVE Computing = {h}
  <2>1. Cardinality(Computing) = 0 \/ Cardinality(Computing) = 1
    BY DEF QInv, Counted
  <2>2. Cardinality(Computing) # 0
    BY <1>2, FS_EmptySet
  <2>3. PICK g : Computing = {g}
    BY <1>2, <2>1, <2>2, FS_Singleton
  <2>. QED  BY <2>3
<1>. QED  BY <1>3, <1>4

\* A handler moves, and only its own place changes.
LEMMA ComputingAfter ==
  ASSUME QInv, NEW h \in Handler, NEW p \in Places, place' = [place EXCEPT ![h] = p]
  PROVE  Computing' = IF p = "computing" THEN Computing \cup {h} ELSE Computing \ {h}
BY Moves DEF QInv, Kinds

LEMMA TicketJoins ==
  ASSUME QInv, NEW h \in Handler, TakeTicket(h)
  PROVE  Queue!Join(h)
<1>1. /\ place[h] = "reserved" /\ place' = [place EXCEPT ![h] = "waiting"]
      /\ waiters' = Append(waiters, h)
  BY DEF TakeTicket, MoveTo
<1>2. h \notin Queue!Waiting
  BY <1>1 DEF Queue!Waiting, QInv, QueueOfForeground
<1>3. h \notin Computing /\ Computing' = Computing
  BY <1>1, ComputingAfter DEF Places, Computing
<1>. QED  BY <1>1, <1>2, <1>3 DEF Queue!Join, Computing

LEMMA StartEnters ==
  ASSUME QInv, NEW h \in Handler, StartAtOnce(h)
  PROVE  Queue!Enter(h)
<1>1. /\ ~busy /\ waiters = <<>> /\ UNCHANGED waiters
      /\ place' = [place EXCEPT ![h] = "computing"]
  BY DEF StartAtOnce, Alone, MoveTo
<1>2. Computing = {} /\ Computing' = {h}
  BY <1>1, WorkerFree, ComputingAfter DEF Places
<1>. QED  BY <1>1, <1>2 DEF Queue!Enter, Computing

LEMMA AdmitServes ==
  ASSUME QInv, NEW h \in Handler, Admit(h)
  PROVE  Queue!Serve
<1>1. /\ place[h] = "waiting" /\ ~busy /\ Head(waiters) = h /\ waiters' = Tail(waiters)
      /\ place' = [place EXCEPT ![h] = "computing"]
  BY DEF Admit, MoveTo
<1>2. Computing = {} /\ Computing' = {h}
  BY <1>1, WorkerFree, ComputingAfter DEF Places
<1>3. waiters # <<>>
  <2>1. h \in Queued /\ Queued \in SUBSET Handler
    BY <1>1 DEF Queued
  <2>2. Cardinality(Queued) # 0
    BY <2>1, HandlerCounts, FS_EmptySet
  <2>. QED  BY <2>2 DEF QInv, Counted
<1>. QED  BY <1>1, <1>2, <1>3 DEF Queue!Serve, Computing

LEMMA AbandonGivesUp ==
  ASSUME QInv, NEW h \in Handler, Abandon(h)
  PROVE  Queue!GiveUp(h)
<1>1. PICK i \in 1..Len(waiters) : waiters[i] = h /\ waiters' = Without(waiters, i)
  BY DEF Abandon
<1>2. PICK p \in {"reserved", "releasing"} : place' = [place EXCEPT ![h] = p]
  BY DEF Abandon, SkipUnit, Turn, MoveTo
<1>3. h \notin Computing /\ Computing' = Computing
  BY <1>2, ComputingAfter DEF Abandon, Places, Computing
<1>. QED  BY <1>1, <1>3 DEF Queue!GiveUp, Without, Computing

LEMMA EndIsDone ==
  ASSUME QInv, NEW h \in Handler, EndUnit(h)
  PROVE  Queue!Done
<1>1. PICK p \in {"between", "releasing"} : place' = [place EXCEPT ![h] = p]
  BY DEF EndUnit, Turn, MoveTo
<1>2. h \in Computing /\ UNCHANGED waiters
  BY DEF EndUnit, Computing
<1>3. Computing # {} /\ Computing' = {}
  BY <1>1, <1>2, WorkerFree, ComputingAfter DEF Places
<1>. QED  BY <1>2, <1>3 DEF Queue!Done, Computing

\* Every other step keeps the tickets and whoever computes.
LEMMA OthersKeepFifo ==
  ASSUME QInv, NEW h \in Handler,
         \/ Register(h) \/ Reject(h) \/ Finish(h) \/ Reserve(h) \/ Unreserve(h)
         \/ Refused(h) \/ NextSegment(h)
  PROVE  UNCHANGED waiters /\ Computing' = Computing
<1>1. /\ place[h] # "computing" /\ UNCHANGED waiters
      /\ \E p \in Places \ {"computing"} : place' = [place EXCEPT ![h] = p]
  BY DEF Register, Reject, Finish, Reserve, Unreserve, Refused, NextSegment,
         SkipUnit, Turn, MoveTo, Places, stateVars
<1>2. h \notin Computing
  BY <1>1 DEF Computing
<1>3. PICK p \in Places \ {"computing"} : place' = [place EXCEPT ![h] = p]
  BY <1>1
<1>4. Computing' = Computing \ {h}
  BY <1>3, ComputingAfter
<1>. QED  BY <1>1, <1>2, <1>4

LEMMA StepFifo == QInv /\ [Next]_vars => [Queue!Next]_(Queue!vars)
<1>. SUFFICES ASSUME QInv, [Next]_vars PROVE [Queue!Next]_(Queue!vars)
  OBVIOUS
<1>1. ASSUME UNCHANGED waiters, Computing' = Computing PROVE UNCHANGED Queue!vars
  BY <1>1 DEF Queue!vars, Computing
<1>2. CASE UNCHANGED <<place, waiters>>
  BY <1>1, <1>2 DEF Computing
<1>3. CASE \E h \in Handler : GoesStale(h)
  BY <1>2, <1>3 DEF GoesStale, handlerVars, stateVars
<1>4. CASE \E i \in Id : Cancel(i) \/ RetirementEnds(i)
  BY <1>2, <1>4 DEF Cancel, RetirementEnds, handlerVars, stateVars
<1>5. CASE UNCHANGED vars
  BY <1>2, <1>5 DEF vars, handlerVars, stateVars
<1>6. ASSUME NEW h \in Handler,
             \/ TakeTicket(h) \/ StartAtOnce(h) \/ Admit(h) \/ Abandon(h) \/ EndUnit(h)
      PROVE  Queue!Next
  BY <1>6, TicketJoins, StartEnters, AdmitServes, AbandonGivesUp, EndIsDone DEF Queue!Next
<1>. QED  BY <1>1, <1>3, <1>4, <1>5, <1>6, OthersKeepFifo DEF Next

\* Admission is FIFO: the safety part of FifoQueue, for any number of handlers
\* and places.
THEOREM RefinesFairQueue == Spec => Queue!Init /\ [][Queue!Next]_(Queue!vars)
<1>1. Init => Queue!Init
  BY DEF Init, Queue!Init
<1>. QED  BY <1>1, InitQInv, StepQInv, StepFifo, PTL DEF Spec
=============================================================================
