------------------------ MODULE SpeechRequests_proofs ------------------------
(***************************************************************************)
(* Proofs about SpeechRequests, for any number of handlers, ids, slots and *)
(* segments: every order of factory, segments and close that the           *)
(* generators of the TTS service can produce is one of RequestLifecycle,   *)
(* so what is proved there holds for it: the registry keeps to its size, a *)
(* cancelled request starts nothing, and the close of an iterator finds a  *)
(* ticket, so that no iterator outlives its request.                       *)
(***************************************************************************)
EXTENDS SpeechRequests, TLAPS

InQueue == {"asking", "waiting", "computing"}
Looping == {"between", "rendered", "sending", "ended"}

Types ==
  /\ place \in [Handler -> Places]
  /\ unit \in [Handler -> {"factory", "segment", "close"}]
  /\ iterator \in [Handler -> {"none", "open", "closed"}]
  /\ kind \in [Handler -> {"whole", "stream"}]
  /\ answer \in [Handler -> {"none", "complete", "error"}]

\* What the place of a request says about its unit and its iterator: only the
\* factory comes without one, and the loop runs while it is open.
Phase(h) ==
  /\ place[h] \in {"out", "registered", "opened"} =>
       unit[h] = "factory" /\ iterator[h] = "none"
  /\ place[h] \in InQueue => (unit[h] # "factory" <=> iterator[h] = "open")
  /\ place[h] \in Looping => unit[h] # "close" /\ iterator[h] = "open"
  /\ place[h] \in {"rendered", "sending"} => unit[h] = "segment"
Inv == Types /\ \A h \in Handler : Phase(h)

LEMMA InvInit == Init => Inv
  BY DEF Init, Inv, Types, Phase, InQueue, Looping, Places

LEMMA RegistryKeepsInv ==
  ASSUME Inv, NEW g \in Handler, Register(g) \/ Finish(g) \/ Refuse(g) \/ Reserve(g) \/ Unreserve(g)
  PROVE  Inv'
<1> USE DEF Inv, Types, Phase, InQueue, Looping, Places, MoveTo, Answer, renderVars, requestVars
<1>1. CASE Register(g)
  BY <1>1 DEF Register
<1>2. CASE Finish(g)
  BY <1>2 DEF Finish
<1>3. CASE Refuse(g)
  BY <1>3 DEF Refuse, Parsed
<1>4. CASE Reserve(g)
  BY <1>4 DEF Reserve, Parsed
<1>5. CASE Unreserve(g)
  BY <1>5 DEF Unreserve
<1> QED BY <1>1, <1>2, <1>3, <1>4, <1>5

LEMMA UnitKeepsInv ==
  ASSUME Inv, NEW g \in Handler,
         \/ NotComputed(g) \/ StartAtOnce(g) \/ TakeTicket(g) \/ Admit(g) \/ Abandon(g)
         \/ MakeIterator(g) \/ RenderSegment(g) \/ CloseIterator(g)
  PROVE  Inv'
<1> USE DEF Inv, Types, Phase, InQueue, Looping, Places, MoveTo, Ask, Unwind, FreeWorker,
        Answer, renderVars, requestVars
<1>1. CASE NotComputed(g)
  BY <1>1 DEF NotComputed
<1>2. CASE StartAtOnce(g)
  BY <1>2 DEF StartAtOnce
<1>3. CASE TakeTicket(g)
  BY <1>3 DEF TakeTicket
<1>4. CASE Admit(g)
  BY <1>4 DEF Admit
<1>5. CASE Abandon(g)
  BY <1>5 DEF Abandon
<1>6. CASE MakeIterator(g)
  BY <1>6 DEF MakeIterator
<1>7. CASE RenderSegment(g)
  BY <1>7 DEF RenderSegment
<1>8. CASE CloseIterator(g)
  BY <1>8 DEF CloseIterator
<1> QED BY <1>1, <1>2, <1>3, <1>4, <1>5, <1>6, <1>7, <1>8

LEMMA ResponseKeepsInv ==
  ASSUME Inv, NEW g \in Handler,
         \/ Iterate(g) \/ NeverIterated(g)
         \/ AskSegment(g) \/ LeaveLoop(g) \/ Fail(g) \/ Keep(g) \/ Yield(g) \/ Conclude(g)
         \/ FrameTaken(g) \/ ClientLeaves(g) \/ LastFrameOver(g)
  PROVE  Inv'
<1> USE DEF Inv, Types, Phase, InQueue, Looping, Places, MoveTo, Ask, Unwind,
        Answer, renderVars, requestVars
<1>1. CASE Iterate(g)
  BY <1>1 DEF Iterate
<1>2. CASE NeverIterated(g)
  BY <1>2 DEF NeverIterated
<1>3. CASE AskSegment(g)
  BY <1>3 DEF AskSegment
<1>4. CASE LeaveLoop(g)
  BY <1>4 DEF LeaveLoop
<1>5. CASE Fail(g)
  BY <1>5 DEF Fail
<1>6. CASE Keep(g)
  BY <1>6 DEF Keep
<1>7. CASE Yield(g)
  BY <1>7 DEF Yield
<1>8. CASE Conclude(g)
  BY <1>8 DEF Conclude
<1>9. CASE FrameTaken(g)
  BY <1>9 DEF FrameTaken
<1>10. CASE ClientLeaves(g)
  BY <1>10 DEF ClientLeaves
<1>11. CASE LastFrameOver(g)
  BY <1>11 DEF LastFrameOver
<1> QED BY <1>1, <1>2, <1>3, <1>4, <1>5, <1>6, <1>7, <1>8, <1>9, <1>10, <1>11

LEMMA InvNext == Inv /\ [Next]_vars => Inv'
<1> SUFFICES ASSUME Inv, [Next]_vars PROVE Inv'
  OBVIOUS
<1>1. CASE \/ \E i \in Id : Cancel(i) \/ RetirementEnds(i)
           \/ \E g \in Handler : DeadlinePasses(g)
           \/ UNCHANGED vars
  <2>1. UNCHANGED <<place, unit, iterator, kind, answer>>
    BY <1>1 DEF Cancel, RetirementEnds, DeadlinePasses, vars, requestVars, renderVars
  <2> QED BY <2>1 DEF Inv, Types, Phase
<1> QED BY <1>1, RegistryKeepsInv, UnitKeepsInv, ResponseKeepsInv DEF Next, Serves,
           WholeRefused, StreamRefused

-----------------------------------------------------------------------------
\* The refinement: what a handler is doing, and for which unit, as the
\* lifecycle sees it.
Stages == [h \in Handler |-> Stage(h)]
Duties == [h \in Handler |-> Duty(h)]

Others(g) == \A h \in Handler \ {g} : place'[h] = place[h] /\ unit'[h] = unit[h]

\* A step of one handler changes its own stage and duty.
LEMMA OneMoves ==
  ASSUME NEW g \in Handler, Others(g)
  PROVE  /\ Stages' = [Stages EXCEPT ![g] = Stage(g)']
         /\ Duties' = [Duties EXCEPT ![g] = Duty(g)']
         /\ Stage(g)' = Stage(g) => Stages' = Stages
         /\ Duty(g)' = Duty(g) => Duties' = Duties
<1>1. \A h \in Handler \ {g} : Stage(h)' = Stage(h) /\ Duty(h)' = Duty(h)
  BY DEF Others, Stage, Duty
<1> QED BY <1>1 DEF Stages, Duties

\* The two specifications count and queue alike.
LEMMA SameOperators ==
  /\ Lifecycle!Entries = Entries
  /\ Lifecycle!Tickets = Tickets
  /\ Lifecycle!Alone = Alone
  /\ \A q, i : Lifecycle!Without(q, i) = Without(q, i)
<1>1. \A S : Lifecycle!Cardinality(S) = Cardinality(S)
  BY DEF Lifecycle!Cardinality, Cardinality
<1>2. Lifecycle!Entries = Entries
  BY <1>1 DEF Lifecycle!Entries, Entries
<1> QED BY <1>2 DEF Lifecycle!Tickets, Tickets, Lifecycle!Alone, Alone, Lifecycle!Without, Without

LEMMA InitRefines == Init => Lifecycle!Init
<1> SUFFICES ASSUME Init PROVE Lifecycle!Init
  OBVIOUS
<1>1. \A h \in Handler : Stage(h) = "out" /\ Duty(h) = "first"
  BY DEF Init, Stage, Duty
<1> QED BY <1>1 DEF Init, Lifecycle!Init

\* The registry and the places of the service.
LEMMA RegistrySimulates ==
  ASSUME Inv, NEW g \in Handler
  PROVE  /\ Register(g) => Lifecycle!Register(g)
         /\ Finish(g) => Lifecycle!Finish(g)
         /\ Refuse(g) => Lifecycle!Reject(g)
         /\ Reserve(g) => Lifecycle!Reserve(g)
         /\ Unreserve(g) => Lifecycle!Unreserve(g)
         /\ DeadlinePasses(g) => Lifecycle!GoesStale(g)
<1> USE DEF Others, MoveTo, Lifecycle!MoveTo, Lifecycle!Turn, Stages, Duties,
        requestVars, renderVars, registryVars, stateVars,
        Lifecycle!registryVars, Lifecycle!stateVars, Lifecycle!handlerVars
<1>0. /\ place \in [Handler -> Places] /\ Phase(g)
      /\ unit \in [Handler -> {"factory", "segment", "close"}]
  BY DEF Inv, Types
<1>1. ASSUME Register(g) PROVE Lifecycle!Register(g)
  <2>1. /\ place[g] = "out" /\ place'[g] = "registered" /\ unit' = unit /\ Others(g)
    BY <1>0, <1>1 DEF Register
  <2>2. Stage(g) = "out" /\ Stage(g)' = "registered" /\ Duty(g)' = Duty(g)
    BY <2>1 DEF Stage, Duty
  <2>3. Stages' = [Stages EXCEPT ![g] = "registered"] /\ Duties' = Duties
    BY <2>1, <2>2, OneMoves
  <2> QED BY <1>1, <2>2, <2>3, SameOperators DEF Register, Lifecycle!Register, Lifecycle!Classes
<1>2. ASSUME Finish(g) PROVE Lifecycle!Finish(g)
  <2>1. /\ place[g] = "finishing" /\ place'[g] = "out" /\ unit'[g] = "factory" /\ Others(g)
    BY <1>0, <1>2 DEF Finish
  <2>2. Stage(g) = "finishing" /\ Stage(g)' = "out" /\ Duty(g)' = "first"
    BY <2>1 DEF Stage, Duty
  <2>3. Stages' = [Stages EXCEPT ![g] = "out"] /\ Duties' = [Duties EXCEPT ![g] = "first"]
    BY <2>1, <2>2, OneMoves
  <2> QED BY <1>2, <2>2, <2>3 DEF Finish, Lifecycle!Finish
<1>3. ASSUME Refuse(g) PROVE Lifecycle!Reject(g)
  <2>1. /\ place[g] = "registered" /\ place'[g] = "finishing" /\ unit' = unit /\ Others(g)
    BY <1>0, <1>3 DEF Refuse, Parsed
  <2>2. Stage(g) = "registered" /\ Stage(g)' = "finishing" /\ Duty(g)' = Duty(g)
    BY <2>1 DEF Stage, Duty
  <2>3. Stages' = [Stages EXCEPT ![g] = "finishing"] /\ Duties' = Duties
    BY <2>1, <2>2, OneMoves
  <2> QED BY <1>3, <2>2, <2>3 DEF Refuse, Lifecycle!Reject
<1>4. ASSUME Reserve(g) PROVE Lifecycle!Reserve(g)
  <2>1. /\ place[g] = "registered" /\ place'[g] \in {"opened", "asking"}
        /\ unit' = unit /\ Others(g)
    BY <1>0, <1>4 DEF Reserve, Parsed
  <2>2. Stage(g) = "registered" /\ Stage(g)' = "reserved" /\ Duty(g)' = Duty(g)
    BY <2>1 DEF Stage, Duty
  <2>3. Stages' = [Stages EXCEPT ![g] = "reserved"] /\ Duties' = Duties
    BY <2>1, <2>2, OneMoves
  <2> QED BY <1>4, <2>2, <2>3 DEF Reserve, Lifecycle!Reserve, Lifecycle!MayReserve
<1>5. ASSUME Unreserve(g) PROVE Lifecycle!Unreserve(g)
  <2>1. /\ place[g] = "releasing" /\ place'[g] = "finishing" /\ unit' = unit /\ Others(g)
    BY <1>0, <1>5 DEF Unreserve
  <2>2. Stage(g) = "releasing" /\ Stage(g)' = "finishing" /\ Duty(g)' = Duty(g)
    BY <2>1 DEF Stage, Duty
  <2>3. Stages' = [Stages EXCEPT ![g] = "finishing"] /\ Duties' = Duties
    BY <2>1, <2>2, OneMoves
  <2> QED BY <1>5, <2>2, <2>3 DEF Unreserve, Lifecycle!Unreserve
<1>6. ASSUME DeadlinePasses(g) PROVE Lifecycle!GoesStale(g)
  <2>1. place[g] # "out" /\ place[g] \in Places /\ UNCHANGED <<place, unit>>
    BY <1>0, <1>6 DEF DeadlinePasses
  <2>2. Stage(g) # "out"
    BY <2>1 DEF Stage, Places
  <2>3. Stages' = Stages /\ Duties' = Duties
    BY <2>1 DEF Stage, Duty
  <2> QED BY <1>6, <2>2, <2>3 DEF DeadlinePasses, Lifecycle!GoesStale
<1> QED BY <1>1, <1>2, <1>3, <1>4, <1>5, <1>6

LEMMA CancelSimulates ==
  ASSUME NEW i \in Id
  PROVE  /\ Cancel(i) => Lifecycle!Cancel(i)
         /\ RetirementEnds(i) => Lifecycle!RetirementEnds(i)
<1> USE DEF requestVars, renderVars, registryVars, stateVars,
        Lifecycle!registryVars, Lifecycle!stateVars, Lifecycle!handlerVars
<1>1. ASSUME UNCHANGED <<place, unit>> PROVE Stages' = Stages /\ Duties' = Duties
  BY <1>1 DEF Stages, Duties, Stage, Duty
<1>2. Cancel(i) => Lifecycle!Cancel(i)
  BY <1>1, SameOperators DEF Cancel, Lifecycle!Cancel, Stages, Duties
<1>3. RetirementEnds(i) => Lifecycle!RetirementEnds(i)
  BY <1>1 DEF RetirementEnds, Lifecycle!RetirementEnds, Stages, Duties
<1> QED BY <1>2, <1>3

-----------------------------------------------------------------------------
\* A unit that is not run, and the end of the loop: with an open iterator the
\* handler asks for the close, without one it only gives its place back.
LEMMA UnwindTurns ==
  ASSUME Inv, NEW g \in Handler, Unwind(g),
         place[g] \in InQueue \cup Looping
  PROVE  /\ Others(g)
         /\ Duty(g) = "more" => Stage(g)' = "reserved" /\ Duty(g)' = "cleanup"
         /\ Duty(g) # "more" => Stage(g)' = "releasing" /\ Duty(g)' = Duty(g)
<1>0. /\ place \in [Handler -> Places] /\ Phase(g)
      /\ unit \in [Handler -> {"factory", "segment", "close"}]
  BY DEF Inv, Types
<1>1. Others(g)
  BY <1>0 DEF Unwind, Ask, MoveTo, Others
<1>2. CASE iterator[g] = "open" /\ unit[g] # "close"
  <2>1. place'[g] = "asking" /\ unit'[g] = "close"
    BY <1>0, <1>2 DEF Unwind, Ask, MoveTo
  <2>2. Duty(g) = "more"
    BY <1>0, <1>2 DEF Duty, Phase, InQueue, Looping
  <2> QED BY <1>1, <2>1, <2>2 DEF Stage, Duty
<1>3. CASE ~(iterator[g] = "open" /\ unit[g] # "close")
  <2>1. place'[g] = "releasing" /\ unit'[g] = unit[g]
    BY <1>0, <1>3 DEF Unwind, MoveTo
  <2>2. Duty(g) # "more" /\ unit[g] # "segment"
    BY <1>0, <1>3 DEF Duty, Phase, InQueue, Looping
  <2>3. place[g] \in InQueue
    BY <1>0, <1>3 DEF Phase, Looping
  <2>4. Duty(g)' = Duty(g)
    BY <2>1, <2>3 DEF Duty, InQueue
  <2> QED BY <1>1, <2>1, <2>2, <2>4 DEF Stage
<1> QED BY <1>2, <1>3

\* The handlers in the queue, and the worker, are those of the lifecycle.
LEMMA SameTurns ==
  ASSUME Inv, NEW g \in Handler
  PROVE  /\ place[g] \in {"opened", "asking"} => Stages[g] = "reserved"
         /\ place[g] = "waiting" => Stages[g] = "waiting"
         /\ place[g] = "computing" => Stages[g] = "computing"
         /\ place[g] \in Looping => Stages[g] = "between"
         /\ Duties[g] = Duty(g)
         /\ place[g] \in InQueue => (Duty(g) = "first" <=> unit[g] = "factory")
         /\ place[g] \in InQueue => (Duty(g) = "more" <=> unit[g] = "segment")
         /\ Duty(g) = "cleanup" <=> unit[g] = "close"
         /\ Duty(g) \in {"first", "more", "cleanup"}
<1>1. /\ place[g] \in Places /\ unit[g] \in {"factory", "segment", "close"}
  BY DEF Inv, Types
<1>2. Stages[g] = Stage(g) /\ Duties[g] = Duty(g)
  BY DEF Stages, Duties
<1>3. CASE unit[g] = "close"
  <2>1. place[g] \notin {"between", "ended"}
    BY <1>3 DEF Inv, Phase, Looping
  <2>2. Duty(g) = "cleanup"
    BY <1>3, <2>1 DEF Duty
  <2> QED BY <1>1, <1>2, <1>3, <2>2 DEF Stage, Looping, InQueue
<1>4. CASE unit[g] = "segment"
  <2>1. Duty(g) = "more"
    BY <1>4 DEF Duty
  <2> QED BY <1>1, <1>2, <1>4, <2>1 DEF Stage, Looping, InQueue
<1>5. CASE unit[g] = "factory"
  <2>1. Duty(g) = IF place[g] \in {"between", "ended"} THEN "more" ELSE "first"
    BY <1>5 DEF Duty
  <2> QED BY <1>1, <1>2, <1>5, <2>1 DEF Stage, Looping, InQueue
<1> QED BY <1>1, <1>3, <1>4, <1>5

\* compute, for any of the three units.
LEMMA QueueSimulates ==
  ASSUME Inv, NEW g \in Handler
  PROVE  /\ NotComputed(g) => Lifecycle!Refused(g)
         /\ StartAtOnce(g) => Lifecycle!StartAtOnce(g)
         /\ TakeTicket(g) => Lifecycle!TakeTicket(g)
         /\ Admit(g) => Lifecycle!Admit(g)
         /\ Abandon(g) => Lifecycle!Abandon(g)
<1> USE DEF Lifecycle!MoveTo, Lifecycle!Turn, requestVars, renderVars, registryVars,
        stateVars, Lifecycle!registryVars, Lifecycle!stateVars, Lifecycle!handlerVars
<1>0. /\ place \in [Handler -> Places]
      /\ unit \in [Handler -> {"factory", "segment", "close"}]
  BY DEF Inv, Types
<1>1. Lifecycle!Passes(g) <=> Passes(g)
  BY SameTurns DEF Lifecycle!Passes, Passes, Duties
<1>2. ~Lifecycle!Yields(g)
  BY DEF Lifecycle!Yields
<1>3. ASSUME Unwind(g), place[g] \in InQueue
      PROVE  Lifecycle!SkipUnit(g)
  <2>1. /\ Duty(g) = "more" => Stages' = [Stages EXCEPT ![g] = "reserved"]
                               /\ Duties' = [Duties EXCEPT ![g] = "cleanup"]
        /\ Duty(g) # "more" => Stages' = [Stages EXCEPT ![g] = "releasing"]
                               /\ Duties' = Duties
    BY <1>3, UnwindTurns, OneMoves
  <2> QED BY <2>1, SameTurns DEF Lifecycle!SkipUnit, Stages, Duties
<1>4. ASSUME NotComputed(g) PROVE Lifecycle!Refused(g)
  <2>1. place[g] = "asking" /\ Lifecycle!SkipUnit(g)
    BY <1>3, <1>4 DEF NotComputed, InQueue
  <2>2. \/ Lifecycle!Tickets >= Slots \/ (Lifecycle!Alone /\ ~Lifecycle!Passes(g))
        \/ Lifecycle!GivesUpEarly(g)
    BY <1>1, <1>4, SameTurns, SameOperators DEF NotComputed, Lifecycle!GivesUpEarly, InQueue, Duties
  <2> QED BY <1>4, <2>1, <2>2, SameTurns DEF NotComputed, Answer, Lifecycle!Refused, Stages
<1>5. ASSUME NEW p \in {"waiting", "computing"}, MoveTo(g, p), UNCHANGED unit,
             place[g] \in InQueue
      PROVE  Stages' = [Stages EXCEPT ![g] = p] /\ Duties' = Duties
  <2>1. Others(g) /\ place'[g] = p /\ unit'[g] = unit[g]
    BY <1>0, <1>5 DEF MoveTo, Others
  <2>2. Stage(g)' = p /\ Duty(g)' = Duty(g)
    BY <1>5, <2>1 DEF Stage, Duty, InQueue
  <2> QED BY <2>1, <2>2, OneMoves
<1>6. StartAtOnce(g) => Lifecycle!StartAtOnce(g)
  <2> SUFFICES ASSUME StartAtOnce(g) PROVE Lifecycle!StartAtOnce(g)
    OBVIOUS
  <2>1. Stages' = [Stages EXCEPT ![g] = "computing"] /\ Duties' = Duties
    BY <1>5 DEF StartAtOnce, InQueue
  <2> QED BY <1>1, <1>2, <2>1, SameTurns, SameOperators
             DEF StartAtOnce, Lifecycle!StartAtOnce, Stages, Duties
<1>7. TakeTicket(g) => Lifecycle!TakeTicket(g)
  <2> SUFFICES ASSUME TakeTicket(g) PROVE Lifecycle!TakeTicket(g)
    OBVIOUS
  <2>1. Stages' = [Stages EXCEPT ![g] = "waiting"] /\ Duties' = Duties
    BY <1>5 DEF TakeTicket, InQueue
  <2> QED BY <1>2, <2>1, SameTurns, SameOperators
             DEF TakeTicket, Lifecycle!TakeTicket, Stages, Duties
<1>8. Admit(g) => Lifecycle!Admit(g)
  <2> SUFFICES ASSUME Admit(g) PROVE Lifecycle!Admit(g)
    OBVIOUS
  <2>1. Stages' = [Stages EXCEPT ![g] = "computing"] /\ Duties' = Duties
    BY <1>5 DEF Admit, InQueue
  <2> QED BY <1>1, <2>1, SameTurns DEF Admit, Lifecycle!Admit, Stages, Duties
<1>9. ASSUME Abandon(g) PROVE Lifecycle!Abandon(g)
  <2>1. place[g] = "waiting" /\ Lifecycle!SkipUnit(g)
    BY <1>3, <1>9 DEF Abandon, InQueue
  <2> QED BY <1>1, <1>9, <2>1, SameTurns, SameOperators DEF Abandon, Lifecycle!Abandon, Stages
<1> QED BY <1>4, <1>6, <1>7, <1>8, <1>9

\* The end of a unit: the factory and the segments go on to the loop, unless
\* there is no iterator; the close ends the request.
LEMMA UnitSimulates ==
  ASSUME Inv, NEW g \in Handler, MakeIterator(g) \/ RenderSegment(g) \/ CloseIterator(g)
  PROVE  Lifecycle!EndUnit(g)
<1> USE DEF FreeWorker, MoveTo, requestVars, renderVars, registryVars,
        stateVars, Lifecycle!registryVars, Lifecycle!stateVars, Lifecycle!handlerVars
<1>0. /\ place \in [Handler -> Places]
      /\ unit \in [Handler -> {"factory", "segment", "close"}]
  BY DEF Inv, Types
<1>1. /\ place[g] = "computing" /\ busy' = FALSE /\ unit' = unit /\ Others(g)
      /\ UNCHANGED <<id, stale, active, retired, reserved, waiters, acked>>
  BY <1>0 DEF MakeIterator, RenderSegment, CloseIterator, Others
<1>2. \/ Duty(g) # "cleanup" /\ Stage(g)' = "between" /\ Duty(g)' = "more"
      \/ Duty(g) # "more" /\ Stage(g)' = "releasing" /\ Duty(g)' = Duty(g)
  <2>1. CASE MakeIterator(g)
    <3>1. unit[g] = "factory" /\ place'[g] \in {"between", "ended", "releasing"}
      BY <1>0, <2>1 DEF MakeIterator
    <3> QED BY <1>1, <3>1 DEF Stage, Duty
  <2>2. CASE RenderSegment(g)
    <3>1. unit[g] = "segment" /\ place'[g] \in {"rendered", "ended"}
      BY <1>0, <2>2 DEF RenderSegment
    <3> QED BY <1>1, <3>1 DEF Stage, Duty
  <2>3. CASE CloseIterator(g)
    <3>1. unit[g] = "close" /\ place'[g] \in {"releasing", "concluding"}
      BY <1>0, <2>3 DEF CloseIterator
    <3> QED BY <1>1, <3>1 DEF Stage, Duty
  <2> QED BY <2>1, <2>2, <2>3
<1>3. \/ Duty(g) # "cleanup" /\ Stages' = [Stages EXCEPT ![g] = "between"]
           /\ Duties' = [Duties EXCEPT ![g] = "more"]
      \/ Duty(g) # "more" /\ Stages' = [Stages EXCEPT ![g] = "releasing"] /\ Duties' = Duties
  BY <1>1, <1>2, OneMoves
<1> QED BY <1>1, <1>3, SameTurns
           DEF Lifecycle!EndUnit, Lifecycle!MoveTo, Lifecycle!Turn, Stages, Duties

\* The loop of render_segments: only the next segment and the close are steps
\* of the lifecycle.
LEMMA LoopSimulates ==
  ASSUME Inv, NEW g \in Handler,
         AskSegment(g) \/ LeaveLoop(g) \/ Fail(g) \/ ClientLeaves(g)
  PROVE  Lifecycle!NextSegment(g)
<1> USE DEF requestVars, renderVars, registryVars,
        stateVars, Lifecycle!registryVars, Lifecycle!stateVars, Lifecycle!handlerVars
<1>0. /\ place \in [Handler -> Places] /\ Phase(g)
      /\ unit \in [Handler -> {"factory", "segment", "close"}]
  BY DEF Inv, Types
<1>1. place[g] \in Looping
  BY DEF AskSegment, LeaveLoop, Fail, ClientLeaves, Looping
<1>2. Duty(g) = "more"
  BY <1>0, <1>1 DEF Phase, Duty, Looping
<1>3. /\ UNCHANGED <<id, stale, active, retired, reserved, waiters, busy, acked>>
  BY DEF AskSegment, LeaveLoop, Fail, ClientLeaves
<1>4. CASE AskSegment(g)
  <2>1. /\ Others(g) /\ place'[g] = "asking" /\ unit'[g] = "segment" /\ g \notin stale
    BY <1>0, <1>4 DEF AskSegment, Ask, MoveTo, Others
  <2>2. Stage(g)' = "reserved" /\ Duty(g)' = "more"
    BY <2>1 DEF Stage, Duty
  <2>3. Stages' = [Stages EXCEPT ![g] = "reserved"] /\ Duties' = [Duties EXCEPT ![g] = "more"]
    BY <2>1, <2>2, OneMoves
  <2> QED BY <1>1, <1>3, <2>1, <2>3, SameTurns
             DEF Lifecycle!NextSegment, Lifecycle!MoveTo, Lifecycle!Turn, Stages, Duties
<1>5. CASE Unwind(g)
  <2>1. Stages' = [Stages EXCEPT ![g] = "reserved"] /\ Duties' = [Duties EXCEPT ![g] = "cleanup"]
    BY <1>1, <1>2, <1>5, UnwindTurns, OneMoves
  <2> QED BY <1>1, <1>3, <2>1, SameTurns
             DEF Lifecycle!NextSegment, Lifecycle!MoveTo, Lifecycle!Turn, Stages, Duties
<1> QED BY <1>4, <1>5 DEF LeaveLoop, Fail, ClientLeaves

\* What the lifecycle does not see: the response, and what is kept or sent.
LEMMA ResponseStutters ==
  ASSUME Inv, NEW g \in Handler,
         \/ Iterate(g) \/ Keep(g) \/ Yield(g) \/ FrameTaken(g) \/ Conclude(g)
         \/ LastFrameOver(g)
  PROVE  UNCHANGED Lifecycle!vars
<1> USE DEF MoveTo, requestVars, renderVars, registryVars, stateVars
<1>0. /\ place \in [Handler -> Places] /\ Phase(g)
      /\ unit \in [Handler -> {"factory", "segment", "close"}]
  BY DEF Inv, Types
<1>1. /\ unit' = unit /\ Others(g)
      /\ UNCHANGED <<id, stale, active, retired, reserved, waiters, busy, acked>>
  BY <1>0 DEF Iterate, Keep, Yield, FrameTaken, Conclude, LastFrameOver, Others
<1>2. \/ place[g] = "opened" /\ place'[g] = "asking"
      \/ place[g] \in {"rendered", "sending"} /\ place'[g] \in Looping
      \/ place[g] \in {"concluding", "lastFrame"}
           /\ place'[g] \in {"concluding", "lastFrame", "releasing"}
  BY <1>0 DEF Iterate, Keep, Yield, FrameTaken, Conclude, LastFrameOver, Looping
<1>3. Stage(g)' = Stage(g) /\ Duty(g)' = Duty(g)
  BY <1>0, <1>1, <1>2 DEF Phase, Stage, Duty, Looping
<1>4. Stages' = Stages /\ Duties' = Duties
  BY <1>1, <1>3, OneMoves
<1> QED BY <1>1, <1>4 DEF Stages, Duties, Lifecycle!vars, Lifecycle!handlerVars,
           Lifecycle!registryVars, Lifecycle!stateVars

\* A response that is never iterated has not taken the worker.
LEMMA NeverIteratedSimulates ==
  ASSUME Inv, NEW g \in Handler, NeverIterated(g)
  PROVE  Lifecycle!Refused(g)
<1>0. /\ place \in [Handler -> Places] /\ Phase(g)
      /\ unit \in [Handler -> {"factory", "segment", "close"}]
  BY DEF Inv, Types
<1>1. /\ place[g] = "opened" /\ place'[g] = "releasing" /\ unit' = unit /\ Others(g)
  BY <1>0 DEF NeverIterated, MoveTo, Others, renderVars
<1>2. Duty(g) = "first" /\ Stage(g)' = "releasing" /\ Duty(g)' = "first"
  BY <1>0, <1>1 DEF Phase, Stage, Duty
<1>3. Stages' = [Stages EXCEPT ![g] = "releasing"] /\ Duties' = Duties
  BY <1>1, <1>2, OneMoves
<1> QED BY <1>1, <1>2, <1>3, SameTurns
           DEF NeverIterated, Lifecycle!Refused, Lifecycle!GivesUpEarly, Lifecycle!SkipUnit,
               Lifecycle!MoveTo, Stages, Duties, requestVars, renderVars, registryVars,
               stateVars, Lifecycle!registryVars, Lifecycle!stateVars, Lifecycle!handlerVars

LEMMA NextSimulates == Inv /\ [Next]_vars => [Lifecycle!Next]_(Lifecycle!vars)
<1> SUFFICES ASSUME Inv, [Next]_vars PROVE [Lifecycle!Next]_(Lifecycle!vars)
  OBVIOUS
<1>1. CASE UNCHANGED vars
  <2>1. Stages' = Stages /\ Duties' = Duties
    BY <1>1 DEF vars, renderVars, Stages, Duties, Stage, Duty
  <2> QED BY <1>1, <2>1 DEF vars, requestVars, registryVars, stateVars, Stages, Duties,
             Lifecycle!vars, Lifecycle!handlerVars, Lifecycle!registryVars, Lifecycle!stateVars
<1>2. ASSUME NEW i \in Id, Cancel(i) \/ RetirementEnds(i) PROVE Lifecycle!Next
  BY <1>2, CancelSimulates DEF Lifecycle!Next
<1>3. ASSUME NEW g \in Handler,
             \/ Register(g) \/ Finish(g) \/ Refuse(g) \/ Reserve(g) \/ Unreserve(g)
             \/ DeadlinePasses(g)
      PROVE  Lifecycle!Next
  BY <1>3, RegistrySimulates DEF Lifecycle!Next
<1>4. ASSUME NEW g \in Handler,
             \/ NotComputed(g) \/ StartAtOnce(g) \/ TakeTicket(g) \/ Admit(g) \/ Abandon(g)
             \/ MakeIterator(g) \/ RenderSegment(g) \/ CloseIterator(g)
      PROVE  Lifecycle!Next
  BY <1>4, QueueSimulates, UnitSimulates DEF Lifecycle!Next
<1>5. ASSUME NEW g \in Handler,
             \/ AskSegment(g) \/ LeaveLoop(g) \/ Fail(g) \/ ClientLeaves(g) \/ NeverIterated(g)
      PROVE  Lifecycle!Next
  BY <1>5, LoopSimulates, NeverIteratedSimulates DEF Lifecycle!Next
<1> QED BY <1>1, <1>2, <1>3, <1>4, <1>5, ResponseStutters DEF Next, Serves,
           WholeRefused, StreamRefused

\* The safety part of ImplementsLifecycle: whatever the generators, the clients
\* and the deadlines do, every step of the TTS service is one of the lifecycle
\* of requests, or none.
THEOREM RefinesLifecycle == Spec => Lifecycle!Init /\ [][Lifecycle!Next]_(Lifecycle!vars)
<1>1. Spec => []Inv
  BY InvInit, InvNext, PTL DEF Spec
<1> QED BY <1>1, InitRefines, NextSimulates, PTL DEF Spec

-----------------------------------------------------------------------------
\* What RequestLifecycle_proofs proves, for the lifecycle of these requests.
Proved == INSTANCE RequestLifecycle_proofs WITH
            service <- "tts", BackgroundQuota <- 0, background <- {},
            class <- [h \in Handler |-> "foreground"],
            place <- [h \in Handler |-> Stage(h)],
            duty <- [h \in Handler |-> Duty(h)]

\* That module's steps are the lifecycle's, as it extends RequestLifecycle.
LEMMA SameSteps ==
  ASSUME NEW h \in Handler
  PROVE  /\ Lifecycle!Register(h) => Proved!Register(h)
         /\ Lifecycle!Reject(h) => Proved!Reject(h)
         /\ Lifecycle!Finish(h) => Proved!Finish(h)
         /\ Lifecycle!GoesStale(h) => Proved!GoesStale(h)
         /\ Lifecycle!Reserve(h) => Proved!Reserve(h)
         /\ Lifecycle!Unreserve(h) => Proved!Unreserve(h)
         /\ Lifecycle!Refused(h) => Proved!Refused(h)
         /\ Lifecycle!StartAtOnce(h) => Proved!StartAtOnce(h)
         /\ Lifecycle!TakeTicket(h) => Proved!TakeTicket(h)
         /\ Lifecycle!Admit(h) => Proved!Admit(h)
         /\ Lifecycle!Abandon(h) => Proved!Abandon(h)
         /\ Lifecycle!EndUnit(h) => Proved!EndUnit(h)
         /\ Lifecycle!NextSegment(h) => Proved!NextSegment(h)
<1> USE DEF
      Lifecycle!MoveTo, Proved!MoveTo, Lifecycle!Turn, Proved!Turn,
      Lifecycle!Entries, Proved!Entries, Lifecycle!BackgroundFits,
      Proved!BackgroundFits, Lifecycle!MayReserve, Proved!MayReserve,
      Lifecycle!Tickets, Proved!Tickets, Lifecycle!Yields, Proved!Yields,
      Lifecycle!Passes, Proved!Passes, Lifecycle!Alone, Proved!Alone,
      Lifecycle!SkipUnit, Proved!SkipUnit, Lifecycle!GivesUpEarly,
      Proved!GivesUpEarly, Lifecycle!Without, Proved!Without,
      Lifecycle!handlerVars, Proved!handlerVars, Lifecycle!registryVars,
      Proved!registryVars, Lifecycle!stateVars, Proved!stateVars,
      Lifecycle!Classes, Proved!Classes, Lifecycle!Cardinality,
      Proved!Cardinality
<1>1. Lifecycle!Register(h) => Proved!Register(h)
  BY DEF Lifecycle!Register, Proved!Register
<1>2. Lifecycle!Reject(h) => Proved!Reject(h)
  BY DEF Lifecycle!Reject, Proved!Reject
<1>3. Lifecycle!Finish(h) => Proved!Finish(h)
  BY DEF Lifecycle!Finish, Proved!Finish
<1>4. Lifecycle!GoesStale(h) => Proved!GoesStale(h)
  BY DEF Lifecycle!GoesStale, Proved!GoesStale
<1>5. Lifecycle!Reserve(h) => Proved!Reserve(h)
  BY DEF Lifecycle!Reserve, Proved!Reserve
<1>6. Lifecycle!Unreserve(h) => Proved!Unreserve(h)
  BY DEF Lifecycle!Unreserve, Proved!Unreserve
<1>7. Lifecycle!Refused(h) => Proved!Refused(h)
  BY DEF Lifecycle!Refused, Proved!Refused
<1>8. Lifecycle!StartAtOnce(h) => Proved!StartAtOnce(h)
  BY DEF Lifecycle!StartAtOnce, Proved!StartAtOnce
<1>9. Lifecycle!TakeTicket(h) => Proved!TakeTicket(h)
  BY DEF Lifecycle!TakeTicket, Proved!TakeTicket
<1>10. Lifecycle!Admit(h) => Proved!Admit(h)
  BY DEF Lifecycle!Admit, Proved!Admit
<1>11. Lifecycle!Abandon(h) => Proved!Abandon(h)
  BY DEF Lifecycle!Abandon, Proved!Abandon
<1>12. Lifecycle!EndUnit(h) => Proved!EndUnit(h)
  BY DEF Lifecycle!EndUnit, Proved!EndUnit
<1>13. Lifecycle!NextSegment(h) => Proved!NextSegment(h)
  BY DEF Lifecycle!NextSegment, Proved!NextSegment
<1> QED BY <1>1, <1>2, <1>3, <1>4, <1>5, <1>6, <1>7, <1>8, <1>9, <1>10, <1>11, <1>12, <1>13

LEMMA SameLifecycle ==
  /\ Lifecycle!Init => Proved!Init
  /\ [Lifecycle!Next]_(Lifecycle!vars) => [Proved!Next]_(Proved!vars)
  /\ Proved!TicketAlwaysFits => Lifecycle!TicketAlwaysFits
<1> USE DEF Lifecycle!vars, Proved!vars, Lifecycle!handlerVars, Proved!handlerVars,
        Lifecycle!registryVars, Proved!registryVars, Lifecycle!stateVars, Proved!stateVars
<1>1. Lifecycle!Init => Proved!Init
  BY DEF Lifecycle!Init, Proved!Init
<1>2. UNCHANGED Lifecycle!vars => UNCHANGED Proved!vars
  OBVIOUS
<1>3. ASSUME NEW i \in Id
      PROVE  /\ Lifecycle!Cancel(i) => Proved!Cancel(i)
             /\ Lifecycle!RetirementEnds(i) => Proved!RetirementEnds(i)
  BY DEF Lifecycle!Cancel, Proved!Cancel, Lifecycle!RetirementEnds, Proved!RetirementEnds,
         Lifecycle!Entries, Proved!Entries, Lifecycle!Cardinality, Proved!Cardinality
<1>4. Lifecycle!Next => Proved!Next
  BY <1>3, SameSteps DEF Lifecycle!Next, Proved!Next
<1>5. Proved!TicketAlwaysFits => Lifecycle!TicketAlwaysFits
  BY DEF Proved!TicketAlwaysFits, Lifecycle!TicketAlwaysFits, Proved!Tickets, Lifecycle!Tickets
<1> QED BY <1>1, <1>2, <1>4, <1>5

LEMMA IsALifecycle == Proved!SizeAssumption /\ (Spec => Proved!Spec)
<1>1. Proved!SizeAssumption
  BY SizeAssumption DEF Proved!SizeAssumption, Proved!IsFiniteSet, IsFiniteSet
<1>2. Spec => Proved!Spec
  BY RefinesLifecycle, SameLifecycle, PTL DEF Proved!Spec
<1> QED BY <1>1, <1>2

\* Who asks for the worker with a place reserved finds a ticket: proved of the
\* lifecycle, and carried over by the refinement.
Fits == Lifecycle!TicketAlwaysFits /\ waiters \in Seq(Handler)

LEMMA TicketFits == Spec => []Fits
<1>1. Proved!Spec => []Proved!TicketAlwaysFits /\ []Proved!QInv
  BY IsALifecycle, Proved!ReservedFindsTicket, Proved!InitQInv, Proved!StepQInv, PTL
     DEF Proved!Spec
<1>2. Proved!TicketAlwaysFits /\ Proved!QInv => Fits
  BY SameLifecycle DEF Proved!QInv, Proved!Kinds, Fits
<1> QED BY <1>1, <1>2, IsALifecycle, PTL

\* RegistryBounded, for these requests: whatever the order of registering,
\* finishing and cancelling, the registry keeps to its capacity.
THEOREM RegistryKeepsItsSize == Spec => [](Entries <= RegistryCapacity)
<1>1. Proved!Spec => []Proved!RegistryBounded
  BY IsALifecycle, Proved!RegistryKeepsItsSize
<1>2. Proved!RegistryBounded => Entries <= RegistryCapacity
  BY DEF Proved!RegistryBounded, Proved!Entries, Proved!Cardinality, Entries, Cardinality
<1> QED BY <1>1, <1>2, IsALifecycle, PTL

\* CancelledNeverStarts, for these requests: once its cancellation has been
\* acknowledged no request starts its factory or another segment; only the
\* close of the iterator it has still takes the worker.
StartsUncancelled ==
  \A h \in Handler :
    place[h] # "computing" /\ place'[h] = "computing" /\ unit[h] # "close" =>
      id[h] \notin acked

THEOREM CancelHonoured == Spec => [][StartsUncancelled]_vars
<1> DEFINE Carried ==
      \A h \in Handler :
        Stages[h] # "computing" /\ Stages'[h] = "computing" /\ Duties[h] # "cleanup" =>
          id[h] \notin acked
<1>1. Proved!Spec => [][Carried]_(Proved!vars)
  BY IsALifecycle, Proved!CancelHonoured DEF Proved!CancelledNeverStarts, Stages, Duties
<1>2. ASSUME Inv, Inv', [Carried]_(Proved!vars) PROVE StartsUncancelled
  <2> SUFFICES ASSUME NEW h \in Handler, place[h] # "computing", place'[h] = "computing",
                      unit[h] # "close"
               PROVE  id[h] \notin acked
    BY DEF StartsUncancelled
  <2>1. Stages'[h] = "computing"
    BY DEF Stages, Stage
  <2>2. place[h] \in Places
    BY <1>2 DEF Inv, Types
  <2>3. Stages[h] # "computing"
    BY <2>2 DEF Stages, Stage, Places
  <2>4. Duties[h] # "cleanup"
    BY <1>2, SameTurns
  <2>5. ~(UNCHANGED Proved!vars)
    BY <2>1, <2>3 DEF Proved!vars, Proved!handlerVars, Stages
  <2> QED BY <1>2, <2>1, <2>3, <2>4, <2>5
<1>3. Spec => []Inv
  BY InvInit, InvNext, PTL DEF Spec
<1>4. Inv /\ Inv' /\ [Carried]_(Proved!vars) => StartsUncancelled
  BY <1>2
<1> QED BY <1>1, <1>3, <1>4, IsALifecycle, PTL

-----------------------------------------------------------------------------
\* Past the loop there is no open iterator.
ClosedAfterLoop ==
  \A h \in Handler :
    place[h] \in {"concluding", "lastFrame", "releasing", "finishing"} => iterator[h] # "open"

\* The close is always run: it finds a ticket, and cancellation passes it by.
LEMMA CloseIsRun ==
  ASSUME Inv, Fits, NEW g \in Handler, unit[g] = "close"
  PROVE  ~NotComputed(g) /\ ~Abandon(g)
<1>1. Passes(g)
  BY DEF Passes
<1>2. ASSUME NotComputed(g) PROVE FALSE
  <2>1. Stages[g] = "reserved"
    BY <1>2, SameTurns DEF NotComputed
  <2>2. Tickets < Slots
    BY <2>1, SameOperators DEF Fits, Lifecycle!TicketAlwaysFits, Stages
  <2>3. Tickets \in Nat
    BY DEF Tickets, Fits
  <2> QED BY <1>1, <1>2, <2>2, <2>3, SizeAssumption DEF NotComputed
<1> QED BY <1>1, <1>2 DEF Abandon

LEMMA ClosedInit == Init => ClosedAfterLoop
  BY DEF Init, ClosedAfterLoop

LEMMA ClosedNext ==
  Inv /\ Fits /\ ClosedAfterLoop /\ [Next]_vars => ClosedAfterLoop'
<1> SUFFICES ASSUME Inv, Fits, ClosedAfterLoop, [Next]_vars
             PROVE  ClosedAfterLoop'
  OBVIOUS
<1> DEFINE Past == {"concluding", "lastFrame", "releasing", "finishing"}
<1>0. /\ place \in [Handler -> Places] /\ iterator \in [Handler -> {"none", "open", "closed"}]
      /\ unit \in [Handler -> {"factory", "segment", "close"}]
      /\ \A h \in Handler : Phase(h) /\ (place[h] \in Past => iterator[h] # "open")
  BY DEF Inv, Types, ClosedAfterLoop
<1>1. SUFFICES ASSUME NEW h \in Handler, place'[h] \in Past
               PROVE  iterator'[h] # "open"
  BY DEF ClosedAfterLoop
<1>2. ASSUME NEW g \in Handler, Unwind(g), unit[g] # "close", UNCHANGED iterator
      PROVE  iterator'[h] # "open"
  BY <1>0, <1>1, <1>2 DEF Unwind, Ask, MoveTo
<1>3. ASSUME NEW g \in Handler,
             NotComputed(g) \/ Abandon(g) \/ LeaveLoop(g) \/ Fail(g) \/ ClientLeaves(g)
      PROVE  iterator'[h] # "open"
  <2>1. Unwind(g) /\ UNCHANGED iterator
    BY <1>3 DEF NotComputed, Abandon, LeaveLoop, Fail, ClientLeaves
  <2>2. unit[g] # "close"
    BY <1>0, <1>3, CloseIsRun DEF Phase, Looping, LeaveLoop, Fail, ClientLeaves
  <2> QED BY <1>2, <2>1, <2>2
<1>4. ASSUME NEW g \in Handler, MakeIterator(g) \/ RenderSegment(g) \/ CloseIterator(g)
      PROVE  iterator'[h] # "open"
  BY <1>0, <1>1, <1>4 DEF Phase, InQueue, FreeWorker, MoveTo,
     MakeIterator, RenderSegment, CloseIterator
<1>5. ASSUME NEW g \in Handler,
             \/ Register(g) \/ Finish(g) \/ Refuse(g) \/ Reserve(g) \/ Unreserve(g)
             \/ DeadlinePasses(g)
      PROVE  iterator'[h] # "open"
  BY <1>0, <1>1, <1>5 DEF Phase, MoveTo, Register, Finish, Refuse, Parsed, Reserve,
     Unreserve, DeadlinePasses, renderVars
<1>6. ASSUME NEW g \in Handler,
             \/ StartAtOnce(g) \/ TakeTicket(g) \/ Admit(g) \/ AskSegment(g)
             \/ Iterate(g) \/ NeverIterated(g) \/ Keep(g) \/ Yield(g) \/ FrameTaken(g)
      PROVE  iterator'[h] # "open"
  BY <1>0, <1>1, <1>6 DEF Phase, MoveTo, Ask, renderVars, StartAtOnce, TakeTicket, Admit,
     AskSegment, Iterate, NeverIterated, Keep, Yield, FrameTaken
<1>7. ASSUME NEW g \in Handler, Conclude(g) \/ LastFrameOver(g)
      PROVE  iterator'[h] # "open"
  BY <1>0, <1>1, <1>7 DEF MoveTo, renderVars, Conclude, LastFrameOver
<1>8. CASE UNCHANGED vars \/ \E i \in Id : Cancel(i) \/ RetirementEnds(i)
  BY <1>0, <1>1, <1>8 DEF vars, renderVars, Cancel, RetirementEnds
<1> QED BY <1>3, <1>4, <1>5, <1>6, <1>7, <1>8 DEF Next, Serves, WholeRefused, StreamRefused

\* IteratorClosed: whatever fails, expires or leaves, no request gives its
\* place back or ends with the backend's iterator still open.
THEOREM IteratorAlwaysClosed == Spec => []IteratorClosed
<1>1. Inv /\ ClosedAfterLoop => IteratorClosed
  BY DEF Inv, Types, Phase, ClosedAfterLoop, IteratorClosed, Places
<1> QED BY InvInit, InvNext, TicketFits, ClosedInit, ClosedNext, <1>1, PTL DEF Spec
=============================================================================
