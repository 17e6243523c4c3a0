--------------------------- MODULE RequestLifecycle ---------------------------
(***************************************************************************)
(* The request lifecycle of the speech services: RequestRegistry and       *)
(* ServiceState of services/stt/.../request_lifecycle.py (services/tts has *)
(* the same two classes without the background class) and the handlers of  *)
(* their app.py that use them.                                             *)
(*                                                                         *)
(* A handler registers its request id, reserves one of Slots places, and   *)
(* runs inference units one at a time through a FIFO of tickets.  An STT   *)
(* request is one unit.  A TTS request joins the tail again for every      *)
(* segment and, once it has a backend iterator, for its cleanup.           *)
(*                                                                         *)
(* Each `with self.lock' or `with self.condition' block is one action; the *)
(* wait of a queued ticket is a loop that looks again every 50 ms.  Time   *)
(* is abstract: a deadline passes, or a retired id expires, at any moment, *)
(* so an id is retired exactly while it is in `retired'.                   *)
(***************************************************************************)
EXTENDS Naturals, Sequences, FiniteSets

CONSTANTS
  Handler,           \* HTTP worker threads
  Id,                \* request ids
  None,
  Slots,             \* ServiceState.capacity
  RegistryCapacity,  \* RequestRegistry.capacity
  BackgroundQuota    \* min(256, capacity // 4)

ASSUME SizeAssumption ==
  /\ Slots \in Nat \ {0} /\ RegistryCapacity \in Nat /\ BackgroundQuota \in Nat
  /\ IsFiniteSet(Id) /\ IsFiniteSet(Handler) /\ None \notin Id

VARIABLES
  service,     \* which of the two services this is
  place,       \* where each handler is
  id,          \* the request id it serves
  class,       \* work_class
  duty,        \* the unit it runs next: first, more segments, or cleanup
  stale,       \* handlers whose checkpoint() raises: cancelled or expired
  active,      \* RequestRegistry.active
  retired,     \* RequestRegistry.retired, without what _prune would drop
  background,  \* background_ids, likewise
  reserved,    \* ServiceState.reserved_requests
  waiters,     \* ServiceState.waiters
  busy,        \* active_requests = 1
  acked        \* auxiliary: ids whose cancellation was acknowledged

handlerVars  == <<place, id, class, duty>>
registryVars == <<active, retired, background>>
stateVars    == <<reserved, waiters, busy>>
vars == <<service, handlerVars, stale, registryVars, stateVars, acked>>

Places == {"out", "registered", "reserved", "waiting", "computing", "between",
           "releasing", "finishing"}
Classes == {"foreground", "background"}

Init ==
  /\ service \in {"stt", "tts"}
  /\ place = [h \in Handler |-> "out"] /\ id = [h \in Handler |-> None]
  /\ class = [h \in Handler |-> "foreground"]
  /\ duty = [h \in Handler |-> "first"]
  /\ stale = {} /\ active = {} /\ retired = {} /\ background = {}
  /\ reserved = 0 /\ waiters = <<>> /\ busy = FALSE /\ acked = {}

MoveTo(h, p) == place' = [place EXCEPT ![h] = p]
Turn(h, p, d) == MoveTo(h, p) /\ duty' = [duty EXCEPT ![h] = d]

-----------------------------------------------------------------------------
\* RequestRegistry.register; a refusal changes nothing.
Entries == Cardinality(active) + Cardinality(retired)
BackgroundFits ==
  /\ service = "stt"
  /\ Cardinality(background) < BackgroundQuota /\ Entries < RegistryCapacity - 1

Register(h) ==
  /\ place[h] = "out" /\ Entries < RegistryCapacity
  /\ \E i \in Id \ (active \cup retired), c \in Classes :
       /\ c = "background" => BackgroundFits
       /\ active' = active \cup {i}
       /\ background' = IF c = "background" THEN background \cup {i} ELSE background
       /\ id' = [id EXCEPT ![h] = i] /\ class' = [class EXCEPT ![h] = c]
  /\ MoveTo(h, "registered")
  /\ stale' = stale \ {h}
  /\ UNCHANGED <<service, duty, retired, stateVars, acked>>

\* The request is invalid, stale before it reserved, or finds no place.
Reject(h) ==
  /\ place[h] = "registered"
  /\ MoveTo(h, "finishing")
  /\ UNCHANGED <<service, id, class, duty, stale, registryVars, stateVars, acked>>

\* finish
Finish(h) ==
  /\ place[h] = "finishing"
  /\ active' = active \ {id[h]} /\ retired' = retired \cup {id[h]}
  /\ id' = [id EXCEPT ![h] = None] /\ class' = [class EXCEPT ![h] = "foreground"]
  /\ Turn(h, "out", "first")
  /\ UNCHANGED <<service, stale, background, stateVars, acked>>

\* cancel: mark the work, or leave a tombstone, or refuse when full.
CancelUnbounded(i) ==
  /\ stale' = stale \cup {h \in Handler : id[h] = i}
  /\ retired' = IF i \in active THEN retired ELSE retired \cup {i}
  /\ acked' = acked \cup {i}
  /\ UNCHANGED <<service, handlerVars, active, background, stateVars>>
CancelActiveOnly(i) ==
  /\ stale' = stale \cup {h \in Handler : id[h] = i}
  /\ acked' = acked \cup {i}
  /\ UNCHANGED <<service, handlerVars, registryVars, stateVars>>
Cancel(i) ==
  /\ \/ /\ i \in active
        /\ stale' = stale \cup {h \in Handler : id[h] = i} /\ UNCHANGED retired
     \/ /\ i \notin active /\ (i \in retired \/ Entries < RegistryCapacity)
        /\ retired' = retired \cup {i} /\ UNCHANGED stale
  /\ acked' = acked \cup {i}
  /\ UNCHANGED <<service, handlerVars, active, background, stateVars>>

\* _prune, the deadline, and a stream's consumer that goes away.
RetirementEnds(i) ==
  /\ i \in retired
  /\ retired' = retired \ {i} /\ background' = background \ {i}
  /\ acked' = acked \ {i}
  /\ UNCHANGED <<service, handlerVars, stale, active, stateVars>>

GoesStale(h) ==
  /\ place[h] # "out"
  /\ stale' = stale \cup {h}
  /\ UNCHANGED <<service, handlerVars, registryVars, stateVars, acked>>

-----------------------------------------------------------------------------
\* ServiceState.reserve: analysis only when nobody else is here.
MayReserveOneMore(h) == reserved <= Slots
MayReserve(h) ==
  /\ reserved < Slots
  /\ class[h] = "background" => Slots >= 2 /\ reserved = 0 /\ ~busy /\ waiters = <<>>

Reserve(h) ==
  /\ place[h] = "registered" /\ h \notin stale /\ MayReserve(h)
  /\ reserved' = reserved + 1
  /\ MoveTo(h, "reserved")
  /\ UNCHANGED <<service, id, class, duty, stale, registryVars, waiters, busy, acked>>

Unreserve(h) ==
  /\ place[h] = "releasing"
  /\ reserved' = reserved - 1
  /\ MoveTo(h, "finishing")
  /\ UNCHANGED <<service, id, class, duty, stale, registryVars, waiters, busy, acked>>

\* compute.  A unit that is not run ends the request, after its cleanup if
\* there is a backend iterator to clean up.
Tickets == Len(waiters) + (IF busy THEN 1 ELSE 0)
NeverYields(h) == FALSE
Yields(h) == class[h] = "background" /\ (busy \/ waiters # <<>> \/ reserved > 1)
Passes(h) == h \notin stale \/ duty[h] = "cleanup"   \* cleanup has no work to check
Alone == ~busy /\ waiters = <<>>

SkipUnit(h) ==
  IF duty[h] = "more" THEN Turn(h, "reserved", "cleanup")
  ELSE MoveTo(h, "releasing") /\ UNCHANGED duty

\* The streamed response of either service may be closed without ever being
\* iterated, and a TTS request checks its work once more before its first unit.
GivesUpEarly(h) == duty[h] = "first"

Refused(h) ==
  /\ place[h] = "reserved"
  /\ Yields(h) \/ Tickets >= Slots \/ (Alone /\ ~Passes(h)) \/ GivesUpEarly(h)
  /\ SkipUnit(h)
  /\ UNCHANGED <<service, id, class, stale, registryVars, stateVars, acked>>

StartAtOnce(h) ==
  /\ place[h] = "reserved" /\ ~Yields(h) /\ Tickets < Slots /\ Alone /\ Passes(h)
  /\ busy' = TRUE
  /\ MoveTo(h, "computing")
  /\ UNCHANGED <<service, id, class, duty, stale, registryVars, reserved, waiters, acked>>

TakeTicket(h) ==
  /\ place[h] = "reserved" /\ ~Yields(h) /\ Tickets < Slots /\ ~Alone
  /\ waiters' = Append(waiters, h)
  /\ MoveTo(h, "waiting")
  /\ UNCHANGED <<service, id, class, duty, stale, registryVars, reserved, busy, acked>>

Admit(h) ==
  /\ place[h] = "waiting" /\ ~busy /\ Head(waiters) = h /\ Passes(h)
  /\ waiters' = Tail(waiters) /\ busy' = TRUE
  /\ MoveTo(h, "computing")
  /\ UNCHANGED <<service, id, class, duty, stale, registryVars, reserved, acked>>

\* A ticket that finds its work cancelled leaves the queue.
Without(q, i) == SubSeq(q, 1, i - 1) \o SubSeq(q, i + 1, Len(q))
AbandonKeepsTicket(h) ==
  /\ place[h] = "waiting" /\ ~Passes(h)
  /\ SkipUnit(h)
  /\ UNCHANGED <<service, id, class, stale, registryVars, stateVars, acked>>
Abandon(h) ==
  /\ place[h] = "waiting" /\ ~Passes(h)
  /\ \E i \in 1..Len(waiters) : waiters[i] = h /\ waiters' = Without(waiters, i)
  /\ SkipUnit(h)
  /\ UNCHANGED <<service, id, class, stale, registryVars, reserved, busy, acked>>

\* A unit ends, with a result or an error.  Only TTS has a next one.
EndUnit(h) ==
  /\ place[h] = "computing"
  /\ busy' = FALSE
  /\ \/ service = "tts" /\ duty[h] # "cleanup" /\ Turn(h, "between", "more")
     \/ /\ service = "stt" \/ duty[h] # "more"
        /\ MoveTo(h, "releasing") /\ UNCHANGED duty
  /\ UNCHANGED <<service, id, class, stale, registryVars, reserved, waiters, acked>>

\* Between two segments the handler encodes and sends; then the next segment,
\* or the cleanup: at the end, on an error, or when the consumer is gone.  The
\* synthesis of the built-in backend is a generator, so it can be closed.
NextSegment(h) ==
  /\ place[h] = "between"
  /\ \/ h \notin stale /\ Turn(h, "reserved", "more")
     \/ Turn(h, "reserved", "cleanup")
  /\ UNCHANGED <<service, id, class, stale, registryVars, stateVars, acked>>

-----------------------------------------------------------------------------
Next ==
  \/ \E h \in Handler :
       \/ Register(h) \/ Reject(h) \/ Finish(h) \/ GoesStale(h)
       \/ Reserve(h) \/ Unreserve(h)
       \/ Refused(h) \/ StartAtOnce(h) \/ TakeTicket(h) \/ Admit(h) \/ Abandon(h)
       \/ EndUnit(h) \/ NextSegment(h)
  \/ \E i \in Id : Cancel(i) \/ RetirementEnds(i)

Spec == Init /\ [][Next]_vars

\* A queued handler looks every 50 ms, and inference comes to an end.
FairSpec ==
  Spec /\ \A h \in Handler : WF_vars(Admit(h) \/ Abandon(h)) /\ WF_vars(EndUnit(h))

-----------------------------------------------------------------------------
\* The type of every variable.
TypeOK ==
  /\ service \in {"stt", "tts"}
  /\ place \in [Handler -> Places] /\ id \in [Handler -> Id \cup {None}]
  /\ class \in [Handler -> Classes] /\ duty \in [Handler -> {"first", "more", "cleanup"}]
  /\ stale \subseteq Handler /\ acked \subseteq Id
  /\ active \subseteq Id /\ retired \subseteq Id /\ background \subseteq Id
  /\ reserved \in 0..Slots /\ waiters \in Seq(Handler) /\ busy \in BOOLEAN

\* contracts/local-media-v1/README.md:51 and services/stt/README.md:58: the
\* registry is bounded and background ids keep to their share, whatever the
\* order of registering, finishing and cancelling.
RegistryBounded == Entries <= RegistryCapacity /\ Cardinality(background) <= BackgroundQuota

\* Who has reserved a place always finds a ticket: no segment and no cleanup
\* is lost to "request queue is full".
TicketAlwaysFits == \A h \in Handler : place[h] = "reserved" => Tickets < Slots

\* services/stt/README.md:54: analysis never queues behind conversation, even
\* when foreground work arrives between its reservation and its unit.
BackgroundNeverWaits == \A i \in 1..Len(waiters) : class[waiters[i]] = "foreground"

\* contracts/local-media-v1/README.md:49-56: a request whose cancellation was
\* acknowledged, before or after it arrived, never starts another unit.
CancelledNeverStarts ==
  [][ \A h \in Handler :
        place[h] # "computing" /\ place'[h] = "computing" /\ duty[h] # "cleanup" =>
          id[h] \notin acked ]_vars

Queue == INSTANCE FairQueue WITH
           Client <- Handler, queue <- waiters,
           holder <- {h \in Handler : place[h] = "computing"}

\* contracts/local-media-v1/README.md, "Admission is FIFO and bounded": the
\* tickets are a fair FIFO around the one worker.
FifoQueue == Queue!Spec
=============================================================================
