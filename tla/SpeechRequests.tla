---------------------------- MODULE SpeechRequests ----------------------------
(***************************************************************************)
(* The requests of the TTS service, whole and streamed: synthesize,        *)
(* synthesize_stream and render_segments of services/tts/.../app.py over   *)
(* the registry and the one worker of its request_lifecycle.py.            *)
(*                                                                         *)
(* render_segments is a generator: the handler of a whole request drains   *)
(* it at once, a stream pulls it from the response, one frame at a time,   *)
(* so a client that reads slowly holds the request in "sending".  The      *)
(* worker is taken for the backend's factory, for each segment and for the *)
(* close of the backend's iterator, and given back in between.             *)
(*                                                                         *)
(* RequestLifecycle is the abstract specification: there a request takes   *)
(* any number of units; here it is the code that decides.  Segments are    *)
(* counted, audio, encoding and text are not modelled.                     *)
(***************************************************************************)
EXTENDS Naturals, Sequences, FiniteSets

CONSTANTS
  Handler,           \* HTTP worker threads
  Id,                \* request ids
  None,
  Slots,             \* ServiceState.capacity
  RegistryCapacity,  \* RequestRegistry.capacity
  Segments           \* the segments of a text

ASSUME SizeAssumption ==
  /\ Slots \in Nat \ {0} /\ RegistryCapacity \in Nat /\ Segments \in Nat \ {0}
  /\ IsFiniteSet(Id) /\ IsFiniteSet(Handler) /\ None \notin Id

VARIABLES
  place,      \* where each handler is
  kind,       \* "whole" or "stream"
  id,         \* the request id it serves
  unit,       \* what it takes the worker for: the factory, a segment, the close
  iterator,   \* the backend's iterator: "none", "open" or "closed"
  made,       \* segments rendered
  answer,     \* "none", "complete" or "error"
  stale,      \* handlers whose checkpoint() raises: cancelled or expired
  active,     \* RequestRegistry.active
  retired,    \* RequestRegistry.retired, without what _prune would drop
  reserved,   \* ServiceState.reserved_requests
  waiters,    \* ServiceState.waiters
  busy,       \* active_requests = 1
  acked       \* auxiliary: ids whose cancellation was acknowledged

requestVars  == <<kind, id>>
renderVars   == <<unit, iterator, made>>
registryVars == <<active, retired>>
stateVars    == <<reserved, waiters, busy>>
vars == <<place, requestVars, renderVars, answer, stale, registryVars,
          stateVars, acked>>

Places == {"out", "registered", "opened", "asking", "waiting", "computing",
           "between", "rendered", "sending", "ended", "concluding", "lastFrame",
           "releasing", "finishing"}

Init ==
  /\ place = [h \in Handler |-> "out"] /\ kind = [h \in Handler |-> "whole"]
  /\ id = [h \in Handler |-> None] /\ unit = [h \in Handler |-> "factory"]
  /\ iterator = [h \in Handler |-> "none"]
  /\ made = [h \in Handler |-> 0]
  /\ answer = [h \in Handler |-> "none"]
  /\ stale = {} /\ active = {} /\ retired = {}
  /\ reserved = 0 /\ waiters = <<>> /\ busy = FALSE /\ acked = {}

MoveTo(h, p) == place' = [place EXCEPT ![h] = p]
Ask(h, u) == MoveTo(h, "asking") /\ unit' = [unit EXCEPT ![h] = u]
Answer(h, a) == answer' = [answer EXCEPT ![h] = a]

-----------------------------------------------------------------------------
\* RequestRegistry: register, finish, cancel, _prune and the deadline.
Entries == Cardinality(active) + Cardinality(retired)

Register(h) ==
  /\ place[h] = "out" /\ Entries < RegistryCapacity
  /\ \E i \in Id \ (active \cup retired), k \in {"whole", "stream"} :
       /\ active' = active \cup {i}
       /\ id' = [id EXCEPT ![h] = i] /\ kind' = [kind EXCEPT ![h] = k]
  /\ MoveTo(h, "registered") /\ stale' = stale \ {h}
  /\ UNCHANGED <<renderVars, answer, retired, stateVars, acked>>

Finish(h) ==
  /\ place[h] = "finishing"
  /\ active' = active \ {id[h]} /\ retired' = retired \cup {id[h]}
  /\ id' = [id EXCEPT ![h] = None] /\ kind' = [kind EXCEPT ![h] = "whole"]
  /\ unit' = [unit EXCEPT ![h] = "factory"]
  /\ iterator' = [iterator EXCEPT ![h] = "none"]
  /\ made' = [made EXCEPT ![h] = 0] /\ Answer(h, "none") /\ MoveTo(h, "out")
  /\ UNCHANGED <<stale, stateVars, acked>>

Cancel(i) ==
  /\ \/ /\ i \in active
        /\ stale' = stale \cup {h \in Handler : id[h] = i} /\ UNCHANGED retired
     \/ /\ i \notin active /\ (i \in retired \/ Entries < RegistryCapacity)
        /\ retired' = retired \cup {i} /\ UNCHANGED stale
  /\ acked' = acked \cup {i}
  /\ UNCHANGED <<place, requestVars, renderVars, answer, active, stateVars>>

RetirementEnds(i) ==
  /\ i \in retired
  /\ retired' = retired \ {i} /\ acked' = acked \ {i}
  /\ UNCHANGED <<place, requestVars, renderVars, answer, stale, active, stateVars>>

DeadlinePasses(h) ==
  /\ place[h] # "out"
  /\ stale' = stale \cup {h}
  /\ UNCHANGED <<place, requestVars, renderVars, answer, registryVars,
                 stateVars, acked>>

-----------------------------------------------------------------------------
\* The request is parsed: fields, voice, format, generation, expression plan
\* and segmentation are valid, or it is refused; so it is without a slot.
\* Either way only its entry is left to be finished: a whole request does so
\* in its finally clause, a stream closes its resources.
Parsed(h) == place[h] = "registered"
Refuse(h) ==
  /\ Parsed(h)
  /\ MoveTo(h, "finishing") /\ Answer(h, "error")
  /\ UNCHANGED <<requestVars, renderVars, stale, registryVars, stateVars, acked>>
WholeRefused(h) == kind[h] = "whole" /\ Refuse(h)
StreamRefused(h) == kind[h] = "stream" /\ Refuse(h)

\* reserve.  A stream answers now and renders when the response is iterated.
Reserve(h) ==
  /\ Parsed(h) /\ h \notin stale /\ reserved < Slots
  /\ reserved' = reserved + 1
  /\ MoveTo(h, IF kind[h] = "stream" THEN "opened" ELSE "asking")
  /\ UNCHANGED <<requestVars, renderVars, answer, stale, registryVars,
                 waiters, busy, acked>>

\* The response is iterated, or closed without that.
Iterate(h) ==
  /\ place[h] = "opened"
  /\ MoveTo(h, "asking")
  /\ UNCHANGED <<requestVars, renderVars, answer, stale, registryVars,
                 stateVars, acked>>
NeverIterated(h) ==
  /\ place[h] = "opened"
  /\ MoveTo(h, "releasing") /\ Answer(h, "error")
  /\ UNCHANGED <<requestVars, renderVars, stale, registryVars, stateVars, acked>>

Unreserve(h) ==
  /\ place[h] = "releasing"
  /\ reserved' = reserved - 1 /\ MoveTo(h, "finishing")
  /\ UNCHANGED <<requestVars, renderVars, answer, stale, registryVars,
                 waiters, busy, acked>>

-----------------------------------------------------------------------------
\* compute, for the factory, a segment or the close.
Tickets == Len(waiters) + (IF busy THEN 1 ELSE 0)
AloneIfFree == ~busy
Alone == ~busy /\ waiters = <<>>
\* The close takes the worker without its work: cancellation does not stop it.
PassesWithWork(h) == h \notin stale
Passes(h) == h \notin stale \/ unit[h] = "close"

\* render_segments' finally clause, if there is an iterator to close.
Unwind(h) ==
  IF iterator[h] = "open" /\ unit[h] # "close"
    THEN Ask(h, "close") ELSE MoveTo(h, "releasing") /\ UNCHANGED unit

\* Refused, stale when it is its turn, or stale at the first checkpoint of all.
NotComputed(h) ==
  /\ place[h] = "asking"
  /\ \/ Tickets >= Slots \/ (Alone /\ ~Passes(h))
     \/ unit[h] = "factory" /\ h \in stale
  /\ Unwind(h) /\ Answer(h, "error")
  /\ UNCHANGED <<requestVars, iterator, made, stale, registryVars, stateVars, acked>>

StartAtOnce(h) ==
  /\ place[h] = "asking" /\ Tickets < Slots /\ Alone /\ Passes(h)
  /\ busy' = TRUE /\ MoveTo(h, "computing")
  /\ UNCHANGED <<requestVars, renderVars, answer, stale, registryVars,
                 reserved, waiters, acked>>

TakeTicket(h) ==
  /\ place[h] = "asking" /\ Tickets < Slots /\ ~Alone
  /\ waiters' = Append(waiters, h) /\ MoveTo(h, "waiting")
  /\ UNCHANGED <<requestVars, renderVars, answer, stale, registryVars,
                 reserved, busy, acked>>

Admit(h) ==
  /\ place[h] = "waiting" /\ ~busy /\ Head(waiters) = h /\ Passes(h)
  /\ waiters' = Tail(waiters) /\ busy' = TRUE /\ MoveTo(h, "computing")
  /\ UNCHANGED <<requestVars, renderVars, answer, stale, registryVars,
                 reserved, acked>>

Without(q, i) == SubSeq(q, 1, i - 1) \o SubSeq(q, i + 1, Len(q))
Abandon(h) ==
  /\ place[h] = "waiting" /\ ~Passes(h)
  /\ \E i \in 1..Len(waiters) : waiters[i] = h /\ waiters' = Without(waiters, i)
  /\ Unwind(h) /\ Answer(h, "error")
  /\ UNCHANGED <<requestVars, iterator, made, stale, registryVars,
                 reserved, busy, acked>>

-----------------------------------------------------------------------------
\* What a unit does with the backend.  The worker is free again at once.
KeepWorker(h) ==
  place[h] = "computing" /\ busy' = (kind[h] = "stream" /\ unit[h] = "segment")
FreeWorker(h) == place[h] = "computing" /\ busy' = FALSE

\* The factory makes an iterator, or fails before or after there is one.
MakeIterator(h) ==
  /\ FreeWorker(h) /\ unit[h] = "factory"
  /\ \/ /\ iterator' = [iterator EXCEPT ![h] = "open"] /\ MoveTo(h, "between")
        /\ UNCHANGED answer
     \/ MoveTo(h, "releasing") /\ Answer(h, "error") /\ UNCHANGED iterator
     \/ /\ iterator' = [iterator EXCEPT ![h] = "open"] /\ MoveTo(h, "ended")
        /\ Answer(h, "error")
  /\ UNCHANGED <<requestVars, unit, made, stale, registryVars,
                 reserved, waiters, acked>>

\* next: a segment, no more segments, or an error.  The backend promises one
\* per segment of the text; one more than that is possible here.
RenderSegment(h) ==
  /\ FreeWorker(h) /\ unit[h] = "segment"
  /\ \/ /\ made[h] <= Segments /\ made' = [made EXCEPT ![h] = @ + 1]
        /\ MoveTo(h, "rendered") /\ UNCHANGED answer
     \/ MoveTo(h, "ended") /\ UNCHANGED <<made, answer>>
     \/ MoveTo(h, "ended") /\ Answer(h, "error") /\ UNCHANGED made
  /\ UNCHANGED <<requestVars, unit, iterator, stale, registryVars, reserved,
                 waiters, acked>>

CloseIterator(h) ==
  /\ FreeWorker(h) /\ unit[h] = "close"
  /\ iterator' = [iterator EXCEPT ![h] = "closed"]
  /\ MoveTo(h, IF answer[h] = "error" THEN "releasing" ELSE "concluding")
  /\ UNCHANGED <<requestVars, unit, made, answer, stale, registryVars,
                 reserved, waiters, acked>>

-----------------------------------------------------------------------------
\* The head of the loop: a checkpoint, then the next segment.
AskSegment(h) ==
  /\ place[h] = "between" /\ h \notin stale
  /\ Ask(h, "segment")
  /\ UNCHANGED <<requestVars, iterator, made, answer, stale, registryVars,
                 stateVars, acked>>

\* The loop is left: there is no next segment, or the backend raised.
LeaveLoop(h) ==
  /\ place[h] = "ended"
  /\ Unwind(h)
  /\ UNCHANGED <<requestVars, iterator, made, answer, stale, registryVars,
                 stateVars, acked>>

\* A checkpoint, a limit or the encoder raises: the generator is closed too.
Fail(h) ==
  /\ (place[h] = "between" /\ h \in stale) \/ place[h] = "rendered"
  /\ Unwind(h) /\ Answer(h, "error")
  /\ UNCHANGED <<requestVars, iterator, made, stale, registryVars, stateVars, acked>>

\* list() keeps the segment of a whole request; a stream encodes and yields it.
Keep(h) ==
  /\ place[h] = "rendered" /\ kind[h] = "whole" /\ h \notin stale
  /\ MoveTo(h, "between")
  /\ UNCHANGED <<requestVars, renderVars, answer, stale, registryVars,
                 stateVars, acked>>
Yield(h) ==
  /\ place[h] = "rendered" /\ kind[h] = "stream" /\ h \notin stale
  /\ MoveTo(h, "sending")
  /\ UNCHANGED <<requestVars, renderVars, answer, stale, registryVars, stateVars, acked>>

\* The client took the frame, or is gone and the response is closed.
FrameTaken(h) ==
  /\ place[h] = "sending"
  /\ MoveTo(h, "between")
  /\ UNCHANGED <<requestVars, renderVars, answer, stale, registryVars,
                 stateVars, acked>>
ClientLeaves(h) ==
  /\ place[h] = "sending"
  /\ Unwind(h) /\ Answer(h, "error")
  /\ UNCHANGED <<requestVars, iterator, made, stale, registryVars, stateVars, acked>>

\* All segments are there, or it is an error: the frame of length zero of a
\* stream; joining, encoding and a checkpoint of a whole request.
CountRight(h) == made[h] = Segments
Conclude(h) ==
  /\ place[h] = "concluding"
  /\ \/ /\ CountRight(h) /\ (kind[h] = "whole" => h \notin stale)
        /\ Answer(h, "complete")
     \/ /\ ~CountRight(h) \/ kind[h] = "whole"
        /\ Answer(h, "error")
  /\ MoveTo(h, IF answer'[h] = "complete" /\ kind[h] = "stream"
                 THEN "lastFrame" ELSE "releasing")
  /\ UNCHANGED <<requestVars, renderVars, stale, registryVars, stateVars, acked>>

\* The last frame is taken, or the response closed with it on its way.
LastFrameOver(h) ==
  /\ place[h] = "lastFrame"
  /\ MoveTo(h, "releasing")
  /\ UNCHANGED <<requestVars, renderVars, answer, stale, registryVars,
                 stateVars, acked>>

-----------------------------------------------------------------------------
\* What the service's threads do by themselves; a client's pace is not theirs.
Serves(h) ==
  \/ Finish(h) \/ WholeRefused(h) \/ StreamRefused(h) \/ Reserve(h)
  \/ Iterate(h) \/ NeverIterated(h) \/ Unreserve(h)
  \/ NotComputed(h) \/ StartAtOnce(h) \/ TakeTicket(h) \/ Admit(h) \/ Abandon(h)
  \/ MakeIterator(h) \/ RenderSegment(h) \/ CloseIterator(h)
  \/ AskSegment(h) \/ LeaveLoop(h) \/ Fail(h) \/ Keep(h) \/ Yield(h) \/ Conclude(h)

Next ==
  \/ \E h \in Handler : Register(h) \/ Serves(h) \/ DeadlinePasses(h)
                          \/ FrameTaken(h) \/ ClientLeaves(h) \/ LastFrameOver(h)
  \/ \E i \in Id : Cancel(i) \/ RetirementEnds(i)

Spec == Init /\ [][Next]_vars

\* A thread that can go on does: a ticket is looked at every 50 ms, inference
\* and encoding come to an end.  Nothing makes a client read.
FairSpec == Spec /\ \A h \in Handler : WF_vars(Serves(h))

-----------------------------------------------------------------------------
\* services/tts/.../request_lifecycle.py:98-103 and the test of an eager
\* backend: an iterator the backend made is closed, with the worker, before
\* the request gives its place back, whatever failed, expired or left; so the
\* close finds a ticket, and no model state outlives its request.
IteratorClosed ==
  \A h \in Handler :
    iterator[h] = "open" =>
      place[h] \in {"asking", "waiting", "computing", "between", "rendered", "sending", "ended"}

\* A client that reads on or leaves gets to the end of its own request even if
\* every other client has stopped reading: backpressure never keeps the
\* worker, and everything the request held is given back.
ReadsOrLeaves(h) == []<>(place[h] \notin {"sending", "lastFrame"})
GivenBack ==
  \A h \in Handler :
    ReadsOrLeaves(h) => (place[h] = "registered" ~> place[h] = "out")

\* The units of RequestLifecycle: "more" once there is an iterator.
Stage(h) ==
  CASE place[h] = "opened" -> "reserved"
    [] place[h] = "asking" -> "reserved"
    [] place[h] \in {"rendered", "sending", "ended"} -> "between"
    [] place[h] \in {"concluding", "lastFrame"} -> "releasing"
    [] OTHER -> place[h]
Duty(h) ==
  CASE unit[h] = "close" -> "cleanup"
    [] unit[h] = "segment" \/ place[h] \in {"between", "ended"} -> "more"
    [] OTHER -> "first"

Lifecycle == INSTANCE RequestLifecycle WITH
               service <- "tts", BackgroundQuota <- 0, background <- {},
               class <- [h \in Handler |-> "foreground"],
               place <- [h \in Handler |-> Stage(h)],
               duty <- [h \in Handler |-> Duty(h)]

\* Every order of factory, segments and close that the generators can produce
\* is one of the lifecycle: the registry, the FIFO of tickets and their
\* progress are as specified there.
ImplementsLifecycle == Lifecycle!FairSpec
=============================================================================
