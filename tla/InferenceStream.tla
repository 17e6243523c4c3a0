---------------------------- MODULE InferenceStream ----------------------------
(***************************************************************************)
(* One transcription request of the STT service from its registration to   *)
(* the moment everything it held is given back: transcribe and             *)
(* streaming_response of services/stt/.../app.py and the mailbox between   *)
(* decoder and response, InferenceStream of inference_stream.py.           *)
(*                                                                         *)
(* A streamed request has three threads: the handler, which makes the      *)
(* response; the server's, which iterates and closes it (the consumer);    *)
(* and the inference thread (the producer), which outlives both if it      *)
(* must.  A request that is not streamed is decoded in the handler.  The   *)
(* client may cancel, disconnect or never read; the deadline may pass; the *)
(* speech frontend and the decoder may fail.                               *)
(*                                                                         *)
(* Registry, slots and the inference token are those of RequestLifecycle,  *)
(* seen from this one request: what it holds of them.  Blocks under the    *)
(* condition are single actions.  Events are numbered; the wait timeouts   *)
(* of the loops are not state.                                             *)
(***************************************************************************)
EXTENDS Integers, Sequences

CONSTANT MaxEvents   \* max_events: one event more is an error
ASSUME MaxEventsAssumption == MaxEvents \in Nat \ {0}

VARIABLES
  kind,       \* [stream |-> .., speech |-> ..]: what was asked for
  handler,    \* where transcribe is
  producer,   \* where the inference thread is
  consumer,   \* where the server's thread is with the response
  stop,       \* work.cancelled is set, or its deadline has passed
  entry,      \* the registry's entry: "none", "active" or "retired"
  slot,       \* holds a place of ServiceState
  token,      \* holds the inference token
  files,      \* temporary files on disk
  mine,       \* files the handler's finally clause removes
  cleanup,    \* files the ExitStack `inference' removes
  events,     \* InferenceStream.events
  made,       \* total_events
  started, done, closed, released,  \* the flags of InferenceStream
  read,       \* auxiliary: events the client was given
  outcome     \* auxiliary: how the iteration ended

streamVars == <<events, made, started, done, closed, released>>
heldVars == <<entry, slot, token, files, mine, cleanup>>
vars == <<kind, handler, producer, consumer, stop, heldVars, streamVars, read, outcome>>

Files == {"upload", "processed"}
Error == 0        \* the terminal error event; others are 1, 2, ...

Init ==
  /\ kind \in [stream : BOOLEAN, speech : BOOLEAN]
  /\ handler = "new" /\ producer = "none" /\ consumer = "none" /\ stop = FALSE
  /\ entry = "none" /\ slot = FALSE /\ token = FALSE
  /\ files = {} /\ mine = {} /\ cleanup = {}
  /\ events = <<>> /\ made = 0
  /\ started = FALSE /\ done = FALSE /\ closed = FALSE /\ released = FALSE
  /\ read = <<>> /\ outcome = "none"

\* The client cancels (registry.cancel), or the deadline passes.
Cancel ==
  /\ entry = "active" /\ ~stop
  /\ stop' = TRUE
  /\ UNCHANGED <<kind, handler, producer, consumer, heldVars, streamVars, read, outcome>>

-----------------------------------------------------------------------------
\* transcribe: register, validate, store the upload.
Register ==
  /\ handler = "new"
  /\ entry' = "active" /\ handler' = "store"
  /\ UNCHANGED <<kind, producer, consumer, stop, slot, token, files, mine, cleanup,
                 streamVars, read, outcome>>

Refuse ==
  /\ handler \in {"new", "store"}
  /\ handler' = IF handler = "new" THEN "answered" ELSE "finally"
  /\ UNCHANGED <<kind, producer, consumer, stop, heldVars, streamVars, read, outcome>>

\* A stored upload, and the checkpoint after it.
StoreUpload ==
  /\ handler = "store"
  /\ files' = {"upload"} /\ mine' = {"upload"}
  /\ handler' = IF stop THEN "finally" ELSE IF kind.stream THEN "reserve" ELSE "admit"
  /\ UNCHANGED <<kind, producer, consumer, stop, entry, slot, token, cleanup,
                 streamVars, read, outcome>>

\* Not streamed: state.admit is a slot and the token; waiting for the token
\* ends with a cancellation.
Admit ==
  /\ handler = "admit"
  /\ \/ slot' = TRUE /\ token' = TRUE
        /\ handler' = IF kind.speech THEN "frontend" ELSE "decode"
     \/ handler' = "finally" /\ UNCHANGED <<slot, token>>
  /\ UNCHANGED <<kind, producer, consumer, stop, entry, files, mine, cleanup,
                 streamVars, read, outcome>>

Improve ==
  /\ handler = "frontend"
  /\ \/ files' = {"processed"} /\ mine' = {"processed"} /\ handler' = "decode"
        /\ UNCHANGED <<slot, token>>
     \/ slot' = FALSE /\ token' = FALSE /\ handler' = "finally"
        /\ UNCHANGED <<files, mine>>
  /\ UNCHANGED <<kind, producer, consumer, stop, entry, cleanup, streamVars, read, outcome>>

Decode ==
  /\ handler = "decode"
  /\ slot' = FALSE /\ token' = FALSE /\ handler' = "finally"
  /\ UNCHANGED <<kind, producer, consumer, stop, entry, files, mine, cleanup,
                 streamVars, read, outcome>>

HandlerFinally ==
  /\ handler = "finally"
  /\ files' = files \ mine /\ mine' = {} /\ entry' = "retired" /\ handler' = "answered"
  /\ UNCHANGED <<kind, producer, consumer, stop, slot, token, cleanup,
                 streamVars, read, outcome>>

\* streaming_response: one stack for the entry and the slot, one for the
\* file; then the response owns all three and the handler nothing.
HandOver == mine' = {} /\ handler' = "answered"
Reserve ==
  /\ handler = "reserve"
  /\ slot' = TRUE /\ cleanup' = {"upload"} /\ consumer' = "ready"
  /\ HandOver
  /\ UNCHANGED <<kind, producer, stop, entry, token, files, streamVars, read, outcome>>

\* No place: both stacks are closed, then the handler's own clause runs too.
ReserveFails ==
  /\ handler = "reserve"
  /\ files' = {} /\ entry' = "retired" /\ handler' = "finally"
  /\ UNCHANGED <<kind, producer, consumer, stop, slot, token, mine, cleanup,
                 streamVars, read, outcome>>

-----------------------------------------------------------------------------
\* _release_if_finished, with the flags as they will be: lifetime.close().
EndsEarly(isClosed, isDone) == isClosed /\ ~released
Ends(isClosed, isDone) == isClosed /\ isDone /\ ~released
ReleaseIf(isClosed, isDone) ==
  IF Ends(isClosed, isDone)
    THEN released' = TRUE /\ slot' = FALSE /\ entry' = "retired"
    ELSE UNCHANGED <<released, slot, entry>>

\* The producer: _run around produce().  It waits for the token, improves the
\* audio, and decodes.
Working == producer \in {"frontend", "decode"}

GetToken ==
  /\ producer = "waiting" /\ ~stop
  /\ token' = TRUE /\ producer' = IF kind.speech THEN "frontend" ELSE "decode"
  /\ UNCHANGED <<kind, handler, consumer, stop, entry, slot, files, mine, cleanup,
                 streamVars, read, outcome>>

ProducerImproves ==
  /\ producer = "frontend" /\ ~stop
  /\ files' = files \cup {"processed"} /\ cleanup' = cleanup \cup {"processed"}
  /\ producer' = "decode"
  /\ UNCHANGED <<kind, handler, consumer, stop, entry, slot, token, mine,
                 streamVars, read, outcome>>

\* _append: a checkpoint and the limit, then the mailbox.
AppendEvent ==
  /\ producer = "decode" /\ ~stop /\ made < MaxEvents
  /\ made' = made + 1 /\ events' = Append(events, made + 1)
  /\ UNCHANGED <<kind, handler, producer, consumer, stop, heldVars, started, done,
                 closed, released, read, outcome>>

\* A failure, a cancellation or the limit: the generator is closed and with it
\* the decoder and the token.
ProducerFails ==
  /\ producer = "waiting" \/ Working
  /\ producer' = "failed" /\ token' = FALSE
  /\ UNCHANGED <<kind, handler, consumer, stop, entry, slot, files, mine, cleanup,
                 streamVars, read, outcome>>

ReportError ==
  /\ producer = "failed"
  /\ events' = IF closed THEN events ELSE Append(events, Error)
  /\ producer' = "cleanup"
  /\ UNCHANGED <<kind, handler, consumer, stop, heldVars, made, started, done,
                 closed, released, read, outcome>>

ProducerReturns ==
  /\ producer = "decode"
  /\ producer' = "cleanup" /\ token' = FALSE
  /\ UNCHANGED <<kind, handler, consumer, stop, entry, slot, files, mine, cleanup,
                 streamVars, read, outcome>>

ProducerCleans ==
  /\ producer = "cleanup"
  /\ files' = files \ cleanup /\ cleanup' = {} /\ producer' = "ending"
  /\ UNCHANGED <<kind, handler, consumer, stop, entry, slot, token, mine,
                 streamVars, read, outcome>>

ProducerEnds ==
  /\ producer = "ending"
  /\ done' = TRUE /\ ReleaseIf(closed, TRUE) /\ producer' = "ended"
  /\ UNCHANGED <<kind, handler, consumer, stop, token, files, mine, cleanup,
                 events, made, started, closed, read, outcome>>

-----------------------------------------------------------------------------
\* The consumer: __iter__, by the server's thread.
StartedIfThreadFails == TRUE
StartedAfterFailure == FALSE

Iterate ==
  /\ consumer = "ready"
  /\ \/ started' = TRUE /\ producer' = "waiting" /\ consumer' = "waiting"
     \/ started' = StartedAfterFailure /\ consumer' = "closing" /\ UNCHANGED producer
  /\ UNCHANGED <<kind, handler, stop, heldVars, events, made, done, closed, released,
                 read, outcome>>

\* The response is closed without having been iterated.
NeverIterated ==
  /\ consumer = "ready"
  /\ consumer' = "closing"
  /\ UNCHANGED <<kind, handler, producer, stop, heldVars, streamVars, read, outcome>>

Take ==
  /\ consumer = "waiting" /\ events # <<>> /\ ~stop
  /\ read' = Append(read, Head(events)) /\ events' = Tail(events)
  /\ consumer' = "yielded"
  /\ UNCHANGED <<kind, handler, producer, stop, heldVars, made, started, done, closed,
                 released, outcome>>

\* The loop is left when the mailbox is empty and the producer is done.
NothingLeft == events = <<>>
AllTaken == events = <<>> /\ done
IterationEnds ==
  /\ consumer = "waiting" /\ ~stop /\ AllTaken
  /\ consumer' = "closing" /\ outcome' = "complete"
  /\ UNCHANGED <<kind, handler, producer, stop, heldVars, streamVars, read>>

IterationCancelled ==
  /\ consumer = "waiting" /\ stop
  /\ consumer' = "closing" /\ read' = Append(read, Error) /\ outcome' = "error"
  /\ UNCHANGED <<kind, handler, producer, stop, heldVars, streamVars>>

\* The client took the event, or is gone and the generator is closed.
Resume ==
  /\ consumer = "yielded"
  /\ consumer' \in {"waiting", "closing"}
  /\ UNCHANGED <<kind, handler, producer, stop, heldVars, streamVars, read, outcome>>

\* InferenceStream.close.
CleansAtOnce == ~done
CleansUnstarted == ~started
Close ==
  /\ consumer = "closing"
  /\ closed' = TRUE /\ events' = <<>>
  /\ stop' = (stop \/ ~done)
  /\ IF CleansUnstarted
       THEN files' = files \ cleanup /\ cleanup' = {} /\ done' = TRUE
       ELSE UNCHANGED <<files, cleanup, done>>
  /\ ReleaseIf(TRUE, done')
  /\ consumer' = "closed"
  /\ UNCHANGED <<kind, handler, producer, token, mine, made, started, read, outcome>>

-----------------------------------------------------------------------------
Handler == Register \/ Refuse \/ StoreUpload \/ Admit \/ Improve \/ Decode
             \/ HandlerFinally \/ Reserve \/ ReserveFails
Producer == GetToken \/ ProducerImproves \/ AppendEvent \/ ProducerFails \/ ReportError
              \/ ProducerReturns \/ ProducerCleans \/ ProducerEnds
Consumer == Iterate \/ NeverIterated \/ Take \/ IterationEnds \/ IterationCancelled
              \/ Resume \/ Close
Ended == handler = "answered" /\ consumer \in {"none", "closed"}
           /\ producer \in {"none", "ended"}
Over == Ended /\ UNCHANGED vars
Next == Handler \/ Producer \/ Consumer \/ Cancel \/ Over

Spec == Init /\ [][Next]_vars

\* Every thread goes on.  The inference token is got at last or the deadline
\* passes (RequestLifecycle); the server reads on or closes.
FairSpec == Spec /\ WF_vars(Handler) /\ WF_vars(Producer) /\ WF_vars(Consumer)

-----------------------------------------------------------------------------
\* While a decoder or the speech frontend runs, its input file is there and
\* the request still has its entry, its slot and the token: neither a client
\* that leaves nor a response that is closed takes them away under it, and
\* while the response is read the request counts as admitted.
Input == IF producer = "decode" /\ kind.speech THEN "processed" ELSE "upload"
WorkIsCovered ==
  /\ Working => Input \in files /\ token /\ slot /\ entry = "active"
  /\ consumer \in {"ready", "waiting", "yielded"} => slot /\ entry = "active"

\* A response that ends without an error ends with all events the decoder
\* made, in order, or with the decoder's own error in their place.
CompleteMeansAll ==
  outcome = "complete" =>
    \/ read = [i \in 1..made |-> i]
    \/ read = Append([i \in 1..made |-> i], Error)

\* Whatever fails, is cancelled or never read: in the end the request leaves
\* no file, no slot, no token and no active entry behind.
AllBack == files = {} /\ ~slot /\ ~token /\ entry # "active"
GivenBack == handler # "new" ~> [](AllBack)
=============================================================================
