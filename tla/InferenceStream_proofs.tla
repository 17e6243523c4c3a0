------------------------ MODULE InferenceStream_proofs ------------------------
(***************************************************************************)
(* Proofs about InferenceStream, for any limit of events: whatever client, *)
(* deadline and failures do, the decoder never loses its file, its token   *)
(* or the request's place while it works, a complete response is complete, *)
(* and nothing is left when the three threads have ended.                  *)
(***************************************************************************)
EXTENDS InferenceStream, SequenceTheorems, TLAPS

\* Three threads: the response exists once the handler is through, and the
\* producer once the response is iterated.
Threads ==
  /\ consumer \in {"none", "ready", "waiting", "yielded", "closing", "closed"}
  /\ producer \in {"none", "waiting", "frontend", "decode", "failed", "cleanup",
                   "ending", "ended"}
  /\ consumer # "none" => handler = "answered"
  /\ consumer \in {"none", "ready"} => producer = "none"
  /\ producer # "none" <=> started = TRUE

\* The response holds entry and slot until it is closed and the producer has
\* ended or never began.
Lifetime ==
  /\ handler \in {"store", "reserve"} => entry = "active"
  /\ consumer # "none" /\ released # TRUE => slot = TRUE /\ entry = "active"
  /\ released = TRUE => done = TRUE /\ closed = TRUE
  /\ closed = TRUE <=> consumer = "closed"
  /\ done = TRUE => producer = "ended" \/ (producer = "none" /\ closed = TRUE)
  /\ closed \in BOOLEAN /\ done \in BOOLEAN

\* The input of the next step is on disk, and the worker is the producer's.
HasInput ==
  /\ handler = "reserve" \/ consumer = "ready" => "upload" \in files
  /\ producer \in {"waiting", "frontend", "decode"} => Input \in files
  /\ Working => token = TRUE

IInv == Threads /\ Lifetime /\ HasInput

LEMMA InitIInv == Init => IInv
<1>. SUFFICES ASSUME Init PROVE IInv
  OBVIOUS
<1>1. /\ handler = "new" /\ producer = "none" /\ consumer = "none"
      /\ started = FALSE /\ released = FALSE /\ closed = FALSE /\ done = FALSE
  BY DEF Init
<1>2. Threads
  BY <1>1 DEF Threads
<1>3. Lifetime
  BY <1>1 DEF Lifetime
<1>4. HasInput
  BY <1>1 DEF HasInput, Working
<1>. QED  BY <1>2, <1>3, <1>4 DEF IInv

\* Until the response is made only the handler is there.
LEMMA HandlerSteps ==
  ASSUME IInv, Handler
  PROVE  IInv'
<1>0. consumer = "none" \/ handler = "answered"
  BY DEF IInv, Threads
<1>1. CASE Register \/ Refuse \/ StoreUpload \/ Admit \/ Improve \/ Decode
           \/ HandlerFinally \/ ReserveFails
  <2>1. handler # "answered" /\ UNCHANGED <<producer, consumer, started, done, closed, released>>
    BY <1>1 DEF Register, Refuse, StoreUpload, Admit, Improve, Decode, HandlerFinally,
       ReserveFails, streamVars
  <2>2. consumer = "none" /\ producer = "none"
    BY <1>0, <2>1 DEF IInv, Threads
  <2>3. handler' = "reserve" => "upload" \in files'
    BY <1>1 DEF Register, Refuse, StoreUpload, Admit, Improve, Decode, HandlerFinally,
       ReserveFails
  <2>4. Threads'
    BY <2>1, <2>2 DEF IInv, Threads
  <2>5. Lifetime'
    <3>1. handler' \in {"store", "reserve"} => entry' = "active"
      BY <1>1 DEF Register, Refuse, StoreUpload, Admit, Improve, Decode,
         HandlerFinally, ReserveFails, heldVars, IInv, Lifetime
    <3>. QED  BY <2>1, <2>2, <3>1 DEF IInv, Lifetime
  <2>6. HasInput'
    BY <2>1, <2>2, <2>3 DEF HasInput, Working
  <2>. QED  BY <2>4, <2>5, <2>6 DEF IInv
<1>2. CASE Reserve
  <2>1. /\ handler = "reserve" /\ handler' = "answered" /\ consumer' = "ready"
        /\ slot' = TRUE
        /\ UNCHANGED <<producer, entry, files, started, done, closed, released>>
    BY <1>2 DEF Reserve, HandOver, streamVars
  <2>2. consumer = "none" /\ producer = "none"
    BY <1>0, <2>1 DEF IInv, Threads
  <2>3. Threads'
    BY <2>1, <2>2 DEF IInv, Threads
  <2>4. Lifetime'
    BY <2>1, <2>2 DEF IInv, Lifetime
  <2>5. HasInput'
    BY <2>1, <2>2 DEF IInv, HasInput, Working
  <2>. QED  BY <2>3, <2>4, <2>5 DEF IInv
<1>. QED  BY <1>1, <1>2 DEF Handler

\* Entry and slot are given back only at the end of both, or by a close before
\* the beginning.
LEMMA ProducerSteps ==
  ASSUME IInv, Producer
  PROVE  IInv'
<1>0. producer # "none" /\ consumer # "none" /\ consumer # "ready" /\ handler = "answered"
  BY DEF Producer, GetToken, ProducerImproves, AppendEvent, ProducerFails, ReportError,
     ProducerReturns, ProducerCleans, ProducerEnds, Working, IInv, Threads
<1>1. CASE GetToken \/ ProducerImproves \/ AppendEvent \/ ProducerFails \/ ReportError
           \/ ProducerReturns \/ ProducerCleans
  <2>1. /\ producer # "ended"
        /\ producer' \in {"frontend", "decode", "failed", "cleanup", "ending"}
        /\ UNCHANGED <<handler, consumer, entry, slot, started, done, closed, released>>
    BY <1>1 DEF GetToken, ProducerImproves, AppendEvent, ProducerFails, ReportError,
       ProducerReturns, ProducerCleans, Working, heldVars, streamVars
  <2>2. Threads'
    BY <1>0, <2>1 DEF IInv, Threads
  <2>3. Lifetime'
    BY <1>0, <2>1 DEF IInv, Lifetime
  <2>4. HasInput'
    <3>1. CASE GetToken \/ ProducerImproves
      BY <1>0, <2>1, <3>1 DEF GetToken, ProducerImproves, Working, Input, IInv, HasInput
    <3>2. CASE AppendEvent
      BY <1>0, <2>1, <3>2 DEF AppendEvent, heldVars, Working, Input, IInv, HasInput
    <3>3. CASE producer' \in {"failed", "cleanup", "ending"}
      BY <1>0, <2>1, <3>3 DEF Working, HasInput
    <3>. QED  BY <1>1, <3>1, <3>2, <3>3 DEF ProducerFails, ReportError, ProducerReturns,
              ProducerCleans
  <2>. QED  BY <2>2, <2>3, <2>4 DEF IInv
<1>2. CASE ProducerEnds
  <2>1. /\ producer' = "ended" /\ done' = TRUE
        /\ UNCHANGED <<handler, consumer, started, closed>>
    BY <1>2 DEF ProducerEnds
  <2>2. \/ UNCHANGED <<released, slot, entry>>
        \/ released' = TRUE /\ closed /\ entry' = "retired"
    BY <1>2 DEF ProducerEnds, ReleaseIf, Ends
  <2>3. Threads'
    BY <1>0, <2>1 DEF IInv, Threads
  <2>4. Lifetime'
    <3>1. closed' = TRUE <=> consumer' = "closed"
      BY <2>1 DEF IInv, Lifetime
    <3>2. CASE UNCHANGED <<released, slot, entry>>
      BY <1>0, <2>1, <3>1, <3>2 DEF IInv, Lifetime
    <3>3. CASE released' = TRUE /\ closed = TRUE
      BY <1>0, <2>1, <3>1, <3>3 DEF Lifetime
    <3>4. closed \in BOOLEAN
      BY DEF IInv, Lifetime
    <3>. QED  BY <2>2, <3>2, <3>3, <3>4
  <2>5. HasInput'
    BY <1>0, <2>1 DEF HasInput, Working
  <2>. QED  BY <2>3, <2>4, <2>5 DEF IInv
<1>. QED  BY <1>1, <1>2 DEF Producer

LEMMA ConsumerSteps ==
  ASSUME IInv, Consumer
  PROVE  IInv'
<1>0. consumer \notin {"none", "closed"} /\ handler = "answered"
  BY DEF Consumer, Iterate, NeverIterated, Take, IterationEnds, IterationCancelled,
     Resume, Close, IInv, Threads
<1>1. CASE Iterate
  <2>1. consumer = "ready" /\ producer = "none"
    BY <1>1 DEF Iterate, IInv, Threads
  <2>2. /\ consumer' \in {"waiting", "closing"}
        /\ \/ started' = TRUE /\ producer' = "waiting"
           \/ started' = FALSE /\ producer' = "none"
        /\ UNCHANGED <<kind, handler, heldVars, done, closed, released>>
    BY <1>1, <2>1 DEF Iterate, StartedAfterFailure
  <2>3. Threads'
    BY <1>0, <2>1, <2>2 DEF IInv, Threads
  <2>4. done # TRUE
    BY <2>1 DEF IInv, Lifetime
  <2>5. Lifetime'
    BY <1>0, <2>1, <2>2, <2>4 DEF IInv, Lifetime, heldVars
  <2>6. HasInput'
    BY <1>0, <2>1, <2>2 DEF IInv, HasInput, Working, Input, heldVars
  <2>. QED  BY <2>3, <2>5, <2>6 DEF IInv
<1>2. CASE NeverIterated \/ Take \/ IterationEnds \/ IterationCancelled \/ Resume
  <2>1. /\ consumer' \in {"waiting", "yielded", "closing"}
        /\ consumer' # "closing" => consumer # "ready"
        /\ UNCHANGED <<kind, handler, producer, heldVars, started, done, closed, released>>
    BY <1>2 DEF NeverIterated, Take, IterationEnds, IterationCancelled, Resume, streamVars
  <2>2. Threads'
    BY <1>0, <2>1 DEF IInv, Threads
  <2>3. Lifetime'
    BY <1>0, <2>1 DEF IInv, Lifetime, heldVars
  <2>4. HasInput'
    BY <1>0, <2>1 DEF IInv, HasInput, Working, Input, heldVars
  <2>. QED  BY <2>2, <2>3, <2>4 DEF IInv
<1>3. CASE Close
  <2>1. /\ consumer = "closing" /\ consumer' = "closed" /\ closed' = TRUE
        /\ UNCHANGED <<kind, handler, producer, token, started>>
    BY <1>3 DEF Close
  <2>2. \/ UNCHANGED <<released, slot, entry>>
        \/ released' = TRUE /\ done' /\ entry' = "retired"
    BY <1>3 DEF Close, ReleaseIf, Ends
  <2>3. \/ producer = "none" /\ done' = TRUE
        \/ producer # "none" /\ UNCHANGED <<files, done>>
    BY <1>3 DEF Close, CleansUnstarted, IInv, Threads
  <2>4. Threads'
    BY <1>0, <2>1 DEF IInv, Threads
  <2>5. Lifetime'
    <3>1. CASE UNCHANGED <<released, slot, entry>>
      BY <1>0, <2>1, <2>3, <3>1 DEF IInv, Lifetime
    <3>2. CASE released' = TRUE /\ done' = TRUE
      BY <1>0, <2>1, <2>3, <3>2 DEF IInv, Lifetime
    <3>3. done' \in BOOLEAN
      BY <2>3 DEF IInv, Lifetime
    <3>. QED  BY <2>2, <3>1, <3>2, <3>3
  <2>6. HasInput'
    BY <1>0, <2>1, <2>3 DEF IInv, HasInput, Working, Input
  <2>. QED  BY <2>4, <2>5, <2>6 DEF IInv
<1>. QED  BY <1>1, <1>2, <1>3 DEF Consumer

LEMMA StepIInv == IInv /\ [Next]_vars => IInv'
<1>. SUFFICES ASSUME IInv, [Next]_vars PROVE IInv'
  OBVIOUS
<1>1. CASE Cancel \/ Over \/ UNCHANGED vars
  <2>1. UNCHANGED <<kind, handler, producer, consumer, heldVars, streamVars>>
    BY <1>1 DEF Cancel, Over, vars
  <2>. QED  BY <2>1 DEF IInv, Threads, Lifetime, HasInput, Working, Input, heldVars,
            streamVars
<1>. QED  BY <1>1, HandlerSteps, ProducerSteps, ConsumerSteps DEF Next

\* While a decoder or the frontend works, its input, the token and the
\* request's place are there, and while the response is read the place is.
THEOREM WorkStaysCovered == Spec => []WorkIsCovered
<1>1. ASSUME IInv PROVE WorkIsCovered
  <2>1. Working \/ consumer \in {"ready", "waiting", "yielded"} => slot = TRUE /\ entry = "active"
    BY <1>1 DEF IInv, Threads, Lifetime, Working
  <2>2. Working => Input \in files /\ token = TRUE
    BY <1>1 DEF IInv, HasInput, Working
  <2>. QED  BY <2>1, <2>2 DEF WorkIsCovered
<1>. QED  BY InitIInv, StepIInv, <1>1, PTL DEF Spec

-----------------------------------------------------------------------------
\* What the decoder has made.
AllMade(n) == [i \in 1..n |-> i]
WithError(n) == Append(AllMade(n), Error)

\* While the response is read, what was taken and what waits in the mailbox
\* are together all that was made, and the error last if there was one: no
\* event is lost, repeated or overtaken between the two threads.
InOrder ==
  /\ consumer \in {"none", "ready", "waiting", "yielded"} =>
       \/ read \o events = AllMade(made)
       \/ read \o events = WithError(made) /\ producer \in {"cleanup", "ending", "ended"}
  /\ outcome = "complete" =>
       /\ consumer \in {"closing", "closed"} /\ producer = "ended"
       /\ read \in {AllMade(made), WithError(made)}

Queues == read \in Seq(Nat) /\ events \in Seq(Nat) /\ made \in Nat

LEMMA AllMadeProperties ==
  ASSUME NEW n \in Nat
  PROVE  AllMade(n) \in Seq(Nat) /\ Append(AllMade(n), n + 1) = AllMade(n + 1)
<1>1. AllMade(n) \in Seq(Nat) /\ AllMade(n + 1) \in Seq(Nat)
  BY DEF AllMade
<1>2. Len(AllMade(n)) = n /\ Len(AllMade(n + 1)) = n + 1
  BY <1>1 DEF AllMade
<1>3. Append(AllMade(n), n + 1) \in Seq(Nat)
  BY <1>1
<1>4. Len(Append(AllMade(n), n + 1)) = n + 1
  BY <1>1, <1>2
<1>5. \A i \in 1..(n + 1) : Append(AllMade(n), n + 1)[i] = AllMade(n + 1)[i]
  BY <1>1, <1>2 DEF AllMade
<1> QED BY <1>1, <1>2, <1>3, <1>4, <1>5, SeqEqual

\* The two ways an element moves: into the mailbox, and from it to the client.
LEMMA AppendLast ==
  ASSUME NEW r \in Seq(Nat), NEW e \in Seq(Nat), NEW x \in Nat
  PROVE  r \o Append(e, x) = Append(r \o e, x)
<1>1. Append(e, x) = e \o <<x>> /\ Append(r \o e, x) = (r \o e) \o <<x>>
  BY AppendIsConcat, ConcatProperties
<1>2. <<x>> \in Seq(Nat)
  OBVIOUS
<1> QED BY <1>1, <1>2, ConcatAssociative

LEMMA TakeFirst ==
  ASSUME NEW r \in Seq(Nat), NEW e \in Seq(Nat), e # <<>>
  PROVE  /\ Append(r, Head(e)) \in Seq(Nat) /\ Tail(e) \in Seq(Nat)
         /\ Append(r, Head(e)) \o Tail(e) = r \o e
<1> DEFINE taken == Append(r, Head(e))
           rest == Tail(e)
           n == Len(r)
<1>1. /\ Head(e) \in Nat /\ rest \in Seq(Nat) /\ Len(e) \in Nat \ {0}
      /\ Len(rest) = Len(e) - 1 /\ Head(e) = e[1]
      /\ \A i \in 1..(Len(e) - 1) : rest[i] = e[i + 1]
  BY HeadTailProperties
<1>2. /\ taken \in Seq(Nat) /\ n \in Nat /\ Len(taken) = n + 1 /\ taken[n + 1] = e[1]
      /\ \A i \in 1..n : taken[i] = r[i]
  BY <1>1, AppendProperties
<1> HIDE DEF taken, rest
<1>3. /\ taken \o rest \in Seq(Nat)
      /\ Len(taken \o rest) = n + Len(e)
      /\ \A i \in 1..(n + Len(e)) :
           (taken \o rest)[i] = IF i <= n + 1 THEN taken[i] ELSE rest[i - (n + 1)]
  <2>1. /\ taken \o rest \in Seq(Nat)
        /\ Len(taken \o rest) = Len(taken) + Len(rest)
        /\ \A i \in 1..(Len(taken) + Len(rest)) : (taken \o rest)[i] =
             IF i <= Len(taken) THEN taken[i] ELSE rest[i - Len(taken)]
    BY <1>1, <1>2, ConcatProperties
  <2>2. Len(taken) + Len(rest) = n + Len(e)
    BY <1>1, <1>2
  <2> QED BY <1>2, <2>1, <2>2
<1>4. /\ r \o e \in Seq(Nat)
      /\ Len(r \o e) = n + Len(e)
      /\ \A i \in 1..(n + Len(e)) : (r \o e)[i] = IF i <= n THEN r[i] ELSE e[i - n]
  BY <1>1, <1>2, ConcatProperties
<1>5. ASSUME NEW i \in 1..(n + Len(e))
      PROVE  (taken \o rest)[i] = (r \o e)[i]
  <2>1. i <= n => taken[i] = r[i]
    BY <1>2
  <2>2. i > n + 1 => rest[i - (n + 1)] = e[i - n]
    <3> SUFFICES ASSUME i > n + 1 PROVE rest[i - (n + 1)] = e[i - n]
      OBVIOUS
    <3> DEFINE j == i - (n + 1)
    <3>1. j \in 1..(Len(e) - 1) /\ j + 1 = i - n
      BY <1>1, <1>2
    <3> QED BY <1>1, <3>1
  <2> HIDE DEF n
  <2>0. n \in Nat /\ Len(e) \in Nat /\ i \in Nat /\ i <= n + Len(e)
    BY <1>1, <1>2
  <2>3. CASE i <= n
    BY <1>2, <1>3, <1>4, <2>1, <2>3
  <2>4. CASE i = n + 1
    BY <1>2, <1>3, <1>4, <2>4
  <2>5. CASE i > n + 1
    <3>1. (taken \o rest)[i] = rest[i - (n + 1)]
      BY <1>3, <2>0, <2>5
    <3>2. (r \o e)[i] = e[i - n]
      BY <1>4, <2>0, <2>5
    <3> QED BY <2>2, <2>5, <3>1, <3>2, Zenon
  <2>6. i <= n \/ i = n + 1 \/ i > n + 1
    BY <2>0
  <2> QED BY <2>3, <2>4, <2>5, <2>6, Zenon
<1>6. taken \o rest = r \o e
  BY <1>1, <1>2, <1>3, <1>4, <1>5, SeqEqual
<1> QED BY <1>1, <1>2, <1>6 DEF taken, rest

LEMMA InOrderInit == Init => Queues /\ InOrder
<1> SUFFICES ASSUME Init PROVE Queues /\ InOrder
  OBVIOUS
<1>1. read = <<>> /\ events = <<>> /\ made = 0 /\ outcome = "none"
  BY DEF Init
<1>2. <<>> \o <<>> = AllMade(0)
  BY DEF AllMade
<1> QED BY <1>1, <1>2 DEF Queues, InOrder

\* The producer appends to the mailbox only while it decodes, and the error
\* once, when it has failed.
LEMMA ProducerKeepsOrder ==
  ASSUME IInv, Queues, InOrder, Producer
  PROVE  (Queues /\ InOrder)'
<1>1. producer # "ended" /\ UNCHANGED <<read, consumer, outcome>>
  BY DEF Producer, GetToken, ProducerImproves, AppendEvent, ProducerFails, ReportError,
     ProducerReturns, ProducerCleans, ProducerEnds, Working
<1>2. outcome # "complete"
  BY <1>1 DEF InOrder
<1>3. CASE AppendEvent
  <2>1. /\ producer = "decode" /\ producer' = "decode"
        /\ made' = made + 1 /\ events' = Append(events, made + 1)
    BY <1>3 DEF AppendEvent
  <2>2. Queues'
    BY <1>1, <2>1 DEF Queues
  <2>3. ASSUME read \o events = AllMade(made)
        PROVE  read' \o events' = AllMade(made')
    <3>1. read \o Append(events, made + 1) = Append(read \o events, made + 1)
      BY AppendLast DEF Queues
    <3>2. Append(AllMade(made), made + 1) = AllMade(made + 1)
      BY AllMadeProperties DEF Queues
    <3>3. read' \o events' = read \o Append(events, made + 1)
      BY <1>1, <2>1, Zenon
    <3> QED BY <2>1, <2>3, <3>1, <3>2, <3>3, Zenon
  <2>4. consumer \in {"none", "ready", "waiting", "yielded"} => read \o events = AllMade(made)
    BY <2>1 DEF InOrder
  <2>5. outcome' # "complete" /\ consumer' = consumer
    BY <1>1, <1>2
  <2> QED BY <2>2, <2>3, <2>4, <2>5 DEF InOrder
<1>4. CASE ReportError
  <2>1. /\ producer = "failed" /\ producer' = "cleanup" /\ made' = made
        /\ events' = IF closed THEN events ELSE Append(events, Error)
    BY <1>4 DEF ReportError
  <2>2. Error \in Nat
    BY DEF Error
  <2>3. Queues'
    BY <1>1, <2>1, <2>2 DEF Queues
  <2>4. ASSUME consumer \in {"none", "ready", "waiting", "yielded"}
        PROVE  read' \o events' = WithError(made')
    <3>1. closed = FALSE
      BY <2>4 DEF IInv, Lifetime
    <3>2. read \o events = AllMade(made)
      BY <2>1, <2>4 DEF InOrder
    <3> QED BY <1>1, <2>1, <2>2, <3>1, <3>2, AppendLast DEF Queues, WithError
  <2> QED BY <1>1, <1>2, <2>1, <2>3, <2>4 DEF InOrder
<1>5. CASE GetToken \/ ProducerImproves \/ ProducerFails \/ ProducerReturns
           \/ ProducerCleans \/ ProducerEnds
  <2>1. /\ UNCHANGED <<events, made>>
        /\ producer \in {"cleanup", "ending", "ended"} =>
             producer' \in {"cleanup", "ending", "ended"}
    BY <1>5 DEF GetToken, ProducerImproves, ProducerFails, ProducerReturns,
       ProducerCleans, ProducerEnds, streamVars, Working
  <2> QED BY <1>1, <1>2, <2>1 DEF InOrder, Queues
<1> QED BY <1>3, <1>4, <1>5 DEF Producer

\* The consumer takes the first; it calls the response complete when the
\* mailbox is empty and the producer has ended.
LEMMA ConsumerKeepsOrder ==
  ASSUME IInv, Queues, InOrder, Consumer
  PROVE  (Queues /\ InOrder)'
<1>1. CASE Take
  <2>1. /\ consumer = "waiting" /\ consumer' = "yielded" /\ events # <<>>
        /\ read' = Append(read, Head(events)) /\ events' = Tail(events)
        /\ UNCHANGED <<producer, made, outcome>>
    BY <1>1 DEF Take
  <2>2. Queues' /\ read' \o events' = read \o events
    BY <2>1, TakeFirst DEF Queues
  <2> QED BY <2>1, <2>2 DEF InOrder
<1>2. CASE IterationEnds
  <2>1. /\ consumer = "waiting" /\ consumer' = "closing" /\ events = <<>> /\ done
        /\ UNCHANGED <<producer, read, events, made>>
    BY <1>2 DEF IterationEnds, AllTaken, streamVars
  <2>2. producer = "ended"
    <3>1. done = TRUE /\ closed # TRUE
      BY <2>1 DEF IInv, Lifetime
    <3> QED BY <3>1 DEF IInv, Lifetime
  <2>3. read \o events = read
    BY <2>1 DEF Queues
  <2> QED BY <2>1, <2>2, <2>3 DEF InOrder, Queues
<1>3. CASE IterationCancelled
  <2>1. /\ consumer' = "closing" /\ outcome' = "error" /\ read' = Append(read, Error)
        /\ UNCHANGED <<events, made>>
    BY <1>3 DEF IterationCancelled, streamVars
  <2> QED BY <2>1 DEF InOrder, Queues, Error
<1>4. CASE Close
  <2>1. /\ consumer = "closing" /\ consumer' = "closed" /\ events' = <<>>
        /\ UNCHANGED <<producer, made, read, outcome>>
    BY <1>4 DEF Close
  <2> QED BY <2>1 DEF InOrder, Queues
<1>5. CASE Iterate \/ NeverIterated \/ Resume
  <2>1. /\ consumer \in {"ready", "yielded"} /\ consumer' \in {"waiting", "closing"}
        /\ UNCHANGED <<events, made, read, outcome>>
        /\ producer' = producer \/ producer = "none"
    BY <1>5 DEF Iterate, NeverIterated, Resume, streamVars, IInv, Threads
  <2> QED BY <2>1 DEF InOrder, Queues
<1> QED BY <1>1, <1>2, <1>3, <1>4, <1>5 DEF Consumer

LEMMA InOrderNext ==
  IInv /\ Queues /\ InOrder /\ [Next]_vars => (Queues /\ InOrder)'
<1> SUFFICES ASSUME IInv, Queues, InOrder, [Next]_vars PROVE (Queues /\ InOrder)'
  OBVIOUS
<1>1. CASE Handler
  <2>1. /\ UNCHANGED <<producer, read, events, made, outcome>>
        /\ consumer' = consumer \/ (consumer = "none" /\ consumer' = "ready")
    BY <1>1 DEF Handler, Register, Refuse, StoreUpload, Admit, Improve, Decode,
       HandlerFinally, Reserve, ReserveFails, streamVars, IInv, Threads
  <2> QED BY <2>1 DEF InOrder, Queues
<1>2. CASE Cancel \/ Over \/ UNCHANGED vars
  BY <1>2 DEF Cancel, Over, vars, streamVars, InOrder, Queues
<1> QED BY <1>1, <1>2, ProducerKeepsOrder, ConsumerKeepsOrder DEF Next

\* A response that ends without an error has all events the decoder made, in
\* their order, or the decoder's own error in the place of the rest.
THEOREM CompleteIsAll == Spec => []CompleteMeansAll
<1>1. InOrder => CompleteMeansAll
  BY DEF InOrder, CompleteMeansAll, AllMade, WithError
<1> QED BY InitIInv, StepIInv, InOrderInit, InOrderNext, <1>1, PTL DEF Spec

-----------------------------------------------------------------------------
\* Everything has an owner who will give it back: the handler until it has
\* answered, the response from its making to its release, the worker's token
\* whoever computes; and the files are in the list of one of the two.
Held == consumer # "none" /\ released # TRUE
Computing == {"frontend", "decode"}

FilesOwned ==
  /\ files \subseteq mine \cup cleanup
  /\ handler \in {"new", "store", "answered"} => mine = {}
  /\ handler = "reserve" => mine = {"upload"}
  /\ consumer = "none" \/ producer \in {"ending", "ended"} => cleanup = {}
  /\ producer = "none" /\ closed = TRUE => cleanup = {} /\ done = TRUE
PlacesOwned ==
  /\ handler = "new" => entry = "none"
  /\ slot # FALSE => handler \in Computing \/ Held
  /\ entry = "active" => handler \notin {"new", "answered"} \/ Held
  /\ token # FALSE => handler \in Computing \/ Working
  /\ producer = "ended" => done = TRUE
  /\ closed = TRUE /\ done = TRUE => released = TRUE
Owned == FilesOwned /\ PlacesOwned

LEMMA OwnedInit == Init => Owned
<1> SUFFICES ASSUME Init PROVE Owned
  OBVIOUS
<1>1. FilesOwned
  BY DEF Init, FilesOwned
<1>2. PlacesOwned
  BY DEF Init, PlacesOwned
<1> QED BY <1>1, <1>2 DEF Owned

LEMMA HandlerKeepsOwned ==
  ASSUME IInv, Owned, Handler
  PROVE  Owned'
<1>1. CASE Reserve
  <2>1. /\ handler = "reserve" /\ handler' = "answered" /\ consumer' = "ready"
        /\ mine = {"upload"} /\ mine' = {} /\ cleanup' = {"upload"}
        /\ UNCHANGED <<producer, entry, token, files, done, closed, released>>
    BY <1>1 DEF Reserve, HandOver, streamVars, Owned, FilesOwned
  <2>2. consumer = "none" /\ producer = "none" /\ closed # TRUE /\ released # TRUE
    BY <2>1 DEF IInv, Threads, Lifetime
  <2>3. files \subseteq {"upload"}
    BY <2>1, <2>2 DEF Owned, FilesOwned
  <2>4. FilesOwned'
    BY <2>1, <2>2, <2>3 DEF FilesOwned
  <2>5. PlacesOwned'
    BY <2>1, <2>2 DEF Owned, PlacesOwned, Held, Computing, Working
  <2> QED BY <2>4, <2>5 DEF Owned
<1>2. CASE Register \/ Refuse \/ StoreUpload \/ Admit \/ Improve \/ Decode
           \/ HandlerFinally \/ ReserveFails
  <2>1. handler # "answered" /\ UNCHANGED <<producer, consumer, cleanup, done, closed, released>>
    BY <1>2 DEF Register, Refuse, StoreUpload, Admit, Improve, Decode, HandlerFinally,
       ReserveFails, heldVars, streamVars
  <2>2. /\ consumer = "none" /\ producer = "none" /\ cleanup = {}
        /\ closed # TRUE /\ released # TRUE
    BY <2>1 DEF IInv, Threads, Lifetime, Owned, FilesOwned
  <2>3. FilesOwned'
    <3>1. files' \subseteq mine'
      BY <1>2, <2>2 DEF Register, Refuse, StoreUpload, Admit, Improve, Decode,
         HandlerFinally, ReserveFails, heldVars, Owned, FilesOwned
    <3>2. /\ handler' \in {"new", "store", "answered"} => mine' = {}
          /\ handler' = "reserve" => mine' = {"upload"}
      BY <1>2 DEF Register, Refuse, StoreUpload, Admit, Improve, Decode,
         HandlerFinally, ReserveFails, heldVars, Owned, FilesOwned
    <3> QED BY <2>1, <2>2, <3>1, <3>2 DEF FilesOwned
  <2>4. PlacesOwned'
    <3>1. /\ handler' # "new"
          /\ slot' # FALSE \/ token' # FALSE => handler' \in Computing
          /\ entry' = "active" => handler' # "answered"
      BY <1>2, <2>2 DEF Register, Refuse, StoreUpload, Admit, Improve, Decode,
         HandlerFinally, ReserveFails, heldVars, Owned, PlacesOwned, Held, Working, Computing
    <3> QED BY <2>1, <2>2, <3>1 DEF PlacesOwned
  <2> QED BY <2>3, <2>4 DEF Owned
<1> QED BY <1>1, <1>2 DEF Handler

LEMMA ProducerKeepsOwned ==
  ASSUME IInv, Owned, Producer
  PROVE  Owned'
<1>1. /\ producer \notin {"none", "ended"} /\ handler = "answered" /\ consumer # "none"
      /\ producer' # "none" /\ UNCHANGED <<handler, consumer, mine, closed>>
  BY DEF Producer, GetToken, ProducerImproves, AppendEvent, ProducerFails, ReportError,
     ProducerReturns, ProducerCleans, ProducerEnds, Working, heldVars, streamVars,
     IInv, Threads
<1>2. FilesOwned'
  <2>1. files' \subseteq mine \cup cleanup'
    BY DEF Producer, GetToken, ProducerImproves, AppendEvent, ProducerFails, ReportError,
     ProducerReturns, ProducerCleans, ProducerEnds, heldVars, Owned, FilesOwned
  <2>2. producer' \in {"ending", "ended"} => cleanup' = {}
    BY DEF Producer, GetToken, ProducerImproves, AppendEvent, ProducerFails, ReportError,
     ProducerReturns, ProducerCleans, ProducerEnds, heldVars, Working, Owned, FilesOwned
  <2> QED BY <1>1, <2>1, <2>2 DEF Owned, FilesOwned
<1>3. PlacesOwned'
  <2>1. CASE ProducerEnds
    <3>1. /\ producer = "ending" /\ producer' = "ended" /\ done' = TRUE /\ token' = token
      BY <2>1 DEF ProducerEnds
    <3>2. \/ closed = TRUE /\ released' = TRUE /\ slot' = FALSE /\ entry' = "retired"
          \/ closed # TRUE \/ released = TRUE
      BY <2>1 DEF ProducerEnds, ReleaseIf, Ends, IInv, Lifetime
    <3>3. \/ released' = TRUE /\ slot' = FALSE /\ entry' = "retired"
          \/ UNCHANGED <<released, slot, entry>>
      BY <2>1 DEF ProducerEnds, ReleaseIf
    <3> QED BY <1>1, <3>1, <3>2, <3>3 DEF Owned, PlacesOwned, Held, Computing, Working
  <2>2. CASE GetToken \/ ProducerImproves \/ AppendEvent \/ ProducerFails \/ ReportError
             \/ ProducerReturns \/ ProducerCleans
    <3>1. producer' # "ended" /\ UNCHANGED <<entry, slot, done, released>>
      BY <2>2 DEF GetToken, ProducerImproves, AppendEvent, ProducerFails, ReportError,
         ProducerReturns, ProducerCleans, heldVars, streamVars
    <3>2. token' # FALSE => producer' \in Computing
      BY <1>1, <2>2 DEF GetToken, ProducerImproves, AppendEvent, ProducerFails, ReportError,
         ProducerReturns, ProducerCleans, heldVars, Owned, PlacesOwned, Working, Computing
    <3> QED BY <1>1, <3>1, <3>2 DEF Owned, PlacesOwned, Held, Computing, Working
  <2> QED BY <2>1, <2>2 DEF Producer
<1> QED BY <1>2, <1>3 DEF Owned

\* A response that is closed before its producer began cleans up itself; one
\* whose producer runs leaves that to it.
LEMMA ConsumerKeepsOwned ==
  ASSUME IInv, Owned, Consumer
  PROVE  Owned'
<1>1. consumer \notin {"none", "closed"} /\ handler = "answered" /\ closed # TRUE
  BY DEF Consumer, Iterate, NeverIterated, Take, IterationEnds, IterationCancelled,
     Resume, Close, IInv, Threads, Lifetime
<1>2. CASE Close
  <2>1. /\ consumer = "closing" /\ consumer' = "closed" /\ closed' = TRUE
        /\ UNCHANGED <<handler, producer, token, mine>>
    BY <1>2 DEF Close
  <2>2. \/ producer = "none" /\ files' = files \ cleanup /\ cleanup' = {} /\ done' = TRUE
        \/ producer # "none" /\ UNCHANGED <<files, cleanup, done>>
    BY <1>2 DEF Close, CleansUnstarted, IInv, Threads
  <2>3. /\ done' = TRUE => released' = TRUE
        /\ \/ released' = TRUE /\ slot' = FALSE /\ entry' = "retired"
           \/ UNCHANGED <<released, slot, entry>>
    <3>1. released # TRUE
      BY <1>1 DEF IInv, Lifetime
    <3>2. ReleaseIf(TRUE, done')
      BY <1>2 DEF Close
    <3> QED BY <3>1, <3>2 DEF ReleaseIf, Ends
  <2>4. FilesOwned'
    BY <1>1, <2>1, <2>2 DEF Owned, FilesOwned
  <2>5. PlacesOwned'
    BY <1>1, <2>1, <2>2, <2>3 DEF Owned, PlacesOwned, Held, Computing, Working
  <2> QED BY <2>4, <2>5 DEF Owned
<1>3. CASE Iterate \/ NeverIterated \/ Take \/ IterationEnds \/ IterationCancelled \/ Resume
  <2>1. /\ consumer' # "none" /\ UNCHANGED <<handler, heldVars, done, closed, released>>
        /\ \/ producer' = producer
           \/ producer = "none" /\ producer' = "waiting"
    BY <1>3 DEF Iterate, NeverIterated, Take, IterationEnds, IterationCancelled, Resume,
       streamVars, IInv, Threads
  <2>2. FilesOwned'
    BY <1>1, <2>1 DEF Owned, FilesOwned, heldVars
  <2>3. PlacesOwned'
    BY <1>1, <2>1 DEF Owned, PlacesOwned, Held, Computing, Working, heldVars
  <2> QED BY <2>2, <2>3 DEF Owned
<1> QED BY <1>2, <1>3 DEF Consumer

LEMMA OwnedNext == IInv /\ Owned /\ [Next]_vars => Owned'
<1> SUFFICES ASSUME IInv, Owned, [Next]_vars PROVE Owned'
  OBVIOUS
<1>1. CASE Cancel \/ Over \/ UNCHANGED vars
  <2>1. UNCHANGED <<handler, producer, consumer, heldVars, streamVars>>
    BY <1>1 DEF Cancel, Over, vars
  <2> QED BY <2>1 DEF Owned, FilesOwned, PlacesOwned, Held, Working, heldVars, streamVars
<1> QED BY <1>1, HandlerKeepsOwned, ProducerKeepsOwned, ConsumerKeepsOwned DEF Next

LEMMA EndedIsClean == IInv /\ Owned /\ Ended => AllBack
<1> SUFFICES ASSUME IInv, Owned, Ended PROVE AllBack
  OBVIOUS
<1>1. ~Held
  <2>1. CASE consumer = "closed"
    <3>1. closed = TRUE /\ done = TRUE
      BY <2>1 DEF Ended, IInv, Lifetime, Owned, FilesOwned, PlacesOwned
    <3> QED BY <3>1 DEF Held, Owned, PlacesOwned
  <2> QED BY <2>1 DEF Ended, Held
<1>2. cleanup = {} /\ mine = {}
  BY DEF Ended, IInv, Lifetime, Owned, FilesOwned
<1>3. slot = FALSE /\ token = FALSE /\ entry # "active"
  BY <1>1 DEF Ended, Owned, PlacesOwned, Computing, Working
<1> QED BY <1>2, <1>3 DEF AllBack, Owned, FilesOwned

LEMMA EndedStays == IInv /\ Owned /\ Ended /\ [Next]_vars => Ended'
<1> SUFFICES ASSUME IInv, Owned, Ended, [Next]_vars PROVE Ended'
  OBVIOUS
<1>1. ~Cancel
  BY EndedIsClean DEF AllBack, Cancel
<1>2. ~Handler
  BY DEF Ended, Handler, Register, Refuse, StoreUpload, Admit, Improve, Decode,
     HandlerFinally, Reserve, ReserveFails
<1>3. ~Producer
  BY DEF Ended, Producer, GetToken, ProducerImproves, AppendEvent, ProducerFails,
     ReportError, ProducerReturns, ProducerCleans, ProducerEnds, Working
<1>4. ~Consumer
  BY DEF Ended, Consumer, Iterate, NeverIterated, Take, IterationEnds,
     IterationCancelled, Resume, Close, IInv, Threads
<1> QED BY <1>1, <1>2, <1>3, <1>4 DEF Next, Over, Ended, vars

\* The safety part of GivenBack: whatever failed, was cancelled or never read,
\* when handler, producer and response have ended, the request has no file,
\* no slot, no token and no active entry left, and it stays so.
THEOREM NothingIsLeft == Spec => [](Ended => []AllBack)
BY InitIInv, StepIInv, OwnedInit, OwnedNext, EndedIsClean, EndedStays, PTL DEF Spec
=============================================================================
