------------------------------ MODULE FairQueue ------------------------------
(***************************************************************************)
(* What the media services promise of their one worker (contracts/         *)
(* local-media-v1/README.md, "Admission is FIFO and bounded"): one client  *)
(* at a time, in the order of arrival; a client may give up its place, and *)
(* nobody waits for ever.                                                  *)
(***************************************************************************)
EXTENDS Naturals, Sequences

CONSTANT Client
VARIABLES
  queue,   \* the clients that wait, in the order of arrival
  holder   \* the client that has the worker, as a set

vars == <<queue, holder>>

Waiting == {queue[i] : i \in 1..Len(queue)}

Init == queue = <<>> /\ holder = {}

Join(c) ==
  /\ c \notin Waiting \cup holder
  /\ queue' = Append(queue, c) /\ UNCHANGED holder

Enter(c) ==
  /\ queue = <<>> /\ holder = {}
  /\ holder' = {c} /\ UNCHANGED queue

Serve ==
  /\ queue # <<>> /\ holder = {}
  /\ holder' = {Head(queue)} /\ queue' = Tail(queue)

\* The others keep their order.
GiveUp(c) ==
  /\ \E i \in 1..Len(queue) :
       /\ queue[i] = c
       /\ queue' = SubSeq(queue, 1, i - 1) \o SubSeq(queue, i + 1, Len(queue))
  /\ UNCHANGED holder

Done ==
  /\ holder # {}
  /\ holder' = {} /\ UNCHANGED queue

Next == Serve \/ Done \/ \E c \in Client : Join(c) \/ Enter(c) \/ GiveUp(c)

Advance == Serve \/ (queue # <<>> /\ GiveUp(Head(queue)))
Spec == Init /\ [][Next]_vars /\ WF_vars(Advance) /\ WF_vars(Done)
=============================================================================
