# Verification of the local media and accelerator services

The TLA+ modules in this directory model the parts of the repository in which
several threads, processes or peers share state: the accelerator broker with
its leases and its hardware, the clients that hold such leases, the owner of a
GPU service, and the requests of the speech services. TLC checks them on small
instances; TLAPS proves the properties that matter most for every value of the
constants.

## 1. The system

| Component | State | Operations | What is hard |
|---|---|---|---|
| **Accelerator manager** `services/accelerator/.../broker.py` 812-1155 | lease table, policy-lease table, `_state`, `_readiness_verified`, idle and start times, next wake attempt | `acquire`, `renew`, `release`, `subscribe_policy`, `renew_policy`, `release_policy`, `status`, `tick` (monitor thread) | backend calls of minutes under the lock; clocks read before them; expiry noticed late; restart loses the table; the probe or the call fails |
| **Backend** `broker.py` 320-809 | PCI topology, drivers, modules, persistence service | `probe`, `ensure_ready`, `power_off` | a client opens the device in the middle; a step of the call or of its recovery fails |
| **Broker runtime, client** `broker.py` 1158-1340, `client.py` | request times per uid; the lease object | `dispatch`; `acquire`, `renew`, `release` over a Unix socket | lost replies, late replies, half-written answers |
| **Lease runner** `runner.py` | stop request, failure clock, worker process | `run`, `request_stop`, `_stop_worker` | hanging renewals, stop races, workers that ignore signals |
| **Lease keeper** `lease_keeper.py` | lease, health, renewal thread | `start`, `_maintain_once`, `unload_requested`, `close` | renewal racing `close`; a broker that forgot the lease |
| **Policy keeper** `policy_keeper.py` | policy lease, monitor thread | `start`, `_refresh`, `unload_requested`, `close` | stale or torn answers; a subscription per lost reply; abandoned requests granted late and all at once |
| **Demand lease** `demand_lease.py` | transition, keeper, active count, idle time | `acquire`, `release`, `drain_if_idle`, `close` | the race for the first lease, drain against new work, shutdown under work |
| **Embedding runtime and server** `services/embedding` | drainer and request threads, places to queue and to execute | `do_POST`, `embed`, `_drain_loop`, `_unload_and_verify`, `close` | three kinds of threads over one demand lease |
| **Service owner, demand socket** `service_owner.py` | demands and their callbacks, worker thread, idle time | `reconcile`, `add_demand`, `remove_demand`, `stop`; a handler per connection | a demand against an ending worker; four kinds of threads |
| **Requests of STT** `services/stt` `request_lifecycle.py`, `app.py` | active, retired and background ids; reservations, tickets, the busy flag | `register`, `finish`, `cancel`, `reserve`, `compute` | cancel before arrival, abandonment in the queue, bounds |
| **STT inference stream** `inference_stream.py` | mailbox, started/done/closed/released | `__iter__`, `_run`, `close` | release exactly once, after producer and response |
| **Requests of TTS** `services/tts` `request_lifecycle.py`, `app.py` | as for STT, and the backend's iterator | `synthesize`, `synthesize_stream`, `render_segments` | a ticket per segment and one for the close; clients that stop reading |
| **Realtime transcription session** `packages/openclaw-local-media` | turn, serial promise chain, queue count, input boundary | `sendAudio`, `finishInput`, `enqueue`, `fail`, `close` | awaits between every check and use |
| **Voice assistant** `packages/openclaw-voiceassistant` | session, start in progress | `poll`, `openSession`, `closeSession`, `stop` | close against a start in progress |
| **Matrix RTC bridge** `services/matrix-rtc-media` | output generation, gate, pending frame | clear, gate, capture | old frames after a clear |
| Device plugins, deployment tools, signal processing, model backends | - | - | I/O, validation and numerics |

How they interact. Services and runners talk to the broker over a socket; the
manager serialises everything under one lock and drives the backend under it.
A runner starts a worker (an STT or TTS service) under a lease. The embedding
service holds its lease through a demand lease, which makes a lease keeper per
period of use; its server admits and queues requests before they reach it. A
service without a GPU lease asks a policy keeper whether the standby schedule
wants its model unloaded. The service owner starts runners when a demand is
connected or the policy wants the worker. The speech services know nothing of
leases; their clients are the media providers, the transcription session and
the Matrix bridge, and the models see these as clients that read slowly, leave,
or cancel at any moment.

What correctness means for each:

* manager: it detaches nothing under a lease or a promise, loses no lease,
  grants nothing unproven, and still reaches standby and wake;
* backend: a good answer is true, nobody loses a device in use, nothing
  unnamed is removed, every call ends;
* runner: its worker lives only inside its lease and always ends;
* keepers: what they allow or wish is covered by an answer that is still valid,
  faults are noticed and overcome, nothing stays at the broker after `close`;
* demand lease: it covers all work, is one, is given back after the unload, and
  an idle model is unloaded;
* service owner: one worker, demands counted once and retired with their
  worker, every demand served, standby reached;
* requests: registry and queue keep their bounds, cancelled work never starts,
  tickets are served in order, and whatever a request held (files, slot, token,
  iterator) is given back, but not under running work.

## 2. Modules

| Module | Models | Run |
|---|---|---|
| `AcceleratorManager`, `AcceleratorManagerMC` | the manager and its monitor over an abstract backend | `manager`, `manager_unproven` |
| `Backend` | abstract: what the manager may expect of its backend | refined by `PciBackend` |
| `PciBackend` | `ensure_ready`, `power_off` and their recovery, command by command | `pci` |
| `LeaseSupervisor` | the runner, its worker, and the lease it renews | `runner_safe` |
| `LeaseKeeper` | the lease keeper and the broker's side of its requests | `keeper` |
| `PolicyKeeper` | the policy keeper, the policy calls and the schedule | `policy` |
| `DemandLease` | the demand lease, the embedding service's threads and its server's admission | `demand_lease`, `demand_close` |
| `ServiceOwner` | owner, worker threads, demand connections, main thread | `owner` |
| `RequestLifecycle`, `RequestLifecycleMC` | registry, reservation and queue of STT and TTS | `lifecycle` |
| `FairQueue` | abstract: a fair FIFO around one worker | refined by `RequestLifecycle` |
| `InferenceStream` | one STT request with its three threads | `stream` |
| `SpeechRequests`, `SpeechRequestsMC` | TTS requests with their generators, refining `RequestLifecycle` | `speech` |
| `Accelerator_proofs` | theorems about `AcceleratorManager` and `PciBackend` | |
| `LeaseHolders_proofs` | theorems about `DemandLease` and `LeaseSupervisor` | |
| `LeaseKeeper_proofs`, `PolicyKeeper_proofs`, `ServiceOwner_proofs`, `RequestLifecycle_proofs`, `InferenceStream_proofs`, `SpeechRequests_proofs` | theorems about the module each is named after | |

`PciBackend` and `LeaseSupervisor` name their specifications `PciSpec` and
`RunnerSpec`, so that one module of proofs can extend them beside another
component; no definition of one component is used for the other.

`PROJECT.json` maps each definition to the lines it stands for. Definitions
named after a mistake (`StaysHealthyAlways`, `AbandonKeepsTicket`, ...) are used
by no specification: each is a plausible bug in the definition after it, and
shows that the property named beside it in `PROJECT.json` can fail.

### AcceleratorManager

Each method is one action because it runs under one lock; `acquire`, the wake
and the standby branch of `tick` are split around the backend call they make.
While such a call is in progress (`op`) the lock is taken, and time, the
schedule, the hardware, other clients and a crash may interleave. Times are
counted down: `leaseLeft` is `expires_monotonic - now`, `idle` is
`now - _idle_since` saturated at the timeout it is compared with. `told` is
what the holder was told, which differs from the table when `acquire` was slow
or the broker restarted. Reaping is part of each action that reaps in the code.
`proof` and `sinceLive` are auxiliary: what the process has really learnt of
the device, and the real time since a lease was last live.

### Backend and PciBackend

`Backend` says what the manager relies on: a call may be refused or fail and
leave the hardware anyhow, but "ok" is true, the device does not go off while a
process has it open, and every call returns. In `PciBackend` one action is one
command or one sysfs access, and `pc` is the next of them; other processes open
and close the device, the hardware fails and deadlines pass in between. The
stranded reset is `ensure_ready` entering the steps of `power_off`; the recovery
of `power_off` is `error` kept while the steps of `ensure_ready` run. What the
kernel does is modelled as far as these steps use it: a module in use cannot be
unloaded, only a bound GPU can be opened. The second look at the clients is not
what protects them (they may come after it); the unload of `nvidia_uvm` and
`nvidia`, which fails while the device is open, is, and the run shows it.

### LeaseSupervisor

`pc` is the place in `run()`. Time passes only where the code blocks, and there
at most for the timeout it passes. The broker answers, answers "not ready", is
late, or forgets the lease; a release may be lost. The group's leader and the
rest of its group exit separately; SIGTERM may be ignored, and a leader in an
uninterruptible call survives SIGKILL (`stuck`).

### LeaseKeeper and PolicyKeeper

Both have two threads: the monitor, which makes the requests, and the owner,
which reads and closes. `at` and `monitor` are where the requesting thread is;
a request may not reach the broker, be refused, be answered late, or be
answered to nobody, in which case the broker has a lease no one knows. Dates
are held as the time left until them, in the keeper, in the broker's table and
in a message under way, so that the difference between the two clocks of a
date is the age of the message. `close()` waits for the monitor for `Join`
only and a request may take longer, so the monitor may come back to a closed
keeper. `PolicyKeeper` has a clock of its own that goes round a small day, with
every schedule over given start and end minutes; `renew()` writes its three
fields in three steps, and the reader, who does not share its lock, may look in
between.

At the broker each request has a thread of its own, which waits for the manager's
lock while `acquire` or `tick` holds it over a slow `ensure_ready`. A
request that times out while it waits is carried out later, to nobody: `late`. In
`LeaseKeeper` that is one acquire; in `PolicyKeeper` any number of requests may
wait, each for `Lag` at most: subscribes, renewals and the release of `close()`.
`LateAnswer` carries them out in any order and, as no time has to pass between
two, all at once; each subscribe gets a full ttl or is refused, as it is when the
user has `MAX_LEASES_PER_UID` leases, which other consumers may take up.

### DemandLease

Each `with self._condition` block is one action; the calls to the broker, to
Ollama and to the keeper between two blocks are actions too. A request thread
is admitted by the server (`Parallel + Queued` places), waits for one of
`Parallel` places to execute, embeds and answers; its deadline may end the
wait. The drainer sends its own probe through `embed` and passes no admission.
The main thread closes the lease while request threads, which are daemons, go
on. The model follows the second of the two methods named `close` in the class,
which is the one Python keeps.

### ServiceOwner

Each block under the owner's lock is one action. `reconcile` reads the policy
before it takes the lock (`wish`), and the retire callbacks of an ended worker
run after it is given back (`todo`). A connection is a handler thread with its
place in the socket's slots and, from `add_demand` to its finally clause, its
demand; `old` is auxiliary: the demands that a worker which has ended served.
The supervisor in a worker thread is what `LeaseSupervisor` shows of it.

### RequestLifecycle, InferenceStream, SpeechRequests

In `RequestLifecycle` each block under the registry's lock or the state's
condition is one action. `service` selects STT (one unit of inference, work
classes) or TTS (a unit per segment, then one for cleanup, each joining the
tail again). Deadlines and retirement periods end at any moment. What a request
does between these blocks is abstract, and two modules fill it in:

* `InferenceStream` takes one STT request, streamed or not, through handler,
  response and inference thread. A streamed handler of `RequestLifecycle` is its
  admission from `reserve` until the stream has released it; that the stream
  keeps it under its work and releases it in the end is `WorkIsCovered` and
  `GivenBack`.
* `SpeechRequests` takes TTS requests through the two handlers and the generator
  `render_segments`; `ImplementsLifecycle` maps its places to those of
  `RequestLifecycle`, with fairness, so that the order of factory, segments and
  close, and the moments at which they fail, are ones the lifecycle has. A frame
  waiting for its client is "sending", where the worker is free.

## 3. Runs

| Run | Question | Properties |
|---|---|---|
| `manager` | no detach under leases or promises; no lease lost; no unproven grant; are standby and the morning wake reached? | `DetachOnlyWhenIdle`, `DetachAfterPromises`, `LiveLeaseKept`, `GrantAfterProof`, `StandbyReached`, `WakeReached` |
| `manager_unproven` | does every grant follow a proof of the backend? (violation) | `GrantBackendProven` |
| `pci` | do the privileged steps keep what the manager expects, and leave other devices alone? | `ImplementsBackend`, `ProtectedUntouched` |
| `runner_safe` | with a ttl that covers every wait: worker inside its lease, grace kept, worker ended | `WorkerWithinLeaseIfSafe`, `WorkerGetsItsGrace`, `WorkerEnds` |
| `keeper` | is a model that stays covered, is health honest, is a lost lease replaced, does nothing stay behind? | `KeptUnderPromise`, `HealthyMeansRecent`, `HealthyAgain`, `LeaseRunsOut` |
| `policy` | is a wish ever stale, do lost replies and late grants fill the table, is the schedule known again, does nothing stay behind? | `NeverStale`, `LeakBounded`, `KnownAgain`, `LeaseRunsOut` |
| `demand_lease` | work covered, one lease, unload before release, no stuck transition, idle model unloaded | `WorkHoldsTheLease`, `OneLease`, `QuietReleaseAfterUnload`, `TransitionEnds`, `IdleModelUnloads` |
| `demand_close` | unload before release also at shutdown? (violation) | `ReleaseAfterUnload` |
| `owner` | one worker, demands counted, retired with their worker, served; standby | `OneWorker`, `DemandsCounted`, `RetiredWithWorker`, `DemandServed`, `StandbyAtLast` |
| `lifecycle` | registry bounds, tickets, background work, cancellation, FIFO refinement | `RegistryBounded`, `TicketAlwaysFits`, `BackgroundNeverWaits`, `CancelledNeverStarts`, `FifoQueue` |
| `stream` | is work covered, is a complete stream whole, is everything given back? | `WorkIsCovered`, `CompleteMeansAll`, `GivenBack` |
| `speech` | is the backend's iterator closed in time, does a slow reader delay only itself, is the lifecycle implemented? | `IteratorClosed`, `GivenBack`, `ImplementsLifecycle` |

### Bounds, and why they suffice

* `manager`: one peer, two leases, a policy lease, a ttl of two steps, an idle
  timeout of one, a startup guard of two and backend calls of up to one step.
  So a lease can expire during a call and outlive a restart, and two leases keep
  or reset the idle time of one another. Its safety properties are proved for
  all peers, tokens and times; the run is what the proofs do not reach, the two
  liveness properties. `manager_unproven` takes two peers, ttls of one and
  three steps and calls of two, without a schedule, so that it can find its
  violation with any order of expiries and calls.
* `pci`: the whole sequence of commands, four modules, and two processes: one
  that holds the device while the other comes and goes. `RefinesBackend` is
  proved for any number.
* `runner_safe`: the ttl of 17 is one more than the longest chain of waits of
  the other constants, so the margin is tight.
* `keeper`: `Grace` equals `Renew`, so a grace passes between two attempts; a
  request may take longer than `close()` waits (`Timeout > Join`), and a ttl is
  twice an interval, the least `__init__` accepts. Three tokens are a held
  lease, one granted to nobody and the next; a token is used again when its
  lease has run out.
* `policy`: a day of six seconds in three minutes, windows from minute 0 or 2 to
  minute 1, so one of them goes past midnight and one starts with the day;
  answers are valid for a whole minute, so both ends of a window fall inside an
  answer. A ttl is twice an interval, the least `__init__` accepts. The broker may
  be late by two intervals, so several abandoned subscribes wait for its lock
  together and are granted at one moment, beside renewals of a lease that is
  gone. Five tokens are one more than `LeakBounded` allows to be live.
* `demand_lease`, `demand_close`: three requests for two places and one in the
  queue, so one waits and the admission is full, beside drainer and closer. Two
  keepers are as many as can exist at once if `OneLease` holds, and one more
  would be found by it if it did not.
* `owner`: two demands and two worker threads, so that a demand meets the end
  of one worker and the start of the next, and the slots are full.
* `lifecycle`: three handlers for two places, four ids for three entries, a
  background share of one: both bounds are exceeded by one, and a queue of two
  behind a running unit arises through a reservation that is given up.
* `stream`: one request of every kind with a mailbox of two events, so that an
  event too many and a mailbox emptied between two events both happen. Requests
  meet only at the token and the slots, which `lifecycle` covers.
* `speech`: two requests and one segment more than the text has, a registry of
  two. Whole and streamed requests meet in every combination; the third
  competitor for a place is in `lifecycle`.

Symmetry: `manager_unproven` checks safety with symmetric peers and tokens.
`lifecycle` and `speech` use symmetric request ids with temporal properties:
neither a fairness condition nor a temporal formula names an id, so both hold of
a step exactly if they hold of it after a permutation of `Id`, and handlers,
which they do name, are not symmetric.

### Fairness, and why the code justifies it

* Manager: time passes; a backend call ends, because every command in it has a
  timeout (`ImplementsBackend` shows the call's end); the monitor's loop never
  ends (its body catches everything). The monitor takes a lock others also take,
  hence strong fairness of its steps. Strong fairness of the successful end of
  `ensure_ready` and of `power_off` says that the hardware obeys at last if it is
  tried again and again: an assumption on the device. Both properties assume
  finitely many restarts and a quiet or daytime that lasts.
* Backend: weak fairness of the call's next step, as every command has a timeout
  and every loop a deadline. Nothing is assumed of the other processes.
* Runner: weak fairness of time while it blocks and of its next step.
* Keepers: time passes, a request that reached the broker is answered or times
  out, both threads go on. A request whose client has gone is carried out within
  `Lag`: the lock it waits for is held over backend calls, and every command in
  those has a timeout. `PolicyKeeper` takes strong fairness of the monitor's
  steps that need the lock the owner takes and gives back again and again. What
  comes back after faults (`HealthyAgain`, `KnownAgain`) assumes that faults
  cease; `LeaseRunsOut` assumes nothing of the kind.
* Demand lease: every embedding thread goes on once it executes; the drainer's
  loop turns each second; an unload that is tried again and again succeeds at
  last (strong fairness of `AskUnload` and `SeeUnloaded`), an assumption on
  Ollama. No fairness is assumed of a request that waits for a place to
  execute: a semaphore gives its places in no order.
* Service owner: every thread goes on; a supervisor that is asked to stop does,
  which is `WorkerEnds` of the runner; time passes again and again. Nothing is
  assumed of the peers of the demand socket.
* Lifecycle: a waiter looks again every 50 ms; a unit of inference ends.
* Stream: handler, inference thread and the server's thread go on; the token is
  got or the deadline passes. The server closes a response its client has left.
* Speech: the service's own steps, per handler. Nothing makes a client read, and
  `GivenBack` asks only for those whose own client reads or leaves.

### What the violations show

`PROJECT.json` lists two disagreements between the code and its documents:

* `manager_unproven`: `power_off` recovers from a late client with
  `ensure_ready`, swallows the recovery's failure (`broker.py:804-808`) and
  raises "busy"; `tick` then calls the device ready and keeps
  `_readiness_verified`. The next `acquire` grants a lease over a backend whose
  last `ensure_ready` failed.
* `demand_close`: `demand_lease.py` defines `close()` twice, at lines 160 and
  176. The first refuses while operations are active; Python keeps the second,
  which gives the lease back under a request that then loads the model again.

Modelling brought up further observations. No run checks them, and they are
recorded here for readers of the code:

* `renew` answers with whatever state the last call left behind
  (`broker.py:975`), so a lease that was extended may be reported as not ready;
  clients take this for a failed renewal. `LeaseSupervisor` and `LeaseKeeper`
  include that answer.
* `validate()` accepts a ttl (`runner.py:57`) that covers the interval, the grace
  and one request, but not the retry, the loop's wait, the age of the answer and
  the shutdown. `WorkerWithinLeaseIfSafe` therefore has the condition `Safe`,
  which lists every wait.
* `_stop_worker` signals the process group only until its leader has exited
  (`runner.py:101`); children that ignored SIGTERM may go on. The model has them
  as `children`, and no property says that they end.
* Two terminal error events can follow one another in an STT stream. The
  producer appends the decoder's error, the client gets it, and a cancellation
  or the deadline meets `checkpoint()` before the producer is done, so that
  `__iter__` adds an error of its own. The comment at `inference_stream.py:77`
  speaks of one.
* A lease keeper closed while a request hangs may store the late lease and call
  itself healthy although it is closed; the lease runs out at the broker
  (`LeaseRunsOut`), nobody renews it.
* The policy subscribes that a keeper gave up after its timeout
  (`policy_keeper.py:33`) are all granted when the manager's lock is released
  (`broker.py:996`), to nobody and each with a full ttl. Their number grows with
  how long the lock was held, `LeakBounded` says by how much, up to
  `MAX_LEASES_PER_UID`; there the other consumers of the same user are refused
  until the leases run out.
* Two statements of `contracts/local-media-v1/README.md` are older than the code
  and its tests. Lines 124-125 say that "FIFO admission still belongs to the whole
  request", while each segment of a TTS request joins the tail again
  (`test_continuing_request_rejoins_fifo_behind_already_ready_request`), which is
  what `FifoQueue` is about. Lines 171-172 say that "there is no background
  inference thread", while a stream has one (`inference_stream.py:100`).
* With a ttl below `POLICY_MAX_AGE_SEC` (60 s) a keeper could let the model stay
  on an answer that is valid longer than the lease. No caller uses such a ttl;
  it is the assumption `MaxAgeAssumption` of `LeaseKeeper`.

## 4. Proofs

All hold for every value of the constants under the named `ASSUME`s of the
modules: ranges of the timers, what `validate()` and `__init__` accept, finite
sets of handlers, ids and connections. TLC evaluates these assumptions in the
runs.

* `Accelerator_proofs`, the manager. `TypeCorrect` is inductive by itself.
  `DetachIdle` needs two more facts: a token that is not in the table has no
  time left (`AbsentIsSpent`), and while the table is empty the idle time the
  code computes is never more than the real one (`IdleIsTrue`): the last one
  fails exactly if a reap forgets to reset `_idle_since`. `DetachPromises` adds
  `AllCovered`: while a promise is outstanding, the lease is still in the
  table, or was there so recently that the idle timeout is not over, or the
  process is so young that the startup guard is not. It is conditional on
  `MaxOperation <= IdleTimeout` and `MaxTtl <= StartupGuard`, the condition
  under which the design protects holders. `GrantsAreProven` rests on
  `VerifiedIsProven`; `LiveLeasesKept` on the types alone.
* `Accelerator_proofs`, the backend, for any set of processes. The invariant says
  where a call can be and with which error (`InCall`), that the device is open
  only while the GPU is bound, which takes a loaded module (`DeviceThere`), why
  nobody has it open when the branch goes (`NobodyThere`: the reset found the GPU
  unbound, the power-off has unloaded the module that binds it), and that the
  configuration names everything on a branch being detached (`OnlyNamed`).
  `RemovesOnlyNamed` is its last part. `RefinesBackend` is the safety part of
  `ImplementsBackend`: initial states map to initial states and each command is a
  step of `Backend` or a stutter.
* `LeaseHolders_proofs`, the runner. `RunnerTypes`, and `WorkerCovered`: a
  running worker is inside the promise whenever `Safe` holds. The invariant
  `Bounded` gives, for every place of `run()`, a lower bound of the time left of
  the promise as a sum of the waits still ahead; each step uses up one summand.
  `GraceIsGiven` needs no `Safe`. Its invariant `Grace` relates the three clocks
  of the loop to the last good answer: the next renewal is due an interval after
  it, a failure is no older than the renewal that failed, so an interval always
  lies behind the grace.
* `LeaseHolders_proofs`, the demand lease, for any number of requests, places and
  keepers. `OneLeaseAtATime`: one thread at most starts a keeper, with no other
  installed (`OneStarter`), whoever unloads does so for the installed keeper
  (`UnloadersHold`), and an open keeper is the installed one or its starter's
  (`LeasesKnown`). `WorkAlwaysCovered` adds `Covered`: until shutdown, the active
  count is the number of threads at work, and while there are any, a keeper is
  installed, is open, and the drainer is not unloading. The property ends at
  shutdown because the effective `close()` does not wait for work
  (`demand_close`). `QuietReleases` rests on both and on `Quiet`: a model comes
  into the device only by somebody at work, so it is out of it while the service
  has no keeper, while one is being started, and once whoever unloads has seen
  it gone; after a `close()` that caught nobody at work, nobody works again.
* `LeaseKeeper_proofs`. `StaysUnderPromise`: a schedule's answer never outlives
  the lease it came with, in the keeper or in a message (`ValidWithinLease`,
  which needs `MaxAge <= Ttl`). `HealthIsRecent`: `Recent` bounds, for each
  place of the thread, the age of the last success plus the waits still ahead.
* `PolicyKeeper_proofs`, for any day, set of windows, times and set of tokens.
  `LeaksAreBounded`: a lease gets its ttl when the broker carries a request out,
  which may be late and at the same moment as others, so it is the requests that
  are apart. The invariant gives each live lease an age, the time since the
  request that last granted it ended for the keeper, and each abandoned subscribe
  has waited since then (`Waited`); any two of these ages are a renewal interval
  apart (`Spaced`), because the keeper subscribes again after a wait of an
  interval, or when the lease it had is gone. A lease that may yet be renewed
  (`Claimed`: the keeper's, that of a request under way or of an abandoned
  renewal) is the last of them (`Last`), so that renewing it brings it no closer
  to another. Age and time left together are at most the ttl and the time the
  broker may be late, so there are no more live leases than intervals in these.
  `KnownInv` says what the monitor asks for, what an abandoned renewal may still
  renew (`OpenInv`), and what a request begun before `close()` may do after it
  (`RefreshInv`).
  `ValidForIsRight` is about the algorithm of `_policy_locked`: an answer is the
  schedule's at every second of its validity. It has two halves. The halving
  stops at an age with the other wish whose predecessor has this one
  (`FirstChangeFound`): that its recursion is well defined (`HalvingExists`)
  and what it returns (`HalvingFinds`) are proved from the smallest
  counterexample, which the library's minimal elements of well-founded relations
  give without an induction rule. And between two times a minute apart at most
  there is no third minute (`MinuteBetween`), so no window opens and closes
  again unseen: this is where `MaxAge <= MinuteSec` is needed.
  `WishIsCurrent` takes it from there: each answer, stored or under way, is
  right for as long as it is valid (`Right`); while `renew()` overwrites a valid
  answer by another the two have the same wish, and from its second write on the
  wish is the new one (`Answers`); so what a reader sees between its two looks
  was wanted at some moment since the first (`Reading`).
* `ServiceOwner_proofs`, for any number of connections and worker threads.
  `OneWorkerAtATime`: the owner knows the only worker that is alive (`Known`).
  `EveryDemandCounted`: demands, callbacks and slots are functions of the
  connections' places, in every order of connecting, ending and shutting down.
  `DemandsRetireWithWorker`: `AboutToRetire` says that a demand an ended worker
  served and that is still in its loop is about to be told, by a worker thread
  that has yet to take its snapshot of the callbacks or has this one in it. That
  thread is alive until it has told all, and a new worker is started only then.
* `RequestLifecycle_proofs`, for any number of handlers, ids, places and any
  capacity. `CancelHonoured`: no acknowledged cancellation is followed by another
  unit. `OwnsItsId` (two handlers never serve one id, and a handler's id is
  active) makes the mark reach the right request; `CancelIsKnown` (an
  acknowledged id is stale or retired) covers tombstones and requests that
  arrive later. `RegistryKeepsItsSize` rests on `OwnsItsId` too: what finishes
  was active, so finishing moves an entry and needs no room. `BackgroundStaysOut`
  and `ReservedFindsTicket` share the invariant `QInv`: reservations, tickets and
  the running unit are as many as the handlers in the respective places
  (`Counted`), and each ticket belongs to another waiting foreground handler
  (`QueueOfForeground`). The second theorem is then a matter of counting: who
  asks for a ticket holds a reservation and is neither queued nor computing.
  `RefinesFairQueue` is the safety part of `FifoQueue`: under `QInv` each step of
  the dispatcher is a step of `FairQueue` on tickets and running unit, or none.
* `InferenceStream_proofs`, for any limit of events. `WorkStaysCovered`: the
  order in which the three threads exist (`Threads`), the time from admission to
  release (`Lifetime`: released means produced and closed), and where the input
  of the next step is (`HasInput`). `CompleteIsAll`: what the client has read,
  followed by the mailbox, is what the decoder made, or that with the error in
  place of the rest (`InOrder`), until the response takes an ending of its own.
  `NothingIsLeft` is the safety part of `GivenBack`: `Owned` says of each of
  token, slot, input file and entry which thread that still runs has yet to give
  it back, so when all three have ended there is nobody left to own anything.
* `SpeechRequests_proofs`, for any number of handlers and segments.
  `RefinesLifecycle` is the safety part of `ImplementsLifecycle`: a handler's
  place, unit and iterator determine its stage and duty in `RequestLifecycle`
  (`Phase` says which combinations occur), and each step of handler, generator
  or response is one lifecycle step or none. Through it the theorems of
  `RequestLifecycle_proofs` hold of TTS: `RegistryKeepsItsSize`,
  `CancelHonoured` (all units but the close of an iterator, which is meant to
  run), and `Fits`, that a reserved handler finds a ticket. From the last one
  follows `IteratorAlwaysClosed`: the close of an open iterator is never refused
  and never abandoned (`CloseIsRun`), so past the loop there is none
  (`ClosedAfterLoop`).

Every safety property of a passing run is a theorem. Only model-checked is what
needs fairness, which together with ENABLED is beyond the prover: `StandbyReached`,
`WakeReached`, `WorkerEnds`, `TransitionEnds`, `IdleModelUnloads`,
`DemandServed`, `StandbyAtLast`, `HealthyAgain`, `KnownAgain`, both
`LeaseRunsOut`, both `GivenBack`, and the fairness that the abstract
specifications of `ImplementsBackend`, `FifoQueue` and `ImplementsLifecycle`
promise.

## 5. Not modelled

* Backend: the reset counters in sysfs, hardware plugged in or out of the branch
  during a call, and a GPU bound to a foreign driver.
* Broker runtime: framing, peer credentials, the rate limit, configuration.
* Policy keeper: changes of the schedule and of daylight saving time, jumps of
  the wall clock.
* Runner: errors of `killpg`.
* Demand lease: a load that Ollama carries out after the request's client timeout.
* Speech: a `close()` of the backend's iterator that raises, and iterators without
  one.
* Service owner: the readiness endpoint of `demand_main`, which is stateless.
* The realtime transcription session and the speech gate's processor, the voice
  assistant and the Matrix bridge: programs of one event loop each, in
  TypeScript and Rust, with state of their own. They touch the modelled services
  only as clients. Four hazards listed in `PROJECT.json` are theirs and have no
  property.
* The idle check, the CLI, the CUDA probe and the media providers: they keep
  nothing beyond one call.
* Wire formats, field validation, file ownership checks, HTTP and audio data;
  the numerics of the speech gate; text preparation, recognition and synthesis;
  the device plugins' protocols; build, deployment and artifact tools. They
  share no state between actors.

## 6. Plan

Done: the manager and the backend behind it, the runner, both keepers, the
demand lease with the embedding server, the service owner, and the requests of
STT and TTS with their abstract queue; and a proof of each safety property and
of the safety part of each refinement. What is left, in this order:

1. Proofs: bounded forms of liveness properties, which are safety properties of
   the clocks: how long after `close()` a keeper's lease can be left at the
   broker (`LeaseRunsOut`), how long a stopped worker can run (`WorkerEnds`).
2. `TranscriptionSession`: turns, the serial chain, the queue limit, discard,
   input boundary, fail and close; every utterance settled exactly once, no
   transcript after a discard or a close.
3. `Playout` (generations and gates) and `VoiceSession` (open, close, stop).
4. Algorithms: the rate limit against a reference definition.
