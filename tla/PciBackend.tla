------------------------------ MODULE PciBackend ------------------------------
(***************************************************************************)
(* The privileged steps behind the accelerator: LinuxPciNvidiaBackend of   *)
(* services/accelerator/.../broker.py.  ensure_ready identifies the root   *)
(* port, resets a stranded topology, waits for the devices, loads modules, *)
(* binds drivers, starts the persistence service and asks the GPU;         *)
(* power_off stops the service, unbinds, unloads and removes the branch,   *)
(* and calls ensure_ready when a step of it fails.                         *)
(*                                                                         *)
(* One action is one command or sysfs access; other processes open and     *)
(* close the device between any two of them.  Commands and writes may fail *)
(* (each Raise below).  A deadline may pass at any turn of the loop that   *)
(* watches it.  The manager holds its lock through a call, so there is one *)
(* call at a time.                                                         *)
(*                                                                         *)
(* The kernel is modelled as these steps use it: a module in use or needed *)
(* by a loaded one cannot be unloaded; only a loaded nvidia module binds   *)
(* the GPU; the device can be opened only while the GPU is bound; removing *)
(* a branch takes all its devices away, whoever uses them.  Hardware added *)
(* to the branch, or pulled out, during a call is left out.                *)
(***************************************************************************)
EXTENDS Integers, Sequences

CONSTANT Client   \* other processes that use /dev/nvidia*

VARIABLES
  present,     \* the nodes of the branch on the bus
  foreign,     \* the branch holds a device the configuration does not name
  gpu, audio,  \* the drivers of both functions, "" if unbound
  loaded,      \* how many of Modules are loaded, in their order
  persistence, \* the persistence service runs; it has the device open
  clients,     \* other processes that have it open
  uvm,         \* those of them that use nvidia_uvm too
  call,        \* the call in progress
  pc,          \* its next step
  step,        \* the next module to load or unload
  stable,      \* _wait_for_devices has seen the topology valid
  probed,      \* the probe the call looked at
  error,       \* power_off: the error to be raised after recovery
  result       \* how the last call ended

hardware == <<present, foreign, gpu, audio, loaded, persistence>>
users    == <<clients, uvm>>
control  == <<call, pc, step, stable, probed, error, result>>
pciVars == <<hardware, users, control>>

Nodes == {"branch", "gpu", "audio"}
Modules == <<"nvidia", "nvidia_modeset", "nvidia_drm", "nvidia_uvm">>

Off == present = {}
Ready == present = Nodes /\ gpu = "nvidia" /\ audio = "snd_hda_intel"

\* _validate_topology, and _client_names: the service's own name included.
ValidTopology == present = Nodes /\ ~foreign
AnyClient == persistence \/ clients # {}

\* probe: what the callers look at later.
Probe == [stranded |-> present = Nodes /\ gpu # "nvidia" /\ audio = "snd_hda_intel",
          blocking |-> clients # {}]
NoProbe == [stranded |-> FALSE, blocking |-> FALSE]

PciInit ==
  /\ \/ present = Nodes /\ audio = "snd_hda_intel"
        /\ \/ gpu = "nvidia" /\ loaded = Len(Modules) /\ persistence \in BOOLEAN
           \/ gpu = "" /\ loaded \in 0..Len(Modules) /\ persistence = FALSE
     \/ present \in {{}, {"branch"}} /\ gpu = "" /\ audio = "" /\ loaded = 0
        /\ persistence = FALSE
  /\ foreign \in BOOLEAN
  /\ clients = {} /\ uvm = {}
  /\ call = "none" /\ pc = "none" /\ step = 0 /\ stable = FALSE
  /\ probed = NoProbe /\ error = "none" /\ result = "none"

-----------------------------------------------------------------------------
\* The environment.
Opens(c) ==
  /\ c \notin clients /\ gpu = "nvidia"
  /\ clients' = clients \cup {c}
  /\ uvm' \in {uvm} \cup (IF loaded = Len(Modules) THEN {uvm \cup {c}} ELSE {})
  /\ UNCHANGED <<hardware, control>>

Closes(c) ==
  /\ c \in clients
  /\ clients' = clients \ {c} /\ uvm' = uvm \ {c}
  /\ UNCHANGED <<hardware, control>>

\* The GPU falls off its driver, or between two calls the cable is pulled.
Fails ==
  /\ gpu = "nvidia"
  /\ gpu' = "" /\ clients' = {} /\ uvm' = {}
  /\ \/ UNCHANGED <<present, audio>>
     \/ call = "none" /\ present' = {} /\ audio' = ""
  /\ persistence' = FALSE
  /\ UNCHANGED <<foreign, loaded, control>>

-----------------------------------------------------------------------------
\* How a call goes on, and how it ends.
To(place) == pc' = place /\ UNCHANGED <<call, step, stable, probed, error, result>>
ToModule(place, m) ==
  pc' = place /\ step' = m /\ UNCHANGED <<call, stable, probed, error, result>>

Recovering == call = "off" /\ error # "none"
Return(outcome) ==
  /\ call' = "none" /\ pc' = "none" /\ step' = 0 /\ stable' = FALSE
  /\ probed' = NoProbe /\ error' = "none" /\ result' = outcome

\* An exception: out of ensure_ready, swallowed by power_off's recovery, or
\* the start of that recovery.
Raise(kind) ==
  IF call = "ensure" THEN Return(kind)
  ELSE IF Recovering THEN Return(error)
  ELSE /\ pc' = "identify" /\ error' = kind /\ step' = 0
       /\ UNCHANGED <<call, stable, probed, result>>

Untouched == UNCHANGED <<hardware, users>>

Begin(k) ==
  /\ call = "none"
  /\ call' = k /\ pc' = (IF k = "ensure" THEN "identify" ELSE "look")
  /\ result' = "none"
  /\ UNCHANGED <<step, stable, probed, error>> /\ Untouched

\* ensure_ready: the root port, a probe, and whether the topology is stranded.
Identify ==
  /\ pc = "identify"
  /\ \/ Raise("failed")
     \/ pc' = "judge" /\ probed' = Probe /\ UNCHANGED <<call, step, stable, error, result>>
  /\ Untouched

Judge ==
  /\ pc = "judge"
  /\ IF ~probed.stranded THEN To("enumerate")
     ELSE IF probed.blocking THEN Raise("busy")
     ELSE To("validate")
  /\ Untouched

\* power_off: a probe and the first refusals, before anything is touched.
Look ==
  /\ pc = "look"
  /\ IF clients # {} THEN Return("busy") ELSE To("validate")
  /\ Untouched

-----------------------------------------------------------------------------
\* The steps that power_off and the reset of a stranded topology share.
Resetting == call = "ensure" \/ Recovering

ValidateSkipped == pc = "validate" /\ To("stop") /\ Untouched
Validate ==
  /\ pc = "validate"
  /\ IF ValidTopology THEN To("stop")
     ELSE IF Resetting THEN Raise("failed") ELSE Return("failed")
  /\ Untouched

StopService ==
  /\ pc = "stop"
  /\ \/ Raise("failed") /\ UNCHANGED persistence
     \/ To("clients") /\ persistence' = FALSE
  /\ UNCHANGED <<present, foreign, gpu, audio, loaded, users>>

LookAgain ==
  /\ pc = "clients"
  /\ IF AnyClient THEN Raise("busy") ELSE To("unbind")
  /\ Untouched

UnbindAudio ==
  /\ pc = "unbind"
  /\ \/ Raise("failed") /\ UNCHANGED audio
     \/ ToModule("unload", Len(Modules)) /\ audio' = ""
  /\ UNCHANGED <<present, foreign, gpu, loaded, persistence, users>>

\* modprobe -r: power_off checks it, the reset goes on whatever it returned.
InUse(m) == \/ Modules[m] = "nvidia" /\ AnyClient
            \/ Modules[m] = "nvidia_uvm" /\ uvm # {}
Unloadable(m) == loaded <= m /\ (loaded = m => ~InUse(m))
UnloadUnchecked(m) == FALSE
MustUnload(m) == ~Resetting

Unload ==
  /\ pc = "unload"
  /\ \/ /\ Unloadable(step)
        /\ loaded' = IF loaded = step THEN step - 1 ELSE loaded
        /\ gpu' = IF loaded' = 0 THEN "" ELSE gpu
        /\ IF step = 1 THEN ToModule("remove", 0) ELSE ToModule("unload", step - 1)
     \/ /\ ~MustUnload(step)
        /\ IF step = 1 THEN ToModule("remove", 0) ELSE ToModule("unload", step - 1)
        /\ UNCHANGED <<gpu, loaded>>
     \/ /\ Raise("failed")
        /\ UNCHANGED <<gpu, loaded>>
  /\ UNCHANGED <<present, foreign, audio, persistence, users>>

\* The branch's remove file: not there, not written, without effect, or all
\* devices go.
Remove ==
  /\ pc = "remove"
  /\ \/ Raise("failed") /\ UNCHANGED <<present, gpu, audio, users>>
     \/ "branch" \in present /\ To("gone") /\ UNCHANGED <<present, gpu, audio, users>>
     \/ /\ "branch" \in present /\ To("gone")
        /\ present' = {} /\ gpu' = "" /\ audio' = "" /\ clients' = {} /\ uvm' = {}
  /\ UNCHANGED <<foreign, loaded, persistence>>

Gone ==
  /\ pc = "gone"
  /\ IF ~Off THEN Raise("failed")
     ELSE IF Resetting THEN To("enumerate") ELSE Return("ok")
  /\ Untouched

-----------------------------------------------------------------------------
\* _wait_for_devices: seen valid twice with nothing wrong in between, or a
\* rescan, or the end of its time.
Enumerate ==
  /\ pc = "enumerate"
  /\ \/ /\ {"gpu", "audio"} \subseteq present /\ ValidTopology
        /\ IF stable THEN /\ pc' = "load" /\ step' = 1 /\ stable' = FALSE
                          /\ UNCHANGED <<call, probed, error, result>>
                     ELSE /\ stable' = TRUE
                          /\ UNCHANGED <<call, pc, step, probed, error, result>>
        /\ UNCHANGED <<present, gpu, audio>>
     \/ /\ ~({"gpu", "audio"} \subseteq present)
        /\ present' \in {p \in SUBSET Nodes : present \subseteq p /\ (p # {} => "branch" \in p)}
        /\ stable' = FALSE
        /\ UNCHANGED <<gpu, audio, call, pc, step, probed, error, result>>
     \/ Raise("failed") /\ UNCHANGED <<present, gpu, audio>>
  /\ UNCHANGED <<foreign, loaded, persistence, users>>

\* modprobe; a freshly loaded nvidia may bind the GPU by itself.
LoadModule ==
  /\ pc = "load"
  /\ \/ Raise("failed") /\ UNCHANGED <<gpu, loaded>>
     \/ /\ loaded' = IF loaded < step THEN step ELSE loaded
        /\ gpu' \in {gpu} \cup (IF loaded = 0 THEN {"nvidia"} ELSE {})
        /\ IF step = Len(Modules) THEN ToModule("bind", 0) ELSE ToModule("load", step + 1)
  /\ UNCHANGED <<present, foreign, audio, persistence, users>>

\* _bind_if_needed, for the GPU and for its audio function.
BindGpu ==
  /\ pc = "bind"
  /\ \/ Raise("failed") /\ UNCHANGED gpu
     \/ To("bindAudio") /\ gpu' = "nvidia"
  /\ UNCHANGED <<present, foreign, audio, loaded, persistence, users>>

BindAudio ==
  /\ pc = "bindAudio"
  /\ \/ Raise("failed") /\ UNCHANGED audio
     \/ To("start") /\ audio' = "snd_hda_intel"
  /\ UNCHANGED <<present, foreign, gpu, loaded, persistence, users>>

StartService ==
  /\ pc = "start"
  /\ \/ Raise("failed") /\ UNCHANGED persistence
     \/ To("query") /\ persistence' = TRUE
  /\ UNCHANGED <<present, foreign, gpu, audio, loaded, users>>

\* nvidia-smi and the CUDA probe, again until both succeed in one turn.
Query ==
  /\ pc = "query"
  /\ To("final") \/ Raise("failed")
  /\ Untouched

BelievedReady == TRUE
FinallyReady == Ready
Final ==
  /\ pc = "final"
  /\ IF ~FinallyReady THEN Raise("failed")
     ELSE IF Recovering THEN Return(error) ELSE Return("ok")
  /\ Untouched

-----------------------------------------------------------------------------
EnsureReady == Identify \/ Judge \/ Enumerate \/ LoadModule \/ BindGpu \/ BindAudio
                 \/ StartService \/ Query \/ Final
Detach == Look \/ Validate \/ StopService \/ LookAgain \/ UnbindAudio \/ Unload
            \/ Remove \/ Gone
PciEnvironment == Fails \/ \E c \in Client : Opens(c) \/ Closes(c)
PciNext == EnsureReady \/ Detach \/ PciEnvironment \/ \E k \in {"ensure", "off"} : Begin(k)

PciSpec == PciInit /\ [][PciNext]_pciVars

\* Every command has a timeout and every loop a deadline.
PciFairSpec == PciSpec /\ WF_pciVars(EnsureReady \/ Detach)

-----------------------------------------------------------------------------
\* The manager's expectation: a good answer of ensure_ready or power_off is
\* true, and the branch never goes while a process other than the persistence
\* service has the device open, even one that opened it after both looks at
\* the clients: then its module cannot be unloaded.  Whatever fails in a call
\* and in its recovery, it comes to its end.
Promise == INSTANCE Backend WITH
  hw <- IF Ready THEN "ready" ELSE IF Off THEN "off" ELSE "other",
  inUse <- clients # {}
ImplementsBackend == Promise!Spec

\* The branch is removed only if its inventory is the configured one: a device
\* nobody named (a disk, a network card) is never taken away with it.
ProtectedUntouched == [][pc = "remove" /\ ~Off /\ Off' => ~foreign]_pciVars
=============================================================================
