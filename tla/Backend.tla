-------------------------------- MODULE Backend --------------------------------
(***************************************************************************)
(* What AcceleratorManager may expect of its backend (AcceleratorBackend   *)
(* in services/accelerator/.../broker.py): ensure_ready and power_off take *)
(* time, may be refused or fail and leave the hardware in any state, but a *)
(* good answer tells the truth, nobody loses a device in use, and a call   *)
(* returns: the manager holds its lock meanwhile.                          *)
(***************************************************************************)
VARIABLES
  hw,      \* "ready", "off", or "other": anything in between
  inUse,   \* some process has the device open
  call,    \* "none", "ensure" or "off"
  result   \* of the last call: "none", "ok", "busy" or "failed"

vars == <<hw, inUse, call, result>>

Init ==
  /\ hw \in {"ready", "off", "other"} /\ inUse = FALSE
  /\ call = "none" /\ result = "none"

Begin ==
  /\ call = "none" /\ call' \in {"ensure", "off"} /\ result' = "none"
  /\ UNCHANGED <<hw, inUse>>

\* A call at work: the device goes off only when nobody uses it.
Work ==
  /\ call # "none"
  /\ hw' \in {"ready", "off", "other"}
  /\ hw' = "off" => ~inUse
  /\ UNCHANGED <<inUse, call, result>>

Promised == [ensure |-> "ready", off |-> "off"]
Return ==
  /\ call # "none" /\ call' = "none"
  /\ result' \in {"ok", "busy", "failed"}
  /\ result' = "ok" => hw = Promised[call]
  /\ UNCHANGED <<hw, inUse>>

Use == hw # "off" /\ inUse' \in BOOLEAN /\ UNCHANGED <<hw, call, result>>

\* The hardware may fail by itself; it vanishes only between two calls.
Fail ==
  /\ hw' \in {"other"} \cup (IF call = "none" THEN {"off"} ELSE {})
  /\ inUse' = FALSE
  /\ UNCHANGED <<call, result>>

Next == Begin \/ Work \/ Return \/ Use \/ Fail
Spec == Init /\ [][Next]_vars /\ WF_vars(Return)
=============================================================================
