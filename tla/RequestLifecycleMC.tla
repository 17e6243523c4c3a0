-------------------------- MODULE RequestLifecycleMC --------------------------
(***************************************************************************)
(* Three handlers compete for two places, and four ids for a registry of   *)
(* three, so both bounds are reached.  Ids are interchangeable: no         *)
(* fairness condition and no temporal formula names one, each of them      *)
(* holds of a state or step exactly if it holds after any permutation of   *)
(* Id, so the quotient keeps the liveness that FifoQueue asks for.         *)
(* Handlers are named by both and are not a symmetry set.                  *)
(***************************************************************************)
EXTENDS RequestLifecycle, TLC

IdSymmetry == Permutations(Id)
=============================================================================
