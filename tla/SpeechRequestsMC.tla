--------------------------- MODULE SpeechRequestsMC ---------------------------
(***************************************************************************)
(* Two requests, whole or streamed, share the worker and a registry of two *)
(* entries; a backend may render one segment more than the text has.  As   *)
(* in RequestLifecycleMC ids are interchangeable, handlers are not: they   *)
(* are named by the fairness and by GivenBack.                             *)
(***************************************************************************)
EXTENDS SpeechRequests, TLC

IdSymmetry == Permutations(Id)
=============================================================================
