------------------------ MODULE AcceleratorManagerMC ------------------------
(* A small instance of AcceleratorManager.  Time is in units of the shortest *)
(* ttl; ttls, timers and the length of a backend call are close enough for   *)
(* every order of their expiries to happen.                                  *)
EXTENDS AcceleratorManager, TLC

CONSTANTS u1, u2, t1, t2, p1

Peers == {u1, u2}
OnePeer == {u1}
TwoTokens == {t1, t2}
OneToken == {t1}
NoPolicyToken == {}
OnePolicyToken == {p1}
ShortAndLong == {1, 3}
OnlyLong == {2}

Symmetry == Permutations(Uid) \cup Permutations(Token)
=============================================================================
