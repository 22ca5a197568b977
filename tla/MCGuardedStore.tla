--------------------------- MODULE MCGuardedStore ---------------------------
(* Instances of GuardedStore for TLC. *)
EXTENDS GuardedStore

CONSTANTS h1, h2, s1, s2

TwoHandlers == {h1, h2}
TwoHandles  == {s1, s2}
=============================================================================
