---------------------------- MODULE MCStreamPool ----------------------------
(* Instances of StreamPool for TLC. *)
EXTENDS StreamPool

CONSTANTS c1, c2, c3, w1

ThreeCalls == {c1, c2, c3}
OneWorker  == {w1}
=============================================================================
