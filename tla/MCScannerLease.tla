--------------------------- MODULE MCScannerLease ---------------------------
(* Instances of ScannerLease for TLC. *)
EXTENDS ScannerLease

CONSTANTS n1, n2

TwoNodes == {n1, n2}

\* All clocks agree.
NoSkew == [n \in TwoNodes |-> 0]
=============================================================================
