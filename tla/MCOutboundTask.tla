--------------------------- MODULE MCOutboundTask ---------------------------
(* Instances of OutboundTask for TLC. *)
EXTENDS OutboundTask

CONSTANTS w1, w2

TwoWorkers == {w1, w2}

\* The clocks agree, or that of w2 runs ahead.
TwoAhead == {[w \in TwoWorkers |-> IF w = w2 THEN d ELSE 0] : d \in {0, 2}}
=============================================================================
