--------------------------- MODULE MCAccountOpen ---------------------------
(* Instances of AccountOpen for TLC. *)
EXTENDS AccountOpen, TLC

CONSTANTS n1, n2, c1, c2, c3

TwoNodes   == {n1, n2}
ThreeCalls == {c1, c2, c3}
ThreeBoxes == 1 .. 3
Inboxes    == {1}
TwoOnOne   == c1 :> n1 @@ c2 :> n1 @@ c3 :> n2

\* A standard folder to add, a counter that lags behind a message, and one
\* ahead of a message deleted.
OnePast ==
    {<<[used |-> FALSE, uids |-> {},  counter |-> 0],
       [used |-> TRUE,  uids |-> {1}, counter |-> 1],
       [used |-> TRUE,  uids |-> {},  counter |-> 2]>>}
=============================================================================
