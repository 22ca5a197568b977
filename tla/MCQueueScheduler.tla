-------------------------- MODULE MCQueueScheduler --------------------------
(* Instances of QueueScheduler for TLC. *)
EXTENDS QueueScheduler

CONSTANTS d1, d2

TwoDomains == {d1, d2}
=============================================================================
