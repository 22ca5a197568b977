-------------------------- MODULE MCBlockPipeline --------------------------
(* Instances of BlockPipeline for TLC. *)
EXTENDS BlockPipeline

CONSTANTS b1, b2

TwoBuffers == {b1, b2}
=============================================================================
