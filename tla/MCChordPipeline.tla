-------------------------- MODULE MCChordPipeline --------------------------
(* Every labelling of a few frames and every duration that goes with it.   *)
(* A pipeline ends, so deadlock is not checked.                            *)
EXTENDS ChordPipeline

MCNamed == [C |-> [root |-> "C", quality |-> "maj"], Cm |-> [root |-> "C", quality |-> "min"]]
=============================================================================
