---------------------------- MODULE MCEngineRun ----------------------------
(* Bounds for one run: a cap of one chunk so that a two-chunk stdout is    *)
(* over it, pipes that fill after one item, two stderr lines.              *)
EXTENDS EngineRun

=============================================================================
