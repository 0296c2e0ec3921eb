--------------------------- MODULE MCResultCache ---------------------------
(* Two processes, one file that takes two contents; one engine that is     *)
(* upgraded once, or two engines that are not.  Processes and contents    *)
(* are interchangeable, and no liveness is checked, so symmetry is sound.  *)
EXTENDS ResultCache, TLC

MCMaxVersion == [e \in Engines |-> IF e = "btc" THEN 2 ELSE 1]

Symmetry == Permutations(Procs) \cup Permutations(Contents)
=============================================================================
