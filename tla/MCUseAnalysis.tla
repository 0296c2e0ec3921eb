--------------------------- MODULE MCUseAnalysis ---------------------------
(* Two files and two runs: one to be cancelled, superseded or quit, and one *)
(* that must not be disturbed by it.                                        *)
EXTENDS UseAnalysis

=============================================================================
