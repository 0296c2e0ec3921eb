------------------------------ MODULE MCScreen ------------------------------
(* Two files and two runs, so that a result can be replaced by another run *)
(* while the picker is open; a mock, so that the badge has to appear.      *)
EXTENDS Screen

=============================================================================
