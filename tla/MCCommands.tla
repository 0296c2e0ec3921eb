----------------------------- MODULE MCCommands -----------------------------
(* Two terminals, and one environment for each way of resolving a sidecar: *)
(* as installed, pinned to the btc environment with a model that runs and  *)
(* with one that does not, an explicit sidecar in a pipe, and a bundled    *)
(* mock in a terminal and in a pipe.                                       *)
EXTENDS Commands

Plain == [override |-> None, sidecar |-> FALSE, scripts |-> TRUE, tty |-> TRUE,
          btcRuns |-> TRUE, system |-> {}]

MCEnvironments ==
  {Plain,
   [Plain EXCEPT !.override = ".venv-btc"],
   [Plain EXCEPT !.override = ".venv-btc", !.btcRuns = FALSE, !.system = {"librosa"}],
   [Plain EXCEPT !.sidecar = TRUE, !.tty = FALSE],
   [Plain EXCEPT !.scripts = FALSE],
   [Plain EXCEPT !.scripts = FALSE, !.tty = FALSE]}
=============================================================================
