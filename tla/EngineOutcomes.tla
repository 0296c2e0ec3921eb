-------------------------- MODULE EngineOutcomes --------------------------
(* How a promise of core/engine.ts can settle, and what an abort forbids. *)

(* The resolutions of runEngine: an Analysis, or the engine's own error. *)
Successes == {"analysis", "engine_error"}

(* Rejections possible whether or not the caller aborted: a timeout that   *)
(* fired first, a stdout over its cap, a throwing callback, a failed spawn.*)
AnytimeFailures == {"TimeoutError", "SpawnError", "CallbackError", "BunError"}

(* Rejections that judge what the child said; an abort forestalls them. *)
Verdicts == {"UnavailableError", "ContractError"}

Outcomes == Successes \cup AnytimeFailures \cup Verdicts \cup {"AbortError"}

PermittedOutcomes(isAborted) ==
  AnytimeFailures \cup (IF isAborted THEN {"AbortError"} ELSE Successes \cup Verdicts)
=============================================================================
