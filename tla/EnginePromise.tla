--------------------------- MODULE EnginePromise ---------------------------
(***************************************************************************)
(* What core/engine.ts promises the callers of runEngine / runEngineInfo:  *)
(* one promise, which settles exactly once, with a result only if the      *)
(* caller had not aborted by then, and which always settles.  EngineRun is *)
(* shown to implement it; UseAnalysis relies on nothing else.              *)
(***************************************************************************)

EXTENDS EngineOutcomes

VARIABLES
  call,     \* "idle" (not called), "pending", "settled"
  aborted,  \* the caller's AbortSignal is aborted
  outcome   \* what the promise settled with, "pending" before that

promiseVars == <<call, aborted, outcome>>

PromiseTypeOK ==
  /\ call \in {"idle", "pending", "settled"}
  /\ aborted \in BOOLEAN
  /\ outcome \in Outcomes \cup {"pending"}

Init ==
  /\ call = "idle"
  /\ aborted \in BOOLEAN
  /\ outcome = "pending"

Start ==
  /\ call = "idle"
  /\ call' = "pending"
  /\ UNCHANGED <<aborted, outcome>>

(* The caller aborts, at any moment, also before the call or after the end. *)
Abort ==
  /\ ~aborted
  /\ aborted' = TRUE
  /\ UNCHANGED <<call, outcome>>

(* From "idle" when the run fails before there is a child at all. *)
Settle ==
  /\ call \in {"idle", "pending"}
  /\ call' = "settled"
  /\ outcome' \in PermittedOutcomes(aborted)
  /\ UNCHANGED aborted

Next == Start \/ Abort \/ Settle

SafeSpec == Init /\ [][Next]_promiseVars

Spec == SafeSpec /\ WF_promiseVars(Start) /\ WF_promiseVars(Settle)
=============================================================================
