------------------------------- MODULE OneRun -------------------------------
(***************************************************************************)
(* What the interactive app promises whoever looks at it: as if there were *)
(* one run at a time and no late answers.  A pick replaces everything, the *)
(* preview comes first, a better result may follow, and whatever goes      *)
(* wrong after the preview leaves it on the screen.  UseAnalysis, with its *)
(* superseded runs, stale closures and legs that settle after they were    *)
(* cancelled, is shown to implement it.                                    *)
(***************************************************************************)
CONSTANTS Files, None

VARIABLES
  file,   \* what is being, or was, analysed
  busy,   \* "no", "preview", "upgrade", "stopping"
  shown,  \* "nothing", "preview", "full"
  told,   \* what the user is told went wrong: None, "failed", "kept"
  gone    \* the user has left

screenVars == <<file, busy, shown, told, gone>>

Init == file = None /\ busy = "no" /\ shown = "nothing" /\ told = None /\ gone = FALSE

Pick(f) ==
  /\ ~gone
  /\ file' = f /\ busy' = "preview" /\ shown' = "nothing" /\ told' = None
  /\ UNCHANGED gone

(* The preview is all, or the upgrade goes on behind it. *)
Previewed ==
  /\ busy = "preview"
  /\ shown' = "preview" /\ busy' \in {"no", "upgrade"}
  /\ UNCHANGED <<file, told, gone>>

Upgraded ==
  /\ busy = "upgrade"
  /\ shown' = "full" /\ busy' = "no"
  /\ UNCHANGED <<file, told, gone>>

(* A failed preview is an error, a failed upgrade a note. *)
Failed ==
  /\ busy \in {"preview", "upgrade"}
  /\ busy' = "no" /\ told' = IF busy = "preview" THEN "failed" ELSE "kept"
  /\ UNCHANGED <<file, shown, gone>>

Cancel ==
  /\ busy \in {"preview", "upgrade"}
  /\ busy' = "stopping"
  /\ UNCHANGED <<file, shown, told, gone>>

(* Stopped because the user asked for it or left; what was shown stays. *)
Stopped ==
  /\ busy = "stopping" \/ (busy # "no" /\ gone)
  /\ busy' = "no"
  /\ UNCHANGED <<file, shown, told, gone>>

Leave == gone' = TRUE /\ UNCHANGED <<file, busy, shown, told>>

Settle == Previewed \/ Upgraded \/ Failed \/ (busy # "stopping" /\ Stopped)

Next == (\E f \in Files : Pick(f)) \/ Settle \/ Cancel \/ Stopped \/ Leave

SafeSpec == Init /\ [][Next]_screenVars

(* A run that nobody cancelled does not stay busy.  Of one that is being   *)
(* stopped the code promises less: UseAnalysis.CancelEnds.                 *)
Spec == SafeSpec /\ WF_screenVars(Settle)
=============================================================================
