---------------------------- MODULE UseAnalysis ----------------------------
(***************************************************************************)
(* The interactive app: the preview/upgrade state machine of               *)
(* hooks/useAnalysis.ts and the keys of components/App.tsx, over engine    *)
(* runs of which only the EnginePromise is known.                          *)
(*                                                                         *)
(* A step is one event the loop handles: a key, a promise that settles     *)
(* (with everything its continuation does up to the next await), a         *)
(* progress line, a React commit.  dispatch folds into state at once, but  *)
(* the handlers see "view", the last committed render.                     *)
(***************************************************************************)
EXTENDS Integers, EngineOutcomes

CONSTANTS
  Files,         \* the audio files one can pick
  Stages,        \* progress stages
  MaxRuns,       \* bound: analyze calls in one session
  BtcInstalled,  \* what the engine-info probe would find
  LateFailures,  \* rejections possible although the run was aborted first
  None

ASSUME UseAnalysisAssumption ==
  /\ MaxRuns \in Nat
  /\ BtcInstalled \in BOOLEAN
  /\ None \notin Files /\ None \notin Stages
  /\ LateFailures \subseteq AnytimeFailures

VARIABLES
  state,             \* AnalysisState, the reducer's
  mode,              \* sticky "fast" / "accurate"
  upgradeAvailable,  \* set by the probe
  appView,           \* "picker" / "results"
  view,              \* what the committed render closed over
  probe,             \* the mount probe: "pending", "settled"
  app,               \* "mounted", "destroyed" (renderer gone), "unmounted"
  runIdRef,          \* analyze calls so far; acRef holds that run's controller
  runs               \* per run: its file, leg, whether it wants btc, its signal

uiVars == <<mode, upgradeAvailable, appView, probe>>
vars == <<state, uiVars, view, app, runIdRef, runs>>

RunIds == 1..MaxRuns
Modes == {"fast", "accurate"}
Engines == {"librosa", "btc"}
Phases == {"idle", "running-preview", "done-preview", "running-upgrade", "done-upgrade",
           "cancelling", "error"}

(* An Analysis is known by the run, file and engine it came from. *)
Analyses == [run : RunIds, file : Files, engine : Engines]

ASSUME NoneAssumption == None \notin Analyses

States == [phase : Phases, file : Files \cup {None}, analysis : Analyses \cup {None},
           isPreview : BOOLEAN, stage : Stages \cup {None}, error : BOOLEAN,
           upgradeNote : BOOLEAN, runId : 0..MaxRuns]

initialAnalysisState ==
  [phase |-> "idle", file |-> None, analysis |-> None, isPreview |-> FALSE, stage |-> None,
   error |-> FALSE, upgradeNote |-> FALSE, runId |-> 0]

Runs == [file : Files \cup {None}, leg : {"none", "preview", "upgrade", "over"},
         mode : Modes, btcKnown : BOOLEAN, aborted : BOOLEAN, talking : BOOLEAN]

Views == [phase : Phases, mode : Modes, upgradeAvailable : BOOLEAN,
          appView : {"picker", "results"}]

TypeOK ==
  /\ state \in States
  /\ mode \in Modes /\ upgradeAvailable \in BOOLEAN
  /\ appView \in {"picker", "results"}
  /\ view \in Views
  /\ probe \in {"pending", "settled"}
  /\ app \in {"mounted", "destroyed", "unmounted"}
  /\ runIdRef \in 0..MaxRuns
  /\ runs \in [RunIds -> Runs]

Init ==
  /\ state = initialAnalysisState
  /\ mode = "accurate" /\ upgradeAvailable = FALSE /\ appView = "picker"
  /\ view = [phase |-> "idle", mode |-> "accurate", upgradeAvailable |-> FALSE,
             appView |-> "picker"]
  /\ probe = "pending" /\ app = "mounted"
  /\ runIdRef = 0
  /\ runs = [r \in RunIds |-> [file |-> None, leg |-> "none", mode |-> "fast",
                               btcKnown |-> FALSE, aborted |-> FALSE, talking |-> FALSE]]

-----------------------------------------------------------------------------
(* analysisReducer: each operator is one action type's case *)

isRunning(phase) == phase \in {"running-preview", "running-upgrade"}

(* Mutant: the run id of an action is not compared with the live run's. *)
LiveAlways(s, id) == TRUE

(* The stale-leg guard: actions of a superseded run are dropped. *)
Live(s, id) == id = s.runId

(* Mutant: the new run starts from what the last one left. *)
AnalyzeRequestedKeeps(id, file) ==
  [state EXCEPT !.phase = "running-preview", !.file = file, !.runId = id]

AnalyzeRequested(id, file) ==
  [initialAnalysisState EXCEPT !.phase = "running-preview", !.file = file, !.runId = id]

(* Mutant: progress is shown in whatever phase it arrives. *)
ProgressAlways(s, id, stage) == IF Live(s, id) THEN [s EXCEPT !.stage = stage] ELSE s

Progress(s, id, stage) ==
  IF Live(s, id) /\ isRunning(s.phase) THEN [s EXCEPT !.stage = stage] ELSE s

PreviewDone(s, id, analysis) ==
  IF Live(s, id) /\ s.phase = "running-preview"
  THEN [s EXCEPT !.phase = "done-preview", !.analysis = analysis, !.isPreview = TRUE,
                 !.stage = None]
  ELSE s

UpgradeStarted(s, id) ==
  IF Live(s, id) /\ s.phase = "done-preview"
  THEN [s EXCEPT !.phase = "running-upgrade", !.isPreview = TRUE, !.stage = None]
  ELSE s

(* Mutant: the preview flag is left set. *)
UpgradeDoneFlagLeft(s, id, analysis) ==
  IF Live(s, id) /\ s.phase = "running-upgrade"
  THEN [s EXCEPT !.phase = "done-upgrade", !.analysis = analysis, !.stage = None]
  ELSE s

UpgradeDone(s, id, analysis) ==
  IF Live(s, id) /\ s.phase = "running-upgrade"
  THEN [s EXCEPT !.phase = "done-upgrade", !.analysis = analysis, !.isPreview = FALSE,
                 !.stage = None]
  ELSE s

(* Mutant: the failed upgrade says nothing. *)
UpgradeFailedSilent(s, id) ==
  IF Live(s, id) /\ s.phase = "running-upgrade"
  THEN [s EXCEPT !.phase = "done-preview", !.isPreview = TRUE, !.stage = None]
  ELSE s

UpgradeFailed(s, id) ==
  IF Live(s, id) /\ s.phase = "running-upgrade"
  THEN [s EXCEPT !.phase = "done-preview", !.isPreview = TRUE, !.error = FALSE,
                 !.stage = None, !.upgradeNote = TRUE]
  ELSE s

CancelRequested(s, id) ==
  IF Live(s, id) /\ isRunning(s.phase)
  THEN [s EXCEPT !.phase = "cancelling", !.stage = None]
  ELSE s

(* Mutant: a cancelled run falls back to idle even when it has a preview. *)
AbortedDropsPreview(s, id) ==
  IF Live(s, id) THEN [initialAnalysisState EXCEPT !.runId = s.runId, !.file = s.file] ELSE s

(* Keyed on the analysis, not on the phase. *)
Aborted(s, id) ==
  IF ~Live(s, id) THEN s
  ELSE IF s.analysis = None
    THEN [initialAnalysisState EXCEPT !.runId = s.runId, !.file = s.file]
    ELSE [s EXCEPT !.phase = "done-preview", !.isPreview = TRUE, !.stage = None]

ErrorAction(s, id) ==
  IF Live(s, id) /\ s.phase = "running-preview"
  THEN [s EXCEPT !.phase = "error", !.analysis = None, !.isPreview = FALSE,
                 !.stage = None, !.error = TRUE]
  ELSE s

-----------------------------------------------------------------------------
(* The hook *)

(* acRef.current?.abort(): the latest run's controller. *)
AbortCurrent == [r \in RunIds |-> [runs[r] EXCEPT !.aborted = @ \/ r = runIdRef]]

(* Mutant: a restart leaves the previous run alone. *)
SupersedeNot == runs

(* cancel-then-restart *)
Supersede == AbortCurrent

(* analyze(file) as the committed render's closure runs it: the mode and   *)
(* upgradeAvailable it sees are that render's.                             *)
Analyze(file) ==
  /\ runIdRef < MaxRuns
  /\ runIdRef' = runIdRef + 1
  /\ runs' = [Supersede EXCEPT ![runIdRef + 1] =
                [file |-> file, leg |-> "preview", aborted |-> FALSE, talking |-> TRUE,
                 mode |-> view.mode, btcKnown |-> view.upgradeAvailable]]
  /\ state' = AnalyzeRequested(runIdRef + 1, file)

cancel ==
  /\ state' = CancelRequested(state, runIdRef)
  /\ runs' = AbortCurrent

(* The engine-info probe of the mount effect. *)
ProbeSettles ==
  /\ probe = "pending"
  /\ probe' = "settled"
  /\ \E found \in {FALSE, BtcInstalled} :
       upgradeAvailable' = IF app = "unmounted" THEN upgradeAvailable ELSE found
  /\ UNCHANGED <<state, mode, appView, view, app, runIdRef, runs>>

(* A progress event of either leg, also one read after its run was given up. *)
EngineEvent(r) ==
  /\ runs[r].talking
  /\ \E stage \in Stages : state' = Progress(state, r, stage)
  /\ UNCHANGED <<uiVars, view, app, runIdRef, runs>>

(* What a leg of run r may settle with: all the EnginePromise permits when *)
(* LateFailures is AnytimeFailures.                                        *)
MaySettleWith(r, o) ==
  /\ o \in PermittedOutcomes(runs[r].aborted)
  /\ runs[r].aborted => o \in LateFailures \cup {"AbortError"}

(* A stdout over its cap leaves stderr being read. *)
Finished(r, o) == [runs EXCEPT ![r].leg = "over", ![r].talking = (o = "SpawnError")]

(* Mutant: the preview result is not dispatched to the reducer. *)
PreviewResultLost(r) == state

(* Mutant: the error envelope is taken for an Analysis. *)
PreviewResultUnchecked(r) ==
  PreviewDone(state, r, [run |-> r, file |-> runs[r].file, engine |-> "error"])

(* What analyze's closure decided the run on, when it was called. *)
WantsUpgrade(r) == runs[r].mode = "accurate" /\ runs[r].btcKnown

PreviewResult(r) == PreviewDone(state, r, [run |-> r, file |-> runs[r].file, engine |-> "librosa"])

(* The continuation of the preview leg, up to the await of the upgrade leg. *)
PreviewSettles(r) ==
  /\ runs[r].leg = "preview"
  /\ \/ /\ MaySettleWith(r, "analysis")
        /\ IF WantsUpgrade(r) /\ ~runs[r].aborted
             THEN /\ state' = UpgradeStarted(PreviewResult(r), r)
                  /\ runs' = [runs EXCEPT ![r].leg = "upgrade"]
             ELSE /\ state' = PreviewResult(r)
                  /\ runs' = Finished(r, "analysis")
     \/ \E o \in Outcomes \ {"analysis", "AbortError"} :
          /\ MaySettleWith(r, o)
          /\ state' = ErrorAction(state, r)
          /\ runs' = Finished(r, o)
     \/ /\ MaySettleWith(r, "AbortError")
        /\ state' = Aborted(state, r)
        /\ runs' = Finished(r, "AbortError")
  /\ UNCHANGED <<uiVars, view, app, runIdRef>>

UpgradeSettles(r) ==
  /\ runs[r].leg = "upgrade"
  /\ \E o \in Outcomes :
       /\ MaySettleWith(r, o)
       /\ runs' = Finished(r, o)
       /\ state' =
            CASE o = "analysis" ->
                   UpgradeDone(state, r, [run |-> r, file |-> runs[r].file, engine |-> "btc"])
              [] o = "AbortError" -> Aborted(state, r)
              [] OTHER -> UpgradeFailed(state, r)
  /\ UNCHANGED <<uiVars, view, app, runIdRef>>

-----------------------------------------------------------------------------
(* App: keys, the picker, and React's commits *)

(* What a render of the current state closes over. *)
Rendered ==
  [phase |-> state.phase, mode |-> mode, upgradeAvailable |-> upgradeAvailable,
   appView |-> appView]

(* React renders the current state and commits it; handlers are replaced. *)
Commit ==
  /\ app # "unmounted"
  /\ view # Rendered
  /\ view' = Rendered
  /\ UNCHANGED <<state, uiVars, app, runIdRef, runs>>

(* Mutant: a run that is being cancelled still counts as running. *)
runningUntilStopped == isRunning(view.phase) \/ view.phase = "cancelling"

running == isRunning(view.phase)

Pick(file) ==
  /\ app = "mounted" /\ view.appView = "picker"
  /\ appView' = "results"
  /\ Analyze(file)
  /\ UNCHANGED <<mode, upgradeAvailable, view, probe, app>>

(* Escape cancels what is running; otherwise it leaves the current view.  *)
EscapeKey ==
  /\ app = "mounted"
  /\ IF running
       THEN cancel /\ UNCHANGED <<appView, app>>
       ELSE /\ UNCHANGED <<state, runs>>
            /\ IF view.appView = "picker"
                 THEN app' = "destroyed" /\ UNCHANGED appView
                 ELSE appView' = "picker" /\ UNCHANGED app
  /\ UNCHANGED <<mode, upgradeAvailable, view, probe, runIdRef>>

(* quit(): in both views (the picker's <input> keeps the key for itself). *)
QuitKey ==
  /\ app = "mounted"
  /\ app' = "destroyed"
  /\ IF running THEN cancel ELSE UNCHANGED <<state, runs>>
  /\ UNCHANGED <<uiVars, view, runIdRef>>

FileKey ==
  /\ app = "mounted" /\ view.appView = "results"
  /\ appView' = "picker"
  /\ UNCHANGED <<state, mode, upgradeAvailable, view, probe, app, runIdRef, runs>>

ModeKey ==
  /\ app = "mounted" /\ view.appView = "results" /\ ~running
  /\ mode' = IF mode = "accurate" THEN "fast" ELSE "accurate"
  /\ UNCHANGED <<state, upgradeAvailable, appView, view, probe, app, runIdRef, runs>>

(* Mutant: the unmount effect only drops its mounted flag. *)
UnmountAbortsNone == runs

UnmountAborts == AbortCurrent

(* The cleanup of the mount effect, some time after renderer.destroy(). *)
Unmount ==
  /\ app = "destroyed"
  /\ app' = "unmounted"
  /\ runs' = UnmountAborts
  /\ UNCHANGED <<state, uiVars, view, runIdRef>>

-----------------------------------------------------------------------------
Next ==
  \/ ProbeSettles \/ Commit
  \/ \E file \in Files : Pick(file)
  \/ EscapeKey \/ QuitKey \/ FileKey \/ ModeKey \/ Unmount
  \/ \E r \in RunIds : EngineEvent(r) \/ PreviewSettles(r) \/ UpgradeSettles(r)

(* Every engine promise settles (EngineRun), React commits, and the        *)
(* destroyed renderer unmounts its tree; the user owes nothing.            *)
Fairness ==
  /\ WF_vars(ProbeSettles) /\ WF_vars(Commit) /\ WF_vars(Unmount)
  /\ \A r \in RunIds : WF_vars(PreviewSettles(r)) /\ WF_vars(UpgradeSettles(r))

Spec == Init /\ [][Next]_vars /\ Fairness

-----------------------------------------------------------------------------
(* Safety *)

ActiveLegs == {"preview", "upgrade"}

(* The result on screen is the live run's, and of the file it names: no    *)
(* restart, late leg or cancel shows a result under another file.          *)
ShownIsLive ==
  state.analysis # None =>
    state.analysis.run = state.runId /\ state.analysis.file = state.file

(* The preview flag and the phase tell truthfully which engine's result is *)
(* shown, and a phase that promises a result has one.                      *)
TierHonest ==
  /\ state.analysis # None =>
       /\ state.isPreview <=> state.analysis.engine = "librosa"
       /\ state.phase = "done-upgrade" <=> state.analysis.engine = "btc"
  /\ state.phase \in {"done-preview", "running-upgrade", "done-upgrade"} => state.analysis # None
  /\ state.phase \in {"idle", "running-preview", "error"} => state.analysis = None

(* A progress line that arrives after its leg ended, was cancelled or was  *)
(* superseded leaves no stage behind on the status line.                   *)
StageOnlyWhileRunning == state.stage # None => isRunning(state.phase)

(* While mounted, the phase says "running" exactly when the live run has a *)
(* leg out that nobody has aborted, and names the leg.                     *)
PhaseTracksLeg ==
  \A r \in RunIds : r = runIdRef /\ app # "unmounted" =>
    /\ state.phase = "running-preview" <=> runs[r].leg = "preview" /\ ~runs[r].aborted
    /\ state.phase = "running-upgrade" <=> runs[r].leg = "upgrade" /\ ~runs[r].aborted

(* What the phase says of result, stage and leg is true.                   *)
PhaseHonest == TierHonest /\ StageOnlyWhileRunning /\ PhaseTracksLeg

(* However fast files are picked, at most one run is working unaborted. *)
SingleLiveRun ==
  \A r \in RunIds : runs[r].leg \in ActiveLegs /\ ~runs[r].aborted => r = runIdRef

(* After the unmount no engine run is left unaborted, whatever the render  *)
(* the quit key was pressed in believed to be running.                     *)
QuitAborts ==
  app = "unmounted" => \A r \in RunIds : runs[r].leg \in ActiveLegs => runs[r].aborted

(* A run that set out to upgrade and was not cancelled never rests on the  *)
(* preview without the note that says why.                                 *)
NoSilentDowngrade ==
  \A r \in RunIds :
    r = state.runId /\ WantsUpgrade(r) /\ ~runs[r].aborted /\ state.phase = "done-preview"
      => state.upgradeNote

(* "shows the instant librosa preview, then upgrades to btc if that engine *)
(* is installed": an accurate-mode run, not cancelled, does not rest on a  *)
(* bare preview once the probe has found btc.                              *)
UpgradesWhenInstalled ==
  \A r \in RunIds :
    /\ r = state.runId /\ runs[r].mode = "accurate" /\ ~runs[r].aborted
    /\ state.phase = "done-preview" /\ upgradeAvailable
    => state.upgradeNote

-----------------------------------------------------------------------------
(* Liveness *)

(* "cancel a running analysis": the app does not say "cancelling" for ever. *)
CancelEnds ==
  (app = "mounted" /\ state.phase = "cancelling")
    ~> (app # "mounted" \/ state.phase # "cancelling")

(* Escape is "a safe universal quit (or cancel, mid-run)": a user who      *)
(* keeps pressing it gets out, whatever is running, late or stuck.         *)
EscapeGetsOut == WF_vars(EscapeKey) => <>(app # "mounted")

-----------------------------------------------------------------------------
(* The one run the user sees *)

Seen == INSTANCE OneRun WITH
  file <- state.file,
  busy <- CASE state.phase = "running-preview" -> "preview"
            [] state.phase = "running-upgrade" -> "upgrade"
            [] state.phase = "cancelling" -> "stopping"
            [] OTHER -> "no",
  shown <- IF state.analysis = None THEN "nothing"
           ELSE IF state.analysis.engine = "librosa" THEN "preview" ELSE "full",
  told <- IF state.error THEN "failed" ELSE IF state.upgradeNote THEN "kept" ELSE None,
  gone <- (app = "unmounted")

(* However runs overlap, the state that is rendered behaves as that of an  *)
(* app with a single run: what a superseded or cancelled one does late is  *)
(* never seen.                                                             *)
LooksLikeOneRun == Seen!Spec
=============================================================================
