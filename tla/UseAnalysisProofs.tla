------------------------- MODULE UseAnalysisProofs -------------------------
(***************************************************************************)
(* For any number of runs, files and stages: the safety invariants of      *)
(* UseAnalysis, that it looks like OneRun, and that the frames of Screen   *)
(* do not contradict themselves.                                           *)
(***************************************************************************)
EXTENDS Screen, TLAPS

USE UseAnalysisAssumption, NoneAssumption DEF Phases, Modes, Engines, ActiveLegs

-----------------------------------------------------------------------------
(* Types *)

(* An abort changes nothing of the runs but their signals. *)
LEMMA AbortTypes ==
  ASSUME TypeOK
  PROVE  AbortCurrent \in [RunIds -> Runs]
<1>1. \A r \in RunIds : runs[r] \in Runs
  BY DEF TypeOK
<1>2. \A r \in RunIds : [runs[r] EXCEPT !.aborted = @ \/ r = runIdRef] \in Runs
  BY <1>1 DEF Runs
<1> QED
  BY <1>2 DEF AbortCurrent

(* A run that settles is over. *)
LEMMA FinishedTypes ==
  ASSUME TypeOK, NEW r \in RunIds, NEW o
  PROVE  Finished(r, o) \in [RunIds -> Runs]
<1>1. runs \in [RunIds -> Runs] /\ runs[r] \in Runs
  BY DEF TypeOK
<1>2. [runs[r] EXCEPT !.leg = "over", !.talking = (o = "SpawnError")] \in Runs
  BY <1>1 DEF Runs
<1> QED
  BY <1>1, <1>2 DEF Finished

(* What a leg answers is an Analysis of its own run and file. *)
LEMMA AnswerTypes ==
  ASSUME TypeOK, NEW r \in RunIds, NEW e \in Engines, runs[r].file \in Files
  PROVE  [run |-> r, file |-> runs[r].file, engine |-> e] \in Analyses
  BY DEF Analyses

(* The reducer and the refs agree on the live run and its file. *)
RunsInv ==
  /\ state.runId = runIdRef
  /\ \A r \in RunIds :
       /\ runs[r].leg # "none" => runs[r].file \in Files
       /\ r > runIdRef => runs[r].leg = "none"
       /\ r = runIdRef => runs[r].file = state.file

LEMMA TypeStep == TypeOK /\ RunsInv /\ [Next]_vars => TypeOK'
<1> SUFFICES ASSUME TypeOK, RunsInv, [Next]_vars PROVE TypeOK'
  OBVIOUS
<1>1. CASE ProbeSettles
  BY <1>1 DEF TypeOK, ProbeSettles
<1>2. CASE Commit
  <2>1. Rendered \in Views
    <3>1. state.phase \in Phases
      BY DEF TypeOK, States
    <3> QED
      BY <3>1 DEF TypeOK, Rendered, Views
  <2> QED
    BY <1>2, <2>1 DEF TypeOK, Commit, uiVars
<1>3. ASSUME NEW file \in Files, Pick(file) PROVE TypeOK'
  <2>1. runIdRef + 1 \in RunIds /\ runIdRef + 1 \in 0..MaxRuns
    BY <1>3 DEF Pick, Analyze, RunIds, TypeOK
  <2>2. state' \in States
    BY <1>3, <2>1 DEF Pick, Analyze, AnalyzeRequested, initialAnalysisState, States
  <2>3. [file |-> file, leg |-> "preview", aborted |-> FALSE, talking |-> TRUE,
         mode |-> view.mode, btcKnown |-> view.upgradeAvailable] \in Runs
    BY <1>3 DEF TypeOK, Views, Runs
  <2>4. runs' \in [RunIds -> Runs]
    BY <1>3, <2>1, <2>3, AbortTypes DEF Pick, Analyze, Supersede
  <2> QED
    BY <1>3, <2>1, <2>2, <2>4 DEF Pick, Analyze, TypeOK
<1>4. ASSUME cancel PROVE state' \in States /\ runs' \in [RunIds -> Runs]
  <2>1. CancelRequested(state, runIdRef) \in States
    BY DEF TypeOK, CancelRequested, States
  <2> QED
    BY <1>4, <2>1, AbortTypes DEF cancel
<1>5. CASE EscapeKey
  BY <1>4, <1>5 DEF EscapeKey, TypeOK
<1>6. CASE QuitKey
  BY <1>4, <1>6 DEF QuitKey, TypeOK, uiVars
<1>7. CASE FileKey
  BY <1>7 DEF FileKey, TypeOK
<1>8. CASE ModeKey
  BY <1>8 DEF ModeKey, TypeOK
<1>9. CASE Unmount
  BY <1>9, AbortTypes DEF Unmount, UnmountAborts, TypeOK, uiVars
<1>10. ASSUME NEW r \in RunIds, EngineEvent(r) PROVE TypeOK'
  <2>1. state' \in States
    BY <1>10 DEF EngineEvent, Progress, TypeOK, States
  <2> QED
    BY <1>10, <2>1 DEF EngineEvent, TypeOK, uiVars
<1>11. ASSUME NEW r \in RunIds, PreviewSettles(r) PROVE TypeOK'
  <2>1. runs[r].file \in Files
    BY <1>11 DEF PreviewSettles, RunsInv
  <2>2. /\ PreviewResult(r) \in States
        /\ UpgradeStarted(PreviewResult(r), r) \in States
        /\ ErrorAction(state, r) \in States
        /\ Aborted(state, r) \in States
    <3>1. PreviewResult(r) \in States
      BY <2>1, AnswerTypes DEF PreviewResult, PreviewDone, TypeOK, States
    <3>2. UpgradeStarted(PreviewResult(r), r) \in States
      BY <3>1 DEF UpgradeStarted, States
    <3>3. ErrorAction(state, r) \in States
      BY DEF TypeOK, ErrorAction, States
    <3>4. Aborted(state, r) \in States
      BY DEF TypeOK, Aborted, initialAnalysisState, States
    <3> QED
      BY <3>1, <3>2, <3>3, <3>4
  <2>3. [runs EXCEPT ![r].leg = "upgrade"] \in [RunIds -> Runs]
    BY DEF TypeOK, Runs
  <2>4. state' \in States /\ runs' \in [RunIds -> Runs]
    BY <1>11, <2>2, <2>3, FinishedTypes DEF PreviewSettles
  <2> QED
    BY <1>11, <2>4 DEF PreviewSettles, TypeOK, uiVars
<1>12. ASSUME NEW r \in RunIds, UpgradeSettles(r) PROVE TypeOK'
  <2>1. runs[r].file \in Files
    BY <1>12 DEF UpgradeSettles, RunsInv
  <2>2. UpgradeDone(state, r, [run |-> r, file |-> runs[r].file, engine |-> "btc"]) \in States
    BY <2>1, AnswerTypes DEF UpgradeDone, TypeOK, States
  <2>3. Aborted(state, r) \in States /\ UpgradeFailed(state, r) \in States
    BY DEF TypeOK, Aborted, UpgradeFailed, initialAnalysisState, States
  <2>4. state' \in States /\ runs' \in [RunIds -> Runs]
    BY <1>12, <2>2, <2>3, FinishedTypes DEF UpgradeSettles
  <2> QED
    BY <1>12, <2>4 DEF UpgradeSettles, TypeOK, uiVars
<1>13. CASE UNCHANGED vars
  BY <1>13 DEF TypeOK, vars, uiVars
<1> QED
  BY <1>1, <1>2, <1>3, <1>5, <1>6, <1>7, <1>8, <1>9, <1>10, <1>11, <1>12, <1>13 DEF Next

-----------------------------------------------------------------------------
(* The invariant *)

(* A leg that is out belongs to a phase that waits for it: what it settles *)
(* with finds the reducer where it was when the leg set out, or cancelling. *)
LegInv ==
  \A r \in RunIds : r = runIdRef =>
    /\ runs[r].leg = "preview" =>
         state.phase \in {"running-preview", "cancelling"} /\ state.analysis = None
    /\ runs[r].leg = "upgrade" => state.phase \in {"running-upgrade", "cancelling"}

HookInv ==
  /\ RunsInv /\ LegInv
  /\ ShownIsLive /\ PhaseHonest /\ SingleLiveRun /\ QuitAborts /\ NoSilentDowngrade

USE DEF PhaseHonest, isRunning

hookVars == <<state, runs, runIdRef, app>>

LEMMA HookInit == Init => TypeOK /\ HookInv
<1> SUFFICES ASSUME Init PROVE TypeOK /\ HookInv
  OBVIOUS
<1>1. TypeOK
  <2>1. initialAnalysisState \in States
    <3>1. 0 \in 0..MaxRuns
      OBVIOUS
    <3> QED
      BY <3>1 DEF initialAnalysisState, States
  <2>2. view \in Views
    BY DEF Init, Views
  <2>3. runs \in [RunIds -> Runs]
    BY DEF Init, Runs
  <2> QED
    BY <2>1, <2>2, <2>3, 0 \in 0..MaxRuns DEF Init, TypeOK
<1>2. HookInv
  BY DEF Init, HookInv, RunsInv, LegInv, ShownIsLive, TierHonest, StageOnlyWhileRunning,
     PhaseTracksLeg, SingleLiveRun, QuitAborts, NoSilentDowngrade, initialAnalysisState, RunIds
<1> QED
  BY <1>1, <1>2

(* What aborting the current controller does to each run. *)
LEMMA AbortEffect ==
  ASSUME TypeOK, NEW r \in RunIds
  PROVE  /\ AbortCurrent[r].leg = runs[r].leg /\ AbortCurrent[r].file = runs[r].file
         /\ AbortCurrent[r].mode = runs[r].mode /\ AbortCurrent[r].btcKnown = runs[r].btcKnown
         /\ AbortCurrent[r].aborted <=> runs[r].aborted \/ r = runIdRef
<1>1. runs[r] \in Runs
  BY DEF TypeOK
<1>2. AbortCurrent[r] = [runs[r] EXCEPT !.aborted = @ \/ r = runIdRef]
  BY DEF AbortCurrent
<1> QED
  BY <1>1, <1>2 DEF Runs

LEMMA HookUntouched ==
  ASSUME TypeOK, HookInv, UNCHANGED hookVars
  PROVE  HookInv'
  BY DEF hookVars, HookInv, RunsInv, LegInv, ShownIsLive, TierHonest, StageOnlyWhileRunning,
     PhaseTracksLeg, SingleLiveRun, QuitAborts, NoSilentDowngrade, WantsUpgrade

(* A pick aborts its predecessor and starts from nothing. *)
LEMMA HookPick ==
  ASSUME TypeOK, HookInv, NEW file \in Files, Pick(file)
  PROVE  HookInv'
<1>1. /\ runIdRef + 1 \in RunIds /\ runIdRef \in Nat
      /\ runIdRef' = runIdRef + 1
      /\ app' = app /\ app = "mounted"
  BY DEF Pick, Analyze, TypeOK, RunIds
<1>2. state' = [initialAnalysisState EXCEPT !.phase = "running-preview", !.file = file,
                                           !.runId = runIdRef + 1]
  BY DEF Pick, Analyze, AnalyzeRequested
<1>3. runs'[runIdRef + 1].leg = "preview" /\ ~runs'[runIdRef + 1].aborted
      /\ runs'[runIdRef + 1].file = file
  BY <1>1, AbortTypes DEF Pick, Analyze, Supersede
<1>4. ASSUME NEW r \in RunIds, r # runIdRef + 1
      PROVE  runs'[r].leg = runs[r].leg /\ runs'[r].file = runs[r].file
             /\ (runs'[r].aborted <=> runs[r].aborted \/ r = runIdRef)
  <2>1. runs'[r] = AbortCurrent[r]
    BY <1>1, <1>4, AbortTypes DEF Pick, Analyze, Supersede
  <2> QED
    BY <2>1, AbortEffect
<1>5. RunsInv'
  BY <1>1, <1>2, <1>3, <1>4 DEF HookInv, RunsInv, initialAnalysisState, RunIds
<1>6. LegInv' /\ PhaseTracksLeg'
  BY <1>1, <1>2, <1>3 DEF LegInv, PhaseTracksLeg, initialAnalysisState
<1>7. ShownIsLive' /\ TierHonest' /\ StageOnlyWhileRunning' /\ NoSilentDowngrade'
  BY <1>2 DEF ShownIsLive, TierHonest, StageOnlyWhileRunning, NoSilentDowngrade,
     initialAnalysisState
<1>8. SingleLiveRun' /\ QuitAborts'
  BY <1>1, <1>3, <1>4 DEF HookInv, RunsInv, SingleLiveRun, QuitAborts, RunIds
<1> QED
  BY <1>5, <1>6, <1>7, <1>8 DEF HookInv

(* A cancel reaches the reducer and the signal of the same run. *)
LEMMA HookCancel ==
  ASSUME TypeOK, HookInv, cancel, runIdRef' = runIdRef, app \in {"mounted", app'}, app' # "unmounted"
  PROVE  HookInv'
<1> USE DEF CancelRequested, Live
<1>1. ASSUME NEW r \in RunIds
      PROVE  /\ runs'[r].leg = runs[r].leg /\ runs'[r].file = runs[r].file
             /\ runs'[r].mode = runs[r].mode /\ runs'[r].btcKnown = runs[r].btcKnown
             /\ runs'[r].aborted <=> runs[r].aborted \/ r = runIdRef
  BY <1>1, AbortEffect DEF cancel
<1>2. state \in States /\ state.runId = runIdRef /\ app # "unmounted"
  BY DEF TypeOK, HookInv, RunsInv
<1>3. state' = IF isRunning(state.phase)
               THEN [state EXCEPT !.phase = "cancelling", !.stage = None] ELSE state
  BY <1>2 DEF cancel
<1>4. RunsInv'
  BY <1>1, <1>2, <1>3 DEF HookInv, RunsInv, States
<1>5. LegInv' /\ PhaseTracksLeg'
  BY <1>1, <1>2, <1>3 DEF HookInv, LegInv, PhaseTracksLeg, States
<1>6. ShownIsLive' /\ TierHonest' /\ StageOnlyWhileRunning'
  BY <1>2, <1>3 DEF HookInv, ShownIsLive, TierHonest, StageOnlyWhileRunning, States
<1>7. SingleLiveRun' /\ QuitAborts'
  BY <1>1 DEF HookInv, SingleLiveRun, QuitAborts
<1>8. NoSilentDowngrade'
  BY <1>1, <1>2, <1>3 DEF HookInv, NoSilentDowngrade, WantsUpgrade, States
<1> QED
  BY <1>4, <1>5, <1>6, <1>7, <1>8 DEF HookInv

(* The unmount aborts the one run that could be left unaborted. *)
LEMMA HookUnmount ==
  ASSUME TypeOK, HookInv, Unmount
  PROVE  HookInv'
<1>1. ASSUME NEW r \in RunIds
      PROVE  /\ runs'[r].leg = runs[r].leg /\ runs'[r].file = runs[r].file
             /\ runs'[r].mode = runs[r].mode /\ runs'[r].btcKnown = runs[r].btcKnown
             /\ runs'[r].aborted <=> runs[r].aborted \/ r = runIdRef
  BY <1>1, AbortEffect DEF Unmount, UnmountAborts
<1>2. state' = state /\ runIdRef' = runIdRef /\ app' = "unmounted"
  BY DEF Unmount
<1>3. RunsInv' /\ LegInv' /\ PhaseTracksLeg'
  BY <1>1, <1>2 DEF HookInv, RunsInv, LegInv, PhaseTracksLeg
<1>4. ShownIsLive' /\ TierHonest' /\ StageOnlyWhileRunning'
  BY <1>2 DEF HookInv, ShownIsLive, TierHonest, StageOnlyWhileRunning
<1>5. SingleLiveRun' /\ QuitAborts'
  BY <1>1, <1>2 DEF HookInv, SingleLiveRun, QuitAborts
<1>6. NoSilentDowngrade'
  BY <1>1, <1>2 DEF HookInv, NoSilentDowngrade, WantsUpgrade
<1> QED
  BY <1>3, <1>4, <1>5, <1>6 DEF HookInv

(* Progress changes the stage, and only while running. *)
LEMMA HookEngineEvent ==
  ASSUME TypeOK, HookInv, NEW r \in RunIds, EngineEvent(r)
  PROVE  HookInv'
<1>1. PICK stage \in Stages : state' = Progress(state, r, stage)
  BY DEF EngineEvent
<1>2. CASE ~(Live(state, r) /\ isRunning(state.phase))
  <2>1. UNCHANGED hookVars
    BY <1>1, <1>2 DEF EngineEvent, Progress, hookVars
  <2> QED
    BY <2>1, HookUntouched
<1>3. CASE Live(state, r) /\ isRunning(state.phase)
  <2>1. /\ state'.phase = state.phase /\ state'.analysis = state.analysis
        /\ state'.isPreview = state.isPreview /\ state'.upgradeNote = state.upgradeNote
        /\ state'.runId = state.runId /\ state'.file = state.file
    BY <1>1, <1>3 DEF Progress, TypeOK, States
  <2>2. isRunning(state'.phase) /\ UNCHANGED <<runs, runIdRef, app>>
    BY <1>3, <2>1 DEF EngineEvent
  <2> QED
    BY <2>1, <2>2 DEF HookInv, RunsInv, LegInv, ShownIsLive, TierHonest, StageOnlyWhileRunning,
       PhaseTracksLeg, SingleLiveRun, QuitAborts, NoSilentDowngrade, WantsUpgrade
<1> QED
  BY <1>2, <1>3

(* What a leg may settle with once it was aborted, and before. *)
LEMMA MaySettle ==
  ASSUME TypeOK, NEW r \in RunIds, NEW o, MaySettleWith(r, o)
  PROVE  /\ o = "AbortError" => runs[r].aborted
         /\ o = "analysis" => ~runs[r].aborted
  BY DEF MaySettleWith, PermittedOutcomes, AnytimeFailures, Successes, Verdicts

LEMMA FinishedEffect ==
  ASSUME TypeOK, NEW r \in RunIds, NEW o, runs' = Finished(r, o)
  PROVE  \A q \in RunIds :
           /\ runs'[q].file = runs[q].file /\ runs'[q].mode = runs[q].mode
           /\ runs'[q].btcKnown = runs[q].btcKnown /\ runs'[q].aborted = runs[q].aborted
           /\ runs'[q].leg = IF q = r THEN "over" ELSE runs[q].leg
<1>1. ASSUME NEW q \in RunIds
      PROVE  /\ runs[q] \in Runs
             /\ runs'[q] = IF q = r THEN [runs[q] EXCEPT !.leg = "over", !.talking = (o = "SpawnError")]
                           ELSE runs[q]
  BY DEF TypeOK, Finished
<1> QED
  BY <1>1 DEF Runs

(* A superseded run settles without the reducer noticing. *)
LEMMA HookLate ==
  ASSUME TypeOK, HookInv, NEW r \in RunIds, r # runIdRef,
         PreviewSettles(r) \/ UpgradeSettles(r)
  PROVE  HookInv' /\ state' = state
<1>1. /\ ~Live(state, r) /\ UNCHANGED <<app, runIdRef>>
      /\ runs[r].leg \in ActiveLegs /\ runs[r].aborted
  BY DEF HookInv, RunsInv, SingleLiveRun, Live, PreviewSettles, UpgradeSettles
<1>2. PICK o : MaySettleWith(r, o) /\ runs' = Finished(r, o) /\ state' = state
  <2>1. CASE PreviewSettles(r)
    BY <1>1, <2>1, MaySettle DEF PreviewSettles, ErrorAction, Aborted
  <2>2. CASE UpgradeSettles(r)
    BY <1>1, <2>2, MaySettle DEF UpgradeSettles, UpgradeFailed, UpgradeDone, Aborted
  <2> QED
    BY <2>1, <2>2
<1>3. RunsInv' /\ LegInv' /\ PhaseTracksLeg'
  BY <1>1, <1>2, FinishedEffect DEF HookInv, RunsInv, LegInv, PhaseTracksLeg
<1>4. ShownIsLive' /\ TierHonest' /\ StageOnlyWhileRunning'
  BY <1>2 DEF HookInv, ShownIsLive, TierHonest, StageOnlyWhileRunning
<1>5. SingleLiveRun' /\ QuitAborts'
  BY <1>1, <1>2, FinishedEffect DEF HookInv, SingleLiveRun, QuitAborts
<1>6. NoSilentDowngrade'
  BY <1>1, <1>2, FinishedEffect DEF HookInv, NoSilentDowngrade, WantsUpgrade
<1> QED
  BY <1>2, <1>3, <1>4, <1>5, <1>6 DEF HookInv

(* The live run's leg settles in the phase that waits for it, or while     *)
(* cancelling; whatever it brings then keeps every promise of the phase.   *)
LEMMA HookSettles ==
  ASSUME TypeOK, HookInv, NEW r \in RunIds, r = runIdRef,
         UNCHANGED <<app, runIdRef>>,
         NEW o, MaySettleWith(r, o), runs' = Finished(r, o),
         runs[r].leg \in ActiveLegs,
         \/ /\ runs[r].leg = "preview" /\ o = "analysis" /\ ~WantsUpgrade(r)
            /\ state' = PreviewResult(r)
         \/ /\ runs[r].leg = "preview" /\ o \notin {"analysis", "AbortError"}
            /\ state' = ErrorAction(state, r)
         \/ /\ runs[r].leg = "upgrade" /\ o = "analysis"
            /\ state' = UpgradeDone(state, r, [run |-> r, file |-> runs[r].file, engine |-> "btc"])
         \/ /\ runs[r].leg = "upgrade" /\ o \notin {"analysis", "AbortError"}
            /\ state' = UpgradeFailed(state, r)
         \/ o = "AbortError" /\ state' = Aborted(state, r)
  PROVE  HookInv'
<1> USE DEF Live
<1>1. /\ state \in States /\ state.runId = r /\ runs[r].file \in Files
      /\ \A q \in RunIds : runs[q] \in Runs
  BY DEF TypeOK, HookInv, RunsInv
<1>2. /\ o = "AbortError" => runs[r].aborted
      /\ o = "analysis" => ~runs[r].aborted
  BY MaySettle
<1>3. \A q \in RunIds :
        /\ runs'[q].file = runs[q].file /\ runs'[q].mode = runs[q].mode
        /\ runs'[q].btcKnown = runs[q].btcKnown /\ runs'[q].aborted = runs[q].aborted
        /\ runs'[q].leg = IF q = r THEN "over" ELSE runs[q].leg
  BY FinishedEffect
<1>4. SingleLiveRun' /\ QuitAborts'
  BY <1>3 DEF HookInv, SingleLiveRun, QuitAborts
<1>5. runs[r].leg = "preview" => state.analysis = None
  BY DEF HookInv, LegInv
<1>6. /\ runs[r].leg = "preview" => state.phase \in {"running-preview", "cancelling"}
      /\ runs[r].leg = "upgrade" => state.phase \in {"running-upgrade", "cancelling"}
      /\ app # "unmounted" /\ ~runs[r].aborted => isRunning(state.phase)
      /\ app # "unmounted" /\ isRunning(state.phase) => ~runs[r].aborted
      /\ app = "unmounted" => runs[r].aborted
  BY DEF HookInv, LegInv, PhaseTracksLeg, QuitAborts
<1>7. /\ state.analysis # None => state.analysis.run = r /\ state.analysis.file = state.file
      /\ runs[r].file = state.file
      /\ TierHonest /\ StageOnlyWhileRunning
  BY <1>1 DEF HookInv, RunsInv, ShownIsLive
<1> DEFINE Kept ==
      /\ state'.runId = r /\ state'.file = state.file
      /\ state'.analysis # None => state'.analysis.run = r /\ state'.analysis.file = state.file
      /\ TierHonest' /\ StageOnlyWhileRunning'
      /\ app # "unmounted" => ~isRunning(state'.phase)
      /\ WantsUpgrade(r) /\ ~runs[r].aborted /\ state'.phase = "done-preview"
           => state'.upgradeNote
<1>8. ASSUME state' = state, state.phase = "cancelling" PROVE Kept
  BY <1>1, <1>7, <1>8 DEF TierHonest, StageOnlyWhileRunning
<1>9. Kept
  <2>1. CASE /\ runs[r].leg = "preview" /\ o = "analysis" /\ ~WantsUpgrade(r)
             /\ state' = PreviewResult(r)
    <3>1. state.phase = "running-preview"
      BY <1>2, <1>6, <2>1
    <3>2. /\ state'.runId = r /\ state'.file = state.file
          /\ state'.phase = "done-preview" /\ state'.isPreview /\ state'.stage = None
          /\ state'.analysis = [run |-> r, file |-> runs[r].file, engine |-> "librosa"]
      BY <1>1, <2>1, <3>1 DEF PreviewResult, PreviewDone, States
    <3>3. state'.analysis \in Analyses
      BY <1>1, <3>2 DEF Analyses
    <3> QED
      BY <1>7, <2>1, <3>2, <3>3 DEF TierHonest, StageOnlyWhileRunning
  <2>2. CASE /\ runs[r].leg = "preview" /\ o \notin {"analysis", "AbortError"}
              /\ state' = ErrorAction(state, r)
    <3>1. CASE state.phase = "running-preview"
      <4>1. /\ state'.runId = r /\ state'.file = state.file
            /\ state'.phase = "error" /\ state'.stage = None /\ state'.analysis = None
        BY <1>1, <2>2, <3>1 DEF ErrorAction, States
      <4> QED
        BY <4>1 DEF TierHonest, StageOnlyWhileRunning
    <3>2. CASE state.phase = "cancelling"
      BY <1>8, <2>2, <3>2 DEF ErrorAction
    <3> QED
      BY <1>6, <2>2, <3>1, <3>2
  <2>3. CASE /\ runs[r].leg = "upgrade" /\ o = "analysis"
              /\ state' = UpgradeDone(state, r, [run |-> r, file |-> runs[r].file, engine |-> "btc"])
    <3>1. state.phase = "running-upgrade"
      BY <1>2, <1>6, <2>3
    <3>2. /\ state'.runId = r /\ state'.file = state.file
          /\ state'.phase = "done-upgrade" /\ ~state'.isPreview /\ state'.stage = None
          /\ state'.analysis = [run |-> r, file |-> runs[r].file, engine |-> "btc"]
      BY <1>1, <2>3, <3>1 DEF UpgradeDone, States
    <3>3. state'.analysis \in Analyses
      BY <1>1, <3>2 DEF Analyses
    <3> QED
      BY <1>7, <3>2, <3>3 DEF TierHonest, StageOnlyWhileRunning
  <2>4. CASE /\ runs[r].leg = "upgrade" /\ o \notin {"analysis", "AbortError"}
              /\ state' = UpgradeFailed(state, r)
    <3>1. CASE state.phase = "running-upgrade"
      <4>1. /\ state'.runId = r /\ state'.file = state.file
            /\ state'.phase = "done-preview" /\ state'.stage = None /\ state'.isPreview
            /\ state'.analysis = state.analysis /\ state'.upgradeNote
        BY <1>1, <2>4, <3>1 DEF UpgradeFailed, States
      <4>2. state.analysis # None /\ state.analysis \in Analyses /\ state.analysis.engine # "btc"
        BY <1>1, <1>7, <3>1 DEF TierHonest, States
      <4>3. state.analysis.engine = "librosa"
        BY <4>2 DEF Analyses
      <4> QED
        BY <1>7, <4>1, <4>2, <4>3 DEF TierHonest, StageOnlyWhileRunning
    <3>2. CASE state.phase = "cancelling"
      BY <1>8, <2>4, <3>2 DEF UpgradeFailed
    <3> QED
      BY <1>6, <2>4, <3>1, <3>2
  <2>5. CASE o = "AbortError" /\ state' = Aborted(state, r)
    <3>1. CASE state.analysis = None
      <4>1. /\ state'.runId = r /\ state'.file = state.file
            /\ state'.phase = "idle" /\ state'.stage = None /\ state'.analysis = None
        BY <1>1, <2>5, <3>1 DEF Aborted, initialAnalysisState
      <4> QED
        BY <4>1 DEF TierHonest, StageOnlyWhileRunning
    <3>2. CASE state.analysis # None
      <4>1. /\ state'.runId = r /\ state'.file = state.file
            /\ state'.phase = "done-preview" /\ state'.stage = None /\ state'.isPreview
            /\ state'.analysis = state.analysis
        BY <1>1, <2>5, <3>2 DEF Aborted, States
      <4>2. state.analysis \in Analyses /\ state.analysis.engine # "btc"
        BY <1>1, <1>6, <1>7, <3>2 DEF TierHonest, States
      <4>3. state.analysis.engine = "librosa"
        BY <4>2 DEF Analyses
      <4> QED
        BY <1>2, <1>7, <2>5, <3>2, <4>1, <4>3 DEF TierHonest, StageOnlyWhileRunning
    <3> QED
      BY <3>1, <3>2
  <2> QED
    BY <2>1, <2>2, <2>3, <2>4, <2>5
<1>10. RunsInv' /\ ShownIsLive'
  BY <1>1, <1>3, <1>9 DEF HookInv, RunsInv, ShownIsLive
<1>11. LegInv' /\ PhaseTracksLeg' /\ NoSilentDowngrade'
  BY <1>3, <1>9 DEF LegInv, PhaseTracksLeg, NoSilentDowngrade, WantsUpgrade
<1> QED
  BY <1>4, <1>9, <1>10, <1>11 DEF HookInv

(* The preview is shown, and the upgrade set out for. *)
LEMMA HookUpgrades ==
  ASSUME TypeOK, HookInv, NEW r \in RunIds, r = runIdRef,
         UNCHANGED <<app, runIdRef>>,
         runs[r].leg = "preview", ~runs[r].aborted,
         state' = UpgradeStarted(PreviewResult(r), r),
         runs' = [runs EXCEPT ![r].leg = "upgrade"]
  PROVE  HookInv'
<1>1. /\ state \in States /\ state.runId = r /\ runs[r].file = state.file
      /\ \A q \in RunIds : runs[q] \in Runs
  BY DEF TypeOK, HookInv, RunsInv
<1>2. state.phase = "running-preview" /\ app # "unmounted"
  BY DEF HookInv, PhaseTracksLeg, QuitAborts
<1>3. \A q \in RunIds :
        /\ runs'[q].file = runs[q].file /\ runs'[q].mode = runs[q].mode
        /\ runs'[q].btcKnown = runs[q].btcKnown /\ runs'[q].aborted = runs[q].aborted
        /\ runs'[q].leg = IF q = r THEN "upgrade" ELSE runs[q].leg
  BY <1>1 DEF Runs, TypeOK
<1>4. /\ state'.runId = r /\ state'.file = state.file
      /\ state'.phase = "running-upgrade" /\ state'.isPreview /\ state'.stage = None
      /\ state'.analysis = [run |-> r, file |-> runs[r].file, engine |-> "librosa"]
  BY <1>1, <1>2 DEF UpgradeStarted, PreviewResult, PreviewDone, Live, States
<1>5. RunsInv' /\ LegInv' /\ PhaseTracksLeg'
  BY <1>1, <1>3, <1>4 DEF HookInv, RunsInv, LegInv, PhaseTracksLeg
<1>6. ShownIsLive' /\ TierHonest' /\ StageOnlyWhileRunning' /\ NoSilentDowngrade'
  <2>1. state'.analysis \in Analyses
    BY <1>1, <1>4, AnswerTypes DEF HookInv, RunsInv
  <2> QED
    BY <1>1, <1>4, <2>1 DEF ShownIsLive, TierHonest, StageOnlyWhileRunning, NoSilentDowngrade
<1>7. SingleLiveRun' /\ QuitAborts'
  BY <1>2, <1>3 DEF HookInv, SingleLiveRun, QuitAborts
<1> QED
  BY <1>5, <1>6, <1>7 DEF HookInv

LEMMA HookStep == TypeOK /\ HookInv /\ [Next]_vars => HookInv'
<1> SUFFICES ASSUME TypeOK, HookInv, [Next]_vars PROVE HookInv'
  OBVIOUS
<1>1. CASE ProbeSettles \/ Commit \/ FileKey \/ ModeKey \/ UNCHANGED vars
  <2>1. UNCHANGED hookVars
    BY <1>1 DEF ProbeSettles, Commit, FileKey, ModeKey, vars, hookVars
  <2> QED
    BY <2>1, HookUntouched
<1>2. ASSUME NEW file \in Files, Pick(file) PROVE HookInv'
  BY <1>2, HookPick
<1>3. CASE EscapeKey \/ QuitKey
  <2>1. CASE cancel
    <3>1. app = "mounted" /\ app' \in {"mounted", "destroyed"} /\ runIdRef' = runIdRef
      BY <1>3 DEF EscapeKey, QuitKey
    <3> QED
      BY <2>1, <3>1, HookCancel
  <2>2. CASE ~cancel
    <3>1. /\ app = "mounted" /\ app' \in {"mounted", "destroyed"}
          /\ UNCHANGED <<state, runs, runIdRef>>
      BY <1>3, <2>2 DEF EscapeKey, QuitKey
    <3> QED
      BY <3>1 DEF HookInv, RunsInv, LegInv, ShownIsLive, TierHonest, StageOnlyWhileRunning,
         PhaseTracksLeg, SingleLiveRun, QuitAborts, NoSilentDowngrade, WantsUpgrade
  <2> QED
    BY <2>1, <2>2
<1>4. CASE Unmount
  BY <1>4, HookUnmount
<1>5. ASSUME NEW r \in RunIds, EngineEvent(r) PROVE HookInv'
  BY <1>5, HookEngineEvent
<1>6. ASSUME NEW r \in RunIds, PreviewSettles(r) PROVE HookInv'
  <2>1. runs[r].leg = "preview" /\ UNCHANGED <<app, runIdRef>>
    BY <1>6 DEF PreviewSettles
  <2>2. CASE r # runIdRef
    BY <1>6, <2>2, HookLate
  <2>3. CASE r = runIdRef /\ state' = UpgradeStarted(PreviewResult(r), r)
                /\ ~runs[r].aborted /\ runs' = [runs EXCEPT ![r].leg = "upgrade"]
    BY <2>1, <2>3, HookUpgrades
  <2>4. ASSUME r = runIdRef, NEW o, MaySettleWith(r, o), runs' = Finished(r, o),
               \/ o = "analysis" /\ ~WantsUpgrade(r) /\ state' = PreviewResult(r)
               \/ o \notin {"analysis", "AbortError"} /\ state' = ErrorAction(state, r)
               \/ o = "AbortError" /\ state' = Aborted(state, r)
        PROVE  HookInv'
    BY <2>1, <2>4, HookSettles
  <2>5. MaySettleWith(r, "analysis") => ~runs[r].aborted
    BY MaySettle
  <2> QED
    BY <1>6, <2>2, <2>3, <2>4, <2>5 DEF PreviewSettles
<1>7. ASSUME NEW r \in RunIds, UpgradeSettles(r) PROVE HookInv'
  <2>1. CASE r # runIdRef
    BY <1>7, <2>1, HookLate
  <2>2. CASE r = runIdRef
    <3>1. runs[r].leg = "upgrade" /\ UNCHANGED <<app, runIdRef>>
      BY <1>7 DEF UpgradeSettles
    <3>2. PICK o \in Outcomes :
            /\ MaySettleWith(r, o) /\ runs' = Finished(r, o)
            /\ state' =
                 CASE o = "analysis" ->
                        UpgradeDone(state, r, [run |-> r, file |-> runs[r].file, engine |-> "btc"])
                   [] o = "AbortError" -> Aborted(state, r)
                   [] OTHER -> UpgradeFailed(state, r)
      BY <1>7 DEF UpgradeSettles
    <3> QED
      BY <2>2, <3>1, <3>2, HookSettles
  <2> QED
    BY <2>1, <2>2
<1> QED
  BY <1>1, <1>2, <1>3, <1>4, <1>5, <1>6, <1>7 DEF Next

-----------------------------------------------------------------------------
(* What is seen of the hook is OneRun *)

(* What the user is told went wrong belongs to the phase that says so. *)
NoteInv ==
  /\ state.error <=> state.phase = "error"
  /\ state.upgradeNote => state.phase = "done-preview"

LEMMA NoteInit == Init => NoteInv
  BY DEF Init, initialAnalysisState, NoteInv

USE DEF Seen!Next, Seen!Settle, Seen!screenVars

(* As long as reducer and unmount do nothing, nothing is seen. *)
LEMMA SeenUntouched ==
  ASSUME UNCHANGED <<state, app>>
  PROVE  UNCHANGED Seen!screenVars /\ (NoteInv => NoteInv')
  BY DEF NoteInv

LEMMA SeenPick ==
  ASSUME TypeOK, NEW f \in Files, Pick(f)
  PROVE  Seen!Pick(f) /\ NoteInv'
<1>1. state' = [initialAnalysisState EXCEPT !.phase = "running-preview", !.file = f,
                                           !.runId = runIdRef + 1]
  BY DEF Pick, Analyze, AnalyzeRequested
<1>2. /\ state'.phase = "running-preview" /\ state'.file = f /\ state'.analysis = None
      /\ state'.error = FALSE /\ state'.upgradeNote = FALSE
  BY <1>1 DEF initialAnalysisState
<1>3. app = "mounted" /\ app' = app
  BY DEF Pick
<1>4. NoteInv'
  BY <1>2 DEF NoteInv
<1> QED
  BY <1>2, <1>3, <1>4 DEF Seen!Pick

LEMMA SeenCancel ==
  ASSUME TypeOK, HookInv, NoteInv, cancel, app = "mounted", app' # "unmounted"
  PROVE  [Seen!Next]_(Seen!screenVars) /\ NoteInv'
<1>1. state \in States /\ state.runId = runIdRef
  BY DEF TypeOK, HookInv, RunsInv
<1>2. CASE ~isRunning(state.phase)
  <2>1. state' = state
    BY <1>2 DEF cancel, CancelRequested
  <2> QED
    BY <2>1 DEF NoteInv
<1>3. CASE isRunning(state.phase)
  <2>1. /\ state'.phase = "cancelling" /\ state'.file = state.file
        /\ state'.analysis = state.analysis
        /\ state'.error = state.error /\ state'.upgradeNote = state.upgradeNote
    BY <1>1, <1>3 DEF cancel, CancelRequested, Live, States
  <2>2. Seen!Cancel /\ NoteInv'
    BY <1>3, <2>1 DEF Seen!Cancel, NoteInv
  <2> QED
    BY <2>2
<1> QED
  BY <1>2, <1>3

LEMMA SeenEngineEvent ==
  ASSUME TypeOK, NoteInv, NEW r \in RunIds, EngineEvent(r)
  PROVE  UNCHANGED Seen!screenVars /\ NoteInv'
<1>1. /\ state'.phase = state.phase /\ state'.file = state.file
      /\ state'.analysis = state.analysis
      /\ state'.error = state.error /\ state'.upgradeNote = state.upgradeNote
      /\ app' = app
  BY DEF EngineEvent, Progress, TypeOK, States
<1> QED
  BY <1>1 DEF NoteInv

(* The live run is stopped: what is shown stays, nobody is told. *)
LEMMA SeenAborted ==
  ASSUME TypeOK, HookInv, NoteInv, NEW r \in RunIds, r = runIdRef,
         runs[r].leg \in ActiveLegs, runs[r].aborted,
         state' = Aborted(state, r), app' = app
  PROVE  Seen!Stopped /\ NoteInv'
<1>1. state \in States /\ state.runId = r
  BY DEF TypeOK, HookInv, RunsInv
<1>2. /\ state.phase \in {"running-preview", "running-upgrade", "cancelling"}
      /\ app # "unmounted" => state.phase = "cancelling"
  BY DEF HookInv, LegInv, PhaseTracksLeg
<1>3. state.error = FALSE /\ state.upgradeNote = FALSE
  BY <1>1, <1>2 DEF NoteInv, States
<1>4. /\ state'.phase \in {"idle", "done-preview"} /\ state'.file = state.file
      /\ state'.analysis = state.analysis
      /\ state'.error = FALSE /\ state'.upgradeNote = FALSE
  BY <1>1, <1>3 DEF Aborted, Live, initialAnalysisState, States
<1> QED
  BY <1>2, <1>3, <1>4 DEF Seen!Stopped, NoteInv

LEMMA SeenPreview ==
  ASSUME TypeOK, HookInv, NoteInv, NEW r \in RunIds, PreviewSettles(r), r = runIdRef
  PROVE  [Seen!Next]_(Seen!screenVars) /\ NoteInv'
<1> USE DEF Live
<1>1. /\ state \in States /\ state.runId = r /\ runs[r].leg = "preview" /\ app' = app
      /\ runs[r].file = state.file /\ state.file \in Files
  BY DEF TypeOK, HookInv, RunsInv, PreviewSettles
<1>2. /\ state.phase \in {"running-preview", "cancelling"} /\ state.analysis = None
      /\ ~runs[r].aborted => state.phase = "running-preview"
  BY <1>1 DEF HookInv, LegInv, PhaseTracksLeg, QuitAborts
<1>3. state.error = FALSE /\ state.upgradeNote = FALSE
  BY <1>1, <1>2 DEF NoteInv, States
<1>4. CASE /\ ~runs[r].aborted
           /\ state' \in {PreviewResult(r), UpgradeStarted(PreviewResult(r), r)}
  <2>1. /\ state'.phase \in {"done-preview", "running-upgrade"} /\ state'.file = state.file
        /\ state'.analysis = [run |-> r, file |-> runs[r].file, engine |-> "librosa"]
        /\ state'.error = FALSE /\ state'.upgradeNote = FALSE
    <3>1. PreviewResult(r) =
            [state EXCEPT !.phase = "done-preview", !.isPreview = TRUE, !.stage = None,
               !.analysis = [run |-> r, file |-> runs[r].file, engine |-> "librosa"]]
      BY <1>1, <1>2, <1>4 DEF PreviewResult, PreviewDone, States
    <3> QED
      BY <1>1, <1>3, <1>4, <3>1 DEF UpgradeStarted, States
  <2>2. state'.analysis # None
    BY <1>1, <2>1, NoneAssumption DEF Analyses
  <2>3. Seen!Previewed /\ NoteInv'
    BY <1>1, <1>2, <1>3, <1>4, <2>1, <2>2 DEF Seen!Previewed, NoteInv
  <2> QED
    BY <2>3
<1>5. CASE state' = ErrorAction(state, r)
  <2>1. CASE state.phase = "running-preview"
    <3>1. /\ state'.phase = "error" /\ state'.file = state.file /\ state'.analysis = None
          /\ state'.error = TRUE /\ state'.upgradeNote = FALSE
      BY <1>1, <1>3, <1>5, <2>1 DEF ErrorAction, States
    <3>2. Seen!Failed /\ NoteInv'
      BY <1>1, <1>2, <1>3, <2>1, <3>1 DEF Seen!Failed, NoteInv
    <3> QED
      BY <3>2
  <2>2. CASE state.phase = "cancelling"
    <3>1. state' = state
      BY <1>5, <2>2 DEF ErrorAction
    <3> QED
      BY <1>1, <3>1, SeenUntouched
  <2> QED
    BY <1>2, <2>1, <2>2
<1>6. CASE MaySettleWith(r, "AbortError") /\ state' = Aborted(state, r)
  BY <1>1, <1>6, MaySettle, SeenAborted
<1>7. MaySettleWith(r, "analysis") => ~runs[r].aborted
  BY MaySettle
<1> QED
  BY <1>4, <1>5, <1>6, <1>7 DEF PreviewSettles

LEMMA SeenUpgrade ==
  ASSUME TypeOK, HookInv, NoteInv, NEW r \in RunIds, UpgradeSettles(r), r = runIdRef
  PROVE  [Seen!Next]_(Seen!screenVars) /\ NoteInv'
<1> USE DEF Live
<1>1. /\ state \in States /\ state.runId = r /\ runs[r].leg = "upgrade" /\ app' = app
      /\ runs[r].file = state.file /\ state.file \in Files
  BY DEF TypeOK, HookInv, RunsInv, UpgradeSettles
<1>2. /\ state.phase \in {"running-upgrade", "cancelling"}
      /\ ~runs[r].aborted => state.phase = "running-upgrade"
  BY <1>1 DEF HookInv, LegInv, PhaseTracksLeg, QuitAborts
<1>3. state.error = FALSE /\ state.upgradeNote = FALSE
  BY <1>1, <1>2 DEF NoteInv, States
<1>4. PICK o \in Outcomes :
        /\ MaySettleWith(r, o)
        /\ state' =
             CASE o = "analysis" ->
                    UpgradeDone(state, r, [run |-> r, file |-> runs[r].file, engine |-> "btc"])
               [] o = "AbortError" -> Aborted(state, r)
               [] OTHER -> UpgradeFailed(state, r)
  BY DEF UpgradeSettles
<1>5. CASE o = "analysis"
  <2>1. state.phase = "running-upgrade"
    BY <1>2, <1>4, <1>5, MaySettle
  <2>2. /\ state'.phase = "done-upgrade" /\ state'.file = state.file
        /\ state'.analysis = [run |-> r, file |-> runs[r].file, engine |-> "btc"]
        /\ state'.error = FALSE /\ state'.upgradeNote = FALSE
    BY <1>1, <1>3, <1>4, <1>5, <2>1 DEF UpgradeDone, States
  <2>3. state'.analysis # None
    BY <1>1, <2>2, NoneAssumption DEF Analyses
  <2>4. Seen!Upgraded /\ NoteInv'
    BY <1>1, <1>3, <2>1, <2>2, <2>3 DEF Seen!Upgraded, NoteInv
  <2> QED
    BY <2>4
<1>6. CASE o = "AbortError"
  BY <1>1, <1>4, <1>6, MaySettle, SeenAborted
<1>7. CASE o \notin {"analysis", "AbortError"}
  <2>1. CASE state.phase = "running-upgrade"
    <3>1. /\ state'.phase = "done-preview" /\ state'.file = state.file
          /\ state'.analysis = state.analysis
          /\ state'.error = FALSE /\ state'.upgradeNote = TRUE
      BY <1>1, <1>4, <1>7, <2>1 DEF UpgradeFailed, States
    <3>2. Seen!Failed /\ NoteInv'
      BY <1>1, <1>3, <2>1, <3>1 DEF Seen!Failed, NoteInv
    <3> QED
      BY <3>2
  <2>2. CASE state.phase = "cancelling"
    <3>1. state' = state
      BY <1>4, <1>7, <2>2 DEF UpgradeFailed
    <3> QED
      BY <1>1, <3>1, SeenUntouched
  <2> QED
    BY <1>2, <2>1, <2>2
<1> QED
  BY <1>5, <1>6, <1>7

LEMMA SeenStep ==
  ASSUME TypeOK, HookInv, NoteInv, [Next]_vars
  PROVE  [Seen!Next]_(Seen!screenVars) /\ NoteInv'
<1>1. CASE ProbeSettles \/ Commit \/ FileKey \/ ModeKey \/ UNCHANGED vars
  <2>1. UNCHANGED <<state, app>>
    BY <1>1 DEF ProbeSettles, Commit, FileKey, ModeKey, vars
  <2> QED
    BY <2>1, SeenUntouched
<1>2. ASSUME NEW f \in Files, Pick(f) PROVE Seen!Next /\ NoteInv'
  BY <1>2, SeenPick
<1>3. CASE EscapeKey \/ QuitKey
  <2>1. app = "mounted" /\ app' \in {"mounted", "destroyed"}
    BY <1>3 DEF EscapeKey, QuitKey
  <2>2. CASE cancel
    BY <2>1, <2>2, SeenCancel
  <2>3. CASE state' = state
    BY <2>1, <2>3 DEF NoteInv
  <2> QED
    BY <1>3, <2>2, <2>3 DEF EscapeKey, QuitKey
<1>4. CASE Unmount
  <2>1. state' = state /\ app' = "unmounted"
    BY <1>4 DEF Unmount
  <2>2. Seen!Leave /\ NoteInv'
    BY <2>1 DEF Seen!Leave, NoteInv
  <2> QED
    BY <2>2
<1>5. ASSUME NEW r \in RunIds, EngineEvent(r)
      PROVE  [Seen!Next]_(Seen!screenVars) /\ NoteInv'
  BY <1>5, SeenEngineEvent
<1>6. ASSUME NEW r \in RunIds, PreviewSettles(r) \/ UpgradeSettles(r)
      PROVE  [Seen!Next]_(Seen!screenVars) /\ NoteInv'
  <2>1. CASE r = runIdRef
    BY <1>6, <2>1, SeenPreview, SeenUpgrade
  <2>2. CASE r # runIdRef
    <3>1. UNCHANGED <<state, app>>
      BY <1>6, <2>2, HookLate DEF PreviewSettles, UpgradeSettles
    <3> QED
      BY <3>1, SeenUntouched
  <2> QED
    BY <2>1, <2>2
<1> QED
  BY <1>1, <1>2, <1>3, <1>4, <1>5, <1>6 DEF Next

-----------------------------------------------------------------------------
(* Theorems of the hook *)

LEMMA HookInvariant == Spec => [](TypeOK /\ HookInv)
<1>1. TypeOK /\ HookInv /\ [Next]_vars => (TypeOK /\ HookInv)'
  <2>1. HookInv => RunsInv
    BY DEF HookInv
  <2> QED
    BY <2>1, TypeStep, HookStep
<1> QED
  BY <1>1, HookInit, PTL DEF Spec

(* Every variable of the hook and its keys keeps its type. *)
THEOREM HookTypes == Spec => []TypeOK
  BY HookInvariant, PTL

(* No restart, late leg or cancel shows a result under another file. *)
THEOREM ShownIsLiveHolds == Spec => []ShownIsLive
<1>1. HookInv => ShownIsLive
  BY DEF HookInv
<1> QED
  BY <1>1, HookInvariant, PTL

(* What the phase says of result, stage and leg is true. *)
THEOREM PhaseHonestHolds == Spec => []PhaseHonest
<1>1. HookInv => PhaseHonest
  BY DEF HookInv
<1> QED
  BY <1>1, HookInvariant, PTL

(* However fast files are picked, at most one run is working unaborted. *)
THEOREM SingleLiveRunHolds == Spec => []SingleLiveRun
<1>1. HookInv => SingleLiveRun
  BY DEF HookInv
<1> QED
  BY <1>1, HookInvariant, PTL

(* After the unmount no engine run is left unaborted. *)
THEOREM QuitAbortsHolds == Spec => []QuitAborts
<1>1. HookInv => QuitAborts
  BY DEF HookInv
<1> QED
  BY <1>1, HookInvariant, PTL

(* A run that set out to upgrade never rests on its preview without a note. *)
THEOREM NoSilentDowngradeHolds == Spec => []NoSilentDowngrade
<1>1. HookInv => NoSilentDowngrade
  BY DEF HookInv
<1> QED
  BY <1>1, HookInvariant, PTL

(* The safety part of LooksLikeOneRun: superseded runs, stale closures and *)
(* late answers are never seen.                                            *)
THEOREM ImplementsOneRun == Spec => Seen!SafeSpec
<1>1. Init => Seen!Init
  <2> SUFFICES ASSUME Init PROVE Seen!Init
    OBVIOUS
  <2>1. /\ state.phase = "idle" /\ state.file = None /\ state.analysis = None
        /\ state.error = FALSE /\ state.upgradeNote = FALSE /\ app = "mounted"
    BY DEF Init, initialAnalysisState
  <2> QED
    BY <2>1 DEF Seen!Init
<1>2. TypeOK /\ HookInv /\ NoteInv /\ [Next]_vars
        => [Seen!Next]_(Seen!screenVars) /\ NoteInv'
  BY SeenStep
<1> QED
  BY <1>1, <1>2, NoteInit, HookInvariant, PTL DEF Spec, Seen!SafeSpec

-----------------------------------------------------------------------------
(* The frames *)

(* A frame painted of a state the hook can be in tells one story. *)
LEMMA FrameTells ==
  ASSUME TypeOK, HookInv, screen' = Frame(state, appView)
  PROVE  TellsOneStory'
<1>1. /\ state \in States /\ appView \in {"picker", "results"} /\ mode \in Modes
      /\ state.phase \in Phases /\ state.analysis \in Analyses \cup {None}
  BY DEF TypeOK, States
<1>2. TierHonest
  BY DEF HookInv
<1>3. state.analysis # None => state.analysis.engine \in Engines
  BY <1>1 DEF Analyses
<1>4. /\ screen'.body = Body(state, appView) /\ screen'.status = StatusLine(state)
      /\ screen'.header = Header(state) /\ screen'.hints = Hints(appView)
  BY DEF Frame
<1>5. screen' \in Frames
  <2>1. Body(state, appView) \in {"picker", "result", "error", "analyzing"}
    BY DEF Body
  <2>2. StatusLine(state) \in {"ready", "analyzing", "preview ready", "note", "upgrading",
                               "done", "cancelling", "error"}
    BY <1>1 DEF StatusLine
  <2>3. Hints(appView) \in {Hints("picker"), Hints("results")}
    BY <1>1
  <2>4. Header(state) \in [mock : BOOLEAN, mode : Modes, engine : Engines \cup {"no engine yet"}]
    BY <1>1, <1>3, ScreenAssumption DEF Header
  <2> QED
    BY <2>1, <2>2, <2>3, <2>4 DEF Frame, Frames
<1>6. CASE appView = "picker"
  BY <1>4, <1>5, <1>6 DEF TellsOneStory, Body
<1>7. CASE appView # "picker" /\ state.analysis = None
  BY <1>1, <1>2, <1>4, <1>5, <1>7 DEF TellsOneStory, Body, StatusLine, Header, TierHonest
<1>8. CASE appView # "picker" /\ state.analysis # None
  <2>1. screen'.body = "result" /\ screen'.header.engine = state.analysis.engine
        /\ screen'.header.mock = IsMock
    BY <1>4, <1>8 DEF Body, Header
  <2>2. /\ state.phase \notin {"idle", "running-preview", "error"}
        /\ state.analysis.engine = IF state.phase = "done-upgrade" THEN "btc" ELSE "librosa"
    BY <1>2, <1>3, <1>8 DEF TierHonest
  <2>3. /\ screen'.status # "error"
        /\ screen'.status = "done" <=> state.phase = "done-upgrade"
    BY <1>1, <1>4, <2>2 DEF StatusLine
  <2>4. screen'.status \in {"preview ready", "note", "upgrading"} => state.phase # "done-upgrade"
    BY <1>4 DEF StatusLine
  <2> QED
    BY <1>5, <2>1, <2>2, <2>3, <2>4, ScreenAssumption DEF TellsOneStory
<1> QED
  BY <1>6, <1>7, <1>8

(* Every step of the screen is one of the hook, or none. *)
LEMMA ScreenStep == [ScreenNext]_allVars => [Next]_vars
<1> SUFFICES ASSUME [ScreenNext]_allVars PROVE [Next]_vars
  OBVIOUS
<1>1. CASE UNCHANGED allVars
  BY <1>1 DEF allVars
<1>2. CASE Paint
  BY <1>2 DEF Paint, Next
<1>3. CASE TypeText
  BY <1>3 DEF TypeText
<1>4. CASE \E file \in Files : Open(file)
  BY <1>4 DEF Open, Next
<1>5. CASE Quit
  BY <1>5 DEF Quit, Next
<1>6. CASE Others
  BY <1>6 DEF Others, Next
<1> QED
  BY <1>1, <1>2, <1>3, <1>4, <1>5, <1>6 DEF ScreenNext

(* The screen only watches the hook: whatever holds of every behaviour of  *)
(* the hook holds under the screen, too.                                   *)
THEOREM ScreenKeepsHook == ScreenSpec => Init /\ [][Next]_vars
<1>1. ScreenInit => Init
  BY DEF ScreenInit
<1> QED
  BY <1>1, ScreenStep, PTL DEF ScreenSpec

(* Only a paint changes the frame. *)
LEMMA ScreenPaints == [ScreenNext]_allVars => screen' = screen \/ screen' = Frame(state, appView)
  BY DEF ScreenNext, allVars, screenVars, Paint, TypeText, Open, Quit, Others

(* No frame contradicts itself, whatever was painted when. *)
THEOREM TellsOneStoryHolds == ScreenSpec => []TellsOneStory
<1>1. ScreenInit => TypeOK /\ HookInv /\ TellsOneStory
  <2> SUFFICES ASSUME ScreenInit PROVE TypeOK /\ HookInv /\ TellsOneStory
    OBVIOUS
  <2>1. TypeOK /\ HookInv
    BY HookInit DEF ScreenInit
  <2>2. screen = Frame(initialAnalysisState, "picker") /\ mode = "accurate"
    BY DEF ScreenInit, Init
  <2>3. TellsOneStory
    BY <2>2, ScreenAssumption DEF TellsOneStory, Frames, Frame, Body, StatusLine, Hints, Header,
       initialAnalysisState
  <2> QED
    BY <2>1, <2>3
<1>2. TypeOK /\ HookInv /\ TellsOneStory /\ [ScreenNext]_allVars
        => (TypeOK /\ HookInv /\ TellsOneStory)'
  <2> SUFFICES ASSUME TypeOK, HookInv, TellsOneStory, [ScreenNext]_allVars
               PROVE  (TypeOK /\ HookInv /\ TellsOneStory)'
    OBVIOUS
  <2>1. (TypeOK /\ HookInv)'
    BY ScreenStep, TypeStep, HookStep DEF HookInv
  <2>2. CASE screen' = screen
    BY <2>1, <2>2 DEF TellsOneStory, Frames
  <2>3. CASE screen' = Frame(state, appView)
    BY <2>1, <2>3, FrameTells
  <2> QED
    BY <2>2, <2>3, <2>1, ScreenPaints
<1> QED
  BY <1>1, <1>2, PTL DEF ScreenSpec
=============================================================================
