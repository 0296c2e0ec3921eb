------------------------------- MODULE Screen -------------------------------
(***************************************************************************)
(* What the interactive app shows, and which of its controls has the       *)
(* keyboard: the frames App.tsx, Header.tsx, StatusBar.tsx and             *)
(* FilePicker.tsx paint of UseAnalysis's state, and the picker's two       *)
(* controls, of which the text input wants the letters for itself.         *)
(***************************************************************************)
EXTENDS UseAnalysis

CONSTANT IsMock  \* the driver resolved to a sidecar whose data may be fake

ASSUME ScreenAssumption == IsMock \in BOOLEAN

VARIABLES
  control,  \* the focused renderable: "select", "input", "timeline" (or none)
  path,     \* what the input holds: "blank", or one of Files
  screen    \* the frame last painted

screenVars == <<control, path, screen>>
allVars == <<vars, screenVars>>

-----------------------------------------------------------------------------
(* Painting *)

(* Mutant: only an upgraded or kept preview is shown, a first one not yet. *)
BodyWhenSettled(s, where) ==
  CASE where = "picker" -> "picker"
    [] where # "picker" /\ s.analysis # None /\ ~isRunning(s.phase) -> "result"
    [] where # "picker" /\ s.analysis = None /\ s.phase = "error" -> "error"
    [] OTHER -> "analyzing"

(* App: the middle region, in the order of its conditions. *)
Body(s, where) ==
  CASE where = "picker" -> "picker"
    [] where # "picker" /\ s.analysis # None -> "result"
    [] where # "picker" /\ s.analysis = None /\ s.phase = "error" -> "error"
    [] OTHER -> "analyzing"

(* Mutant: the fall-through for what "cannot happen" catches idle, too. *)
StatusLineNoIdle(s) ==
  CASE s.phase = "running-preview" -> "analyzing"
    [] s.phase = "done-preview" -> IF s.upgradeNote THEN "note" ELSE "preview ready"
    [] s.phase = "running-upgrade" -> "upgrading"
    [] s.phase = "done-upgrade" -> "done"
    [] OTHER -> s.phase

(* statusLine, without the stage and the wording *)
StatusLine(s) ==
  CASE s.phase = "idle" -> "ready"
    [] s.phase = "running-preview" -> "analyzing"
    [] s.phase = "done-preview" -> IF s.upgradeNote THEN "note" ELSE "preview ready"
    [] s.phase = "running-upgrade" -> "upgrading"
    [] s.phase = "done-upgrade" -> "done"
    [] OTHER -> s.phase

Hints(where) ==
  IF where = "picker" THEN {"enter open", "esc quit"}
  ELSE {"q quit", "f file", "esc back", "m mode"}

(* Header: the badge, the shown engine and the sticky mode. *)
Header(s) ==
  [mock |-> IsMock, mode |-> mode,
   engine |-> IF s.analysis = None THEN "no engine yet" ELSE s.analysis.engine]

Frame(s, where) ==
  [body |-> Body(s, where), status |-> StatusLine(s), hints |-> Hints(where),
   header |-> Header(s)]

-----------------------------------------------------------------------------
(* The picker *)

(* listAudio looks again whenever the picker is mounted; with nothing to   *)
(* list there is an empty input instead of the list.                       *)
MountPicker == control' \in {"select", "input"} /\ path' = "blank"

ScreenInit ==
  /\ Init
  /\ control \in {"select", "input"} /\ path = "blank"
  /\ screen = Frame(state, appView)

WorthPainting == <<view, screen>>' # <<view, screen>>

(* A commit paints, and mounts or unmounts the picker; one that replaces no *)
(* handler may still paint.                                                *)
Paint ==
  /\ Commit \/ (app # "unmounted" /\ view = Rendered /\ UNCHANGED vars)
  /\ screen' = IF app = "mounted" THEN Frame(state, appView) ELSE screen
  /\ IF appView = view.appView THEN UNCHANGED <<control, path>>
     ELSE IF appView = "picker" THEN MountPicker
     ELSE control' = "timeline" /\ UNCHANGED path
  /\ WorthPainting

TypeText ==
  /\ app = "mounted" /\ control = "input"
  /\ path' \in Files \cup {"blank"} /\ path' # path
  /\ UNCHANGED <<vars, control, screen>>

(* Enter: a listed file, or what was typed unless it is blank. *)
Open(file) ==
  /\ control \in {"select", "input"}
  /\ control = "input" => path = file
  /\ Pick(file)
  /\ UNCHANGED screenVars

(* The picker leaves q to a focused input. *)
QIsText == view.appView = "picker" /\ control = "input"

Quit ==
  /\ ~QIsText
  /\ QuitKey
  /\ UNCHANGED screenVars

Others ==
  /\ \/ ProbeSettles \/ EscapeKey \/ FileKey \/ ModeKey \/ Unmount
     \/ \E r \in RunIds : EngineEvent(r) \/ PreviewSettles(r) \/ UpgradeSettles(r)
  /\ UNCHANGED screenVars

ScreenNext == Paint \/ TypeText \/ (\E file \in Files : Open(file)) \/ Quit \/ Others

(* The fairness of UseAnalysis, in which a commit is now a paint. *)
ScreenFairness ==
  /\ WF_allVars(Paint) /\ WF_vars(ProbeSettles) /\ WF_vars(Unmount)
  /\ \A r \in RunIds : WF_vars(PreviewSettles(r)) /\ WF_vars(UpgradeSettles(r))

ScreenSpec == ScreenInit /\ [][ScreenNext]_allVars /\ ScreenFairness

-----------------------------------------------------------------------------
(* Properties *)

Frames ==
  [body : {"picker", "result", "error", "analyzing"},
   status : {"ready", "analyzing", "preview ready", "note", "upgrading", "done", "cancelling",
             "error"},
   hints : {Hints("picker"), Hints("results")},
   header : [mock : BOOLEAN, mode : Modes, engine : Engines \cup {"no engine yet"}]]

(* Header, body and status line are written by three components that do    *)
(* not know of each other; no frame contradicts itself: a promised result  *)
(* is there and is the one of the engine the header names, an error is     *)
(* shown as one, and fake data is always labelled.  The view that waits    *)
(* for a result is there for a run, or for one that was cancelled.         *)
TellsOneStory ==
  /\ screen \in Frames
  /\ screen.body # "picker" =>
       /\ screen.status \in {"preview ready", "note", "upgrading"} =>
            screen.body = "result" /\ screen.header.engine = "librosa"
       /\ screen.status = "done" <=> screen.body = "result" /\ screen.header.engine = "btc"
       /\ screen.status = "error" <=> screen.body = "error"
  /\ screen.body = "analyzing" => screen.status \in {"analyzing", "cancelling", "ready"}
  /\ screen.body = "result" /\ IsMock => screen.header.mock

=============================================================================
