--------------------------- MODULE CommandsProofs ---------------------------
(***************************************************************************)
(* For any number of terminals, running commands side by side in any       *)
(* environment: the safety invariants of Commands.                         *)
(***************************************************************************)
EXTENDS Commands, TLAPS

USE CommandsAssumption DEF EngineNames, Pythons, Endings, Errors, Waits, Installable

-----------------------------------------------------------------------------
(* The invariant *)

Shapes ==
  /\ env \in Environments
  /\ venvs \subseteq {".venv", ".venv-btc"}
  /\ packages \in [Pythons -> SUBSET Installable]
  /\ emptied \subseteq Sessions
  /\ pc \in [Sessions -> Waits \cup {"idle", "exited"}]
  /\ job \in [Sessions -> Jobs]

(* What setup leaves on disk comes in this order: the clean core, then the *)
(* btc environment beside it.                                              *)
Ladder ==
  /\ packages[".venv"] \subseteq {"librosa"}
  /\ \A py \in {".venv", ".venv-btc"} : py \notin venvs => packages[py] = {}
  /\ ".venv-btc" \in venvs => "librosa" \in packages[".venv"]
  /\ \A s \in Sessions : pc[s] \in {"venv", "pip"} => "librosa" \in packages[".venv"]

(* What a waiting session knows of its own command. *)
Underway(s) ==
  /\ pc[s] \in Waits =>
       /\ job[s].python \in Pythons /\ job[s].isMock = IsMock
       /\ job[s].out = None /\ job[s].child = None
  /\ pc[s] \in {"probe", "run"} => job[s].cmd = "analyze"
  /\ pc[s] = "info" => job[s].cmd = "engine-info"
  /\ pc[s] = "selftest" => job[s].cmd = "doctor"
  /\ pc[s] \in {"sync", "venv", "pip"} =>
       job[s].cmd = "setup" /\ \A e \in EngineNames : job[s].rows[e] = "pending"
  /\ pc[s] = "idle" => job[s] = noJob
  /\ pc[s] \in {"probe", "run", "info"} => GateMock(job[s].json)
  /\ pc[s] = "probe" => job[s].ask = None /\ ~job[s].isMock
  /\ pc[s] \in {"run", "info"} => job[s].engine \in EngineNames
  /\ pc[s] = "run" /\ job[s].ask # None => job[s].engine = job[s].ask
  /\ pc[s] \in {"venv", "pip"} => "btc" \in job[s].plan

(* The default engine was there when it was picked, and still is, unless   *)
(* another session has emptied the environment.                            *)
PickedIsThere(s) ==
  pc[s] = "run" /\ job[s].ask = None /\ ~job[s].isMock =>
    IsAvailable(job[s].python, job[s].engine) \/ Swept(s)

NotFake(s) ==
  job[s].out # None =>
    IF job[s].out = "mock" THEN env.sidecar \/ (env.tty /\ ~job[s].json)
    ELSE /\ job[s].cmd = "analyze" /\ job[s].ask # None => job[s].out = job[s].ask
         /\ env.scripts /\ ~env.sidecar

Codes(s) ==
  /\ Exited(s, "analyze") \/ Exited(s, "engine-info") =>
       /\ job[s].child # None => job[s].exit = job[s].child
       /\ job[s].exit = 0 <=> job[s].out # None
  /\ Exited(s, "analyze") /\ job[s].ask = None /\ ~job[s].isMock =>
       job[s].exit # 3 \/ Swept(s)

HonestRows(s) ==
  \A e \in EngineNames : job[s].rows[e] = "working" =>
    /\ job[s].python \in Pythons /\ env.scripts
    /\ Analyses(job[s].python, e) \/ Swept(s)

Delivered(s) ==
  Exited(s, "setup") /\ job[s].exit = 0 =>
    /\ "librosa" \in packages[".venv"]
    /\ "btc" \in job[s].plan => packages[".venv-btc"] = Installable \/ s \in emptied

Session(s) ==
  Underway(s) /\ PickedIsThere(s) /\ NotFake(s) /\ Codes(s) /\ HonestRows(s) /\ Delivered(s)

CommandsInv == Shapes /\ Ladder /\ \A s \in Sessions : Session(s)

(* Nothing that is installed is ever taken away, but from .venv-btc, and   *)
(* then from under the session only if it is on record.                    *)
Grows(t) ==
  /\ t \in emptied => t \in emptied'
  /\ packages[".venv-btc"] \subseteq packages'[".venv-btc"] \/ t \in emptied'

Stays ==
  /\ env' = env /\ venvs \subseteq venvs'
  /\ \A py \in Pythons \ {".venv-btc"} : packages[py] \subseteq packages'[py]

-----------------------------------------------------------------------------
LEMMA EnvTyped ==
  ASSUME Shapes
  PROVE  /\ env.override \in Pythons \cup {None} /\ env.sidecar \in BOOLEAN
         /\ env.scripts \in BOOLEAN /\ env.tty \in BOOLEAN /\ env.btcRuns \in BOOLEAN
         /\ env.system \subseteq Installable /\ Python \in Pythons /\ IsMock \in BOOLEAN
<1>1. env \in EnvironmentType
  BY DEF Shapes
<1> QED
  BY <1>1 DEF EnvironmentType, Python, IsMock

LEMMA NoJobIsJob ==
  /\ noJob \in Jobs
  /\ noJob.out = None /\ noJob.child = None /\ noJob.cmd = None /\ noJob.isMock = FALSE
  /\ \A e \in EngineNames : noJob.rows[e] = "pending"
  BY DEF noJob, Jobs, Rows

LEMMA InvInit == Init => CommandsInv
<1> SUFFICES ASSUME Init PROVE CommandsInv
  OBVIOUS
<1>1. Shapes
  <2>1. env \in EnvironmentType
    BY DEF Init
  <2> QED
    BY <2>1, NoJobIsJob DEF Init, Shapes, EnvironmentType
<1>2. Ladder
  BY DEF Init, Ladder
<1>3. \A s \in Sessions : Session(s)
  BY NoJobIsJob DEF Init, Session, Underway, PickedIsThere, NotFake, Codes, HonestRows, Delivered,
     Exited
<1> QED
  BY <1>1, <1>2, <1>3 DEF CommandsInv

(* What one session does on disk spoils another's command only on record. *)
LEMMA OneSession ==
  ASSUME CommandsInv, NEW s \in Sessions, Stays, Shapes', Ladder', Session(s)',
         \A t \in Sessions \ {s} :
           /\ pc'[t] = pc[t] /\ job'[t] = job[t]
           /\ pc[t] # "idle" => Grows(t)
  PROVE  CommandsInv'
<1>1. ASSUME NEW t \in Sessions \ {s} PROVE Session(t)'
  <2>1. pc'[t] = pc[t] /\ job'[t] = job[t] /\ Session(t) /\ job[t] \in Jobs
    BY DEF CommandsInv, Shapes
  <2>2. (IsMock' = IsMock) /\ (GateMock(job[t].json)' = GateMock(job[t].json))
    BY <2>1 DEF Stays, IsMock, GateMock
  <2>3. Underway(t)'
    BY <2>1, <2>2 DEF Session, Underway
  <2>4. CASE pc[t] = "idle"
    <3>1. job'[t] = noJob /\ pc'[t] = "idle"
      BY <2>1, <2>4 DEF Session, Underway
    <3> QED
      BY <2>3, <3>1, NoJobIsJob
      DEF Session, PickedIsThere, NotFake, Codes, HonestRows, Delivered, Exited
  <2>5. CASE pc[t] # "idle"
    <3>1. Grows(t)
      BY <2>5
    <3>2. ASSUME job[t].python \in Pythons, NEW e \in EngineNames
          PROVE  /\ IsAvailable(job[t].python, e) \/ Swept(t)
                      => IsAvailable(job[t].python, e)' \/ Swept(t)'
                 /\ Analyses(job[t].python, e) \/ Swept(t)
                      => Analyses(job[t].python, e)' \/ Swept(t)'
      <4>1. packages[job[t].python] \subseteq packages'[job[t].python] \/ Swept(t)'
        BY <2>1, <3>1, <3>2 DEF Grows, Stays, Swept
      <4>2. Swept(t) => Swept(t)'
        BY <2>1, <3>1 DEF Grows, Swept
      <4> QED
        BY <2>1, <4>1, <4>2 DEF IsAvailable, Analyses, Stays
    <3>3. PickedIsThere(t)'
      <4>1. pc[t] = "run" => job[t].python \in Pythons /\ job[t].engine \in EngineNames
        BY <2>1 DEF Session, Underway
      <4> QED
        BY <2>1, <3>2, <4>1 DEF Session, PickedIsThere
    <3>4. HonestRows(t)'
      BY <2>1, <3>2 DEF Session, HonestRows, Stays
    <3>5. NotFake(t)'
      BY <2>1 DEF Session, NotFake, Stays
    <3>6. Codes(t)'
      BY <2>1, <3>1 DEF Session, Codes, Exited, Swept, Grows
    <3>7. Delivered(t)'
      BY <2>1, <3>1 DEF Session, Delivered, Exited, Stays, Grows, Shapes
    <3> QED
      BY <2>3, <3>3, <3>4, <3>5, <3>6, <3>7 DEF Session
  <2> QED
    BY <2>4, <2>5
<1> QED
  BY <1>1 DEF CommandsInv

(* So a step that leaves the disk alone need only be in order itself. *)
LEMMA DiskAlone ==
  ASSUME CommandsInv, NEW s \in Sessions, UNCHANGED env,
         UNCHANGED disk \/ (UNCHANGED <<venvs, packages>> /\ emptied' = emptied \ {s}),
         NEW l \in (Waits \cup {"idle", "exited"}) \ {"venv", "pip"}, NEW j \in Jobs,
         pc' = [pc EXCEPT ![s] = l], job' = [job EXCEPT ![s] = j],
         Session(s)'
  PROVE  CommandsInv'
<1>1. /\ Stays /\ Shapes' /\ pc'[s] = l
      /\ \A t \in Sessions \ {s} : pc'[t] = pc[t] /\ job'[t] = job[t] /\ Grows(t)
  BY DEF CommandsInv, Shapes, Stays, Grows, disk
<1>2. Ladder'
  BY <1>1 DEF CommandsInv, Ladder, disk
<1> QED
  BY <1>1, <1>2, OneSession

LEMMA StartedIsJob ==
  ASSUME CommandsInv, NEW cmd \in {"analyze", "engine-info", "doctor", "setup"},
         NEW ask \in EngineNames \cup {None}, NEW json \in BOOLEAN,
         NEW j, j = Started(cmd, ask, json)
  PROVE  /\ j \in Jobs /\ Python \in Pythons /\ IsMock \in BOOLEAN
         /\ j.cmd = cmd /\ j.ask = ask /\ j.json = json
         /\ j.python = Python /\ j.isMock = IsMock
         /\ j.out = None /\ j.child = None /\ \A e \in EngineNames : j.rows[e] = "pending"
<1>1. Python \in Pythons /\ IsMock \in BOOLEAN
  BY EnvTyped DEF CommandsInv
<1>2. PICK isMock \in BOOLEAN, python \in Pythons : isMock = IsMock /\ python = Python
  BY <1>1
<1>3. j = [noJob EXCEPT !.cmd = cmd, !.ask = ask, !.json = json, !.python = python,
                        !.isMock = isMock]
  BY <1>2 DEF Started
<1>4. j \in Jobs
  <2>1. j = [cmd |-> cmd, ask |-> ask, engine |-> None, python |-> python, isMock |-> isMock,
             json |-> json, plan |-> {}, rows |-> [e \in EngineNames |-> "pending"],
             child |-> None, out |-> None, exit |-> None]
    BY <1>3 DEF noJob
  <2> QED
    BY <2>1 DEF Jobs, Rows
<1>5. /\ j.cmd = cmd /\ j.ask = ask /\ j.json = json
      /\ j.python = python /\ j.isMock = isMock
      /\ j.out = noJob.out /\ j.child = noJob.child /\ j.rows = noJob.rows
  BY <1>3, NoJobIsJob DEF Jobs
<1> QED
  BY <1>1, <1>2, <1>4, <1>5, NoJobIsJob, Zenon

-----------------------------------------------------------------------------
(* The commands, one step at a time *)

(* A session without a command of its own. *)
LEMMA IdleKeeps ==
  ASSUME CommandsInv, NEW s \in Sessions, Misuse(s) \/ Prompt(s)
  PROVE  CommandsInv'
<1>1. CASE Misuse(s)
  <2> DEFINE j == [noJob EXCEPT !.exit = 2]
  <2>1. /\ j \in Jobs /\ j.out = None /\ j.child = None /\ j.cmd = None /\ j.exit = 2
        /\ j.isMock = FALSE /\ \A e \in EngineNames : j.rows[e] = "pending"
    BY DEF noJob, Jobs, Rows, Exits
  <2>2. pc' = [pc EXCEPT ![s] = "exited"] /\ job' = [job EXCEPT ![s] = j]
    BY <1>1 DEF Misuse, ExitWith, Wait
  <2> HIDE DEF j
  <2>3. pc'[s] = "exited" /\ job'[s] = j
    BY <2>2 DEF CommandsInv, Shapes
  <2>4. Session(s)'
    BY <2>1, <2>3 DEF Session, Underway, PickedIsThere, NotFake, Codes, HonestRows, Delivered, Exited
  <2> QED
    BY <1>1, <2>1, <2>2, <2>4, DiskAlone DEF Misuse
<1>2. CASE Prompt(s)
  <2>1. pc' = [pc EXCEPT ![s] = "idle"] /\ job' = [job EXCEPT ![s] = noJob]
    BY <1>2 DEF Prompt, ToPrompt, Wait
  <2>2. pc'[s] = "idle" /\ job'[s] = noJob
    BY <2>1 DEF CommandsInv, Shapes
  <2>3. Session(s)'
    BY <2>2, NoJobIsJob
    DEF Session, Underway, PickedIsThere, NotFake, Codes, HonestRows, Delivered, Exited
  <2> QED
    BY <1>2, <2>1, <2>3, NoJobIsJob, DiskAlone DEF Prompt, ToPrompt
<1> QED
  BY <1>1, <1>2

LEMMA AnalyzeKeeps ==
  ASSUME CommandsInv, NEW s \in Sessions, Analyze(s)
  PROVE  CommandsInv'
<1>1. PICK ask \in EngineNames \cup {None}, json \in BOOLEAN :
        LET j == Started("analyze", ask, json)
        IN IF ~GateMock(json) THEN ExitWith(s, [j EXCEPT !.exit = 3])
           ELSE IF ask = None /\ ~IsMock
             THEN Wait(s, "probe") /\ job' = [job EXCEPT ![s] = j]
           ELSE Wait(s, "run") /\ job' = [job EXCEPT ![s] =
                  [j EXCEPT !.engine = IF ask = None THEN "librosa" ELSE ask]]
  BY DEF Analyze
<1> DEFINE j == Started("analyze", ask, json)
           e == IF ask = None THEN "librosa" ELSE ask
<1>2. /\ j \in Jobs /\ Python \in Pythons /\ IsMock \in BOOLEAN
      /\ j.cmd = "analyze" /\ j.ask = ask /\ j.json = json
      /\ j.python = Python /\ j.isMock = IsMock
      /\ j.out = None /\ j.child = None /\ \A f \in EngineNames : j.rows[f] = "pending"
  BY StartedIsJob
<1>3. /\ UNCHANGED <<env, disk>> /\ (IsMock' = IsMock) /\ (GateMock(json)' = GateMock(json))
      /\ pc \in [Sessions -> Waits \cup {"idle", "exited"}] /\ job \in [Sessions -> Jobs]
  BY DEF Analyze, IsMock, GateMock, disk, CommandsInv, Shapes
<1>4. CASE ~GateMock(json)
  <2> DEFINE k == [j EXCEPT !.exit = 3]
  <2>1. pc' = [pc EXCEPT ![s] = "exited"] /\ job' = [job EXCEPT ![s] = k]
    BY <1>1, <1>4 DEF ExitWith, Wait
  <2> HIDE DEF j
  <2>2. /\ k \in Jobs /\ k.cmd = "analyze" /\ k.out = None /\ k.child = None /\ k.exit = 3
        /\ k.isMock = IsMock /\ \A f \in EngineNames : k.rows[f] = "pending"
    BY <1>2 DEF Jobs, Exits
  <2> HIDE DEF k
  <2>3. pc'[s] = "exited" /\ job'[s] = k
    BY <1>3, <2>1
  <2>4. k.isMock = TRUE
    BY <1>2, <1>4, <2>2 DEF GateMock
  <2>5. Session(s)'
    <3>1. Underway(s)' /\ PickedIsThere(s)'
      BY <2>3 DEF Underway, PickedIsThere
    <3>2. NotFake(s)' /\ HonestRows(s)' /\ Delivered(s)'
      BY <2>2, <2>3 DEF NotFake, HonestRows, Delivered, Exited
    <3>3. Codes(s)'
      BY <2>2, <2>3, <2>4, 3 # 0, Zenon DEF Codes, Exited
    <3> QED
      BY <3>1, <3>2, <3>3 DEF Session
  <2> QED
    BY <1>3, <2>1, <2>2, <2>5, DiskAlone
<1>5. CASE GateMock(json) /\ ask = None /\ ~IsMock
  <2>1. pc' = [pc EXCEPT ![s] = "probe"] /\ job' = [job EXCEPT ![s] = j]
    BY <1>1, <1>5 DEF Wait
  <2> HIDE DEF j
  <2>2. pc'[s] = "probe" /\ job'[s] = j
    BY <1>3, <2>1
  <2>3. Session(s)'
    BY <1>2, <1>3, <1>5, <2>2
    DEF Session, Underway, PickedIsThere, NotFake, Codes, HonestRows, Delivered, Exited
  <2> QED
    BY <1>2, <1>3, <2>1, <2>3, DiskAlone
<1>6. CASE GateMock(json) /\ ~(ask = None /\ ~IsMock)
  <2> DEFINE k == [j EXCEPT !.engine = e]
  <2>1. pc' = [pc EXCEPT ![s] = "run"] /\ job' = [job EXCEPT ![s] = k]
    BY <1>1, <1>6 DEF Wait
  <2> HIDE DEF j
  <2>2. /\ k \in Jobs /\ k.cmd = "analyze" /\ k.out = None /\ k.child = None
        /\ k.ask = ask /\ k.json = json
        /\ k.engine = e /\ e \in EngineNames /\ (ask # None => e = ask)
        /\ k.python = Python /\ k.isMock = IsMock /\ \A f \in EngineNames : k.rows[f] = "pending"
    BY <1>2 DEF Jobs
  <2> HIDE DEF k, e
  <2>3. pc'[s] = "run" /\ job'[s] = k
    BY <1>3, <2>1
  <2>4. Session(s)'
    BY <1>2, <1>3, <1>6, <2>2, <2>3
    DEF Session, Underway, PickedIsThere, NotFake, Codes, HonestRows, Delivered, Exited
  <2> QED
    BY <1>3, <2>1, <2>2, <2>4, DiskAlone
<1> QED
  BY <1>4, <1>5, <1>6

(* A probe that succeeds has found torch, and librosa is always there. *)
LEMMA ProbeKeeps ==
  ASSUME CommandsInv, NEW s \in Sessions, NEW kind, ProbeEnds(s, kind)
  PROVE  CommandsInv'
<1> DEFINE e == Default(kind)
           j == [job[s] EXCEPT !.engine = e]
<1>1. /\ job[s] \in Jobs /\ pc[s] = "probe" /\ Session(s) /\ job[s].python \in Pythons
      /\ job[s].cmd = "analyze" /\ GateMock(job[s].json)
      /\ job[s].out = None /\ job[s].child = None
      /\ job[s].ask = None /\ job[s].isMock = FALSE /\ job[s].isMock = IsMock
  <2>1. job[s] \in Jobs /\ pc[s] = "probe" /\ Session(s)
    BY DEF CommandsInv, Shapes, ProbeEnds
  <2>2. job[s].isMock \in BOOLEAN /\ ~job[s].isMock
    BY <2>1 DEF Jobs, Session, Underway
  <2> QED
    BY <2>1, <2>2 DEF Session, Underway
<1>2. e \in EngineNames /\ IsAvailable(job[s].python, e)
  <2>1. CASE kind = "ok"
    BY <2>1 DEF ProbeEnds, EngineInfoPy, Default
  <2>2. CASE kind # "ok"
    BY <2>2 DEF Default, IsAvailable
  <2> QED
    BY <2>1, <2>2
<1>3. /\ UNCHANGED <<env, disk>> /\ (IsMock' = IsMock)
      /\ pc' = [pc EXCEPT ![s] = "run"] /\ job' = [job EXCEPT ![s] = j]
  BY <1>1 DEF ProbeEnds, Wait, IsMock, GateMock, disk, Jobs
<1> HIDE DEF e
<1>4. /\ j \in Jobs /\ j.engine = e /\ j.cmd = job[s].cmd /\ j.ask = job[s].ask
      /\ j.python = job[s].python /\ j.isMock = job[s].isMock /\ j.json = job[s].json
      /\ j.out = job[s].out /\ j.child = job[s].child /\ j.rows = job[s].rows
  BY <1>1, <1>2 DEF Jobs
<1> HIDE DEF j
<1>5. pc'[s] = "run" /\ job'[s] = j
  BY <1>3 DEF CommandsInv, Shapes
<1>6. Session(s)'
  <2>1. Underway(s)'
    <3>1. GateMock(job[s].json)'
      BY <1>1, <1>3, <1>4, <1>5 DEF GateMock, IsMock
    <3> QED
      BY <1>1, <1>2, <1>3, <1>4, <1>5, <3>1 DEF Underway
  <2>2. PickedIsThere(s)'
    BY <1>2, <1>3, <1>4, <1>5 DEF PickedIsThere, IsAvailable, disk
  <2>3. NotFake(s)' /\ Codes(s)' /\ Delivered(s)'
    BY <1>1, <1>4, <1>5 DEF NotFake, Codes, Delivered, Exited
  <2>4. HonestRows(s)'
    BY <1>1, <1>3, <1>4, <1>5 DEF Session, HonestRows, Analyses, Swept, disk
  <2> QED
    BY <2>1, <2>2, <2>3, <2>4 DEF Session
<1> QED
  BY <1>3, <1>4, <1>6, DiskAlone

(* The sidecar's exit codes and the program's are the same four. *)
LEMMA CodesMatch ==
  ASSUME NEW kind \in Endings \cup {None}
  PROVE  /\ ChildExit(kind) \in Exits \cup {None} /\ ExitFor(kind) \in Exits
         /\ ChildExit(kind) # None => ExitFor(kind) = ChildExit(kind)
         /\ ExitFor(kind) = 0 <=> kind = "ok"
         /\ ExitFor(kind) = 3 => kind = "engine_unavailable"
<1>1. CASE kind = "ok"
  BY <1>1 DEF ChildExit, ExitFor, Thrown, ErrorToExit, KindExit, Exits
<1>2. CASE kind = "bad_input"
  BY <1>2 DEF ChildExit, ExitFor, Thrown, ErrorToExit, KindExit, Exits
<1>3. CASE kind \in {"decode_failed", "internal"}
  BY <1>3 DEF ChildExit, ExitFor, Thrown, ErrorToExit, KindExit, Exits
<1>4. CASE kind = "engine_unavailable"
  BY <1>4 DEF ChildExit, ExitFor, Thrown, ErrorToExit, KindExit, Exits
<1>5. CASE kind = None
  BY <1>5 DEF ChildExit, ExitFor, Thrown, ErrorToExit, KindExit, Exits
<1> QED
  BY <1>1, <1>2, <1>3, <1>4, <1>5

LEMMA AnalysisKeeps ==
  ASSUME CommandsInv, NEW s \in Sessions, NEW kind \in Endings \cup {None},
         CacheHit(s) \/ RunEnds(s, kind) \/ InfoEnds(s, kind)
  PROVE  CommandsInv'
<1>1. /\ job[s] \in Jobs /\ pc[s] \in {"run", "info"} /\ Session(s)
      /\ job[s].python \in Pythons /\ job[s].engine \in EngineNames
      /\ job[s].isMock = IsMock /\ GateMock(job[s].json)
      /\ job[s].cmd \in {"analyze", "engine-info"}
      /\ UNCHANGED <<env, disk>>
  BY DEF CommandsInv, Shapes, CacheHit, RunEnds, InfoEnds, Session, Underway
<1>2. job[s].cmd = "analyze" => pc[s] = "run"
  BY <1>1 DEF Session, Underway
<1>3. PICK out \in EngineNames \cup {"mock", None}, child \in Exits \cup {None}, exit \in Exits :
        /\ ExitWith(s, [job[s] EXCEPT !.out = out, !.child = child, !.exit = exit])
        /\ out # None => out = IF job[s].isMock THEN "mock" ELSE job[s].engine
        /\ child # None => exit = child
        /\ exit = 0 <=> out # None
        /\ pc[s] = "run" /\ exit = 3 => "engine_unavailable"
                                          \in AnalyzePy(job[s].python, job[s].engine, job[s].isMock)
  <2>1. CASE CacheHit(s)
    <3>1. ExitWith(s, [job[s] EXCEPT !.out = job[s].engine, !.child = job[s].child, !.exit = 0])
      BY <1>1, <2>1 DEF CacheHit, Jobs, ExitWith
    <3>2. job[s].child = None /\ job[s].isMock = FALSE
      BY <1>1, <2>1 DEF CacheHit, Session, Underway, Jobs
    <3>3. /\ job[s].engine \in EngineNames \cup {"mock", None}
          /\ job[s].child \in Exits \cup {None} /\ 0 \in Exits
      BY <1>1, <3>2 DEF Exits
    <3> USE <3>3
    <3> WITNESS job[s].engine \in EngineNames \cup {"mock", None},
                job[s].child \in Exits \cup {None}, 0 \in Exits
    <3> QED
      BY <1>1, <3>1, <3>2
  <2>2. CASE RunEnds(s, kind) \/ InfoEnds(s, kind)
    <3> DEFINE out == IF kind # "ok" THEN None
                      ELSE IF job[s].isMock THEN "mock" ELSE job[s].engine
    <3>1. ExitWith(s, [job[s] EXCEPT !.out = out, !.child = ChildExit(kind), !.exit = ExitFor(kind)])
      BY <1>1, <2>2 DEF RunEnds, InfoEnds, Jobs
    <3>2. out \in EngineNames \cup {"mock", None} /\ (out # None <=> kind = "ok")
      BY <1>1
    <3>3. pc[s] = "run" => kind \in AnalyzePy(job[s].python, job[s].engine, job[s].isMock)
      BY <2>2 DEF RunEnds, InfoEnds
    <3> HIDE DEF out
    <3>4. ChildExit(kind) \in Exits \cup {None} /\ ExitFor(kind) \in Exits
      BY CodesMatch
    <3> USE <3>2, <3>4
    <3> WITNESS out \in EngineNames \cup {"mock", None},
                ChildExit(kind) \in Exits \cup {None}, ExitFor(kind) \in Exits
    <3> QED
      BY <3>1, <3>2, <3>3, CodesMatch DEF out
  <2> QED
    BY <2>1, <2>2
<1> DEFINE j == [job[s] EXCEPT !.out = out, !.child = child, !.exit = exit]
<1>4. pc' = [pc EXCEPT ![s] = "exited"] /\ job' = [job EXCEPT ![s] = j]
  BY <1>3 DEF ExitWith, Wait
<1>5. /\ j \in Jobs /\ j.out = out /\ j.child = child /\ j.exit = exit
      /\ j.cmd = job[s].cmd /\ j.ask = job[s].ask /\ j.json = job[s].json
      /\ j.python = job[s].python /\ j.isMock = job[s].isMock /\ j.rows = job[s].rows
  BY <1>1 DEF Jobs
<1> HIDE DEF j
<1>6. pc'[s] = "exited" /\ job'[s] = j
  BY <1>4 DEF CommandsInv, Shapes
<1>7. Session(s)'
  <2>1. Underway(s)' /\ PickedIsThere(s)'
    BY <1>6 DEF Underway, PickedIsThere
  <2>2. NotFake(s)'
    <3>1. CASE out = None
      BY <1>5, <1>6, <3>1 DEF NotFake
    <3>2. CASE out # None /\ job[s].isMock
      BY <1>1, <1>3, <1>5, <1>6, <3>2 DEF NotFake, GateMock
    <3>3. CASE out # None /\ ~job[s].isMock
      <4>1. env.scripts /\ ~env.sidecar
        BY <1>1, <3>3 DEF IsMock
      <4>2. out = job[s].engine /\ out # "mock"
        BY <1>1, <1>3, <3>3
      <4>3. job[s].cmd = "analyze" /\ job[s].ask # None => job[s].engine = job[s].ask
        BY <1>1, <1>2 DEF Session, Underway
      <4> QED
        BY <1>1, <1>5, <1>6, <4>1, <4>2, <4>3 DEF NotFake
    <3> QED
      BY <3>1, <3>2, <3>3
  <2>3. Codes(s)'
    <3>1. job[s].cmd = "analyze" /\ job[s].ask = None /\ ~job[s].isMock =>
            exit # 3 \/ Swept(s)
      BY <1>1, <1>2, <1>3 DEF Session, PickedIsThere, AnalyzePy, Analyses
    <3> QED
      BY <1>1, <1>3, <1>5, <1>6, <3>1 DEF Codes, Exited, Swept, disk
  <2>4. HonestRows(s)'
    BY <1>1, <1>5, <1>6 DEF Session, HonestRows, Analyses, Swept, disk
  <2>5. Delivered(s)'
    BY <1>1, <1>5, <1>6 DEF Delivered, Exited
  <2> QED
    BY <2>1, <2>2, <2>3, <2>4, <2>5 DEF Session
<1> QED
  BY <1>1, <1>4, <1>5, <1>7, DiskAlone

LEMMA EngineInfoKeeps ==
  ASSUME CommandsInv, NEW s \in Sessions, EngineInfo(s)
  PROVE  CommandsInv'
<1>1. PICK ask \in EngineNames \cup {None}, json \in BOOLEAN :
        LET j == [Started("engine-info", ask, json) EXCEPT
                    !.engine = IF ask = None THEN "librosa" ELSE ask]
        IN IF ~GateMock(json) THEN ExitWith(s, [j EXCEPT !.exit = 3])
           ELSE Wait(s, "info") /\ job' = [job EXCEPT ![s] = j]
  BY DEF EngineInfo
<1> DEFINE i == Started("engine-info", ask, json)
           e == IF ask = None THEN "librosa" ELSE ask
           j == [i EXCEPT !.engine = e]
           k == [j EXCEPT !.exit = 3]
<1>2. /\ i \in Jobs /\ Python \in Pythons /\ IsMock \in BOOLEAN
      /\ i.cmd = "engine-info" /\ i.json = json /\ i.python = Python /\ i.isMock = IsMock
      /\ i.out = None /\ i.child = None /\ \A f \in EngineNames : i.rows[f] = "pending"
  BY StartedIsJob
<1>3. /\ UNCHANGED <<env, disk>> /\ (IsMock' = IsMock) /\ (GateMock(json)' = GateMock(json))
      /\ pc \in [Sessions -> Waits \cup {"idle", "exited"}] /\ job \in [Sessions -> Jobs]
  BY DEF EngineInfo, IsMock, GateMock, disk, CommandsInv, Shapes
<1>4. CASE ~GateMock(json)
  <2>1. pc' = [pc EXCEPT ![s] = "exited"] /\ job' = [job EXCEPT ![s] = k]
    BY <1>1, <1>4 DEF ExitWith, Wait
  <2> HIDE DEF i
  <2>2. /\ k \in Jobs /\ k.cmd = "engine-info" /\ k.out = None /\ k.child = None /\ k.exit = 3
        /\ \A f \in EngineNames : k.rows[f] = "pending"
    BY <1>2 DEF Jobs, Exits
  <2> HIDE DEF k
  <2>3. pc'[s] = "exited" /\ job'[s] = k
    BY <1>3, <2>1
  <2>4. Session(s)'
    BY <2>2, <2>3
    DEF Session, Underway, PickedIsThere, NotFake, Codes, HonestRows, Delivered, Exited
  <2> QED
    BY <1>3, <2>1, <2>2, <2>4, DiskAlone
<1>5. CASE GateMock(json)
  <2>1. pc' = [pc EXCEPT ![s] = "info"] /\ job' = [job EXCEPT ![s] = j]
    BY <1>1, <1>5 DEF Wait
  <2> HIDE DEF i
  <2>2. /\ j \in Jobs /\ j.cmd = "engine-info" /\ j.out = None /\ j.child = None /\ j.json = json
        /\ j.python = Python /\ j.isMock = IsMock /\ j.engine \in EngineNames
        /\ \A f \in EngineNames : j.rows[f] = "pending"
    BY <1>2 DEF Jobs
  <2> HIDE DEF j
  <2>3. pc'[s] = "info" /\ job'[s] = j
    BY <1>3, <2>1
  <2>4. Session(s)'
    BY <1>2, <1>3, <1>5, <2>2, <2>3
    DEF Session, Underway, PickedIsThere, NotFake, Codes, HonestRows, Delivered, Exited
  <2> QED
    BY <1>3, <2>1, <2>2, <2>4, DiskAlone
<1> QED
  BY <1>4, <1>5

(* doctor and setup, up to their first await. *)
LEMMA BeginKeeps ==
  ASSUME CommandsInv, NEW s \in Sessions, Doctor(s) \/ Setup(s)
  PROVE  CommandsInv'
<1>1. /\ UNCHANGED <<env, disk>> /\ (IsMock' = IsMock)
      /\ pc \in [Sessions -> Waits \cup {"idle", "exited"}] /\ job \in [Sessions -> Jobs]
  BY DEF Doctor, Setup, IsMock, disk, CommandsInv, Shapes
<1> PICK ask \in EngineNames \cup {None}, json \in BOOLEAN : ask = None /\ json = FALSE
  OBVIOUS
<1>2. CASE Doctor(s)
  <2> DEFINE j == Started("doctor", ask, json)
  <2>1. /\ j \in Jobs /\ Python \in Pythons
        /\ j.cmd = "doctor" /\ j.python = Python /\ j.isMock = IsMock
        /\ j.out = None /\ j.child = None /\ \A f \in EngineNames : j.rows[f] = "pending"
    BY StartedIsJob
  <2>2. pc' = [pc EXCEPT ![s] = "selftest"] /\ job' = [job EXCEPT ![s] = j]
    BY <1>2 DEF Doctor, Wait
  <2> HIDE DEF j
  <2>3. pc'[s] = "selftest" /\ job'[s] = j
    BY <1>1, <2>2
  <2>4. Session(s)'
    BY <1>1, <2>1, <2>3
    DEF Session, Underway, PickedIsThere, NotFake, Codes, HonestRows, Delivered, Exited
  <2> QED
    BY <1>1, <2>1, <2>2, <2>4, DiskAlone
<1>3. CASE Setup(s)
  <2>1. PICK plan \in {{"librosa"}, {"librosa", "btc"}} :
          job' = [job EXCEPT ![s] = [Started("setup", None, FALSE) EXCEPT !.plan = plan]]
    BY <1>3 DEF Setup
  <2> DEFINE i == Started("setup", ask, json)
             j == [i EXCEPT !.plan = plan]
  <2>2. /\ i \in Jobs /\ Python \in Pythons
        /\ i.cmd = "setup" /\ i.python = Python /\ i.isMock = IsMock
        /\ i.out = None /\ i.child = None /\ \A f \in EngineNames : i.rows[f] = "pending"
    BY StartedIsJob
  <2>3. pc' = [pc EXCEPT ![s] = "sync"] /\ job' = [job EXCEPT ![s] = j]
    BY <1>3, <2>1 DEF Setup, Wait
  <2> HIDE DEF i
  <2>4. /\ j \in Jobs /\ j.cmd = "setup" /\ j.python = Python /\ j.isMock = IsMock
        /\ j.out = None /\ j.child = None /\ \A f \in EngineNames : j.rows[f] = "pending"
    BY <2>2 DEF Jobs
  <2> HIDE DEF j
  <2>5. pc'[s] = "sync" /\ job'[s] = j
    BY <1>1, <2>3
  <2>6. Session(s)'
    BY <1>1, <2>2, <2>4, <2>5
    DEF Session, Underway, PickedIsThere, NotFake, Codes, HonestRows, Delivered, Exited
  <2> QED
    BY <1>1, <2>3, <2>4, <2>6, DiskAlone
<1> QED
  BY <1>2, <1>3

LEMMA DoctorKeeps ==
  ASSUME CommandsInv, NEW s \in Sessions,
         (\E e \in EngineNames : SelftestEnds(s, e)) \/ DoctorPrints(s)
  PROVE  CommandsInv'
<1>1. /\ job[s] \in Jobs /\ pc[s] = "selftest" /\ Session(s) /\ job[s].cmd = "doctor"
      /\ job[s].python \in Pythons /\ job[s].isMock = IsMock
      /\ job[s].out = None /\ job[s].child = None
      /\ UNCHANGED <<env, disk>> /\ (IsMock' = IsMock)
      /\ pc \in [Sessions -> Waits \cup {"idle", "exited"}] /\ job \in [Sessions -> Jobs]
  BY DEF CommandsInv, Shapes, SelftestEnds, DoctorPrints, Session, Underway, IsMock, disk
<1>2. CASE \E e \in EngineNames : SelftestEnds(s, e)
  <2> PICK e \in EngineNames : SelftestEnds(s, e)
    BY <1>2
  <2>1. PICK row \in {Selftest(job[s].python, e), "absent"} :
          /\ job' = [job EXCEPT ![s].rows[e] = row]
          /\ pc' = pc
    BY DEF SelftestEnds
  <2> DEFINE table == [job[s].rows EXCEPT ![e] = row]
             j == [job[s] EXCEPT !.rows = table]
  <2>2. /\ row \in Rows
        /\ row = "working" => env.scripts /\ Analyses(job[s].python, e)
    BY <2>1 DEF Selftest, Rows
  <2>3. /\ table \in [EngineNames -> Rows] /\ table[e] = row
        /\ \A f \in EngineNames : f # e => table[f] = job[s].rows[f]
    BY <1>1, <2>2 DEF Jobs
  <2>4. job' = [job EXCEPT ![s] = j] /\ pc' = [pc EXCEPT ![s] = "selftest"]
    BY <1>1, <2>1 DEF Jobs
  <2> HIDE DEF table
  <2>5. /\ j \in Jobs /\ j.rows = table /\ j.cmd = "doctor" /\ j.python = job[s].python
        /\ j.isMock = IsMock /\ j.out = None /\ j.child = None
    BY <1>1, <2>3 DEF Jobs
  <2> HIDE DEF j
  <2>6. pc'[s] = "selftest" /\ job'[s] = j
    BY <1>1, <2>4
  <2>7. HonestRows(s)'
    <3>1. ASSUME NEW f \in EngineNames, table[f] = "working"
          PROVE  env.scripts /\ (Analyses(job[s].python, f) \/ Swept(s))
      BY <1>1, <2>2, <2>3, <3>1 DEF Session, HonestRows
    <3> QED
      BY <1>1, <2>5, <2>6, <3>1 DEF HonestRows, Analyses, Swept, disk
  <2>8. Session(s)'
    BY <1>1, <2>5, <2>6, <2>7
    DEF Session, Underway, PickedIsThere, NotFake, Codes, Delivered, Exited
  <2> QED
    BY <1>1, <2>4, <2>5, <2>8, DiskAlone
<1>3. CASE DoctorPrints(s)
  <2> DEFINE j == [job[s] EXCEPT !.exit = 0,
                     !.engine = IF job[s].rows["btc"] = "working" THEN "btc" ELSE "librosa"]
  <2>1. pc' = [pc EXCEPT ![s] = "exited"] /\ job' = [job EXCEPT ![s] = j]
    BY <1>3 DEF DoctorPrints, ExitWith, Wait
  <2>2. /\ j \in Jobs /\ j.rows = job[s].rows /\ j.cmd = "doctor" /\ j.python = job[s].python
        /\ j.out = None
    BY <1>1 DEF Jobs, Exits
  <2> HIDE DEF j
  <2>3. pc'[s] = "exited" /\ job'[s] = j
    BY <1>1, <2>1
  <2>4. HonestRows(s)'
    BY <1>1, <2>2, <2>3 DEF Session, HonestRows, Analyses, Swept, disk
  <2>5. Session(s)'
    BY <2>2, <2>3, <2>4
    DEF Session, Underway, PickedIsThere, NotFake, Codes, Delivered, Exited
  <2> QED
    BY <1>1, <2>1, <2>2, <2>5, DiskAlone
<1> QED
  BY <1>2, <1>3

-----------------------------------------------------------------------------
(* Installing *)

(* A step in which a session adds to an environment, and is at the end of  *)
(* its command or at the next step of setup.                               *)
LEMMA ProvideKeeps ==
  ASSUME CommandsInv, NEW s \in Sessions, UNCHANGED env,
         NEW py \in {".venv", ".venv-btc"}, NEW pkgs \in SUBSET Installable, Provide(py, pkgs),
         IF py = ".venv" THEN pkgs \subseteq {"librosa"} ELSE "librosa" \in packages[".venv"],
         emptied' = emptied \/ emptied' = emptied \ {s},
         NEW l \in {"idle", "exited", "venv"}, NEW j \in Jobs,
         l = "venv" => "librosa" \in pkgs /\ py = ".venv",
         pc' = [pc EXCEPT ![s] = l], job' = [job EXCEPT ![s] = j],
         Session(s)'
  PROVE  CommandsInv'
<1>1. /\ venvs' = venvs \cup {py} /\ packages' = [packages EXCEPT ![py] = packages[py] \cup pkgs]
      /\ packages \in [Pythons -> SUBSET Installable] /\ venvs \subseteq {".venv", ".venv-btc"}
  BY DEF Provide, CommandsInv, Shapes
<1>2. Stays
  BY <1>1 DEF Stays
<1>3. \A t \in Sessions \ {s} : pc'[t] = pc[t] /\ job'[t] = job[t] /\ Grows(t)
  BY <1>1 DEF Grows, CommandsInv, Shapes
<1>4. Shapes'
  BY <1>1 DEF CommandsInv, Shapes
<1>5. Ladder'
  <2>1. pc'[s] = l /\ packages'[".venv"] \subseteq {"librosa"}
    BY <1>1 DEF CommandsInv, Shapes, Ladder
  <2>2. packages[".venv"] \subseteq packages'[".venv"]
    BY <1>1
  <2>3. \A q \in {".venv", ".venv-btc"} : q \notin venvs' => packages'[q] = {}
    BY <1>1 DEF CommandsInv, Ladder
  <2>4. ".venv-btc" \in venvs' => "librosa" \in packages'[".venv"]
    BY <1>1, <2>2 DEF CommandsInv, Ladder
  <2>5. ASSUME NEW t \in Sessions, pc'[t] \in {"venv", "pip"} PROVE "librosa" \in packages'[".venv"]
    BY <1>1, <1>3, <2>1, <2>2, <2>5 DEF CommandsInv, Ladder
  <2> QED
    BY <2>1, <2>3, <2>4, <2>5 DEF Ladder
<1> QED
  BY <1>2, <1>3, <1>4, <1>5, OneSession

(* A session that makes the btc environment, and goes on or is cut short:  *)
(* all the others are on record.                                           *)
LEMMA VenvKeeps ==
  ASSUME CommandsInv, NEW s \in Sessions, UNCHANGED env, pc[s] = "venv", MakeVenv(s),
         NEW l \in {"idle", "exited", "pip"}, NEW j \in Jobs,
         pc' = [pc EXCEPT ![s] = l], job' = [job EXCEPT ![s] = j],
         Session(s)'
  PROVE  CommandsInv'
<1>1. /\ venvs' = venvs \cup {".venv-btc"} /\ packages' = [packages EXCEPT ![".venv-btc"] = {}]
      /\ packages \in [Pythons -> SUBSET Installable] /\ venvs \subseteq {".venv", ".venv-btc"}
      /\ emptied' \subseteq Sessions
  BY DEF MakeVenv, CommandsInv, Shapes
<1>2. Stays
  BY <1>1 DEF Stays
<1>3. ASSUME NEW t \in Sessions \ {s} PROVE pc[t] # "idle" => Grows(t)
  <2>1. CASE ".venv-btc" \in venvs
    BY <2>1 DEF MakeVenv, Grows
  <2>2. CASE ".venv-btc" \notin venvs
    <3>1. packages[".venv-btc"] = {} /\ emptied' = emptied \ {s}
      BY <2>2 DEF MakeVenv, CommandsInv, Ladder
    <3> QED
      BY <3>1 DEF Grows
  <2> QED
    BY <2>1, <2>2
<1>4. \A t \in Sessions \ {s} : pc'[t] = pc[t] /\ job'[t] = job[t]
  BY DEF CommandsInv, Shapes
<1>5. Shapes'
  BY <1>1 DEF CommandsInv, Shapes
<1>6. Ladder'
  BY <1>1, <1>4 DEF CommandsInv, Ladder
<1> QED
  BY <1>2, <1>3, <1>4, <1>5, <1>6, OneSession

(* A session of setup that ends before it is through. *)
LEMMA CutShortKeeps ==
  ASSUME CommandsInv, NEW s \in Sessions, pc[s] # "exited", HalfDone(s), UNCHANGED env,
         NEW l \in {"idle", "exited"}, NEW j \in Jobs,
         pc' = [pc EXCEPT ![s] = l], job' = [job EXCEPT ![s] = j],
         Session(s)'
  PROVE  CommandsInv'
<1>1. CASE pc[s] = "venv" /\ MakeVenv(s)
  BY <1>1, VenvKeeps
<1>2. CASE UNCHANGED <<venvs, packages>> /\ emptied' = emptied \ {s}
  BY <1>2, DiskAlone
<1>3. CASE pc[s] = "sync" /\ Provide(".venv", {}) /\ emptied' = emptied \ {s}
  <2>1. ".venv" \in {".venv", ".venv-btc"} /\ {} \in SUBSET Installable /\ {} \subseteq {"librosa"}
    OBVIOUS
  <2> QED
    BY <1>3, <2>1, ProvideKeeps
<1>4. CASE /\ pc[s] = "pip" /\ emptied' = emptied \ {s}
           /\ \E package \in Installable : Provide(".venv-btc", {package})
  <2>1. PICK package \in Installable : Provide(".venv-btc", {package})
    BY <1>4
  <2>2. {package} \in SUBSET Installable /\ ".venv-btc" \in {".venv", ".venv-btc"}
    OBVIOUS
  <2>3. "librosa" \in packages[".venv"]
    BY <1>4 DEF CommandsInv, Ladder
  <2> QED
    BY <1>4, <2>1, <2>2, <2>3, ProvideKeeps
<1> QED
  BY <1>1, <1>2, <1>3, <1>4 DEF HalfDone

LEMMA StopKeeps ==
  ASSUME CommandsInv, NEW s \in Sessions, InstallFails(s) \/ UvMissing(s) \/ Interrupt(s)
  PROVE  CommandsInv'
<1>1. CASE InstallFails(s) \/ UvMissing(s)
  <2>1. PICK exit \in {4, Uncaught} : ExitWith(s, [job[s] EXCEPT !.exit = exit])
    BY <1>1 DEF InstallFails, InstallFailedExit, UvMissing
  <2>2. /\ job[s] \in Jobs /\ Session(s) /\ job[s].cmd = "setup" /\ job[s].out = None
        /\ \A e \in EngineNames : job[s].rows[e] = "pending"
        /\ UNCHANGED env
    BY <1>1 DEF CommandsInv, Shapes, InstallFails, UvMissing, Session, Underway
  <2> DEFINE j == [job[s] EXCEPT !.exit = exit]
  <2>3. pc' = [pc EXCEPT ![s] = "exited"] /\ job' = [job EXCEPT ![s] = j]
    BY <2>1 DEF ExitWith, Wait
  <2>4. /\ j \in Jobs /\ j.cmd = "setup" /\ j.out = None /\ j.exit # 0
        /\ j.rows = job[s].rows
    BY <2>2 DEF Jobs, Exits
  <2> HIDE DEF j
  <2>5. pc'[s] = "exited" /\ job'[s] = j
    BY <2>3 DEF CommandsInv, Shapes
  <2>6. Session(s)'
    BY <2>2, <2>4, <2>5
    DEF Session, Underway, PickedIsThere, NotFake, Codes, HonestRows, Delivered, Exited
  <2>7. CASE InstallFails(s)
    BY <2>2, <2>3, <2>4, <2>6, <2>7, CutShortKeeps DEF InstallFails
  <2>8. CASE UvMissing(s)
    BY <2>2, <2>3, <2>4, <2>6, <2>8, DiskAlone DEF UvMissing
  <2> QED
    BY <1>1, <2>7, <2>8
<1>2. CASE Interrupt(s)
  <2>1. /\ pc' = [pc EXCEPT ![s] = "idle"] /\ job' = [job EXCEPT ![s] = noJob]
        /\ HalfDone(s) /\ UNCHANGED env /\ pc[s] # "exited"
    BY <1>2 DEF Interrupt, ToPrompt, Wait
  <2>2. pc'[s] = "idle" /\ job'[s] = noJob
    BY <2>1 DEF CommandsInv, Shapes
  <2>3. Session(s)'
    BY <2>2, NoJobIsJob
    DEF Session, Underway, PickedIsThere, NotFake, Codes, HonestRows, Delivered, Exited
  <2> QED
    BY <2>1, <2>3, NoJobIsJob, CutShortKeeps
<1> QED
  BY <1>1, <1>2

(* uv gets through a step of setup. *)
LEMMA InstallKeeps ==
  ASSUME CommandsInv, NEW s \in Sessions, SyncEnds(s) \/ VenvEnds(s) \/ PipEnds(s)
  PROVE  CommandsInv'
<1>1. /\ job[s] \in Jobs /\ Session(s) /\ job[s].cmd = "setup"
      /\ job[s].out = None /\ job[s].child = None /\ UNCHANGED env
      /\ job[s].python \in Pythons /\ job[s].isMock = IsMock /\ (IsMock' = IsMock)
      /\ \A e \in EngineNames : job[s].rows[e] = "pending"
      /\ pc \in [Sessions -> Waits \cup {"idle", "exited"}] /\ job \in [Sessions -> Jobs]
      /\ packages \in [Pythons -> SUBSET Installable]
  BY DEF CommandsInv, Shapes, SyncEnds, VenvEnds, PipEnds, Session, Underway, IsMock
<1> DEFINE done == [job[s] EXCEPT !.exit = 0]
<1>2. /\ done \in Jobs /\ done.cmd = "setup" /\ done.out = None /\ done.plan = job[s].plan
      /\ done.rows = job[s].rows /\ done.python = job[s].python
  BY <1>1 DEF Jobs, Exits
<1> HIDE DEF done
(* The session went on, or is done with all it planned. *)
<1>3. ASSUME \/ pc'[s] \in {"venv", "pip"} /\ job'[s] = job[s] /\ "btc" \in job[s].plan
             \/ /\ pc'[s] = "exited" /\ job'[s] = done /\ "librosa" \in packages'[".venv"]
                /\ "btc" \in job[s].plan => packages'[".venv-btc"] = Installable \/ s \in emptied'
      PROVE  Session(s)'
  BY <1>1, <1>2, <1>3
  DEF Session, Underway, PickedIsThere, NotFake, Codes, HonestRows, Delivered, Exited
<1>4. CASE SyncEnds(s)
  <2>1. Provide(".venv", {"librosa"}) /\ emptied' = emptied /\ pc[s] = "sync"
    BY <1>4 DEF SyncEnds
  <2>2. "librosa" \in packages'[".venv"]
    BY <1>1, <2>1 DEF Provide
  <2>3. {"librosa"} \in SUBSET Installable /\ ".venv" \in {".venv", ".venv-btc"}
    OBVIOUS
  <2>4. CASE "btc" \in job[s].plan
    <3>1. pc' = [pc EXCEPT ![s] = "venv"] /\ job' = [job EXCEPT ![s] = job[s]]
      BY <1>1, <1>4, <2>4 DEF SyncEnds, Wait
    <3>2. Session(s)'
      BY <1>1, <1>3, <2>4, <3>1
    <3> QED
      BY <1>1, <2>1, <2>3, <3>1, <3>2, ProvideKeeps
  <2>5. CASE "btc" \notin job[s].plan
    <3>1. pc' = [pc EXCEPT ![s] = "exited"] /\ job' = [job EXCEPT ![s] = done]
      BY <1>4, <2>5 DEF SyncEnds, ExitWith, Wait, done
    <3>2. Session(s)'
      BY <1>1, <1>3, <2>2, <2>5, <3>1
    <3> QED
      BY <1>1, <1>2, <2>1, <2>3, <3>1, <3>2, ProvideKeeps
  <2> QED
    BY <2>4, <2>5
<1>5. CASE VenvEnds(s)
  <2>1. /\ pc[s] = "venv" /\ MakeVenv(s)
        /\ pc' = [pc EXCEPT ![s] = "pip"] /\ job' = [job EXCEPT ![s] = job[s]]
    BY <1>1, <1>5 DEF VenvEnds, Wait
  <2>2. "btc" \in job[s].plan
    BY <1>1, <2>1 DEF Session, Underway
  <2>3. Session(s)'
    BY <1>1, <1>3, <2>1, <2>2
  <2> QED
    BY <1>1, <2>1, <2>3, VenvKeeps
<1>6. CASE PipEnds(s)
  <2>1. /\ pc[s] = "pip" /\ "librosa" \in packages[".venv"] /\ emptied' = emptied
        /\ pc' = [pc EXCEPT ![s] = "exited"] /\ job' = [job EXCEPT ![s] = done]
    BY <1>6 DEF PipEnds, ExitWith, Wait, done, CommandsInv, Ladder
  <2>2. PICK pkgs \in SUBSET Installable :
          (s \notin emptied => pkgs = Installable) /\ Provide(".venv-btc", pkgs)
    BY <1>6 DEF PipEnds
  <2>3. /\ packages'[".venv"] = packages[".venv"]
        /\ packages'[".venv-btc"] = packages[".venv-btc"] \cup pkgs
    BY <1>1, <2>2 DEF Provide
  <2>4. packages'[".venv-btc"] = Installable \/ s \in emptied'
    BY <1>1, <2>1, <2>2, <2>3
  <2>5. Session(s)'
    BY <1>1, <1>3, <2>1, <2>3, <2>4
  <2>6. ".venv-btc" \in {".venv", ".venv-btc"}
    OBVIOUS
  <2> QED
    BY <1>1, <1>2, <2>1, <2>2, <2>5, <2>6, ProvideKeeps
<1> QED
  BY <1>4, <1>5, <1>6

LEMMA InvStep ==
  CommandsInv /\ [Next]_vars => CommandsInv'
<1> SUFFICES ASSUME CommandsInv, [Next]_vars PROVE CommandsInv'
  OBVIOUS
<1>1. CASE UNCHANGED vars
  BY <1>1 DEF vars, CommandsInv, Shapes, Ladder, Session, Underway, PickedIsThere, NotFake, Codes,
     HonestRows, Delivered, Exited, IsMock, GateMock, IsAvailable, Analyses, Swept
<1>2. ASSUME NEW s \in Sessions,
             \/ Misuse(s) \/ Analyze(s) \/ EngineInfo(s) \/ Doctor(s) \/ Setup(s)
             \/ Advance(s) \/ Interrupt(s) \/ Prompt(s)
      PROVE  CommandsInv'
  <2>1. CASE Misuse(s) \/ Prompt(s)
    BY <2>1, IdleKeeps
  <2>2. CASE Analyze(s) \/ EngineInfo(s) \/ Doctor(s) \/ Setup(s)
    BY <2>2, AnalyzeKeeps, EngineInfoKeeps, BeginKeeps
  <2>3. CASE Interrupt(s)
    BY <2>3, StopKeeps
  <2>4. CASE Advance(s)
    BY <2>4, ProbeKeeps, AnalysisKeeps, DoctorKeeps, InstallKeeps, StopKeeps
    DEF Advance, Answer
  <2> QED
    BY <1>2, <2>1, <2>2, <2>3, <2>4
<1> QED
  BY <1>1, <1>2 DEF Next

-----------------------------------------------------------------------------
(* The theorems: however many commands run side by side, in any order, and *)
(* wherever they are cut short.                                            *)

LEMMA InvAlways ==
  Spec => []CommandsInv
  BY InvInit, InvStep, PTL DEF Spec

(* The commands' state is always of its type: an exit code is one of those *)
(* the program has, a row of doctor one of the three words it prints.      *)
THEOREM CommandTypes ==
  Spec => []TypeOK
<1>1. CommandsInv => TypeOK
  BY DEF CommandsInv, Shapes, TypeOK
<1> QED
  BY <1>1, InvAlways, PTL

(* "sample chords never leak into a script or a bug report". *)
THEOREM NoFakeLeakHolds ==
  Spec => []NoFakeLeak
<1>1. CommandsInv => NoFakeLeak
  BY DEF CommandsInv, Session, NotFake, NoFakeLeak
<1> QED
  BY <1>1, InvAlways, PTL

(* A child's exit code comes out as the command's own, 0 goes with a       *)
(* document, and without --engine no analysis ends in an engine being      *)
(* unavailable: what a probe found is taken away only by a session that    *)
(* makes the btc environment anew.                                         *)
THEOREM ExitCodesHold ==
  Spec => []ExitCodes
<1>1. CommandsInv => ExitCodes
  BY DEF CommandsInv, Session, Codes, ExitCodes, CodesAgree, DefaultFallsBack, Exited
<1> QED
  BY <1>1, InvAlways, PTL

(* A setup that claims success has installed what it planned, whatever     *)
(* other sessions do or have left half done, short of making .venv-btc     *)
(* anew after it did; and the clean core is there in any case.             *)
THEOREM SetupDeliversHolds ==
  Spec => []SetupDelivers
<1>1. CommandsInv => SetupDelivers
  BY DEF CommandsInv, Ladder, Session, Delivered, SetupDelivers
<1> QED
  BY <1>1, InvAlways, PTL

(* What doctor calls working can analyse, whatever other sessions have     *)
(* done since, unless they emptied the very environment it looked into.    *)
THEOREM DoctorHonestHolds ==
  Spec => []DoctorHonest
<1>1. CommandsInv => DoctorHonest
  BY DEF CommandsInv, Session, HonestRows, DoctorHonest
<1> QED
  BY <1>1, InvAlways, PTL
=============================================================================
