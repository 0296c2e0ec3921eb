------------------------------ MODULE Commands ------------------------------
(***************************************************************************)
(* The commands of chordtui: analyze, engine-info, doctor and setup of     *)
(* cli/commands.ts, the router of index.tsx, core/engineResolve.ts, and    *)
(* the exit codes of the sidecar scripts, as run one after another and     *)
(* side by side (a setup in one terminal, an analysis in the next).        *)
(*                                                                         *)
(* A sidecar run is one step: what may happen within it is EngineRun's     *)
(* subject, and the cache's staleness rules are ResultCache's.             *)
(***************************************************************************)
EXTENDS Naturals

CONSTANTS
  Sessions,      \* terminals a command can run in
  Environments,  \* what a command inherits, as in EnvironmentType
  Uncaught,      \* the exit code of a rejected main, which the code does not choose
  None

EngineNames == {"librosa", "btc", "essentia"}
Pythons == {".venv", ".venv-btc", "system"}
Installable == {"librosa", "torch"}  \* the packages that make the difference
Endings == {"ok", "bad_input", "decode_failed", "engine_unavailable", "internal"}
Errors == {"EngineUnavailableError", "EngineSpawnError"}
EnvironmentType == [override : Pythons \cup {None},  \* CHORDTUI_PYTHON
                    sidecar : BOOLEAN,               \* CHORDTUI_SIDECAR is set
                    scripts : BOOLEAN,               \* the engine directory has the real scripts
                    tty : BOOLEAN,                   \* stdout is a terminal
                    btcRuns : BOOLEAN,               \* the btc model itself works
                    system : SUBSET Installable]  \* packages of python3

ASSUME CommandsAssumption ==
  /\ Environments \subseteq EnvironmentType
  /\ None \notin EngineNames \cup Pythons \cup Endings \cup Errors \cup {"mock"}
  /\ Uncaught \notin Nat

VARIABLES
  env,       \* one of Environments
  venvs,     \* which of the two virtual environments exist
  packages,  \* per interpreter: the packages it can import
  pc,        \* per session: what it waits for
  job,       \* per session: the command it runs or ran last
  emptied    \* sessions during whose command another one emptied .venv-btc

vars == <<env, venvs, packages, pc, job, emptied>>
disk == <<venvs, packages, emptied>>

Exits == {0, 2, 3, 4}
Rows == {"pending", "absent", "installed", "working"}
Jobs == [cmd : {"analyze", "engine-info", "doctor", "setup", None},
         ask : EngineNames \cup {None}, engine : EngineNames \cup {None},
         python : Pythons \cup {None}, isMock : BOOLEAN, json : BOOLEAN,
         plan : SUBSET EngineNames, rows : [EngineNames -> Rows],
         child : Exits \cup {None}, out : EngineNames \cup {"mock", None},
         exit : Exits \cup {Uncaught, None}]

Waits == {"probe", "run", "info", "selftest", "sync", "venv", "pip"}

TypeOK ==
  /\ env \in Environments
  /\ venvs \subseteq {".venv", ".venv-btc"}
  /\ packages \in [Pythons -> SUBSET Installable]
  /\ emptied \subseteq Sessions
  /\ pc \in [Sessions -> Waits \cup {"idle", "exited"}]
  /\ job \in [Sessions -> Jobs]

noJob == [cmd |-> None, ask |-> None, engine |-> None, python |-> None, isMock |-> FALSE,
          json |-> FALSE, plan |-> {}, rows |-> [e \in EngineNames |-> "pending"],
          child |-> None, out |-> None, exit |-> None]

(* Nothing is installed but what came with the system. *)
Init ==
  /\ env \in Environments
  /\ venvs = {}
  /\ packages = [py \in Pythons |-> IF py = "system" THEN env.system ELSE {}]
  /\ emptied = {}
  /\ pc = [s \in Sessions |-> "idle"]
  /\ job = [s \in Sessions |-> noJob]

-----------------------------------------------------------------------------
(* engineResolve.ts *)

(* resolvePython *)
Python == IF env.override # None THEN env.override
          ELSE IF ".venv" \in venvs THEN ".venv" ELSE "system"

(* resolveEngine: an explicit sidecar, else the real scripts, else the mock. *)
IsMock == env.sidecar \/ ~env.scripts

(* Mutant: a terminal is enough, even with --json. *)
GateMockTty(json) == IsMock => env.sidecar \/ env.tty

(* gateMock: may this command show what the resolved sidecar prints? *)
GateMock(json) == IsMock => env.sidecar \/ (env.tty /\ ~json)

-----------------------------------------------------------------------------
(* The sidecar scripts *)

Runnable(py) == py = "system" \/ py \in venvs

(* is_available: librosa is taken to be there, btc needs torch. *)
IsAvailable(py, e) == e = "librosa" \/ (e = "btc" /\ "torch" \in packages[py])

Analyses(py, e) ==
  /\ "librosa" \in packages[py]
  /\ e = "btc" => "torch" \in packages[py] /\ env.btcRuns

(* Mutant: an unexpected fault is left to Python's own exit code. *)
ChildExitUncaught(kind) ==
  CASE kind = "ok" -> 0 [] kind = "bad_input" -> 2 [] kind = "engine_unavailable" -> 3
    [] kind = "decode_failed" -> 4 [] kind = "internal" -> 1 [] kind = None -> None

(* ERROR_KIND_EXIT of protocol.py *)
ChildExit(kind) ==
  CASE kind = "ok" -> 0 [] kind = "bad_input" -> 2 [] kind = "engine_unavailable" -> 3
    [] kind \in {"decode_failed", "internal"} -> 4 [] kind = None -> None

(* How analyze.py, or the mock, can end; None: without a document. *)
AnalyzePy(py, e, isMock) ==
  {None} \cup
    IF ~Runnable(py) THEN {}
    ELSE IF isMock THEN {"ok"}
    ELSE IF ~IsAvailable(py, e) THEN {"engine_unavailable"}
    ELSE {"bad_input", "internal"} \cup (IF Analyses(py, e) THEN {"ok", "decode_failed"} ELSE {})

(* How engine_info.py can end: no import, no engine. *)
EngineInfoPy(py, e, isMock) ==
  {None} \cup
    IF ~Runnable(py) THEN {}
    ELSE IF isMock \/ (IsAvailable(py, e) /\ (e = "librosa" => "librosa" \in packages[py]))
      THEN {"ok"} ELSE {"engine_unavailable"}

(* Mutant: what imports is reported as working. *)
SelftestImport(py, e) ==
  IF ~env.scripts \/ ~Runnable(py) \/ ~IsAvailable(py, e) THEN "absent" ELSE "working"

(* selftest.py, as parseSelftest reads it: working means it analysed. *)
Selftest(py, e) ==
  IF ~env.scripts \/ ~Runnable(py) \/ ~IsAvailable(py, e) THEN "absent"
  ELSE IF Analyses(py, e) THEN "working" ELSE "installed"

-----------------------------------------------------------------------------
(* engine.ts and errorToExit, on the consumer's side *)

(* What a run throws, by how the child ended; None: nothing. *)
Thrown(kind) ==
  CASE kind = "engine_unavailable" -> "EngineUnavailableError"
    [] kind = None -> "EngineSpawnError" [] OTHER -> None

(* Mutant: the base class of every engine error is tested first. *)
ErrorToExitBaseFirst(thrown) == 4

(* errorToExit: subclasses first. *)
ErrorToExit(thrown) == IF thrown = "EngineUnavailableError" THEN 3 ELSE 4

(* ERROR_KIND_EXIT of types.ts *)
KindExit(kind) ==
  CASE kind = "ok" -> 0 [] kind = "bad_input" -> 2 [] kind = "engine_unavailable" -> 3
    [] kind \in {"decode_failed", "internal"} -> 4

ExitFor(kind) == IF Thrown(kind) # None THEN ErrorToExit(Thrown(kind)) ELSE KindExit(kind)

-----------------------------------------------------------------------------
(* Commands.  Whatever precedes the first await is one step. *)

Ready(s) == pc[s] = "idle"
Wait(s, what) == pc' = [pc EXCEPT ![s] = what]

Started(cmd, ask, json) ==
  [noJob EXCEPT !.cmd = cmd, !.ask = ask, !.json = json, !.python = Python, !.isMock = IsMock]

ExitWith(s, j) == Wait(s, "exited") /\ job' = [job EXCEPT ![s] = j]

(* A usage error: an unknown command, option or engine, a missing file. *)
Misuse(s) ==
  /\ Ready(s)
  /\ ExitWith(s, [noJob EXCEPT !.exit = 2])
  /\ UNCHANGED <<env, disk>>

(* cmdAnalyze, up to its first await. *)
Analyze(s) ==
  /\ Ready(s)
  /\ \E ask \in EngineNames \cup {None}, json \in BOOLEAN :
       LET j == Started("analyze", ask, json)
       IN IF ~GateMock(json) THEN ExitWith(s, [j EXCEPT !.exit = 3])
          ELSE IF ask = None /\ ~IsMock
            THEN Wait(s, "probe") /\ job' = [job EXCEPT ![s] = j]
          ELSE Wait(s, "run") /\ job' = [job EXCEPT ![s] =
                 [j EXCEPT !.engine = IF ask = None THEN "librosa" ELSE ask]]
  /\ UNCHANGED <<env, disk>>

(* Mutant: a probe that fails is a failure of btc, not its absence. *)
DefaultBtcAnyway(kind) == "btc"

(* pickDefaultEngine: btc if the probe finds it, librosa if anything fails. *)
Default(kind) == IF kind = "ok" THEN "btc" ELSE "librosa"

ProbeEnds(s, kind) ==
  /\ pc[s] = "probe"
  /\ kind \in EngineInfoPy(job[s].python, "btc", FALSE)
  /\ job' = [job EXCEPT ![s].engine = Default(kind)]
  /\ Wait(s, "run")
  /\ UNCHANGED <<env, disk>>

(* analyzeWithCache answers from what an earlier run of that engine left,  *)
(* unless --no-cache; essentia has never left anything.                    *)
CacheHit(s) ==
  /\ pc[s] = "run" /\ ~job[s].isMock /\ job[s].engine \in {"librosa", "btc"}
  /\ ExitWith(s, [job[s] EXCEPT !.out = job[s].engine, !.exit = 0])
  /\ UNCHANGED <<env, disk>>

(* The sidecar ran: its document is printed, or its failure reported. *)
RunEnds(s, kind) ==
  /\ pc[s] = "run"
  /\ kind \in AnalyzePy(job[s].python, job[s].engine, job[s].isMock)
  /\ ExitWith(s, [job[s] EXCEPT !.child = ChildExit(kind), !.exit = ExitFor(kind),
                    !.out = IF kind # "ok" THEN None
                            ELSE IF job[s].isMock THEN "mock" ELSE job[s].engine])
  /\ UNCHANGED <<env, disk>>

(* cmdEngineInfo; the script's default engine is librosa. *)
EngineInfo(s) ==
  /\ Ready(s)
  /\ \E ask \in EngineNames \cup {None}, json \in BOOLEAN :
       LET j == [Started("engine-info", ask, json) EXCEPT
                   !.engine = IF ask = None THEN "librosa" ELSE ask]
       IN IF ~GateMock(json) THEN ExitWith(s, [j EXCEPT !.exit = 3])
          ELSE Wait(s, "info") /\ job' = [job EXCEPT ![s] = j]
  /\ UNCHANGED <<env, disk>>

InfoEnds(s, kind) ==
  /\ pc[s] = "info"
  /\ kind \in EngineInfoPy(job[s].python, job[s].engine, job[s].isMock)
  /\ ExitWith(s, [job[s] EXCEPT !.child = ChildExit(kind), !.exit = ExitFor(kind),
                    !.out = IF kind # "ok" THEN None
                            ELSE IF job[s].isMock THEN "mock" ELSE job[s].engine])
  /\ UNCHANGED <<env, disk>>

(* cmdDoctor starts the three self-tests side by side ... *)
Doctor(s) ==
  /\ Ready(s)
  /\ Wait(s, "selftest")
  /\ job' = [job EXCEPT ![s] = Started("doctor", None, FALSE)]
  /\ UNCHANGED <<env, disk>>

(* ... one of them ends; a dead or slow one counts as not installed ... *)
SelftestEnds(s, e) ==
  /\ pc[s] = "selftest" /\ job[s].rows[e] = "pending"
  /\ \E row \in {Selftest(job[s].python, e), "absent"} :
       job' = [job EXCEPT ![s].rows[e] = row]
  /\ UNCHANGED <<env, disk, pc>>

(* ... and prints the table, with btc as the default if it works. *)
DoctorPrints(s) ==
  /\ pc[s] = "selftest" /\ \A e \in EngineNames : job[s].rows[e] # "pending"
  /\ ExitWith(s, [job[s] EXCEPT !.exit = 0,
       !.engine = IF job[s].rows["btc"] = "working" THEN "btc" ELSE "librosa"])
  /\ UNCHANGED <<env, disk>>

(* cmdSetup, once planSetup has found nothing wrong. *)
Setup(s) ==
  /\ Ready(s)
  /\ \E plan \in {{"librosa"}, {"librosa", "btc"}} :
       job' = [job EXCEPT ![s] = [Started("setup", None, FALSE) EXCEPT !.plan = plan]]
  /\ Wait(s, "sync")
  /\ UNCHANGED <<env, disk>>

(* uv adds these packages to an environment, which it makes if need be. *)
Provide(py, pkgs) ==
  /\ venvs' = venvs \cup {py}
  /\ packages' = [packages EXCEPT ![py] = @ \cup pkgs]

SyncEnds(s) ==
  /\ pc[s] = "sync"
  /\ Provide(".venv", {"librosa"})
  /\ IF "btc" \in job[s].plan
       THEN Wait(s, "venv") /\ UNCHANGED job
       ELSE ExitWith(s, [job[s] EXCEPT !.exit = 0])
  /\ UNCHANGED <<env, emptied>>

(* uv makes .venv-btc, replacing the one that is there: it asks first, on  *)
(* the terminal setup hands it, or simply does, as its version has it; one *)
(* that refuses is InstallFails.                                           *)
MakeVenv(s) ==
  /\ venvs' = venvs \cup {".venv-btc"}
  /\ packages' = [packages EXCEPT ![".venv-btc"] = {}]
  /\ emptied' = IF ".venv-btc" \in venvs
                  THEN (emptied \cup {t \in Sessions : pc[t] # "idle"}) \ {s}
                  ELSE emptied \ {s}

VenvEnds(s) ==
  /\ pc[s] = "venv"
  /\ MakeVenv(s)
  /\ Wait(s, "pip")
  /\ UNCHANGED <<env, job>>

(* uv pip installs all it was asked for, but has not seen what another     *)
(* session swept away behind it.                                           *)
PipEnds(s) ==
  /\ pc[s] = "pip"
  /\ \E pkgs \in SUBSET Installable :
       /\ s \notin emptied => pkgs = Installable
       /\ Provide(".venv-btc", pkgs)
  /\ ExitWith(s, [job[s] EXCEPT !.exit = 0])
  /\ UNCHANGED <<env, emptied>>

(* Mutant: a failing btc install only warns. *)
InstallFailedExitWarns(step) == IF step = "sync" THEN 4 ELSE 0

InstallFailedExit(step) == 4

(* What an installation cut short leaves behind: a first sync, maybe an    *)
(* empty environment, venv an emptied one (or none, which serves no one    *)
(* either), and pip maybe some of the packages.                            *)
HalfDone(s) ==
  \/ pc[s] = "venv" /\ MakeVenv(s)
  \/ /\ \/ UNCHANGED <<venvs, packages>>
        \/ pc[s] = "sync" /\ Provide(".venv", {})
        \/ pc[s] = "pip" /\ \E package \in Installable : Provide(".venv-btc", {package})
     /\ emptied' = emptied \ {s}

(* uv ends with an error. *)
InstallFails(s) ==
  /\ pc[s] \in {"sync", "venv", "pip"}
  /\ HalfDone(s)
  /\ ExitWith(s, [job[s] EXCEPT !.exit = InstallFailedExit(pc[s])])
  /\ UNCHANGED env

(* uv itself is missing: Bun.spawn throws, and nothing catches it. *)
UvMissing(s) ==
  /\ pc[s] = "sync"
  /\ ExitWith(s, [job[s] EXCEPT !.exit = Uncaught])
  /\ UNCHANGED <<env, disk>>

(* The shell prompts for the next command. *)
ToPrompt(s) ==
  /\ Wait(s, "idle")
  /\ job' = [job EXCEPT ![s] = noJob]
  /\ UNCHANGED env

Prompt(s) ==
  /\ pc[s] = "exited"
  /\ ToPrompt(s)
  /\ emptied' = emptied \ {s}
  /\ UNCHANGED <<venvs, packages>>

(* Ctrl-C: the command and its children are gone. *)
Interrupt(s) ==
  /\ pc[s] \in Waits
  /\ HalfDone(s)
  /\ ToPrompt(s)

(* The sidecar of an analysis or of engine-info answers. *)
Answer(s) ==
  \/ \E kind \in Endings \cup {None} : ProbeEnds(s, kind) \/ RunEnds(s, kind) \/ InfoEnds(s, kind)
  \/ CacheHit(s)

Advance(s) ==
  \/ Answer(s)
  \/ \E e \in EngineNames : SelftestEnds(s, e)
  \/ DoctorPrints(s)
  \/ SyncEnds(s) \/ VenvEnds(s) \/ PipEnds(s) \/ InstallFails(s) \/ UvMissing(s)

Next ==
  \E s \in Sessions :
    \/ Misuse(s) \/ Analyze(s) \/ EngineInfo(s) \/ Doctor(s) \/ Setup(s)
    \/ Advance(s) \/ Interrupt(s) \/ Prompt(s)

(* A sidecar that spawnAndCollect runs ends or is killed (EngineRun); no   *)
(* one sees to it that uv or a self-test that ignores SIGTERM ends.        *)
Spec == Init /\ [][Next]_vars /\ \A s \in Sessions : WF_vars(Answer(s))

-----------------------------------------------------------------------------
(* Safety *)

Exited(s, cmd) == pc[s] = "exited" /\ job[s].cmd = cmd

(* "sample chords never leak into a script or a bug report": fake output   *)
(* only where someone asked for it or looks at a terminal, and the output  *)
(* of a real engine is never labelled as another's.                        *)
NoFakeLeak ==
  \A s \in Sessions : job[s].out # None =>
    IF job[s].out = "mock" THEN env.sidecar \/ (env.tty /\ ~job[s].json)
    ELSE /\ job[s].cmd = "analyze" /\ job[s].ask # None => job[s].out = job[s].ask
         /\ env.scripts /\ ~env.sidecar

(* "the exit codes the engine and engine.ts share": a child's code comes   *)
(* out as the command's own, and 0 goes with a document on stdout.         *)
CodesAgree ==
  \A s \in Sessions : Exited(s, "analyze") \/ Exited(s, "engine-info") =>
    /\ job[s].child # None => job[s].exit = job[s].child
    /\ job[s].exit = 0 <=> job[s].out # None

(* Did another session empty the btc environment under this command? *)
Swept(s) == s \in emptied /\ job[s].python = ".venv-btc"

(* "not installed / probe failed: fall back to the clean core": without    *)
(* --engine no analysis ends in an engine being unavailable, unless the    *)
(* environment it was pinned to was emptied under it.                      *)
DefaultFallsBack ==
  \A s \in Sessions : Exited(s, "analyze") /\ job[s].ask = None /\ ~job[s].isMock =>
    job[s].exit # 3 \/ Swept(s)

(* What a shell script sees of a command is true.                          *)
ExitCodes == CodesAgree /\ DefaultFallsBack

(* A setup that claims success has installed what it planned, unless       *)
(* another one has emptied the environment since, and btc is never there   *)
(* without the clean core it falls back to.                                *)
SetupDelivers ==
  /\ \A s \in Sessions : Exited(s, "setup") /\ job[s].exit = 0 =>
       /\ "librosa" \in packages[".venv"]
       /\ "btc" \in job[s].plan => packages[".venv-btc"] = Installable \/ s \in emptied
  /\ ".venv-btc" \in venvs => "librosa" \in packages[".venv"]

(* "working means the engine's analyze() actually RAN": what doctor calls  *)
(* working can analyse, while the other terminals install what they like,  *)
(* unless they empty the environment doctor looked into.                   *)
DoctorHonest ==
  \A s \in Sessions : Exited(s, "doctor") => \A e \in EngineNames :
    job[s].rows[e] = "working" =>
      env.scripts /\ (Analyses(job[s].python, e) \/ Swept(s))

(* "btc is now the default accuracy engine" once setup is through: a probe  *)
(* that is answered finds it.                                              *)
InstalledIsDefault ==
  [][\A s \in Sessions, kind \in Endings :
       ProbeEnds(s, kind) /\ env.override = None /\ packages[".venv-btc"] = {"librosa", "torch"}
         => job'[s].engine = "btc"]_vars

=============================================================================
