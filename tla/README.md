# chordTUI in TLA+

chordTUI detects the key and the chords of an audio file. A TypeScript front
end (a command line and a terminal UI, run by Bun) spawns a Python *sidecar*
per analysis, reads one JSON document from its stdout and NDJSON progress from
its stderr, validates the document, caches it and shows it. This directory
models the parts in which time, failure and order matter, and the rules that
are easy to get wrong in the others, checks them with TLC, and proves with TLAPS
the safety of the parts that are concurrent (sidecar runs, app, cache, commands)
and of those that transform data: the command line, the chord pipeline, and a
sidecar's stderr and stdout and what is shown of them. Every invariant that a run
checks is also proved; liveness is checked.

Paths below are relative to the repository's root.

## 1. Inventory

| Part | Code | State it keeps | Operations | Talks to |
| --- | --- | --- | --- | --- |
| Sidecar runs | `src/core/engine.ts` | one spawned child, two pipe readers, wall-clock timer, grace timer, abort reason, listener on the caller's signal | `runEngine`, `runEngineInfo` over `spawnAndCollect` | child: argv, pipes, SIGTERM / SIGKILL; caller: a promise, `onEvent`, an `AbortSignal` |
| Interactive app | `src/hooks/useAnalysis.ts`, `src/components/App.tsx`, `Header.tsx`, `StatusBar.tsx`, `FilePicker.tsx` | the reducer's `AnalysisState`; refs to the current controller and run id; mode, view, probe result | pick, cancel, quit, mode and file keys; preview and upgrade legs; mount probe | `runEngine` and the cache, through promises; React commits |
| Result cache | `src/core/cache.ts` | JSON files named by sha256(audio) + engine | `cacheGet`, `cachePut`, `analyzeWithCache` | other processes, through the directory; `runEngine` |
| Commands | `src/index.tsx`, `src/cli/commands.ts`, `src/core/engineResolve.ts` | none of their own; virtual environments on disk | `analyze`, `engine-info`, `doctor`, `setup` | `uv`, the sidecar scripts, the cache |
| Sidecar scripts | `engine/analyze.py`, `engine_info.py`, `selftest.py`, `protocol.py` | none | one document and an exit code each | the engines; the front end |
| Chord segmentation | `engine/engines/librosa_engine.py`, `btc_engine.py` | none | smoothing, run-length coding, stitching | model and feature code |
| Contract | `src/core/validate.ts`, `engine/protocol.py`, `engine/schema.json`, `engine/engine-info.schema.json` | none | `print_json`, `parseEngineOutput`, `validateAnalysis`, `validateEngineInfo` | sidecar runs, cache |
| Progression, spelling | `src/core/music.ts` | none | `collapseProgression`, chord labels, numerals, key names | commands, panels |
| Panels and display | `src/core/panels.ts`, `src/components/*` | none | layout | hook |

**What is hard here.** A run has five racing parties: the child, two pipe
readers, two timers and the caller's signal; it must settle once, reap its
child, and clean up on every path out. The hook starts legs whose promises
settle long after the user has moved on, through closures of an older render.
The cache is shared by processes that hash, test, read and write without a
lock. Setup is three installations any of which may fail, into two
environments, of which a resolver in another file picks one. The chord
pipeline is one contract implemented in two languages around one tolerance, and
stated a third time in two JSON schemas, which know of no tolerance. stderr is cut into chunks wherever the
pipe likes, also inside a character. A frame of the UI is painted by three
components that do not know of each other, from a state that has moved on since,
and its keys go to whichever control has the focus. Command lines are scanned
twice, by hand.

**What makes each part correct.** *Runs*: no orphan, no leak, no truncated
result, first reason wins, always settles. *App*: what is on screen belongs to
the live run, phases have a leg behind them, no late leg disturbs, quitting
aborts. *Cache*: entries are honest, answers fit the question, never fails a
run. *Commands*: no sample data where nobody looks, exit codes agree, success
means installed, a word means the same wherever it stands. *Pipeline*: whatever
is assembled passes the validator and shows what was heard. *Contract*: both
sides accept the same documents, and what was accepted once is accepted again.
*stderr*: every line is surfaced once, as it completes, undamaged. *Spelling*: a
label denotes the pitch class that was heard, a numeral says what is diatonic.
*Screen*: no frame contradicts itself, and typing is never a command.

The full list of hazards, each at its line, is in `PROJECT.json`.

## 2. Modules

```
EngineOutcomes ── EnginePromise            what a run may settle with; the abstract promise
      │                ▲ implemented by
      ├── EngineRun ───┘ ── EngineRunProofs   one sidecar run; its theorems
      │                OneRun                 an app without concurrency
      │                ▲ implemented by
      └── UseAnalysis ─┘ ── Screen            hook + keys, over promises only; the frames
                              └── UseAnalysisProofs   the theorems of both
StderrFraming ─┐
Contract ──────┼── SidecarOutput ── SidecarProofs   what a sidecar says: heard, judged, cached, shown
Spelling ──────┘
Uncached                                      what callers believe: that there is no cache
      ▲ implemented by
ResultCache ── ResultCacheProofs              processes over one cache directory
CommandLine ── CommandLineProofs              the words after a command
Commands ── CommandsProofs                    analyze, engine-info, doctor, setup
ChordPipeline ── PipelineProofs               labels -> chords -> contract -> cells
Induction                                     what the proofs about loops rest on
```

The outermost of each have an `MC` module that names the bounds, and a `.cfg` per
question.
Definitions named `...Late`, `...Always` and so on and introduced by "Mutant:"
are plausible bugs; no specification uses them. They are there to be swapped
in for the definition they distort, which the property named with them in
`PROJECT.json` must notice.

### EngineOutcomes, EnginePromise, EngineRun

A step of `EngineRun` is what the event loop runs between two awaits, or one
step of the child. `pc` is where `spawnAndCollect` is; `reason`, `listening`,
`timer`, `killTimer` are its locals; `leg` the two readers; `child`, `code`,
`posted`, `piped`, `open` the operating system's side.

| Action | Code (engine.ts) |
| --- | --- |
| `CallEmpty`, `CallMissing`, `CallSpawn` | 193-254: the prologue, `Bun.spawn`, the readers' start; `HookSignal` and `HookLadder` are the two places an abort is hooked up |
| `CallerAborts`, `TimeoutFires`, `GraceExpires` | 207-246: `trigger`, `onAbort`, the SIGKILL timer |
| `ReadChunk`, `ReadLine`, `EndOfStream` | 136-178: `readStdoutCapped` with its cap, `readStderr` |
| `Unwind`, `Conclude` | 250-304: the `finally`, then the ladder of verdicts |
| `Child...` | what a sidecar may do: print, stall on a full pipe, close, exit, crash, obey or ignore SIGTERM |

stdout is a number of chunks and one of five payloads; stderr a number of
lines. An exit by SIGKILL yields `null` or 137: which of the two the runtime
reports is left open. `EnginePromise` says what callers may rely on: one call,
settled once, with a result only if nobody had aborted, and settled in the
end. `UseAnalysis` uses only `PermittedOutcomes`, so the two compose through
that module.

### UseAnalysis and OneRun

`state` is the reducer's; `view` is the last committed render, which the keys
and `analyze` close over; `runs[r]` is the chain of promises of the r-th
`analyze` call, with its own signal, and stays behind when superseded.
`PreviewSettles` and `UpgradeSettles` are the two continuations, `Commit` a
React render, `ProbeSettles` the mount probe, `Pick`, `EscapeKey`, `QuitKey`,
`FileKey`, `ModeKey` the keys, and `Unmount` the effect's cleanup.

`OneRun` is what whoever looks at the app may believe: one run at a time, a
preview first, perhaps something better after it, and a busy screen that does
not stay busy. It knows no superseded run, no closure and no late answer.
`UseAnalysis` implements it under a mapping that reads the reducer's state only
(`Seen`), so `LooksLikeOneRun` says that none of the rest is ever seen.

### Screen

`Screen` extends `UseAnalysis` with what it leaves out between state and user.
`Paint` is its `Commit` with the frame (`Body` from App.tsx, `Header`,
`StatusLine`, `Hints`) and with what mounting the picker does: the list, or the
input if there is nothing to list, takes the focus. `TypeText` edits the input,
`Open` is its enter or the list's, `Quit` the q key where the input does not
keep it for itself. Everything else happens as before.

### SidecarOutput: StderrFraming, Contract, Spelling

What one child says, to the screen of the next run. `ReadStderr` is a step of
`StderrFraming`, `HandleDocument` one of `Contract`, which starts once both
readers are through readers are through (`BothRead`, the `Promise.all` of engine.ts:251), and `Show`
spells what came back out of the cache: `Panels` is the key and, for each run of
`collapseProgression`, its label and numeral. (The times of runs are `ChordPipeline`'s.), and `Show`
spells what came back out of the cache.

`StderrFraming` is `readStderr` and `handleStderrLine` (engine.ts:92-152), byte by
byte. `ReadChunk(n)` is one turn of the read loop with a chunk of any size:
`Decode` is the streaming decoder, whose incomplete character is `held`, `Framed`
the inner loop over the buffer `buf`, `handleStderrLine` the parse and the
reduction to a typed event. `EndOfStream` is the flush after the loop. A call of
`onEvent` may throw (`throwsAt`), which ends the reader at that call. The
reference is the text as a whole, split by definition and never in chunks. JSON
is a table from texts to values, trimming knows one blank, UTF-8 one character of
two bytes.

`Contract` takes a document from an engine (`WriteResult`: `dumps` refuses NaN, and
the exit code goes by the kind of failure), over stdout (`Receive`: exit 3 is an
unavailable engine whatever was printed, else `runEngine` or `runEngineInfo`, i.e.
`validate.ts` as a predicate, since a check that fails throws), into a cache entry
and back. The JSON schemas are written down a second time, as their keywords say,
and the two are compared, with the rules no schema can state (contiguity, roots)
given independently. That goes for the lists of words too, of engines, capabilities,
kinds of confidence and of error: the validator's are separate from each schema's
(`AnalysisWords`, `InfoWords`), and error kinds are compared with those `protocol.py` has an
exit code for. A version is one of the texts the pattern `^1\.\d+\.\d+$` means; that
Python's `re`, which jsonschema hands it to, would also let a newline follow, or read
digits of other scripts, is left out: engines send a constant. A JSON value is a tuple with its type; `IsDocument` holds of
what is a tree of such values, nested no deeper than `Depth`.

`Spelling` has no state: `formatChordLabel`, `romanNumeral`, `keyPrefersFlats` and
`formatKey` are operators on names and pitch classes. What the parser of names makes of
a text is the constant `Notes`, a letter and an alteration for each text that is a name,
with a small letter or blanks around it as well. `keyPrefersFlats` scans the tonic's text
itself, neither trimmed nor in one case, and would take a small b for a flat: what it
makes of a tonic that is not written with a capital (`Capitals`) is the constant
`FlatTexts`, and key signatures are compared for capitals only, as engines write them. The references are music theory: scales and chords as sets of pitch classes, key
signatures as positions on the circle of fifths.

### ResultCache and Uncached

`cache[c][e]` is the file for content `c` and engine `e`; its file system
operations are steps of their own wherever another process can make a difference
between them: the first hash, the read, the re-hash, the truncation and the write.
The existence test and the read are one step: no code deletes an entry, and one that
appeared or vanished in between is a miss like any other, which the `catch` around the
read sees to. A process can be killed between any two steps; a write leaves its
analysis, or, when the disk fills or another writer's text overlaps it, something
torn; audio can be replaced and an engine upgraded.

`Uncached` has no cache and no disk: whoever asks is answered with an analysis of
the audio as it was when asked, by the engine asked for and no older than
expected. A call may fail (`Fail`) before there is an analysis and not after: from then
on nothing but the process's death (`Vanish`) keeps it from the caller, so a `cachePut`
that threw, for whatever reason, would be no step of `Uncached`. `ResultCache` implements it (`LooksUncached`), a hit being
taken for a computation; `--no-cache` is then a matter of speed and of what is
left on disk (`BypassLeavesCache`), never of the answer.

### CommandLine

`parseFlags` (index.tsx) and the loop of `planSetup` (commands.ts) are the same
scan over different flags, so they share actions: one word a step, `Flag`,
`Engine`, `Unknown` and `Positional` the branches of the body, `Decide` what
`main` and `planSetup` then make of it. The reference is the set `Free` of words
that are no option's value.

### Commands

One action per stretch between awaits of a command; a child's whole run is one
step, since `EngineRun` covers its inside. `packages` is what each interpreter
can import, which the three steps of setup change, whole or cut short
(`HalfDone`). `uv venv` may replace the `.venv-btc` that is there (`MakeVenv`): it asks
first, on the terminal commands.ts:530 hands it, older versions do not ask, and
one that refuses is `InstallFails`. So a second setup can empty the environment
under a command in another terminal. `emptied` keeps on record under whose command
that happened, and it is all that the properties except: a default analysis, a setup or
a doctor that found btc in an environment which was then emptied (`Swept`). A setup
whose environment was emptied behind its back may end with any part of its packages.
An explicit `CHORDTUI_SIDECAR` is taken to behave like the bundled mock.
`Prompt`, an external action, is the shell between two commands: the process is
gone, what it left on disk stays. `Environments` enumerates what a command inherits: variables, a terminal or a pipe, what came with the
system.

### ChordPipeline

An algorithmic module: from an arbitrary labelling of frames to the cells on
the screen, in the stages of the code. Time is counted in ticks of the
engines' rounding. The constants keep the orderings of the real ones: the
tolerance is below one printed millisecond, that below one frame.

## 3. Runs

| Run | States | Question |
| --- | --- | --- |
| `engine_run` | 122,205 | is every path out of a run clean, final and truthful? |
| `engine_run_diligent` | 122,205 | are both pipes drained, with no timer to help? |
| `use_analysis` | 375,022 | do reducer, refs, renders and frames stay in step, and look like one run? |
| `cancel_late_timeout` | violation | does "cancelling" end? |
| `probe_race` | violation | is every accurate run upgraded if btc is there? |
| `sidecar_output` | 139,904 | does what a sidecar says arrive whole, on stderr, in the cache, on the screen? |
| `cache` | 973,390 | is the cache honest and otherwise not seen, under crashes, races and upgrades? |
| `cache_edit` | violation | also when audio is replaced during its analysis? |
| `command_line` | 187,266 | does a word mean the same wherever it stands? |
| `commands` | 926,612 | do the four commands keep what they print? |
| `btc_default` | violation | is btc the default once installed? |
| `chord_pipeline` | 169,417 | does every labelling become valid, truthful chords? |

**Bounds.** *Runs*: a cap of one chunk, pipes of one item, two chunks and two
lines: enough for a child to overflow the cap, to block on either pipe, and to
have printed more than was read. *App*: two runs of two files (one superseding
the other, of the same file or not), one stage, every kind of late failure, and
the mock, whose data must be labelled. *Cache*: two processes, two
contents of one file, two engines of which btc has two versions; entries of
different keys never meet in the code, so more of them add nothing. *Commands*:
two terminals; six environments, one for each way `resolveEngine` and
`gateMock` can go: as installed, pinned to `.venv-btc` with a model that runs and with one
that does not, an explicit sidecar in a pipe, the bundled mock in a terminal and in a pipe. *Pipeline*: seven librosa frames with a minimum run of
three (a short run, a survivor and a second short run), four btc frames with
instances of two (padding after a full and a partial last instance).
*Sidecar output*: on stderr three lines of six forms (events, half-good events, blanks, a
character of two bytes, a broken one), cut off after any byte, and every
division into chunks, with a listener that throws at its first or second call;
on stdout documents of up to two chords, each with one field at a time missing,
mistyped, out of range, repeated or unknown, and with pairs of faults among the
times and names of the chords, the only fields that are judged together, and with two
chords that drift below zero; the tolerance is two, so that just within, at and
beyond it differ, every word of every list stands in some document, and `Depth` is six, deeper than any of these is nested. One
pipe varies while the other carries something plain: the two readers share
nothing but the moment they are both through. For the spelling, in every key a
song of all chords, the first of them twice in a row: keys with up to one accidental and
two tonics in other writing, roots with up to two, and all of
btc's qualities; pitch classes are finite, and what lies outside, a name with more
accidentals, is the matter of the proofs. *Command line*: four
words, enough for an option, its value and a word on each side of the two.

**Fairness.** `EngineRun`: weak fairness of the parent's own steps, of both
timers (an armed timer fires unless cleared) and of SIGKILL taking effect; no
fairness for the child, so `KeepsPromise`, which includes that a run
settles, holds of children that hang.
`engine_run_diligent` uses `DiligentSpec` instead, fair to a child that prints
and exits and to no timer. `UseAnalysis`: promises settle (that is
`EnginePromise`), renders commit, the unmount follows a quit; nothing is
assumed of the user, except in `EscapeGetsOut`, which speaks of one who keeps
pressing escape and says so as its premise. `OneRun` is fair to a run that
nobody has cancelled and promises nothing of one that is being stopped, which is
where `cancel_late_timeout` shows the app to hang. In `Screen`, which the run
checks, a commit is a paint. `Commands` is fair only to the sidecars of `analyze` and
`engine-info` (`Answer`), which `spawnAndCollect` sees to the end of; `uv` has no
timeout, and doctor's self-test timer sends SIGTERM only, so nothing is said of when
`setup` and `doctor` end. None of its properties is a liveness property. The others have no liveness property: they have no wait,
or are straight lines.

**Deadlock** is not checked where the system ends: a settled run, an unmounted
app, a finished pipeline, a song on the screen, a command line understood. It
is checked for the cache and the commands, which go on for ever.

## 4. Where code and documents disagree

* **`cancel_late_timeout`** - a run whose timeout fired first keeps that
  reason; escape pressed in its grace window makes the phase "cancelling", the
  timeout error is then dropped by the reducer, and nothing leaves that phase
  until a new file is picked.
* **`probe_race`** - a file picked before the probe has committed stays a
  preview, without a note, although btc is installed.
* **`cache_edit`** - `cachePut` hashes after the analysis, so audio replaced
  meanwhile is filed with its predecessor's chords.
* **`btc_default`** - `resolvePython` never looks into `.venv-btc`.

Seen while modelling, and not the subject of a run:

* The timer and the listener outlive a run whose `Bun.spawn` throws, since both
  are in place before the `try` (engine.ts:207-221): the process lingers for the
  timeout. `SettledClean` speaks of runs that had a child.
* The scripts' presence counts as an engine (engineResolve.ts:61): analyze with
  nothing installed fails instead of falling back to the mock, which index.tsx
  has it do.
* A capped stdout makes `readStdoutCapped` throw past the check of the reason, so
  a cancelled run may settle as a failed spawn. `EnginePromise` permits it, and
  `FirstReasonWins` excepts it.
* Nobody aborts the mount probe: quitting leaves its Python child, for at most the
  probe's timeout.
* After a cancelled preview the body says "analyzing" and the status line "ready";
  `TellsOneStory` allows just this frame, so no property speaks against it.
* In the picker, over a run that is going on, escape cancels where the hint says
  it quits.
* Each chord may start a tolerance before the last one's end, the first one a
  tolerance before zero: `validate.ts` accepts n chords that go as far as n
  tolerances below zero, where `schema.json` refuses any negative time. It is the
  only difference: `AgreeButForTolerance` holds, with that bound and no higher one.
* `doctor` names btc the default when it works, `analyze` takes it when it is
  installed.
* Without `uv`, setup rejects instead of returning a code.
* An `--engine` at the end of the line is no option at all.
* C7 in C major is I7, although its Bb is not in the key.
* E flat major is shown as D# major.
* The TUI's preview passes no expected engine to the cache (useAnalysis.ts:264), so its
  librosa leg is served entries of an earlier version after an upgrade; its btc leg
  passes what the probe found (useAnalysis.ts:284). The CLI only checks when it has probed.
* `noteToPc` reads names in either case, `keyPrefersFlats` takes a small b for a flat: B
  major, had an engine written it "b", would be spelled with flats.
* A run of flicker at the very start may survive shorter than the minimum,
  having no preceding run to join (librosa_engine.py:39-41, 130).
* A second setup meets an environment that exists: with a `uv` that refuses it
  fails, with one that replaces it takes btc away until it has put it back. A first
  setup still in `uv pip install` then reports a success that is not there.

## 5. Proofs

`EngineRunProofs` proves, for every cap, pipe capacity, amount of output and
child:

| Theorem | States |
| --- | --- |
| `TypeCorrect` | `Spec => []TypeOK` |
| `NoOrphanHolds` | a settled run's child is dead or has SIGKILL posted |
| `SettledCleanHolds` | a settled run that had a child holds no timer or listener |
| `AbortPursuedHolds` | an abort is never lost and always has its next rung pending |
| `ResultIsCompleteHolds` | a result is read from a complete stdout within the cap |
| `FirstReasonWinsHolds` | a recorded reason never changes, and decides how the run settles unless a reader threw |
| `GraceRespectedHolds` | no SIGKILL before the grace is over, but by the cleanup |
| `ImplementsPromise` | `Spec => Promise!SafeSpec` under the mapping in `EngineRun` |

The only assumptions are those of `EngineRunAssumption`.

None of the invariants is inductive as it stands, so three are strengthened:

* `LadderInv` holds `NoOrphan`, `SettledClean` and the two halves of
  `AbortPursued` together, with what ties `pc` to the rest: nothing is armed, hooked or
  recorded before the call; a child exists while collecting; the listener is in
  place exactly while the caller may still abort; an outcome exists only once
  settled. `NoOrphan` rests on `Cleanup` being on both ways out, `AbortPursued`
  on the listener clause: an abort cannot slip in where nobody listens.
* `ResultInv` counts. For a reader that has not thrown, what was written is
  what is in the pipe plus what was read; a reader that is done left its pipe
  empty; what stdout's reader took is within the cap. `Conclude` waits for both
  readers, hence a result has seen everything that was written; and a text is
  only judged a result when all that was planned was read.
* `GraceInv` says that an armed grace timer has a reason on record, which is
  what `GraceRespected` needs of the step in which that timer fires.

`ImplementsPromise` needs `LadderInv` alone: every step maps to a step of
`EnginePromise` or a stutter, and in `Conclude` a verdict other than an error
is impossible once the caller has aborted, because the abort is on record.

`UseAnalysisProofs`, for any number of runs, files and stages:

| Theorem | States |
| --- | --- |
| `HookTypes` | `Spec => []TypeOK` |
| `ShownIsLiveHolds` | what is shown belongs to the live run and its file |
| `PhaseHonestHolds` | result, stage and leg are as the phase has it |
| `SingleLiveRunHolds`, `QuitAbortsHolds` | one run works unaborted, none after the unmount |
| `NoSilentDowngradeHolds` | a run that was to upgrade does not rest on its preview without a note |
| `ImplementsOneRun` | `Spec => Seen!SafeSpec` under the mapping in `UseAnalysis` |
| `ScreenKeepsHook` | what the screen does are steps of the hook, or none |
| `TellsOneStoryHolds` | no frame contradicts itself |

They are proved together, as `HookInv`, since each rests on the others. Its two
further parts are what the code relies on and nowhere says: `RunsInv`, that the
reducer's run id and the ref's are the same and no leg is out for a run that
never started; and `LegInv`, that a leg of the live run which is out belongs to
a phase that waits for it or is cancelling, so that what it dispatches when it
settles finds a state that expects it. For the refinement `NoteInv` adds that an
error is on record in the error phase alone, and the note only beside a preview. The frames then need nothing new: a frame
is painted from one state of the hook, and `HookInv` holds of all of them.
The assumption besides `UseAnalysisAssumption` is that `None` is no analysis.

`ResultCacheProofs`, for any number of processes, files, contents, engines and
versions:

| Theorem | States |
| --- | --- |
| `CacheTypes` | `Spec => []TypeOK` |
| `BypassLeavesCacheHolds` | a mock or `--no-cache` run leaves no trace |
| `CacheHonestHolds` | an entry that parses is a real analysis of its content |
| `AnswersTheQuestionHolds` | an answer is about what was asked, whoever filed it |
| `ImplementsUncached` | `Spec => LooksUncached` under the mapping in `ResultCache` |

`CacheInv` says of a process what it has learnt by the line it is at (`Knows`):
one that comes near an entry uses the cache, has a key that exists, and, when it
writes, a result by its own engine. The last three theorems suppose
`EditDuringRun = FALSE`, as `cache_edit` shows they must: `Fresh` adds that a
working process still finds the audio it was asked about, so that both of its
hashes are the same. Killed processes, torn entries and mixed writes need no
hypothesis. An analysis of replaced audio filed under the new content is therefore a
matter of `cache_edit` alone.

`CommandsProofs`, for any number of terminals and any environments:

| Theorem | States |
| --- | --- |
| `CommandTypes` | `Spec => []TypeOK` |
| `NoFakeLeakHolds` | sample data only where asked for or watched |
| `ExitCodesHold` | codes agree, a default analysis never finds its engine missing, unless its environment was emptied meanwhile |
| `SetupDeliversHolds` | success means installed, unless another setup has emptied the environment since |
| `DoctorHonestHolds` | what doctor calls working can analyse, unless the environment was emptied meanwhile |

All five are parts of `CommandsInv` and rest on one fact about what a step does to
every other session (`Grows`): what is installed stays, but in `.venv-btc`, and what is
taken from there is on record in `emptied` for each command that was under way. So what a
probe or a self-test found is still there when it is acted upon, or the record says
why not (`OneSession`, `DiskAlone`). `Ladder` is the order in which setup installs. Nothing
is assumed of `uv`: it may refuse, ask, or replace. That each exception is needed is seen
with TLC, which finds a trace as soon as one is struck out.

### The modules of data

Their loops are recursive functions and folds over sequences, and the prover
cannot instantiate the library's induction theorems, whose parameter is an
operator. `Induction` does without: from the fact that < is well-founded on the
naturals it derives that a non-empty set of numbers has a least member, and from that, with
*sets* in the place of operators, induction up to a bound (`Inductive`), that a
recursive equation has a solution (`Recursion`), what its solutions keep (`Kept`) and
that two of them agree (`Together`). A proof about a loop has thus three
parts: a lemma that unrolls it, the invariant of its iterations, and what the
invariant says after the last one.

`CommandLineProofs`: `LineUnderstoodHolds`, for lines of any length and any words.
`ScanInv` says that after each word the fields hold what the free words so far
determine. What is an option's value is itself decided from the left
(`ValuesFromTheLeft`).

`PipelineProofs`, for any number of frames, labels, instance sizes and durations:

| Theorem | States |
| --- | --- |
| `ContractMetHolds` | what either engine assembles passes the validator |
| `NoFlickerHolds` | no run of librosa's but the first is shorter than the minimum |
| `LinesAreTheAudioHolds` | the .lab lines are the run-length code of the audio's frames |
| `CellsTellHolds` | the cells show at each frame what the engine heard there, and are maximal |
| `IInvHolds` | the inductive invariant of them all |

Each loop has its invariant: `Cut` (run-length coding), `Absorbed` with `Steady`
(despeckling: a run that was kept is long, and each of the frames has the label of
its run), `Coded` and `Finished` (.lab lines), `Ruled` and `Stitched` with `Told` (the
clamping of lines into chords), `Tiles`, `Shows` and `Merged` (cells). `IInv`
is made of `TrackSound`, which says of the current track that it tiles the
duration and shows what was heard, and `StagesSound`, what each stage has left.
The assumptions are orderings: `MinRun > 1`, twice the tolerance is at most a printed
millisecond, and two of those at most a frame. In ticks of the
engines' rounding (a microsecond) the code has 5 for `_MIN_RUN_FRAMES`, 1 for the
tolerance of 1e-6 s, 1000, and frames of some 92,880 (btc) or 23,220 (librosa's hop), so they hold
with room.

`SidecarProofs`, for any texts, documents, alphabets, depths and tolerances:

| Theorem | States |
| --- | --- |
| `EachLineOnceHolds` | however stderr is cut, each line is surfaced once, whole and typed |
| `AgreeHolds` | validator and schemas accept the same documents, but for times below zero |
| `RoundTripHolds` | stdout is well formed, and what was accepted comes back from the cache |
| `LabelsTellHolds` | a label denotes the chord that was heard, spelled as the key is signed |
| `NumeralsTellHolds` | a numeral is there for the triads of the key, and names one chord |

*stderr.* The reader works on what it holds, the property speaks of the text. They
are linked by `Told`: at every byte, what is held and buffered spells the line that
is still open (`Reads`), and the calls are what the complete lines lead to.
`ToldNext` keeps it byte by byte, `ThroughAll` hence for a chunk of any size, and
`StderrInv` over the life of the reader, a listener that throws included.

*stdout.* A document lives in a set of values that holds the parts of each of them
(`Closed`; every tree of values is in one, `DocumentClosed`, by induction on its
layers). In such a set no field is undefined, so a field whose type the validator
has looked at is there (`Field`), and validator and schema can be compared field by
field: `WordsAgree` (the lists), `KeySame`, `EngineSame`, `CapabilitiesSame` (a count of distinct elements against
uniqueness), `SegmentSame` and `ChordsSame` (a scan with the last end in hand against
a condition on neighbours), `AnalysisSame`. `Drift` bounds how far below zero n chords
come, by induction on them, and is where `Lowest` stems from: the statement with a
single tolerance, which an earlier version of the model made and small tracks satisfied, is false. For
the round trip `StringifySame` shows that serialising gives back what it is given, by
induction from the innermost layer outwards, and `DocumentInv` follows the
document through its stages.

*Screen.* A name may have any number of accidentals, so `PcIs` and `FlatsAre` are
arithmetic on a letter and an alteration; what is left is finite and gone through
case by case: the twelve names of either table (`TablesAre`), the qualities with a
base triad (`BasesAre`), the rows of either mode against the scales (`RowsAre`, with
`Shifted` to bring a triad and a scale on two tonics down to their interval).
`PanelsInv` says that what is shown is what was read, and `ModeIs`, from the
validator, that its key is major or minor. Labels tell chords apart but for two
qualities: `""` and `"m"` are written as the suffixes of `maj` and `min`, no engine's
vocabulary has them, and the validator takes any text (`ToldApart`).

Assumed are `StderrAssumption` (the special bytes are bytes), `ContractAssumption` (the
numbers are natural), `SpellingAssumption` (the names in the two tables are read as
those names, and `None` is nothing else) and `SidecarAssumption` (texts are sequences
of bytes, documents are trees of values, the keys numerals are compared with are keys).

### Only model-checked

* All liveness, and what rests on fairness or ENABLED, which the prover does not
  reason about: `KeepsPromise`, `LooksLikeOneRun` beyond its safety part,
  `AbortReapsChild`, `PipesDrained`, `EscapeGetsOut` and the other temporal
  properties that the theorems above do not name.

## 6. Not modelled

Numerical code (features, templates, model inference, confidences, key
estimation); the vendored model; argument parsing of the scripts; layout, colours
and the cell widths of `ChordTimeline.tsx`; the panels `visiblePanels` gates, one
conjunction each (capability and field) without state; a Ctrl-C or SIGTERM of the
front end itself. Real time: timers fire in some order, never after a given while. The file
system's atomicity is that of single calls.

## 7. Plan

1. A `Panels` module for the capability gating of `panels.ts` over the results the
   contract of `Contract` lets through: no panel shows a field the engine could not
   compute.
