----------------------------- MODULE EngineRun -----------------------------
(***************************************************************************)
(* One run of the Python sidecar: spawnAndCollect, runEngine and           *)
(* runEngineInfo of core/engine.ts, with the child process, its two pipes, *)
(* the two timers and the caller's AbortSignal around it.                  *)
(*                                                                         *)
(* A step is what the event loop runs between two awaits, or one step of   *)
(* the child or of the operating system.  Data is abstract: stdout is a    *)
(* number of chunks, stderr a number of lines, the text a member of        *)
(* Payloads.                                                               *)
(***************************************************************************)
EXTENDS Integers, EngineOutcomes

CONSTANTS
  StdoutCap,  \* maxStdoutBytes, in chunks
  PipeCap,    \* what an OS pipe holds before a write blocks
  MaxChunks,  \* bound: chunks a child prints on stdout
  MaxLines,   \* bound: lines a child prints on stderr
  CallbackMayThrow  \* whether the caller's onEvent can throw

ASSUME EngineRunAssumption ==
  /\ StdoutCap \in Nat
  /\ PipeCap \in Nat \ {0}
  /\ MaxChunks \in Nat
  /\ MaxLines \in Nat
  /\ CallbackMayThrow \in BOOLEAN

VARIABLES
  command,    \* argv: "ok", "missing" (no such executable), "empty"
  signal,     \* the caller's AbortSignal: "none" passed, "live", "aborted"
  pc,         \* spawnAndCollect: "call", "collecting", "settled"
  outcome,    \* how the returned promise settled, "pending" before
  reason,     \* aborted.reason: "null", "external", "timeout"
  listening,  \* onExternalAbort is registered on the caller's signal
  timer,      \* the wall-clock timer is armed
  killTimer,  \* the grace timer between SIGTERM and SIGKILL is armed
  leg,        \* the two pipe readers
  child,      \* the process: "none", "running", "dead"
  code,       \* what proc.exited yields; NoCode is null
  posted,     \* signals sent to the child and not yet acted on
  plan,       \* chunks and lines this child means to print
  payload,    \* what its complete stdout says
  wrote,      \* chunks / lines written so far
  piped,      \* chunks / lines in the pipe
  got,        \* chunks read / lines passed to onEvent
  open        \* the child's end of the pipe is open

parentVars == <<command, pc, outcome, reason, listening, timer, killTimer>>
childVars == <<child, code, posted, plan, payload>>
pipeVars == <<leg, wrote, piped, got, open>>
vars == <<signal, parentVars, childVars, pipeVars>>

Streams == {"stdout", "stderr"}
Payloads == {"analysis", "engine_error", "malformed", "garbage", "blank"}

NoCode == -1
EngineUnavailable == 3
ExitCodes == {0, 2, EngineUnavailable, 4}   \* analyze.py's own exits
CrashCode == 1                              \* an uncaught Python exception
(* Killed by a signal, proc.exited yields null or 128 + n. *)
SignalCodes == {NoCode, 137}

ParentTypeOK ==
  /\ command \in {"ok", "missing", "empty"}
  /\ pc \in {"call", "collecting", "settled"}
  /\ outcome \in Outcomes \cup {"pending"}
  /\ reason \in {"null", "external", "timeout"}
  /\ listening \in BOOLEAN /\ timer \in BOOLEAN /\ killTimer \in BOOLEAN

ChildTypeOK ==
  /\ child \in {"none", "running", "dead"}
  /\ code \in ExitCodes \cup SignalCodes \cup {CrashCode}
  /\ posted \subseteq {"TERM", "KILL"}
  /\ plan \in [Streams -> Nat]
  /\ payload \in Payloads

PipeTypeOK ==
  /\ leg \in [Streams -> {"off", "reading", "threw", "done"}]
  /\ wrote \in [Streams -> Nat] /\ piped \in [Streams -> Nat] /\ got \in [Streams -> Nat]
  /\ open \in [Streams -> BOOLEAN]

TypeOK ==
  signal \in {"none", "live", "aborted"} /\ ParentTypeOK /\ ChildTypeOK /\ PipeTypeOK

Init ==
  /\ command \in {"ok", "missing", "empty"}
  /\ signal \in {"none", "live", "aborted"}
  /\ pc = "call" /\ outcome = "pending" /\ reason = "null"
  /\ listening = FALSE /\ timer = FALSE /\ killTimer = FALSE
  /\ leg = [s \in Streams |-> "off"]
  /\ child = "none" /\ code = NoCode /\ posted = {}
  /\ \E chunks \in 0..MaxChunks, lines \in 0..MaxLines :
       plan = [s \in Streams |-> IF s = "stdout" THEN chunks ELSE lines]
  /\ payload \in Payloads
  /\ wrote = [s \in Streams |-> 0] /\ piped = wrote /\ got = wrote
  /\ open = [s \in Streams |-> FALSE]

-----------------------------------------------------------------------------
(* The body of spawnAndCollect *)

(* Mutant: the last reason overwrites the first. *)
ReasonLast(r) == r

(* trigger(r): the first reason wins, and aborts the internal controller. *)
Reason(r) == IF reason = "null" THEN r ELSE reason

(* The call up to its first await, when the argv is empty. *)
CallEmpty ==
  /\ pc = "call" /\ command = "empty"
  /\ pc' = "settled" /\ outcome' = "SpawnError"
  /\ UNCHANGED <<command, signal, reason, listening, timer, killTimer, childVars, pipeVars>>

(* Mutant: a signal that is already aborted is not looked at. *)
HookSignalLate == UNCHANGED reason /\ listening' = (signal = "live")

(* An already aborted signal is recorded, a live one is listened to. *)
HookSignal ==
  /\ reason' = IF signal = "aborted" THEN Reason("external") ELSE reason
  /\ listening' = (signal = "live")

(* The signal is hooked and the timer armed before Bun.spawn. *)
Prologue ==
  /\ pc = "call" /\ command # "empty"
  /\ HookSignal
  /\ timer' = TRUE

(* Bun.spawn throws: outside the try, so nothing of the prologue is undone. *)
CallMissing ==
  /\ Prologue /\ command = "missing"
  /\ pc' = "settled" /\ outcome' = "BunError"
  /\ UNCHANGED <<command, signal, killTimer, childVars, pipeVars>>

(* Mutant: the kill ladder only waits for an abort yet to come. *)
HookLadderLate == posted' = {} /\ killTimer' = FALSE

(* With the controller already aborted the kill ladder starts at once. *)
HookLadder ==
  /\ posted' = IF reason' # "null" THEN {"TERM"} ELSE {}
  /\ killTimer' = (reason' # "null")

(* Bun.spawn succeeds. *)
CallSpawn ==
  /\ Prologue /\ command = "ok"
  /\ pc' = "collecting"
  /\ child' = "running"
  /\ leg' = [s \in Streams |-> "reading"]
  /\ open' = [s \in Streams |-> TRUE]
  /\ HookLadder
  /\ UNCHANGED <<command, signal, outcome, code, plan, payload, wrote, piped, got>>

(* Sending a signal to a child that is gone is ignored. *)
Posted(sig) == IF child = "running" THEN posted \cup {sig} ELSE posted

(* Mutant: SIGKILL without the grace of a SIGTERM. *)
OnAbortKill == killTimer' = TRUE /\ posted' = Posted("KILL")

(* Mutant: SIGTERM, and no grace timer behind it. *)
OnAbortTermOnly == UNCHANGED killTimer /\ posted' = Posted("TERM")

(* onAbort: SIGTERM, and the grace timer. *)
OnAbort == killTimer' = TRUE /\ posted' = Posted("TERM")

(* trigger(r) once the child may exist: the internal controller aborts, *)
(* and runs onAbort, once.                                              *)
Trigger(r) ==
  /\ reason' = Reason(r)
  /\ IF reason = "null" /\ pc = "collecting"
       THEN OnAbort
       ELSE UNCHANGED <<killTimer, posted>>

(* The caller aborts its signal: user cancel, restart or unmount. *)
CallerAborts ==
  /\ signal = "live"
  /\ signal' = "aborted"
  /\ IF listening
       THEN listening' = FALSE /\ Trigger("external")   \* { once: true }
       ELSE UNCHANGED <<listening, reason, killTimer, posted>>
  /\ UNCHANGED <<command, pc, outcome, timer, child, code, plan, payload, pipeVars>>

TimeoutFires ==
  /\ timer
  /\ timer' = FALSE
  /\ Trigger("timeout")
  /\ UNCHANGED <<command, signal, pc, outcome, listening, child, code, plan, payload, pipeVars>>

(* Mutant: the second rung is SIGTERM again. *)
GraceSignalTerm == "TERM"

GraceSignal == "KILL"

GraceExpires ==
  /\ killTimer
  /\ killTimer' = FALSE
  /\ posted' = Posted(GraceSignal)
  /\ UNCHANGED <<command, signal, pc, outcome, reason, listening, timer, child, code, plan,
                 payload, pipeVars>>

-----------------------------------------------------------------------------
(* The two pipe readers *)

(* Mutant: a reader takes what has not arrived. *)
ReadableAlways(s) == leg[s] = "reading"

Readable(s) == leg[s] = "reading" /\ piped[s] > 0

(* Mutant: stderr waits for stdout to end. *)
LineReadableAfterStdout == Readable("stderr") /\ leg["stdout"] = "done"

LineReadable == Readable("stderr")

(* readStdoutCapped: one chunk; past the cap the reader is cancelled and   *)
(* throws.                                                                 *)
ReadChunk ==
  /\ Readable("stdout")
  /\ got' = [got EXCEPT !["stdout"] = @ + 1]
  /\ IF got'["stdout"] > StdoutCap
       THEN /\ leg' = [leg EXCEPT !["stdout"] = "threw"]
            /\ piped' = [piped EXCEPT !["stdout"] = 0]
       ELSE /\ piped' = [piped EXCEPT !["stdout"] = @ - 1]
            /\ UNCHANGED leg
  /\ UNCHANGED <<signal, parentVars, childVars, wrote, open>>

(* readStderr: one line reaches onEvent, which may throw.  The reader goes *)
(* on reading even after the run has settled, if nothing stopped it.       *)
ReadLine ==
  /\ LineReadable
  /\ piped' = [piped EXCEPT !["stderr"] = @ - 1]
  /\ got' = [got EXCEPT !["stderr"] = @ + 1]
  /\ \/ UNCHANGED leg
     \/ CallbackMayThrow /\ leg' = [leg EXCEPT !["stderr"] = "threw"]
  /\ UNCHANGED <<signal, parentVars, childVars, wrote, open>>

EndOfStream(s) ==
  /\ leg[s] = "reading" /\ piped[s] = 0 /\ ~open[s]
  /\ leg' = [leg EXCEPT ![s] = "done"]
  /\ UNCHANGED <<signal, parentVars, childVars, wrote, piped, got, open>>

(* Mutant: no last SIGKILL. *)
CleanupNoKill == timer' = FALSE /\ killTimer' = FALSE /\ listening' = FALSE /\ UNCHANGED posted

(* Mutant: the grace timer is not cleared. *)
CleanupTimerLeft == timer' = FALSE /\ UNCHANGED killTimer /\ listening' = FALSE /\ posted' = Posted("KILL")

(* The finally block. *)
Cleanup ==
  /\ timer' = FALSE /\ killTimer' = FALSE /\ listening' = FALSE
  /\ posted' = Posted("KILL")

(* A reader threw: Promise.all rejects at once, without its sibling. *)
Unwind(s) ==
  /\ pc = "collecting" /\ leg[s] = "threw"
  /\ pc' = "settled"
  /\ outcome' = IF s = "stdout" THEN "SpawnError" ELSE "CallbackError"
  /\ Cleanup
  /\ UNCHANGED <<command, signal, reason, child, code, plan, payload, pipeVars>>

(* What the collected text is: complete, or cut short. *)
Text ==
  IF got["stdout"] = 0 THEN "blank"
  ELSE IF got["stdout"] = plan["stdout"] THEN payload ELSE "garbage"

(* What the exit code and the text amount to when nothing was aborted. *)
Judgement ==
  IF code = EngineUnavailable THEN "UnavailableError"
  ELSE IF code = NoCode \/ Text = "blank" THEN "SpawnError"
  ELSE IF Text \in Successes THEN Text ELSE "ContractError"

(* Mutant: only a timeout wins over what the child printed. *)
VerdictForgetsCancel == IF reason = "timeout" THEN "TimeoutError" ELSE Judgement

(* How a run whose readers both finished and whose child exited settles. *)
Verdict ==
  CASE reason = "timeout" -> "TimeoutError"
    [] reason = "external" -> "AbortError"
    [] OTHER -> Judgement

(* Mutant: stderr is read, but not awaited. *)
ReadersDoneStdout == leg["stdout"] = "done"

(* Promise.all over both readers. *)
ReadersDone == \A s \in Streams : leg[s] = "done"

Conclude ==
  /\ pc = "collecting"
  /\ ReadersDone
  /\ child = "dead"
  /\ pc' = "settled"
  /\ outcome' = Verdict
  /\ Cleanup
  /\ UNCHANGED <<command, signal, reason, child, code, plan, payload, pipeVars>>

-----------------------------------------------------------------------------
(* The child process and the operating system (external to core/engine.ts) *)

(* A write blocks while the pipe is full, and fails once nobody reads it. *)
ChildWrites(s) ==
  /\ child = "running" /\ open[s] /\ leg[s] = "reading"
  /\ wrote[s] < plan[s] /\ piped[s] < PipeCap
  /\ wrote' = [wrote EXCEPT ![s] = @ + 1]
  /\ piped' = [piped EXCEPT ![s] = @ + 1]
  /\ UNCHANGED <<signal, parentVars, childVars, leg, got, open>>

ChildCloses(s) ==
  /\ child = "running" /\ open[s] /\ wrote[s] = plan[s]
  /\ open' = [open EXCEPT ![s] = FALSE]
  /\ UNCHANGED <<signal, parentVars, childVars, leg, wrote, piped, got>>

Die(c) ==
  /\ child = "running"
  /\ child' = "dead" /\ code' = c /\ posted' = {}
  /\ open' = [s \in Streams |-> FALSE]
  /\ UNCHANGED <<signal, parentVars, plan, payload, leg, wrote, piped, got>>

(* An orderly exit comes after everything the child had to say. *)
ChildExits ==
  /\ \A s \in Streams : wrote[s] = plan[s]
  /\ \E c \in ExitCodes : Die(c)

(* A traceback, a broken pipe, an out-of-memory kill: at any point. *)
ChildCrashes == \E c \in {CrashCode} \cup SignalCodes : Die(c)

ChildDiesOfTerm == "TERM" \in posted /\ \E c \in SignalCodes : Die(c)

ChildDiesOfKill == "KILL" \in posted /\ \E c \in SignalCodes : Die(c)

ChildIgnoresTerm ==
  /\ "TERM" \in posted
  /\ posted' = posted \ {"TERM"}
  /\ UNCHANGED <<signal, parentVars, child, code, plan, payload, pipeVars>>

-----------------------------------------------------------------------------
Call == CallEmpty \/ CallMissing \/ CallSpawn

Next ==
  \/ Call
  \/ CallerAborts \/ TimeoutFires \/ GraceExpires
  \/ ReadChunk \/ ReadLine
  \/ \E s \in Streams : EndOfStream(s) \/ Unwind(s)
  \/ Conclude
  \/ \E s \in Streams : ChildWrites(s) \/ ChildCloses(s)
  \/ ChildExits \/ ChildCrashes
  \/ ChildDiesOfTerm \/ ChildDiesOfKill \/ ChildIgnoresTerm

(* The event loop runs what is ready; the kernel delivers SIGKILL.  The    *)
(* child owes nothing: it may hang and ignore SIGTERM for ever.            *)
ParentFairness ==
  /\ WF_vars(Call)
  /\ WF_vars(ReadChunk) /\ WF_vars(ReadLine)
  /\ \A s \in Streams : WF_vars(EndOfStream(s)) /\ WF_vars(Unwind(s))
  /\ WF_vars(Conclude)

TimerFairness == WF_vars(TimeoutFires) /\ WF_vars(GraceExpires)
KernelFairness == WF_vars(ChildDiesOfKill)

(* A child that makes progress whenever it is not blocked on a pipe. *)
ChildFairness ==
  /\ \A s \in Streams : WF_vars(ChildWrites(s))
  /\ WF_vars(ChildExits)

Spec == Init /\ [][Next]_vars /\ ParentFairness /\ TimerFairness /\ KernelFairness

(* No timer need ever fire: what a diligent child alone brings about. *)
DiligentSpec == Init /\ [][Next]_vars /\ ParentFairness /\ ChildFairness

-----------------------------------------------------------------------------
(* Safety *)

(* Once the promise has settled, the child is gone or SIGKILL is on its    *)
(* way, whatever path was taken out of spawnAndCollect.                    *)
NoOrphan == pc = "settled" => child # "running" \/ "KILL" \in posted

(* A run that got as far as its child leaves nothing behind: both timers   *)
(* cleared, no listener on the caller's signal.                            *)
SettledClean ==
  pc = "settled" /\ child # "none" => ~timer /\ ~killTimer /\ ~listening

(* While collecting, a cancelled or timed-out run always has its next rung *)
(* pending: the grace timer, or SIGKILL itself.  Without this a child that *)
(* ignores SIGTERM would keep the caller waiting.                          *)
LadderArmed ==
  pc = "collecting" /\ reason # "null" /\ child = "running"
    => killTimer \/ "KILL" \in posted

(* An abort the caller has made while the run is collecting is never lost: *)
(* it is on record, under whichever reason came first.                     *)
AbortNoticed == pc = "collecting" /\ signal = "aborted" => reason # "null"

(* An abort is neither lost nor left half-way, whoever makes it and when.  *)
AbortPursued == AbortNoticed /\ LadderArmed

(* A result is only ever taken from a complete stdout within the cap, of a *)
(* child that is gone, after every stderr line has reached onEvent.        *)
ResultIsComplete ==
  outcome \in Successes =>
    /\ child = "dead" /\ reason = "null"
    /\ got = wrote /\ wrote["stdout"] = plan["stdout"]
    /\ got["stdout"] <= StdoutCap

-----------------------------------------------------------------------------
(* Action properties *)

(* "whichever fires first records why", and "win[s] over whatever the     *)
(* (now-dead) child happened to print": once a cancel or a timeout is on   *)
(* record, no later one, no result and no exit code settles the run;       *)
(* only a reader that threw can.                                           *)
FirstReasonWins ==
  [][reason # "null" =>
       /\ reason' = reason
       /\ outcome' # outcome =>
            \/ outcome' = IF reason = "timeout" THEN "TimeoutError" ELSE "AbortError"
            \/ \E s \in Streams : leg[s] = "threw"]_vars

(* The child is SIGKILLed only after the grace SIGTERM gave it, or by the  *)
(* step that settles the run.                                              *)
GraceRespected ==
  [][("KILL" \in posted' /\ "KILL" \notin posted) =>
       (reason # "null" /\ killTimer) \/ pc' = "settled"]_vars

-----------------------------------------------------------------------------
(* Liveness *)

(* "Quitting or cancelling always stops the Python child": once the caller *)
(* has aborted, the child does not run for ever.                           *)
AbortReapsChild == (signal = "aborted" /\ child = "running") ~> (child = "dead")

(* With no help from a timer, a child that only prints and exits is never  *)
(* blocked for ever on a full pipe, and its run settles.                   *)
PipesDrained == <>(pc = "settled" \/ reason # "null")

-----------------------------------------------------------------------------
(* The promise this run implements *)

Promise == INSTANCE EnginePromise WITH
  call <- CASE pc = "call" -> "idle" [] pc = "collecting" -> "pending"
            [] OTHER -> "settled",
  aborted <- (signal = "aborted")

(* A run is a promise that settles once, with nothing the caller's abort   *)
(* rules out, and that does settle.                                        *)
KeepsPromise == Promise!Spec
=============================================================================
