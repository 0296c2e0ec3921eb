-------------------------- MODULE EngineRunProofs --------------------------
(***************************************************************************)
(* For every cap, pipe capacity and child: the safety invariants of        *)
(* EngineRun, and that EngineRun implements EnginePromise.                 *)
(***************************************************************************)
EXTENDS EngineRun, TLAPS

USE DEF Streams, Payloads, Successes, AnytimeFailures, Verdicts, Outcomes, TypeOK

-----------------------------------------------------------------------------
(* Types *)

(* What each group of variables needs to keep its type when left alone. *)
LEMMA UntouchedTypes ==
  ASSUME TypeOK
  PROVE  /\ UNCHANGED parentVars => ParentTypeOK'
         /\ UNCHANGED childVars => ChildTypeOK'
         /\ UNCHANGED pipeVars => PipeTypeOK'
<1>1. UNCHANGED parentVars => ParentTypeOK'
  BY DEF parentVars, ParentTypeOK
<1>2. UNCHANGED childVars => ChildTypeOK'
  BY DEF childVars, ChildTypeOK
<1>3. UNCHANGED pipeVars => PipeTypeOK'
  BY DEF pipeVars, PipeTypeOK
<1> QED
  BY <1>1, <1>2, <1>3

(* Sending a signal to the child posts signals only. *)
LEMMA PostedType ==
  ASSUME TypeOK, NEW sig \in {"TERM", "KILL"}
  PROVE  Posted(sig) \subseteq {"TERM", "KILL"}
<1>1. posted \subseteq {"TERM", "KILL"}
  BY DEF ChildTypeOK
<1> QED
  BY <1>1 DEF Posted

(* trigger() keeps the types of what it assigns. *)
LEMMA TriggerType ==
  ASSUME TypeOK, NEW r \in {"external", "timeout"}, Trigger(r)
  PROVE  /\ reason' \in {"null", "external", "timeout"}
         /\ killTimer' \in BOOLEAN
         /\ posted' \subseteq {"TERM", "KILL"}
<1>1. reason' \in {"null", "external", "timeout"}
  BY DEF ParentTypeOK, Trigger, Reason
<1>2. CASE reason = "null" /\ pc = "collecting"
  <2>1. killTimer' = TRUE /\ posted' = Posted("TERM")
    BY <1>2 DEF Trigger, OnAbort
  <2> QED
    BY <1>1, <2>1, PostedType
<1>3. CASE ~(reason = "null" /\ pc = "collecting")
  <2>1. killTimer' = killTimer /\ posted' = posted
    BY <1>3 DEF Trigger
  <2> QED
    BY <1>1, <2>1 DEF ParentTypeOK, ChildTypeOK
<1> QED
  BY <1>2, <1>3

(* Every variable keeps its type. *)
LEMMA TypeStep == TypeOK /\ [Next]_vars => TypeOK'
<1> SUFFICES ASSUME TypeOK, [Next]_vars PROVE TypeOK'
  OBVIOUS
<1>1. CASE CallEmpty
  <2>1. ParentTypeOK'
    BY <1>1 DEF CallEmpty, ParentTypeOK
  <2> QED
    BY <1>1, <2>1, UntouchedTypes DEF CallEmpty
<1>2. CASE CallMissing
  <2>1. ParentTypeOK'
    BY <1>2 DEF CallMissing, Prologue, HookSignal, Reason, ParentTypeOK
  <2> QED
    BY <1>2, <2>1, UntouchedTypes DEF CallMissing
<1>3. CASE CallSpawn
  <2>1. ParentTypeOK'
    BY <1>3 DEF CallSpawn, Prologue, HookSignal, HookLadder, Reason, ParentTypeOK
  <2>2. ChildTypeOK'
    BY <1>3 DEF CallSpawn, HookLadder, ChildTypeOK
  <2>3. PipeTypeOK'
    BY <1>3 DEF CallSpawn, PipeTypeOK
  <2> QED
    BY <1>3, <2>1, <2>2, <2>3 DEF CallSpawn
<1>4. CASE CallerAborts
  <2>1. /\ reason' \in {"null", "external", "timeout"}
        /\ listening' \in BOOLEAN /\ killTimer' \in BOOLEAN
        /\ posted' \subseteq {"TERM", "KILL"}
    BY <1>4, TriggerType DEF CallerAborts, ParentTypeOK, ChildTypeOK
  <2>2. ParentTypeOK'
    BY <1>4, <2>1 DEF CallerAborts, ParentTypeOK
  <2>3. ChildTypeOK'
    BY <1>4, <2>1 DEF CallerAborts, ChildTypeOK
  <2> QED
    BY <1>4, <2>2, <2>3, UntouchedTypes DEF CallerAborts
<1>5. CASE TimeoutFires
  <2>1. ParentTypeOK'
    BY <1>5, TriggerType DEF TimeoutFires, ParentTypeOK
  <2>2. ChildTypeOK'
    BY <1>5, TriggerType DEF TimeoutFires, ChildTypeOK
  <2> QED
    BY <1>5, <2>1, <2>2, UntouchedTypes DEF TimeoutFires
<1>6. CASE GraceExpires
  <2>1. ParentTypeOK'
    BY <1>6 DEF GraceExpires, ParentTypeOK
  <2>2. ChildTypeOK'
    BY <1>6, PostedType DEF GraceExpires, GraceSignal, ChildTypeOK
  <2> QED
    BY <1>6, <2>1, <2>2, UntouchedTypes DEF GraceExpires
<1>7. CASE ReadChunk
  <2>1. PipeTypeOK'
    BY <1>7 DEF ReadChunk, Readable, PipeTypeOK
  <2> QED
    BY <1>7, <2>1, UntouchedTypes DEF ReadChunk
<1>8. CASE ReadLine
  <2>1. PipeTypeOK'
    BY <1>8 DEF ReadLine, LineReadable, Readable, PipeTypeOK
  <2> QED
    BY <1>8, <2>1, UntouchedTypes DEF ReadLine
<1>9. ASSUME NEW s \in Streams, EndOfStream(s) PROVE TypeOK'
  <2>1. PipeTypeOK'
    BY <1>9 DEF EndOfStream, PipeTypeOK
  <2> QED
    BY <1>9, <2>1, UntouchedTypes DEF EndOfStream
<1>10. ASSUME NEW s \in Streams, Unwind(s) PROVE TypeOK'
  <2>1. ParentTypeOK'
    BY <1>10 DEF Unwind, Cleanup, ParentTypeOK
  <2>2. ChildTypeOK'
    BY <1>10, PostedType DEF Unwind, Cleanup, ChildTypeOK
  <2> QED
    BY <1>10, <2>1, <2>2, UntouchedTypes DEF Unwind
<1>11. CASE Conclude
  <2>1. Verdict \in Outcomes
    BY DEF Verdict, Judgement, ParentTypeOK
  <2>2. ParentTypeOK'
    BY <1>11, <2>1 DEF Conclude, Cleanup, ParentTypeOK
  <2>3. ChildTypeOK'
    BY <1>11, PostedType DEF Conclude, Cleanup, ChildTypeOK
  <2> QED
    BY <1>11, <2>2, <2>3, UntouchedTypes DEF Conclude
<1>12. ASSUME NEW s \in Streams, ChildWrites(s) PROVE TypeOK'
  <2>1. PipeTypeOK'
    BY <1>12 DEF ChildWrites, PipeTypeOK
  <2> QED
    BY <1>12, <2>1, UntouchedTypes DEF ChildWrites
<1>13. ASSUME NEW s \in Streams, ChildCloses(s) PROVE TypeOK'
  <2>1. PipeTypeOK'
    BY <1>13 DEF ChildCloses, PipeTypeOK
  <2> QED
    BY <1>13, <2>1, UntouchedTypes DEF ChildCloses
<1>14. ASSUME NEW c \in ExitCodes \cup SignalCodes \cup {CrashCode}, Die(c) PROVE TypeOK'
  <2>1. ChildTypeOK'
    BY <1>14 DEF Die, ChildTypeOK
  <2>2. PipeTypeOK'
    BY <1>14 DEF Die, PipeTypeOK
  <2> QED
    BY <1>14, <2>1, <2>2, UntouchedTypes DEF Die
<1>15. CASE ChildIgnoresTerm
  <2>1. ChildTypeOK'
    BY <1>15 DEF ChildIgnoresTerm, ChildTypeOK
  <2> QED
    BY <1>15, <2>1, UntouchedTypes DEF ChildIgnoresTerm
<1>16. CASE UNCHANGED vars
  BY <1>16, UntouchedTypes DEF vars
<1> QED
  BY <1>1, <1>2, <1>3, <1>4, <1>5, <1>6, <1>7, <1>8, <1>9, <1>10, <1>11, <1>12, <1>13,
     <1>14, <1>15, <1>16
  DEF Next, Call, ChildExits, ChildCrashes, ChildDiesOfTerm, ChildDiesOfKill

LEMMA TypeInit == Init => TypeOK
<1> SUFFICES ASSUME Init PROVE TypeOK
  OBVIOUS
<1>1. ParentTypeOK
  BY DEF Init, ParentTypeOK
<1>2. ChildTypeOK
  BY EngineRunAssumption DEF Init, ChildTypeOK, NoCode, SignalCodes
<1>3. PipeTypeOK
  BY DEF Init, PipeTypeOK
<1> QED
  BY <1>1, <1>2, <1>3 DEF Init

(* Types, for every value of the constants. *)
THEOREM TypeCorrect == Spec => []TypeOK
BY TypeInit, TypeStep, PTL DEF Spec

-----------------------------------------------------------------------------
(* The kill ladder and the cleanup *)

(* While a run is collecting, its child exists, the listener is in place   *)
(* exactly while the caller may still abort, and an abort has its rung of  *)
(* the ladder pending; none of the four invariants is inductive alone.     *)
LadderInv ==
  /\ outcome = "pending" <=> pc # "settled"
  /\ pc = "call" => child = "none" /\ reason = "null" /\ ~timer /\ ~killTimer /\ ~listening
  /\ pc = "collecting" => child # "none" /\ (listening <=> signal = "live")
  /\ reason = "external" => signal = "aborted"
  /\ NoOrphan
  /\ SettledClean
  /\ LadderArmed
  /\ AbortNoticed

USE DEF NoOrphan, SettledClean, LadderArmed, AbortNoticed

LEMMA LadderStep == TypeOK /\ LadderInv /\ [Next]_vars => LadderInv'
<1> SUFFICES ASSUME TypeOK, LadderInv, [Next]_vars PROVE LadderInv'
  OBVIOUS
<1>1. CASE CallEmpty
  BY <1>1 DEF CallEmpty, LadderInv, childVars
<1>2. CASE CallMissing
  BY <1>2 DEF CallMissing, Prologue, HookSignal, Reason, LadderInv, childVars
<1>3. CASE CallSpawn
  BY <1>3 DEF CallSpawn, Prologue, HookSignal, HookLadder, Reason, LadderInv, ParentTypeOK
<1>4. CASE CallerAborts
  <2>1. CASE pc = "collecting"
    <3>1. /\ reason' # "null"
          /\ IF reason = "null"
               THEN killTimer' = TRUE
               ELSE killTimer' = killTimer /\ posted' = posted
      BY <1>4, <2>1 DEF CallerAborts, Trigger, OnAbort, Reason, LadderInv
    <3> QED
      BY <1>4, <2>1, <3>1 DEF CallerAborts, LadderInv
  <2>2. CASE pc # "collecting"
    <3>1. killTimer' = killTimer /\ posted' = posted /\ (reason' = reason \/ pc = "settled")
      BY <1>4, <2>2 DEF CallerAborts, Trigger, LadderInv, ParentTypeOK
    <3> QED
      BY <1>4, <2>2, <3>1 DEF CallerAborts, LadderInv
  <2> QED
    BY <2>1, <2>2
<1>5. CASE TimeoutFires
  BY <1>5 DEF TimeoutFires, Trigger, OnAbort, Posted, Reason, LadderInv
<1>6. CASE GraceExpires
  BY <1>6 DEF GraceExpires, GraceSignal, Posted, LadderInv
<1>7. CASE ReadChunk \/ ReadLine
  BY <1>7 DEF ReadChunk, ReadLine, parentVars, childVars, LadderInv
<1>8. ASSUME NEW s \in Streams, EndOfStream(s) PROVE LadderInv'
  BY <1>8 DEF EndOfStream, parentVars, childVars, LadderInv
<1>9. ASSUME NEW s \in Streams, Unwind(s) PROVE LadderInv'
  BY <1>9 DEF Unwind, Cleanup, Posted, LadderInv
<1>10. CASE Conclude
  <2>1. Verdict # "pending"
    BY DEF Verdict, Judgement
  <2> QED
    BY <1>10, <2>1 DEF Conclude, Cleanup, Posted, LadderInv
<1>11. ASSUME NEW s \in Streams, ChildWrites(s) \/ ChildCloses(s) PROVE LadderInv'
  BY <1>11 DEF ChildWrites, ChildCloses, parentVars, childVars, LadderInv
<1>12. ASSUME NEW c \in ExitCodes \cup SignalCodes \cup {CrashCode}, Die(c) PROVE LadderInv'
  BY <1>12 DEF Die, parentVars, LadderInv
<1>13. CASE ChildIgnoresTerm
  BY <1>13 DEF ChildIgnoresTerm, parentVars, LadderInv
<1>14. CASE UNCHANGED vars
  BY <1>14 DEF vars, parentVars, childVars, LadderInv
<1> QED
  BY <1>1, <1>2, <1>3, <1>4, <1>5, <1>6, <1>7, <1>8, <1>9, <1>10, <1>11, <1>12, <1>13, <1>14
  DEF Next, Call, ChildExits, ChildCrashes, ChildDiesOfTerm, ChildDiesOfKill

LEMMA LadderInit == Init => LadderInv
BY DEF Init, LadderInv

(* No path out of spawnAndCollect leaves the child running unkilled. *)
THEOREM NoOrphanHolds == Spec => []NoOrphan
<1>1. Init => TypeOK /\ LadderInv
  BY TypeInit, LadderInit
<1>2. TypeOK /\ LadderInv /\ [Next]_vars => (TypeOK /\ LadderInv)'
  BY TypeStep, LadderStep
<1>3. LadderInv => NoOrphan
  BY DEF LadderInv
<1> QED
  BY <1>1, <1>2, <1>3, PTL DEF Spec

(* No path leaves a timer armed or a listener behind, once there is a child. *)
THEOREM SettledCleanHolds == Spec => []SettledClean
<1>1. Init => TypeOK /\ LadderInv
  BY TypeInit, LadderInit
<1>2. TypeOK /\ LadderInv /\ [Next]_vars => (TypeOK /\ LadderInv)'
  BY TypeStep, LadderStep
<1>3. LadderInv => SettledClean
  BY DEF LadderInv
<1> QED
  BY <1>1, <1>2, <1>3, PTL DEF Spec

(* An abort is never lost, and always has a rung of the ladder pending. *)
THEOREM AbortPursuedHolds == Spec => []AbortPursued
<1>1. Init => TypeOK /\ LadderInv
  BY TypeInit, LadderInit
<1>2. TypeOK /\ LadderInv /\ [Next]_vars => (TypeOK /\ LadderInv)'
  BY TypeStep, LadderStep
<1>3. LadderInv => AbortPursued
  BY DEF LadderInv, AbortPursued
<1> QED
  BY <1>1, <1>2, <1>3, PTL DEF Spec

-----------------------------------------------------------------------------
(* Where a result comes from *)

(* While a reader has not thrown, what was written is what was read plus   *)
(* what is in the pipe; and a result rests on two readers that finished.   *)
ResultInv ==
  /\ pc = "call" => \A s \in Streams : wrote[s] = 0 /\ piped[s] = 0 /\ got[s] = 0
  /\ \A s \in Streams :
       /\ leg[s] # "threw" => wrote[s] = piped[s] + got[s]
       /\ leg[s] = "done" => piped[s] = 0
  /\ leg["stdout"] # "threw" => got["stdout"] <= StdoutCap
  /\ outcome \in Successes =>
       /\ pc = "settled" /\ child = "dead" /\ reason = "null"
       /\ \A s \in Streams : leg[s] = "done"
       /\ got["stdout"] = plan["stdout"]

LEMMA ResultStep ==
  TypeOK /\ LadderInv /\ ResultInv /\ [Next]_vars => ResultInv'
<1> SUFFICES ASSUME TypeOK, LadderInv, ResultInv, [Next]_vars PROVE ResultInv'
  OBVIOUS
<1> USE EngineRunAssumption
<1>1. CASE CallEmpty
  BY <1>1 DEF CallEmpty, ResultInv, childVars, pipeVars
<1>2. CASE CallMissing
  BY <1>2 DEF CallMissing, Prologue, ResultInv, childVars, pipeVars
<1>3. CASE CallSpawn
  BY <1>3 DEF CallSpawn, Prologue, ResultInv, LadderInv
<1>4. CASE CallerAborts
  BY <1>4 DEF CallerAborts, Trigger, ResultInv, LadderInv, pipeVars
<1>5. CASE TimeoutFires
  BY <1>5 DEF TimeoutFires, Trigger, ResultInv, LadderInv, pipeVars
<1>6. CASE GraceExpires
  BY <1>6 DEF GraceExpires, ResultInv, pipeVars
<1>7. CASE ReadChunk
  BY <1>7 DEF ReadChunk, Readable, parentVars, childVars, ResultInv, PipeTypeOK
<1>8. CASE ReadLine
  BY <1>8 DEF ReadLine, LineReadable, Readable, parentVars, childVars, ResultInv, PipeTypeOK
<1>9. ASSUME NEW s \in Streams, EndOfStream(s) PROVE ResultInv'
  BY <1>9 DEF EndOfStream, parentVars, childVars, ResultInv, PipeTypeOK
<1>10. ASSUME NEW s \in Streams, Unwind(s) PROVE ResultInv'
  BY <1>10 DEF Unwind, ResultInv, pipeVars
<1>11. CASE Conclude
  <2>1. Verdict \in Successes => reason = "null" /\ got["stdout"] = plan["stdout"]
    BY DEF Verdict, Judgement, Text, ParentTypeOK
  <2> QED
    BY <1>11, <2>1 DEF Conclude, ReadersDone, ResultInv, pipeVars
<1>12. ASSUME NEW s \in Streams, ChildWrites(s) PROVE ResultInv'
  <2>1. /\ pc # "call" /\ leg' = leg /\ got' = got /\ leg[s] = "reading"
        /\ wrote[s] \in Nat /\ piped[s] \in Nat /\ got[s] \in Nat
        /\ wrote'[s] = wrote[s] + 1 /\ piped'[s] = piped[s] + 1
        /\ \A q \in Streams \ {s} : wrote'[q] = wrote[q] /\ piped'[q] = piped[q]
    BY <1>12 DEF ChildWrites, LadderInv, PipeTypeOK, parentVars
  <2>2. \A q \in Streams :
          /\ leg'[q] # "threw" => wrote'[q] = piped'[q] + got'[q]
          /\ leg'[q] = "done" => piped'[q] = 0
    <3> TAKE q \in Streams
    <3>1. CASE q = s
      BY <2>1, <3>1 DEF ResultInv
    <3>2. CASE q # s
      BY <2>1, <3>2 DEF ResultInv
    <3> QED
      BY <3>1, <3>2
  <2>3. UNCHANGED <<pc, outcome, child, reason, plan>>
    BY <1>12 DEF ChildWrites, parentVars, childVars
  <2> QED
    BY <2>1, <2>2, <2>3 DEF ResultInv
<1>13. ASSUME NEW s \in Streams, ChildCloses(s) PROVE ResultInv'
  BY <1>13 DEF ChildCloses, parentVars, childVars, ResultInv
<1>14. ASSUME NEW c \in ExitCodes \cup SignalCodes \cup {CrashCode}, Die(c) PROVE ResultInv'
  BY <1>14 DEF Die, parentVars, ResultInv
<1>15. CASE ChildIgnoresTerm
  BY <1>15 DEF ChildIgnoresTerm, parentVars, pipeVars, ResultInv
<1>16. CASE UNCHANGED vars
  BY <1>16 DEF vars, parentVars, childVars, pipeVars, ResultInv
<1> QED
  BY <1>1, <1>2, <1>3, <1>4, <1>5, <1>6, <1>7, <1>8, <1>9, <1>10, <1>11, <1>12, <1>13,
     <1>14, <1>15, <1>16
  DEF Next, Call, ChildExits, ChildCrashes, ChildDiesOfTerm, ChildDiesOfKill

(* A result always comes from a complete stdout, after every event. *)
THEOREM ResultIsCompleteHolds == Spec => []ResultIsComplete
<1>1. Init => TypeOK /\ LadderInv /\ ResultInv
  BY TypeInit, LadderInit, EngineRunAssumption DEF Init, ResultInv
<1>2. TypeOK /\ LadderInv /\ ResultInv /\ [Next]_vars => (TypeOK /\ LadderInv /\ ResultInv)'
  BY TypeStep, LadderStep, ResultStep
<1>3. TypeOK /\ ResultInv => ResultIsComplete
  <2> SUFFICES ASSUME TypeOK, ResultInv, outcome \in Successes
               PROVE  /\ child = "dead" /\ reason = "null"
                      /\ got = wrote /\ wrote["stdout"] = plan["stdout"]
                      /\ got["stdout"] <= StdoutCap
    BY DEF ResultIsComplete
  <2>1. \A s \in Streams : got[s] = wrote[s]
    BY DEF ResultInv, PipeTypeOK
  <2>2. got = wrote
    BY <2>1 DEF PipeTypeOK
  <2> QED
    BY <2>1, <2>2 DEF ResultInv
<1> QED
  BY <1>1, <1>2, <1>3, PTL DEF Spec

-----------------------------------------------------------------------------
(* What a step may never do *)

LEMMA ReasonStep == TypeOK /\ LadderInv /\ [Next]_vars => (reason # "null" => reason' = reason)
<1> SUFFICES ASSUME TypeOK, LadderInv, [Next]_vars, reason # "null" PROVE reason' = reason
  OBVIOUS
<1>1. pc # "call"
  BY DEF LadderInv
<1>2. CASE Call
  BY <1>1, <1>2 DEF Call, CallEmpty, CallMissing, CallSpawn, Prologue
<1>3. CASE CallerAborts \/ TimeoutFires \/ GraceExpires
  BY <1>3 DEF CallerAborts, TimeoutFires, GraceExpires, Trigger, Reason
<1>4. CASE ReadChunk \/ ReadLine \/ Conclude \/ ChildIgnoresTerm \/ UNCHANGED vars
  BY <1>4 DEF ReadChunk, ReadLine, Conclude, ChildIgnoresTerm, parentVars, vars
<1>5. ASSUME NEW s \in Streams,
             EndOfStream(s) \/ Unwind(s) \/ ChildWrites(s) \/ ChildCloses(s)
      PROVE  reason' = reason
  BY <1>5 DEF EndOfStream, Unwind, ChildWrites, ChildCloses, parentVars
<1>6. ASSUME NEW c \in ExitCodes \cup SignalCodes \cup {CrashCode}, Die(c)
      PROVE  reason' = reason
  BY <1>6 DEF Die, parentVars
<1> QED
  BY <1>2, <1>3, <1>4, <1>5, <1>6
  DEF Next, ChildExits, ChildCrashes, ChildDiesOfTerm, ChildDiesOfKill

LEMMA SettleStep ==
  TypeOK /\ LadderInv /\ [Next]_vars =>
    (reason # "null" /\ outcome' # outcome =>
       \/ outcome' = IF reason = "timeout" THEN "TimeoutError" ELSE "AbortError"
       \/ \E s \in Streams : leg[s] = "threw")
<1> SUFFICES ASSUME TypeOK, LadderInv, [Next]_vars, reason # "null", outcome' # outcome
             PROVE  \/ outcome' = IF reason = "timeout" THEN "TimeoutError" ELSE "AbortError"
                    \/ \E s \in Streams : leg[s] = "threw"
  OBVIOUS
<1>1. pc # "call"
  BY DEF LadderInv
<1>2. CASE Call
  BY <1>1, <1>2 DEF Call, CallEmpty, CallMissing, CallSpawn, Prologue
<1>3. CASE Conclude
  <2>1. reason \in {"external", "timeout"} /\ outcome' = Verdict
    BY <1>3 DEF Conclude, TypeOK, ParentTypeOK
  <2>2. CASE reason = "timeout"
    BY <2>1, <2>2 DEF Verdict
  <2>3. CASE reason = "external"
    BY <2>1, <2>3 DEF Verdict
  <2> QED
    BY <2>1, <2>2, <2>3
<1>4. CASE \E s \in Streams : Unwind(s)
  BY <1>4 DEF Unwind
<1>5. CASE UNCHANGED outcome
  BY <1>5
<1>6. Call \/ Conclude \/ (\E s \in Streams : Unwind(s)) \/ UNCHANGED outcome
  BY DEF Next, CallerAborts, TimeoutFires, GraceExpires, ReadChunk, ReadLine, EndOfStream,
     ChildWrites, ChildCloses, ChildExits, ChildCrashes, ChildDiesOfTerm, ChildDiesOfKill, Die,
     ChildIgnoresTerm, parentVars, vars
<1> QED
  BY <1>2, <1>3, <1>4, <1>5, <1>6

(* Whichever of cancel and timeout came first stays the recorded reason,   *)
(* and is what the run settles with, unless one of its readers threw.      *)
THEOREM FirstReasonWinsHolds == Spec => FirstReasonWins
<1>1. Init => TypeOK /\ LadderInv
  BY TypeInit, LadderInit
<1>2. TypeOK /\ LadderInv /\ [Next]_vars => (TypeOK /\ LadderInv)'
  BY TypeStep, LadderStep
<1>3. TypeOK /\ LadderInv /\ [Next]_vars =>
        [reason # "null" =>
           /\ reason' = reason
           /\ outcome' # outcome =>
                \/ outcome' = IF reason = "timeout" THEN "TimeoutError" ELSE "AbortError"
                \/ \E s \in Streams : leg[s] = "threw"]_vars
  BY ReasonStep, SettleStep
<1> QED
  BY <1>1, <1>2, <1>3, PTL DEF Spec, FirstReasonWins

(* The grace timer is armed by an abort and by nothing else. *)
GraceInv == killTimer => reason # "null"

LEMMA GraceStep == TypeOK /\ LadderInv /\ GraceInv /\ [Next]_vars => GraceInv'
<1> SUFFICES ASSUME TypeOK, LadderInv, GraceInv, [Next]_vars, killTimer' PROVE reason' # "null"
  BY DEF GraceInv
<1>1. CASE Call
  BY <1>1 DEF Call, CallEmpty, CallMissing, CallSpawn, Prologue, HookLadder, LadderInv
<1>2. CASE CallerAborts \/ TimeoutFires
  <2>1. \/ UNCHANGED <<reason, killTimer>>
        \/ \E r \in {"external", "timeout"} : reason' = Reason(r)
    BY <1>2 DEF CallerAborts, TimeoutFires, Trigger
  <2> QED
    BY <2>1 DEF Reason, GraceInv
<1>3. CASE GraceExpires \/ Conclude \/ ChildIgnoresTerm
  BY <1>3 DEF GraceExpires, Conclude, Cleanup, ChildIgnoresTerm, parentVars, GraceInv
<1>4. CASE ReadChunk \/ ReadLine \/ UNCHANGED vars
  BY <1>4 DEF ReadChunk, ReadLine, parentVars, vars, GraceInv
<1>5. ASSUME NEW s \in Streams,
             EndOfStream(s) \/ Unwind(s) \/ ChildWrites(s) \/ ChildCloses(s)
      PROVE  reason' # "null"
  BY <1>5 DEF EndOfStream, Unwind, Cleanup, ChildWrites, ChildCloses, parentVars, GraceInv
<1>6. ASSUME NEW c \in ExitCodes \cup SignalCodes \cup {CrashCode}, Die(c)
      PROVE  reason' # "null"
  BY <1>6 DEF Die, parentVars, GraceInv
<1> QED
  BY <1>1, <1>2, <1>3, <1>4, <1>5, <1>6
  DEF Next, ChildExits, ChildCrashes, ChildDiesOfTerm, ChildDiesOfKill

LEMMA KillStep ==
  TypeOK /\ LadderInv /\ GraceInv /\ [Next]_vars =>
    (("KILL" \in posted' /\ "KILL" \notin posted) =>
       (reason # "null" /\ killTimer) \/ pc' = "settled")
<1> SUFFICES ASSUME TypeOK, LadderInv, GraceInv, [Next]_vars,
                    "KILL" \in posted', "KILL" \notin posted
             PROVE  (reason # "null" /\ killTimer) \/ pc' = "settled"
  OBVIOUS
<1>1. CASE Call
  BY <1>1 DEF Call, CallEmpty, CallMissing, CallSpawn, HookLadder, childVars
<1>2. CASE CallerAborts \/ TimeoutFires
  BY <1>2 DEF CallerAborts, TimeoutFires, Trigger, OnAbort, Posted
<1>3. CASE GraceExpires
  BY <1>3 DEF GraceExpires, GraceInv
<1>4. CASE ReadChunk \/ ReadLine \/ Conclude \/ ChildIgnoresTerm \/ UNCHANGED vars
  BY <1>4 DEF ReadChunk, ReadLine, Conclude, ChildIgnoresTerm, childVars, vars
<1>5. ASSUME NEW s \in Streams,
             EndOfStream(s) \/ Unwind(s) \/ ChildWrites(s) \/ ChildCloses(s)
      PROVE  pc' = "settled"
  BY <1>5 DEF EndOfStream, Unwind, ChildWrites, ChildCloses, childVars
<1>6. ASSUME NEW c \in ExitCodes \cup SignalCodes \cup {CrashCode}, Die(c) PROVE FALSE
  BY <1>6 DEF Die
<1> QED
  BY <1>1, <1>2, <1>3, <1>4, <1>5, <1>6
  DEF Next, ChildExits, ChildCrashes, ChildDiesOfTerm, ChildDiesOfKill

(* No child is SIGKILLed before its grace is over, but by the cleanup. *)
THEOREM GraceRespectedHolds == Spec => GraceRespected
<1>1. Init => TypeOK /\ LadderInv /\ GraceInv
  BY TypeInit, LadderInit DEF Init, GraceInv
<1>2. TypeOK /\ LadderInv /\ GraceInv /\ [Next]_vars => (TypeOK /\ LadderInv /\ GraceInv)'
  BY TypeStep, LadderStep, GraceStep
<1>3. TypeOK /\ LadderInv /\ GraceInv /\ [Next]_vars =>
        [("KILL" \in posted' /\ "KILL" \notin posted) =>
           (reason # "null" /\ killTimer) \/ pc' = "settled"]_vars
  BY KillStep
<1> QED
  BY <1>1, <1>2, <1>3, PTL DEF Spec, GraceRespected

-----------------------------------------------------------------------------
(* The promise *)

LEMMA PromiseStep ==
  TypeOK /\ LadderInv /\ [Next]_vars => [Promise!Next]_(Promise!promiseVars)
<1> SUFFICES ASSUME TypeOK, LadderInv, [Next]_vars
             PROVE  Promise!Next \/ UNCHANGED Promise!promiseVars
  BY DEF Promise!promiseVars
<1> USE DEF Promise!Next, Promise!promiseVars, Promise!PermittedOutcomes,
            Promise!AnytimeFailures, Promise!Successes, Promise!Verdicts
<1>1. CASE CallEmpty
  BY <1>1 DEF CallEmpty, Promise!Settle
<1>2. CASE CallMissing
  BY <1>2 DEF CallMissing, Prologue, Promise!Settle
<1>3. CASE CallSpawn
  BY <1>3 DEF CallSpawn, Prologue, Promise!Start
<1>4. CASE CallerAborts
  BY <1>4 DEF CallerAborts, Promise!Abort
<1>5. CASE TimeoutFires \/ GraceExpires \/ ChildIgnoresTerm
  BY <1>5 DEF TimeoutFires, GraceExpires, ChildIgnoresTerm, parentVars
<1>6. CASE ReadChunk \/ ReadLine
  BY <1>6 DEF ReadChunk, ReadLine, parentVars
<1>7. ASSUME NEW s \in Streams, EndOfStream(s) \/ ChildWrites(s) \/ ChildCloses(s)
      PROVE  UNCHANGED Promise!promiseVars
  BY <1>7 DEF EndOfStream, ChildWrites, ChildCloses, parentVars
<1>8. ASSUME NEW s \in Streams, Unwind(s) PROVE Promise!Settle
  BY <1>8 DEF Unwind, Promise!Settle
<1>9. CASE Conclude
  <2>1. Verdict \in PermittedOutcomes(signal = "aborted")
    BY <1>9 DEF Conclude, Verdict, Judgement, LadderInv, ParentTypeOK, PermittedOutcomes
  <2> QED
    BY <1>9, <2>1 DEF Conclude, Promise!Settle, PermittedOutcomes
<1>10. ASSUME NEW c \in ExitCodes \cup SignalCodes \cup {CrashCode}, Die(c)
       PROVE  UNCHANGED Promise!promiseVars
  BY <1>10 DEF Die, parentVars
<1>11. CASE UNCHANGED vars
  BY <1>11 DEF vars, parentVars
<1> QED
  BY <1>1, <1>2, <1>3, <1>4, <1>5, <1>6, <1>7, <1>8, <1>9, <1>10, <1>11
  DEF Next, Call, ChildExits, ChildCrashes, ChildDiesOfTerm, ChildDiesOfKill

(* A run settles at most once, and only as the caller's abort permits. *)
THEOREM ImplementsPromise == Spec => Promise!SafeSpec
<1>1. Init => Promise!Init
  BY DEF Init, Promise!Init
<1>2. Init => TypeOK /\ LadderInv
  BY TypeInit, LadderInit
<1>3. TypeOK /\ LadderInv /\ [Next]_vars => (TypeOK /\ LadderInv)'
  BY TypeStep, LadderStep
<1> QED
  BY <1>1, <1>2, <1>3, PromiseStep, PTL DEF Spec, Promise!SafeSpec
=============================================================================
