------------------------------ MODULE Uncached ------------------------------
(***************************************************************************)
(* What the callers of analyzeWithCache may believe: that there is no      *)
(* cache.  Whoever asks is answered with an analysis, by the engine asked  *)
(* for, of the audio as it was when asked, or is told that it failed; and  *)
(* once an analysis has been computed, that is the answer.                 *)
(***************************************************************************)
EXTENDS Naturals

CONSTANTS
  Procs,
  Questions,     \* records of audio, engine, expected (a version, 0 for any) and mock
  Analyses,      \* records of audio, engine, version and mock
  noQuestion,
  None

VARIABLES
  stage,         \* per process: "idle", "asked", "owed" or "answered"
  question,
  answer

askVars == <<stage, question, answer>>

Init ==
  /\ stage = [p \in Procs |-> "idle"]
  /\ question = [p \in Procs |-> noQuestion]
  /\ answer = [p \in Procs |-> None]

Answers(a, q) ==
  /\ a.audio = q.audio /\ a.engine = q.engine /\ a.mock = q.mock
  /\ a.version >= q.expected

Ask(p) ==
  /\ stage[p] \in {"idle", "answered"}
  /\ stage' = [stage EXCEPT ![p] = "asked"]
  /\ question'[p] \in Questions /\ question' = [question EXCEPT ![p] = question'[p]]
  /\ answer' = [answer EXCEPT ![p] = None]

(* An analysis is there; it is handed over at once or after some saving. *)
Compute(p) ==
  /\ stage[p] = "asked"
  /\ \E s \in {"owed", "answered"} : stage' = [stage EXCEPT ![p] = s]
  /\ \E a \in Analyses : Answers(a, question[p]) /\ answer' = [answer EXCEPT ![p] = a]
  /\ UNCHANGED question

HandOver(p) ==
  /\ stage[p] = "owed"
  /\ stage' = [stage EXCEPT ![p] = "answered"]
  /\ UNCHANGED <<question, answer>>

Forget(p) ==
  /\ question' = [question EXCEPT ![p] = noQuestion]
  /\ answer' = [answer EXCEPT ![p] = None]

(* The call fails, for want of an engine or of audio; never once there is  *)
(* an analysis.                                                            *)
Fail(p) ==
  /\ stage[p] = "asked"
  /\ stage' = [stage EXCEPT ![p] = "answered"]
  /\ Forget(p)

(* The process is gone, at any moment. *)
Vanish(p) ==
  /\ stage[p] \in {"asked", "owed"}
  /\ stage' = [stage EXCEPT ![p] = "idle"]
  /\ Forget(p)

Next == \E p \in Procs : Ask(p) \/ Compute(p) \/ HandOver(p) \/ Fail(p) \/ Vanish(p)

Spec == Init /\ [][Next]_askVars
=============================================================================
