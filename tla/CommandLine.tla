---------------------------- MODULE CommandLine ----------------------------
(***************************************************************************)
(* What the words after `chordtui analyze`, `engine-info` and `setup`      *)
(* mean: the left-to-right scans of parseFlags (index.tsx) and planSetup   *)
(* (cli/commands.ts), one word a step, and what the router and the setup   *)
(* then do.  Commands starts from a command line that was accepted here.   *)
(***************************************************************************)
EXTENDS Naturals, Sequences, SequencesExt

CONSTANTS
  OtherWords,   \* words that are neither an option nor an engine; Blank is ""
  UnknownFlags, \* "--" words no command knows
  MaxArgs,      \* bound: words on the command line
  Blank, None

ENGINE_NAMES == {"librosa", "btc", "essentia"}
Flags == {"--json", "--no-cache", "--no-btc", "--engine"} \cup UnknownFlags
Words == Flags \cup ENGINE_NAMES \cup OtherWords

ASSUME CommandLineAssumption ==
  /\ Blank \in OtherWords /\ None \notin Words
  /\ OtherWords \cap (Flags \cup ENGINE_NAMES) = {} /\ UnknownFlags \cap ENGINE_NAMES = {}
  /\ MaxArgs \in Nat

VARIABLES
  command,  \* "analyze", "engine-info", "setup"
  args,     \* the words after it
  i,        \* the next word to look at
  parsed,   \* ParsedFlags, and planSetup's locals
  outcome   \* "scanning", then what is done

vars == <<command, args, i, parsed, outcome>>

Init ==
  /\ command \in {"analyze", "engine-info", "setup"}
  /\ args \in BoundedSeq(Words, MaxArgs)
  /\ i = 1
  /\ parsed = [positionals |-> <<>>, engine |-> None, json |-> FALSE, noCache |-> FALSE,
               noBtc |-> FALSE, unknownFlag |-> None]
  /\ outcome = "scanning"

-----------------------------------------------------------------------------
(* The scan: one branch of the loop body each *)

Look(words) ==
  /\ outcome = "scanning" /\ i <= Len(args)
  /\ args[i] \in words
  /\ UNCHANGED <<command, args, outcome>>

(* The flags of its own the command takes; the others are unknown to it. *)
FlagsOf(cmd) == IF cmd = "setup" THEN {"--no-btc"} ELSE {"--json", "--no-cache"}

Flag ==
  /\ Look(FlagsOf(command))
  /\ parsed' = [parsed EXCEPT !.json = @ \/ args[i] = "--json",
                              !.noCache = @ \/ args[i] = "--no-cache",
                              !.noBtc = @ \/ args[i] = "--no-btc"]
  /\ i' = i + 1

(* Mutant: the value of --engine is looked at again as a word of its own. *)
StepOverNot == i + 1

StepOver == i + 2

(* --engine takes the next word, whatever it is; there may be none. *)
Engine ==
  /\ Look({"--engine"})
  /\ parsed' = [parsed EXCEPT !.engine = IF i < Len(args) THEN args[i + 1] ELSE None]
  /\ i' = StepOver

(* Mutant: only the last word's verdict counts. *)
FirstUnknownUnlessFollowed(word) == IF i = Len(args) THEN word ELSE None

FirstUnknown(word) == IF parsed.unknownFlag = None THEN word ELSE parsed.unknownFlag

Unknown ==
  /\ Look(Flags \ (FlagsOf(command) \cup {"--engine"}))
  /\ parsed' = [parsed EXCEPT !.unknownFlag = FirstUnknown(args[i])]
  /\ i' = i + 1

Positional ==
  /\ Look(ENGINE_NAMES \cup OtherWords)
  /\ parsed' = [parsed EXCEPT !.positionals = Append(@, args[i])]
  /\ i' = i + 1

-----------------------------------------------------------------------------
(* What is made of it *)

(* Mutant: any engine is passed on to the sidecar. *)
CheckEngineNot(engine) == TRUE

(* checkEngine: no engine is fine. *)
CheckEngine(engine) == engine = None \/ engine \in ENGINE_NAMES

(* main: an unknown option, a missing file, an unknown engine. *)
Misused ==
  \/ parsed.unknownFlag # None
  \/ command = "analyze" /\ (parsed.positionals = <<>> \/ Head(parsed.positionals) = Blank)
  \/ ~CheckEngine(parsed.engine)

(* Mutant: an engine asked for by name is installed, --no-btc or not. *)
PlanSetupByName ==
  IF parsed.unknownFlag # None \/ ~CheckEngine(parsed.engine) \/ parsed.engine = "essentia"
    THEN "refused"
  ELSE IF parsed.engine = "librosa" \/ (parsed.noBtc /\ parsed.engine # "btc")
    THEN "install librosa"
  ELSE "install both"

(* planSetup, after its loop *)
PlanSetup ==
  IF parsed.unknownFlag # None \/ ~CheckEngine(parsed.engine) \/ parsed.engine = "essentia"
    THEN "refused"
  ELSE IF parsed.engine = "librosa" \/ parsed.noBtc
    THEN "install librosa"
  ELSE "install both"

Decide ==
  /\ outcome = "scanning" /\ i > Len(args)
  /\ outcome' = CASE command = "setup" -> PlanSetup
                  [] command # "setup" /\ Misused -> "refused"
                  [] OTHER -> "run"
  /\ UNCHANGED <<command, args, i, parsed>>

Next == Flag \/ Engine \/ Unknown \/ Positional \/ Decide

Spec == Init /\ [][Next]_vars

-----------------------------------------------------------------------------
(* Properties *)

(* The words that are the value of an option before them, from the left:   *)
(* in "--engine --engine btc" the second --engine is, and btc is not.      *)
IsValue ==
  LET value[k \in 0..Len(args)] == k > 1 /\ args[k - 1] = "--engine" /\ ~value[k - 1]
  IN value

(* The words that stand for themselves. *)
Free == {k \in 1..Len(args) : ~IsValue[k]}

Decided == outcome # "scanning"

(* "Single left-to-right pass so flags and the positional file can         *)
(* interleave": wherever they stand, a flag is on if it is there, the last *)
(* engine counts, the first free word is the file, and no value of an      *)
(* option is taken for either.                                             *)
ReadAsMeant ==
  Decided =>
    /\ \A flag \in FlagsOf(command) : (\E k \in Free : args[k] = flag)
         <=> (flag = "--json" /\ parsed.json) \/ (flag = "--no-cache" /\ parsed.noCache)
               \/ (flag = "--no-btc" /\ parsed.noBtc)
    /\ \A k \in Free :
         args[k] = "--engine" /\ (\A j \in Free : args[j] = "--engine" => j <= k) =>
           parsed.engine = IF k = Len(args) THEN None ELSE args[k + 1]
    /\ outcome = "run" /\ command = "analyze" =>
         \E k \in Free : /\ args[k] = Head(parsed.positionals)
                         /\ \A j \in Free : j < k => args[j] \in Flags

(* An option the command does not know stops it, wherever it stands: it is *)
(* neither skipped nor taken for the file.                                 *)
UnknownIsRefused ==
  Decided /\ (\E k \in Free : args[k] \in Flags \ (FlagsOf(command) \cup {"--engine"}))
    => outcome = "refused"

(* No sidecar is started, and nothing installed, for an engine nobody has  *)
(* heard of, or whose name was meant as another option.                    *)
EnginesAreKnown ==
  Decided /\ outcome # "refused" =>
    \A k \in Free : args[k] = "--engine" /\ (\A j \in Free : args[j] = "--engine" => j <= k)
      /\ k < Len(args) => args[k + 1] \in ENGINE_NAMES

(* "btc ... unless --no-btc or --engine librosa": no other word, before or *)
(* after it, brings btc back.                                              *)
NoBtcMeansNoBtc ==
  Decided /\ command = "setup" /\ (\E k \in Free : args[k] = "--no-btc") =>
    outcome \in {"refused", "install librosa"}

(* A command line does what it says, or nothing.                           *)
LineUnderstood == ReadAsMeant /\ UnknownIsRefused /\ EnginesAreKnown /\ NoBtcMeansNoBtc
=============================================================================
