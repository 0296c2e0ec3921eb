------------------------- MODULE CommandLineProofs -------------------------
(***************************************************************************)
(* For every command line, however long: the scan of CommandLine           *)
(* understands it.                                                         *)
(***************************************************************************)
EXTENDS CommandLine, Induction

USE CommandLineAssumption

(* What is an option's value is decided from the left.  IsValue is defined  *)
(* by recursion, so that it satisfies its equation has to be proved.        *)
LEMMA ValuesFromTheLeft ==
  ASSUME args \in Seq(Words)
  PROVE  /\ IsValue \in [0..Len(args) -> BOOLEAN]
         /\ \A k \in 0..Len(args) :
              IsValue[k] <=> k > 1 /\ args[k - 1] = "--engine" /\ ~IsValue[k - 1]
<1> DEFINE m == Len(args)
           Value(f) == [k \in 0..m |-> k > 1 /\ args[k - 1] = "--engine" /\ ~f[k - 1]]
           T == [k \in 1..m |-> [v \in BOOLEAN |-> k > 1 /\ args[k - 1] = "--engine" /\ ~v]]
<1>1. m \in Nat /\ T \in [1..m -> [BOOLEAN -> BOOLEAN]]
  OBVIOUS
<1>2. PICK f : Computes(f, m, BOOLEAN, FALSE, T)
  <2>1. FALSE \in BOOLEAN
    OBVIOUS
  <2> HIDE DEF T, m
  <2> QED BY <1>1, <2>1, Recursion
<1>3. f \in [0..m -> BOOLEAN] /\ f[0] = FALSE /\ \A n \in 1..m : f[n] = T[n][f[n - 1]]
  <2> HIDE DEF T, m
  <2> QED BY <1>2 DEF Computes
<1>4. f = Value(f)
  <2>1. ASSUME NEW k \in 0..m PROVE f[k] = Value(f)[k]
    <3>1. CASE k = 0
      <4>1. f[k] = FALSE
        BY <1>3, <3>1
      <4>2. Value(f)[k] = FALSE
        <5>1. Value(f)[k] = (k > 1 /\ args[k - 1] = "--engine" /\ ~f[k - 1])
          OBVIOUS
        <5>2. (k > 1 /\ args[k - 1] = "--engine" /\ ~f[k - 1]) = FALSE
          BY <3>1
        <5> HIDE DEF Value
        <5> QED BY <5>1, <5>2
      <4> HIDE DEF Value
      <4> QED BY <4>1, <4>2
    <3>2. CASE k # 0
      <4>1. k \in 1..m /\ k - 1 \in 0..m
        BY <1>1, <3>2
      <4>2. f[k] = T[k][f[k - 1]]
        <5> HIDE DEF T, m
        <5> QED BY <1>3, <4>1
      <4>3. f[k - 1] \in BOOLEAN
        BY <1>3, <4>1
      <4> QED BY <4>1, <4>2, <4>3
    <3> QED BY <3>1, <3>2
  <2> QED BY <1>3, <2>1
<1>5. IsValue = CHOOSE g : g = Value(g)
  BY DEF IsValue
<1>6. IsValue = Value(IsValue)
  <2> HIDE DEF Value
  <2> QED BY <1>4, <1>5
<1> QED BY <1>6

-----------------------------------------------------------------------------
(* The invariant *)

Typed ==
  /\ command \in {"analyze", "engine-info", "setup"}
  /\ args \in Seq(Words)
  /\ i \in 1..Len(args) + 2
  /\ parsed \in [positionals : Seq(Words), engine : Words \cup {None}, json : BOOLEAN,
                 noCache : BOOLEAN, noBtc : BOOLEAN, unknownFlag : Words \cup {None}]

(* The words that were looked at: those that stand for themselves, so far. *)
Seen == {k \in Free : k < i}

(* The next word to look at is no option's value. *)
AtFreeWord == i <= Len(args) => i \in Free

Names(k) == args[k] = "--engine"
LastNamed(k) == k \in Seen /\ Names(k) /\ \A j \in Seen : Names(j) => j <= k
Own == FlagsOf(command)

SeenFlags ==
  /\ "--json" \in Own => (parsed.json <=> \E k \in Seen : args[k] = "--json")
  /\ "--no-cache" \in Own => (parsed.noCache <=> \E k \in Seen : args[k] = "--no-cache")
  /\ "--no-btc" \in Own => (parsed.noBtc <=> \E k \in Seen : args[k] = "--no-btc")

SeenEngine ==
  \A k \in Seen : LastNamed(k) => parsed.engine = IF k = Len(args) THEN None ELSE args[k + 1]

SeenUnknown ==
  (\E k \in Seen : args[k] \in Flags \ (Own \cup {"--engine"})) => parsed.unknownFlag # None

SeenFile ==
  IF parsed.positionals = <<>> THEN \A k \in Seen : args[k] \in Flags
  ELSE \E k \in Seen : /\ args[k] = Head(parsed.positionals)
                       /\ \A j \in Seen : j < k => args[j] \in Flags

Outcomes ==
  outcome # "scanning" =>
    /\ i > Len(args)
    /\ outcome = IF command = "setup" THEN PlanSetup ELSE IF Misused THEN "refused" ELSE "run"

ScanInv == Typed /\ AtFreeWord /\ SeenFlags /\ SeenEngine /\ SeenUnknown /\ SeenFile /\ Outcomes

-----------------------------------------------------------------------------
(* A word that is not an option with a value leads to the next one ...     *)
LEMMA WordSeen ==
  ASSUME Typed, AtFreeWord, i <= Len(args), args[i] # "--engine"
  PROVE  /\ {k \in Free : k < i + 1} = Seen \cup {i}
         /\ i + 1 <= Len(args) => i + 1 \in Free
<1>1. Len(args) \in Nat /\ args \in Seq(Words) /\ i \in 1..Len(args) /\ i \in Free
  BY DEF Typed, AtFreeWord
<1>2. {k \in Free : k < i + 1} = Seen \cup {i}
  BY <1>1 DEF Seen, Free
<1>3. ASSUME i + 1 <= Len(args) PROVE ~IsValue[i + 1]
  BY <1>1, <1>3, ValuesFromTheLeft
<1> QED BY <1>1, <1>2, <1>3 DEF Free

(* ... and --engine to the one after its value. *)
LEMMA EngineSeen ==
  ASSUME Typed, AtFreeWord, i <= Len(args), args[i] = "--engine"
  PROVE  /\ {k \in Free : k < i + 2} = Seen \cup {i}
         /\ i + 2 <= Len(args) => i + 2 \in Free
<1>1. Len(args) \in Nat /\ args \in Seq(Words) /\ i \in 1..Len(args) /\ i \in Free
  BY DEF Typed, AtFreeWord
<1>2. ~IsValue[i]
  BY <1>1 DEF Free
<1>3. ASSUME i + 1 <= Len(args) PROVE IsValue[i + 1]
  BY <1>1, <1>2, <1>3, ValuesFromTheLeft
<1>4. ASSUME i + 2 <= Len(args) PROVE ~IsValue[i + 2]
  BY <1>1, <1>3, <1>4, ValuesFromTheLeft
<1>5. \A k \in Free : k < i + 2 <=> k < i \/ k = i
  BY <1>1, <1>3 DEF Free
<1> QED BY <1>1, <1>4, <1>5 DEF Seen, Free

LEMMA Start == Init => ScanInv
<1> SUFFICES ASSUME Init PROVE ScanInv
  OBVIOUS
<1>1. args \in Seq(Words) /\ i = 1
  BY DEF Init, BoundedSeq, SeqOf
<1>2. Typed
  BY <1>1 DEF Init, Typed
<1>3. AtFreeWord
  BY <1>1, ValuesFromTheLeft DEF AtFreeWord, Free
<1>4. Seen = {}
  BY <1>1 DEF Seen, Free
<1> QED BY <1>2, <1>3, <1>4
     DEF Init, ScanInv, SeenFlags, SeenEngine, SeenUnknown, SeenFile, Outcomes, LastNamed

(* One word looked at: what has to be shown of each branch of the scan.    *)
LEMMA OneWord ==
  ASSUME ScanInv, UNCHANGED <<command, args, outcome>>, outcome = "scanning", i <= Len(args),
         i' = IF args[i] = "--engine" THEN i + 2 ELSE i + 1
  PROVE  Seen' = Seen \cup {i} /\ AtFreeWord' /\ Outcomes' /\ Free' = Free /\ i \notin Seen /\ i \in Free
<1>1. Typed /\ AtFreeWord
  BY DEF ScanInv
<1>2. Free' = Free
  BY DEF Free, IsValue
<1>3. /\ {k \in Free : k < i'} = Seen \cup {i}
      /\ i' <= Len(args) => i' \in Free
  BY <1>1, WordSeen, EngineSeen
<1>4. Seen' = Seen \cup {i}
  BY <1>2, <1>3 DEF Seen
<1>5. AtFreeWord'
  BY <1>2, <1>3 DEF AtFreeWord
<1>6. i \notin Seen /\ i \in Free
  BY <1>1 DEF Seen, AtFreeWord, Typed
<1> QED BY <1>2, <1>4, <1>5, <1>6 DEF Outcomes

LEMMA Step == ScanInv /\ [Next]_vars => ScanInv'
<1> SUFFICES ASSUME ScanInv, [Next]_vars PROVE ScanInv'
  OBVIOUS
<1> USE DEF ScanInv
<1>1. CASE Flag
  <2>1. outcome = "scanning" /\ i <= Len(args) /\ args[i] \in Own /\ i' = i + 1
        /\ UNCHANGED <<command, args, outcome>>
    BY <1>1 DEF Flag, Look, Own
  <2>2. args[i] # "--engine"
    BY <2>1 DEF Own, FlagsOf
  <2>3. Seen' = Seen \cup {i} /\ AtFreeWord' /\ Outcomes' /\ Free' = Free
    BY <2>1, <2>2, OneWord
  <2>4. parsed' = [parsed EXCEPT !.json = @ \/ args[i] = "--json",
                                 !.noCache = @ \/ args[i] = "--no-cache",
                                 !.noBtc = @ \/ args[i] = "--no-btc"]
    BY <1>1 DEF Flag
  <2>5. Typed'
    <3>1. /\ (parsed.json \/ args[i] = "--json") \in BOOLEAN
          /\ (parsed.noCache \/ args[i] = "--no-cache") \in BOOLEAN
          /\ (parsed.noBtc \/ args[i] = "--no-btc") \in BOOLEAN
      OBVIOUS
    <3>2. parsed' \in [positionals : Seq(Words), engine : Words \cup {None}, json : BOOLEAN,
                       noCache : BOOLEAN, noBtc : BOOLEAN, unknownFlag : Words \cup {None}]
      BY <2>4, <3>1, Zenon DEF Typed
    <3> QED BY <2>1, <3>2 DEF Typed
  <2>6. Own' = Own
    BY <2>1 DEF Own
  <2>7. SeenFlags'
    BY <2>1, <2>3, <2>4, <2>6 DEF SeenFlags, Typed
  <2>8. SeenEngine'
    BY <2>1, <2>2, <2>3, <2>4 DEF SeenEngine, Typed, LastNamed, Names
  <2>9. SeenUnknown'
    BY <2>1, <2>3, <2>4, <2>6 DEF SeenUnknown, Typed
  <2>10. SeenFile'
    BY <2>1, <2>3, <2>4 DEF SeenFile, Typed, Own, FlagsOf, Flags
  <2> QED BY <2>3, <2>5, <2>7, <2>8, <2>9, <2>10
<1>2. CASE Engine
  <2>1. outcome = "scanning" /\ i <= Len(args) /\ args[i] = "--engine" /\ i' = i + 2
        /\ UNCHANGED <<command, args, outcome>>
    BY <1>2 DEF Engine, Look, StepOver
  <2>2. /\ Seen' = Seen \cup {i} /\ AtFreeWord' /\ Outcomes' /\ Free' = Free /\ i \in Free
        /\ \A k \in Seen : k < i
    BY <2>1, OneWord DEF Seen
  <2>3. parsed' = [parsed EXCEPT !.engine = IF i < Len(args) THEN args[i + 1] ELSE None]
    BY <1>2 DEF Engine
  <2>4. Typed'
    BY <2>1, <2>3 DEF Typed
  <2>5. Own' = Own
    BY <2>1 DEF Own
  <2>6. SeenFlags'
    BY <2>1, <2>2, <2>3, <2>5 DEF SeenFlags, Typed
  <2>7. SeenEngine'
    <3>1. ASSUME NEW k \in Seen', LastNamed(k)' PROVE k = i
      BY <2>1, <2>2, <3>1 DEF LastNamed, Names, Seen, Free, Typed
    <3>2. parsed'.engine = IF i = Len(args) THEN None ELSE args[i + 1]
      BY <2>1, <2>3 DEF Typed
    <3> QED BY <2>1, <3>1, <3>2 DEF SeenEngine
  <2>8. SeenUnknown'
    BY <2>1, <2>2, <2>3, <2>5 DEF SeenUnknown, Typed
  <2>9. SeenFile'
    BY <2>1, <2>2, <2>3 DEF SeenFile, Typed, Flags
  <2> QED BY <2>2, <2>4, <2>6, <2>7, <2>8, <2>9
<1>3. CASE Unknown
  <2>1. outcome = "scanning" /\ i <= Len(args) /\ args[i] \in Flags \ (Own \cup {"--engine"})
        /\ i' = i + 1 /\ UNCHANGED <<command, args, outcome>>
    BY <1>3 DEF Unknown, Look, Own
  <2>2. Seen' = Seen \cup {i} /\ AtFreeWord' /\ Outcomes' /\ Free' = Free
    BY <2>1, OneWord
  <2>3. parsed' = [parsed EXCEPT !.unknownFlag = FirstUnknown(args[i])]
    BY <1>3 DEF Unknown
  <2>4. args[i] \in Words /\ args[i] # None
    BY <2>1 DEF Words
  <2>5. Typed'
    BY <2>1, <2>3, <2>4 DEF Typed, FirstUnknown
  <2>6. Own' = Own
    BY <2>1 DEF Own
  <2>7. SeenFlags'
    BY <2>1, <2>2, <2>3, <2>6 DEF SeenFlags, Typed
  <2>8. SeenEngine'
    BY <2>1, <2>2, <2>3 DEF SeenEngine, Typed, LastNamed, Names
  <2>9. SeenUnknown'
    BY <2>3, <2>4 DEF SeenUnknown, Typed, FirstUnknown
  <2>10. SeenFile'
    BY <2>1, <2>2, <2>3 DEF SeenFile, Typed
  <2> QED BY <2>2, <2>5, <2>7, <2>8, <2>9, <2>10
<1>4. CASE Positional
  <2>1. outcome = "scanning" /\ i <= Len(args) /\ args[i] \in ENGINE_NAMES \cup OtherWords
        /\ i' = i + 1 /\ UNCHANGED <<command, args, outcome>>
    BY <1>4 DEF Positional, Look
  <2>2. args[i] \in Words /\ args[i] \notin Flags
    BY <2>1 DEF Words, Flags, ENGINE_NAMES
  <2>3. /\ Seen' = Seen \cup {i} /\ AtFreeWord' /\ Outcomes' /\ Free' = Free
        /\ \A k \in Seen : k < i
    BY <2>1, <2>2, OneWord DEF Flags, Seen
  <2>4. parsed' = [parsed EXCEPT !.positionals = Append(@, args[i])]
    BY <1>4 DEF Positional
  <2>5. Typed'
    <3>1. Append(parsed.positionals, args[i]) \in Seq(Words)
      BY <2>2 DEF Typed
    <3>2. parsed' \in [positionals : Seq(Words), engine : Words \cup {None}, json : BOOLEAN,
                       noCache : BOOLEAN, noBtc : BOOLEAN, unknownFlag : Words \cup {None}]
      BY <2>4, <3>1 DEF Typed
    <3> QED BY <2>1, <3>2 DEF Typed
  <2>6. Own' = Own /\ Own \subseteq Flags
    BY <2>1 DEF Own, FlagsOf, Flags
  <2>7. SeenFlags'
    BY <2>1, <2>2, <2>3, <2>4, <2>6 DEF SeenFlags, Typed
  <2>8. SeenEngine'
    BY <2>1, <2>2, <2>3, <2>4 DEF SeenEngine, Typed, LastNamed, Names, Flags
  <2>9. SeenUnknown'
    BY <2>1, <2>2, <2>3, <2>4, <2>6 DEF SeenUnknown, Typed
  <2>10. SeenFile'
    <3>1. /\ parsed'.positionals = Append(parsed.positionals, args[i])
          /\ parsed.positionals \in Seq(Words)
      BY <2>4 DEF Typed
    <3>2. parsed'.positionals # <<>>
      BY <2>2, <3>1
    <3>3. CASE parsed.positionals = <<>>
      <4>1. Head(parsed'.positionals) = args[i]
        BY <2>2, <3>1, <3>3
      <4>2. \A k \in Seen' : k < i => args[k] \in Flags
        <5>1. \A k \in Seen : args[k] \in Flags
          BY <3>3 DEF SeenFile
        <5>2. \A k \in Seen' : k < i => k \in Seen
          BY <2>3 DEF Typed
        <5> QED BY <5>1, <5>2
      <4> QED BY <2>1, <2>3, <3>2, <4>1, <4>2 DEF SeenFile
    <3>4. CASE parsed.positionals # <<>>
      <4>1. Head(parsed'.positionals) = Head(parsed.positionals)
        BY <2>2, <3>1, <3>4
      <4>2. PICK k \in Seen : /\ args[k] = Head(parsed.positionals)
                             /\ \A j \in Seen : j < k => args[j] \in Flags
        BY <3>4 DEF SeenFile
      <4>3. \A j \in Seen' : j < k => args[j] \in Flags
        BY <2>3, <4>2 DEF Seen, Free, Typed
      <4> QED BY <2>1, <2>3, <3>2, <4>1, <4>2, <4>3 DEF SeenFile
    <3> QED BY <3>3, <3>4
  <2> QED BY <2>3, <2>5, <2>7, <2>8, <2>9, <2>10
<1>5. CASE Decide
  <2>1. /\ UNCHANGED <<command, args, i, parsed>> /\ i > Len(args)
        /\ outcome' = IF command = "setup" THEN PlanSetup ELSE IF Misused THEN "refused" ELSE "run"
    BY <1>5 DEF Decide
  <2>2. Free' = Free
    BY <2>1 DEF Free, IsValue
  <2>3. Seen' = Seen /\ Own' = Own
    BY <2>1, <2>2 DEF Seen, Own
  <2>4. Outcomes'
    BY <2>1 DEF Outcomes, PlanSetup, Misused, CheckEngine
  <2>5. SeenFlags' /\ SeenEngine' /\ SeenUnknown' /\ SeenFile'
    BY <2>1, <2>2, <2>3 DEF SeenFlags, SeenEngine, SeenUnknown, SeenFile, LastNamed, Names
  <2> QED BY <2>1, <2>2, <2>4, <2>5 DEF Typed, AtFreeWord
<1>6. CASE UNCHANGED vars
  <2>1. UNCHANGED <<command, args, i, parsed, outcome>>
    BY <1>6 DEF vars
  <2>2. Free' = Free
    BY <2>1 DEF Free, IsValue
  <2>3. Seen' = Seen /\ Own' = Own
    BY <2>1, <2>2 DEF Seen, Own
  <2>4. Outcomes'
    BY <2>1 DEF Outcomes, PlanSetup, Misused, CheckEngine
  <2>5. SeenFlags' /\ SeenEngine' /\ SeenUnknown' /\ SeenFile'
    BY <2>1, <2>2, <2>3 DEF SeenFlags, SeenEngine, SeenUnknown, SeenFile, LastNamed, Names
  <2> QED BY <2>1, <2>2, <2>4, <2>5 DEF Typed, AtFreeWord
<1> QED BY <1>1, <1>2, <1>3, <1>4, <1>5, <1>6 DEF Next

-----------------------------------------------------------------------------
(* What a scan that is through has understood.                             *)
LEMMA Understood == ScanInv => LineUnderstood
<1> SUFFICES ASSUME ScanInv, Decided PROVE LineUnderstood
  BY DEF LineUnderstood, ReadAsMeant, UnknownIsRefused, EnginesAreKnown, NoBtcMeansNoBtc
<1>1. Typed /\ i > Len(args) /\ Seen = Free
  BY DEF ScanInv, Outcomes, Decided, Seen, Free, Typed
<1>2. outcome = IF command = "setup" THEN PlanSetup ELSE IF Misused THEN "refused" ELSE "run"
  BY DEF ScanInv, Outcomes, Decided
<1>3. ASSUME outcome # "refused" PROVE parsed.unknownFlag = None /\ CheckEngine(parsed.engine)
  BY <1>2, <1>3 DEF PlanSetup, Misused
<1>4. ReadAsMeant
  <2>1. ASSUME NEW flag \in FlagsOf(command)
        PROVE  (\E k \in Free : args[k] = flag)
                 <=> (flag = "--json" /\ parsed.json) \/ (flag = "--no-cache" /\ parsed.noCache)
                       \/ (flag = "--no-btc" /\ parsed.noBtc)
    BY <1>1 DEF ScanInv, SeenFlags, Own, FlagsOf
  <2>2. ASSUME NEW k \in Free, args[k] = "--engine",
               \A j \in Free : args[j] = "--engine" => j <= k
        PROVE  parsed.engine = IF k = Len(args) THEN None ELSE args[k + 1]
    BY <1>1, <2>2 DEF ScanInv, SeenEngine, LastNamed, Names
  <2>3. ASSUME outcome = "run", command = "analyze"
        PROVE  \E k \in Free : /\ args[k] = Head(parsed.positionals)
                               /\ \A j \in Free : j < k => args[j] \in Flags
    BY <1>1, <1>2, <2>3 DEF ScanInv, SeenFile, Misused
  <2> QED BY <2>1, <2>2, <2>3 DEF ReadAsMeant
<1>5. UnknownIsRefused
  BY <1>1, <1>3 DEF UnknownIsRefused, ScanInv, SeenUnknown, Own
<1>6. EnginesAreKnown
  <2>1. ASSUME outcome # "refused", NEW k \in Free, args[k] = "--engine",
               \A j \in Free : args[j] = "--engine" => j <= k, k < Len(args)
        PROVE  args[k + 1] \in ENGINE_NAMES
    <3>1. parsed.engine = args[k + 1]
      BY <1>1, <2>1 DEF ScanInv, SeenEngine, LastNamed, Names
    <3>2. args[k + 1] \in Words
      BY <1>1, <2>1 DEF Typed, Free
    <3> QED BY <1>3, <2>1, <3>1, <3>2 DEF CheckEngine
  <2> QED BY <2>1 DEF EnginesAreKnown
<1>7. NoBtcMeansNoBtc
  BY <1>1, <1>2 DEF NoBtcMeansNoBtc, ScanInv, SeenFlags, Own, FlagsOf, PlanSetup
<1> QED BY <1>4, <1>5, <1>6, <1>7 DEF LineUnderstood

(* However many words a command line has and whatever they are, it does    *)
(* what it says or nothing: flags count wherever they stand, the last      *)
(* --engine decides, and no option's value is taken for anything else.     *)
THEOREM LineUnderstoodHolds == Spec => []LineUnderstood
<1> QED BY Start, Step, Understood, PTL DEF Spec
=============================================================================
