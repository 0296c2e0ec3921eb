------------------------------ MODULE Contract ------------------------------
(***************************************************************************)
(* One JSON document from an engine to the cache and back: protocol.py     *)
(* prints it, engine.ts parses it, core/validate.ts accepts or rejects it, *)
(* cache.ts stores it and validates it once more.  Beside the validator    *)
(* stand the two JSON schemas the Python side tests its documents with.    *)
(*                                                                         *)
(* A JSON value is a tuple that begins with its type.  Confidences count   *)
(* halves, times count halves of the validator's tolerance.                *)
(***************************************************************************)
EXTENDS Integers, Sequences, FiniteSets

CONSTANTS
  One,        \* the number 1 of a confidence
  Eps,        \* the tolerance of the validator
  Depth       \* bound: how deep values are nested in one another

ASSUME ContractAssumption == One \in Nat /\ Eps \in Nat /\ Depth \in Nat

VARIABLES
  command,  \* "analyze" or "engine-info"
  doc,      \* what the engine hands over to be printed
  wire,     \* what stands on stdout
  code,     \* what the script exits with
  answer,   \* what runEngine or runEngineInfo returns
  entry,    \* the file in the cache
  hit,      \* what cacheGet makes of it
  stage

documentVars == <<command, doc, wire, code, answer, entry, hit, stage>>

Num(n) == <<"num", n>>
Str(s) == <<"str", s>>
Arr(s) == <<"arr", s>>
Obj(f) == <<"obj", f>>
Null == <<"null">>
Undefined == <<"undefined">>
ContractError == <<"ContractError">>
EngineUnavailableError == <<"EngineUnavailableError">>
Queried == Str("the path asked for")
Commands == {"analyze", "engine-info"}

Type(v) == v[1]
Get(v, k) == IF k \in DOMAIN v[2] THEN v[2][k] ELSE Undefined
Keys(v) == DOMAIN v[2]
Items(v) == {v[2][i] : i \in DOMAIN v[2]}
Strs(names) == {Str(s) : s \in names}

EngineNames == Strs({"librosa", "essentia", "btc"})
ConfidenceKinds == Strs({"posterior", "correlation", "heuristic"})
ErrorKindExit ==
  [bad_input |-> 2, engine_unavailable |-> 3, decode_failed |-> 4, internal |-> 4]
ErrorKinds == Strs({"bad_input", "decode_failed", "engine_unavailable", "internal"})

(* Mutant: the list was not extended when btc came. *)
CapabilitiesOfTriads ==
  Strs({"key", "keyCandidates", "chords", "beats", "downbeats", "timeSignature"})

Capabilities == Strs({"key", "keyCandidates", "chords", "beats", "downbeats",
                      "timeSignature", "extendedChords"})
Versions == Strs({"1.0.0", "1.4.2"})  \* the strings of the form 1.x.y
AnalysisFields == {"contractVersion", "file", "durationSec", "engine", "engineCapabilities",
                   "vocabulary", "key", "keyCandidates", "chords", "beats", "downbeats",
                   "timeSignature"}
EngineFields == {"name", "version", "license", "modelVersions", "confidenceKind"}
InfoFields == EngineFields \cup {"contractVersion", "capabilities"}
SegmentFields == {"start", "end", "label", "root", "quality", "confidence"}

-----------------------------------------------------------------------------
(* validate.ts: a check that fails throws, so a validator is a predicate *)

isObj(v) == Type(v) = "obj"

noExtra(o, allowed) == Keys(o) \subseteq allowed

reqNum(o, k) == Type(Get(o, k)) = "num"
reqStr(o, k) == Type(Get(o, k)) = "str"
unitInterval(v) == v[2] >= 0 /\ v[2] <= One

(* "must be PRESENT": null is allowed, undefined is not. *)
numArrayOrNull(o, k) ==
  LET v == Get(o, k)
  IN v = Null \/ (Type(v) = "arr" /\ \A n \in Items(v) : Type(n) = "num")

validateKey(v) ==
  /\ isObj(v) /\ noExtra(v, {"tonic", "mode", "confidence"})
  /\ reqStr(v, "tonic")
  /\ Get(v, "mode") \in Strs({"major", "minor"})
  /\ reqNum(v, "confidence") /\ unitInterval(Get(v, "confidence"))

engineFields(v) ==
  /\ Get(v, "name") \in EngineNames
  /\ Get(v, "confidenceKind") \in ConfidenceKinds
  /\ LET mv == Get(v, "modelVersions") IN isObj(mv) /\ \A x \in Items(mv) : Type(x) = "str"
  /\ reqStr(v, "version") /\ reqStr(v, "license")

validateEngine(v) == isObj(v) /\ noExtra(v, EngineFields) /\ engineFields(v)

validateCapabilities(v) ==
  /\ Type(v) = "arr" /\ Items(v) \subseteq Capabilities
  /\ Cardinality(Items(v)) = Len(v[2])

validateContractVersion(v) == v \in Versions

Abs(n) == IF n < 0 THEN -n ELSE n

validateSegment(s, prevEnd) ==
  LET confidence == Get(s, "confidence")
      root == Get(s, "root")
  IN /\ isObj(s) /\ noExtra(s, SegmentFields)
     /\ reqNum(s, "start") /\ reqNum(s, "end") /\ reqStr(s, "label") /\ reqStr(s, "quality")
     /\ root = Null \/ Type(root) = "str"
     /\ confidence = Null \/ (Type(confidence) = "num" /\ unitInterval(confidence))
     /\ Get(s, "end")[2] > Get(s, "start")[2]
     /\ Abs(Get(s, "start")[2] - prevEnd) <= Eps
     /\ IF Get(s, "label") = Str("N") THEN root = Null /\ Get(s, "quality") = Str("N")
        ELSE root # Null

validateChords(v, durationSec) ==
  LET n == Len(v[2])
      EndOf(i) == IF i = 0 THEN 0 ELSE Get(v[2][i], "end")[2]
  IN /\ Type(v) = "arr"
     /\ IF n = 0 THEN durationSec <= Eps
        ELSE /\ \A i \in 1..n : validateSegment(v[2][i], EndOf(i - 1))
             /\ Abs(EndOf(n) - durationSec) <= Eps

validateAnalysis(v) ==
  /\ isObj(v) /\ noExtra(v, AnalysisFields)
  /\ validateContractVersion(Get(v, "contractVersion"))
  /\ reqStr(v, "file")
  /\ reqNum(v, "durationSec") /\ Get(v, "durationSec")[2] >= 0
  /\ validateEngine(Get(v, "engine"))
  /\ validateCapabilities(Get(v, "engineCapabilities"))
  /\ Get(v, "vocabulary") \in Strs({"triads", "extended"})
  /\ validateKey(Get(v, "key"))
  /\ LET kc == Get(v, "keyCandidates")
     IN kc = Null \/ (Type(kc) = "arr" /\ \A k \in Items(kc) : validateKey(k))
  /\ validateChords(Get(v, "chords"), Get(v, "durationSec")[2])
  /\ numArrayOrNull(v, "beats") /\ numArrayOrNull(v, "downbeats")
  /\ Get(v, "timeSignature") = Null \/ reqStr(v, "timeSignature")

validateEngineInfo(v) ==
  /\ isObj(v) /\ noExtra(v, InfoFields) /\ engineFields(v)
  /\ validateContractVersion(Get(v, "contractVersion"))
  /\ validateCapabilities(Get(v, "capabilities"))

validateEngineError(v) ==
  /\ isObj(v) /\ noExtra(v, {"kind", "detail", "hint"})
  /\ Get(v, "kind") \in ErrorKinds /\ reqStr(v, "detail")
  /\ Get(v, "hint") = Undefined \/ reqStr(v, "hint")

(* Mutant: the error is taken out of whatever it stands in. *)
parseEngineOutputLax(v) ==
  IF isObj(v) /\ "error" \in Keys(v)
    THEN IF validateEngineError(Get(v, "error"))
         THEN <<"error", Get(v, "error")>> ELSE ContractError
  ELSE IF validateAnalysis(v) THEN <<"analysis", v>> ELSE ContractError

(* The one place that tells an analysis from an error. *)
parseEngineOutput(v) ==
  IF isObj(v) /\ "error" \in Keys(v)
    THEN IF noExtra(v, {"error"}) /\ validateEngineError(Get(v, "error"))
         THEN <<"error", Get(v, "error")>> ELSE ContractError
  ELSE IF validateAnalysis(v) THEN <<"analysis", v>> ELSE ContractError

-----------------------------------------------------------------------------
(* The way of a document *)

(* The values a value is made of, layer by layer, itself included. *)
Parts(v) == IF Type(v) \in {"arr", "obj"} THEN Items(v) ELSE {}
Layers(v) ==
  LET layer[n \in 0..Depth] == IF n = 0 THEN {v} ELSE UNION {Parts(x) : x \in layer[n-1]}
  IN layer
Within(v) == UNION {Layers(v)[n] : n \in 0..Depth}

(* A value of Python that json.dumps takes: a NaN is one. *)
IsValue(x) ==
  \/ x \in {Null, <<"bool">>, <<"nan">>}
  \/ Type(x) = "num" /\ x = Num(x[2]) /\ x[2] \in Int
  \/ Type(x) = "str" /\ x = Str(x[2])
  \/ Type(x) = "arr" /\ x = Arr(x[2]) /\ x[2] \in Seq(Items(x))
  \/ Type(x) = "obj" /\ x = Obj(x[2]) /\ x[2] = [k \in Keys(x) |-> x[2][k]]
IsDocument(v) ==
  (\A x \in Within(v) : IsValue(x)) /\ \A x \in Layers(v)[Depth] : Parts(x) = {}

HasNaN(v) == \E x \in Within(v) : Type(x) = "nan"

(* error_envelope(kind, detail) *)
Envelope(kind) == Obj([error |-> Obj([kind |-> Str(kind), detail |-> Str("ValueError")])])

(* What the engine hands over, for which command. *)
DocumentInit(cmd, value) ==
  /\ command = cmd /\ doc = value /\ code = 0
  /\ wire = Undefined /\ answer = Undefined /\ entry = Undefined /\ hit = Undefined
  /\ stage = "returned"

(* Mutant: json.dumps as it comes, which prints NaN. *)
dumpsNaN(v) == v

(* The kind of failure that is reported when dumps refuses what it is given. *)
Refused == IF command = "analyze" THEN "internal" ELSE "engine_unavailable"

(* dumps refuses NaN, and the script's last handler reports that instead. *)
dumps(v) == IF HasNaN(v) THEN Envelope(Refused) ELSE v

(* A failure that was raised is printed as an error of its kind. *)
Raised(kind) ==
  isObj(doc) /\ isObj(Get(doc, "error")) /\ Get(Get(doc, "error"), "kind") = Str(kind)

(* The exit code of the script. *)
ExitCodes ==
  IF HasNaN(doc) THEN {ErrorKindExit[Refused]}
  ELSE LET raised == {kind \in DOMAIN ErrorKindExit : Raised(kind)}
       IN IF raised = {} THEN {0} ELSE {ErrorKindExit[kind] : kind \in raised}

(* write_result, and the last handler of run *)
WriteResult ==
  /\ stage = "returned"
  /\ wire' = dumps(doc) /\ code' \in ExitCodes /\ stage' = "printed"
  /\ UNCHANGED <<command, doc, answer, entry, hit>>

(* What runEngine and runEngineInfo make of what was printed. *)
Judgement ==
  IF code = ErrorKindExit.engine_unavailable THEN EngineUnavailableError
  ELSE IF HasNaN(wire) THEN ContractError
  ELSE IF command = "analyze" THEN parseEngineOutput(wire)
  ELSE IF validateEngineInfo(wire) THEN <<"info", wire>> ELSE ContractError

(* ... once the child has ended. *)
Receive ==
  /\ stage = "printed"
  /\ answer' = Judgement /\ stage' = "received"
  /\ UNCHANGED <<command, doc, wire, code, entry, hit>>

(* Mutant: fields that were not computed are not written. *)
StringifySparse(v) == Obj([k \in {x \in Keys(v) : Get(v, x) # Null} |-> Get(v, k)])

(* JSON.stringify leaves out what is undefined, and has no NaN; the values a *)
(* value is made of are written first.                                       *)
Serialized(done, x) ==
  CASE Type(x) = "nan" -> Null
    [] Type(x) = "arr" -> Arr([i \in Keys(x) |-> done[x[2][i]]])
    [] Type(x) = "obj" ->
         Obj([k \in {y \in Keys(x) : x[2][y] # Undefined} |-> done[x[2][k]]])
    [] OTHER -> x
Stringify(v) ==
  LET done[x \in Within(v)] == Serialized(done, x) IN done[v]

(* Mutant: whatever came back is stored. *)
PutAnything ==
  /\ stage = "received" /\ answer[1] \in {"analysis", "error"}
  /\ entry' = Stringify(answer[2]) /\ stage' = "cached"
  /\ UNCHANGED <<command, doc, wire, code, answer, hit>>

(* cachePut: an analysis, never an error. *)
Put ==
  /\ stage = "received" /\ answer[1] = "analysis"
  /\ entry' = Stringify(answer[2]) /\ stage' = "cached"
  /\ UNCHANGED <<command, doc, wire, code, answer, hit>>

(* A document under another name. *)
Renamed(v, name) == Obj([k \in Keys(v) |-> IF k = "file" THEN name ELSE Get(v, k)])

(* cacheGet: an entry that no longer validates is a miss; a hit goes by the *)
(* name it is asked for.  Whether it is stale is ResultCache's subject.     *)
Lookup ==
  /\ stage = "cached"
  /\ hit' = IF validateAnalysis(entry) THEN Renamed(entry, Queried) ELSE Null
  /\ stage' = "read"
  /\ UNCHANGED <<command, doc, wire, code, answer, entry>>

DocumentNext == WriteResult \/ Receive \/ Put \/ Lookup

-----------------------------------------------------------------------------
(* Reference: schema.json and engine-info.schema.json, as jsonschema reads  *)
(* them, and the two rules no schema can state                              *)

(* The words each schema lists; its pattern stands for the texts it means.  *)
AnalysisWords ==
  [name |-> Strs({"librosa", "essentia", "btc"}),
   confidenceKind |-> Strs({"posterior", "correlation", "heuristic"}),
   capability |-> Strs({"key", "keyCandidates", "chords", "beats", "downbeats",
                        "timeSignature", "extendedChords"}),
   contractVersion |-> Strs({"1.0.0", "1.4.2"})]
InfoWords ==
  [name |-> Strs({"librosa", "essentia", "btc"}),
   confidenceKind |-> Strs({"posterior", "correlation", "heuristic"}),
   capability |-> Strs({"key", "keyCandidates", "chords", "beats", "downbeats",
                        "timeSignature", "extendedChords"}),
   contractVersion |-> Strs({"1.0.0", "1.4.2"})]

Shaped(v, required) == Type(v) = "obj" /\ Keys(v) = required
Ranged(v, low, high) == Type(v) = "num" /\ v[2] >= low /\ v[2] <= high
AtLeast(v, least) == Type(v) = "num" /\ v[2] >= least
Listed(v) == Type(v) = "arr"
Unique(v) == \A i, j \in DOMAIN v[2] : v[2][i] = v[2][j] => i = j

EngineSchema(v, words) ==
  /\ v[2].name \in words.name /\ Type(v[2].version) = "str" /\ Type(v[2].license) = "str"
  /\ Type(v[2].modelVersions) = "obj" /\ \A x \in Items(v[2].modelVersions) : Type(x) = "str"
  /\ v[2].confidenceKind \in words.confidenceKind

CapabilitiesSchema(v, words) == Listed(v) /\ Items(v) \subseteq words.capability /\ Unique(v)

KeySchema(v) ==
  /\ Shaped(v, {"tonic", "mode", "confidence"})
  /\ Type(v[2].tonic) = "str" /\ v[2].mode \in Strs({"major", "minor"})
  /\ Ranged(v[2].confidence, 0, One)

SegmentSchema(v, least) ==
  /\ Shaped(v, SegmentFields)
  /\ AtLeast(v[2].start, least) /\ AtLeast(v[2].end, least)
  /\ Type(v[2].label) = "str" /\ Type(v[2].root) \in {"str", "null"} /\ Type(v[2].quality) = "str"
  /\ v[2].confidence = Null \/ Ranged(v[2].confidence, 0, One)

(* The minimum of a chord's times is 0 in schema.json; here it is least. *)
AnalysisSchema(v, least) ==
  /\ Shaped(v, AnalysisFields)
  /\ v[2].contractVersion \in AnalysisWords.contractVersion
  /\ Type(v[2].file) = "str" /\ AtLeast(v[2].durationSec, 0)
  /\ Shaped(v[2].engine, EngineFields) /\ EngineSchema(v[2].engine, AnalysisWords)
  /\ CapabilitiesSchema(v[2].engineCapabilities, AnalysisWords)
  /\ v[2].vocabulary \in Strs({"triads", "extended"})
  /\ KeySchema(v[2].key)
  /\ v[2].keyCandidates = Null \/
       (Listed(v[2].keyCandidates) /\ \A k \in Items(v[2].keyCandidates) : KeySchema(k))
  /\ Listed(v[2].chords) /\ \A s \in Items(v[2].chords) : SegmentSchema(s, least)
  /\ \A times \in {v[2].beats, v[2].downbeats} :
       times = Null \/ (Listed(times) /\ \A n \in Items(times) : Type(n) = "num")
  /\ Type(v[2].timeSignature) \in {"str", "null"}

InfoSchema(v) ==
  /\ Shaped(v, InfoFields) /\ EngineSchema(v, InfoWords)
  /\ v[2].contractVersion \in InfoWords.contractVersion
  /\ CapabilitiesSchema(v[2].capabilities, InfoWords)

(* No schema describes an error: its kinds are those Python has a code for. *)
ErrorShape(v) ==
  /\ Shaped(v, {"error"})
  /\ \E required \in {{"kind", "detail"}, {"kind", "detail", "hint"}} :
       Shaped(v[2].error, required)
  /\ v[2].error[2].kind \in Strs(DOMAIN ErrorKindExit)
  /\ \A k \in Keys(v[2].error) : Type(v[2].error[2][k]) = "str"

(* Gap-free over [0, durationSec], up to the tolerance ... *)
Contiguous(v) ==
  LET segs == v[2].chords[2]
      n == Len(segs)
      Near(a, b) == a - b \in -Eps..Eps
      Start(i) == segs[i][2].start[2]
      End(i) == segs[i][2].end[2]
  IN IF n = 0 THEN Near(0, v[2].durationSec[2])
     ELSE /\ Near(Start(1), 0) /\ Near(End(n), v[2].durationSec[2])
          /\ \A i \in 1..n : Start(i) < End(i)
          /\ \A i \in 1..n - 1 : Near(End(i), Start(i + 1))

(* ... and silence has no root, and nothing else is without one. *)
RootsFit(v) ==
  \A s \in Items(v[2].chords) :
    IF s[2].label = Str("N") THEN s[2].root = Null /\ s[2].quality = Str("N")
    ELSE s[2].root # Null

-----------------------------------------------------------------------------
(* Safety *)

Accepted(kind) == answer[1] = kind
Judged == stage \notin {"returned", "printed"}

(* The tolerance of each boundary of its chords, one below the other.      *)
Lowest(v) ==
  IF isObj(v) /\ Type(Get(v, "chords")) = "arr" THEN -(Len(v[2].chords[2]) * Eps) ELSE 0

(* Do the schema, and the two rules it cannot state, call it an analysis?  *)
Agreed(v, least) == AnalysisSchema(v, least) /\ Contiguous(v) /\ RootsFit(v)

(* "both sides agree -- including unknown-key rejection ... and the         *)
(* gap-free chord invariant": a document on stdout is taken for an          *)
(* analysis, an error or an engine's description exactly when the schemas,  *)
(* and the two rules they cannot state, say so.  The one point on which the *)
(* sides differ are times below zero, which schema.json refuses: the        *)
(* validator lets each boundary lie a tolerance below the one before it.    *)
AgreeButForTolerance ==
  Judged =>
    IF code = ErrorKindExit.engine_unavailable THEN answer = EngineUnavailableError
    ELSE /\ Accepted("analysis") <=> command = "analyze" /\ Agreed(wire, Lowest(wire))
         /\ Accepted("error") <=> command = "analyze" /\ ErrorShape(wire)
         /\ Accepted("info") <=> command = "engine-info" /\ InfoSchema(wire)

(* "exactly one well-formed object on stdout": whatever an engine returns,  *)
(* what is printed can be parsed, and a document with a NaN in it comes     *)
(* out as a failure of the engine.                                          *)
AlwaysWellFormed ==
  stage = "printed" => ~HasNaN(wire) /\ (HasNaN(doc) => ErrorShape(wire))

(* "re-runs are instant": what was accepted once is stored so that it is    *)
(* accepted again, and comes back as it was, but for its file's name.       *)
AcceptedSurvives == stage = "read" => hit = Renamed(answer[2], Queried)

(* From the engine to the next run's hit a document is whole or not at all: *)
(* an error, or what was refused, is never stored.                         *)
RoundTrip ==
  /\ AlwaysWellFormed /\ AcceptedSurvives
  /\ entry # Undefined => Accepted("analysis")
=============================================================================
