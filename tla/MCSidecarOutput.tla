-------------------------- MODULE MCSidecarOutput --------------------------
(* stderr: three lines of six forms each, cut off after any byte: good and  *)
(* bad events, one of them with a character of two bytes, noise, blanks.    *)
(* stdout: good documents, and what one wrong field makes of them, the      *)
(* times and the names of chords also two at a time; two chords at and      *)
(* below zero; and in every key a song of every chord there is.             *)
(* The two pipes are independent: one varies while the other is plain.      *)
EXTENDS SidecarOutput

Event(type, step, index, total, level, msg) ==
  [type |-> type, stage |-> step, index |-> index, total |-> total, level |-> level, msg |-> msg]

Braced(body) == <<"{", body, "}">>

MCJson ==
  LET keys == {Braced(body) : body \in {"chords", "odd", "nostage", Char}}
  IN [k \in keys |->
        CASE k[2] = "chords" -> Event("progress", "chord-decode", "number", "number", Missing, Missing)
          [] k[2] = "odd" -> Event("progress", "key-detect", "string", "number", Missing, Missing)
          [] k[2] = "nostage" -> Event("progress", "lunch", Missing, Missing, Missing, Missing)
          [] k[2] = Char -> Event("log", Missing, Missing, Missing, "info", "text")]

MCChars == {"lead", "cont", Char, Bad, Blank, NL, "{", "}", "chords", "odd", "nostage"}

Lines == {<<"{", "chords", "}">>, <<"{", "odd", "}">>, <<"{", "nostage", "}", Blank>>,
          <<"{", "lead", "cont", "}">>, <<"cont", "lead">>, <<Blank>>}

Whole == {a \o <<NL>> \o b \o <<NL>> \o c \o <<NL>> : a, b, c \in Lines}

MCTexts == UNION {{SubSeq(t, 1, n) : n \in 0..Len(t)} : t \in Whole}
-----------------------------------------------------------------------------

Tonic(t, c) == Obj([tonic |-> Str(t), mode |-> Str("minor"), confidence |-> Num(c)])

Chord(start, end, root) ==
  Obj([start |-> Num(start), end |-> Num(end), label |-> Str(IF root = Null THEN "N" ELSE "C"),
       root |-> root, quality |-> Str(IF root = Null THEN "N" ELSE "maj"), confidence |-> Null])

Engine(name) ==
  [name |-> Str(name), version |-> Str("v"), license |-> Str("ISC"),
   modelVersions |-> Obj([btc |-> Str("v")]), confidenceKind |-> Str("correlation")]

Sparse ==
  Obj([contractVersion |-> Str("1.0.0"), file |-> Str("f"), durationSec |-> Num(6),
       engine |-> Obj(Engine("librosa")), engineCapabilities |-> Arr(<<Str("key"), Str("chords")>>),
       vocabulary |-> Str("triads"), key |-> Tonic("C", 1), keyCandidates |-> Null,
       chords |-> Arr(<<Chord(0, 3, Str("C")), Chord(3, 6, Null)>>),
       beats |-> Null, downbeats |-> Null, timeSignature |-> Null])

Full ==
  Obj([Sparse[2] EXCEPT !.keyCandidates = Arr(<<Tonic("G", 2)>>), !.beats = Arr(<<Num(1)>>),
                        !.downbeats = Arr(<<>>), !.timeSignature = Str("4/4")])

Info == Obj([k \in InfoFields |->
               CASE k = "contractVersion" -> Str("1.4.2")
                 [] k = "capabilities" -> Arr(<<Str("key")>>)
                 [] OTHER -> Engine("btc")[k]])

Error == Obj([error |-> Obj([kind |-> Str("internal"), detail |-> Str("x"), hint |-> Str("y")])])

(* A value with what stands at a path replaced; Undefined removes it. *)
RECURSIVE With(_, _, _)
With(v, path, new) ==
  IF path = <<>> THEN new
  ELSE LET k == Head(path)
           inner == With(Get(v, k), Tail(path), new)
       IN IF inner = Undefined /\ v[1] = "obj" THEN <<v[1], [x \in Keys(v) \ {k} |-> v[2][x]]>>
          ELSE <<v[1], [x \in Keys(v) \cup {k} |-> IF x = k THEN inner ELSE v[2][x]]>>

Wrong == {Undefined, Null, Str("x"), Num(-1), Num(3), <<"nan">>, <<"bool">>, Arr(<<>>),
          Arr(<<Num(2), Str("key"), Str("key")>>), Arr(<<Str("key"), Str("key")>>),
          Arr(<<Num(2), <<"nan">> >>), Obj(<<>>), Obj([a |-> Num(1)])}

Under(prefix, fields) == {prefix \o <<f>> : f \in fields}

KeyPaths == Under(<<"key">>, {"tonic", "mode", "confidence", "extra"})
ChordPaths(fields) == Under(<<"chords", 1>>, fields) \cup Under(<<"chords", 2>>, fields)
TimePaths == ChordPaths({"start", "end"}) \cup {<<"durationSec">>}
NamePaths == ChordPaths({"label", "root", "quality"})
AnalysisPaths ==
  Under(<<>>, AnalysisFields \cup {"extra", "error"})
  \cup Under(<<"engine">>, EngineFields \cup {"extra"}) \cup {<<"engine", "modelVersions", "m">>}
  \cup KeyPaths \cup Under(<<"chords", 1>>, SegmentFields \cup {"extra"})
FullPaths == {<<"keyCandidates", 1>> \o Tail(p) : p \in KeyPaths}
InfoPaths == Under(<<>>, InfoFields \cup {"extra", "error"})
ErrorPaths == Under(<<>>, {"error", "extra", "key"})
              \cup Under(<<"error">>, {"kind", "detail", "hint", "extra"})

OtherTimes == {Num(n) : n \in -3..9}
(* The second chord starts where the first one does, below zero. *)
EarlyPaths == <<  <<"chords", 1, "start">>, <<"chords", 1, "end">>, <<"chords", 2, "start">> >>
EarlyTimes == {Num(n) : n \in -4..1}
Early == {With(With(With(Sparse, EarlyPaths[1], a), EarlyPaths[2], b), EarlyPaths[3], c) :
            a, b, c \in EarlyTimes}
OtherNames == {Str("N"), Str("x"), Null}

Changed(docs, paths, values) == {With(v, p, new) : v \in docs, p \in paths, new \in values}

(* A document with every word either side lists, one at a time. *)
Worded(v, engine, capabilities, words) ==
  Changed({v}, {engine \o <<"name">>}, EngineNames \cup words.name)
  \cup Changed({v}, {engine \o <<"confidenceKind">>}, ConfidenceKinds \cup words.confidenceKind)
  \cup Changed({v}, {<<capabilities>>}, {Arr(<<w>>) : w \in Capabilities \cup words.capability})
  \cup Changed({v}, {<<"contractVersion">>}, Versions \cup words.contractVersion)

(* Elements of a list are not removed but replaced. *)
Elements == {<<"chords", 1>>, <<"chords", 2>>, <<"keyCandidates", 1>>}

Analyses ==
  {Sparse, Full, Error, With(Sparse, <<"key", "tonic">>, Str("Hb"))}
  \cup Changed({Sparse}, AnalysisPaths, Wrong)
  \cup Changed({Full}, Elements, Wrong \ {Undefined}) \cup Changed({Full}, FullPaths, Wrong)
  \cup Changed({Error}, ErrorPaths, Wrong)
  \cup Changed({Error}, {<<"error", "kind">>}, ErrorKinds \cup Strs(DOMAIN ErrorKindExit))
  \cup Worded(Sparse, <<"engine">>, "engineCapabilities", AnalysisWords)
  \cup Changed(Changed({Sparse}, TimePaths, OtherTimes), TimePaths, OtherTimes)
  \cup Early
  \cup Changed(Changed({Sparse}, NamePaths, OtherNames), NamePaths, OtherNames)
Infos == Changed({Info}, InfoPaths, Wrong) \cup Worded(Info, <<>>, "capabilities", InfoWords)

-----------------------------------------------------------------------------
(* The names with up to two accidentals, and some that are written otherwise. *)
Accidentals == <<"bb", "b", "", "#", "##">>
NoteTable ==
  LET notes == {"C", "D", "E", "F", "G", "A", "B"} \X (-2..2)
  IN FoldSet(LAMBDA n, table : (n[1] \o Accidentals[n[2] + 3]) :> n @@ table, <<>>, notes)
MCCapitals == DOMAIN NoteTable
Written ==
  [b |-> <<"B", 0>>, f |-> <<"F", 0>>, g |-> <<"G", 0>>] @@ (" F " :> <<"F", 0>>) @@ NoteTable
MCNotes == [name \in DOMAIN Written |-> Written[name]]
MCFlatTexts == ({"Hb", "b", "f"} \X Modes) \cup {<<"g", "minor">>}
MCTonics == {name \in MCCapitals : Alteration(name) \in -1..1} \cup {"b", " F "}

RootList == Sharps \o <<"H", "Cb", "g">>
QualityList == <<"maj", "min", "maj6", "min6", "maj7", "min7", "7", "minmaj7",
                 "dim", "dim7", "hdim7", "aug", "sus2", "sus4">>
MCRoots == ToSet(RootList)
MCQualities == ToSet(QualityList)

(* A song that goes through a list of chords, three ticks each. *)
Song(tonic, mode, chords) ==
  Obj([Sparse[2] EXCEPT
         !.key = Obj([tonic |-> Str(tonic), mode |-> Str(mode), confidence |-> Num(1)]),
         !.durationSec = Num(3 * Len(chords)),
         !.chords = Arr([i \in DOMAIN chords |->
           Obj([start |-> Num(3 * i - 3), end |-> Num(3 * i), confidence |-> Null,
                root |-> Str(chords[i].root), quality |-> Str(chords[i].quality),
                label |-> Str(chords[i].root \o ":" \o chords[i].quality)])])])

AllChords ==
  LET m == Len(QualityList)
  IN [i \in 1..Len(RootList) * m |->
        [root |-> RootList[(i - 1) \div m + 1], quality |-> QualityList[((i - 1) % m) + 1]]]
(* The first one is heard twice in a row, and is one run. *)
Songs == {Song(tonic, mode, <<AllChords[1]>> \o AllChords) : tonic \in Tonics, mode \in Modes}

MCOutputs ==
  (MCTexts \X {"analyze"} \X {Sparse}) \cup ({<<>>} \X {"analyze"} \X (Analyses \cup Songs))
  \cup ({<<>>} \X {"engine-info"} \X Infos)
=============================================================================
