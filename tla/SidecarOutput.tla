--------------------------- MODULE SidecarOutput ---------------------------
(***************************************************************************)
(* All that one sidecar says, and what becomes of it: stderr is read line  *)
(* by line beside stdout (StderrFraming), the document on stdout is judged *)
(* once both are through, stored, and read again by the next run           *)
(* (Contract), and that run's chords and key are put on the screen         *)
(* (Spelling).                                                             *)
(***************************************************************************)
EXTENDS StderrFraming, Contract, Spelling

CONSTANTS
  Outputs,  \* what a child may say, as <<bytes of stderr, command, document>>
  Tonics,   \* the note names a key may have
  Roots,    \* the note names a chord may have; may hold some that are none
  Qualities \* the chord qualities of the engines' vocabularies

ASSUME SidecarAssumption ==
  /\ \A o \in Outputs : o[1] \in Seq(Chars) /\ o[2] \in Commands
  /\ \A v \in {o[3] : o \in Outputs} : IsDocument(v)
  /\ Tonics \subseteq DOMAIN Notes

VARIABLE panels  \* what is shown of an Analysis: its key, and a cell per chord

vars == <<stderrVars, documentVars, panels>>

Init ==
  /\ \E o \in Outputs : StderrInit(o[1]) /\ DocumentInit(o[2], o[3])
  /\ panels = None

-----------------------------------------------------------------------------
keyOf(a) == [tonic |-> a[2].key[2].tonic[2], mode |-> a[2].key[2].mode[2]]

segmentOf(s) ==
  [root |-> IF s[2].root = Null THEN None ELSE s[2].root[2],
   quality |-> s[2].quality[2], label |-> s[2].label[2]]

segments(a) == [i \in DOMAIN a[2].chords[2] |-> segmentOf(a[2].chords[2][i])]

(* The first chord of each maximal run of the same one; runs are not timed. *)
collapseProgression(chords) ==
  LET Same(c, d) == c.root = d.root /\ c.quality = d.quality
      Begins(i) == i > 1 => ~Same(chords[i - 1], chords[i])
      first == SelectSeq([i \in DOMAIN chords |-> i], Begins)
  IN [n \in DOMAIN first |-> chords[first[n]]]

(* One name for each run, under the name of the key; the run itself is not  *)
(* shown, but kept for the properties to tell.                              *)
Panels(a) ==
  LET runs == collapseProgression(segments(a))
  IN [key |-> formatKey(keyOf(a)),
      cells |-> [i \in DOMAIN runs |->
                   [run |-> runs[i], label |-> formatChordLabel(runs[i], keyOf(a)),
                    numeral |-> romanNumeral(runs[i], keyOf(a))]]]

(* Both readers are awaited; one that fails takes the run with it. *)
BothRead == phase = "done"

ReadStderr == StderrNext /\ UNCHANGED <<documentVars, panels>>

HandleDocument ==
  /\ stage = "printed" => BothRead
  /\ DocumentNext
  /\ UNCHANGED <<stderrVars, panels>>

Show ==
  /\ stage = "read" /\ panels = None
  /\ panels' = Panels(hit)
  /\ UNCHANGED <<stderrVars, documentVars>>

Next == ReadStderr \/ HandleDocument \/ Show

Spec == Init /\ [][Next]_vars

-----------------------------------------------------------------------------
(* Properties *)

KeysOf == [tonic : Tonics, mode : Modes]
Chords == [root : Roots, quality : Qualities]

Shown == panels # None
ShownCells == DOMAIN panels.cells
cellRuns == [i \in ShownCells |-> panels.cells[i].run]
(* The pitch class of a chord; None for silence and for what cannot be read. *)
Sounds(i) ==
  LET s == cellRuns[i] IN IF s.quality = "N" THEN None ELSE noteToPc(s.root)

(* Qualities that are not written as the suffix of another one. *)
ToldApart(i) == cellRuns[i].quality \notin {"", "m"}

(* "we never synthesize a label from a root we can't read", and one that    *)
(* can be read is respelled, never changed: a label denotes the pitch class *)
(* that was heard, and two chords of a song are labelled alike exactly when *)
(* they sound alike.                                                        *)
LabelIsWhatSounds ==
  Shown => \A i \in {j \in ShownCells : Sounds(j) # None} :
    LET sound == Sounds(i)
        quality == cellRuns[i].quality
        label == panels.cells[i].label
    IN /\ noteToPc(label[1]) = sound
       /\ ToldApart(i) => \A j \in {l \in ShownCells : ToldApart(l)} :
            panels.cells[j].label = label <=>
              Sounds(j) = sound /\ cellRuns[j].quality = quality

(* "Whether a key is conventionally spelled with flats": exactly when its   *)
(* signature has flats, for every key that has a signature.                 *)
FlatsAsSigned ==
  Shown /\ HasSignature(panels.key) =>
    \A i \in ShownCells : Sounds(i) # None /\ Alteration(panels.cells[i].label[1]) # 0 =>
      (Alteration(panels.cells[i].label[1]) < 0 <=> Signature(panels.key) < 0)

(* A label says which chord it is, in the notation of the key.            *)
LabelsTell == LabelIsWhatSounds /\ FlatsAsSigned

(* "any chord whose (degree, base triad) is not diatonic -- we omit rather  *)
(* than invent", and no other: a chord with a base triad has a numeral iff  *)
(* that triad lies in the scale, natural for minor keys, or is the dominant *)
(* of the harmonic one.                                                     *)
NumeralIffDiatonic ==
  Shown /\ noteToPc(panels.key.tonic) # None =>
    \A i \in ShownCells :
      LET s == cellRuns[i]
          triad == Above(Triad(ExtendedBase(s.quality)[1]), s.root)
          In(scale) == triad \subseteq Above(scale, panels.key.tonic)
      IN Sounds(i) # None /\ ExtendedBase(s.quality) # None =>
           (panels.cells[i].numeral # None <=>
              IF panels.key.mode = "major" THEN In(MajorScale)
              ELSE In(NaturalMinor) \/ (Interval(s.root, panels.key.tonic) = 7 /\ In(HarmonicMinor)))

(* A numeral names one chord of the key, and the same one in every key:     *)
(* whatever bears it there is as far from its tonic and of the same quality. *)
NumeralNamesOneChord ==
  Shown =>
    LET numbered == {i \in ShownCells : panels.cells[i].numeral # None}
    IN \A k \in {q \in KeysOf : q.mode = panels.key.mode}, c \in Chords :
         LET numeral == romanNumeral(c, k)
             interval == Interval(c.root, k.tonic)
         IN \A i \in numbered :
              numeral = panels.cells[i].numeral <=>
                /\ noteToPc(c.root) # None /\ c.quality = cellRuns[i].quality
                /\ interval = Interval(cellRuns[i].root, panels.key.tonic)

(* A numeral says which degree of the key a chord is, or is not there.     *)
NumeralsTell == NumeralIffDiatonic /\ NumeralNamesOneChord
=============================================================================
