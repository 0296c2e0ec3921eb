------------------------------ MODULE Spelling ------------------------------
(***************************************************************************)
(* core/music.ts: what a key and a chord of an Analysis are called on the  *)
(* screen -- the chord's label, respelled for the key, its roman numeral,  *)
(* and the key's own name -- and what those names stand for, as sets of    *)
(* pitch classes.                                                          *)
(*                                                                         *)
(* A key is [tonic, mode], a chord [root, quality, label] with a root that *)
(* may be None.                                                            *)
(***************************************************************************)
EXTENDS Integers, Sequences, FiniteSets

CONSTANTS
  None,
  Notes,     \* the texts read as note names, each with its letter and how many sharps
             \* it has, or flats below zero
  Capitals,  \* those of them that begin with a capital letter
  FlatTexts  \* other texts a tonic may be, each with a mode in which it is taken for a flat one

Letters == [C |-> 0, D |-> 2, E |-> 4, F |-> 5, G |-> 7, A |-> 9, B |-> 11]
Modes == {"major", "minor"}

Letter(name) == Notes[name][1]
Alteration(name) == Notes[name][2]

Sharps == <<"C", "C#", "D", "D#", "E", "F", "F#", "G", "G#", "A", "A#", "B">>
Flats == <<"C", "Db", "D", "Eb", "E", "F", "Gb", "G", "Ab", "A", "Bb", "B">>
SharpNotes ==
  << <<"C", 0>>, <<"C", 1>>, <<"D", 0>>, <<"D", 1>>, <<"E", 0>>, <<"F", 0>>,
     <<"F", 1>>, <<"G", 0>>, <<"G", 1>>, <<"A", 0>>, <<"A", 1>>, <<"B", 0>> >>
FlatNotes ==
  << <<"C", 0>>, <<"D", -1>>, <<"D", 0>>, <<"E", -1>>, <<"E", 0>>, <<"F", 0>>,
     <<"G", -1>>, <<"G", 0>>, <<"A", -1>>, <<"A", 0>>, <<"B", -1>>, <<"B", 0>> >>

(* The pitch class of a name, in either case and blanks around it or not; *)
(* None if it is not one.                                                 *)
noteToPc(name) ==
  IF name \notin DOMAIN Notes THEN None ELSE (Letters[Letter(name)] + Alteration(name)) % 12

(* Mutant: minor keys go by the circle of fifths of the major ones. *)
keyPrefersFlatsMajor(tonic, mode) ==
  IF tonic \notin Capitals THEN <<tonic, mode>> \in FlatTexts
  ELSE Alteration(tonic) < 0 \/ (Alteration(tonic) = 0 /\ Letter(tonic) = "F")

(* The tonic's own accidental decides, else the circle of fifths.  A tonic  *)
(* is not trimmed here, and its small b is taken for a flat.                *)
keyPrefersFlats(tonic, mode) ==
  IF tonic \notin Capitals THEN <<tonic, mode>> \in FlatTexts
  ELSE \/ Alteration(tonic) < 0
       \/ /\ Alteration(tonic) = 0
          /\ Letter(tonic) \in IF mode = "major" THEN {"F"} ELSE {"D", "G", "C", "F"}

qualitySuffix(quality) ==
  CASE quality = "maj" -> "" [] quality = "min" -> "m" [] OTHER -> quality

(* Mutant: the root is written as the engine sent it. *)
formatChordLabelAsSent(c, k) ==
  IF c.root = None THEN <<"N.C.">> ELSE <<c.root, qualitySuffix(c.quality)>>

(* A name from the key's table; an unreadable root keeps the engine's label. *)
formatChordLabel(c, k) ==
  LET names == IF keyPrefersFlats(k.tonic, k.mode) THEN Flats ELSE Sharps
  IN IF c.quality = "N" \/ c.root = None THEN <<"N.C.">>
     ELSE IF noteToPc(c.root) = None THEN <<c.label>>
     ELSE <<names[noteToPc(c.root) + 1], qualitySuffix(c.quality)>>

Row(interval, quality, numeral) == [interval |-> interval, quality |-> quality, numeral |-> numeral]

MajorRows == {Row(0, "maj", "I"), Row(2, "min", "ii"), Row(4, "min", "iii"),
              Row(5, "maj", "IV"), Row(7, "maj", "V"), Row(9, "min", "vi")}
MinorRows == {Row(0, "min", "i"), Row(3, "maj", "III"), Row(5, "min", "iv"), Row(7, "min", "v"),
              Row(7, "maj", "V"), Row(8, "maj", "VI"), Row(10, "maj", "VII")}

(* Mutant: sevenths and sixths without what they add. *)
ExtendedBaseOnly(quality) ==
  CASE quality \in {"maj", "maj6", "maj7", "7"} -> <<"maj", "">>
    [] quality \in {"min", "min6", "min7", "minmaj7"} -> <<"min", "">>
    [] OTHER -> None

(* The base triad of a quality and what its numeral adds, None if it has none. *)
ExtendedBase(quality) ==
  CASE quality = "maj" -> <<"maj", "">>      [] quality = "min" -> <<"min", "">>
    [] quality = "maj6" -> <<"maj", "6">>    [] quality = "min6" -> <<"min", "6">>
    [] quality = "maj7" -> <<"maj", "maj7">> [] quality = "min7" -> <<"min", "7">>
    [] quality = "7" -> <<"maj", "7">>       [] quality = "minmaj7" -> <<"min", "maj7">>
    [] OTHER -> None

Interval(root, tonic) == (noteToPc(root) - noteToPc(tonic) + 12) % 12

(* Mutant: the degree alone decides. *)
RowsForDegree(base, interval, mode) ==
  {row \in IF mode = "major" THEN MajorRows ELSE MinorRows : row.interval = interval}

(* The degree a base triad is the chord of. *)
RowsFor(base, interval, mode) ==
  {row \in IF mode = "major" THEN MajorRows ELSE MinorRows :
     row.interval = interval /\ row.quality = base}

romanNumeral(c, k) ==
  IF ExtendedBase(c.quality) = None \/ noteToPc(c.root) = None \/ noteToPc(k.tonic) = None
    THEN None
  ELSE LET base == ExtendedBase(c.quality)
           rows == RowsFor(base[1], Interval(c.root, k.tonic), k.mode)
       IN IF rows = {} THEN None
          ELSE <<(CHOOSE row \in rows : TRUE).numeral, base[2]>>

(* The key is named as the engine names it. *)
formatKey(k) == k

Numerals == {row.numeral : row \in MajorRows \cup MinorRows}
Additions == {"", "6", "7", "maj7"}

(* The names of the tables are names of notes, and None is nothing else. *)
ASSUME SpellingAssumption ==
  /\ Notes \in [DOMAIN Notes -> (DOMAIN Letters) \X Int]
  /\ Capitals \subseteq DOMAIN Notes
  /\ \A n \in 1..12 :
       /\ {Sharps[n], Flats[n]} \subseteq DOMAIN Notes
       /\ Notes[Sharps[n]] = SharpNotes[n] /\ Notes[Flats[n]] = FlatNotes[n]
  /\ None \notin DOMAIN Notes /\ None \notin 0..11
  /\ None \notin ({"maj", "min"} \cup Numerals) \X Additions

-----------------------------------------------------------------------------
(* Reference: scales and chords as sets of pitch classes *)

Above(pcs, tonic) == {(noteToPc(tonic) + pc) % 12 : pc \in pcs}

MajorScale == {0, 2, 4, 5, 7, 9, 11}
NaturalMinor == {0, 2, 3, 5, 7, 8, 10}
HarmonicMinor == {0, 2, 3, 5, 7, 8, 11}

Triad(base) == IF base = "maj" THEN {0, 4, 7} ELSE {0, 3, 7}

(* A position on the circle of fifths: how many sharps, or flats below zero. *)
Fifths == [F |-> -1, C |-> 0, G |-> 1, D |-> 2, A |-> 3, E |-> 4, B |-> 5]
Signature(k) ==
  Fifths[Letter(k.tonic)] + 7 * Alteration(k.tonic) - (IF k.mode = "minor" THEN 3 ELSE 0)
HasSignature(k) == k.tonic \in Capitals /\ Signature(k) \in -7..7
=============================================================================
