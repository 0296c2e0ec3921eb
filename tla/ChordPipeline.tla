--------------------------- MODULE ChordPipeline ---------------------------
(***************************************************************************)
(* From frame labels to the chords on the screen: the smoothing and        *)
(* segmentation of librosa_engine.py, the run-length loop and the stitch   *)
(* of btc_engine.py, validateChords of core/validate.ts, and               *)
(* collapseProgression of core/music.ts, over every small labelling.       *)
(*                                                                         *)
(* Time is counted in ticks of 1e-6 s, the precision both engines round    *)
(* to, with frames scaled down to a few ticks.  Confidences are left out.  *)
(***************************************************************************)
EXTENDS Integers, SequencesExt

CONSTANTS
  Named,          \* the labels that name a chord, each with its root and quality
  LibrosaLabels,  \* what a librosa frame can be labelled
  BtcLabels,      \* the classes of the btc model; "X" is its unknown chord
  LibrosaFrames,  \* bound: frames of the longest track given to librosa
  BtcFrames,      \* bound: the same for btc
  Hop,            \* ticks per librosa frame
  MinRun,         \* frames below which a librosa run is flicker
  Unit,           \* ticks per btc frame
  Milli,          \* the ticks that '%.3f' rounds to
  Timestep,       \* frames per btc instance
  Eps,            \* the tolerance of both stitch and validator
  None

NoChord == {"N", "X"}
Labels == LibrosaLabels \cup BtcLabels

(* A run of the least length is more than one frame, and a millisecond is  *)
(* long to the tolerance and short to a frame.                             *)
ASSUME ChordPipelineAssumption ==
  /\ {LibrosaFrames, BtcFrames, Hop, MinRun, Unit, Milli, Timestep} \subseteq Nat \ {0}
  /\ MinRun > 1
  /\ Eps \in Nat /\ 2 * Eps <= Milli /\ 2 * Milli <= Unit
  /\ Labels \subseteq NoChord \cup DOMAIN Named /\ NoChord \cap DOMAIN Named = {}
  /\ \A label \in DOMAIN Named : Named[label].root # None
  /\ None \notin {"librosa", "btc"}

VARIABLES
  stage,     \* how far the track has come
  track,     \* what is analysed: engine, frame labels, frames, duration
  smoothed,  \* librosa: the labels after _despeckle
  lines,     \* btc: the lines of the .lab file
  chords,    \* the chords of the Analysis
  cells      \* what the progression panel and the CLI summary print

vars == <<stage, track, smoothed, lines, chords, cells>>

-----------------------------------------------------------------------------
(* Helpers *)

Lesser(a, b) == IF a < b THEN a ELSE b
Greater(a, b) == IF a > b THEN a ELSE b

(* One element more for the loops that find runs of equal elements. *)
Grown(runs, s, k) ==
  IF runs # <<>> /\ s[k] = s[k-1] THEN [runs EXCEPT ![Len(runs)].to = k]
  ELSE Append(runs, [from |-> k, to |-> k])

(* The maximal runs, in order, as [from, to] positions. *)
RunsOf(s) ==
  LET runs[k \in 0..Len(s)] == IF k = 0 THEN <<>> ELSE Grown(runs[k-1], s, k)
  IN runs[Len(s)]

Size(run) == run.to - run.from + 1

Silence == [label |-> "N", root |-> None, quality |-> "N"]
Sounding(label, root, quality) == [label |-> label, root |-> root, quality |-> quality]

(* _parse_label, and the labels librosa builds itself. *)
Parsed(label) ==
  IF label \in NoChord THEN Silence
  ELSE Sounding(label, Named[label].root, Named[label].quality)

Seg(from, to, label) ==
  [start |-> from, end |-> to, label |-> Parsed(label).label,
   root |-> Parsed(label).root, quality |-> Parsed(label).quality]

-----------------------------------------------------------------------------
(* librosa_engine.py *)

(* Mutant: a short run joins the run that follows it. *)
AbsorbForward(labels, run) ==
  LET n == Len(labels)
      into == IF run.to < n THEN labels[run.to + 1]
              ELSE labels[run.from]
  IN IF Size(run) >= MinRun THEN labels
     ELSE [i \in 1..n |-> IF i \in run.from..run.to THEN into ELSE labels[i]]

(* Mutant: a run of exactly the minimum is absorbed as well. *)
AbsorbMinimumToo(labels, run) ==
  LET n == Len(labels)
      into == IF run.from > 1 THEN labels[run.from - 1]
              ELSE IF run.to < n THEN labels[run.to + 1] ELSE labels[run.from]
  IN IF Size(run) > MinRun THEN labels
     ELSE [i \in 1..n |-> IF i \in run.from..run.to THEN into ELSE labels[i]]

(* The loop body of _despeckle: a short run takes the label before it, as  *)
(* that label is by now; the first one takes the label after it.           *)
Absorb(labels, run) ==
  LET n == Len(labels)
      into == IF run.from > 1 THEN labels[run.from - 1]
              ELSE IF run.to < n THEN labels[run.to + 1] ELSE labels[run.from]
  IN IF Size(run) >= MinRun THEN labels
     ELSE [i \in 1..n |-> IF i \in run.from..run.to THEN into ELSE labels[i]]

(* _despeckle: the runs are those of the labels it was given. *)
Despeckle(labels) ==
  LET runs == RunsOf(labels)
      absorbed[k \in 0..Len(runs)] ==
        IF k = 0 THEN labels ELSE Absorb(absorbed[k-1], runs[k])
  IN absorbed[Len(runs)]

(* _segments: one per run, each starting where the one before it ended. *)
Segments(labels, duration) ==
  LET runs == RunsOf(labels)
      End(i) == IF runs[i].to >= Len(labels) THEN duration ELSE runs[i].to * Hop
  IN [i \in DOMAIN runs |->
        Seg(IF i = 1 THEN 0 ELSE End(i - 1), End(i), labels[runs[i].from])]

-----------------------------------------------------------------------------
(* btc_engine.py *)

(* Mutant: a track that fills its last instance is not padded. *)
NumPadNoneWhenFull(n) == (Timestep - (n % Timestep)) % Timestep

(* A full last instance is followed by one of padding alone. *)
NumPad(n) == Timestep - (n % Timestep)

(* '%.3f': a frame boundary, rounded to a millisecond. *)
Printed(k) == Milli * ((2 * k * Unit + Milli) \div (2 * Milli))

Line(from, to, label) == [start |-> Printed(from), end |-> Printed(to), label |-> label]

(* Another chord: the line of the one before is done. *)
Turn(st, k, label) ==
  [st EXCEPT !.lines = Append(@, Line(st.start, k, st.prev)), !.start = k, !.prev = label]

(* The first padded frame: whatever chord is open ends here. *)
LastFrame(st, k) ==
  [st EXCEPT !.done = TRUE,
             !.lines = IF st.start # k THEN Append(@, Line(st.start, k, st.prev)) ELSE @]

(* t = num_instance - 1 and i + num_pad = n_timestep, for k = n_timestep*t + i. *)
IsLastFrame(n, padded, k) ==
  /\ k \div Timestep = padded \div Timestep - 1
  /\ (k % Timestep) + NumPad(n) = Timestep

(* One prediction of the double loop of _btc_lab_lines; k counts from 0.   *)
Predict(n, labels, st, k) ==
  LET turned == IF labels[k+1] = st.prev THEN st ELSE Turn(st, k, labels[k+1])
  IN IF st.done THEN st
     ELSE IF IsLastFrame(n, Len(labels), k) THEN LastFrame(turned, k) ELSE turned

LabLines(n, labels) ==
  LET st[k \in 0..(Len(labels) - 1)] ==
        IF k = 0 THEN [start |-> 0, prev |-> labels[1], lines |-> <<>>, done |-> FALSE]
        ELSE Predict(n, labels, st[k-1], k)
  IN st[Len(labels) - 1].lines

(* What is left after the last line is explicitly no chord. *)
CoverTail(st, duration) ==
  IF duration - st.cursor > Eps THEN Append(st.out, Seg(st.cursor, duration, "N")) ELSE st.out

(* One line of _gap_free, clipped to the track. *)
Stitch(duration, st, line) ==
  LET e == Lesser(duration, line.end)
      s == Greater(line.start, st.cursor)
      gap == IF s - st.cursor > Eps THEN <<Seg(st.cursor, s, "N")>> ELSE <<>>
  IN IF line.end <= line.start \/ e <= st.cursor + Eps THEN st
     ELSE [cursor |-> e, out |-> st.out \o gap \o <<Seg(s, e, line.label)>>]

(* Something for a track that nothing was found in, and exact ends. *)
Pinned(out, duration) == [out EXCEPT ![1].start = 0, ![Len(out)].end = duration]
Covering(st, duration) ==
  LET tail == CoverTail(st, duration)
  IN Pinned(IF tail = <<>> THEN <<Seg(0, duration, "N")>> ELSE tail, duration)

GapFree(labLines, duration) ==
  LET st[k \in 0..Len(labLines)] ==
        IF k = 0 THEN [cursor |-> 0, out |-> <<>>] ELSE Stitch(duration, st[k-1], labLines[k])
  IN Covering(st[Len(labLines)], duration)

-----------------------------------------------------------------------------
(* validate.ts and music.ts *)

Near(a, b) == a - b <= Eps /\ b - a <= Eps

(* validateChords: contiguous, increasing, covering the track, N honest. *)
ValidChords(cs, duration) ==
  IF cs = <<>> THEN duration <= Eps
  ELSE /\ \A i \in DOMAIN cs :
            /\ cs[i].end > cs[i].start
            /\ Near(cs[i].start, IF i = 1 THEN 0 ELSE cs[i-1].end)
            /\ IF cs[i].label = "N" THEN cs[i].root = None /\ cs[i].quality = "N"
               ELSE cs[i].root # None
       /\ Near(Last(cs).end, duration)

(* Mutant: cells of one root are one cell, whatever their quality. *)
SameChordRootOnly(a, b) == a.root = b.root

SameChord(a, b) == a.root = b.root /\ a.quality = b.quality

(* Mutant: the run keeps the end of its first segment. *)
CollapsedKeepsEnd(runs, seg) ==
  IF runs # <<>> /\ SameChord(Last(runs), seg) THEN runs ELSE Append(runs, seg)

(* The loop body of collapseProgression. *)
Collapsed(runs, seg) ==
  IF runs # <<>> /\ SameChord(Last(runs), seg)
    THEN [runs EXCEPT ![Len(runs)].end = seg.end]
    ELSE Append(runs, seg)

CollapseProgression(cs) ==
  LET runs[k \in 0..Len(cs)] == IF k = 0 THEN <<>> ELSE Collapsed(runs[k-1], cs[k])
  IN runs[Len(cs)]

-----------------------------------------------------------------------------
(* The pipeline, a stage at a time *)

Init ==
  /\ stage = "start"
  /\ track = [engine |-> None, labels |-> <<>>, frames |-> 0, duration |-> 0]
  /\ smoothed = <<>> /\ lines = <<>> /\ chords = <<>> /\ cells = <<>>

(* librosa labels 1 + samples \div hop frames, the last one maybe at the end. *)
LabelFrames ==
  /\ stage = "start"
  /\ \E n \in 1..LibrosaFrames : \E labels \in [1..n -> LibrosaLabels], over \in 0..(Hop - 1) :
       track' = [engine |-> "librosa", labels |-> labels, frames |-> n,
                 duration |-> (n - 1) * Hop + over]
  /\ stage' = "labelled"
  /\ UNCHANGED <<smoothed, lines, chords, cells>>

(* btc predicts the frames of the (padded) audio and the padding after them. *)
Infer ==
  /\ stage = "start"
  /\ \E n \in 1..BtcFrames : \E labels \in [1..(n + NumPad(n)) -> BtcLabels] :
       \E duration \in 0..((n + 1) * Unit) :
         /\ track' = [engine |-> "btc", labels |-> labels, frames |-> n, duration |-> duration]
         /\ lines' = LabLines(n, labels)
  /\ stage' = "inferred"
  /\ UNCHANGED <<smoothed, chords, cells>>

Empty == track.duration = 0

(* "audio is empty (zero duration)": DecodeFailed, an error envelope. *)
Refuse ==
  /\ stage \in {"labelled", "inferred"} /\ Empty
  /\ stage' = "refused"
  /\ UNCHANGED <<track, smoothed, lines, chords, cells>>

Smooth ==
  /\ stage = "labelled" /\ ~Empty
  /\ smoothed' = Despeckle(track.labels)
  /\ stage' = "smoothed"
  /\ UNCHANGED <<track, lines, chords, cells>>

AssembleLibrosa ==
  /\ stage = "smoothed"
  /\ chords' = Segments(smoothed, track.duration)
  /\ stage' = "assembled"
  /\ UNCHANGED <<track, smoothed, lines, cells>>

AssembleBtc ==
  /\ stage = "inferred" /\ ~Empty
  /\ chords' = GapFree(lines, track.duration)
  /\ stage' = "assembled"
  /\ UNCHANGED <<track, smoothed, lines, cells>>

(* The consumer validates what it parsed ... *)
Validate ==
  /\ stage = "assembled"
  /\ stage' = IF ValidChords(chords, track.duration) THEN "accepted" ELSE "rejected"
  /\ UNCHANGED <<track, smoothed, lines, chords, cells>>

(* ... and collapses what it shows. *)
Show ==
  /\ stage = "accepted"
  /\ cells' = CollapseProgression(chords)
  /\ stage' = "shown"
  /\ UNCHANGED <<track, smoothed, lines, chords>>

Next ==
  \/ LabelFrames \/ Infer \/ Refuse
  \/ Smooth \/ AssembleLibrosa \/ AssembleBtc
  \/ Validate \/ Show

Spec == Init /\ [][Next]_vars

-----------------------------------------------------------------------------
(* Safety *)

(* Whatever the frames and the duration, the chords an engine assembles    *)
(* pass the contract its consumer enforces: the two are in two languages.  *)
ContractMet == stage # "rejected"

(* "Absorb sub-threshold runs": no run shorter than the minimum survives    *)
(* but at the very start, where there is no preceding run to join and a    *)
(* few short ones may agree on a label; a run long enough is untouched.    *)
NoFlicker ==
  stage = "smoothed" =>
    /\ \A r \in Range(RunsOf(smoothed)) : r.from > 1 => Size(r) >= MinRun
    /\ \A r \in Range(RunsOf(track.labels)) :
         Size(r) >= MinRun => \A i \in r.from..r.to : smoothed[i] = track.labels[i]

(* The .lab lines are the run-length code of the frames of the audio, all  *)
(* of them and none of the padding, whatever the model makes of the latter. *)
LinesAreTheAudio ==
  track.engine = "btc" =>
    LET audio == SubSeq(track.labels, 1, track.frames)
        runs == RunsOf(audio)
    IN lines = [i \in DOMAIN runs |-> Line(runs[i].from - 1, runs[i].to, audio[runs[i].from])]

(* The chord the engine found at frame k, counted from 0. *)
Heard(k) ==
  IF track.engine = "librosa" THEN Parsed(smoothed[k+1])
  ELSE IF k < track.frames THEN Parsed(track.labels[k+1]) ELSE Parsed("N")

Middle(k) == IF track.engine = "librosa" THEN k * Hop + Hop \div 2 ELSE k * Unit + Unit \div 2

(* At every frame's middle within the track, the cell shown there is the   *)
(* chord the engine found there, and silence where it looked at nothing.   *)
ShowsWhatWasHeard ==
  stage = "shown" =>
    \A k \in 0..(track.frames - (IF track.engine = "btc" THEN 0 ELSE 1)) : Middle(k) < track.duration =>
      \E i \in DOMAIN cells :
        /\ cells[i].start <= Middle(k) /\ Middle(k) < cells[i].end
        /\ cells[i].root = Heard(k).root /\ cells[i].quality = Heard(k).quality

(* "A maximal run of consecutive segments": neighbouring cells differ and  *)
(* meet, so the cells cover the track as the chords did.                   *)
CellsAreMaximal ==
  stage = "shown" =>
    /\ cells[1].start = 0 /\ Near(Last(cells).end, track.duration)
    /\ \A i \in 2..Len(cells) :
         Near(cells[i].start, cells[i-1].end) /\ ~SameChord(cells[i], cells[i-1])

(* The cells say all that was heard and nothing else, and no cell twice.   *)
CellsTell == ShowsWhatWasHeard /\ CellsAreMaximal
=============================================================================
