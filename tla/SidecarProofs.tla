---------------------------- MODULE SidecarProofs ----------------------------
(***************************************************************************)
(* What one sidecar says, for every output, every alphabet of bytes, every *)
(* document and every way the pipe may cut them.                           *)
(*                                                                         *)
(* stderr.  The reader works on what it holds (held, buf); the property    *)
(* speaks of all that was received.  What links them is Told: at every     *)
(* byte, what is kept spells the line that is still open (Reads), and the  *)
(* calls are what the complete lines lead to.  It is kept byte by byte     *)
(* (ToldNext), hence by a chunk of any size (ThroughAll), hence by every   *)
(* step (StderrKept).                                                      *)
(*                                                                         *)
(* stdout.  The validator looks at a document field by field and throws at *)
(* the first that is wrong; the schemas ask for a shape.  A document lives *)
(* in a set of values that holds the parts of each of them (Closed), where *)
(* a field that has a type is there (Field); so the two are compared field *)
(* by field (KeySame to AnalysisSame), and the times of chords by how far  *)
(* the tolerances can carry them (Drift).  The rest follows the document   *)
(* through its stages (DocumentInv).                                       *)
(*                                                                         *)
(* The screen.  What names and numerals do for the twelve pitch classes    *)
(* and intervals is gone through one by one (TablesAre, RowsAre), names    *)
(* with any number of accidentals are brought down to those (PcIs,         *)
(* FlatsAre), and what is shown stays what was read (PanelsInv).           *)
(***************************************************************************)
EXTENDS SidecarOutput, Induction, SequenceTheorems, FiniteSetTheorems

-----------------------------------------------------------------------------
(* Sequences that are flattened *)

(* What a sequence flattens to is built element by element. *)
LEMMA FlattenLoop ==
  ASSUME NEW V, NEW s \in Seq(Seq(V))
  PROVE  \E f :
           /\ f \in [0..Len(s) -> Seq(V)]
           /\ f[0] = <<>> /\ \A n \in 1..Len(s) : f[n] = f[n-1] \o s[n]
           /\ FlattenSeq(s) = f[Len(s)]
<1> DEFINE m == Len(s)
           step == [n \in 1..m |-> [v \in Seq(V) |-> v \o s[n]]]
<1>1. m \in Nat /\ <<>> \in Seq(V) /\ step \in [1..m -> [Seq(V) -> Seq(V)]]
  OBVIOUS
<1> HIDE DEF m, step
<1>2. PICK f : Computes(f, m, Seq(V), <<>>, step)
  BY <1>1, Recursion
<1>3. /\ f \in [0..m -> Seq(V)] /\ f[0] = <<>>
      /\ \A n \in 1..m : f[n] = f[n-1] \o s[n]
  <2>1. f \in [0..m -> Seq(V)] /\ f[0] = <<>> /\ \A n \in 1..m : f[n] = step[n][f[n-1]]
    BY <1>2 DEF Computes
  <2>2. ASSUME NEW n \in 1..m PROVE f[n] = f[n-1] \o s[n]
    <3>1. f[n-1] \in Seq(V) /\ f[n] = step[n][f[n-1]]
      BY <1>1, <2>1
    <3> QED BY <3>1 DEF step
  <2> QED BY <2>1, <2>2
<1>4. CASE m = 0
  BY <1>3, <1>4 DEF FlattenSeq, m
<1>5. CASE m # 0
  <2> DEFINE Step(g, i) == IF i = 1 THEN s[i] ELSE g[i-1] \o s[i]
             Loop(g) == g = [i \in 1..Len(s) |-> Step(g, i)]
             g0 == CHOOSE g : Loop(g)
             h == [i \in 1..m |-> f[i]]
  <2>1. FlattenSeq(s) = g0[m]
    BY <1>5 DEF FlattenSeq, m
  <2>2. Loop(h)
    <3>1. ASSUME NEW i \in 1..m PROVE f[i] = Step(h, i)
      <4>1. f[i] = f[i-1] \o s[i]
        BY <1>3
      <4>0. i \in Nat
        BY <1>1
      <4>2. CASE i = 1
        <5>1. f[0] = <<>> /\ s[1] \in Seq(V)
          BY <1>3, <4>2 DEF m
        <5>4. i - 1 = 0
          BY <4>2
        <5>2. f[1] = <<>> \o s[1]
          BY <4>1, <4>2, <5>1, <5>4, Zenon
        <5>3. <<>> \o s[1] = s[1]
          BY <5>1
        <5> QED BY <4>2, <5>2, <5>3
      <4>3. CASE i # 1
        <5>1. i - 1 \in 1..m
          BY <1>1, <4>0, <4>3
        <5>2. h[i-1] = f[i-1]
          BY <5>1
        <5> QED BY <4>1, <4>3, <5>2
      <4> QED BY <4>2, <4>3
    <3>2. h = [i \in 1..m |-> Step(h, i)]
      <4> HIDE DEF Step
      <4> QED BY <3>1
    <3> QED BY <3>2 DEF m
  <2>3. Loop(g0)
    <3> HIDE DEF Loop
    <3> QED BY <2>2
  <2>4. \A i \in 1..m : g0[i] = Step(g0, i)
    <3> HIDE DEF g0
    <3> QED BY <2>3 DEF m
  <2> HIDE DEF g0
  <2> DEFINE S == {i \in Nat : i = 0 \/ g0[i] = f[i]}
  <2>5. 0 \in S
    OBVIOUS
  <2>6. ASSUME NEW i \in Nat, i < m, i \in S PROVE i + 1 \in S
    <3> DEFINE j == i + 1
    <3>1. j \in 1..m /\ j - 1 = i
      BY <1>1, <2>6
    <3> HIDE DEF j
    <3>2. g0[j] = Step(g0, j)
      <4> HIDE DEF Step
      <4> QED BY <2>4, <3>1
    <3>3. f[j] = f[i] \o s[j]
      BY <1>3, <3>1
    <3>4. CASE i = 0
      <4>1. j = 1 /\ s[1] \in Seq(V)
        BY <3>1, <3>4 DEF m
      <4>2. g0[j] = s[1]
        BY <3>2, <4>1
      <4>3. f[j] = <<>> \o s[1]
        BY <3>3, <3>4, <4>1, <1>3
      <4>4. <<>> \o s[1] = s[1]
        BY <4>1
      <4>5. g0[j] = f[j]
        BY <4>2, <4>3, <4>4
      <4> QED BY <4>5 DEF j
    <3>5. CASE i # 0
      <4>1. j # 1 /\ g0[i] = f[i]
        BY <2>6, <3>1, <3>5
      <4>2. g0[j] = g0[i] \o s[j]
        BY <3>1, <3>2, <4>1
      <4>3. g0[j] = f[j]
        BY <3>3, <4>1, <4>2
      <4> QED BY <4>3 DEF j
    <3>6. g0[i + 1] = f[i + 1]
      BY <3>4, <3>5
    <3> QED BY <2>6, <3>6
  <2>7. \A i \in 0..m : i \in S
    <3>1. \A i \in Nat : i < m /\ i \in S => i + 1 \in S
      BY <2>6
    <3> HIDE DEF S
    <3> QED BY <1>1, <2>5, <3>1, Inductive
  <2>8. g0[m] = f[m]
    BY <1>1, <1>5, <2>7
  <2> QED BY <1>3, <2>1, <2>8 DEF m
<1> QED BY <1>4, <1>5

(* One element more. *)
LEMMA Longer ==
  ASSUME NEW V, NEW s \in Seq(V), NEW e \in V
  PROVE  /\ Append(s, e) \in Seq(V) /\ Len(Append(s, e)) = Len(s) + 1
         /\ Append(s, e)[Len(s) + 1] = e
         /\ \A i \in 1..Len(s) : Append(s, e)[i] = s[i]
OBVIOUS

(* Flattening keeps the elements. *)
LEMMA FlattenType ==
  ASSUME NEW V, NEW s \in Seq(Seq(V))
  PROVE  FlattenSeq(s) \in Seq(V)
<1>1. PICK f : f \in [0..Len(s) -> Seq(V)] /\ FlattenSeq(s) = f[Len(s)]
  BY FlattenLoop, Zenon
<1>2. Len(s) \in 0..Len(s)
  OBVIOUS
<1> QED BY <1>1, <1>2, Zenon

(* One sequence more is put at the end. *)
LEMMA FlattenAppend ==
  ASSUME NEW V, NEW s \in Seq(Seq(V)), NEW e \in Seq(V)
  PROVE  FlattenSeq(Append(s, e)) = FlattenSeq(s) \o e
<1> DEFINE t == Append(s, e)
           m == Len(s)
<1>1. /\ t \in Seq(Seq(V)) /\ Len(t) = m + 1 /\ t[m + 1] = e /\ m \in Nat
      /\ \A i \in 1..m : t[i] = s[i]
  OBVIOUS
<1> HIDE DEF t
<1>2. PICK f :
        /\ f \in [0..Len(s) -> Seq(V)]
        /\ f[0] = <<>> /\ \A n \in 1..Len(s) : f[n] = f[n-1] \o s[n]
        /\ FlattenSeq(s) = f[Len(s)]
  BY FlattenLoop, Zenon
<1>3. PICK g :
        /\ g \in [0..Len(t) -> Seq(V)]
        /\ g[0] = <<>> /\ \A n \in 1..Len(t) : g[n] = g[n-1] \o t[n]
        /\ FlattenSeq(t) = g[Len(t)]
  BY <1>1, FlattenLoop, Zenon
<1>4. ASSUME NEW n \in 1..m, f[n-1] = g[n-1] PROVE f[n] = g[n]
  <2>1. n \in 1..Len(t) /\ t[n] = s[n]
    BY <1>1
  <2>2. f[n] = f[n-1] \o s[n] /\ g[n] = g[n-1] \o t[n]
    BY <1>2, <1>3, <2>1, Zenon
  <2> QED BY <1>4, <2>1, <2>2, Zenon
<1>5. f[m] = g[m]
  <2>0. m \in Nat
    BY <1>1
  <2>1. \A n \in 1..m : f[n-1] = g[n-1] => f[n] = g[n]
    BY <1>4
  <2>2. f[0] = g[0]
    BY <1>2, <1>3, Zenon
  <2> HIDE DEF m
  <2>3. \A n \in 0..m : f[n] = g[n]
    BY <2>0, <2>1, <2>2, Together
  <2>4. m \in 0..m
    BY <1>1
  <2> QED BY <2>3, <2>4
<1>6. m + 1 \in 1..Len(t) /\ (m + 1) - 1 = m
  BY <1>1
<1>7. g[m + 1] = g[m] \o e
  BY <1>1, <1>3, <1>6, Zenon
<1>8. FlattenSeq(t) = f[m] \o e
  BY <1>1, <1>3, <1>5, <1>7, Zenon
<1> QED BY <1>2, <1>8, Zenon DEF t

-----------------------------------------------------------------------------
(* The decoder *)

(* What is written, held and kept. *)
Text == Seq(Chars)
(* What a decoder is in the middle of. *)
Decoding == [text : Text, held : Text]

(* A byte more leaves a decoder in some such state. *)
LEMMA DecodedType ==
  ASSUME NEW d \in Decoding, NEW byte \in Chars
  PROVE  Decoded(d, byte) \in Decoding
<1> DEFINE before == IF d.held = <<>> THEN d.text ELSE Append(d.text, Bad)
<1>1. d.text \in Text /\ d.held \in Text
  BY DEF Decoding
<1>2. Bad \in Chars /\ Char \in Chars
  BY StderrAssumption
<1>3. \A s \in Text, c \in Chars : Append(s, c) \in Text
  BY DEF Text
<1>4. before \in Text
  BY <1>1, <1>2, <1>3
<1>5. <<>> \in Text /\ <<byte>> \in Text
  BY DEF Text
<1>6. \A s, h \in Text : [text |-> s, held |-> h] \in Decoding
  BY DEF Decoding
<1>7. /\ Append(d.text, Char) \in Text /\ Append(before, Bad) \in Text
      /\ Append(before, byte) \in Text
  BY <1>1, <1>2, <1>3, <1>4
<1> HIDE DEF before
<1>8. \/ Decoded(d, byte) = [text |-> Append(d.text, Char), held |-> <<>>]
      \/ Decoded(d, byte) = [text |-> Append(before, Bad), held |-> <<>>]
      \/ Decoded(d, byte) = [text |-> before, held |-> <<byte>>]
      \/ Decoded(d, byte) = [text |-> Append(before, byte), held |-> <<>>]
  BY DEF Decoded, before
<1> QED BY <1>4, <1>5, <1>6, <1>7, <1>8

(* Decoding goes byte by byte: the recursion has a value at each. *)
LEMMA DecodedLoop ==
  ASSUME NEW d \in Decoding, NEW bytes \in Text
  PROVE  \E f : /\ f \in [0..Len(bytes) -> Decoding] /\ f[0] = d
                /\ \A k \in 1..Len(bytes) : f[k] = Decoded(f[k - 1], bytes[k])
                /\ DecodedAll(d, bytes) = f[Len(bytes)]
<1> DEFINE m == Len(bytes)
           T == [k \in 1..m |-> [v \in Decoding |-> Decoded(v, bytes[k])]]
           Eq(g) == [k \in 0..m |-> IF k = 0 THEN d ELSE Decoded(g[k - 1], bytes[k])]
           f == CHOOSE g : g = Eq(g)
<1>1. m \in Nat /\ \A k \in 1..m : bytes[k] \in Chars
  BY DEF Text
<1>2. T \in [1..m -> [Decoding -> Decoding]]
  BY <1>1, DecodedType
<1>3. PICK g : Computes(g, m, Decoding, d, T)
  <2> HIDE DEF T, m
  <2> QED BY <1>1, <1>2, Recursion
<1>4. g \in [0..m -> Decoding] /\ g[0] = d /\ \A k \in 1..m : g[k] = T[k][g[k - 1]]
  <2> HIDE DEF T, m
  <2> QED BY <1>3 DEF Computes
<1>5. ASSUME NEW k \in 1..m PROVE g[k] = Decoded(g[k - 1], bytes[k])
  <2>1. k - 1 \in 0..m /\ g[k] = T[k][g[k - 1]]
    <3> HIDE DEF T, m
    <3> QED BY <1>1, <1>4
  <2>2. g[k - 1] \in Decoding
    BY <1>4, <2>1
  <2> QED BY <2>1, <2>2
<1>6. g = Eq(g)
  BY <1>1, <1>4, <1>5
<1>7. f = Eq(f)
  <2> HIDE DEF Eq
  <2> QED BY <1>6
<1>8. f[0] = d /\ \A k \in 1..m : f[k] = Decoded(f[k - 1], bytes[k])
  <2> HIDE DEF f
  <2> QED BY <1>1, <1>7
<1>9. \A k \in 0..m : f[k] \in Decoding
  <2> HIDE DEF f, m
  <2>1. \A k \in 1..m : f[k - 1] \in Decoding => f[k] \in Decoding
    BY <1>1, <1>8, DecodedType
  <2>2. f[0] \in Decoding
    BY <1>8
  <2> QED BY <1>1, <2>1, <2>2, Kept
<1>10. f \in [0..m -> Decoding]
  <2> HIDE DEF f
  <2> QED BY <1>7, <1>9
<1>11. DecodedAll(d, bytes) = f[m]
  BY DEF DecodedAll
<1> HIDE DEF f
<1> QED BY <1>8, <1>10, <1>11

(* The last byte is decoded after the others. *)
LEMMA DecodedAppend ==
  ASSUME NEW d \in Decoding, NEW bytes \in Text, NEW x \in Chars
  PROVE  /\ DecodedAll(d, bytes) \in Decoding
         /\ DecodedAll(d, Append(bytes, x)) = Decoded(DecodedAll(d, bytes), x)
<1> DEFINE t == Append(bytes, x)
           m == Len(bytes)
<1>1. /\ t \in Text /\ Len(t) = m + 1 /\ t[m + 1] = x /\ m \in Nat
      /\ \A i \in 1..m : t[i] = bytes[i]
  BY DEF Text
<1> HIDE DEF t
<1>2. PICK f : /\ f \in [0..Len(bytes) -> Decoding] /\ f[0] = d
               /\ \A k \in 1..Len(bytes) : f[k] = Decoded(f[k - 1], bytes[k])
               /\ DecodedAll(d, bytes) = f[Len(bytes)]
  BY DecodedLoop, Zenon
<1>3. PICK g : /\ g \in [0..Len(t) -> Decoding] /\ g[0] = d
               /\ \A k \in 1..Len(t) : g[k] = Decoded(g[k - 1], t[k])
               /\ DecodedAll(d, t) = g[Len(t)]
  BY <1>1, DecodedLoop, Zenon
<1>4. ASSUME NEW n \in 1..m, f[n-1] = g[n-1] PROVE f[n] = g[n]
  <2>1. n \in 1..Len(t) /\ t[n] = bytes[n]
    BY <1>1
  <2>2. f[n] = Decoded(f[n-1], bytes[n]) /\ g[n] = Decoded(g[n-1], t[n])
    BY <1>2, <1>3, <2>1, Zenon
  <2> QED BY <1>4, <2>1, <2>2, Zenon
<1>5. f[m] = g[m]
  <2>0. m \in Nat
    BY <1>1
  <2>1. \A n \in 1..m : f[n-1] = g[n-1] => f[n] = g[n]
    BY <1>4
  <2>2. f[0] = g[0]
    BY <1>2, <1>3, Zenon
  <2> HIDE DEF m
  <2>3. \A n \in 0..m : f[n] = g[n]
    BY <2>0, <2>1, <2>2, Together
  <2>4. m \in 0..m
    BY <1>1
  <2> QED BY <2>3, <2>4
<1>6. m + 1 \in 1..Len(t) /\ (m + 1) - 1 = m /\ m \in 0..m
  BY <1>1
<1>7. g[m + 1] = Decoded(g[m], x)
  BY <1>1, <1>3, <1>6, Zenon
<1>8. DecodedAll(d, t) = Decoded(f[m], x)
  BY <1>1, <1>3, <1>5, <1>7, Zenon
<1>9. f[m] \in Decoding
  BY <1>2, <1>6, Zenon
<1> QED BY <1>2, <1>8, <1>9, Zenon DEF t

(* No byte changes nothing. *)
LEMMA DecodedNone ==
  ASSUME NEW d \in Decoding
  PROVE  DecodedAll(d, <<>>) = d
<1> DEFINE e == <<>>
<1>1. e \in Text /\ Len(e) = 0
  BY DEF Text
<1> HIDE DEF e
<1>2. PICK f : /\ f \in [0..Len(e) -> Decoding] /\ f[0] = d
               /\ \A k \in 1..Len(e) : f[k] = Decoded(f[k - 1], e[k])
               /\ DecodedAll(d, e) = f[Len(e)]
  BY <1>1, DecodedLoop, Zenon
<1> QED BY <1>1, <1>2, Zenon DEF e

(* All that onEvent can be called with. *)
Events ==
  {e \in {asEngineEvent(Json[t]) : t \in DOMAIN Json} : e # Missing}
  \cup {Log("warn", msg) : msg \in Remarks \X Text}

(* Each of them is an event of a known type. *)
LEMMA EventsAreEvents ==
  ASSUME NEW e \in Events
  PROVE  IsEvent(e)
<1>1. CASE \E t \in DOMAIN Json : e = asEngineEvent(Json[t]) /\ e # Missing
  <2>1. PICK o : e = asEngineEvent(o) /\ e # Missing
    BY <1>1
  <2>2. CASE o.type = "progress" /\ o.stage \in EngineStages
    BY <2>1, <2>2 DEF asEngineEvent, IsEvent, Counted
  <2>3. CASE /\ ~(o.type = "progress" /\ o.stage \in EngineStages)
             /\ o.type = "log" /\ o.level \in Levels /\ o.msg # Missing
    <3>1. e = Log(o.level, o.msg)
      BY <2>1, <2>3 DEF asEngineEvent
    <3> QED BY <2>3, <3>1 DEF IsEvent, Log
  <2> QED BY <2>1, <2>2, <2>3 DEF asEngineEvent
<1>2. CASE \E msg \in Remarks \X Text : e = Log("warn", msg)
  <2>1. PICK msg \in Remarks \X Text : e = Log("warn", msg)
    BY <1>2
  <2>2. msg # Missing
    BY StderrAssumption DEF Text
  <2> QED BY <2>1, <2>2 DEF IsEvent, Log, Levels
<1> QED BY <1>1, <1>2 DEF Events

(* trim() makes a text of a text. *)
LEMMA TrimmedType ==
  ASSUME NEW line \in Text
  PROVE  Trimmed(line) \in Text
<1> DEFINE solid == {i \in DOMAIN line : line[i] # Blank}
           First == CHOOSE i \in solid : \A j \in solid : i <= j
           Final == CHOOSE i \in solid : \A j \in solid : i >= j
<1>1. solid \subseteq 1..Len(line) /\ Len(line) \in Nat /\ line \in Seq(Chars)
  BY DEF Text
<1>2. CASE solid = {}
  <2>1. Trimmed(line) = <<>>
    BY <1>2 DEF Trimmed
  <2> QED BY <2>1 DEF Text
<1>3. CASE solid # {}
  <2> HIDE DEF solid
  <2>1. \E i \in solid : \A j \in solid : i <= j
    <3>1. solid \subseteq Nat
      BY <1>1
    <3> QED BY <1>3, <3>1, Least
  <2>2. \E i \in solid : \A j \in solid : i >= j
    BY <1>1, <1>3, Latest
  <2>3. First \in solid /\ Final \in solid
    BY <2>1, <2>2
  <2>4. Trimmed(line) = SubSeq(line, First, Final)
    BY <1>3 DEF Trimmed, solid
  <2> HIDE DEF First, Final
  <2>5. First \in 1..Len(line) /\ Final \in 1..Len(line)
    BY <1>1, <2>3
  <2>6. SubSeq(line, First, Final) \in Seq(Chars)
    BY <1>1, <2>5
  <2> QED BY <2>4, <2>6 DEF Text
<1> QED BY <1>2, <1>3

(* A line leads to events. *)
LEMMA HandledType ==
  ASSUME NEW onEvent, NEW line \in Text
  PROVE  handleStderrLine(line, onEvent) \in Seq(Events)
<1> DEFINE trimmed == Trimmed(line)
           event == asEngineEvent(Json[trimmed])
<1>1. trimmed \in Text
  BY TrimmedType
<1>2. \A e \in Events : <<e>> \in Seq(Events)
  OBVIOUS
<1>3. <<>> \in Seq(Events)
  OBVIOUS
<1>4. ASSUME NEW remark \in Remarks PROVE Log("warn", <<remark, trimmed>>) \in Events
  BY <1>1 DEF Events
<1>5. trimmed \in DOMAIN Json /\ event # Missing => event \in Events
  BY DEF Events
<1>6. "unparseable stderr line" \in Remarks /\ "unknown stderr event" \in Remarks
  BY DEF Remarks
<1>7. \/ handleStderrLine(line, onEvent) = <<>>
      \/ handleStderrLine(line, onEvent) = <<Log("warn", <<"unparseable stderr line", trimmed>>)>>
      \/ trimmed \in DOMAIN Json /\ event # Missing /\ handleStderrLine(line, onEvent) = <<event>>
      \/ handleStderrLine(line, onEvent) = <<Log("warn", <<"unknown stderr event", trimmed>>)>>
  BY DEF handleStderrLine
<1> HIDE DEF trimmed, event
<1> QED BY <1>2, <1>3, <1>4, <1>5, <1>6, <1>7

-----------------------------------------------------------------------------
(* The frames *)

(* Calls that are due, and what follows the last newline. *)
Frame == [calls : Seq(Events), rest : Text]

(* A character more leaves the reader with some such thing. *)
LEMMA ScannedType ==
  ASSUME NEW onEvent, NEW f \in Frame, NEW c \in Chars
  PROVE  Scanned(f, c, onEvent) \in Frame
<1>1. f.calls \in Seq(Events) /\ f.rest \in Text
  BY DEF Frame
<1>2. handleStderrLine(f.rest, onEvent) \in Seq(Events)
  BY <1>1, HandledType
<1>3. f.calls \o handleStderrLine(f.rest, onEvent) \in Seq(Events)
  BY <1>1, <1>2
<1>4. <<>> \in Text /\ Append(f.rest, c) \in Text
  BY <1>1 DEF Text
<1>5. \A s \in Seq(Events), r \in Text : [calls |-> s, rest |-> r] \in Frame
  BY DEF Frame
<1> QED BY <1>1, <1>3, <1>4, <1>5 DEF Scanned

(* Before the first character. *)
NoFrame == [calls |-> <<>>, rest |-> <<>>]

(* Framing goes character by character. *)
LEMMA FramedLoop ==
  ASSUME NEW onEvent, NEW s \in Text
  PROVE  \E f : /\ f \in [0..Len(s) -> Frame] /\ f[0] = NoFrame
                /\ \A k \in 1..Len(s) : f[k] = Scanned(f[k - 1], s[k], onEvent)
                /\ Framed(s, onEvent) = f[Len(s)]
<1> DEFINE m == Len(s)
           T == [k \in 1..m |-> [v \in Frame |-> Scanned(v, s[k], onEvent)]]
           Eq(g) == [k \in 0..m |-> IF k = 0 THEN NoFrame ELSE Scanned(g[k - 1], s[k], onEvent)]
           f == CHOOSE g : g = Eq(g)
<1>0. NoFrame \in Frame
  BY DEF NoFrame, Frame, Text
<1>1. m \in Nat /\ \A k \in 1..m : s[k] \in Chars
  BY DEF Text
<1>2. T \in [1..m -> [Frame -> Frame]]
  BY <1>1, ScannedType
<1>3. PICK g : Computes(g, m, Frame, NoFrame, T)
  <2> HIDE DEF T, m
  <2> QED BY <1>0, <1>1, <1>2, Recursion
<1>4. g \in [0..m -> Frame] /\ g[0] = NoFrame /\ \A k \in 1..m : g[k] = T[k][g[k - 1]]
  <2> HIDE DEF T, m
  <2> QED BY <1>3 DEF Computes
<1>5. ASSUME NEW k \in 1..m PROVE g[k] = Scanned(g[k - 1], s[k], onEvent)
  <2>1. k - 1 \in 0..m /\ g[k] = T[k][g[k - 1]]
    <3> HIDE DEF T, m
    <3> QED BY <1>1, <1>4
  <2>2. g[k - 1] \in Frame
    BY <1>4, <2>1
  <2> QED BY <2>1, <2>2
<1>6. g = Eq(g)
  BY <1>1, <1>4, <1>5
<1>7. f = Eq(f)
  <2> HIDE DEF Eq
  <2> QED BY <1>6
<1>8. f[0] = NoFrame /\ \A k \in 1..m : f[k] = Scanned(f[k - 1], s[k], onEvent)
  <2> HIDE DEF f
  <2> QED BY <1>1, <1>7
<1>9. \A k \in 0..m : f[k] \in Frame
  <2> HIDE DEF f, m
  <2>1. \A k \in 1..m : f[k - 1] \in Frame => f[k] \in Frame
    BY <1>1, <1>8, ScannedType
  <2>2. f[0] \in Frame
    BY <1>0, <1>8
  <2> QED BY <1>1, <2>1, <2>2, Kept
<1>10. f \in [0..m -> Frame]
  <2> HIDE DEF f
  <2> QED BY <1>7, <1>9
<1>11. Framed(s, onEvent) = f[m]
  BY DEF Framed, NoFrame
<1> HIDE DEF f
<1> QED BY <1>8, <1>10, <1>11

(* The last character is scanned after the others. *)
LEMMA FramedAppend ==
  ASSUME NEW onEvent, NEW s \in Text, NEW x \in Chars
  PROVE  /\ Framed(s, onEvent) \in Frame
         /\ Framed(Append(s, x), onEvent) = Scanned(Framed(s, onEvent), x, onEvent)
<1> DEFINE t == Append(s, x)
           m == Len(s)
<1>1. /\ t \in Text /\ Len(t) = m + 1 /\ t[m + 1] = x /\ m \in Nat
      /\ \A i \in 1..m : t[i] = s[i]
  BY DEF Text
<1> HIDE DEF t
<1>2. PICK f : /\ f \in [0..Len(s) -> Frame] /\ f[0] = NoFrame
               /\ \A k \in 1..Len(s) : f[k] = Scanned(f[k - 1], s[k], onEvent)
               /\ Framed(s, onEvent) = f[Len(s)]
  BY FramedLoop, Zenon
<1>3. PICK g : /\ g \in [0..Len(t) -> Frame] /\ g[0] = NoFrame
               /\ \A k \in 1..Len(t) : g[k] = Scanned(g[k - 1], t[k], onEvent)
               /\ Framed(t, onEvent) = g[Len(t)]
  BY <1>1, FramedLoop, Zenon
<1>4. ASSUME NEW n \in 1..m, f[n-1] = g[n-1] PROVE f[n] = g[n]
  <2>1. n \in 1..Len(t) /\ t[n] = s[n]
    BY <1>1
  <2>2. f[n] = Scanned(f[n-1], s[n], onEvent) /\ g[n] = Scanned(g[n-1], t[n], onEvent)
    BY <1>2, <1>3, <2>1, Zenon
  <2> QED BY <1>4, <2>1, <2>2, Zenon
<1>5. f[m] = g[m]
  <2>0. m \in Nat
    BY <1>1
  <2>1. \A n \in 1..m : f[n-1] = g[n-1] => f[n] = g[n]
    BY <1>4
  <2>2. f[0] = g[0]
    BY <1>2, <1>3, Zenon
  <2> HIDE DEF m
  <2>3. \A n \in 0..m : f[n] = g[n]
    BY <2>0, <2>1, <2>2, Together
  <2>4. m \in 0..m
    BY <1>1
  <2> QED BY <2>3, <2>4
<1>6. m + 1 \in 1..Len(t) /\ (m + 1) - 1 = m /\ m \in 0..m
  BY <1>1
<1>7. g[m + 1] = Scanned(g[m], x, onEvent)
  BY <1>1, <1>3, <1>6, Zenon
<1>8. Framed(t, onEvent) = Scanned(f[m], x, onEvent)
  BY <1>1, <1>3, <1>5, <1>7, Zenon
<1>9. f[m] \in Frame
  BY <1>2, <1>6, Zenon
<1> QED BY <1>2, <1>8, <1>9, Zenon DEF t

(* f holds what the first elements of t flatten to, for each number of them. *)
Flattens(f, t, N, V) ==
  f \in [0..N -> Seq(V)] /\ \A n \in 1..N : f[n] = f[n - 1] \o t[n]

(* From p to N nothing was added; t[i] adds nothing there. *)
Still(f, p, N) == f[N] = f[p]
SilentAfter(t, p, N) == \A i \in p + 1..N : t[i] = <<>>

(* What is empty adds nothing. *)
LEMMA FlattenSilence ==
  ASSUME NEW V, NEW N \in Nat, NEW t, NEW f, NEW p
  PROVE  p \in 0..N /\ Flattens(f, t, N, V) /\ SilentAfter(t, p, N) => Still(f, p, N)
<1>0. SUFFICES ASSUME p \in 0..N, f \in [0..N -> Seq(V)],
                      \A n \in 1..N : f[n] = f[n - 1] \o t[n],
                      \A i \in p + 1..N : t[i] = <<>>
               PROVE  f[N] = f[p]
  BY DEF Flattens, SilentAfter, Still
<1> DEFINE m == N - p
           F == [k \in 0..m |-> f[p + k]]
           G == [k \in 0..m |-> f[p]]
<1>1. N \in Nat /\ p \in 0..N /\ m \in Nat
  BY <1>0
<1>2. ASSUME NEW k \in 1..m, F[k - 1] = G[k - 1] PROVE F[k] = G[k]
  <2>1. /\ k - 1 \in 0..m /\ k \in 0..m /\ p + k \in 1..N /\ p + k \in p + 1..N
        /\ (p + k) - 1 = p + (k - 1) /\ (p + k) - 1 \in 0..N /\ p \in 0..N
    BY <1>1
  <2>2. f[p + k] = f[(p + k) - 1] \o t[p + k] /\ t[p + k] = <<>>
    BY <1>0, <2>1
  <2>3. f[(p + k) - 1] = f[p]
    BY <1>2, <2>1
  <2>4. f[p] \in Seq(V)
    BY <1>0, <2>1
  <2>5. f[p] \o <<>> = f[p]
    BY <2>4
  <2>6. f[p + k] = f[p]
    BY <2>2, <2>3, <2>5
  <2> QED BY <2>1, <2>6
<1>3. F[0] = G[0]
  BY <1>1
<1>4. \A k \in 0..m : F[k] = G[k]
  <2>1. \A k \in 1..m : F[k - 1] = G[k - 1] => F[k] = G[k]
    BY <1>2
  <2> HIDE DEF F, G, m
  <2> QED BY <1>1, <1>3, <2>1, Together
<1>5. m \in 0..m /\ p + m = N
  BY <1>1
<1> QED BY <1>4, <1>5

(* Two sequences, the one silent where the other has something to add.     *)
LEMMA FlattenWith ==
  ASSUME NEW V, NEW s \in Seq(Seq(V)), NEW t \in Seq(Seq(V)),
         NEW p
  PROVE  /\ p \in 1..Len(s) /\ p <= Len(t)
         /\ \A i \in 1..p - 1 : s[i] = t[i]
         /\ \A i \in p..Len(s) : s[i] = <<>>
         /\ \A i \in p + 1..Len(t) : t[i] = <<>>
         => FlattenSeq(t) = FlattenSeq(s) \o t[p]
<1>0. SUFFICES ASSUME p \in 1..Len(s), p <= Len(t),
                      \A i \in 1..p - 1 : s[i] = t[i],
                      \A i \in p..Len(s) : s[i] = <<>>,
                      \A i \in p + 1..Len(t) : t[i] = <<>>
               PROVE  FlattenSeq(t) = FlattenSeq(s) \o t[p]
  OBVIOUS
<1>1. PICK f :
        /\ f \in [0..Len(s) -> Seq(V)]
        /\ f[0] = <<>> /\ \A n \in 1..Len(s) : f[n] = f[n-1] \o s[n]
        /\ FlattenSeq(s) = f[Len(s)]
  BY FlattenLoop, Zenon
<1>2. PICK g :
        /\ g \in [0..Len(t) -> Seq(V)]
        /\ g[0] = <<>> /\ \A n \in 1..Len(t) : g[n] = g[n-1] \o t[n]
        /\ FlattenSeq(t) = g[Len(t)]
  BY FlattenLoop, Zenon
<1>3. p \in Nat /\ Len(s) \in Nat /\ Len(t) \in Nat /\ p <= Len(s) /\ p >= 1 /\ p <= Len(t)
  BY <1>0
<1> DEFINE m == p - 1
<1>4. /\ m \in Nat /\ m \in 0..Len(s) /\ m \in 0..m /\ m + 1 = p /\ p \in 0..Len(t) /\ p \in 1..Len(t)
      /\ \A n \in 1..m : n \in 1..Len(s) /\ n \in 1..Len(t)
  BY <1>3
<1>5. f[m] = g[m]
  <2>1. ASSUME NEW n \in 1..m, f[n-1] = g[n-1] PROVE f[n] = g[n]
    <3>1. n \in 1..Len(s) /\ n \in 1..Len(t) /\ s[n] = t[n]
      BY <1>0, <1>4
    <3>2. f[n] = f[n-1] \o s[n] /\ g[n] = g[n-1] \o t[n]
      BY <1>1, <1>2, <3>1, Zenon
    <3> QED BY <2>1, <3>1, <3>2, Zenon
  <2>2. \A n \in 1..m : f[n-1] = g[n-1] => f[n] = g[n]
    BY <2>1
  <2>3. f[0] = g[0]
    BY <1>1, <1>2, Zenon
  <2>4. m \in Nat
    BY <1>4
  <2> HIDE DEF m
  <2>5. \A n \in 0..m : f[n] = g[n]
    BY <2>2, <2>3, <2>4, Together
  <2> QED BY <1>4, <2>5
<1>6. f[Len(s)] = f[m]
  <2>1. \A i \in m + 1..Len(s) : s[i] = <<>>
    BY <1>0, <1>4
  <2>2. m \in 0..Len(s) /\ f \in [0..Len(s) -> Seq(V)] /\ \A n \in 1..Len(s) : f[n] = f[n-1] \o s[n]
    BY <1>1, <1>4
  <2> DEFINE N == Len(s)
  <2>3. /\ N \in Nat /\ m \in 0..N /\ f \in [0..N -> Seq(V)]
        /\ \A n \in 1..N : f[n] = f[n-1] \o s[n]
        /\ \A i \in m + 1..N : s[i] = <<>>
    BY <1>3, <2>1, <2>2
  <2> HIDE DEF m, N
  <2>4. Flattens(f, s, N, V) /\ SilentAfter(s, m, N)
    BY <2>3 DEF Flattens, SilentAfter
  <2>5. N \in Nat /\ m \in 0..N
    BY <2>3
  <2>6. Still(f, m, N)
    BY <2>4, <2>5, FlattenSilence, Zenon
  <2> QED BY <2>6 DEF N, Still
<1>7. g[Len(t)] = g[p]
  <2>1. g \in [0..Len(t) -> Seq(V)] /\ (\A n \in 1..Len(t) : g[n] = g[n-1] \o t[n]) /\ p \in 0..Len(t)
    BY <1>2, <1>4
  <2>2. \A i \in p + 1..Len(t) : t[i] = <<>>
    BY <1>0
  <2> DEFINE N == Len(t)
  <2>3. /\ N \in Nat /\ p \in 0..N /\ g \in [0..N -> Seq(V)]
        /\ \A n \in 1..N : g[n] = g[n-1] \o t[n]
        /\ \A i \in p + 1..N : t[i] = <<>>
    BY <1>3, <2>1, <2>2
  <2> HIDE DEF N
  <2>4. Flattens(g, t, N, V) /\ SilentAfter(t, p, N)
    BY <2>3 DEF Flattens, SilentAfter
  <2>5. N \in Nat /\ p \in 0..N
    BY <2>3
  <2>6. Still(g, p, N)
    BY <2>4, <2>5, FlattenSilence, Zenon
  <2> QED BY <2>6 DEF N, Still
<1>8. g[p] = g[m] \o t[p]
  BY <1>2, <1>4
<1> HIDE DEF m
<1> QED BY <1>1, <1>2, <1>5, <1>6, <1>7, <1>8, Zenon

-----------------------------------------------------------------------------
(* What bytes spell *)

(* What a byte spells that does not complete a character. *)
Alone(x) == IF x \in {"lead", "cont"} THEN <<Bad>> ELSE <<x>>

(* The bytes w end in the middle of a character. *)
Dangling(w) == w # <<>> /\ w[Len(w)] = "lead"

(* What each byte of w spells. *)
Spelling1(w) == [i \in DOMAIN w |-> SpeltAt(w, i)]

(* A byte spells some characters. *)
LEMMA SpeltAtType ==
  ASSUME NEW w \in Text, NEW i \in 1..Len(w)
  PROVE  SpeltAt(w, i) \in Text
<1>1. w[i] \in Chars /\ Char \in Chars /\ Bad \in Chars
  BY StderrAssumption DEF Text
<1>2. <<>> \in Text /\ \A c \in Chars : <<c>> \in Text
  BY DEF Text
<1>3. SpeltAt(w, i) = <<Char>> \/ SpeltAt(w, i) = <<>> \/ SpeltAt(w, i) = <<Bad>> \/ SpeltAt(w, i) = <<w[i]>>
  BY Zenon DEF SpeltAt
<1> QED BY <1>1, <1>2, <1>3

(* Bytes spell a text, byte by byte. *)
LEMMA SpeltType ==
  ASSUME NEW w \in Text
  PROVE  /\ Spelling1(w) \in Seq(Text) /\ Len(Spelling1(w)) = Len(w)
         /\ Spelt(w) = FlattenSeq(Spelling1(w)) /\ Spelt(w) \in Text
<1>1. DOMAIN w = 1..Len(w) /\ Len(w) \in Nat
  BY DEF Text
<1>2. Spelling1(w) = [i \in 1..Len(w) |-> SpeltAt(w, i)]
  BY <1>1 DEF Spelling1
<1>3. Spelling1(w) \in [1..Len(w) -> Text]
  BY <1>2, SpeltAtType
<1>4. Spelling1(w) \in Seq(Text) /\ Len(Spelling1(w)) = Len(w)
  BY <1>1, <1>3
<1>5. Spelt(w) = FlattenSeq(Spelling1(w))
  BY DEF Spelt, Spelling1
<1>6. FlattenSeq(Spelling1(w)) \in Text
  BY <1>4, FlattenType DEF Text
<1> QED BY <1>4, <1>5, <1>6

(* No byte spells nothing. *)
LEMMA SpeltNone == Spelt(<<>>) = <<>>
<1>1. [i \in DOMAIN <<>> |-> SpeltAt(<<>>, i)] = <<>>
  OBVIOUS
<1>2. FlattenSeq(<<>>) = <<>>
  BY DEF FlattenSeq
<1> QED BY <1>1, <1>2 DEF Spelt

(* A byte that completes no character is spelt alone. *)
LEMMA SpeltAppend ==
  ASSUME NEW w \in Text, NEW x \in Chars, ~(Dangling(w) /\ x = "cont")
  PROVE  Spelt(Append(w, x)) = Spelt(w) \o Alone(x)
<1> DEFINE v == Append(w, x)
           n == Len(w)
<1>1. /\ v \in Text /\ Len(v) = n + 1 /\ v[n + 1] = x /\ n \in Nat
      /\ \A i \in 1..n : v[i] = w[i]
  BY DEF Text
<1>2. ASSUME NEW i \in 1..n PROVE SpeltAt(v, i) = SpeltAt(w, i)
  <2>1. WholeAt(v, i) <=> WholeAt(w, i)
    <3>1. CASE i < n
      BY <1>1, <3>1 DEF WholeAt
    <3>2. CASE i = n
      <4>1. w # <<>>
        BY <3>2
      <4>2. ~(w[n] = "lead" /\ x = "cont")
        BY <4>1 DEF Dangling
      <4> QED BY <1>1, <3>2, <4>2 DEF WholeAt
    <3> QED BY <1>1, <3>1, <3>2
  <2>2. i > 1 => (WholeAt(v, i - 1) <=> WholeAt(w, i - 1))
    BY <1>1 DEF WholeAt
  <2>3. v[i] = w[i]
    BY <1>1
  <2> HIDE DEF v
  <2> QED BY <2>1, <2>2, <2>3, Zenon DEF SpeltAt
<1>3. SpeltAt(v, n + 1) = Alone(x)
  <2>1. ~WholeAt(v, n + 1)
    BY <1>1 DEF WholeAt
  <2>2. n + 1 > 1 => ~WholeAt(v, (n + 1) - 1)
    <3> SUFFICES ASSUME n + 1 > 1, WholeAt(v, n) PROVE FALSE
      BY <1>1
    <3>1. v[n] = "lead" /\ v[n + 1] = "cont" /\ n \in 1..n
      BY <1>1 DEF WholeAt
    <3>2. w[n] = "lead" /\ x = "cont"
      BY <1>1, <3>1
    <3>3. w # <<>>
      BY <3>1
    <3> QED BY <3>2, <3>3 DEF Dangling
  <2> QED BY <1>1, <2>1, <2>2 DEF SpeltAt, Alone
<1>4. Spelling1(v) = Append(Spelling1(w), SpeltAt(v, n + 1))
  <2>1. DOMAIN v = 1..n + 1 /\ DOMAIN w = 1..n
    BY <1>1 DEF Text
  <2>2. Spelling1(v) = [i \in 1..n + 1 |-> SpeltAt(v, i)] /\ Spelling1(w) = [i \in 1..n |-> SpeltAt(w, i)]
    <3> HIDE DEF v, n
    <3> QED BY <2>1 DEF Spelling1
  <2> HIDE DEF v, n
  <2>3. Append(Spelling1(w), SpeltAt(v, n + 1)) =
          [i \in 1..n + 1 |-> IF i = n + 1 THEN SpeltAt(v, n + 1) ELSE SpeltAt(w, i)]
    BY <1>1, <2>2
  <2>4. \A i \in 1..n + 1 : SpeltAt(v, i) = IF i = n + 1 THEN SpeltAt(v, n + 1) ELSE SpeltAt(w, i)
    BY <1>1, <1>2
  <2> QED BY <2>2, <2>3, <2>4
<1>5. SpeltAt(v, n + 1) \in Text
  <2>1. n + 1 \in 1..Len(v)
    BY <1>1
  <2> HIDE DEF v
  <2> QED BY <1>1, <2>1, SpeltAtType
<1> HIDE DEF v, n
<1>6. FlattenSeq(Append(Spelling1(w), SpeltAt(v, n + 1))) = FlattenSeq(Spelling1(w)) \o SpeltAt(v, n + 1)
  BY <1>5, SpeltType, FlattenAppend DEF Text
<1>7. Spelt(v) = Spelt(w) \o Alone(x)
  BY <1>1, <1>3, <1>4, <1>6, SpeltType
<1> QED BY <1>7 DEF v

(* The second byte of a character: what was broken is whole.               *)
LEMMA SpeltWhole ==
  ASSUME NEW c \in Text
  PROVE  Spelt(Append(Append(c, "lead"), "cont")) = Append(Spelt(c), Char)
<1> DEFINE w == Append(c, "lead")
           v == Append(w, "cont")
           n == Len(c)
<1>0. "lead" \in Chars /\ "cont" \in Chars /\ Char \in Chars /\ Bad \in Chars
  BY StderrAssumption
<1>1. /\ w \in Text /\ Len(w) = n + 1 /\ w[n + 1] = "lead" /\ n \in Nat
      /\ \A i \in 1..n : w[i] = c[i]
  BY <1>0 DEF Text
<1>2. /\ v \in Text /\ Len(v) = n + 2 /\ v[n + 1] = "lead" /\ v[n + 2] = "cont"
      /\ \A i \in 1..n : v[i] = c[i]
  <2> HIDE DEF w
  <2> QED BY <1>0, <1>1 DEF Text
<1> HIDE DEF w, v
<1>3. ASSUME NEW i \in 1..n PROVE SpeltAt(v, i) = SpeltAt(c, i)
  <2>1. WholeAt(v, i) <=> WholeAt(c, i)
    <3>1. CASE i < n
      BY <1>2, <3>1 DEF WholeAt
    <3>2. CASE i = n
      BY <1>2, <3>2 DEF WholeAt
    <3> QED BY <1>1, <3>1, <3>2
  <2>2. i > 1 => (WholeAt(v, i - 1) <=> WholeAt(c, i - 1))
    BY <1>1, <1>2 DEF WholeAt
  <2>3. v[i] = c[i]
    BY <1>2
  <2> QED BY <2>1, <2>2, <2>3, Zenon DEF SpeltAt
<1>4. SpeltAt(v, n + 1) = <<Char>> /\ SpeltAt(v, n + 2) = <<>>
  <2>1. WholeAt(v, n + 1) /\ ~WholeAt(v, n + 2) /\ n + 2 > 1 /\ (n + 2) - 1 = n + 1
    BY <1>1, <1>2 DEF WholeAt
  <2> QED BY <2>1 DEF SpeltAt
<1> DEFINE one == Append(Spelling1(c), <<Char>>)
<1>5. Spelling1(v) = Append(one, <<>>)
  <2>1. DOMAIN v = 1..n + 2 /\ DOMAIN c = 1..n
    BY <1>1, <1>2 DEF Text
  <2>2. Spelling1(v) = [i \in 1..n + 2 |-> SpeltAt(v, i)] /\ Spelling1(c) = [i \in 1..n |-> SpeltAt(c, i)]
    <3> HIDE DEF n
    <3> QED BY <2>1 DEF Spelling1
  <2> HIDE DEF n
  <2>3. Append(Append(Spelling1(c), <<Char>>), <<>>) =
          [i \in 1..n + 2 |-> IF i = n + 2 THEN <<>> ELSE IF i = n + 1 THEN <<Char>> ELSE SpeltAt(c, i)]
    BY <1>1, <2>2
  <2>4. \A i \in 1..n + 2 :
          SpeltAt(v, i) = IF i = n + 2 THEN <<>> ELSE IF i = n + 1 THEN <<Char>> ELSE SpeltAt(c, i)
    BY <1>1, <1>3, <1>4
  <2> QED BY <2>2, <2>3, <2>4
<1>6. <<Char>> \in Text /\ <<>> \in Text
  BY <1>0 DEF Text
<1>7. one \in Seq(Text)
  BY <1>6, SpeltType
<1>8. FlattenSeq(one) = Spelt(c) \o <<Char>>
  BY <1>6, SpeltType, FlattenAppend DEF Text
<1> HIDE DEF one
<1>9. FlattenSeq(Append(one, <<>>)) = FlattenSeq(one) \o <<>>
  BY <1>6, <1>7, FlattenAppend DEF Text
<1>10. Spelt(v) = (Spelt(c) \o <<Char>>) \o <<>>
  BY <1>2, <1>5, <1>8, <1>9, SpeltType
<1>11. Spelt(c) \in Seq(Chars)
  BY SpeltType DEF Text
<1>12. (Spelt(c) \o <<Char>>) \o <<>> = Append(Spelt(c), Char)
  BY <1>0, <1>11
<1> QED BY <1>10, <1>12 DEF v, w

-----------------------------------------------------------------------------
(* What a decoder emits, and which lines the bytes have *)

(* What an incomplete character spells when nothing completes it.          *)
Pending(h) == IF h = <<>> THEN <<>> ELSE <<Bad>>

(* What a decoder that holds h adds to its text at the next byte ...       *)
Emitted(h, x) ==
  IF x = "cont" /\ h # <<>> THEN <<Char>>
  ELSE IF x = "lead" THEN Pending(h) ELSE Pending(h) \o Alone(x)

(* ... and holds after it. *)
Held(x) == IF x = "lead" THEN <<"lead">> ELSE <<>>

(* That is what a decoder does, whatever it has decoded before. *)
LEMMA DecodedEmits ==
  ASSUME NEW d \in Decoding, NEW x \in Chars
  PROVE  Decoded(d, x) = [text |-> d.text \o Emitted(d.held, x), held |-> Held(x)]
<1>1. d.text \in Seq(Chars) /\ Char \in Chars /\ Bad \in Chars
  BY StderrAssumption DEF Decoding, Text
<1>2. ASSUME NEW p \in Seq(Chars), NEW a \in Chars, NEW b \in Chars
      PROVE  /\ Append(p, a) = p \o <<a>> /\ p \o <<>> = p
             /\ Append(Append(p, a), b) = p \o (<<a>> \o <<b>>)
             /\ Append(p, b) = p \o (<<>> \o <<b>>)
  <2>1. \A q \in Seq(Chars), c \in Chars : Append(q, c) = q \o <<c>> /\ q \o <<>> = q
    OBVIOUS
  <2>2. p \o <<a>> \in Seq(Chars) /\ <<a>> \in Seq(Chars) /\ <<b>> \in Seq(Chars)
    OBVIOUS
  <2>3. p \o (<<a>> \o <<b>>) = (p \o <<a>>) \o <<b>>
    BY <2>2
  <2>4. <<>> \o <<b>> = <<b>>
    BY <2>2
  <2> QED BY <2>1, <2>2, <2>3, <2>4
<1>3. /\ \A a \in Chars : Append(d.text, a) = d.text \o <<a>> /\ Append(d.text, a) = d.text \o (<<>> \o <<a>>)
      /\ \A a, b \in Chars : Append(Append(d.text, a), b) = d.text \o (<<a>> \o <<b>>)
      /\ d.text \o <<>> = d.text
  BY <1>1, <1>2
<1>4. CASE x = "cont" /\ d.held # <<>>
  BY <1>1, <1>3, <1>4 DEF Decoded, Emitted, Held
<1>5. CASE x = "cont" /\ d.held = <<>>
  BY <1>1, <1>3, <1>5 DEF Decoded, Emitted, Held, Pending, Alone
<1>6. CASE x = "lead"
  BY <1>1, <1>3, <1>6 DEF Decoded, Emitted, Held, Pending, Alone
<1>7. CASE x \notin {"lead", "cont"}
  BY <1>1, <1>3, <1>7 DEF Decoded, Emitted, Held, Pending, Alone
<1> QED BY <1>4, <1>5, <1>6, <1>7

(* rest and h are what a reader has of the line w, whose bytes it was given. *)
Reads(rest, h, w) ==
  /\ h = IF Dangling(w) THEN <<"lead">> ELSE <<>>
  /\ rest \o Pending(h) = Spelt(w)

(* Nothing is read of an empty line. *)
LEMMA ReadsNone == Reads(<<>>, <<>>, <<>>)
BY SpeltNone DEF Reads, Dangling, Pending

(* A byte more of the line. *)
LEMMA ReadsMore ==
  ASSUME NEW rest \in Text, NEW h \in Text, NEW w \in Text, Reads(rest, h, w), NEW x \in Chars
  PROVE  Reads(rest \o Emitted(h, x), Held(x), Append(w, x))
<1> DEFINE v == Append(w, x)
           n == Len(w)
<1>0. "lead" \in Chars /\ Char \in Chars /\ Bad \in Chars
  BY StderrAssumption
<1>1. /\ v \in Text /\ Len(v) = n + 1 /\ v[n + 1] = x /\ n \in Nat /\ v # <<>>
      /\ rest \in Seq(Chars) /\ w \in Seq(Chars)
  BY DEF Text
<1>2. Dangling(v) <=> x = "lead"
  <2> HIDE DEF v
  <2> QED BY <1>1 DEF Dangling
<1>3. Held(x) = IF Dangling(v) THEN <<"lead">> ELSE <<>>
  BY <1>2 DEF Held
<1>4. CASE Dangling(w) /\ x = "cont"
  <2> DEFINE c == SubSeq(w, 1, n - 1)
  <2>1. n > 0 /\ w[n] = "lead"
    BY <1>1, <1>4 DEF Dangling
  <2>2. c \in Seq(Chars) /\ w = Append(c, "lead")
    BY <1>0, <1>1, <2>1
  <2> HIDE DEF c
  <2>3. Spelt(v) = Append(Spelt(c), Char)
    BY <1>4, <2>2, SpeltWhole DEF Text
  <2>4. ~(Dangling(c) /\ "lead" = "cont")
    OBVIOUS
  <2>5. Spelt(w) = Spelt(c) \o Alone("lead")
    BY <1>0, <2>2, <2>4, SpeltAppend DEF Text
  <2>6. h = <<"lead">> /\ rest \o Pending(h) = Spelt(w)
    BY <1>4 DEF Reads
  <2>7. rest \o <<Bad>> = Spelt(c) \o <<Bad>>
    BY <2>5, <2>6 DEF Pending, Alone
  <2>8. Spelt(c) \in Seq(Chars)
    BY <2>2, SpeltType DEF Text
  <2>9. \A p, q \in Seq(Chars), a \in Chars : p \o <<a>> = q \o <<a>> => p = q
    <3> SUFFICES ASSUME NEW p \in Seq(Chars), NEW q \in Seq(Chars), NEW a \in Chars, p \o <<a>> = q \o <<a>>
                 PROVE p = q
      OBVIOUS
    <3>1. Len(p \o <<a>>) = Len(p) + 1 /\ Len(q \o <<a>>) = Len(q) + 1
      OBVIOUS
    <3>2. Len(p) = Len(q)
      BY <3>1
    <3>3. p = SubSeq(p \o <<a>>, 1, Len(p)) /\ q = SubSeq(q \o <<a>>, 1, Len(q))
      OBVIOUS
    <3> QED BY <3>2, <3>3
  <2>10. rest = Spelt(c)
    BY <1>0, <1>1, <2>7, <2>8, <2>9
  <2>11. Emitted(h, x) = <<Char>> /\ Held(x) = <<>>
    BY <1>4, <2>6 DEF Emitted, Held
  <2>12. Pending(Held(x)) = <<>>
    BY <2>11 DEF Pending
  <2>13. (rest \o <<Char>>) \o <<>> = Append(rest, Char)
    BY <1>0, <1>1
  <2>14. (rest \o Emitted(h, x)) \o Pending(Held(x)) = Spelt(v)
    BY <2>3, <2>10, <2>11, <2>12, <2>13
  <2> QED BY <1>3, <2>14 DEF Reads
<1>5. CASE ~(Dangling(w) /\ x = "cont")
  <2>1. Spelt(v) = Spelt(w) \o Alone(x)
    BY <1>5, SpeltAppend
  <2>2. Spelt(w) = rest \o Pending(h)
    BY DEF Reads
  <2>3. Pending(h) \in Seq(Chars) /\ Alone(x) \in Seq(Chars)
    BY <1>0 DEF Pending, Alone
  <2>4. ~(x = "cont" /\ h # <<>>)
    BY <1>5 DEF Reads
  <2>5. CASE x = "lead"
    <3>1. Emitted(h, x) = Pending(h) /\ Pending(Held(x)) = Alone(x)
      BY <2>5 DEF Emitted, Pending, Held, Alone
    <3>2. (rest \o Emitted(h, x)) \o Pending(Held(x)) = Spelt(v)
      BY <2>1, <2>2, <3>1
    <3> QED BY <1>3, <3>2 DEF Reads
  <2>6. CASE x # "lead"
    <3>1. Emitted(h, x) = Pending(h) \o Alone(x) /\ Pending(Held(x)) = <<>>
      BY <2>4, <2>6 DEF Emitted, Held, Pending
    <3>2. (rest \o (Pending(h) \o Alone(x))) \o <<>> = (rest \o Pending(h)) \o Alone(x)
      BY <1>1, <2>3
    <3>3. (rest \o Emitted(h, x)) \o Pending(Held(x)) = Spelt(v)
      BY <2>1, <2>2, <3>1, <3>2
    <3> QED BY <1>3, <3>3 DEF Reads
  <2> QED BY <2>5, <2>6
<1> QED BY <1>4, <1>5

(* The line that starts at s has begun and has not ended. *)
Open(b, s) ==
  /\ s \in 1..Len(b) + 1 /\ (s = 1 \/ b[s - 1] = NL)
  /\ \A i \in s..Len(b) : b[i] # NL

(* The line that the last newline left open. *)
Current(b, s) == SubSeq(b, s, Len(b))

(* Where the newlines are. *)
LEMMA NewlinesAre ==
  ASSUME NEW b \in Text
  PROVE  \A i : i \in Newlines(b) <=> i \in 1..Len(b) /\ b[i] = NL
BY DEF Newlines, Text

(* Where the lines start, and which of them are complete. *)
LEMMA StartsAre ==
  ASSUME NEW b \in Text
  PROVE  /\ \A i : i \in LineStarts(b) <=> i = 1 \/ (i \in 2..Len(b) + 1 /\ b[i - 1] = NL)
         /\ \A i : i \in Complete(b) <=> i \in LineStarts(b) /\ \E j \in i..Len(b) : b[j] = NL
         /\ LineStarts(b) \subseteq 1..Len(b) + 1 /\ Complete(b) \subseteq 1..Len(b)
<1>0. Len(b) \in Nat
  BY DEF Text
<1>1. ASSUME NEW i PROVE i \in LineStarts(b) <=> i = 1 \/ (i \in 2..Len(b) + 1 /\ b[i - 1] = NL)
  <2>1. i \in LineStarts(b) <=> i = 1 \/ \E j \in Newlines(b) : i = j + 1
    BY DEF LineStarts
  <2>2. ASSUME NEW j \in Newlines(b), i = j + 1 PROVE i \in 2..Len(b) + 1 /\ b[i - 1] = NL
    <3>1. j \in 1..Len(b) /\ b[j] = NL
      BY NewlinesAre
    <3>2. i - 1 = j /\ i \in 2..Len(b) + 1
      BY <1>0, <2>2, <3>1
    <3> QED BY <3>1, <3>2
  <2>3. ASSUME i \in 2..Len(b) + 1, b[i - 1] = NL PROVE \E j \in Newlines(b) : i = j + 1
    <3>1. i - 1 \in 1..Len(b) /\ i = (i - 1) + 1
      BY <1>0, <2>3
    <3>2. i - 1 \in Newlines(b)
      BY <2>3, <3>1, NewlinesAre
    <3> QED BY <3>1, <3>2
  <2> QED BY <2>1, <2>2, <2>3
<1>2. LineStarts(b) \subseteq 1..Len(b) + 1
  BY <1>0, <1>1
<1>3. ASSUME NEW i PROVE i \in Complete(b) <=> i \in LineStarts(b) /\ \E j \in i..Len(b) : b[j] = NL
  <2>1. i \in Complete(b) <=> i \in LineStarts(b) /\ \E j \in Newlines(b) : j >= i
    BY DEF Complete
  <2>2. ASSUME i \in LineStarts(b)
        PROVE  (\E j \in Newlines(b) : j >= i) <=> \E j \in i..Len(b) : b[j] = NL
    <3>1. i \in Nat /\ i >= 1
      BY <1>0, <1>2, <2>2
    <3>2. ASSUME NEW j \in Newlines(b), j >= i PROVE j \in i..Len(b) /\ b[j] = NL
      <4>1. j \in 1..Len(b) /\ b[j] = NL
        BY NewlinesAre
      <4> QED BY <3>1, <3>2, <4>1
    <3>3. ASSUME NEW j \in i..Len(b), b[j] = NL PROVE j \in Newlines(b) /\ j >= i
      <4>1. j \in 1..Len(b) /\ j >= i
        BY <1>0, <3>1
      <4> QED BY <3>3, <4>1, NewlinesAre
    <3> QED BY <3>2, <3>3
  <2> QED BY <2>1, <2>2
<1>4. ASSUME NEW i \in Complete(b) PROVE i \in 1..Len(b)
  <2>1. i \in 1..Len(b) + 1
    BY <1>2, <1>3
  <2>2. PICK j \in i..Len(b) : TRUE
    BY <1>3
  <2> QED BY <1>0, <2>1, <2>2
<1> QED BY <1>1, <1>2, <1>3, <1>4

(* A line ends before the first newline from its start.                   *)
LEMMA LineEnds ==
  ASSUME NEW b \in Text, NEW i \in 1..Len(b), NEW j \in i..Len(b), b[j] = NL,
         \A k \in i..j - 1 : b[k] # NL
  PROVE  LineFrom(b, i) = SubSeq(b, i, j - 1)
<1> DEFINE ends == {k \in Newlines(b) : k >= i}
           First == CHOOSE k \in ends : \A q \in ends : k <= q
<1>1. Len(b) \in Nat /\ j \in 1..Len(b) /\ j >= i
  BY DEF Text
<1>2. j \in ends
  BY <1>1, NewlinesAre
<1>3. ASSUME NEW q \in ends PROVE j <= q
  <2>1. q \in 1..Len(b) /\ b[q] = NL /\ q >= i
    BY NewlinesAre
  <2> QED BY <1>1, <2>1
<1> HIDE DEF ends
<1>4. First \in ends /\ \A q \in ends : First <= q
  BY <1>2, <1>3
<1>5. First \in Nat
  BY <1>4, NewlinesAre DEF ends
<1>6. First = j
  <2>1. First <= j /\ j <= First
    BY <1>2, <1>3, <1>4
  <2> HIDE DEF First
  <2> QED BY <1>1, <1>5, <2>1
<1>7. ends # {}
  BY <1>2
<1>8. LineFrom(b, i) = SubSeq(b, i, First - 1)
  BY <1>7 DEF LineFrom, ends
<1> HIDE DEF First
<1> QED BY <1>6, <1>8

(* ... and each complete one has such a newline. *)
LEMMA CompleteEnds ==
  ASSUME NEW b \in Text, NEW i \in Complete(b)
  PROVE  \E j \in i..Len(b) : b[j] = NL /\ \A k \in i..j - 1 : b[k] # NL
<1> DEFINE S == {j \in i..Len(b) : b[j] = NL}
<1>1. i \in 1..Len(b) /\ Len(b) \in Nat
  BY StartsAre DEF Text
<1>2. S \subseteq Nat
  BY <1>1
<1>3. S # {}
  BY StartsAre
<1>4. PICK j \in S : \A k \in S : j <= k
  <2> HIDE DEF S
  <2> QED BY <1>2, <1>3, Least
<1>5. ASSUME NEW k \in i..j - 1 PROVE b[k] # NL
  <2>1. j \in i..Len(b) /\ k \in i..Len(b) /\ ~(j <= k)
    BY <1>1
  <2> QED BY <1>4, <2>1
<1> QED BY <1>4, <1>5

(* The open line is the one that starts where it does. *)
LEMMA CurrentIs ==
  ASSUME NEW b \in Text, NEW s, Open(b, s)
  PROVE  LineFrom(b, s) = Current(b, s) /\ Current(b, s) \in Text
<1>1. Len(b) \in Nat /\ s \in 1..Len(b) + 1
  BY DEF Text, Open
<1>2. {j \in Newlines(b) : j >= s} = {}
  <2>1. ASSUME NEW j \in Newlines(b), j >= s PROVE FALSE
    <3>1. j \in 1..Len(b) /\ b[j] = NL
      BY NewlinesAre
    <3>2. j \in s..Len(b)
      BY <1>1, <2>1, <3>1
    <3> QED BY <3>1, <3>2 DEF Open
  <2> QED BY <2>1
<1>3. LineFrom(b, s) = SubSeq(b, s, Len(b))
  BY <1>2 DEF LineFrom
<1>4. SubSeq(b, s, Len(b)) \in Seq(Chars)
  BY <1>1 DEF Text
<1> QED BY <1>3, <1>4 DEF Current, Text

(* All lines are complete but the one that is open. *)
LEMMA OnlyOpen ==
  ASSUME NEW b \in Text, NEW s, Open(b, s)
  PROVE  /\ \A i : i \in LineStarts(b) <=> i \in Complete(b) \/ i = s
         /\ s \notin Complete(b) /\ \A i \in Complete(b) : i < s
<1>1. Len(b) \in Nat /\ s \in 1..Len(b) + 1
  BY DEF Text, Open
<1>2. s \in LineStarts(b)
  <2>1. s = 1 \/ (s \in 2..Len(b) + 1 /\ b[s - 1] = NL)
    BY <1>1 DEF Open
  <2> QED BY <2>1, StartsAre
<1>3. ASSUME NEW i \in Complete(b) PROVE i \in LineStarts(b) /\ i < s
  <2>1. i \in LineStarts(b) /\ i \in 1..Len(b)
    BY StartsAre
  <2>2. PICK j \in i..Len(b) : b[j] = NL
    BY StartsAre
  <2>3. ~(j \in s..Len(b))
    BY <2>2 DEF Open
  <2> QED BY <1>1, <2>1, <2>2, <2>3
<1>4. s \notin Complete(b)
  BY <1>1, <1>3
<1>5. ASSUME NEW i \in LineStarts(b), i # s PROVE i \in Complete(b)
  <2>1. i \in 1..Len(b) + 1
    BY StartsAre
  <2>2. CASE i < s
    <3>1. b[s - 1] = NL /\ s - 1 \in i..Len(b)
      BY <1>1, <2>1, <2>2 DEF Open
    <3> QED BY <3>1, StartsAre
  <2>3. CASE i > s
    <3>1. i \in 2..Len(b) + 1 /\ i - 1 \in s..Len(b)
      BY <1>1, <2>1, <2>3
    <3>2. b[i - 1] = NL
      BY <1>1, <2>1, <2>3, StartsAre
    <3> QED BY <3>1, <3>2 DEF Open
  <2> QED BY <1>1, <1>5, <2>1, <2>2, <2>3
<1>6. ASSUME NEW i PROVE i \in LineStarts(b) <=> i \in Complete(b) \/ i = s
  BY <1>2, <1>3, <1>5
<1> QED BY <1>3, <1>4, <1>6

(* What is heard of the lines that start in C, place by place. *)
Hearing(b, C, onEvent) == [i \in 1..Len(b) + 1 |-> HeardAt(b, C, i, onEvent)]

(* A line is a text. *)
LEMMA LineFromType ==
  ASSUME NEW b \in Text, NEW i \in Complete(b)
  PROVE  LineFrom(b, i) \in Text
<1>1. i \in 1..Len(b) /\ Len(b) \in Nat
  BY StartsAre DEF Text
<1>2. PICK j \in i..Len(b) : b[j] = NL /\ \A k \in i..j - 1 : b[k] # NL
  BY CompleteEnds
<1>3. LineFrom(b, i) = SubSeq(b, i, j - 1)
  BY <1>1, <1>2, LineEnds
<1>4. SubSeq(b, i, j - 1) \in Seq(Chars)
  BY <1>1 DEF Text
<1> QED BY <1>3, <1>4 DEF Text

(* It is heard as events. *)
LEMMA HearingType ==
  ASSUME NEW onEvent, NEW b \in Text, NEW C, \A i \in C : LineFrom(b, i) \in Text
  PROVE  /\ Hearing(b, C, onEvent) \in Seq(Seq(Events))
         /\ Len(Hearing(b, C, onEvent)) = Len(b) + 1
         /\ Heard(b, C, onEvent) = FlattenSeq(Hearing(b, C, onEvent))
         /\ Heard(b, C, onEvent) \in Seq(Events)
<1>1. ASSUME NEW i \in 1..Len(b) + 1 PROVE HeardAt(b, C, i, onEvent) \in Seq(Events)
  <2>1. CASE i \in C
    <3>1. Spelt(LineFrom(b, i)) \in Text
      BY <2>1, SpeltType
    <3>2. handleStderrLine(Spelt(LineFrom(b, i)), onEvent) \in Seq(Events)
      BY <3>1, HandledType
    <3> QED BY <2>1, <3>2 DEF HeardAt
  <2>2. CASE i \notin C
    BY <2>2 DEF HeardAt
  <2> QED BY <2>1, <2>2
<1>2. Hearing(b, C, onEvent) \in [1..Len(b) + 1 -> Seq(Events)]
  BY <1>1 DEF Hearing
<1>3. Len(b) + 1 \in Nat
  BY DEF Text
<1>4. Hearing(b, C, onEvent) \in Seq(Seq(Events)) /\ Len(Hearing(b, C, onEvent)) = Len(b) + 1
  <2> DEFINE m == Len(b) + 1
             h == Hearing(b, C, onEvent)
  <2>1. h \in [1..m -> Seq(Events)] /\ m \in Nat
    BY <1>2, <1>3
  <2> HIDE DEF m, h
  <2>2. h \in Seq(Seq(Events)) /\ Len(h) = m
    BY <2>1
  <2> QED BY <2>2 DEF h, m
<1>5. Heard(b, C, onEvent) = FlattenSeq(Hearing(b, C, onEvent))
  BY DEF Heard, Hearing
<1>6. FlattenSeq(Hearing(b, C, onEvent)) \in Seq(Events)
  BY <1>4, FlattenType
<1> QED BY <1>4, <1>5, <1>6

(* A byte more changes nothing of the lines that were complete. *)
LEMMA CompleteStays ==
  ASSUME NEW b \in Text, NEW x \in Chars, NEW i \in Complete(b)
  PROVE  LineFrom(Append(b, x), i) = LineFrom(b, i)
<1> DEFINE v == Append(b, x)
           n == Len(b)
<1>1. /\ v \in Text /\ Len(v) = n + 1 /\ v[n + 1] = x /\ n \in Nat
      /\ \A k \in 1..n : v[k] = b[k]
  BY DEF Text
<1>2. i \in 1..n
  BY StartsAre
<1>3. PICK j \in i..n : b[j] = NL /\ \A k \in i..j - 1 : b[k] # NL
  BY CompleteEnds
<1>4. LineFrom(b, i) = SubSeq(b, i, j - 1)
  BY <1>2, <1>3, LineEnds
<1> HIDE DEF v
<1>5. i \in 1..Len(v) /\ j \in i..Len(v) /\ v[j] = NL
  BY <1>1, <1>2, <1>3
<1>6. ASSUME NEW k \in i..j - 1 PROVE v[k] # NL
  BY <1>1, <1>2, <1>3
<1>7. LineFrom(v, i) = SubSeq(v, i, j - 1)
  BY <1>1, <1>5, <1>6, LineEnds
<1>8. SubSeq(v, i, j - 1) = SubSeq(b, i, j - 1)
  BY <1>1, <1>2 DEF Text
<1> QED BY <1>4, <1>7, <1>8 DEF v

(* One line more is heard when the open one is done. *)
LEMMA HeardOneMore ==
  ASSUME NEW onEvent, NEW b \in Text, NEW s, Open(b, s), NEW v \in Text, NEW C,
         Len(v) >= Len(b), \A i : i \in C <=> i \in Complete(b) \/ i = s,
         \A i \in Complete(b) : LineFrom(v, i) = LineFrom(b, i),
         LineFrom(v, s) = Current(b, s)
  PROVE  Heard(v, C, onEvent) =
           Heard(b, Complete(b), onEvent) \o handleStderrLine(Spelt(Current(b, s)), onEvent)
<1> DEFINE S == Hearing(b, Complete(b), onEvent)
           T == Hearing(v, C, onEvent)
<1>1. /\ S \in Seq(Seq(Events)) /\ Len(S) = Len(b) + 1
      /\ Heard(b, Complete(b), onEvent) = FlattenSeq(S)
  BY LineFromType, HearingType
<1>2. \A i \in C : LineFrom(v, i) \in Text
  BY LineFromType, CurrentIs
<1>3. /\ T \in Seq(Seq(Events)) /\ Len(T) = Len(v) + 1
      /\ Heard(v, C, onEvent) = FlattenSeq(T)
  BY <1>2, HearingType
<1>4. Len(b) \in Nat /\ Len(v) \in Nat /\ s \in 1..Len(b) + 1
  BY DEF Open, Text
<1>5. \A i \in 1..Len(b) + 1 : S[i] = HeardAt(b, Complete(b), i, onEvent)
  BY DEF Hearing
<1>6. \A i \in 1..Len(v) + 1 : T[i] = HeardAt(v, C, i, onEvent)
  BY DEF Hearing
<1>7. s \notin Complete(b) /\ \A i \in Complete(b) : i < s
  BY OnlyOpen
<1> HIDE DEF S, T
<1>8. ASSUME NEW i \in 1..s - 1 PROVE S[i] = T[i]
  <2>1. i \in 1..Len(b) + 1 /\ i \in 1..Len(v) + 1 /\ i # s
    BY <1>4
  <2>2. i \in C <=> i \in Complete(b)
    BY <2>1
  <2>3. HeardAt(v, C, i, onEvent) = HeardAt(b, Complete(b), i, onEvent)
    BY <2>2 DEF HeardAt
  <2> QED BY <1>5, <1>6, <2>1, <2>3
<1>9. ASSUME NEW i \in s..Len(S) PROVE S[i] = <<>>
  <2>1. i \in 1..Len(b) + 1 /\ ~(i < s)
    BY <1>1, <1>4
  <2>2. i \notin Complete(b)
    BY <1>7, <2>1
  <2> QED BY <1>5, <2>1, <2>2 DEF HeardAt
<1>10. ASSUME NEW i \in s + 1..Len(T) PROVE T[i] = <<>>
  <2>1. i \in 1..Len(v) + 1 /\ ~(i < s) /\ i # s
    BY <1>3, <1>4
  <2>2. i \notin C
    BY <1>7, <2>1
  <2> QED BY <1>6, <2>1, <2>2 DEF HeardAt
<1>11. s \in 1..Len(S) /\ s <= Len(T) /\ s \in 1..Len(v) + 1
  BY <1>1, <1>3, <1>4
<1>12. T[s] = handleStderrLine(Spelt(Current(b, s)), onEvent)
  <2>1. T[s] = HeardAt(v, C, s, onEvent)
    BY <1>6, <1>11
  <2> QED BY <2>1 DEF HeardAt
<1>13. FlattenSeq(T) = FlattenSeq(S) \o T[s]
  <2>1. /\ s \in 1..Len(S) /\ s <= Len(T)
        /\ \A i \in 1..s - 1 : S[i] = T[i]
        /\ \A i \in s..Len(S) : S[i] = <<>>
        /\ \A i \in s + 1..Len(T) : T[i] = <<>>
    BY <1>8, <1>9, <1>10, <1>11
  <2> QED BY <1>1, <1>3, <2>1, FlattenWith
<1> QED BY <1>1, <1>3, <1>12, <1>13

(* A byte that ends no line. *)
LEMMA HeardSame ==
  ASSUME NEW onEvent, NEW b \in Text, NEW s, Open(b, s), NEW x \in Chars, x # NL
  PROVE  /\ Open(Append(b, x), s) /\ Current(Append(b, x), s) = Append(Current(b, s), x)
         /\ Heard(Append(b, x), Complete(Append(b, x)), onEvent) = Heard(b, Complete(b), onEvent)
<1> DEFINE v == Append(b, x)
           n == Len(b)
<1>1. /\ v \in Text /\ Len(v) = n + 1 /\ v[n + 1] = x /\ n \in Nat
      /\ \A k \in 1..n : v[k] = b[k]
  BY DEF Text
<1>2. s \in 1..n + 1
  BY DEF Open
<1>3. Current(v, s) = Append(Current(b, s), x)
  BY <1>1, <1>2 DEF Current, Text
<1> HIDE DEF v
<1>4. Open(v, s)
  <2>1. s \in 1..Len(v) + 1
    BY <1>1, <1>2
  <2>2. s = 1 \/ v[s - 1] = NL
    <3>1. CASE s # 1
      <4>1. s - 1 \in 1..n /\ b[s - 1] = NL
        BY <1>1, <1>2, <3>1 DEF Open
      <4> QED BY <1>1, <4>1
    <3> QED BY <3>1
  <2>3. ASSUME NEW i \in s..Len(v) PROVE v[i] # NL
    <3>1. CASE i = n + 1
      BY <1>1, <3>1
    <3>2. CASE i # n + 1
      <4>1. i \in s..n /\ i \in 1..n
        BY <1>1, <1>2, <3>2
      <4> QED BY <1>1, <4>1 DEF Open
    <3> QED BY <3>1, <3>2
  <2> QED BY <2>1, <2>2, <2>3 DEF Open
<1>5. ASSUME NEW i PROVE i \in LineStarts(v) <=> i \in LineStarts(b)
  <2>1. i = 1 \/ (i \in 2..Len(v) + 1 /\ v[i - 1] = NL) <=> i = 1 \/ (i \in 2..n + 1 /\ b[i - 1] = NL)
    <3>1. ASSUME i \in 2..Len(v) + 1, v[i - 1] = NL PROVE i \in 2..n + 1 /\ b[i - 1] = NL
      <4>1. i - 1 # n + 1
        BY <1>1, <3>1
      <4>2. i - 1 \in 1..n /\ i \in 2..n + 1
        BY <1>1, <3>1, <4>1
      <4> QED BY <1>1, <3>1, <4>2
    <3>2. ASSUME i \in 2..n + 1, b[i - 1] = NL PROVE i \in 2..Len(v) + 1 /\ v[i - 1] = NL
      <4>1. i - 1 \in 1..n /\ i \in 2..Len(v) + 1
        BY <1>1, <3>2
      <4> QED BY <1>1, <3>2, <4>1
    <3> QED BY <3>1, <3>2
  <2> QED BY <1>1, <2>1, StartsAre
<1>6. ASSUME NEW i PROVE i \in Complete(v) <=> i \in Complete(b)
  <2>1. ASSUME i \in LineStarts(b)
        PROVE  (\E j \in i..Len(v) : v[j] = NL) <=> \E j \in i..n : b[j] = NL
    <3>1. i \in 1..n + 1
      BY <2>1, StartsAre
    <3>2. ASSUME NEW j \in i..Len(v), v[j] = NL PROVE j \in i..n /\ b[j] = NL
      <4>1. j # n + 1
        BY <1>1, <3>2
      <4>2. j \in 1..n /\ j \in i..n
        BY <1>1, <3>1, <4>1
      <4> QED BY <1>1, <3>2, <4>2
    <3>3. ASSUME NEW j \in i..n, b[j] = NL PROVE j \in i..Len(v) /\ v[j] = NL
      BY <1>1, <3>1, <3>3
    <3> QED BY <3>2, <3>3
  <2>2. i \in LineStarts(v) <=> i \in LineStarts(b)
    BY <1>5
  <2>3. i \in Complete(v) <=> i \in LineStarts(v) /\ \E j \in i..Len(v) : v[j] = NL
    BY <1>1, StartsAre
  <2>4. i \in Complete(b) <=> i \in LineStarts(b) /\ \E j \in i..n : b[j] = NL
    BY StartsAre
  <2> QED BY <2>1, <2>2, <2>3, <2>4
<1> DEFINE S == Hearing(b, Complete(b), onEvent)
           T == Hearing(v, Complete(v), onEvent)
<1>7. /\ S \in Seq(Seq(Events)) /\ Len(S) = n + 1
      /\ Heard(b, Complete(b), onEvent) = FlattenSeq(S) /\ FlattenSeq(S) \in Seq(Events)
  BY LineFromType, HearingType
<1>8. /\ T \in Seq(Seq(Events)) /\ Len(T) = Len(v) + 1
      /\ Heard(v, Complete(v), onEvent) = FlattenSeq(T)
  BY <1>1, LineFromType, HearingType
<1>9. ASSUME NEW i \in 1..n + 1 PROVE T[i] = S[i]
  <2>1. i \in 1..Len(v) + 1
    BY <1>1
  <2>2. T[i] = HeardAt(v, Complete(v), i, onEvent) /\ S[i] = HeardAt(b, Complete(b), i, onEvent)
    BY <2>1 DEF Hearing
  <2>3. CASE i \in Complete(b)
    <3>1. LineFrom(v, i) = LineFrom(b, i)
      BY <2>3, CompleteStays DEF v
    <3>2. i \in Complete(v)
      BY <1>6, <2>3
    <3> QED BY <2>2, <2>3, <3>1, <3>2 DEF HeardAt
  <2>4. CASE i \notin Complete(b)
    <3>1. i \notin Complete(v)
      BY <1>6, <2>4
    <3> QED BY <2>2, <2>4, <3>1 DEF HeardAt
  <2> QED BY <2>3, <2>4
<1>10. T[n + 2] = <<>>
  <2>1. n + 2 \in 1..Len(v) + 1 /\ ~(n + 2 \in 1..n)
    BY <1>1
  <2>2. n + 2 \notin Complete(b)
    BY <2>1, StartsAre
  <2>3. n + 2 \notin Complete(v)
    BY <1>6, <2>2
  <2> QED BY <2>1, <2>3 DEF Hearing, HeardAt
<1> HIDE DEF S, T
<1>11. T = Append(S, <<>>)
  <2>1. Len(T) = n + 2 /\ <<>> \in Seq(Events)
    BY <1>1, <1>8
  <2>2. /\ Append(S, <<>>) \in Seq(Seq(Events)) /\ Len(Append(S, <<>>)) = n + 2
        /\ \A i \in 1..n + 1 : Append(S, <<>>)[i] = S[i]
        /\ Append(S, <<>>)[n + 2] = <<>>
    BY <1>1, <1>7, <2>1
  <2> DEFINE A == Append(S, <<>>)
  <2> HIDE DEF A
  <2>3. A \in Seq(Seq(Events)) /\ Len(A) = n + 2
    BY <2>2 DEF A
  <2>4. ASSUME NEW i \in 1..n + 2 PROVE T[i] = A[i]
    BY <1>1, <1>9, <1>10, <2>2 DEF A
  <2>5. T \in Seq(Seq(Events)) /\ Len(T) = Len(A) /\ \A i \in 1..Len(T) : T[i] = A[i]
    BY <1>8, <2>1, <2>3, <2>4
  <2>6. T = A
    BY <2>3, <2>5, SeqEqual
  <2> QED BY <2>6 DEF A
<1>12. FlattenSeq(Append(S, <<>>)) = FlattenSeq(S) \o <<>>
  <2>1. <<>> \in Seq(Events)
    OBVIOUS
  <2> QED BY <1>7, <2>1, FlattenAppend
<1>13. FlattenSeq(S) \o <<>> = FlattenSeq(S)
  BY <1>7
<1> QED BY <1>3, <1>4, <1>7, <1>8, <1>11, <1>12, <1>13 DEF v

(* A byte that ends the open line. *)
LEMMA HeardMore ==
  ASSUME NEW onEvent, NEW b \in Text, NEW s, Open(b, s)
  PROVE  /\ Open(Append(b, NL), Len(b) + 2) /\ Current(Append(b, NL), Len(b) + 2) = <<>>
         /\ Heard(Append(b, NL), Complete(Append(b, NL)), onEvent) =
              Heard(b, Complete(b), onEvent) \o handleStderrLine(Spelt(Current(b, s)), onEvent)
<1> DEFINE v == Append(b, NL)
           n == Len(b)
<1>0. NL \in Chars
  BY StderrAssumption
<1>1. /\ v \in Text /\ Len(v) = n + 1 /\ v[n + 1] = NL /\ n \in Nat
      /\ \A k \in 1..n : v[k] = b[k]
  BY <1>0 DEF Text
<1>2. s \in 1..n + 1
  BY DEF Open
<1> HIDE DEF v
<1>3. Open(v, n + 2)
  <2>1. n + 2 \in 1..Len(v) + 1 /\ (n + 2) - 1 = n + 1
    BY <1>1
  <2>2. \A i \in n + 2..Len(v) : v[i] # NL
    BY <1>1
  <2> QED BY <1>1, <2>1, <2>2 DEF Open
<1>4. Current(v, n + 2) = <<>>
  BY <1>1 DEF Current, Text
<1>5. ASSUME NEW i PROVE i \in Complete(v) <=> i \in LineStarts(b)
  <2>1. i \in Complete(v) <=> i \in LineStarts(v) /\ \E j \in i..Len(v) : v[j] = NL
    BY <1>1, StartsAre
  <2>2. i \in LineStarts(v) <=> i = 1 \/ (i \in 2..Len(v) + 1 /\ v[i - 1] = NL)
    BY <1>1, StartsAre
  <2>3. i \in LineStarts(b) <=> i = 1 \/ (i \in 2..n + 1 /\ b[i - 1] = NL)
    BY StartsAre
  <2>4. ASSUME i \in LineStarts(b) PROVE i \in Complete(v)
    <3>1. i \in 1..n + 1
      BY <2>4, StartsAre
    <3>2. n + 1 \in i..Len(v)
      BY <1>1, <3>1
    <3>3. i # 1 => i \in 2..Len(v) + 1 /\ i - 1 \in 1..n /\ b[i - 1] = NL
      BY <1>1, <2>3, <2>4, <3>1
    <3> QED BY <1>1, <2>1, <2>2, <3>2, <3>3
  <2>5. ASSUME i \in Complete(v) PROVE i \in LineStarts(b)
    <3>1. i \in 1..n + 1
      BY <1>1, <2>5, StartsAre
    <3>2. i # 1 => i \in 2..n + 1 /\ i - 1 \in 1..n /\ v[i - 1] = NL
      BY <1>1, <2>1, <2>2, <2>5, <3>1
    <3> QED BY <1>1, <2>3, <3>2
  <2> QED BY <2>4, <2>5
<1>6. \A i : i \in Complete(v) <=> i \in Complete(b) \/ i = s
  <2>1. \A i : i \in LineStarts(b) <=> i \in Complete(b) \/ i = s
    BY OnlyOpen
  <2> QED BY <1>5, <2>1
<1>7. \A i \in Complete(b) : LineFrom(v, i) = LineFrom(b, i)
  BY <1>0, CompleteStays DEF v
<1>8. LineFrom(v, s) = Current(b, s)
  <2>1. s \in 1..Len(v) /\ n + 1 \in s..Len(v)
    BY <1>1, <1>2
  <2>2. ASSUME NEW k \in s..(n + 1) - 1 PROVE v[k] # NL
    <3>1. k \in s..n /\ k \in 1..n
      BY <1>1, <1>2
    <3> QED BY <1>1, <3>1 DEF Open
  <2>3. LineFrom(v, s) = SubSeq(v, s, (n + 1) - 1)
    BY <1>1, <2>1, <2>2, LineEnds
  <2>4. SubSeq(v, s, (n + 1) - 1) = SubSeq(b, s, n)
    BY <1>1, <1>2 DEF Text
  <2> QED BY <2>3, <2>4 DEF Current
<1>9. Len(v) >= Len(b)
  BY <1>1
<1>10. Heard(v, Complete(v), onEvent) =
         Heard(b, Complete(b), onEvent) \o handleStderrLine(Spelt(Current(b, s)), onEvent)
  BY <1>1, <1>6, <1>7, <1>8, <1>9, HeardOneMore
<1> QED BY <1>3, <1>4, <1>10 DEF v

(* At the end the open line is heard as well. *)
LEMMA HeardAll ==
  ASSUME NEW onEvent, NEW b \in Text, NEW s, Open(b, s)
  PROVE  Heard(b, LineStarts(b), onEvent) =
           Heard(b, Complete(b), onEvent) \o handleStderrLine(Spelt(Current(b, s)), onEvent)
<1>1. \A i : i \in LineStarts(b) <=> i \in Complete(b) \/ i = s
  BY OnlyOpen
<1>2. LineFrom(b, s) = Current(b, s)
  BY CurrentIs
<1>3. Len(b) >= Len(b)
  BY DEF Text
<1> QED BY <1>1, <1>2, <1>3, HeardOneMore

(* No line ends in what the reader keeps. *)
Plain(rest, onEvent) == Framed(rest, onEvent) = [calls |-> <<>>, rest |-> rest]

(* After the bytes b the caller was told of every complete line of them by *)
(* cs, and the reader holds the open line in rest and h.                   *)
Told(b, onEvent, cs, rest, h) ==
  /\ rest \in Text /\ h \in Text /\ Plain(rest, onEvent)
  /\ cs = Heard(b, Complete(b), onEvent)
  /\ \E s : Open(b, s) /\ Reads(rest, h, Current(b, s))

(* Nothing is framed as nothing. *)
LEMMA FramedNone ==
  ASSUME NEW onEvent
  PROVE  Framed(<<>>, onEvent) = NoFrame
<1> DEFINE e == <<>>
<1>1. e \in Text /\ Len(e) = 0
  BY DEF Text
<1> HIDE DEF e
<1>2. PICK f : /\ f \in [0..Len(e) -> Frame] /\ f[0] = NoFrame
               /\ \A k \in 1..Len(e) : f[k] = Scanned(f[k - 1], e[k], onEvent)
               /\ Framed(e, onEvent) = f[Len(e)]
  BY <1>1, FramedLoop, Zenon
<1> QED BY <1>1, <1>2, Zenon DEF e

(* A character that is no newline is kept. *)
LEMMA FramedOne ==
  ASSUME NEW onEvent, NEW s \in Text, NEW c \in Chars, c # NL
  PROVE  Framed(s \o <<c>>, onEvent) =
           [calls |-> Framed(s, onEvent).calls, rest |-> Append(Framed(s, onEvent).rest, c)]
<1>1. s \o <<c>> = Append(s, c)
  BY DEF Text
<1>2. Framed(Append(s, c), onEvent) = Scanned(Framed(s, onEvent), c, onEvent)
  BY FramedAppend
<1> QED BY <1>1, <1>2 DEF Scanned

(* Nor does one end there when a character comes that is no newline. *)
LEMMA PlainMore ==
  ASSUME NEW onEvent, NEW rest \in Text, Plain(rest, onEvent), NEW c \in Chars, c # NL
  PROVE  Plain(Append(rest, c), onEvent)
<1>1. Framed(Append(rest, c), onEvent) = Scanned(Framed(rest, onEvent), c, onEvent)
  BY FramedAppend
<1>2. Framed(rest, onEvent) = [calls |-> <<>>, rest |-> rest]
  BY DEF Plain
<1>3. Scanned([calls |-> <<>>, rest |-> rest], c, onEvent) = [calls |-> <<>>, rest |-> Append(rest, c)]
  BY DEF Scanned
<1> QED BY <1>1, <1>2, <1>3 DEF Plain

(* Nothing, or a character that is no newline. *)
AtMostOne == {<<>>} \cup {<<c>> : c \in Chars \ {NL}}

(* They are texts. *)
LEMMA AtMostOneType ==
  \A p \in AtMostOne : p \in Seq(Chars)
<1>1. \A c \in Chars : <<c>> \in Seq(Chars)
  OBVIOUS
<1>2. <<>> \in Seq(Chars)
  OBVIOUS
<1> QED BY <1>1, <1>2 DEF AtMostOne

(* They are kept after what is kept. *)
LEMMA FramedFew ==
  ASSUME NEW onEvent, NEW s \in Text, NEW p \in AtMostOne
  PROVE  /\ Framed(s \o p, onEvent) = [calls |-> Framed(s, onEvent).calls,
                                       rest |-> Framed(s, onEvent).rest \o p]
         /\ Plain(Framed(s, onEvent).rest, onEvent) => Plain(Framed(s, onEvent).rest \o p, onEvent)
         /\ s \o p \in Text
<1> DEFINE f == Framed(s, onEvent)
<1>1. f \in Frame
  <2>1. NL \in Chars
    BY StderrAssumption
  <2> QED BY <2>1, FramedAppend
<1> HIDE DEF f
<1>2. f.rest \in Text /\ f = [calls |-> f.calls, rest |-> f.rest]
  BY <1>1 DEF Frame
<1>3. CASE p = <<>>
  <2>1. s \o p = s /\ f.rest \o p = f.rest
    BY <1>2, <1>3 DEF Text
  <2> QED BY <1>2, <2>1 DEF f
<1>4. CASE p # <<>>
  <2>1. PICK c \in Chars : c # NL /\ p = <<c>>
    BY <1>4 DEF AtMostOne
  <2>2. f.rest \o p = Append(f.rest, c) /\ s \o p \in Text
    BY <1>2, <2>1 DEF Text
  <2>3. Framed(s \o p, onEvent) = [calls |-> f.calls, rest |-> Append(f.rest, c)]
    BY <2>1, FramedOne DEF f
  <2>4. Plain(f.rest, onEvent) => Plain(Append(f.rest, c), onEvent)
    BY <1>2, <2>1, PlainMore
  <2> QED BY <2>2, <2>3, <2>4 DEF f
<1> QED BY <1>3, <1>4

(* One byte more. *)
LEMMA ToldNext ==
  ASSUME NEW onEvent, NEW b \in Text, NEW x \in Chars, NEW q \in Text, NEW h \in Text,
         NEW c0 \in Seq(Events),
         Told(b, onEvent, c0 \o Framed(q, onEvent).calls, Framed(q, onEvent).rest, h)
  PROVE  /\ q \o Emitted(h, x) \in Text
         /\ Told(Append(b, x), onEvent, c0 \o Framed(q \o Emitted(h, x), onEvent).calls,
                 Framed(q \o Emitted(h, x), onEvent).rest, Held(x))
<1> DEFINE f == Framed(q, onEvent)
<1>0. NL \in Chars /\ Char \in Chars \ {NL} /\ Bad \in Chars \ {NL} /\ "lead" \in Chars
  BY StderrAssumption DEF NL, Char, Bad
<1>1. f \in Frame
  BY <1>0, FramedAppend
<1>2. /\ f.rest \in Text /\ Plain(f.rest, onEvent)
      /\ c0 \o f.calls = Heard(b, Complete(b), onEvent)
  BY DEF Told
<1>3. PICK s : Open(b, s) /\ Reads(f.rest, h, Current(b, s))
  BY DEF Told
<1>4. Current(b, s) \in Text
  BY <1>3, CurrentIs
<1>5. Pending(h) \in AtMostOne /\ <<Char>> \in AtMostOne
  BY <1>0 DEF Pending, AtMostOne
<1>6. Held(x) \in Text
  BY <1>0 DEF Held, Text
<1>7. CASE x # NL
  <2> DEFINE e == Emitted(h, x)
  <2>1. Alone(x) \in AtMostOne
    BY <1>0, <1>7 DEF Alone, AtMostOne
  <2>2. /\ Framed(q \o e, onEvent) = [calls |-> f.calls, rest |-> f.rest \o e]
        /\ Plain(f.rest \o e, onEvent) /\ q \o e \in Text
    <3>1. CASE e \in AtMostOne
      BY <1>2, <3>1, FramedFew
    <3>2. CASE e \notin AtMostOne
      <4> DEFINE p == Pending(h)
      <4>1. e = p \o Alone(x)
        BY <1>5, <3>2 DEF Emitted
      <4>2. /\ Framed(q \o p, onEvent) = [calls |-> f.calls, rest |-> f.rest \o p]
            /\ Plain(f.rest \o p, onEvent) /\ q \o p \in Text
        BY <1>2, <1>5, FramedFew
      <4> DEFINE r == q \o p
                 g == Framed(r, onEvent)
      <4>3. r \in Text /\ g.calls = f.calls /\ g.rest = f.rest \o p /\ Plain(g.rest, onEvent)
        BY <4>2
      <4> HIDE DEF r
      <4>4. /\ Framed(r \o Alone(x), onEvent) = [calls |-> g.calls, rest |-> g.rest \o Alone(x)]
            /\ Plain(g.rest \o Alone(x), onEvent) /\ r \o Alone(x) \in Text
        BY <2>1, <4>3, FramedFew
      <4> HIDE DEF g, f, p
      <4> DEFINE a == Alone(x)
                 u == f.rest
      <4>5. p \in Seq(Chars) /\ a \in Seq(Chars)
        BY <1>5, <2>1, AtMostOneType DEF p
      <4>6. q \in Seq(Chars) /\ u \in Seq(Chars)
        BY <1>2 DEF Text
      <4>7. g.rest = u \o p
        BY <4>3
      <4> HIDE DEF a, u
      <4>8. (q \o p) \o a = q \o (p \o a)
        BY <4>5, <4>6, ConcatAssociative
      <4>9. (u \o p) \o a = u \o (p \o a)
        BY <4>5, <4>6, ConcatAssociative
      <4>10. r \o Alone(x) = q \o (p \o Alone(x)) /\ g.rest \o Alone(x) = f.rest \o (p \o Alone(x))
        BY <4>7, <4>8, <4>9 DEF r, a, u
      <4> QED BY <4>1, <4>3, <4>4, <4>10
    <3> QED BY <3>1, <3>2
  <2>3. Reads(f.rest \o e, Held(x), Append(Current(b, s), x))
    BY <1>2, <1>3, <1>4, ReadsMore
  <2>4. /\ Open(Append(b, x), s) /\ Current(Append(b, x), s) = Append(Current(b, s), x)
        /\ Heard(Append(b, x), Complete(Append(b, x)), onEvent) = Heard(b, Complete(b), onEvent)
    BY <1>3, <1>7, HeardSame
  <2>5. f.rest \o e \in Text
    <3>1. q \o e \in Text /\ Framed(q \o e, onEvent) \in Frame
      BY <1>0, <2>2, FramedAppend
    <3> HIDE DEF e, f
    <3> QED BY <2>2, <3>1 DEF Frame
  <2> HIDE DEF e, f
  <2>6. Framed(q \o e, onEvent).calls = f.calls /\ Framed(q \o e, onEvent).rest = f.rest \o e
    BY <2>2
  <2>7. \E z : Open(Append(b, x), z) /\ Reads(f.rest \o e, Held(x), Current(Append(b, x), z))
    BY <2>3, <2>4
  <2>8. Told(Append(b, x), onEvent, c0 \o f.calls, f.rest \o e, Held(x))
    BY <1>2, <1>6, <2>2, <2>4, <2>5, <2>7 DEF Told
  <2> QED BY <2>2, <2>6, <2>8 DEF e
<1>8. CASE x = NL
  <2> DEFINE p == Pending(h)
             line == Spelt(Current(b, s))
  <2>1. Emitted(h, x) = p \o <<NL>> /\ Held(x) = <<>>
    BY <1>8 DEF Emitted, Held, Alone, NL
  <2>2. Framed(q \o p, onEvent) = [calls |-> f.calls, rest |-> f.rest \o p] /\ q \o p \in Text
    BY <1>2, <1>5, FramedFew
  <2>3. f.rest \o p = line
    BY <1>3 DEF Reads
  <2> DEFINE r == q \o p
  <2>4. Framed(Append(r, NL), onEvent) = Scanned(Framed(r, onEvent), NL, onEvent)
    <3>1. r \in Text
      BY <2>2
    <3> HIDE DEF r
    <3> QED BY <1>0, <3>1, FramedAppend
  <2>5. Framed(Append(r, NL), onEvent) = [calls |-> f.calls \o handleStderrLine(line, onEvent), rest |-> <<>>]
    <3> HIDE DEF f, line, p
    <3>1. Framed(r, onEvent).calls = f.calls /\ Framed(r, onEvent).rest = line
      BY <2>2, <2>3
    <3> HIDE DEF r
    <3> QED BY <2>4, <3>1 DEF Scanned
  <2>6. q \o Emitted(h, x) = Append(r, NL) /\ Append(r, NL) \in Text
    <3>0. p \in Seq(Chars)
      BY <1>5, AtMostOneType
    <3> HIDE DEF p
    <3>1. p \in Seq(Chars) /\ q \in Seq(Chars) /\ <<NL>> \in Seq(Chars)
      BY <1>0, <3>0 DEF Text
    <3>2. q \o (p \o <<NL>>) = (q \o p) \o <<NL>>
      BY <3>1, ConcatAssociative
    <3>3. (q \o p) \o <<NL>> = Append(q \o p, NL) /\ Append(q \o p, NL) \in Seq(Chars)
      BY <1>0, <3>1
    <3> QED BY <2>1, <3>2, <3>3 DEF Text
  <2> DEFINE v == Append(b, x)
             hl == handleStderrLine(line, onEvent)
  <2>7. /\ Open(v, Len(b) + 2) /\ Current(v, Len(b) + 2) = <<>>
        /\ Heard(v, Complete(v), onEvent) = Heard(b, Complete(b), onEvent) \o hl
    BY <1>3, <1>8, HeardMore
  <2>8. line \in Text /\ hl \in Seq(Events) /\ f.calls \in Seq(Events)
    <3>1. line \in Text
      BY <1>4, SpeltType
    <3> HIDE DEF line, f
    <3> QED BY <1>1, <3>1, HandledType DEF Frame
  <2>9. \E z : Open(v, z) /\ Reads(<<>>, Held(x), Current(v, z))
    BY <2>1, <2>7, ReadsNone
  <2>10. Plain(<<>>, onEvent) /\ <<>> \in Text
    BY FramedNone DEF Plain, NoFrame, Text
  <2> HIDE DEF hl, f, v, line, r, p
  <2>11. c0 \o (f.calls \o hl) = (c0 \o f.calls) \o hl
    <3> DEFINE fc == f.calls
    <3>1. fc \in Seq(Events) /\ hl \in Seq(Events) /\ c0 \in Seq(Events)
      BY <2>8
    <3> HIDE DEF fc
    <3>2. (c0 \o fc) \o hl = c0 \o (fc \o hl)
      BY <3>1, ConcatAssociative
    <3> QED BY <3>2 DEF fc
  <2>12. Told(v, onEvent, c0 \o (f.calls \o hl), <<>>, Held(x))
    BY <1>2, <1>6, <2>7, <2>9, <2>10, <2>11 DEF Told
  <2>13. Framed(q \o Emitted(h, x), onEvent) = [calls |-> f.calls \o hl, rest |-> <<>>]
    BY <2>5, <2>6 DEF hl
  <2> QED BY <2>6, <2>12, <2>13 DEF v
<1> QED BY <1>7, <1>8

(* What holds of no element, and still with one more, holds of a sequence. *)
LEMMA Sequential ==
  ASSUME NEW V, NEW S, <<>> \in S, \A p \in Seq(V), x \in V : p \in S => Append(p, x) \in S
  PROVE  \A p \in Seq(V) : p \in S
<1> SUFFICES ASSUME NEW c \in Seq(V) PROVE c \in S
  OBVIOUS
<1> DEFINE N == {k \in Nat : k <= Len(c) => SubSeq(c, 1, k) \in S}
<1>1. Len(c) \in Nat /\ SubSeq(c, 1, 0) = <<>> /\ SubSeq(c, 1, Len(c)) = c
  OBVIOUS
<1>2. 0 \in N
  BY <1>1
<1>3. ASSUME NEW k \in Nat, k < Len(c), k \in N PROVE k + 1 \in N
  <2> DEFINE p == SubSeq(c, 1, k)
             q == SubSeq(c, 1, k + 1)
             x == c[k + 1]
  <2>1. p \in Seq(V) /\ x \in V /\ p \in S
    BY <1>1, <1>3
  <2>2. q = Append(p, x)
    <3>1. /\ q \in Seq(V) /\ Len(q) = k + 1 /\ \A i \in 1..k + 1 : q[i] = c[i]
      BY <1>1, <1>3
    <3>2. /\ Len(p) = k /\ \A i \in 1..k : p[i] = c[i]
      BY <1>1, <1>3
    <3> HIDE DEF p, q
    <3>3. /\ Append(p, x) \in Seq(V) /\ Len(Append(p, x)) = k + 1 /\ Append(p, x)[k + 1] = c[k + 1]
          /\ \A i \in 1..k : Append(p, x)[i] = p[i]
      BY <2>1, <3>2
    <3> DEFINE a == Append(p, x)
    <3> HIDE DEF a
    <3>4. a \in Seq(V) /\ Len(a) = Len(q) /\ \A i \in 1..Len(q) : a[i] = q[i]
      BY <3>1, <3>2, <3>3 DEF a
    <3>5. a = q
      BY <3>1, <3>4, SeqEqual
    <3> QED BY <3>5 DEF a
  <2> HIDE DEF p, q, x
  <2>3. q \in S
    BY <2>1, <2>2
  <2> QED BY <2>3 DEF q
<1>4. \A k \in Nat : k < Len(c) /\ k \in N => k + 1 \in N
  BY <1>3
<1>5. \A k \in 0..Len(c) : k \in N
  <2> HIDE DEF N
  <2> QED BY <1>1, <1>2, <1>4, Inductive
<1>6. SubSeq(c, 1, Len(c)) \in S
  BY <1>1, <1>5
<1> QED BY <1>1, <1>6

(* There is an open line, empty perhaps. *)
LEMMA OpenExists ==
  \A b \in Text : \E s : Open(b, s)
<1> DEFINE S == {b \in Text : \E s : Open(b, s)}
<1>0. NL \in Chars
  BY StderrAssumption
<1>1. <<>> \in S
  <2>1. Open(<<>>, 1)
    BY DEF Open
  <2> QED BY <2>1 DEF Text
<1>2. ASSUME NEW b \in Text, NEW x \in Chars, b \in S PROVE Append(b, x) \in S
  <2>1. PICK s : Open(b, s)
    BY <1>2
  <2>2. \E z : Open(Append(b, x), z)
    <3>1. CASE x = NL
      BY <2>1, <3>1, HeardMore
    <3>2. CASE x # NL
      BY <2>1, <3>2, HeardSame
    <3> QED BY <3>1, <3>2
  <2>3. Append(b, x) \in Text
    BY DEF Text
  <2> QED BY <2>2, <2>3
<1>3. \A b \in Seq(Chars), x \in Chars : b \in S => Append(b, x) \in S
  BY <1>2 DEF Text
<1>4. \A b \in Seq(Chars) : b \in S
  <2> HIDE DEF S
  <2> QED BY <1>1, <1>3, Sequential
<1> QED BY <1>4 DEF Text

(* The lines that were complete stay what they were. *)
LEMMA HeardGrows ==
  ASSUME NEW onEvent, NEW b \in Text, NEW c \in Text
  PROVE  \E y \in Seq(Events) :
           Heard(b \o c, Complete(b \o c), onEvent) = Heard(b, Complete(b), onEvent) \o y
<1> DEFINE H(w) == Heard(w, Complete(w), onEvent)
           Grown(w) == \E y \in Seq(Events) : H(b \o w) = H(b) \o y
           S == {w \in Text : Grown(w)}
<1>0. NL \in Chars
  BY StderrAssumption
<1>1. \A w \in Text : H(w) \in Seq(Events)
  <2>1. ASSUME NEW w \in Text PROVE H(w) \in Seq(Events)
    <3>1. \A i \in Complete(w) : LineFrom(w, i) \in Text
      BY LineFromType
    <3> QED BY <3>1, HearingType
  <2> QED BY <2>1
<1> HIDE DEF H
<1>2. <<>> \in S
  <2>1. b \o <<>> = b
    BY DEF Text
  <2>2. H(b) = H(b) \o <<>>
    BY <1>1
  <2>3. <<>> \in Seq(Events)
    OBVIOUS
  <2>4. Grown(<<>>)
    BY <2>1, <2>2, <2>3
  <2> QED BY <2>4 DEF Text
<1>3. ASSUME NEW w \in Text, NEW x \in Chars, w \in S PROVE Append(w, x) \in S
  <2> DEFINE v == b \o w
  <2>1. v \in Text /\ b \o Append(w, x) = Append(v, x) /\ Append(w, x) \in Text
    BY DEF Text
  <2>2. PICK y \in Seq(Events) : H(v) = H(b) \o y
    BY <1>3
  <2> HIDE DEF v
  <2>3. PICK s : Open(v, s)
    BY <2>1, OpenExists
  <2>4. \E z \in Seq(Events) : H(Append(v, x)) = H(v) \o z
    <3>1. CASE x = NL
      <4> DEFINE z == handleStderrLine(Spelt(Current(v, s)), onEvent)
      <4>1. z \in Seq(Events)
        <5>1. Current(v, s) \in Text
          BY <2>1, <2>3, CurrentIs
        <5>2. Spelt(Current(v, s)) \in Text
          BY <5>1, SpeltType
        <5> QED BY <5>2, HandledType
      <4>2. H(Append(v, x)) = H(v) \o z
        BY <2>1, <2>3, <3>1, HeardMore DEF H
      <4> HIDE DEF z
      <4> QED BY <4>1, <4>2
    <3>2. CASE x # NL
      <4>1. H(Append(v, x)) = H(v)
        BY <2>1, <2>3, <3>2, HeardSame DEF H
      <4>2. H(v) = H(v) \o <<>> /\ <<>> \in Seq(Events)
        BY <1>1, <2>1
      <4> QED BY <4>1, <4>2
    <3> QED BY <3>1, <3>2
  <2>5. PICK z \in Seq(Events) : H(Append(v, x)) = H(v) \o z
    BY <2>4
  <2> DEFINE hb == H(b)
  <2>6. hb \in Seq(Events)
    BY <1>1
  <2> HIDE DEF hb
  <2>7. (hb \o y) \o z = hb \o (y \o z) /\ y \o z \in Seq(Events)
    BY <2>6, ConcatAssociative
  <2>8. H(b \o Append(w, x)) = H(b) \o (y \o z)
    BY <2>1, <2>2, <2>5, <2>7 DEF hb
  <2> QED BY <2>1, <2>7, <2>8
<1>4. \A w \in Seq(Chars), x \in Chars : w \in S => Append(w, x) \in S
  BY <1>3 DEF Text
<1>5. \A w \in Seq(Chars) : w \in S
  <2> HIDE DEF S
  <2> QED BY <1>2, <1>4, Sequential
<1>6. Grown(c)
  BY <1>5 DEF Text
<1> QED BY <1>6 DEF H

(* After the bytes p of a chunk the caller would have been told all.       *)
Through(b, onEvent, cs, rest, h, p) ==
  LET d == DecodedAll([text |-> <<>>, held |-> h], p)
      f == Framed(rest \o d.text, onEvent)
  IN rest \o d.text \in Text /\ Told(b \o p, onEvent, cs \o f.calls, f.rest, d.held)

(* No byte tells nothing. *)
LEMMA ThroughNone ==
  ASSUME NEW onEvent, NEW b \in Text, NEW cs \in Seq(Events), NEW rest \in Text, NEW h \in Text,
         Told(b, onEvent, cs, rest, h)
  PROVE  Through(b, onEvent, cs, rest, h, <<>>)
<1> DEFINE d0 == [text |-> <<>>, held |-> h]
<1>1. d0 \in Decoding
  BY DEF Decoding, Text
<1>2. DecodedAll(d0, <<>>) = d0 /\ d0.text = <<>> /\ d0.held = h
  BY <1>1, DecodedNone
<1>3. rest \o <<>> = rest /\ b \o <<>> = b /\ cs \o <<>> = cs
  BY DEF Text
<1>4. Framed(rest, onEvent) = [calls |-> <<>>, rest |-> rest]
  BY DEF Told, Plain
<1> DEFINE d == DecodedAll(d0, <<>>)
           q == rest \o d.text
<1>5. Through(b, onEvent, cs, rest, h, <<>>) <=>
        q \in Text /\ Told(b \o <<>>, onEvent, cs \o Framed(q, onEvent).calls,
                          Framed(q, onEvent).rest, d.held)
  BY DEF Through
<1>6. q = rest /\ d.held = h
  BY <1>2, <1>3
<1> HIDE DEF q, d
<1>7. Framed(q, onEvent).calls = <<>> /\ Framed(q, onEvent).rest = rest
  BY <1>4, <1>6
<1> QED BY <1>3, <1>5, <1>6, <1>7

(* A byte more of the chunk, and still all is told. *)
LEMMA ThroughMore ==
  ASSUME NEW onEvent, NEW b \in Text, NEW cs \in Seq(Events), NEW rest \in Text, NEW h \in Text,
         NEW p \in Text, NEW x \in Chars, Through(b, onEvent, cs, rest, h, p)
  PROVE  Through(b, onEvent, cs, rest, h, Append(p, x))
<1> DEFINE d0 == [text |-> <<>>, held |-> h]
           d == DecodedAll(d0, p)
           q == rest \o d.text
           v == b \o p
           e == Emitted(d.held, x)
           dd == DecodedAll(d0, Append(p, x))
<1>1. d0 \in Decoding
  BY DEF Decoding, Text
<1>2. d \in Decoding /\ dd = Decoded(d, x)
  <2> HIDE DEF d0
  <2> QED BY <1>1, DecodedAppend
<1>3. q \in Text /\ Told(v, onEvent, cs \o Framed(q, onEvent).calls, Framed(q, onEvent).rest, d.held)
  BY DEF Through
<1>4. v \in Text /\ b \o Append(p, x) = Append(v, x)
  BY DEF Text
<1> HIDE DEF d0, d, dd
<1>5. d.text \in Text /\ d.held \in Text
  BY <1>2 DEF Decoding
<1>6. dd = [text |-> d.text \o e, held |-> Held(x)]
  BY <1>2, DecodedEmits
<1> HIDE DEF q, v
<1>7. /\ q \o e \in Text
      /\ Told(Append(v, x), onEvent, cs \o Framed(q \o e, onEvent).calls,
              Framed(q \o e, onEvent).rest, Held(x))
  BY <1>3, <1>4, <1>5, ToldNext
<1>8. e \in Text
  <2>1. {Char, Bad, x, "lead"} \subseteq Chars
    BY StderrAssumption
  <2>2. \A y, z \in Chars : <<y>> \in Text /\ <<y>> \o <<z>> \in Text /\ <<>> \o <<z>> \in Text
    BY DEF Text
  <2>3. <<>> \in Text
    BY DEF Text
  <2> QED BY <2>1, <2>2, <2>3 DEF Emitted, Pending, Alone
<1>9. q \o e = rest \o dd.text /\ dd.held = Held(x)
  <2> DEFINE t == d.text
  <2>1. t \in Seq(Chars) /\ rest \in Seq(Chars) /\ e \in Seq(Chars)
    BY <1>5, <1>8 DEF Text
  <2>2. dd.text = t \o e /\ dd.held = Held(x)
    BY <1>6
  <2> HIDE DEF t, e
  <2>3. (rest \o t) \o e = rest \o (t \o e)
    BY <2>1, ConcatAssociative
  <2> QED BY <2>2, <2>3 DEF q, t
<1> HIDE DEF e
<1>10. Through(b, onEvent, cs, rest, h, Append(p, x)) <=>
         /\ rest \o dd.text \in Text
         /\ Told(b \o Append(p, x), onEvent, cs \o Framed(rest \o dd.text, onEvent).calls,
                 Framed(rest \o dd.text, onEvent).rest, dd.held)
  BY DEF Through, dd, d0
<1> QED BY <1>4, <1>7, <1>9, <1>10

(* However the pipe cuts the bytes. *)
LEMMA ThroughAll ==
  ASSUME NEW onEvent, NEW b \in Text, NEW cs \in Seq(Events), NEW rest \in Text, NEW h \in Text,
         Told(b, onEvent, cs, rest, h), NEW c \in Text
  PROVE  Through(b, onEvent, cs, rest, h, c)
<1> DEFINE S == {p \in Text : Through(b, onEvent, cs, rest, h, p)}
<1>1. <<>> \in S
  <2>1. <<>> \in Text
    BY DEF Text
  <2> QED BY <2>1, ThroughNone
<1>2. ASSUME NEW p \in Seq(Chars), NEW x \in Chars, p \in S PROVE Append(p, x) \in S
  <2>1. p \in Text /\ Append(p, x) \in Text
    BY DEF Text
  <2> QED BY <1>2, <2>1, ThroughMore
<1>3. \A p \in Seq(Chars), x \in Chars : p \in S => Append(p, x) \in S
  BY <1>2
<1>4. \A p \in Seq(Chars) : p \in S
  <2> HIDE DEF S
  <2> QED BY <1>1, <1>3, Sequential
<1> QED BY <1>4 DEF Text

-----------------------------------------------------------------------------
(* The calls that are made, and the invariant of the reader *)

(* What is made of the calls that are due. *)
LEMMA MadeIs ==
  ASSUME NEW all \in Seq(Events), throwsAt \in Nat
  PROVE  /\ Made(all) \in Seq(Events)
         /\ ~Threw(Made(all)) => Made(all) = all
         /\ Threw(Made(all)) => /\ Len(Made(all)) = throwsAt /\ throwsAt <= Len(all)
                                /\ Made(all) = SubSeq(all, 1, throwsAt)
<1> DEFINE m == SubSeq(all, 1, throwsAt)
<1>1. CASE throwsAt = 0 \/ Len(all) <= throwsAt
  <2>1. Made(all) = all
    BY <1>1 DEF Made
  <2>2. throwsAt = Len(all) => m = all
    OBVIOUS
  <2>3. Threw(all) => throwsAt = Len(all)
    BY <1>1 DEF Threw
  <2> QED BY <2>1, <2>2, <2>3
<1>2. CASE ~(throwsAt = 0 \/ Len(all) <= throwsAt)
  <2>1. Made(all) = m
    BY <1>2 DEF Made
  <2>2. throwsAt \in 1..Len(all)
    BY <1>2
  <2>3. m \in Seq(Events) /\ Len(m) = throwsAt
    BY <2>2
  <2> HIDE DEF m
  <2>4. Threw(m)
    BY <2>2, <2>3 DEF Threw
  <2> QED BY <2>1, <2>2, <2>3, <2>4 DEF m
<1> QED BY <1>1, <1>2

(* The first n of a sequence that is the start of another one. *)
LEMMA StartsIt ==
  ASSUME NEW all \in Seq(Events), NEW y \in Seq(Events), NEW n \in 0..Len(all)
  PROVE  IsPrefix(SubSeq(all, 1, n), all \o y)
<1> DEFINE s == SubSeq(all, 1, n)
           t == all \o y
<1>1. s \in Seq(Events) /\ Len(s) = n /\ \A i \in 1..n : s[i] = all[i]
  OBVIOUS
<1>2. t \in Seq(Events) /\ Len(t) = Len(all) + Len(y) /\ \A i \in 1..Len(all) : t[i] = all[i]
  OBVIOUS
<1> HIDE DEF s, t
<1>3. n <= Len(t) /\ n \in Nat
  BY <1>2
<1> DEFINE u == SubSeq(t, 1, n)
           w == SubSeq(s, 1, n)
<1>4. u \in Seq(Events) /\ Len(u) = n /\ \A i \in 1..n : u[i] = t[i]
  BY <1>2, <1>3
<1>5. w = s
  BY <1>1
<1> HIDE DEF u, w
<1>6. s = u
  <2>1. Len(s) = Len(u) /\ \A i \in 1..Len(s) : s[i] = u[i]
    BY <1>1, <1>2, <1>4
  <2> QED BY <1>1, <1>4, <2>1, SeqEqual
<1> QED BY <1>1, <1>3, <1>5, <1>6 DEF IsPrefix, u, w, s, t

(* The reader has surfaced what it should, wherever it is. *)
StderrInv ==
  /\ text \in Text /\ pos \in 0..Len(text) /\ held \in Text /\ buf \in Text
  /\ calls \in Seq(Events) /\ throwsAt \in Nat
  /\ phase \in {"reading", "done", "failed"}
  /\ phase = "reading" => Told(SubSeq(text, 1, pos), listens, calls, buf, held) /\ ~Threw(calls)
  /\ EverythingHeard /\ NothingAfterThrow

(* Before the first byte there is nothing to tell. *)
LEMMA ToldNothing ==
  ASSUME NEW onEvent
  PROVE  Told(<<>>, onEvent, <<>>, <<>>, <<>>)
<1> DEFINE e == <<>>
<1>1. e \in Text /\ Open(e, 1) /\ Current(e, 1) = <<>>
  BY DEF Text, Open, Current
<1>2. Plain(<<>>, onEvent)
  BY FramedNone DEF Plain, NoFrame
<1>3. Heard(e, Complete(e), onEvent) = <<>>
  <2> DEFINE s == Hearing(e, Complete(e), onEvent)
  <2>1. \A i : i \notin Complete(e)
    <3>1. Complete(e) \subseteq 1..Len(e)
      <4> HIDE DEF e
      <4> QED BY <1>1, StartsAre
    <3> QED BY <3>1
  <2>2. s \in Seq(Seq(Events)) /\ Len(s) = Len(e) + 1 /\ Heard(e, Complete(e), onEvent) = FlattenSeq(s)
    <3> HIDE DEF e
    <3> QED BY <1>1, <2>1, HearingType
  <2>3. s[1] = <<>>
    BY <2>1 DEF Hearing, HeardAt
  <2> HIDE DEF s
  <2>4. Len(s) = 1
    BY <2>2
  <2>5. PICK f : /\ f \in [0..Len(s) -> Seq(Events)]
                 /\ f[0] = <<>> /\ \A n \in 1..Len(s) : f[n] = f[n-1] \o s[n]
                 /\ FlattenSeq(s) = f[Len(s)]
    BY <2>2, FlattenLoop
  <2>6. f[1] = f[0] \o s[1]
    <3>1. 1 \in 1..Len(s) /\ 1 - 1 = 0
      BY <2>4
    <3>2. f[1] = f[1 - 1] \o s[1]
      BY <2>5, <3>1, Zenon
    <3> QED BY <3>1, <3>2
  <2>7. <<>> \o <<>> = <<>>
    OBVIOUS
  <2>8. FlattenSeq(s) = f[1]
    BY <2>4, <2>5
  <2>9. FlattenSeq(s) = <<>>
    BY <2>3, <2>5, <2>6, <2>7, <2>8
  <2> QED BY <2>2, <2>9
<1>4. \E s : Open(e, s) /\ Reads(<<>>, <<>>, Current(e, s))
  BY <1>1, ReadsNone
<1> HIDE DEF e
<1>5. Told(e, onEvent, <<>>, <<>>, <<>>)
  <2>1. <<>> \in Text
    BY <1>1 DEF e
  <2> QED BY <1>2, <1>3, <1>4, <2>1 DEF Told
<1> QED BY <1>5 DEF e

(* It holds when the child is started. *)
LEMMA StderrStarts ==
  ASSUME NEW bytes \in Text, StderrInit(bytes)
  PROVE  StderrInv
<1>1. /\ text = bytes /\ pos = 0 /\ held = <<>> /\ buf = <<>> /\ calls = <<>> /\ phase = "reading"
      /\ throwsAt \in 0..MaxCalls
  BY DEF StderrInit
<1>2. MaxCalls \in Nat /\ throwsAt \in Nat
  BY <1>1, StderrAssumption
<1>3. <<>> \in Text /\ <<>> \in Seq(Events) /\ SubSeq(text, 1, pos) = <<>> /\ pos \in 0..Len(text)
  BY <1>1 DEF Text
<1>4. Told(<<>>, listens, <<>>, <<>>, <<>>)
  BY ToldNothing
<1>5. ~Threw(calls)
  BY <1>1, <1>2 DEF Threw
<1> QED BY <1>1, <1>2, <1>3, <1>4, <1>5 DEF StderrInv, EverythingHeard, NothingAfterThrow

(* The calls that were made are those that were due, or the start of them. *)
LEMMA MadeOf ==
  ASSUME NEW all \in Seq(Events), NEW y \in Seq(Events), throwsAt \in Nat, Threw(Made(all)),
         Heard(text, LineStarts(text), listens) = all \o y, calls' = Made(all),
         throwsAt' = throwsAt, text' = text, listens' = listens
  PROVE  NothingAfterThrow'
<1> DEFINE H == Heard(text, LineStarts(text), listens)
<1>1. Len(Made(all)) = throwsAt /\ throwsAt <= Len(all) /\ Made(all) = SubSeq(all, 1, throwsAt)
  BY MadeIs
<1>2. throwsAt \in 0..Len(all)
  BY <1>1
<1>3. IsPrefix(Made(all), all \o y)
  BY <1>1, <1>2, StartsIt
<1>4. H' = H
  OBVIOUS
<1>5. (Len(calls) = throwsAt)'
  BY <1>1
<1>6. IsPrefix(calls, H)'
  BY <1>3, <1>4
<1> QED BY <1>5, <1>6 DEF NothingAfterThrow

(* A text is what comes before a place and what follows it. *)
LEMMA Split ==
  ASSUME NEW t \in Text, NEW i \in 0..Len(t), NEW j \in i..Len(t)
  PROVE  /\ SubSeq(t, 1, i) \in Text /\ SubSeq(t, i + 1, j) \in Text /\ SubSeq(t, 1, j) \in Text
         /\ SubSeq(t, 1, i) \o SubSeq(t, i + 1, j) = SubSeq(t, 1, j)
<1> DEFINE b == SubSeq(t, 1, i)
           c == SubSeq(t, i + 1, j)
           v == SubSeq(t, 1, j)
           w == b \o c
<1>1. t \in Seq(Chars) /\ i \in Nat /\ j \in Nat /\ i <= j /\ j <= Len(t)
  BY DEF Text
<1>2. b \in Seq(Chars) /\ Len(b) = i /\ \A k \in 1..i : b[k] = t[k]
  BY <1>1
<1>3. c \in Seq(Chars) /\ Len(c) = j - i /\ \A k \in 1..j - i : c[k] = t[i + k]
  BY <1>1
<1>4. v \in Seq(Chars) /\ Len(v) = j /\ \A k \in 1..j : v[k] = t[k]
  BY <1>1
<1> HIDE DEF b, c, v
<1>5. /\ w \in Seq(Chars) /\ Len(w) = j
      /\ \A k \in 1..j : w[k] = IF k <= i THEN b[k] ELSE c[k - i]
  <2>1. /\ w \in Seq(Chars) /\ Len(w) = Len(b) + Len(c)
        /\ \A k \in 1..Len(b) + Len(c) : w[k] = IF k <= Len(b) THEN b[k] ELSE c[k - Len(b)]
    BY <1>2, <1>3, ConcatProperties
  <2>2. Len(b) + Len(c) = j
    BY <1>1, <1>2, <1>3
  <2> QED BY <1>2, <2>1, <2>2
<1> HIDE DEF w
<1>6. ASSUME NEW k \in 1..j PROVE w[k] = t[k]
  <2>1. CASE k <= i
    <3>1. k \in 1..i
      BY <1>1, <2>1
    <3> QED BY <1>2, <1>5, <2>1, <3>1
  <2>2. CASE ~(k <= i)
    <3>1. k - i \in 1..j - i /\ i + (k - i) = k
      BY <1>1, <2>2
    <3>2. c[k - i] = t[k]
      BY <1>3, <3>1
    <3> QED BY <1>5, <2>2, <3>2
  <2> QED BY <2>1, <2>2
<1>7. w = v
  <2>1. Len(w) = Len(v) /\ \A k \in 1..Len(w) : w[k] = v[k]
    BY <1>4, <1>5, <1>6
  <2> QED BY <1>4, <1>5, <2>1, SeqEqual
<1> QED BY <1>2, <1>3, <1>4, <1>7 DEF w, b, c, v, Text

(* A chunk of any size keeps it, if a call throws or none does. *)
LEMMA ChunkKeeps ==
  ASSUME StderrInv, NEW n \in 1..(Len(text) - pos), ReadChunk(n)
  PROVE  StderrInv'
<1> DEFINE d0 == [text |-> <<>>, held |-> held]
           b == SubSeq(text, 1, pos)
           c == SubSeq(text, pos + 1, pos + n)
           v == SubSeq(text, 1, pos + n)
           d == DecodedAll(d0, c)
           f == Framed(buf \o d.text, listens)
           all == calls \o f.calls
           C == Complete(v)
           due == Heard(v, C, listens)
<1>1. /\ phase = "reading" /\ pos' = pos + n /\ held' = d.held /\ buf' = f.rest
      /\ calls' = Made(all) /\ phase' = IF Threw(calls') THEN "failed" ELSE phase
      /\ text' = text /\ throwsAt' = throwsAt /\ listens' = listens
  BY DEF ReadChunk, Decode, input
<1>2. /\ text \in Text /\ pos \in 0..Len(text) /\ held \in Text /\ buf \in Text
      /\ calls \in Seq(Events) /\ throwsAt \in Nat /\ Told(b, listens, calls, buf, held)
  BY <1>1 DEF StderrInv
<1>3. /\ b \in Text /\ c \in Text /\ v \in Text /\ b \o c = v /\ pos + n \in 0..Len(text)
  <2>1. pos + n \in pos..Len(text) /\ pos + n \in 0..Len(text)
    BY <1>2
  <2> HIDE DEF b, c, v
  <2> QED BY <1>2, <2>1, Split DEF b, c, v
<1> HIDE DEF b, c, v
<1>4. Through(b, listens, calls, buf, held, c)
  BY <1>2, <1>3, ThroughAll
<1>5. buf \o d.text \in Text /\ Told(v, listens, all, f.rest, d.held)
  BY <1>3, <1>4 DEF Through
<1>6. d.held \in Text /\ f.rest \in Text /\ f.calls \in Seq(Events) /\ all = due
  <2>1. NL \in Chars
    BY StderrAssumption
  <2> DEFINE q == buf \o d.text
  <2>2. q \in Text
    BY <1>5
  <2> HIDE DEF q
  <2>3. Framed(q, listens) \in Frame
    BY <2>1, <2>2, FramedAppend
  <2>4. Framed(q, listens).calls \in Seq(Events)
    BY <2>3 DEF Frame
  <2>5. d.held \in Text /\ f.rest \in Text /\ all = due
    BY <1>5 DEF Told
  <2> QED BY <2>4, <2>5 DEF q
<1> DEFINE H == Heard(text, LineStarts(text), listens)
<1>7. \E y \in Seq(Events) : H = due \o y
  <2> DEFINE r == SubSeq(text, pos + n + 1, Len(text))
             G == Heard(text, Complete(text), listens)
  <2>1. r \in Text /\ v \o r = text
    <3> DEFINE k == pos + n
    <3>1. k \in 0..Len(text) /\ Len(text) \in k..Len(text) /\ SubSeq(text, 1, Len(text)) = text
      BY <1>2, <1>3 DEF Text
    <3> HIDE DEF k
    <3>2. /\ SubSeq(text, k + 1, Len(text)) \in Text
          /\ SubSeq(text, 1, k) \o SubSeq(text, k + 1, Len(text)) = text
      BY <1>2, <3>1, Split
    <3> QED BY <3>2 DEF k, v
  <2> HIDE DEF r
  <2>2. PICK y \in Seq(Events) : G = due \o y
    BY <1>3, <2>1, HeardGrows
  <2>3. PICK s : Open(text, s)
    BY <1>2, OpenExists
  <2> DEFINE z == handleStderrLine(Spelt(Current(text, s)), listens)
  <2>4. H = G \o z /\ z \in Seq(Events)
    <3>1. Current(text, s) \in Text
      BY <1>2, <2>3, CurrentIs
    <3>2. Spelt(Current(text, s)) \in Text
      BY <3>1, SpeltType
    <3> QED BY <1>2, <2>3, <3>2, HeardAll, HandledType
  <2>5. due \in Seq(Events)
    <3>1. all \in Seq(Events)
      BY <1>2, <1>6
    <3> QED BY <1>6, <3>1
  <2> HIDE DEF H, G, due, z
  <2>6. (due \o y) \o z = due \o (y \o z) /\ y \o z \in Seq(Events)
    BY <2>2, <2>4, <2>5, ConcatAssociative
  <2>7. H = due \o (y \o z)
    BY <2>2, <2>4, <2>6
  <2> QED BY <2>6, <2>7
<1>8. all \in Seq(Events)
  BY <1>2, <1>6
<1> HIDE DEF all, d, f, due
<1>9. calls' \in Seq(Events) /\ (Threw(calls))' = Threw(Made(all))
  BY <1>1, <1>2, <1>8, MadeIs DEF Threw
<1>10. CASE Threw(Made(all))
  <2>1. NothingAfterThrow'
    BY <1>1, <1>2, <1>6, <1>7, <1>8, <1>10, MadeOf
  <2>2. phase' = "failed"
    BY <1>1, <1>10
  <2>3. EverythingHeard'
    BY <2>2 DEF EverythingHeard
  <2> QED BY <1>1, <1>2, <1>3, <1>6, <1>9, <2>1, <2>2, <2>3 DEF StderrInv
<1>11. CASE ~Threw(Made(all))
  <2>1. calls' = all
    BY <1>1, <1>2, <1>8, <1>11, MadeIs
  <2>2. phase' = "reading"
    BY <1>1, <1>11
  <2>3. EverythingHeard' /\ NothingAfterThrow'
    BY <2>2 DEF EverythingHeard, NothingAfterThrow
  <2>4. Told(SubSeq(text, 1, pos), listens, calls, buf, held)'
    <3>1. SubSeq(text', 1, pos') = v
      BY <1>1 DEF v
    <3>2. Told(v, listens', calls', buf', held')
      BY <1>1, <1>5, <2>1 DEF all
    <3> QED BY <3>1, <3>2
  <2> QED BY <1>1, <1>2, <1>3, <1>6, <1>9, <1>11, <2>2, <2>3, <2>4 DEF StderrInv
<1> QED BY <1>10, <1>11

(* So does the end of the stream, where the leftover is handled. *)
LEMMA EndKeeps ==
  ASSUME StderrInv, EndOfStream
  PROVE  StderrInv'
<1> DEFINE flushed == Flushed([text |-> buf, held |-> held]).text
           z == handleStderrLine(flushed, listens)
           all == calls \o z
           H == Heard(text, LineStarts(text), listens)
<1>1. /\ phase = "reading" /\ pos = Len(text) /\ calls' = Made(all)
      /\ phase' = IF Threw(calls') THEN "failed" ELSE "done"
      /\ text' = text /\ throwsAt' = throwsAt /\ listens' = listens
      /\ pos' = pos /\ held' = held /\ buf' = buf
  BY DEF EndOfStream, Leftover, input
<1>2. /\ text \in Text /\ held \in Text /\ buf \in Text /\ pos \in 0..Len(text)
      /\ calls \in Seq(Events) /\ throwsAt \in Nat
      /\ Told(SubSeq(text, 1, pos), listens, calls, buf, held)
  BY <1>1 DEF StderrInv
<1>3. Told(text, listens, calls, buf, held)
  <2>1. SubSeq(text, 1, Len(text)) = text
    BY <1>2 DEF Text
  <2> QED BY <1>1, <1>2, <2>1
<1>4. PICK s : Open(text, s) /\ Reads(buf, held, Current(text, s))
  BY <1>3 DEF Told
<1>5. flushed = buf \o Pending(held)
  <2>1. CASE held = <<>>
    BY <1>2, <2>1 DEF Flushed, Pending, Text
  <2>2. CASE held # <<>>
    <3>1. Bad \in Chars
      BY StderrAssumption
    <3>2. Append(buf, Bad) = buf \o <<Bad>>
      BY <1>2, <3>1, AppendIsConcat DEF Text
    <3> QED BY <2>2, <3>2 DEF Flushed, Pending
  <2> QED BY <2>1, <2>2
<1>6. flushed = Spelt(Current(text, s))
  BY <1>4, <1>5 DEF Reads
<1> HIDE DEF flushed
<1>7. z \in Seq(Events) /\ all = H
  <2>1. Current(text, s) \in Text
    BY <1>2, <1>4, CurrentIs
  <2>2. Spelt(Current(text, s)) \in Text
    BY <2>1, SpeltType
  <2>3. z \in Seq(Events)
    BY <1>6, <2>2, HandledType
  <2>4. calls = Heard(text, Complete(text), listens)
    BY <1>3 DEF Told
  <2>5. H = Heard(text, Complete(text), listens) \o z
    BY <1>2, <1>4, <1>6, HeardAll
  <2> QED BY <2>3, <2>4, <2>5
<1> HIDE DEF z
<1>8. all \in Seq(Events)
  <2>1. z \in Seq(Events) /\ calls \in Seq(Events)
    BY <1>2, <1>7
  <2> QED BY <2>1, ConcatProperties
<1> HIDE DEF all
<1>9. calls' \in Seq(Events) /\ (Threw(calls))' = Threw(Made(all))
  BY <1>1, <1>2, <1>8, MadeIs DEF Threw
<1>10. CASE Threw(Made(all))
  <2>1. \E y \in Seq(Events) : H = all \o y
    <3>1. all = all \o <<>> /\ <<>> \in Seq(Events)
      BY <1>8
    <3> QED BY <1>7, <3>1
  <2>2. NothingAfterThrow'
    BY <1>1, <1>2, <1>8, <1>10, <2>1, MadeOf
  <2>3. phase' = "failed"
    BY <1>1, <1>10
  <2>4. EverythingHeard'
    BY <2>3 DEF EverythingHeard
  <2> QED BY <1>1, <1>2, <1>9, <2>2, <2>3, <2>4 DEF StderrInv
<1>11. CASE ~Threw(Made(all))
  <2>1. calls' = all /\ phase' = "done"
    BY <1>1, <1>2, <1>8, <1>11, MadeIs
  <2>2. NothingAfterThrow'
    BY <2>1 DEF NothingAfterThrow
  <2>3. EverythingHeard'
    <3>1. H' = H
      BY <1>1
    <3>2. (calls = H)'
      BY <1>7, <2>1, <3>1
    <3> QED BY <3>2 DEF EverythingHeard
  <2> QED BY <1>1, <1>2, <1>9, <2>1, <2>2, <2>3 DEF StderrInv
<1> QED BY <1>10, <1>11

(* Whatever else happens to the document and the panels. *)
LEMMA StderrStill ==
  ASSUME StderrInv, UNCHANGED stderrVars
  PROVE  StderrInv'
<1>1. /\ text' = text /\ pos' = pos /\ held' = held /\ buf' = buf /\ calls' = calls
      /\ throwsAt' = throwsAt /\ listens' = listens /\ phase' = phase
  BY DEF stderrVars
<1>2. SubSeq(text, 1, pos)' = SubSeq(text, 1, pos) /\ Threw(calls)' = Threw(calls)
  BY <1>1 DEF Threw
<1>3. EverythingHeard' = EverythingHeard /\ NothingAfterThrow' = NothingAfterThrow
  BY <1>1 DEF EverythingHeard, NothingAfterThrow
<1>4. Told(SubSeq(text, 1, pos), listens, calls, buf, held)' =
        Told(SubSeq(text, 1, pos), listens, calls, buf, held)
  BY <1>1
<1> QED BY <1>1, <1>2, <1>3, <1>4 DEF StderrInv

(* It says what the run checks. *)
LEMMA StderrSays ==
  ASSUME StderrInv
  PROVE  EachLineOnce
<1>1. LiveLines
  <2> SUFFICES ASSUME phase = "reading"
               PROVE  LET received == SubSeq(text, 1, pos)
                      IN calls = Made(Heard(received, Complete(received), listens))
    BY DEF LiveLines
  <2> DEFINE received == SubSeq(text, 1, pos)
             H == Heard(received, Complete(received), listens)
  <2>1. calls = H /\ ~Threw(calls) /\ throwsAt \in Nat /\ calls \in Seq(Events)
    BY DEF StderrInv, Told
  <2>2. Made(calls) = calls
    BY <2>1 DEF Made, Threw
  <2> HIDE DEF H, received
  <2>3. calls = Made(H)
    BY <2>1, <2>2
  <2> QED BY <2>3 DEF H, received
<1>2. \A e \in ToSet(calls) : IsEvent(e)
  <2>1. ToSet(calls) \subseteq Events
    BY DEF StderrInv, ToSet
  <2> QED BY <2>1, EventsAreEvents
<1> QED BY <1>1, <1>2 DEF EachLineOnce, StderrInv

(* Each step of a sidecar keeps it. *)
LEMMA StderrKept == StderrInv /\ [Next]_vars => StderrInv'
<1> SUFFICES ASSUME StderrInv, [Next]_vars PROVE StderrInv'
  OBVIOUS
<1>1. CASE ReadStderr
  BY <1>1, ChunkKeeps, EndKeeps DEF ReadStderr, StderrNext
<1>2. CASE HandleDocument
  BY <1>2, StderrStill DEF HandleDocument
<1>3. CASE Show
  BY <1>3, StderrStill DEF Show
<1>4. CASE UNCHANGED vars
  BY <1>4, StderrStill DEF vars
<1> QED BY <1>1, <1>2, <1>3, <1>4 DEF Next

(* Whatever the pipe, the child and the listener do, readStderr surfaces   *)
(* each line once, in order, as an event of a known type, and nothing after *)
(* a call that throws.                                                     *)
THEOREM EachLineOnceHolds == Spec => []EachLineOnce
<1>1. Init => StderrInv
  <2> SUFFICES ASSUME Init PROVE StderrInv
    OBVIOUS
  <2>1. PICK o \in Outputs : StderrInit(o[1])
    BY DEF Init
  <2>2. o[1] \in Text
    BY SidecarAssumption DEF Text
  <2> QED BY <2>1, <2>2, StderrStarts
<1>2. StderrInv => EachLineOnce
  BY StderrSays
<1> QED BY <1>1, <1>2, StderrKept, PTL DEF Spec

-----------------------------------------------------------------------------
(* Documents *)

(* A set of values that holds what each of them is made of. *)
Closed(W) == \A x \in W : IsValue(x) /\ Parts(x) \subseteq W

(* The layers of a value are what their definition says, for every depth. *)
LEMMA LayersAre ==
  ASSUME NEW v
  PROVE  /\ Layers(v)[0] = {v}
         /\ \A n \in 1..Depth : Layers(v)[n] = UNION {Parts(x) : x \in Layers(v)[n-1]}
<1> DEFINE Up(s) == UNION {Parts(x) : x \in s}
           Eq(f, k) == f = [n \in 0..k |-> IF n = 0 THEN {v} ELSE Up(f[n-1])]
           S == {k \in Nat : \E f : Eq(f, k)}
<1>1. 0 \in S
  <2> DEFINE f == [n \in 0..0 |-> {v}]
  <2>1. Eq(f, 0)
    <3> HIDE DEF Up
    <3> QED OBVIOUS
  <2> HIDE DEF f, Eq
  <2> QED BY <2>1
<1>2. ASSUME NEW k \in Nat, k \in S PROVE k + 1 \in S
  <2>1. PICK f : Eq(f, k)
    BY <1>2
  <2> HIDE DEF Up
  <2> DEFINE g == [n \in 0..k + 1 |-> IF n = k + 1 THEN Up(f[k]) ELSE f[n]]
             h == [n \in 0..k + 1 |-> IF n = 0 THEN {v} ELSE Up(g[n-1])]
  <2>2. \A n \in 0..k + 1 : g[n] = h[n]
    <3>1. ASSUME NEW n \in 0..k + 1 PROVE g[n] = h[n]
      <4>1. CASE n = k + 1
        <5>1. n - 1 = k /\ n # 0 /\ k # k + 1 /\ k \in 0..k + 1
          BY <4>1
        <5>2. g[k] = f[k]
          BY <5>1
        <5>3. g[n] = Up(f[k]) /\ h[n] = Up(g[k])
          BY <4>1, <5>1
        <5> QED BY <5>2, <5>3
      <4>2. CASE n # k + 1
        <5>1. n \in 0..k
          BY <4>2
        <5>2. f[n] = IF n = 0 THEN {v} ELSE Up(f[n-1])
          BY <2>1, <5>1
        <5>3. n # 0 => n - 1 \in 0..k + 1 /\ n - 1 # k + 1
          BY <5>1
        <5>4. n # 0 => g[n-1] = f[n-1]
          BY <5>3
        <5> QED BY <4>2, <5>2, <5>4
      <4> QED BY <4>1, <4>2
    <3> QED BY <3>1
  <2>3. g = h
    <3>1. g = [n \in 0..k + 1 |-> g[n]] /\ h = [n \in 0..k + 1 |-> h[n]]
      OBVIOUS
    <3> HIDE DEF g, h
    <3> QED BY <2>2, <3>1
  <2>4. Eq(g, k + 1)
    BY <2>3
  <2> HIDE DEF g, Eq
  <2> QED BY <2>4
<1>3. Depth \in S
  <2>1. Depth \in Nat
    BY ContractAssumption
  <2>2. \A k \in Nat : k < Depth /\ k \in S => k + 1 \in S
    BY <1>2
  <2> HIDE DEF S
  <2>3. \A k \in 0..Depth : k \in S
    BY <1>1, <2>1, <2>2, Inductive
  <2> QED BY <2>1, <2>3
<1>4. Eq(Layers(v), Depth)
  <2>1. Layers(v) = CHOOSE f : Eq(f, Depth)
    BY DEF Layers
  <2>2. \E f : Eq(f, Depth)
    <3> HIDE DEF Eq
    <3> QED BY <1>3
  <2> HIDE DEF Eq
  <2> QED BY <2>1, <2>2
<1> DEFINE L == Layers(v)
<1>5. L = [n \in 0..Depth |-> IF n = 0 THEN {v} ELSE Up(L[n-1])]
  BY <1>4
<1> HIDE DEF L, Up
<1> DEFINE M == [n \in 0..Depth |-> IF n = 0 THEN {v} ELSE Up(L[n-1])]
<1>6. L[0] = {v} /\ \A n \in 1..Depth : L[n] = Up(L[n-1])
  <2>1. M[0] = {v} /\ \A n \in 1..Depth : M[n] = Up(L[n-1])
    BY ContractAssumption
  <2>2. L = M
    BY <1>5
  <2> HIDE DEF M
  <2> QED BY <2>1, <2>2
<1> QED BY <1>6 DEF L, Up

(* What a document is made of is made of itself and values within. *)
LEMMA DocumentClosed ==
  ASSUME NEW v, IsDocument(v)
  PROVE  v \in Within(v) /\ Closed(Within(v))
<1> DEFINE L == Layers(v)
           W == Within(v)
<1>1. L[0] = {v} /\ \A n \in 1..Depth : L[n] = UNION {Parts(x) : x \in L[n-1]}
  BY LayersAre
<1>2. Depth \in Nat /\ W = UNION {L[n] : n \in 0..Depth}
  BY ContractAssumption DEF Within
<1>3. (\A x \in W : IsValue(x)) /\ \A x \in L[Depth] : Parts(x) = {}
  BY DEF IsDocument
<1> HIDE DEF L, W
<1>4. v \in W
  BY <1>1, <1>2
<1>5. ASSUME NEW x \in W PROVE Parts(x) \subseteq W
  <2>1. PICK n \in 0..Depth : x \in L[n]
    BY <1>2
  <2>2. CASE n = Depth
    BY <1>3, <2>1, <2>2
  <2>3. CASE n # Depth
    <3>1. n + 1 \in 1..Depth /\ (n + 1) - 1 = n
      BY <1>2, <2>1, <2>3
    <3>2. L[n + 1] = UNION {Parts(y) : y \in L[n]}
      BY <1>1, <3>1
    <3>3. Parts(x) \subseteq L[n + 1]
      BY <2>1, <3>2
    <3>4. n + 1 \in 0..Depth
      BY <3>1
    <3> QED BY <1>2, <3>3, <3>4
  <2> QED BY <2>2, <2>3
<1> QED BY <1>3, <1>4, <1>5 DEF Closed, W

(* Nothing outside a closed set is within one of its values. *)
LEMMA WithinClosed ==
  ASSUME NEW W, Closed(W), NEW v \in W
  PROVE  Within(v) \subseteq W /\ v \in Within(v)
<1> DEFINE L == Layers(v)
<1>1. L[0] = {v} /\ \A n \in 1..Depth : L[n] = UNION {Parts(x) : x \in L[n-1]}
  BY LayersAre
<1>2. Depth \in Nat /\ Within(v) = UNION {L[n] : n \in 0..Depth}
  BY ContractAssumption DEF Within
<1> HIDE DEF L
<1>3. ASSUME NEW n \in 1..Depth, L[n-1] \in SUBSET W PROVE L[n] \in SUBSET W
  <2>1. \A x \in L[n-1] : Parts(x) \subseteq W
    BY <1>3 DEF Closed
  <2> QED BY <1>1, <2>1
<1>4. \A n \in 0..Depth : L[n] \in SUBSET W
  <2>1. \A n \in 1..Depth : L[n-1] \in SUBSET W => L[n] \in SUBSET W
    BY <1>3
  <2>2. L[0] \in SUBSET W
    BY <1>1
  <2> QED BY <1>2, <2>1, <2>2, Kept
<1>5. v \in Within(v)
  BY <1>1, <1>2
<1> QED BY <1>2, <1>4, <1>5

-----------------------------------------------------------------------------
(* The types of values. *)
LEMMA ValueIs ==
  ASSUME NEW W, Closed(W), NEW x \in W
  PROVE  /\ Type(x) # "undefined"
         /\ Type(x) = "null" <=> x = Null
         /\ Type(x) = "num" => x[2] \in Int /\ x = Num(x[2])
         /\ Type(x) = "arr" => x[2] \in Seq(W) /\ Items(x) \subseteq W /\ x = Arr(x[2])
         /\ Type(x) = "obj" => (\A k \in Keys(x) : x[2][k] \in W) /\ x = Obj(x[2])
                                 /\ x[2] = [k \in Keys(x) |-> x[2][k]]
<1>1. IsValue(x) /\ Parts(x) \subseteq W
  BY DEF Closed
<1>2. Type(x) # "undefined"
  BY <1>1 DEF IsValue, Type, Null, Num, Str, Arr, Obj
<1>3. Type(x) = "null" <=> x = Null
  BY <1>1 DEF IsValue, Type, Null, Num, Str, Arr, Obj
<1>4. Type(x) = "num" => x[2] \in Int /\ x = Num(x[2])
  BY <1>1 DEF IsValue, Type, Null, Num, Str, Arr, Obj
<1>5. ASSUME Type(x) = "arr"
      PROVE  x[2] \in Seq(W) /\ Items(x) \subseteq W /\ x = Arr(x[2])
  <2>1. x = Arr(x[2]) /\ x[2] \in Seq(Items(x))
    BY <1>1, <1>5 DEF IsValue, Type, Null, Num, Str, Arr, Obj
  <2>2. Items(x) \subseteq W
    BY <1>1, <1>5 DEF Parts
  <2>3. \A s \in Seq(Items(x)) : s \in Seq(W)
    <3> HIDE DEF Items
    <3> QED BY <2>2
  <2> QED BY <2>1, <2>2, <2>3
<1>6. ASSUME Type(x) = "obj"
      PROVE  (\A k \in Keys(x) : x[2][k] \in W) /\ x = Obj(x[2]) /\ x[2] = [k \in Keys(x) |-> x[2][k]]
  <2>1. x = Obj(x[2]) /\ x[2] = [k \in Keys(x) |-> x[2][k]]
    BY <1>1, <1>6 DEF IsValue, Type, Null, Num, Str, Arr, Obj
  <2>2. Items(x) \subseteq W
    BY <1>1, <1>6 DEF Parts
  <2>3. \A k \in Keys(x) : x[2][k] \in Items(x)
    BY DEF Items, Keys
  <2> QED BY <2>1, <2>2, <2>3
<1> QED BY <1>2, <1>3, <1>4, <1>5, <1>6

(* A field that is there, and one that is not. *)
LEMMA FieldIs ==
  ASSUME NEW W, Closed(W), NEW o \in W, Type(o) = "obj", NEW k
  PROVE  /\ k \in Keys(o) => Get(o, k) = o[2][k] /\ o[2][k] \in W /\ Type(Get(o, k)) # "undefined"
         /\ k \notin Keys(o) => Get(o, k) = Undefined /\ Type(Get(o, k)) = "undefined"
<1>1. \A j \in Keys(o) : o[2][j] \in W
  BY ValueIs
<1>2. CASE k \in Keys(o)
  <2>1. Get(o, k) = o[2][k] /\ o[2][k] \in W
    BY <1>1, <1>2 DEF Get, Keys
  <2>2. \A x \in W : Type(x) # "undefined"
    BY ValueIs
  <2>3. Type(o[2][k]) # "undefined"
    BY <2>1, <2>2
  <2> QED BY <1>2, <2>1, <2>3
<1>3. CASE k \notin Keys(o)
  BY <1>3 DEF Get, Keys, Undefined, Type
<1> QED BY <1>2, <1>3

(* A text is not undefined. *)
LEMMA StrsAre ==
  ASSUME NEW S, NEW x \in Strs(S)
  PROVE  Type(x) = "str"
BY DEF Strs, Str, Type

(* A field whose type is known is there. *)
LEMMA Field ==
  ASSUME NEW W, Closed(W), NEW o \in W, isObj(o)
  PROVE  /\ \A k : Type(Get(o, k)) # "undefined" => k \in Keys(o)
         /\ \A k \in Keys(o) : Get(o, k) = o[2][k] /\ Get(o, k) \in W
         /\ \A k, S : Get(o, k) \in Strs(S) => Type(Get(o, k)) = "str"
         /\ \A k : Get(o, k) = Null => Type(Get(o, k)) = "null"
<1>0. Type(o) = "obj"
  BY DEF isObj
<1>1. \A k : Type(Get(o, k)) # "undefined" => k \in Keys(o)
  BY <1>0, FieldIs
<1>2. \A k \in Keys(o) : Get(o, k) = o[2][k] /\ Get(o, k) \in W
  BY <1>0, FieldIs
<1>3. \A k, S : Get(o, k) \in Strs(S) => Type(Get(o, k)) = "str"
  BY StrsAre
<1>4. \A k : Get(o, k) = Null => Type(Get(o, k)) = "null"
  BY DEF Null, Type
<1> QED BY <1>1, <1>2, <1>3, <1>4

(* The validator and the schema mean the same by a key. *)
LEMMA KeySame ==
  ASSUME NEW W, Closed(W), NEW v \in W
  PROVE  validateKey(v) <=> KeySchema(v)
<1> DEFINE R == {"tonic", "mode", "confidence"}
<1>1. CASE ~isObj(v)
  BY <1>1 DEF validateKey, KeySchema, Shaped, isObj
<1>2. CASE isObj(v)
  <2>1. /\ \A k : Type(Get(v, k)) # "undefined" => k \in Keys(v)
        /\ \A k \in Keys(v) : Get(v, k) = v[2][k]
        /\ \A k, S : Get(v, k) \in Strs(S) => Type(Get(v, k)) = "str"
    BY <1>2, Field
  <2>2. ASSUME validateKey(v) PROVE Keys(v) = R
    <3>1. "tonic" \in Keys(v)
      BY <2>1, <2>2 DEF validateKey, reqStr
    <3>2. "mode" \in Keys(v)
      <4>1. Type(Get(v, "mode")) = "str"
        BY <2>1, <2>2 DEF validateKey
      <4> QED BY <2>1, <4>1
    <3>3. "confidence" \in Keys(v)
      BY <2>1, <2>2 DEF validateKey, reqNum
    <3>4. Keys(v) \subseteq R
      BY <2>2 DEF validateKey, noExtra
    <3> QED BY <3>1, <3>2, <3>3, <3>4
  <2>3. ASSUME KeySchema(v) PROVE Keys(v) = R
    BY <2>3 DEF KeySchema, Shaped
  <2>4. ASSUME Keys(v) = R PROVE validateKey(v) <=> KeySchema(v)
    <3>1. /\ Get(v, "tonic") = v[2].tonic /\ Get(v, "mode") = v[2].mode
          /\ Get(v, "confidence") = v[2].confidence
      BY <2>1, <2>4
    <3> QED BY <1>2, <2>4, <3>1
            DEF validateKey, KeySchema, Shaped, isObj, noExtra, reqStr, reqNum, unitInterval, Ranged
  <2> QED BY <2>2, <2>3, <2>4
<1> QED BY <1>1, <1>2

(* The words a schema lists are the validator's. *)
Agrees(words) ==
  /\ words.name = EngineNames /\ words.confidenceKind = ConfidenceKinds
  /\ words.capability = Capabilities /\ words.contractVersion = Versions

LEMMA WordsAgree ==
  Agrees(AnalysisWords) /\ Agrees(InfoWords) /\ ErrorKinds = Strs(DOMAIN ErrorKindExit)
<1>1. Agrees(AnalysisWords)
  BY DEF Agrees, AnalysisWords, EngineNames, ConfidenceKinds, Capabilities, Versions
<1>2. Agrees(InfoWords)
  BY DEF Agrees, InfoWords, EngineNames, ConfidenceKinds, Capabilities, Versions
<1>3. DOMAIN ErrorKindExit = {"bad_input", "decode_failed", "engine_unavailable", "internal"}
  BY DEF ErrorKindExit
<1> QED BY <1>1, <1>2, <1>3 DEF ErrorKinds

(* ... by the fields of an engine ... *)
LEMMA EngineSame ==
  ASSUME NEW W, Closed(W), NEW v \in W, isObj(v), NEW words, Agrees(words)
  PROVE  /\ engineFields(v) => EngineFields \subseteq Keys(v)
         /\ EngineFields \subseteq Keys(v) => (engineFields(v) <=> EngineSchema(v, words))
<1>1. /\ \A k : Type(Get(v, k)) # "undefined" => k \in Keys(v)
      /\ \A k \in Keys(v) : Get(v, k) = v[2][k]
      /\ \A k, S : Get(v, k) \in Strs(S) => Type(Get(v, k)) = "str"
  BY Field
<1>2. ASSUME engineFields(v) PROVE EngineFields \subseteq Keys(v)
  <2>1. Get(v, "name") \in EngineNames /\ Get(v, "confidenceKind") \in ConfidenceKinds
    BY <1>2 DEF engineFields
  <2>2. Type(Get(v, "name")) = "str" /\ Type(Get(v, "confidenceKind")) = "str"
    BY <1>1, <2>1 DEF EngineNames, ConfidenceKinds
  <2>3. /\ Type(Get(v, "modelVersions")) = "obj"
        /\ Type(Get(v, "version")) = "str" /\ Type(Get(v, "license")) = "str"
    BY <1>2 DEF engineFields, isObj, reqStr
  <2>4. /\ "name" \in Keys(v) /\ "confidenceKind" \in Keys(v) /\ "modelVersions" \in Keys(v)
        /\ "version" \in Keys(v) /\ "license" \in Keys(v)
    BY <1>1, <2>2, <2>3
  <2> QED BY <2>4 DEF EngineFields
<1>3. ASSUME EngineFields \subseteq Keys(v) PROVE engineFields(v) <=> EngineSchema(v, words)
  <2>1. /\ Get(v, "name") = v[2].name /\ Get(v, "confidenceKind") = v[2].confidenceKind
        /\ Get(v, "modelVersions") = v[2].modelVersions
        /\ Get(v, "version") = v[2].version /\ Get(v, "license") = v[2].license
    BY <1>1, <1>3 DEF EngineFields
  <2> QED BY <2>1 DEF engineFields, EngineSchema, isObj, reqStr, Agrees
<1> QED BY <1>2, <1>3

(* ... by an error ... *)
LEMMA ErrorSame ==
  ASSUME NEW W, Closed(W), NEW v \in W
  PROVE  validateEngineError(v) <=>
           /\ \E required \in {{"kind", "detail"}, {"kind", "detail", "hint"}} : Shaped(v, required)
           /\ v[2].kind \in ErrorKinds /\ \A k \in Keys(v) : Type(v[2][k]) = "str"
<1> DEFINE A == {"kind", "detail"}
           B == {"kind", "detail", "hint"}
<1>1. CASE ~isObj(v)
  BY <1>1 DEF validateEngineError, Shaped, isObj
<1>2. CASE isObj(v)
  <2>1. /\ \A k : Type(Get(v, k)) # "undefined" => k \in Keys(v)
        /\ \A k \in Keys(v) : Get(v, k) = v[2][k]
        /\ \A k, S : Get(v, k) \in Strs(S) => Type(Get(v, k)) = "str"
    BY <1>2, Field
  <2>2. "hint" \notin Keys(v) => Get(v, "hint") = Undefined
    BY <1>2, FieldIs DEF isObj
  <2>3. "hint" \in Keys(v) => Get(v, "hint") # Undefined
    <3>1. "hint" \in Keys(v) => Type(Get(v, "hint")) # "undefined"
      BY <1>2, FieldIs DEF isObj
    <3> QED BY <3>1 DEF Type, Undefined
  <2>4. ASSUME validateEngineError(v) PROVE Keys(v) = A \/ Keys(v) = B
    <3>1. Get(v, "kind") \in ErrorKinds /\ Type(Get(v, "detail")) = "str" /\ Keys(v) \subseteq B
      BY <2>4 DEF validateEngineError, noExtra, reqStr
    <3>2. Type(Get(v, "kind")) = "str"
      BY <2>1, <3>1 DEF ErrorKinds
    <3>3. "kind" \in Keys(v) /\ "detail" \in Keys(v)
      BY <2>1, <3>1, <3>2
    <3> QED BY <3>1, <3>3
  <2>5. ASSUME Keys(v) = A \/ Keys(v) = B
        PROVE  validateEngineError(v) <=>
                 v[2].kind \in ErrorKinds /\ \A k \in Keys(v) : Type(v[2][k]) = "str"
    <3>1. Get(v, "kind") = v[2].kind /\ Get(v, "detail") = v[2].detail /\ Keys(v) \subseteq B
      BY <2>1, <2>5
    <3>2. v[2].kind \in ErrorKinds => Type(v[2].kind) = "str"
      BY <2>1, <3>1 DEF ErrorKinds
    <3>3. validateEngineError(v) <=>
            /\ v[2].kind \in ErrorKinds /\ Type(v[2].detail) = "str"
            /\ Get(v, "hint") = Undefined \/ Type(Get(v, "hint")) = "str"
      BY <1>2, <3>1 DEF validateEngineError, noExtra, reqStr
    <3>4. "hint" \in Keys(v) => Get(v, "hint") = v[2].hint
      BY <2>1
    <3> QED BY <2>2, <2>3, <2>5, <3>2, <3>3, <3>4
  <2>6. Shaped(v, A) \/ Shaped(v, B) <=> Keys(v) = A \/ Keys(v) = B
    BY <1>2 DEF Shaped, isObj
  <2> QED BY <2>4, <2>5, <2>6
<1> QED BY <1>1, <1>2

(* As many elements as places: none stands in two of them. *)
LEMMA UniqueIs ==
  ASSUME NEW S, NEW s \in Seq(S)
  PROVE  LET T == {s[i] : i \in DOMAIN s}
         IN Cardinality(T) = Len(s) <=> \A i, j \in DOMAIN s : s[i] = s[j] => i = j
<1> DEFINE T == {s[i] : i \in DOMAIN s}
           D == 1..Len(s)
           f == [i \in D |-> s[i]]
<1>1. DOMAIN s = D /\ Len(s) \in Nat
  OBVIOUS
<1>2. IsFiniteSet(D) /\ Cardinality(D) = Len(s)
  <2>1. IsFiniteSet(1..Len(s)) /\ Cardinality(1..Len(s)) = IF 1 > Len(s) THEN 0 ELSE Len(s) - 1 + 1
    BY <1>1, FS_Interval
  <2> QED BY <1>1, <2>1
<1>3. f \in Surjection(D, T)
  <2>1. f \in [D -> T] /\ \A t \in T : \E i \in D : f[i] = t
    BY <1>1
  <2> QED BY <2>1 DEF Surjection
<1>4. Cardinality(T) = Cardinality(D) <=> f \in Injection(D, T)
  <2> HIDE DEF T, D, f
  <2> QED BY <1>2, <1>3, FS_Surjection
<1>5. f \in Injection(D, T) <=> \A i, j \in D : s[i] = s[j] => i = j
  <2>1. f \in [D -> T]
    BY <1>1
  <2>2. f \in Injection(D, T) <=> \A i, j \in D : f[i] = f[j] => i = j
    <3> HIDE DEF f, D, T
    <3> QED BY <2>1 DEF Injection, IsInjective
  <2> QED BY <2>2
<1> QED BY <1>1, <1>2, <1>4, <1>5

(* ... by the list of capabilities ... *)
LEMMA CapabilitiesSame ==
  ASSUME NEW W, Closed(W), NEW v \in W, NEW words, Agrees(words)
  PROVE  validateCapabilities(v) <=> CapabilitiesSchema(v, words)
<1>1. CASE Type(v) = "arr"
  <2>1. v[2] \in Seq(W)
    BY <1>1, ValueIs
  <2> DEFINE s == v[2]
  <2>2. Cardinality(Items(v)) = Len(s) <=> \A i, j \in DOMAIN s : s[i] = s[j] => i = j
    <3>1. s \in Seq(W)
      BY <2>1
    <3> HIDE DEF s
    <3>2. LET T == {s[i] : i \in DOMAIN s}
          IN Cardinality(T) = Len(s) <=> \A i, j \in DOMAIN s : s[i] = s[j] => i = j
      BY <3>1, UniqueIs
    <3> QED BY <3>2 DEF s, Items
  <2> QED BY <2>2 DEF validateCapabilities, CapabilitiesSchema, Listed, Unique, Agrees
<1>2. CASE Type(v) # "arr"
  BY <1>2 DEF validateCapabilities, CapabilitiesSchema, Listed
<1> QED BY <1>1, <1>2

-----------------------------------------------------------------------------
(* What both sides ask of a chord by itself ... *)
Form(s) ==
  /\ Shaped(s, SegmentFields)
  /\ Type(s[2].start) = "num" /\ Type(s[2].end) = "num"
  /\ Type(s[2].label) = "str" /\ Type(s[2].root) \in {"str", "null"} /\ Type(s[2].quality) = "str"
  /\ s[2].confidence = Null \/ Ranged(s[2].confidence, 0, One)

(* ... of its root ... *)
Rooted(s) ==
  IF s[2].label = Str("N") THEN s[2].root = Null /\ s[2].quality = Str("N") ELSE s[2].root # Null

(* ... and of its place. *)
Placed(s, prevEnd) ==
  s[2].end[2] > s[2].start[2] /\ s[2].start[2] - prevEnd \in -Eps..Eps

(* Both sides mean the same by a tolerance. *)
LEMMA NearIs ==
  ASSUME NEW n \in Int
  PROVE  Abs(n) <= Eps <=> n \in -Eps..Eps
BY ContractAssumption DEF Abs

(* ... by a chord. *)
LEMMA SegmentSame ==
  ASSUME NEW W, Closed(W), NEW s \in W, NEW prevEnd \in Int
  PROVE  validateSegment(s, prevEnd) <=> Form(s) /\ Rooted(s) /\ Placed(s, prevEnd)
<1> DEFINE R == SegmentFields
<1>1. CASE ~isObj(s)
  BY <1>1 DEF validateSegment, Form, Shaped, isObj
<1>2. CASE isObj(s)
  <2>1. /\ \A k : Type(Get(s, k)) # "undefined" => k \in Keys(s)
        /\ \A k \in Keys(s) : Get(s, k) = s[2][k] /\ Get(s, k) \in W
        /\ \A k : Get(s, k) = Null => Type(Get(s, k)) = "null"
    BY <1>2, Field
  <2>2. ASSUME validateSegment(s, prevEnd) PROVE Keys(s) = R
    <3>1. /\ Type(Get(s, "start")) = "num" /\ Type(Get(s, "end")) = "num"
          /\ Type(Get(s, "label")) = "str" /\ Type(Get(s, "quality")) = "str"
          /\ Get(s, "root") = Null \/ Type(Get(s, "root")) = "str"
          /\ Get(s, "confidence") = Null \/ Type(Get(s, "confidence")) = "num"
          /\ Keys(s) \subseteq R
      BY <2>2 DEF validateSegment, noExtra, reqNum, reqStr
    <3>2. Type(Get(s, "root")) # "undefined" /\ Type(Get(s, "confidence")) # "undefined"
      BY <2>1, <3>1
    <3>3. /\ "start" \in Keys(s) /\ "end" \in Keys(s) /\ "label" \in Keys(s)
          /\ "quality" \in Keys(s) /\ "root" \in Keys(s) /\ "confidence" \in Keys(s)
      BY <2>1, <3>1, <3>2
    <3>4. R \subseteq Keys(s)
      BY <3>3 DEF SegmentFields
    <3> QED BY <3>1, <3>4
  <2>3. ASSUME Form(s) PROVE Keys(s) = R
    BY <2>3 DEF Form, Shaped
  <2>4. ASSUME Keys(s) = R
        PROVE  validateSegment(s, prevEnd) <=> Form(s) /\ Rooted(s) /\ Placed(s, prevEnd)
    <3>1. /\ Get(s, "start") = s[2].start /\ Get(s, "end") = s[2].end
          /\ Get(s, "label") = s[2].label /\ Get(s, "quality") = s[2].quality
          /\ Get(s, "root") = s[2].root /\ Get(s, "confidence") = s[2].confidence
      BY <2>1, <2>4 DEF SegmentFields
    <3>2. s[2].start \in W /\ s[2].end \in W /\ s[2].root \in W
      BY <2>1, <2>4 DEF SegmentFields
    <3>3. /\ Type(s[2].start) = "num" => s[2].start[2] \in Int
          /\ Type(s[2].root) = "null" <=> s[2].root = Null
      <4>1. \A x \in W : /\ Type(x) = "num" => x[2] \in Int
                         /\ Type(x) = "null" <=> x = Null
        BY ValueIs
      <4> QED BY <3>2, <4>1
    <3>4. Type(s[2].start) = "num" =>
            (Abs(s[2].start[2] - prevEnd) <= Eps <=> s[2].start[2] - prevEnd \in -Eps..Eps)
      BY <3>3, NearIs
    <3>5. s[2].root = Null \/ Type(s[2].root) = "str" <=> Type(s[2].root) \in {"str", "null"}
      BY <3>3
    <3> DEFINE a == s[2].start
               b == s[2].end
               c == s[2].confidence
               r == s[2].root
    <3>6. validateSegment(s, prevEnd) <=>
            /\ Type(a) = "num" /\ Type(b) = "num"
            /\ Type(s[2].label) = "str" /\ Type(s[2].quality) = "str"
            /\ r = Null \/ Type(r) = "str"
            /\ c = Null \/ (Type(c) = "num" /\ unitInterval(c))
            /\ b[2] > a[2] /\ Abs(a[2] - prevEnd) <= Eps
            /\ Rooted(s)
      <4>1. isObj(s) /\ noExtra(s, SegmentFields)
        BY <1>2, <2>4 DEF noExtra
      <4> QED BY <3>1, <4>1 DEF validateSegment, reqNum, reqStr, Rooted
    <3>7. Form(s) <=>
            /\ Type(a) = "num" /\ Type(b) = "num"
            /\ Type(s[2].label) = "str" /\ Type(s[2].quality) = "str"
            /\ Type(r) \in {"str", "null"}
            /\ c = Null \/ (Type(c) = "num" /\ unitInterval(c))
      <4>1. Shaped(s, SegmentFields)
        BY <1>2, <2>4 DEF Shaped, isObj
      <4> QED BY <4>1 DEF Form, Ranged, unitInterval
    <3>8. Placed(s, prevEnd) <=> b[2] > a[2] /\ a[2] - prevEnd \in -Eps..Eps
      BY DEF Placed
    <3> HIDE DEF a, b, c, r
    <3> QED BY <3>4, <3>5, <3>6, <3>7, <3>8 DEF a, b, r
  <2> QED BY <2>2, <2>3, <2>4
<1> QED BY <1>1, <1>2

(* A chord that says where it ends. *)
Ends(s) == isObj(s) /\ reqNum(s, "end")

(* Its end and its start are numbers. *)
LEMMA EndIs ==
  ASSUME NEW W, Closed(W), NEW s \in W
  PROVE  /\ Ends(s) => Get(s, "end") = s[2].end /\ s[2].end[2] \in Int
         /\ Form(s) => Ends(s) /\ s[2].start[2] \in Int
         /\ \A prevEnd : validateSegment(s, prevEnd) => Ends(s)
<1>0. \A x \in W : Type(x) = "num" => x[2] \in Int
  BY ValueIs
<1>1. ASSUME Ends(s) PROVE Get(s, "end") = s[2].end /\ s[2].end[2] \in Int
  <2>1. isObj(s) /\ Type(Get(s, "end")) = "num"
    BY <1>1 DEF Ends, reqNum
  <2>2. "end" \in Keys(s)
    BY <2>1, Field
  <2>3. Get(s, "end") = s[2].end /\ Get(s, "end") \in W
    BY <2>1, <2>2, Field
  <2> QED BY <1>0, <2>1, <2>3
<1>2. ASSUME Form(s) PROVE Ends(s) /\ s[2].start[2] \in Int
  <2>1. /\ isObj(s) /\ Keys(s) = SegmentFields
        /\ Type(s[2].start) = "num" /\ Type(s[2].end) = "num"
    BY <1>2 DEF Form, Shaped, isObj
  <2>2. "end" \in Keys(s) /\ "start" \in Keys(s)
    BY <2>1 DEF SegmentFields
  <2>3. Get(s, "end") = s[2].end /\ Get(s, "start") = s[2].start /\ Get(s, "start") \in W
    BY <2>1, <2>2, Field
  <2> QED BY <1>0, <2>1, <2>3 DEF Ends, reqNum
<1>3. ASSUME NEW prevEnd, validateSegment(s, prevEnd) PROVE Ends(s)
  BY <1>3 DEF validateSegment, Ends
<1> QED BY <1>1, <1>2, <1>3

(* Where the i-th of some chords ends; before the first one is the start. *)
EndOf(segs, i) == IF i = 0 THEN 0 ELSE segs[i][2].end[2]

(* The places of chords, in the validator's order and as one condition. *)
LEMMA PlacesSame ==
  ASSUME NEW a, NEW W, Closed(W), a[2].chords[2] \in Seq(W), a[2].durationSec[2] \in Int,
         Len(a[2].chords[2]) # 0,
         \A i \in DOMAIN a[2].chords[2] : Form(a[2].chords[2][i])
  PROVE  LET segs == a[2].chords[2]
             n == Len(segs)
         IN Contiguous(a) <=>
              /\ \A i \in 1..n : Placed(segs[i], EndOf(segs, i - 1))
              /\ EndOf(segs, n) - a[2].durationSec[2] \in -Eps..Eps
<1> DEFINE segs == a[2].chords[2]
           n == Len(segs)
           d == a[2].durationSec[2]
           S(i) == segs[i][2].start[2]
           E(i) == segs[i][2].end[2]
<1>1. n \in Nat /\ n # 0 /\ segs \in Seq(W) /\ DOMAIN segs = 1..n /\ d \in Int
  OBVIOUS
<1>2. \A i \in 1..n : S(i) \in Int /\ E(i) \in Int
  <2>1. ASSUME NEW i \in 1..n PROVE S(i) \in Int /\ E(i) \in Int
    <3> DEFINE s == segs[i]
    <3>1. s \in W /\ Form(s)
      BY <1>1
    <3> HIDE DEF s
    <3>2. s[2].start[2] \in Int /\ s[2].end[2] \in Int
      BY <3>1, EndIs
    <3> QED BY <3>2 DEF s
  <2> QED BY <2>1
<1>3. Contiguous(a) <=>
        /\ S(1) - 0 \in -Eps..Eps /\ E(n) - d \in -Eps..Eps
        /\ \A i \in 1..n : S(i) < E(i)
        /\ \A i \in 1..n - 1 : E(i) - S(i + 1) \in -Eps..Eps
  BY <1>1 DEF Contiguous
<1>4. \A i \in 1..n : Placed(segs[i], EndOf(segs, i - 1)) <=>
        E(i) > S(i) /\ S(i) - (IF i = 1 THEN 0 ELSE E(i - 1)) \in -Eps..Eps
  BY <1>1 DEF Placed, EndOf
<1>5. EndOf(segs, n) = E(n)
  BY <1>1 DEF EndOf
<1> HIDE DEF S, E, segs, n, d
<1>6. Eps \in Nat
  BY ContractAssumption
<1>7. ASSUME \A i \in 1..n : S(i) - (IF i = 1 THEN 0 ELSE E(i - 1)) \in -Eps..Eps
      PROVE  S(1) - 0 \in -Eps..Eps /\ \A i \in 1..n - 1 : E(i) - S(i + 1) \in -Eps..Eps
  <2>1. 1 \in 1..n
    BY <1>1
  <2>2. ASSUME NEW i \in 1..n - 1 PROVE E(i) - S(i + 1) \in -Eps..Eps
    <3>1. i + 1 \in 1..n /\ i + 1 # 1 /\ (i + 1) - 1 = i /\ i \in 1..n
      BY <1>1
    <3>2. S(i + 1) - E(i) \in -Eps..Eps
      BY <1>7, <3>1
    <3> QED BY <1>2, <1>6, <3>1, <3>2
  <2> QED BY <1>7, <2>1, <2>2
<1>8. ASSUME S(1) - 0 \in -Eps..Eps /\ \A i \in 1..n - 1 : E(i) - S(i + 1) \in -Eps..Eps
      PROVE  \A i \in 1..n : S(i) - (IF i = 1 THEN 0 ELSE E(i - 1)) \in -Eps..Eps
  <2>1. ASSUME NEW i \in 1..n, i # 1 PROVE S(i) - E(i - 1) \in -Eps..Eps
    <3>1. i - 1 \in 1..n - 1 /\ (i - 1) + 1 = i /\ i - 1 \in 1..n
      BY <1>1, <2>1
    <3>2. E(i - 1) - S(i) \in -Eps..Eps
      BY <1>8, <3>1
    <3> QED BY <1>2, <1>6, <3>1, <3>2
  <2> QED BY <1>8, <2>1
<1>9. (\A i \in 1..n : S(i) < E(i)) <=> \A i \in 1..n : E(i) > S(i)
  BY <1>2
<1> DEFINE P(i) == S(i) - (IF i = 1 THEN 0 ELSE E(i - 1)) \in -Eps..Eps
           Q == S(1) - 0 \in -Eps..Eps /\ \A i \in 1..n - 1 : E(i) - S(i + 1) \in -Eps..Eps
<1>10. Q <=> \A i \in 1..n : P(i)
  BY <1>7, <1>8
<1> HIDE DEF P, Q
<1>11. (\A i \in 1..n : Placed(segs[i], EndOf(segs, i - 1))) <=>
         (\A i \in 1..n : E(i) > S(i)) /\ \A i \in 1..n : P(i)
  BY <1>4 DEF P
<1>12. Contiguous(a) <=> Q /\ E(n) - d \in -Eps..Eps /\ \A i \in 1..n : S(i) < E(i)
  BY <1>3 DEF Q
<1> QED BY <1>5, <1>9, <1>10, <1>11, <1>12 DEF segs, n, d

(* ... by the chords of a track. *)
LEMMA ChordsSame ==
  ASSUME NEW a, NEW W, Closed(W), a[2].chords \in W, a[2].durationSec[2] \in Nat
  PROVE  validateChords(a[2].chords, a[2].durationSec[2]) <=>
           /\ Type(a[2].chords) = "arr" /\ \A s \in Items(a[2].chords) : Form(s)
           /\ Contiguous(a) /\ RootsFit(a)
<1> DEFINE v == a[2].chords
           segs == v[2]
           n == Len(segs)
           d == a[2].durationSec[2]
           F(i) == IF i = 0 THEN 0 ELSE Get(v[2][i], "end")[2]
<1>1. CASE Type(v) # "arr"
  BY <1>1 DEF validateChords
<1>2. CASE Type(v) = "arr"
  <2>1. segs \in Seq(W)
    BY <1>2, ValueIs
  <2>2. n \in Nat /\ DOMAIN segs = 1..n /\ \A i \in 1..n : segs[i] \in W
    BY <2>1
  <2>3. Items(v) = {segs[i] : i \in 1..n}
    BY <2>2 DEF Items
  <2>4. RootsFit(a) <=> \A i \in 1..n : Rooted(segs[i])
    BY <2>3 DEF RootsFit, Rooted
  <2>5. (\A s \in Items(v) : Form(s)) <=> \A i \in 1..n : Form(segs[i])
    BY <2>3
  <2>6. CASE n = 0
    <3>1. validateChords(v, d) <=> d <= Eps
      BY <1>2, <2>6 DEF validateChords
    <3>2. Contiguous(a) <=> 0 - d \in -Eps..Eps
      BY <2>6 DEF Contiguous
    <3>3. 0 - d \in -Eps..Eps <=> d <= Eps
      BY ContractAssumption
    <3> QED BY <1>2, <2>4, <2>5, <2>6, <3>1, <3>2, <3>3
  <2>7. CASE n # 0
    <3>1. validateChords(v, d) <=>
            (\A i \in 1..n : validateSegment(segs[i], F(i - 1))) /\ Abs(F(n) - d) <= Eps
      BY <1>2, <2>7 DEF validateChords
    <3>2. validateChords(v, d) => \A i \in 1..n : Ends(segs[i])
      <4>1. ASSUME NEW i \in 1..n, validateSegment(segs[i], F(i - 1)) PROVE Ends(segs[i])
        BY <4>1 DEF validateSegment, Ends
      <4> HIDE DEF F
      <4> QED BY <3>1, <4>1
    <3>3. (\A i \in 1..n : Form(segs[i])) => \A i \in 1..n : Ends(segs[i])
      <4>1. ASSUME NEW i \in 1..n PROVE Form(segs[i]) => Ends(segs[i])
        BY <2>2, EndIs
      <4> QED BY <4>1
    <3>4. ASSUME \A i \in 1..n : Ends(segs[i])
          PROVE  validateChords(v, d) <=>
                   (\A i \in 1..n : Form(segs[i])) /\ Contiguous(a) /\ RootsFit(a)
      <4>1. \A i \in 0..n : F(i) = EndOf(segs, i) /\ F(i) \in Int
        <5>1. ASSUME NEW i \in 0..n PROVE F(i) = EndOf(segs, i) /\ F(i) \in Int
          <6>1. CASE i = 0
            BY <6>1 DEF EndOf
          <6>2. CASE i # 0
            <7> DEFINE s == segs[i]
            <7>1. s \in W /\ Ends(s)
              BY <2>2, <3>4, <6>2
            <7> HIDE DEF s
            <7>2. Get(s, "end") = s[2].end /\ s[2].end[2] \in Int
              BY <7>1, EndIs
            <7> QED BY <6>2, <7>2 DEF EndOf, s
          <6> QED BY <6>1, <6>2
        <5> QED BY <5>1
      <4> HIDE DEF F
      <4>2. ASSUME NEW i \in 1..n
            PROVE  validateSegment(segs[i], F(i - 1)) <=>
                     Form(segs[i]) /\ Rooted(segs[i]) /\ Placed(segs[i], EndOf(segs, i - 1))
        <5>1. i - 1 \in 0..n
          BY <2>2
        <5>2. F(i - 1) \in Int /\ F(i - 1) = EndOf(segs, i - 1)
          BY <4>1, <5>1
        <5>3. segs[i] \in W
          BY <2>2
        <5> DEFINE s == segs[i]
                   p == F(i - 1)
        <5>4. s \in W /\ p \in Int
          BY <5>2, <5>3
        <5> HIDE DEF s, p
        <5>5. validateSegment(s, p) <=> Form(s) /\ Rooted(s) /\ Placed(s, p)
          BY <5>4, SegmentSame
        <5> QED BY <5>2, <5>5 DEF s, p
      <4>3. Abs(F(n) - d) <= Eps <=> EndOf(segs, n) - d \in -Eps..Eps
        <5>1. n \in 0..n
          BY <2>2
        <5>2. F(n) - d \in Int /\ F(n) = EndOf(segs, n)
          BY <4>1, <5>1
        <5> QED BY <5>2, NearIs
      <4>4. (\A i \in 1..n : Form(segs[i])) =>
              (Contiguous(a) <=>
                 /\ \A i \in 1..n : Placed(segs[i], EndOf(segs, i - 1))
                 /\ EndOf(segs, n) - d \in -Eps..Eps)
        BY <2>1, <2>2, <2>7, PlacesSame
      <4> DEFINE Fm(i) == Form(segs[i])
                 Rt(i) == Rooted(segs[i])
                 Pl(i) == Placed(segs[i], EndOf(segs, i - 1))
                 Vs(i) == validateSegment(segs[i], F(i - 1))
                 Reached == EndOf(segs, n) - d \in -Eps..Eps
      <4>5. \A i \in 1..n : Vs(i) <=> Fm(i) /\ Rt(i) /\ Pl(i)
        BY <4>2
      <4>6. validateChords(v, d) <=> (\A i \in 1..n : Vs(i)) /\ Reached
        BY <3>1, <4>3
      <4>7. (\A i \in 1..n : Fm(i)) => (Contiguous(a) <=> (\A i \in 1..n : Pl(i)) /\ Reached)
        BY <4>4
      <4>8. RootsFit(a) <=> \A i \in 1..n : Rt(i)
        BY <2>4
      <4>9. (\A i \in 1..n : Form(segs[i])) <=> \A i \in 1..n : Fm(i)
        OBVIOUS
      <4> HIDE DEF Fm, Rt, Pl, Vs, Reached, n, segs, v, d
      <4> QED BY <4>5, <4>6, <4>7, <4>8, <4>9
    <3> QED BY <1>2, <2>5, <3>2, <3>3, <3>4
  <2> QED BY <2>6, <2>7
<1> QED BY <1>1, <1>2

(* A tolerance a boundary: none of n chords is further below zero than n of them. *)
LEMMA Drift ==
  ASSUME NEW a, NEW W, Closed(W), a[2].chords[2] \in Seq(W), a[2].durationSec[2] \in Int,
         \A i \in DOMAIN a[2].chords[2] : Form(a[2].chords[2][i]), Contiguous(a)
  PROVE  \A i \in DOMAIN a[2].chords[2] :
           LET s == a[2].chords[2][i] IN
           /\ s[2].start[2] >= -(Len(a[2].chords[2]) * Eps)
           /\ s[2].end[2] >= -(Len(a[2].chords[2]) * Eps)
<1> DEFINE segs == a[2].chords[2]
           n == Len(segs)
           S(i) == segs[i][2].start[2]
           E(i) == segs[i][2].end[2]
<1>1. n \in Nat /\ segs \in Seq(W) /\ DOMAIN segs = 1..n
  OBVIOUS
<1>2. CASE n = 0
  BY <1>1, <1>2
<1>3. CASE n # 0
  <2>1. \A i \in 1..n : S(i) \in Int /\ E(i) \in Int
    <3>1. ASSUME NEW i \in 1..n PROVE S(i) \in Int /\ E(i) \in Int
      <4> DEFINE s == segs[i]
      <4>1. s \in W /\ Form(s)
        BY <1>1
      <4> HIDE DEF s
      <4>2. s[2].start[2] \in Int /\ s[2].end[2] \in Int
        BY <4>1, EndIs
      <4> QED BY <4>2 DEF s
    <3> QED BY <3>1
  <2>2. \A i \in 1..n : Placed(segs[i], EndOf(segs, i - 1))
    BY <1>1, <1>3, PlacesSame
  <2>3. \A i \in 1..n : E(i) > S(i) /\ S(i) - (IF i = 1 THEN 0 ELSE E(i - 1)) \in -Eps..Eps
    BY <2>2 DEF Placed, EndOf
  <2> HIDE DEF S, E, segs, n
  <2>4. Eps \in Nat
    BY ContractAssumption
  <2> DEFINE N == {i \in Nat : 1 <= i /\ i <= n => S(i) >= -(i * Eps) /\ E(i) >= -(i * Eps)}
  <2>5. 0 \in N
    OBVIOUS
  <2>6. ASSUME NEW i \in Nat, i < n, i \in N PROVE i + 1 \in N
    <3> DEFINE j == i + 1
    <3>1. j \in 1..n /\ j - 1 = i
      BY <1>1, <2>6
    <3>2. j * Eps = i * Eps + Eps /\ i * Eps \in Nat
      BY <2>4
    <3> HIDE DEF j
    <3>3. S(j) >= -(j * Eps)
      <4>1. CASE j = 1
        <5>1. S(j) \in -Eps..Eps /\ S(j) \in Int
          BY <2>1, <2>3, <3>1, <4>1
        <5>2. i = 0
          BY <3>1, <4>1
        <5>3. j * Eps = Eps
          BY <2>4, <4>1
        <5> QED BY <2>4, <5>1, <5>3
      <4>2. CASE j # 1
        <5>1. i \in 1..n
          BY <1>1, <3>1, <4>2
        <5>2. S(j) - E(i) \in -Eps..Eps
          BY <2>3, <3>1, <4>2
        <5>3. E(i) >= -(i * Eps) /\ E(i) \in Int /\ S(j) \in Int
          BY <2>1, <2>6, <3>1, <5>1
        <5> DEFINE p == i * Eps
                   q == j * Eps
        <5>4. q = p + Eps /\ p \in Nat /\ E(i) >= -p
          BY <3>2, <5>3
        <5> HIDE DEF p, q
        <5>5. S(j) >= -q
          BY <2>4, <5>2, <5>3, <5>4
        <5> QED BY <5>5 DEF q
      <4> QED BY <4>1, <4>2
    <3>4. E(j) >= -(j * Eps)
      <4>1. E(j) > S(j) /\ E(j) \in Int /\ S(j) \in Int
        BY <2>1, <2>3, <3>1
      <4> DEFINE q == j * Eps
      <4>2. q \in Int /\ S(j) >= -q
        BY <3>2, <2>4, <3>3
      <4> HIDE DEF q
      <4>3. E(j) >= -q
        BY <4>1, <4>2
      <4> QED BY <4>3 DEF q
    <3>5. S(i + 1) >= -((i + 1) * Eps) /\ E(i + 1) >= -((i + 1) * Eps)
      BY <3>3, <3>4 DEF j
    <3> QED BY <3>5
  <2>7. \A i \in 0..n : i \in N
    <3>1. \A i \in Nat : i < n /\ i \in N => i + 1 \in N
      BY <2>6
    <3> HIDE DEF N
    <3> QED BY <1>1, <2>5, <3>1, Inductive
  <2>8. ASSUME NEW i \in 1..n PROVE S(i) >= -(n * Eps) /\ E(i) >= -(n * Eps)
    <3>1. S(i) >= -(i * Eps) /\ E(i) >= -(i * Eps)
      BY <1>1, <2>7
    <3>2. i * Eps <= n * Eps /\ i * Eps \in Int /\ n * Eps \in Int
      <4>1. n * Eps = i * Eps + (n - i) * Eps /\ (n - i) * Eps \in Nat /\ i * Eps \in Nat
        BY <1>1, <2>4
      <4> DEFINE p == i * Eps
                 q == n * Eps
                 r == (n - i) * Eps
      <4>2. q = p + r /\ p \in Nat /\ r \in Nat
        BY <4>1
      <4> HIDE DEF p, q, r
      <4>3. p <= q /\ p \in Int /\ q \in Int
        BY <4>2
      <4> QED BY <4>3 DEF p, q
    <3> DEFINE p == i * Eps
               q == n * Eps
    <3>3. p <= q /\ p \in Int /\ q \in Int /\ S(i) >= -p /\ E(i) >= -p /\ S(i) \in Int /\ E(i) \in Int
      BY <2>1, <3>1, <3>2
    <3> HIDE DEF p, q
    <3>4. S(i) >= -q /\ E(i) >= -q
      BY <3>3
    <3> QED BY <3>4 DEF q
  <2> QED BY <1>1, <2>8 DEF S, E, segs, n
<1> QED BY <1>2, <1>3

(* ... by the engine that made an analysis ... *)
LEMMA EngineBlockSame ==
  ASSUME NEW W, Closed(W), NEW v \in W
  PROVE  validateEngine(v) <=> Shaped(v, EngineFields) /\ EngineSchema(v, AnalysisWords)
<1>1. CASE ~isObj(v)
  BY <1>1 DEF validateEngine, Shaped, isObj
<1>2. CASE isObj(v)
  <2>1. /\ engineFields(v) => EngineFields \subseteq Keys(v)
        /\ EngineFields \subseteq Keys(v) => (engineFields(v) <=> EngineSchema(v, AnalysisWords))
    BY <1>2, EngineSame, WordsAgree
  <2> QED BY <1>2, <2>1 DEF validateEngine, Shaped, isObj, noExtra
<1> QED BY <1>1, <1>2

(* ... and by an engine's description. *)
LEMMA InfoSame ==
  ASSUME NEW W, Closed(W), NEW v \in W
  PROVE  validateEngineInfo(v) <=> InfoSchema(v)
<1>1. CASE ~isObj(v)
  BY <1>1 DEF validateEngineInfo, InfoSchema, Shaped, isObj
<1>2. CASE isObj(v)
  <2>1. /\ engineFields(v) => EngineFields \subseteq Keys(v)
        /\ EngineFields \subseteq Keys(v) => (engineFields(v) <=> EngineSchema(v, InfoWords))
    BY <1>2, EngineSame, WordsAgree
  <2>2. /\ \A k : Type(Get(v, k)) # "undefined" => k \in Keys(v)
        /\ \A k \in Keys(v) : Get(v, k) = v[2][k] /\ Get(v, k) \in W
    BY <1>2, Field
  <2>3. ASSUME validateEngineInfo(v) PROVE Keys(v) = InfoFields
    <3>1. /\ engineFields(v) /\ Keys(v) \subseteq InfoFields
          /\ Get(v, "contractVersion") \in Versions /\ Type(Get(v, "capabilities")) = "arr"
      BY <2>3 DEF validateEngineInfo, noExtra, validateContractVersion, validateCapabilities
    <3>2. Type(Get(v, "contractVersion")) = "str"
      BY <3>1, StrsAre DEF Versions
    <3>3. "contractVersion" \in Keys(v) /\ "capabilities" \in Keys(v)
      BY <2>2, <3>1, <3>2
    <3> QED BY <2>1, <3>1, <3>3 DEF InfoFields
  <2>4. ASSUME Keys(v) = InfoFields PROVE validateEngineInfo(v) <=> InfoSchema(v)
    <3>1. EngineFields \subseteq Keys(v) /\ "contractVersion" \in Keys(v) /\ "capabilities" \in Keys(v)
      BY <2>4 DEF InfoFields
    <3>2. /\ Get(v, "contractVersion") = v[2].contractVersion
          /\ Get(v, "capabilities") = v[2].capabilities /\ v[2].capabilities \in W
      BY <2>2, <3>1
    <3>3. validateCapabilities(v[2].capabilities) <=> CapabilitiesSchema(v[2].capabilities, InfoWords)
      BY <3>2, CapabilitiesSame, WordsAgree
    <3>4. noExtra(v, InfoFields) /\ Shaped(v, InfoFields)
      BY <1>2, <2>4 DEF noExtra, Shaped, isObj
    <3>5. InfoWords.contractVersion = Versions
      BY WordsAgree DEF Agrees
    <3> QED BY <1>2, <2>1, <3>1, <3>2, <3>3, <3>4, <3>5
            DEF validateEngineInfo, InfoSchema, validateContractVersion
  <2>5. InfoSchema(v) => Keys(v) = InfoFields
    BY DEF InfoSchema, Shaped
  <2> QED BY <2>3, <2>4, <2>5
<1> QED BY <1>1, <1>2

(* ... by the times of the beats ... *)
LEMMA TimesSame ==
  ASSUME NEW v, NEW k, Get(v, k) = v[2][k]
  PROVE  numArrayOrNull(v, k) <=>
           v[2][k] = Null \/ (Listed(v[2][k]) /\ \A n \in Items(v[2][k]) : Type(n) = "num")
BY DEF numArrayOrNull, Listed

(* ... by the alternatives for the key ... *)
LEMMA CandidatesSame ==
  ASSUME NEW W, Closed(W), NEW kc \in W
  PROVE  (Type(kc) = "arr" /\ \A k \in Items(kc) : validateKey(k)) <=>
           (Listed(kc) /\ \A k \in Items(kc) : KeySchema(k))
<1>1. CASE Type(kc) = "arr"
  <2>1. Items(kc) \subseteq W
    BY <1>1, ValueIs
  <2>2. \A k \in Items(kc) : validateKey(k) <=> KeySchema(k)
    BY <2>1, KeySame
  <2> QED BY <2>2 DEF Listed
<1>2. CASE Type(kc) # "arr"
  BY <1>2 DEF Listed
<1> QED BY <1>1, <1>2

(* What the validator makes of the chords is what the schema does, with the *)
(* minimum of their times as low as the tolerances go, and the two rules.   *)
LEMMA TrackSame ==
  ASSUME NEW W, Closed(W), NEW a \in W, isObj(a), Keys(a) = AnalysisFields,
         AtLeast(a[2].durationSec, 0)
  PROVE  validateChords(a[2].chords, a[2].durationSec[2]) <=>
           /\ Listed(a[2].chords) /\ \A s \in Items(a[2].chords) : SegmentSchema(s, Lowest(a))
           /\ Contiguous(a) /\ RootsFit(a)
<1> DEFINE v == a[2].chords
           d == a[2].durationSec[2]
           segs == v[2]
<1>1. "chords" \in Keys(a) /\ "durationSec" \in Keys(a)
  BY DEF AnalysisFields
<1>2. Get(a, "chords") = v /\ v \in W /\ a[2].durationSec \in W
  BY <1>1, Field
<1>3. d \in Nat
  <2>1. \A x \in W : Type(x) = "num" => x[2] \in Int
    BY ValueIs
  <2> QED BY <1>2, <2>1 DEF AtLeast
<1>4. validateChords(v, d) <=>
        Type(v) = "arr" /\ (\A s \in Items(v) : Form(s)) /\ Contiguous(a) /\ RootsFit(a)
  BY <1>2, <1>3, ChordsSame
<1>5. \A s : SegmentSchema(s, Lowest(a)) <=>
        Form(s) /\ s[2].start[2] >= Lowest(a) /\ s[2].end[2] >= Lowest(a)
  BY DEF SegmentSchema, Form, AtLeast
<1>6. ASSUME Type(v) = "arr", \A s \in Items(v) : Form(s), Contiguous(a)
      PROVE  \A s \in Items(v) : s[2].start[2] >= Lowest(a) /\ s[2].end[2] >= Lowest(a)
  <2>1. segs \in Seq(W)
    BY <1>2, <1>6, ValueIs
  <2>2. Lowest(a) = -(Len(segs) * Eps)
    BY <1>2, <1>6 DEF Lowest
  <2>3. \A i \in DOMAIN a[2].chords[2] : Form(a[2].chords[2][i])
    BY <1>6 DEF Items
  <2>5. a[2].durationSec[2] \in Int /\ a[2].chords[2] \in Seq(W)
    BY <1>3, <2>1
  <2>4. \A i \in DOMAIN a[2].chords[2] :
          LET s == a[2].chords[2][i] IN
          /\ s[2].start[2] >= -(Len(a[2].chords[2]) * Eps)
          /\ s[2].end[2] >= -(Len(a[2].chords[2]) * Eps)
    BY <1>6, <2>3, <2>5, Drift
  <2> QED BY <2>2, <2>4 DEF Items
<1> HIDE DEF v, d
<1> QED BY <1>4, <1>5, <1>6 DEF Listed, v, d

(* The validator and the schema agree on what an analysis is. *)
LEMMA AnalysisSame ==
  ASSUME NEW W, Closed(W), NEW v \in W
  PROVE  validateAnalysis(v) <=> Agreed(v, Lowest(v))
<1> DEFINE R == AnalysisFields
<1>1. CASE ~isObj(v)
  BY <1>1 DEF validateAnalysis, Agreed, AnalysisSchema, Shaped, isObj
<1>2. CASE isObj(v)
  <2>1. /\ \A k : Type(Get(v, k)) # "undefined" => k \in Keys(v)
        /\ \A k \in Keys(v) : Get(v, k) = v[2][k] /\ Get(v, k) \in W
        /\ \A k, S : Get(v, k) \in Strs(S) => Type(Get(v, k)) = "str"
        /\ \A k : Get(v, k) = Null => Type(Get(v, k)) = "null"
    BY <1>2, Field
  <2>2. ASSUME validateAnalysis(v) PROVE Keys(v) = R
    <3> DEFINE T(k) == Type(Get(v, k))
    <3>1. /\ Get(v, "contractVersion") \in Versions /\ T("file") = "str" /\ T("durationSec") = "num"
          /\ T("engine") = "obj" /\ T("engineCapabilities") = "arr"
          /\ Get(v, "vocabulary") \in Strs({"triads", "extended"}) /\ T("key") = "obj"
          /\ Keys(v) \subseteq R
      BY <2>2 DEF validateAnalysis, noExtra, reqNum, reqStr, validateContractVersion, validateEngine,
                  validateCapabilities, validateKey, isObj
    <3>2. /\ Get(v, "keyCandidates") = Null \/ T("keyCandidates") = "arr"
          /\ T("chords") = "arr"
          /\ Get(v, "beats") = Null \/ T("beats") = "arr"
          /\ Get(v, "downbeats") = Null \/ T("downbeats") = "arr"
          /\ Get(v, "timeSignature") = Null \/ T("timeSignature") = "str"
      BY <2>2 DEF validateAnalysis, validateChords, numArrayOrNull, reqStr
    <3>3. T("contractVersion") = "str" /\ T("vocabulary") = "str"
      BY <2>1, <3>1 DEF Versions
    <3>4. /\ T("contractVersion") # "undefined" /\ T("file") # "undefined"
          /\ T("durationSec") # "undefined" /\ T("engine") # "undefined"
          /\ T("engineCapabilities") # "undefined" /\ T("vocabulary") # "undefined"
          /\ T("key") # "undefined" /\ T("chords") # "undefined"
      BY <3>1, <3>2, <3>3
    <3>5. /\ T("keyCandidates") # "undefined" /\ T("beats") # "undefined"
          /\ T("downbeats") # "undefined" /\ T("timeSignature") # "undefined"
      BY <2>1, <3>2
    <3>6. /\ "contractVersion" \in Keys(v) /\ "file" \in Keys(v) /\ "durationSec" \in Keys(v)
          /\ "engine" \in Keys(v) /\ "engineCapabilities" \in Keys(v) /\ "vocabulary" \in Keys(v)
          /\ "key" \in Keys(v) /\ "keyCandidates" \in Keys(v) /\ "chords" \in Keys(v)
          /\ "beats" \in Keys(v) /\ "downbeats" \in Keys(v) /\ "timeSignature" \in Keys(v)
      BY <2>1, <3>4, <3>5
    <3>7. R \subseteq Keys(v)
      BY <3>6 DEF AnalysisFields
    <3> QED BY <3>1, <3>7
  <2>3. ASSUME Agreed(v, Lowest(v)) PROVE Keys(v) = R
    BY <2>3 DEF Agreed, AnalysisSchema, Shaped
  <2>4. ASSUME Keys(v) = R PROVE validateAnalysis(v) <=> Agreed(v, Lowest(v))
    <3>1. /\ "contractVersion" \in Keys(v) /\ "file" \in Keys(v) /\ "durationSec" \in Keys(v)
          /\ "engine" \in Keys(v) /\ "engineCapabilities" \in Keys(v) /\ "vocabulary" \in Keys(v)
          /\ "key" \in Keys(v) /\ "keyCandidates" \in Keys(v) /\ "chords" \in Keys(v)
          /\ "beats" \in Keys(v) /\ "downbeats" \in Keys(v) /\ "timeSignature" \in Keys(v)
      BY <2>4 DEF AnalysisFields
    <3>2. /\ Get(v, "contractVersion") = v[2].contractVersion /\ Get(v, "file") = v[2].file
          /\ Get(v, "durationSec") = v[2].durationSec /\ Get(v, "engine") = v[2].engine
          /\ Get(v, "engineCapabilities") = v[2].engineCapabilities
          /\ Get(v, "vocabulary") = v[2].vocabulary /\ Get(v, "key") = v[2].key
          /\ Get(v, "keyCandidates") = v[2].keyCandidates /\ Get(v, "chords") = v[2].chords
          /\ Get(v, "beats") = v[2].beats /\ Get(v, "downbeats") = v[2].downbeats
          /\ Get(v, "timeSignature") = v[2].timeSignature
      BY <2>1, <3>1
    <3>3. /\ v[2].engine \in W /\ v[2].engineCapabilities \in W /\ v[2].key \in W
          /\ v[2].keyCandidates \in W /\ v[2].timeSignature \in W
      BY <2>1, <3>1
    <3> DEFINE Tags == /\ v[2].contractVersion \in Versions /\ Type(v[2].file) = "str"
               Long == AtLeast(v[2].durationSec, 0)
               Eng == validateEngine(v[2].engine)
               Caps == validateCapabilities(v[2].engineCapabilities)
               Vocab == v[2].vocabulary \in Strs({"triads", "extended"})
               Key == validateKey(v[2].key)
               Cand == v[2].keyCandidates = Null \/
                         (Type(v[2].keyCandidates) = "arr"
                            /\ \A k \in Items(v[2].keyCandidates) : validateKey(k))
               Track == validateChords(v[2].chords, v[2].durationSec[2])
               Beats == numArrayOrNull(v, "beats") /\ numArrayOrNull(v, "downbeats")
               Sign == v[2].timeSignature = Null \/ Type(v[2].timeSignature) = "str"
    <3>4. validateAnalysis(v) <=>
            Tags /\ Long /\ Eng /\ Caps /\ Vocab /\ Key /\ Cand /\ Track /\ Beats /\ Sign
      <4>1. noExtra(v, AnalysisFields)
        BY <2>4 DEF noExtra
      <4> QED BY <1>2, <3>2, <4>1
              DEF validateAnalysis, validateContractVersion, reqStr, reqNum, AtLeast
    <3> DEFINE Eng2 == Shaped(v[2].engine, EngineFields) /\ EngineSchema(v[2].engine, AnalysisWords)
               Caps2 == CapabilitiesSchema(v[2].engineCapabilities, AnalysisWords)
               Key2 == KeySchema(v[2].key)
               Cand2 == v[2].keyCandidates = Null \/
                          (Listed(v[2].keyCandidates)
                             /\ \A k \in Items(v[2].keyCandidates) : KeySchema(k))
               Track2 == /\ Listed(v[2].chords)
                          /\ \A s \in Items(v[2].chords) : SegmentSchema(s, Lowest(v))
               Rules == Contiguous(v) /\ RootsFit(v)
               Beats2 == \A times \in {v[2].beats, v[2].downbeats} :
                           times = Null \/ (Listed(times) /\ \A n \in Items(times) : Type(n) = "num")
               Sign2 == Type(v[2].timeSignature) \in {"str", "null"}
    <3>5. Agreed(v, Lowest(v)) <=>
            Tags /\ Long /\ Eng2 /\ Caps2 /\ Vocab /\ Key2 /\ Cand2 /\ Track2 /\ Beats2 /\ Sign2
            /\ Rules
      <4>1. Shaped(v, AnalysisFields)
        BY <1>2, <2>4 DEF Shaped, isObj
      <4>2. AnalysisWords.contractVersion = Versions
        BY WordsAgree DEF Agrees
      <4> QED BY <4>1, <4>2 DEF Agreed, AnalysisSchema
    <3>6. Eng <=> Eng2
      BY <3>3, EngineBlockSame
    <3>7. Caps <=> Caps2
      BY <3>3, CapabilitiesSame, WordsAgree
    <3>8. Key <=> Key2
      BY <3>3, KeySame
    <3>9. Cand <=> Cand2
      BY <3>3, CandidatesSame
    <3>10. Long => (Track <=> Track2 /\ Rules)
      BY <1>2, <2>4, TrackSame
    <3>11. Beats <=> Beats2
      BY <3>2, TimesSame
    <3>12. Sign <=> Sign2
      <4>1. \A x \in W : Type(x) = "null" <=> x = Null
        BY ValueIs
      <4> QED BY <3>3, <4>1
    <3> HIDE DEF Tags, Long, Eng, Caps, Vocab, Key, Cand, Track, Beats, Sign,
                 Eng2, Caps2, Key2, Cand2, Track2, Rules, Beats2, Sign2
    <3> QED BY <3>4, <3>5, <3>6, <3>7, <3>8, <3>9, <3>10, <3>11, <3>12
  <2> QED BY <2>2, <2>3, <2>4
<1> QED BY <1>1, <1>2

(* What stands under "error" is judged by both sides alike. *)
LEMMA EnvelopeSame ==
  ASSUME NEW W, Closed(W), NEW v \in W, isObj(v), "error" \in Keys(v)
  PROVE  noExtra(v, {"error"}) /\ validateEngineError(Get(v, "error")) <=> ErrorShape(v)
<1>1. Get(v, "error") = v[2].error /\ v[2].error \in W
  BY Field
<1>2. validateEngineError(v[2].error) <=>
        /\ \E required \in {{"kind", "detail"}, {"kind", "detail", "hint"}} :
             Shaped(v[2].error, required)
        /\ v[2].error[2].kind \in ErrorKinds
        /\ \A k \in Keys(v[2].error) : Type(v[2].error[2][k]) = "str"
  <2> DEFINE e == v[2].error
  <2>1. e \in W
    BY <1>1
  <2> HIDE DEF e
  <2>2. validateEngineError(e) <=>
          /\ \E required \in {{"kind", "detail"}, {"kind", "detail", "hint"}} : Shaped(e, required)
          /\ e[2].kind \in ErrorKinds /\ \A k \in Keys(e) : Type(e[2][k]) = "str"
    BY <2>1, ErrorSame
  <2> QED BY <2>2 DEF e
<1>3. noExtra(v, {"error"}) <=> Shaped(v, {"error"})
  BY DEF noExtra, Shaped, isObj
<1> QED BY <1>1, <1>2, <1>3, WordsAgree DEF ErrorShape

(* parseEngineOutput tells an analysis from an error as the schemas do. *)
LEMMA ParseSame ==
  ASSUME NEW W, Closed(W), NEW v \in W
  PROVE  LET parsed == parseEngineOutput(v) IN
         /\ parsed[1] = "analysis" <=> Agreed(v, Lowest(v))
         /\ parsed[1] = "error" <=> ErrorShape(v)
         /\ parsed[1] = "analysis" => parsed = <<"analysis", v>> /\ validateAnalysis(v)
         /\ parsed[1] # "info"
<1>1. validateAnalysis(v) <=> Agreed(v, Lowest(v))
  BY AnalysisSame
<1>2. Agreed(v, Lowest(v)) => isObj(v) /\ "error" \notin Keys(v)
  BY DEF Agreed, AnalysisSchema, Shaped, isObj, AnalysisFields
<1>3. ErrorShape(v) => isObj(v) /\ "error" \in Keys(v)
  BY DEF ErrorShape, Shaped, isObj
<1>4. isObj(v) /\ "error" \in Keys(v) =>
        (noExtra(v, {"error"}) /\ validateEngineError(Get(v, "error")) <=> ErrorShape(v))
  BY EnvelopeSame
<1>5. CASE isObj(v) /\ "error" \in Keys(v)
  <2>1. parseEngineOutput(v) =
          IF ErrorShape(v) THEN <<"error", Get(v, "error")>> ELSE <<"ContractError">>
    BY <1>4, <1>5 DEF parseEngineOutput, ContractError
  <2> QED BY <1>2, <1>5, <2>1
<1>6. CASE ~(isObj(v) /\ "error" \in Keys(v))
  <2>1. parseEngineOutput(v) = IF validateAnalysis(v) THEN <<"analysis", v>> ELSE <<"ContractError">>
    BY <1>6 DEF parseEngineOutput, ContractError
  <2> QED BY <1>1, <1>3, <1>6, <2>1
<1> QED BY <1>5, <1>6

-----------------------------------------------------------------------------
(* What is printed in place of a document with a NaN in it. *)
LEMMA EnvelopeIs ==
  ASSUME NEW kind \in DOMAIN ErrorKindExit
  PROVE  /\ \E W : Closed(W) /\ Envelope(kind) \in W
         /\ ~HasNaN(Envelope(kind)) /\ ErrorShape(Envelope(kind))
<1> DEFINE k == Str(kind)
           d == Str("ValueError")
           e == Obj([kind |-> k, detail |-> d])
           v == Obj([error |-> e])
           W == {k, d, e, v}
<1>1. Envelope(kind) = v
  BY DEF Envelope
<1>2. IsValue(k) /\ Parts(k) = {} /\ Type(k) = "str" /\ IsValue(d) /\ Parts(d) = {} /\ Type(d) = "str"
  BY DEF IsValue, Parts, Type, Str
<1> HIDE DEF k, d
<1>3. IsValue(e) /\ Parts(e) = {k, d} /\ Type(e) = "obj" /\ e[2] = [kind |-> k, detail |-> d]
  <2>1. Type(e) = "obj" /\ e[2] = [kind |-> k, detail |-> d] /\ e = Obj(e[2])
    BY DEF Type, Obj
  <2> HIDE DEF e
  <2>2. Keys(e) = {"kind", "detail"} /\ e[2].kind = k /\ e[2].detail = d
    BY <2>1 DEF Keys
  <2>3. e[2] = [x \in Keys(e) |-> e[2][x]]
    BY <2>1, <2>2
  <2>4. Items(e) = {k, d}
    BY <2>2 DEF Items, Keys
  <2> QED BY <2>1, <2>3, <2>4 DEF IsValue, Parts
<1>4. IsValue(v) /\ Parts(v) = {e} /\ Type(v) = "obj" /\ v[2] = [error |-> e]
  <2> HIDE DEF e
  <2>1. Type(v) = "obj" /\ v[2] = [error |-> e] /\ v = Obj(v[2])
    BY DEF Type, Obj
  <2> HIDE DEF v
  <2>2. Keys(v) = {"error"} /\ v[2].error = e
    BY <2>1 DEF Keys
  <2>3. v[2] = [x \in Keys(v) |-> v[2][x]]
    BY <2>1, <2>2
  <2>4. Items(v) = {e}
    BY <2>2 DEF Items, Keys
  <2> QED BY <2>1, <2>3, <2>4 DEF IsValue, Parts
<1>5. ErrorShape(v)
  <2> HIDE DEF e, v
  <2>1. Shaped(v, {"error"}) /\ v[2].error = e
    BY <1>4 DEF Shaped, Keys
  <2>2. Keys(e) = {"kind", "detail"} /\ e[2].kind = k /\ e[2].detail = d
    BY <1>3 DEF Keys
  <2>3. Shaped(e, {"kind", "detail"})
    BY <1>3, <2>2 DEF Shaped
  <2>4. k \in Strs(DOMAIN ErrorKindExit)
    BY DEF k, Strs
  <2>5. \A x \in Keys(e) : Type(e[2][x]) = "str"
    BY <1>2, <2>2
  <2> QED BY <2>1, <2>2, <2>3, <2>4, <2>5 DEF ErrorShape
<1> HIDE DEF e, v
<1>6. Closed(W)
  BY <1>2, <1>3, <1>4 DEF Closed
<1>7. \A x \in W : Type(x) # "nan"
  BY <1>2, <1>3, <1>4
<1>8. v \in W
  OBVIOUS
<1> HIDE DEF W
<1>9. Within(v) \subseteq W
  BY <1>6, <1>8, WithinClosed
<1> QED BY <1>1, <1>5, <1>6, <1>7, <1>8, <1>9 DEF HasNaN

(* Whatever is printed is well formed. *)
LEMMA DumpsIs ==
  ASSUME NEW v, IsDocument(v)
  PROVE  /\ \E W : Closed(W) /\ dumps(v) \in W
         /\ ~HasNaN(dumps(v)) /\ (HasNaN(v) => ErrorShape(dumps(v)))
         /\ dumps(v) = v \/ ErrorShape(dumps(v))
<1>1. CASE HasNaN(v)
  <2>1. Refused \in DOMAIN ErrorKindExit
    BY DEF Refused, ErrorKindExit
  <2>2. /\ \E W : Closed(W) /\ Envelope(Refused) \in W
        /\ ~HasNaN(Envelope(Refused)) /\ ErrorShape(Envelope(Refused))
    BY <2>1, EnvelopeIs
  <2>3. dumps(v) = Envelope(Refused)
    BY <1>1 DEF dumps
  <2> QED BY <2>2, <2>3
<1>2. CASE ~HasNaN(v)
  <2>1. dumps(v) = v
    BY <1>2 DEF dumps
  <2> QED BY <1>2, <2>1, DocumentClosed
<1> QED BY <1>1, <1>2

-----------------------------------------------------------------------------
(* JSON.stringify gives back what it is given: nothing in a document is undefined, *)
(* or a NaN.                                                                       *)
LEMMA StringifySame ==
  ASSUME NEW v, IsDocument(v), ~HasNaN(v)
  PROVE  Stringify(v) = v
<1> DEFINE W == Within(v)
           Eq(f) == f = [x \in W |-> Serialized(f, x)]
<1>1. v \in W /\ Closed(W) /\ \A x \in W : Type(x) # "nan"
  BY DocumentClosed DEF HasNaN
<1>2. ASSUME NEW f, NEW x \in W, \A y \in Parts(x) : f[y] = y
      PROVE  Serialized(f, x) = x
  <2>1. /\ Type(x) = "arr" => x[2] \in Seq(W) /\ x = Arr(x[2])
        /\ Type(x) = "obj" => /\ \A k \in Keys(x) : x[2][k] \in W
                              /\ x = Obj(x[2]) /\ x[2] = [k \in Keys(x) |-> x[2][k]]
    <3> HIDE DEF W
    <3> QED BY <1>1, ValueIs
  <2>2. \A y \in W : y # Undefined
    <3> HIDE DEF W
    <3>1. \A y \in W : Type(y) # "undefined"
      BY <1>1, ValueIs
    <3> QED BY <3>1 DEF Undefined, Type
  <2> HIDE DEF W
  <2>3. CASE Type(x) = "arr"
    <3>1. \A i \in Keys(x) : f[x[2][i]] = x[2][i]
      BY <1>2, <2>3 DEF Parts, Items, Keys
    <3>2. [i \in Keys(x) |-> f[x[2][i]]] = x[2]
      BY <2>1, <2>3, <3>1 DEF Keys
    <3>3. Serialized(f, x) = Arr([i \in Keys(x) |-> f[x[2][i]]])
      BY <2>3 DEF Serialized
    <3> QED BY <2>1, <2>3, <3>2, <3>3
  <2>4. CASE Type(x) = "obj"
    <3>1. \A k \in Keys(x) : f[x[2][k]] = x[2][k]
      BY <1>2, <2>4 DEF Parts, Items, Keys
    <3>2. {y \in Keys(x) : x[2][y] # Undefined} = Keys(x)
      BY <2>1, <2>2, <2>4
    <3>3. Serialized(f, x) = Obj([k \in {y \in Keys(x) : x[2][y] # Undefined} |-> f[x[2][k]]])
      BY <2>4 DEF Serialized
    <3>4. [k \in Keys(x) |-> f[x[2][k]]] = [k \in Keys(x) |-> x[2][k]]
      BY <3>1
    <3> HIDE DEF W
    <3>5. Serialized(f, x) = Obj([k \in Keys(x) |-> f[x[2][k]]])
      BY <3>2, <3>3
    <3> QED BY <2>1, <2>4, <3>4, <3>5
  <2>5. CASE Type(x) \notin {"arr", "obj"}
    BY <1>1, <2>5 DEF Serialized
  <2> QED BY <2>3, <2>4, <2>5
<1>3. Stringify(v) = (CHOOSE f : Eq(f))[v]
  BY DEF Stringify
<1>4. \E f : Eq(f)
  <2> DEFINE Id == [x \in W |-> x]
  <2>1. \A x \in W : Parts(x) \subseteq W
    <3> HIDE DEF W
    <3> QED BY <1>1 DEF Closed
  <2>2. \A x \in W : \A y \in Parts(x) : Id[y] = y
    BY <2>1
  <2> HIDE DEF Id
  <2>3. \A x \in W : Serialized(Id, x) = x
    BY <1>2, <2>2
  <2> HIDE DEF W
  <2>4. Id = [x \in W |-> Serialized(Id, x)]
    BY <2>3 DEF Id
  <2> QED BY <2>4
<1>5. ASSUME NEW f, Eq(f) PROVE f[v] = v
  <2> DEFINE L == Layers(v)
             N == {k \in Nat : k <= Depth => \A x \in L[Depth - k] : f[x] = x}
  <2>1. L[0] = {v} /\ \A n \in 1..Depth : L[n] = UNION {Parts(x) : x \in L[n-1]}
    BY LayersAre
  <2>2. Depth \in Nat /\ W = UNION {L[n] : n \in 0..Depth}
    BY ContractAssumption DEF Within
  <2>3. \A x \in L[Depth] : Parts(x) = {}
    BY DEF IsDocument
  <2> HIDE DEF L
  <2>4. \A x \in W : (\A y \in Parts(x) : f[y] = y) => f[x] = x
    <3>1. \A x \in W : f[x] = Serialized(f, x)
      <4> HIDE DEF W
      <4> QED BY <1>5
    <3>2. \A x \in W : (\A y \in Parts(x) : f[y] = y) => Serialized(f, x) = x
      BY <1>2
    <3> HIDE DEF W
    <3> QED BY <3>1, <3>2
  <2> HIDE DEF W, Eq
  <2>5. 0 \in N
    <3>1. \A x \in L[Depth] : x \in W /\ Parts(x) = {}
      BY <2>2, <2>3
    <3>2. Depth - 0 = Depth
      BY <2>2
    <3> QED BY <2>4, <3>1, <3>2
  <2>6. ASSUME NEW k \in Nat, k < Depth, k \in N PROVE k + 1 \in N
    <3> DEFINE n == Depth - (k + 1)
    <3>1. n \in 0..Depth /\ n + 1 \in 1..Depth /\ (n + 1) - 1 = n /\ n + 1 = Depth - k
      BY <2>2, <2>6
    <3>2. \A x \in L[n + 1] : f[x] = x
      <4>1. \A x \in L[Depth - k] : f[x] = x
        BY <2>2, <2>6
      <4> HIDE DEF n
      <4> QED BY <3>1, <4>1
    <3> HIDE DEF n
    <3>3. L[n + 1] = UNION {Parts(x) : x \in L[n]}
      BY <2>1, <3>1
    <3>4. ASSUME NEW x \in L[n] PROVE f[x] = x
      <4>1. Parts(x) \subseteq L[n + 1]
        BY <3>3, <3>4
      <4>2. x \in W
        BY <2>2, <3>1, <3>4
      <4> QED BY <2>4, <3>2, <4>1, <4>2
    <3> QED BY <3>4 DEF n
  <2>7. \A k \in 0..Depth : k \in N
    <3>1. \A k \in Nat : k < Depth /\ k \in N => k + 1 \in N
      BY <2>6
    <3> HIDE DEF N
    <3> QED BY <2>2, <2>5, <3>1, Inductive
  <2>8. Depth \in N /\ Depth - Depth = 0
    BY <2>2, <2>7
  <2> QED BY <2>1, <2>2, <2>8
<1> HIDE DEF Eq, W
<1>6. Eq(CHOOSE f : Eq(f))
  BY <1>4
<1> QED BY <1>3, <1>5, <1>6

(* A document's history, as far as its stage tells it. *)
DocumentInv ==
  /\ command \in Commands /\ IsDocument(doc)
  /\ stage \in {"returned", "printed", "received", "cached", "read"}
  /\ stage # "returned" => wire = dumps(doc)
  /\ Judged => answer = Judgement
  /\ stage \in {"returned", "printed", "received"} => entry = Undefined
  /\ stage \in {"cached", "read"} => Accepted("analysis") /\ entry = Stringify(answer[2])
  /\ stage = "read" =>
       hit = IF validateAnalysis(entry) THEN Renamed(entry, Queried) ELSE Null

(* Each operation on the document keeps it. *)
LEMMA DocumentStep ==
  DocumentInv /\ DocumentNext => DocumentInv'
<1> SUFFICES ASSUME DocumentInv, DocumentNext PROVE DocumentInv'
  OBVIOUS
<1>1. CASE WriteResult
  <2>1. wire' = dumps(doc) /\ stage' = "printed" /\ command' = command /\ doc' = doc /\ entry' = entry
        /\ stage = "returned"
    BY <1>1 DEF WriteResult
  <2>2. dumps(doc)' = dumps(doc)
    BY <2>1 DEF dumps, Refused
  <2> QED BY <2>1, <2>2 DEF DocumentInv, Judged
<1>2. CASE Receive
  <2>1. /\ stage = "printed" /\ stage' = "received"
        /\ command' = command /\ doc' = doc /\ wire' = wire /\ code' = code /\ entry' = entry
    BY <1>2 DEF Receive
  <2>2. dumps(doc)' = dumps(doc)
    BY <2>1 DEF dumps, Refused
  <2>3. wire = dumps(doc)
    BY <2>1 DEF DocumentInv
  <2>4. answer' = Judgement
    BY <1>2 DEF Receive
  <2>5. Judgement' = Judgement
    BY <2>1 DEF Judgement
  <2> QED BY <2>1, <2>2, <2>3, <2>4, <2>5 DEF DocumentInv, Judged
<1>3. CASE Put
  <2>1. /\ stage = "received" /\ stage' = "cached" /\ answer[1] = "analysis"
        /\ entry' = Stringify(answer[2])
        /\ command' = command /\ doc' = doc /\ wire' = wire /\ code' = code /\ answer' = answer
    BY <1>3 DEF Put
  <2>2. dumps(doc)' = dumps(doc)
    BY <2>1 DEF dumps, Refused
  <2>3. Judgement' = Judgement
    BY <2>1 DEF Judgement
  <2> QED BY <2>1, <2>2, <2>3 DEF DocumentInv, Judged, Accepted
<1>4. CASE Lookup
  <2>1. /\ stage = "cached" /\ stage' = "read"
        /\ hit' = IF validateAnalysis(entry) THEN Renamed(entry, Queried) ELSE Null
        /\ command' = command /\ doc' = doc /\ wire' = wire /\ code' = code /\ answer' = answer
        /\ entry' = entry
    BY <1>4 DEF Lookup
  <2>2. dumps(doc)' = dumps(doc)
    BY <2>1 DEF dumps, Refused
  <2>3. Judgement' = Judgement
    BY <2>1 DEF Judgement
  <2> QED BY <2>1, <2>2, <2>3 DEF DocumentInv, Judged, Accepted
<1> QED BY <1>1, <1>2, <1>3, <1>4 DEF DocumentNext

(* Whatever else happens does not touch the document. *)
LEMMA DocumentKept ==
  DocumentInv /\ UNCHANGED documentVars => DocumentInv'
BY DEF documentVars, DocumentInv, Judged, Judgement, Accepted, dumps, Refused

(* What was printed is a value that both sides can be asked about. *)
LEMMA WireIs ==
  ASSUME DocumentInv, stage # "returned"
  PROVE  /\ \E W : Closed(W) /\ wire \in W
         /\ ~HasNaN(wire) /\ (HasNaN(doc) => ErrorShape(wire))
         /\ wire = doc \/ ErrorShape(wire)
BY DumpsIs DEF DocumentInv

(* Where the history holds, both sides agree ... *)
LEMMA AgreeHere ==
  DocumentInv => AgreeButForTolerance
<1> SUFFICES ASSUME DocumentInv, Judged PROVE
      IF code = ErrorKindExit.engine_unavailable THEN answer = EngineUnavailableError
      ELSE /\ Accepted("analysis") <=> command = "analyze" /\ Agreed(wire, Lowest(wire))
           /\ Accepted("error") <=> command = "analyze" /\ ErrorShape(wire)
           /\ Accepted("info") <=> command = "engine-info" /\ InfoSchema(wire)
  BY DEF AgreeButForTolerance
<1>1. answer = Judgement /\ stage # "returned" /\ command \in {"analyze", "engine-info"}
  BY DEF DocumentInv, Judged, Commands
<1>2. PICK W : Closed(W) /\ wire \in W /\ ~HasNaN(wire)
  BY <1>1, WireIs
<1>3. CASE code = ErrorKindExit.engine_unavailable
  BY <1>1, <1>3 DEF Judgement
<1>4. CASE code # ErrorKindExit.engine_unavailable /\ command = "analyze"
  <2>1. answer = parseEngineOutput(wire)
    BY <1>1, <1>2, <1>4 DEF Judgement
  <2>2. LET parsed == parseEngineOutput(wire) IN
         /\ parsed[1] = "analysis" <=> Agreed(wire, Lowest(wire))
         /\ parsed[1] = "error" <=> ErrorShape(wire)
         /\ parsed[1] # "info"
    BY <1>2, ParseSame
  <2> QED BY <1>4, <2>1, <2>2 DEF Accepted
<1>5. CASE code # ErrorKindExit.engine_unavailable /\ command = "engine-info"
  <2>1. answer = IF validateEngineInfo(wire) THEN <<"info", wire>> ELSE <<"ContractError">>
    BY <1>1, <1>2, <1>5 DEF Judgement, ContractError
  <2>2. validateEngineInfo(wire) <=> InfoSchema(wire)
    BY <1>2, InfoSame
  <2> QED BY <1>5, <2>1, <2>2 DEF Accepted
<1> QED BY <1>1, <1>3, <1>4, <1>5

(* ... and what was accepted comes back from the cache. *)
LEMMA RoundTripHere ==
  DocumentInv => RoundTrip
<1> SUFFICES ASSUME DocumentInv PROVE RoundTrip
  OBVIOUS
<1>1. AlwaysWellFormed
  BY WireIs DEF AlwaysWellFormed
<1>2. entry # Undefined => Accepted("analysis")
  BY DEF DocumentInv
<1>3. ASSUME stage = "read" PROVE hit = Renamed(answer[2], Queried)
  <2>1. /\ answer = Judgement /\ answer[1] = "analysis" /\ entry = Stringify(answer[2])
        /\ hit = IF validateAnalysis(entry) THEN Renamed(entry, Queried) ELSE Null
    BY <1>3 DEF DocumentInv, Judged, Accepted
  <2>2. PICK W : Closed(W) /\ wire \in W /\ ~HasNaN(wire)
    BY <1>3, WireIs
  <2>3. answer = parseEngineOutput(wire)
    BY <2>1, <2>2 DEF Judgement, ContractError, EngineUnavailableError
  <2>4. LET parsed == parseEngineOutput(wire) IN
         /\ parsed[1] = "error" <=> ErrorShape(wire)
         /\ parsed[1] = "analysis" => parsed = <<"analysis", wire>> /\ validateAnalysis(wire)
    BY <2>2, ParseSame
  <2>5. answer[2] = wire /\ validateAnalysis(wire) /\ ~ErrorShape(wire)
    BY <2>1, <2>3, <2>4
  <2>6. wire = doc /\ IsDocument(wire) /\ ~HasNaN(wire)
    BY <1>3, <2>5, WireIs DEF DocumentInv
  <2>7. Stringify(wire) = wire
    BY <2>6, StringifySame
  <2> QED BY <2>1, <2>5, <2>7
<1> QED BY <1>1, <1>2, <1>3 DEF RoundTrip, AcceptedSurvives

(* The history of every document is as its stage tells. *)
LEMMA DocumentAlways == Spec => []DocumentInv
<1>1. Init => DocumentInv
  <2> SUFFICES ASSUME Init PROVE DocumentInv
    OBVIOUS
  <2>1. PICK o \in Outputs : DocumentInit(o[2], o[3])
    BY DEF Init
  <2>2. o[2] \in Commands /\ IsDocument(o[3])
    BY SidecarAssumption
  <2>3. command = o[2] /\ doc = o[3] /\ stage = "returned" /\ entry = Undefined
    BY <2>1 DEF DocumentInit
  <2> QED BY <2>2, <2>3 DEF DocumentInv, Judged
<1>2. DocumentInv /\ [Next]_vars => DocumentInv'
  <2> SUFFICES ASSUME DocumentInv, [Next]_vars PROVE DocumentInv'
    OBVIOUS
  <2>1. CASE ReadStderr
    BY <2>1, DocumentKept DEF ReadStderr
  <2>2. CASE HandleDocument
    BY <2>2, DocumentStep DEF HandleDocument
  <2>3. CASE Show
    BY <2>3, DocumentKept DEF Show
  <2>4. CASE UNCHANGED vars
    BY <2>4, DocumentKept DEF vars
  <2> QED BY <2>1, <2>2, <2>3, <2>4 DEF Next
<1> QED BY <1>1, <1>2, PTL DEF Spec

(* Whatever an engine prints, the validator and the schemas take it for the *)
(* same thing, but for times below zero.                                    *)
THEOREM AgreeHolds == Spec => []AgreeButForTolerance
BY DocumentAlways, AgreeHere, PTL

(* Whatever an engine returns, stdout can be parsed, and an analysis, and   *)
(* nothing else, is stored and comes back from the cache as it was.         *)
THEOREM RoundTripHolds == Spec => []RoundTrip
BY DocumentAlways, RoundTripHere, PTL

-----------------------------------------------------------------------------
(* Names and numerals *)

(* The letter and the alteration of a name. *)
LEMMA NoteIs ==
  ASSUME NEW name \in DOMAIN Notes
  PROVE  /\ Letter(name) \in {"C", "D", "E", "F", "G", "A", "B"} /\ Alteration(name) \in Int
         /\ Notes[name] = <<Letter(name), Alteration(name)>>
         /\ Letters[Letter(name)] \in 0..11
<1>1. Notes[name] \in (DOMAIN Letters) \X Int
  BY SpellingAssumption
<1>2. DOMAIN Letters = {"C", "D", "E", "F", "G", "A", "B"}
  BY DEF Letters
<1>3. \A l \in DOMAIN Letters : Letters[l] \in 0..11
  BY DEF Letters
<1> QED BY <1>1, <1>2, <1>3 DEF Letter, Alteration

(* A pitch class is one of twelve. *)
LEMMA PcIs ==
  ASSUME NEW name
  PROVE  /\ noteToPc(name) # None <=> name \in DOMAIN Notes
         /\ noteToPc(name) # None => noteToPc(name) \in 0..11
<1>1. CASE name \in DOMAIN Notes
  <2>1. Letters[Letter(name)] + Alteration(name) \in Int
    BY <1>1, NoteIs
  <2> DEFINE n == Letters[Letter(name)] + Alteration(name)
  <2>2. n \in Int => n % 12 \in 0..11
    <3> HIDE DEF n
    <3> QED OBVIOUS
  <2>3. noteToPc(name) = n % 12
    BY <1>1 DEF noteToPc
  <2> QED BY <1>1, <2>1, <2>2, <2>3, SpellingAssumption
<1>2. CASE name \notin DOMAIN Notes
  BY <1>2 DEF noteToPc
<1> QED BY <1>1, <1>2

(* The tables have one name for each pitch class, with sharps or flats. *)
LEMMA TablesAre ==
  ASSUME NEW pc \in 0..11
  PROVE  /\ noteToPc(Sharps[pc + 1]) = pc /\ Alteration(Sharps[pc + 1]) \in {0, 1}
         /\ noteToPc(Flats[pc + 1]) = pc /\ Alteration(Flats[pc + 1]) \in {-1, 0}
<1>1. pc + 1 \in 1..12
  OBVIOUS
<1>2. /\ Sharps[pc + 1] \in DOMAIN Notes /\ Flats[pc + 1] \in DOMAIN Notes
      /\ Notes[Sharps[pc + 1]] = SharpNotes[pc + 1] /\ Notes[Flats[pc + 1]] = FlatNotes[pc + 1]
  BY <1>1, SpellingAssumption
<1>3. \A n \in 0..11 : /\ (Letters[SharpNotes[n + 1][1]] + SharpNotes[n + 1][2]) % 12 = n
                       /\ SharpNotes[n + 1][2] \in {0, 1}
  BY DEF Letters, SharpNotes
<1>4. \A n \in 0..11 : /\ (Letters[FlatNotes[n + 1][1]] + FlatNotes[n + 1][2]) % 12 = n
                       /\ FlatNotes[n + 1][2] \in {-1, 0}
  BY DEF Letters, FlatNotes
<1> QED BY <1>2, <1>3, <1>4 DEF noteToPc, Letter, Alteration

(* Whether a key is spelled with flats is what its signature says. *)
LEMMA FlatsAre ==
  ASSUME NEW k, k.tonic \in Capitals, k.mode \in Modes
  PROVE  keyPrefersFlats(k.tonic, k.mode) <=> Signature(k) < 0
<1> DEFINE l == Letter(k.tonic)
           a == Alteration(k.tonic)
<1>1. l \in {"C", "D", "E", "F", "G", "A", "B"} /\ a \in Int
  BY NoteIs, SpellingAssumption
<1>2. keyPrefersFlats(k.tonic, k.mode) <=>
        a < 0 \/ (a = 0 /\ l \in IF k.mode = "major" THEN {"F"} ELSE {"D", "G", "C", "F"})
  BY DEF keyPrefersFlats
<1>3. Signature(k) = Fifths[l] + 7 * a - (IF k.mode = "minor" THEN 3 ELSE 0)
  BY DEF Signature
<1>4. k.mode \in {"major", "minor"}
  BY DEF Modes
<1>5. /\ Fifths["F"] = -1 /\ Fifths["C"] = 0 /\ Fifths["G"] = 1 /\ Fifths["D"] = 2
      /\ Fifths["A"] = 3 /\ Fifths["E"] = 4 /\ Fifths["B"] = 5
  BY DEF Fifths
<1> HIDE DEF l, a
<1>6. CASE k.mode = "major"
  BY <1>1, <1>2, <1>3, <1>5, <1>6
<1>7. CASE k.mode = "minor"
  BY <1>1, <1>2, <1>3, <1>5, <1>7
<1> QED BY <1>4, <1>6, <1>7

(* What is written of a triad and what is added to it tell which quality it is. *)
LEMMA BasesAre ==
  ASSUME NEW q, ExtendedBase(q) # None
  PROVE  /\ ExtendedBase(q) \in {"maj", "min"} \X Additions
         /\ \A p : ExtendedBase(p) = ExtendedBase(q) => p = q
<1> DEFINE known == {"maj", "min", "maj6", "min6", "maj7", "min7", "7", "minmaj7"}
<1>1. ASSUME NEW p, p \notin known PROVE ExtendedBase(p) = None
  BY <1>1 DEF ExtendedBase
<1>2. q \in known
  BY <1>1
<1> DEFINE none == ""
<1>3. /\ ExtendedBase("maj") = <<"maj", none>>    /\ ExtendedBase("min") = <<"min", none>>
      /\ ExtendedBase("maj6") = <<"maj", "6">>    /\ ExtendedBase("min6") = <<"min", "6">>
      /\ ExtendedBase("maj7") = <<"maj", "maj7">> /\ ExtendedBase("min7") = <<"min", "7">>
      /\ ExtendedBase("7") = <<"maj", "7">>       /\ ExtendedBase("minmaj7") = <<"min", "maj7">>
  BY DEF ExtendedBase
<1>4. Additions = {none, "6", "7", "maj7"} /\ none \notin {"6", "7", "maj7"}
  BY DEF Additions
<1> HIDE DEF none
<1>5. ExtendedBase(q) \in {"maj", "min"} \X Additions
  BY <1>2, <1>3, <1>4
<1>6. ASSUME NEW p \in known, ExtendedBase(p) = ExtendedBase(q) PROVE p = q
  BY <1>2, <1>3, <1>4, <1>6
<1> QED BY <1>1, <1>5, <1>6

(* The rows of a mode, one for each of its triads. *)
RowsOf(mode) == IF mode = "major" THEN MajorRows ELSE MinorRows

LEMMA RowIs ==
  ASSUME NEW mode, NEW row \in RowsOf(mode)
  PROVE  /\ row = Row(row.interval, row.quality, row.numeral)
         /\ row.interval \in 0..11 /\ row.quality \in {"maj", "min"} /\ row.numeral \in Numerals
BY DEF RowsOf, MajorRows, MinorRows, Row, Numerals

(* ... which its numeral tells, and its degree and quality. *)
LEMMA RowsTell ==
  ASSUME NEW mode, NEW r \in RowsOf(mode), NEW s \in RowsOf(mode)
  PROVE  /\ r.numeral = s.numeral => r = s
         /\ r.interval = s.interval /\ r.quality = s.quality => r = s
<1>1. CASE mode = "major"
  BY <1>1 DEF RowsOf, MajorRows, Row
<1>2. CASE mode # "major"
  BY <1>2 DEF RowsOf, MinorRows, Row
<1> QED BY <1>1, <1>2

(* The row a numeral is read from. *)
IsRow(row, c, k) ==
  /\ row \in RowsOf(k.mode) /\ row.interval = Interval(c.root, k.tonic)
  /\ row.quality = ExtendedBase(c.quality)[1]

(* There is a numeral when there is a row, and it is that of the row. *)
LEMMA NumeralIs ==
  ASSUME NEW c, NEW k
  PROVE  LET readable == /\ ExtendedBase(c.quality) # None
                         /\ noteToPc(c.root) # None /\ noteToPc(k.tonic) # None
         IN /\ romanNumeral(c, k) # None <=> readable /\ \E row : IsRow(row, c, k)
            /\ \A row : readable /\ IsRow(row, c, k) =>
                 romanNumeral(c, k) = <<row.numeral, ExtendedBase(c.quality)[2]>>
<1> DEFINE base == ExtendedBase(c.quality)
           rows == RowsFor(base[1], Interval(c.root, k.tonic), k.mode)
<1>1. CASE base = None \/ noteToPc(c.root) = None \/ noteToPc(k.tonic) = None
  BY <1>1 DEF romanNumeral
<1>2. CASE ~(base = None \/ noteToPc(c.root) = None \/ noteToPc(k.tonic) = None)
  <2>1. romanNumeral(c, k) =
          IF rows = {} THEN None ELSE <<(CHOOSE row \in rows : TRUE).numeral, base[2]>>
    BY <1>2 DEF romanNumeral
  <2>2. \A row : row \in rows <=> IsRow(row, c, k)
    BY DEF RowsFor, IsRow, RowsOf
  <2>3. base \in {"maj", "min"} \X Additions
    BY <1>2, BasesAre
  <2>4. ASSUME NEW row \in rows
        PROVE  romanNumeral(c, k) = <<row.numeral, base[2]>> /\ romanNumeral(c, k) # None
    <3>1. PICK chosen \in rows : chosen = CHOOSE r \in rows : TRUE
      BY <2>4
    <3>2. chosen \in RowsOf(k.mode) /\ row \in RowsOf(k.mode)
      BY <2>2, <2>4 DEF IsRow
    <3>3. chosen = row
      BY <2>2, <2>4, <3>2, RowsTell DEF IsRow
    <3>4. romanNumeral(c, k) = <<row.numeral, base[2]>>
      BY <2>1, <2>4, <3>1, <3>3
    <3>5. row.numeral \in Numerals
      BY <3>2, RowIs
    <3>6. <<row.numeral, base[2]>> \in ({"maj", "min"} \cup Numerals) \X Additions
      BY <2>3, <3>5
    <3> QED BY <3>4, <3>6, SpellingAssumption
  <2> HIDE DEF rows
  <2>5. romanNumeral(c, k) # None <=> rows # {}
    BY <2>1, <2>4
  <2> QED BY <1>2, <2>2, <2>4, <2>5
<1> QED BY <1>1, <1>2

(* The numerals of a mode tell the intervals and qualities of its chords apart. *)
LEMMA NumeralsTellChords ==
  ASSUME NEW c, NEW k, NEW d, NEW l, k.mode = l.mode, romanNumeral(d, l) # None,
         noteToPc(k.tonic) # None
  PROVE  romanNumeral(c, k) = romanNumeral(d, l) <=>
           /\ noteToPc(c.root) # None /\ c.quality = d.quality
           /\ Interval(c.root, k.tonic) = Interval(d.root, l.tonic)
<1>1. ExtendedBase(d.quality) # None
  BY NumeralIs
<1>2. PICK s : IsRow(s, d, l)
  BY NumeralIs
<1>3. romanNumeral(d, l) = <<s.numeral, ExtendedBase(d.quality)[2]>>
  BY <1>2, NumeralIs
<1>4. ExtendedBase(d.quality) \in {"maj", "min"} \X Additions
  BY <1>1, BasesAre
<1>5. ASSUME romanNumeral(c, k) = romanNumeral(d, l)
      PROVE  /\ noteToPc(c.root) # None /\ c.quality = d.quality
             /\ Interval(c.root, k.tonic) = Interval(d.root, l.tonic)
  <2>1. noteToPc(c.root) # None /\ ExtendedBase(c.quality) # None
    BY <1>5, NumeralIs
  <2>2. PICK r : IsRow(r, c, k)
    BY <1>5, NumeralIs
  <2>3. romanNumeral(c, k) = <<r.numeral, ExtendedBase(c.quality)[2]>>
    BY <1>5, <2>2, NumeralIs
  <2>4. r.numeral = s.numeral /\ ExtendedBase(c.quality)[2] = ExtendedBase(d.quality)[2]
    BY <1>3, <1>5, <2>3
  <2>5. r \in RowsOf(k.mode) /\ s \in RowsOf(k.mode)
    BY <1>2, <2>2 DEF IsRow
  <2>6. r = s
    BY <2>4, <2>5, RowsTell
  <2>7. ExtendedBase(c.quality)[1] = ExtendedBase(d.quality)[1]
    BY <1>2, <2>2, <2>6 DEF IsRow
  <2>8. ExtendedBase(c.quality) \in {"maj", "min"} \X Additions
    BY <2>1, BasesAre
  <2>9. ExtendedBase(c.quality) = ExtendedBase(d.quality)
    BY <1>4, <2>4, <2>7, <2>8
  <2> QED BY <1>1, <1>2, <2>1, <2>2, <2>6, <2>9, BasesAre DEF IsRow
<1>6. ASSUME /\ noteToPc(c.root) # None /\ c.quality = d.quality
             /\ Interval(c.root, k.tonic) = Interval(d.root, l.tonic)
      PROVE  romanNumeral(c, k) = romanNumeral(d, l)
  <2>1. IsRow(s, c, k)
    BY <1>2, <1>6 DEF IsRow
  <2> QED BY <1>1, <1>3, <1>6, <2>1, NumeralIs
<1> QED BY <1>5, <1>6

(* Moved up by a tonic, a scale holds what it held, moved. *)
LEMMA Shifted ==
  ASSUME NEW r \in 0..11, NEW t \in 0..11, NEW x \in 0..11, NEW scale \in SUBSET (0..11)
  PROVE  (r + x) % 12 \in {(t + y) % 12 : y \in scale} <=> (((r - t + 12) % 12) + x) % 12 \in scale
<1> DEFINE m == (((r - t + 12) % 12) + x) % 12
<1>1. m \in 0..11 /\ (t + m) % 12 = (r + x) % 12
  OBVIOUS
<1>2. \A y \in 0..11 : (t + y) % 12 = (t + m) % 12 => y = m
  BY <1>1
<1> HIDE DEF m
<1>3. m \in scale => (r + x) % 12 \in {(t + y) % 12 : y \in scale}
  BY <1>1
<1>4. ASSUME NEW y \in scale, (r + x) % 12 = (t + y) % 12 PROVE m \in scale
  BY <1>1, <1>2, <1>4
<1> QED BY <1>3, <1>4 DEF m

(* Where a triad lies is said by its interval. *)
LEMMA InScale ==
  ASSUME NEW root, NEW tonic, noteToPc(root) # None, noteToPc(tonic) # None,
         NEW base \in {"maj", "min"}, NEW scale \in SUBSET (0..11)
  PROVE  /\ Interval(root, tonic) \in 0..11
         /\ Above(Triad(base), root) \subseteq Above(scale, tonic) <=>
              \A x \in Triad(base) : (Interval(root, tonic) + x) % 12 \in scale
<1> DEFINE r == noteToPc(root)
           t == noteToPc(tonic)
<1>1. r \in 0..11 /\ t \in 0..11
  BY PcIs
<1>2. Interval(root, tonic) = (r - t + 12) % 12
  BY DEF Interval
<1>3. /\ Above(Triad(base), root) = {(r + x) % 12 : x \in Triad(base)}
      /\ Above(scale, tonic) = {(t + y) % 12 : y \in scale}
  BY DEF Above
<1> HIDE DEF r, t
<1>4. Triad(base) \subseteq 0..11
  BY DEF Triad
<1>5. Interval(root, tonic) \in 0..11
  BY <1>1, <1>2
<1>6. \A x \in Triad(base) :
        (r + x) % 12 \in {(t + y) % 12 : y \in scale} <=> (Interval(root, tonic) + x) % 12 \in scale
  BY <1>1, <1>2, <1>4, Shifted
<1> QED BY <1>3, <1>5, <1>6

(* The tables are the triads of the scales. *)
LEMMA RowsAre ==
  ASSUME NEW mode \in Modes, NEW interval \in 0..11, NEW base \in {"maj", "min"}
  PROVE  LET In(scale) == \A x \in Triad(base) : (interval + x) % 12 \in scale
         IN (\E row \in RowsOf(mode) : row.interval = interval /\ row.quality = base) <=>
              IF mode = "major" THEN In(MajorScale)
              ELSE In(NaturalMinor) \/ (interval = 7 /\ In(HarmonicMinor))
<1>1. CASE mode = "major" /\ base = "maj"
  BY <1>1 DEF RowsOf, MajorRows, Row, MajorScale, Triad
<1>2. CASE mode = "major" /\ base = "min"
  BY <1>2 DEF RowsOf, MajorRows, Row, MajorScale, Triad
<1>3. CASE mode = "minor" /\ base = "maj"
  BY <1>3 DEF RowsOf, MinorRows, Row, NaturalMinor, HarmonicMinor, Triad
<1>4. CASE mode = "minor" /\ base = "min"
  BY <1>4 DEF RowsOf, MinorRows, Row, NaturalMinor, HarmonicMinor, Triad
<1> QED BY <1>1, <1>2, <1>3, <1>4 DEF Modes

(* Qualities that are not written as another one is. *)
Telling(quality) == quality \notin {"", "m"}

(* What is written after a root tells which of them it is. *)
LEMMA SuffixesTell ==
  ASSUME NEW p, NEW q, Telling(p), Telling(q)
  PROVE  qualitySuffix(p) = qualitySuffix(q) <=> p = q
<1> DEFINE none == ""
<1>1. \A x : qualitySuffix(x) = IF x = "maj" THEN none ELSE IF x = "min" THEN "m" ELSE x
  BY DEF qualitySuffix
<1>2. none # "m" /\ p \notin {none, "m"} /\ q \notin {none, "m"}
  BY DEF Telling
<1> HIDE DEF none
<1> QED BY <1>1, <1>2

(* The name of a pitch class in a key. *)
NameIn(k, pc) == IF keyPrefersFlats(k.tonic, k.mode) THEN Flats[pc + 1] ELSE Sharps[pc + 1]

(* What a label is made of. *)
LEMMA LabelIs ==
  ASSUME NEW c, NEW k
  PROVE  LET heard == c.quality # "N" /\ noteToPc(c.root) # None
         IN /\ heard => formatChordLabel(c, k) =
                          <<NameIn(k, noteToPc(c.root)), qualitySuffix(c.quality)>>
            /\ ~heard => \E x : formatChordLabel(c, k) = <<x>>
<1>1. c.root = None => noteToPc(c.root) = None
  BY PcIs, SpellingAssumption
<1> QED BY <1>1 DEF formatChordLabel, NameIn

(* A chord that is heard: its pitch class, None for silence and the unreadable. *)
SoundOf(s) == IF s.quality = "N" THEN None ELSE noteToPc(s.root)

(* It is a pitch class. *)
LEMMA SoundIs ==
  ASSUME NEW s, SoundOf(s) # None
  PROVE  /\ s.quality # "N" /\ noteToPc(s.root) # None
         /\ SoundOf(s) = noteToPc(s.root) /\ SoundOf(s) \in 0..11
BY PcIs DEF SoundOf

(* The name of a pitch class is one that is read as it. *)
LEMMA NameIs ==
  ASSUME NEW k, NEW pc \in 0..11
  PROVE  /\ noteToPc(NameIn(k, pc)) = pc
         /\ k.tonic \in Capitals /\ k.mode \in Modes /\ Alteration(NameIn(k, pc)) # 0 =>
              (Alteration(NameIn(k, pc)) < 0 <=> Signature(k) < 0)
<1>1. noteToPc(NameIn(k, pc)) = pc
  BY TablesAre DEF NameIn
<1>2. ASSUME k.tonic \in Capitals, k.mode \in Modes, Alteration(NameIn(k, pc)) # 0
      PROVE  Alteration(NameIn(k, pc)) < 0 <=> Signature(k) < 0
  <2>1. keyPrefersFlats(k.tonic, k.mode) <=> Signature(k) < 0
    BY <1>2, FlatsAre
  <2>2. CASE keyPrefersFlats(k.tonic, k.mode)
    <3>1. NameIn(k, pc) = Flats[pc + 1]
      BY <2>2 DEF NameIn
    <3> QED BY <1>2, <2>1, <2>2, <3>1, TablesAre
  <2>3. CASE ~keyPrefersFlats(k.tonic, k.mode)
    <3>1. NameIn(k, pc) = Sharps[pc + 1]
      BY <2>3 DEF NameIn
    <3> QED BY <1>2, <2>1, <2>3, <3>1, TablesAre
  <2> QED BY <2>2, <2>3
<1> QED BY <1>1, <1>2

(* Two labels of a key are alike when their chords sound alike. *)
LEMMA LabelsAlike ==
  ASSUME NEW k, NEW c, NEW d, SoundOf(c) # None,
         Telling(c.quality), Telling(d.quality)
  PROVE  formatChordLabel(c, k) = formatChordLabel(d, k) <=>
           SoundOf(c) = SoundOf(d) /\ c.quality = d.quality
<1>1. formatChordLabel(c, k) = <<NameIn(k, SoundOf(c)), qualitySuffix(c.quality)>>
  BY SoundIs, LabelIs
<1>2. CASE SoundOf(d) = None
  <2>1. ~(d.quality # "N" /\ noteToPc(d.root) # None)
    BY <1>2 DEF SoundOf
  <2>2. PICK x : formatChordLabel(d, k) = <<x>>
    BY <2>1, LabelIs
  <2>3. \A a, b, y : <<a, b>> # <<y>>
    OBVIOUS
  <2> QED BY <1>1, <1>2, <2>2, <2>3
<1>3. CASE SoundOf(d) # None
  <2>1. formatChordLabel(d, k) = <<NameIn(k, SoundOf(d)), qualitySuffix(d.quality)>>
    BY <1>3, SoundIs, LabelIs
  <2>2. qualitySuffix(c.quality) = qualitySuffix(d.quality) <=> c.quality = d.quality
    BY SuffixesTell
  <2>3. noteToPc(NameIn(k, SoundOf(c))) = SoundOf(c) /\ noteToPc(NameIn(k, SoundOf(d))) = SoundOf(d)
    BY <1>3, SoundIs, NameIs
  <2>4. \A a, b, x, y : <<a, b>> = <<x, y>> <=> a = x /\ b = y
    OBVIOUS
  <2> QED BY <1>1, <2>1, <2>2, <2>3, <2>4
<1> QED BY <1>2, <1>3

(* What is on the screen is what was read of the cache. *)
PanelsInv == Shown => stage = "read" /\ panels = Panels(hit)

(* What was read is in a mode there is. *)
LEMMA ModeIs ==
  ASSUME DocumentInv, stage = "read"
  PROVE  keyOf(hit).mode \in Modes
<1>1. /\ answer = Judgement /\ answer[1] = "analysis"
  BY DEF DocumentInv, Judged, Accepted
<1>2. PICK W : Closed(W) /\ wire \in W /\ ~HasNaN(wire)
  BY WireIs
<1>3. answer = parseEngineOutput(wire)
  BY <1>1, <1>2 DEF Judgement, ContractError, EngineUnavailableError
<1>4. answer = <<"analysis", wire>> /\ validateAnalysis(wire)
  BY <1>1, <1>2, <1>3, ParseSame
<1>5. hit = Renamed(answer[2], Queried)
  BY RoundTripHere DEF RoundTrip, AcceptedSurvives
<1>6. AnalysisSchema(wire, Lowest(wire)) /\ isObj(wire)
  BY <1>1, <1>2, <1>3, ParseSame DEF Agreed, AnalysisSchema, Shaped, isObj
<1>7. "key" \in Keys(wire) /\ KeySchema(wire[2].key)
  BY <1>6 DEF AnalysisSchema, Shaped, AnalysisFields
<1>8. hit[2].key = wire[2].key
  BY <1>4, <1>5, <1>7 DEF Renamed, Obj, Get, Keys
<1>9. wire[2].key[2].mode \in Strs({"major", "minor"})
  BY <1>7 DEF KeySchema
<1> QED BY <1>8, <1>9 DEF keyOf, Strs, Str, Modes

(* Nothing is read or shown twice. *)
LEMMA PanelsAlways == Spec => [](DocumentInv /\ PanelsInv)
<1>1. Init => PanelsInv
  BY DEF Init, PanelsInv, Shown
<1>2. PanelsInv /\ [Next]_vars => PanelsInv'
  <2> SUFFICES ASSUME PanelsInv, [Next]_vars PROVE PanelsInv'
    OBVIOUS
  <2>1. CASE ReadStderr \/ UNCHANGED vars
    <3>1. stage' = stage /\ hit' = hit /\ panels' = panels
      BY <2>1 DEF ReadStderr, vars, documentVars
    <3>2. Panels(hit)' = Panels(hit)
      BY <3>1
    <3> QED BY <3>1, <3>2 DEF PanelsInv, Shown
  <2>2. CASE HandleDocument
    <3>1. stage # "read" /\ panels' = panels
      BY <2>2 DEF HandleDocument, DocumentNext, WriteResult, Receive, Put, Lookup
    <3> QED BY <3>1 DEF PanelsInv, Shown
  <2>3. CASE Show
    <3>1. stage = "read" /\ stage' = stage /\ hit' = hit /\ panels' = Panels(hit)
      BY <2>3 DEF Show, documentVars
    <3>2. Panels(hit)' = Panels(hit)
      BY <3>1
    <3> QED BY <3>1, <3>2 DEF PanelsInv, Shown
  <2> QED BY <2>1, <2>2, <2>3 DEF Next
<1> QED BY <1>1, <1>2, DocumentAlways, PTL DEF Spec

(* The cells are those of the runs of chords. *)
LEMMA CellsAre ==
  ASSUME PanelsInv, Shown
  PROVE  /\ panels.key = keyOf(hit)
         /\ \A i \in ShownCells :
              /\ panels.cells[i].label = formatChordLabel(cellRuns[i], keyOf(hit))
              /\ panels.cells[i].numeral = romanNumeral(cellRuns[i], keyOf(hit))
              /\ Sounds(i) = SoundOf(cellRuns[i])
<1> DEFINE s == collapseProgression(segments(hit))
           k == keyOf(hit)
<1>1. panels = Panels(hit)
  BY DEF PanelsInv
<1>2. Panels(hit) = [key |-> formatKey(k),
                     cells |-> [i \in DOMAIN s |->
                                  [run |-> s[i], label |-> formatChordLabel(s[i], k),
                                   numeral |-> romanNumeral(s[i], k)]]]
  BY DEF Panels
<1>3. \A i : Sounds(i) = SoundOf(cellRuns[i])
  BY DEF Sounds, SoundOf
<1> HIDE DEF s, k
<1>4. /\ panels.key = k
      /\ \A i \in ShownCells :
           /\ panels.cells[i].run = s[i]
           /\ panels.cells[i].label = formatChordLabel(s[i], k)
           /\ panels.cells[i].numeral = romanNumeral(s[i], k)
  BY <1>1, <1>2 DEF formatKey, ShownCells
<1>5. \A i \in ShownCells : cellRuns[i] = s[i]
  BY <1>4 DEF cellRuns
<1> QED BY <1>3, <1>4, <1>5 DEF k

(* So labels tell ... *)
LEMMA LabelsHere ==
  DocumentInv /\ PanelsInv => LabelsTell
<1> SUFFICES ASSUME DocumentInv, PanelsInv, Shown PROVE LabelsTell
  BY DEF LabelsTell, LabelIsWhatSounds, FlatsAsSigned
<1> DEFINE s == cellRuns
           k == keyOf(hit)
<1>1. panels.key = k /\ \A i \in ShownCells :
        panels.cells[i].label = formatChordLabel(s[i], k) /\ Sounds(i) = SoundOf(s[i])
  BY CellsAre
<1>2. k.mode \in Modes
  BY ModeIs DEF PanelsInv
<1>3. \A i : ToldApart(i) <=> Telling(s[i].quality)
  BY DEF ToldApart, Telling
<1>4. ASSUME NEW i \in ShownCells, Sounds(i) # None
      PROVE  /\ panels.cells[i].label[1] = NameIn(k, Sounds(i)) /\ Sounds(i) \in 0..11
  <2> HIDE DEF s, k
  <2>1. formatChordLabel(s[i], k) = <<NameIn(k, SoundOf(s[i])), qualitySuffix(s[i].quality)>>
    BY <1>1, <1>4, SoundIs, LabelIs
  <2> QED BY <1>1, <1>4, <2>1, SoundIs
<1>5. ASSUME NEW i \in ShownCells, NEW j \in ShownCells, Sounds(i) # None, ToldApart(i), ToldApart(j)
      PROVE  panels.cells[i].label = panels.cells[j].label <=>
               Sounds(i) = Sounds(j) /\ s[i].quality = s[j].quality
  <2>1. Telling(s[i].quality) /\ Telling(s[j].quality)
    BY <1>3, <1>5
  <2> HIDE DEF s, k
  <2> QED BY <1>1, <1>5, <2>1, LabelsAlike
<1>6. LabelIsWhatSounds
  <2>1. \A i \in ShownCells : Sounds(i) # None => noteToPc(panels.cells[i].label[1]) = Sounds(i)
    <3> HIDE DEF s, k
    <3> QED BY <1>4, NameIs
  <2> QED BY <1>5, <2>1 DEF LabelIsWhatSounds
<1>7. FlatsAsSigned
  <2> HIDE DEF s, k
  <2> SUFFICES ASSUME HasSignature(k), NEW i \in ShownCells, Sounds(i) # None,
                      Alteration(panels.cells[i].label[1]) # 0
               PROVE  Alteration(panels.cells[i].label[1]) < 0 <=> Signature(k) < 0
    BY <1>1 DEF FlatsAsSigned
  <2>1. k.tonic \in Capitals
    BY DEF HasSignature
  <2> QED BY <1>2, <1>4, <2>1, NameIs
<1> QED BY <1>6, <1>7 DEF LabelsTell

(* ... and numerals. *)
LEMMA NumeralsHere ==
  DocumentInv /\ PanelsInv => NumeralsTell
<1> SUFFICES ASSUME DocumentInv, PanelsInv, Shown PROVE NumeralsTell
  BY DEF NumeralsTell, NumeralIffDiatonic, NumeralNamesOneChord
<1> DEFINE s == cellRuns
           key == keyOf(hit)
<1>1. panels.key = key /\ \A i \in ShownCells :
        panels.cells[i].numeral = romanNumeral(s[i], key) /\ Sounds(i) = SoundOf(s[i])
  BY CellsAre
<1>2. key.mode \in Modes
  BY ModeIs DEF PanelsInv
<1>3. NumeralIffDiatonic
  <2> SUFFICES ASSUME noteToPc(key.tonic) # None, NEW i \in ShownCells, Sounds(i) # None,
                      ExtendedBase(s[i].quality) # None
               PROVE  LET triad == Above(Triad(ExtendedBase(s[i].quality)[1]), s[i].root)
                          In(scale) == triad \subseteq Above(scale, key.tonic)
                      IN panels.cells[i].numeral # None <=>
                           IF key.mode = "major" THEN In(MajorScale)
                           ELSE In(NaturalMinor) \/
                                  (Interval(s[i].root, key.tonic) = 7 /\ In(HarmonicMinor))
    BY <1>1 DEF NumeralIffDiatonic
  <2> DEFINE base == ExtendedBase(s[i].quality)[1]
             interval == Interval(s[i].root, key.tonic)
             Falls(scale) == \A x \in Triad(base) : (interval + x) % 12 \in scale
  <2>1. noteToPc(s[i].root) # None
    BY <1>1, SoundIs
  <2>2. base \in {"maj", "min"}
    BY BasesAre
  <2>3. interval \in 0..11 /\ \A scale \in SUBSET (0..11) :
          Above(Triad(base), s[i].root) \subseteq Above(scale, key.tonic) <=> Falls(scale)
    <3> HIDE DEF s, key, base
    <3> QED BY <2>1, <2>2, InScale
  <2>4. romanNumeral(s[i], key) # None <=> \E row : IsRow(row, s[i], key)
    BY <2>1, NumeralIs
  <2>5. (\E row : IsRow(row, s[i], key)) <=>
          \E row \in RowsOf(key.mode) : row.interval = interval /\ row.quality = base
    BY DEF IsRow
  <2>6. (\E row \in RowsOf(key.mode) : row.interval = interval /\ row.quality = base) <=>
          IF key.mode = "major" THEN Falls(MajorScale)
          ELSE Falls(NaturalMinor) \/ (interval = 7 /\ Falls(HarmonicMinor))
    BY <1>2, <2>2, <2>3, RowsAre
  <2>7. {MajorScale, NaturalMinor, HarmonicMinor} \subseteq SUBSET (0..11)
    BY DEF MajorScale, NaturalMinor, HarmonicMinor
  <2> QED BY <1>1, <2>3, <2>4, <2>5, <2>6, <2>7
<1>4. NumeralNamesOneChord
  <2> SUFFICES ASSUME NEW k \in KeysOf, k.mode = key.mode, NEW c \in Chords,
                      NEW i \in ShownCells, panels.cells[i].numeral # None
               PROVE  romanNumeral(c, k) = panels.cells[i].numeral <=>
                        /\ noteToPc(c.root) # None /\ c.quality = s[i].quality
                        /\ Interval(c.root, k.tonic) = Interval(s[i].root, key.tonic)
    BY <1>1 DEF NumeralNamesOneChord
  <2>1. noteToPc(k.tonic) # None
    BY PcIs, SidecarAssumption DEF KeysOf
  <2> HIDE DEF s, key
  <2> QED BY <1>1, <2>1, NumeralsTellChords
<1> QED BY <1>3, <1>4 DEF NumeralsTell

(* A label says which chord was heard, whatever the song and its key. *)
THEOREM LabelsTellHolds == Spec => []LabelsTell
BY PanelsAlways, LabelsHere, PTL

(* A numeral is there for the chords of the key and says which one it is. *)
THEOREM NumeralsTellHolds == Spec => []NumeralsTell
BY PanelsAlways, NumeralsHere, PTL
=============================================================================
