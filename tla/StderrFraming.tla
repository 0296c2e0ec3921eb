---------------------------- MODULE StderrFraming ----------------------------
(***************************************************************************)
(* How readStderr of core/engine.ts turns the bytes of a child's stderr    *)
(* into events: decoding, framing on "\n", and handleStderrLine, for every *)
(* way the pipe may cut the bytes into chunks.  What the child wrote may   *)
(* end anywhere, as when it is killed.                                     *)
(*                                                                         *)
(* EngineRun counts whole lines; this module is about what is in them.     *)
(***************************************************************************)
EXTENDS Naturals, SequencesExt

CONSTANTS
  Json,     \* the parseable texts, each with the value JSON.parse makes of it
  Chars,    \* what a text is made of: bytes, and what they are decoded to
  MaxCalls, \* bound: the latest call of onEvent that may throw
  Missing   \* not there: no such field, no event

Char == "e-acute"        \* the one character of two bytes, <<"lead", "cont">>
Bad == "U+FFFD"          \* what a decoder puts for a broken character
Blank == " "
NL == "\n"

Remarks == {"unparseable stderr line", "unknown stderr event"}

ASSUME StderrAssumption ==
  /\ {"lead", "cont", Char, Bad, Blank, NL} \subseteq Chars
  /\ MaxCalls \in Nat /\ Missing \notin Remarks \X Seq(Chars)

EngineStages == {"decode", "features", "beat-track", "chord-decode", "key-detect", "assemble"}
Levels == {"info", "warn", "error"}

VARIABLES
  text,     \* what the child wrote before its end of the pipe was closed
  pos,      \* how much of it was read
  held,     \* the decoder's incomplete character
  buf,      \* decoded text after the last newline
  calls,    \* the events onEvent was called with
  throwsAt, \* the call of onEvent that throws; 0: none does
  listens,  \* is there an onEvent?
  phase

stderrVars == <<text, pos, held, buf, calls, throwsAt, listens, phase>>
input == <<text, throwsAt, listens>>

Log(level, msg) == [type |-> "log", level |-> level, msg |-> msg]
Progress(stage, index, total) ==
  [type |-> "progress", stage |-> stage, index |-> index, total |-> total]

(* What the child writes is a sequence of bytes. *)
StderrInit(bytes) ==
  /\ text = bytes
  /\ throwsAt \in 0..MaxCalls /\ listens \in BOOLEAN
  /\ throwsAt # 0 => listens
  /\ pos = 0 /\ held = <<>> /\ buf = <<>> /\ calls = <<>>
  /\ phase = "reading"

-----------------------------------------------------------------------------
(* One line *)

(* A count that is no number is left out. *)
Counted(x) == IF x = "number" THEN x ELSE Missing

(* Mutant: an event is trusted for its type. *)
asEngineEventTrusting(o) ==
  IF o.type = "progress" THEN Progress(o.stage, Counted(o.index), Counted(o.total))
  ELSE IF o.type = "log" THEN Log(o.level, o.msg) ELSE Missing

(* A value that is an event, reduced to the fields of its type. *)
asEngineEvent(o) ==
  IF o.type = "progress" /\ o.stage \in EngineStages
    THEN Progress(o.stage, Counted(o.index), Counted(o.total))
  ELSE IF o.type = "log" /\ o.level \in Levels /\ o.msg # Missing
    THEN Log(o.level, o.msg)
  ELSE Missing

(* trim() *)
Trimmed(line) ==
  LET solid == {i \in DOMAIN line : line[i] # Blank}
  IN IF solid = {} THEN <<>>
     ELSE SubSeq(line, CHOOSE i \in solid : \A j \in solid : i <= j,
                       CHOOSE i \in solid : \A j \in solid : i >= j)

(* The calls of onEvent that a line leads to: at most one, and none without it. *)
handleStderrLine(line, onEvent) ==
  LET trimmed == Trimmed(line)
      event == asEngineEvent(Json[trimmed])
  IN IF trimmed = <<>> \/ ~onEvent THEN <<>>
     ELSE IF trimmed \notin DOMAIN Json
       THEN <<Log("warn", <<"unparseable stderr line", trimmed>>)>>
     ELSE IF event # Missing THEN <<event>>
     ELSE <<Log("warn", <<"unknown stderr event", trimmed>>)>>

-----------------------------------------------------------------------------
(* The reader *)

(* One byte more for the decoder. *)
Decoded(d, byte) ==
  LET before == IF d.held = <<>> THEN d.text ELSE Append(d.text, Bad)
  IN CASE byte = "cont" /\ d.held # <<>> -> [text |-> Append(d.text, Char), held |-> <<>>]
       [] byte = "cont" /\ d.held = <<>> -> [text |-> Append(before, Bad), held |-> <<>>]
       [] byte = "lead" -> [text |-> before, held |-> <<byte>>]
       [] OTHER -> [text |-> Append(before, byte), held |-> <<>>]

Flushed(d) == [text |-> IF d.held = <<>> THEN d.text ELSE Append(d.text, Bad), held |-> <<>>]

(* A decoder that is given bytes, one after the other. *)
DecodedAll(d, bytes) ==
  LET after[k \in 0..Len(bytes)] == IF k = 0 THEN d ELSE Decoded(after[k-1], bytes[k])
  IN after[Len(bytes)]

(* Mutant: without stream: true, a chunk's last character is not held back. *)
DecodeEachChunk(bytes) == Flushed(DecodedAll([text |-> <<>>, held |-> <<>>], bytes))

(* decoder.decode(value, { stream: true }) *)
Decode(bytes) == DecodedAll([text |-> <<>>, held |-> held], bytes)

Newlines(s) == {i \in DOMAIN s : s[i] = NL}

(* One character of the buffer: it ends a line, which is handled, or not. *)
Scanned(f, c, onEvent) ==
  IF c = NL THEN [calls |-> f.calls \o handleStderrLine(f.rest, onEvent), rest |-> <<>>]
  ELSE [calls |-> f.calls, rest |-> Append(f.rest, c)]

(* The inner loop: every complete line is handled, the rest is kept. *)
Framed(s, onEvent) ==
  LET after[k \in 0..Len(s)] ==
        IF k = 0 THEN [calls |-> <<>>, rest |-> <<>>] ELSE Scanned(after[k-1], s[k], onEvent)
  IN after[Len(s)]

(* Mutant: the other lines of the chunk are handled in spite of the throw. *)
MadeAnyway(all) == all

(* The calls that are made when the throwsAt-th never returns. *)
Made(all) == IF throwsAt = 0 \/ Len(all) <= throwsAt THEN all ELSE SubSeq(all, 1, throwsAt)

Threw(made) == throwsAt # 0 /\ Len(made) >= throwsAt

(* A chunk of any size arrives. *)
ReadChunk(n) ==
  /\ phase = "reading" /\ n \in 1..(Len(text) - pos)
  /\ LET d == Decode(SubSeq(text, pos + 1, pos + n))
         f == Framed(buf \o d.text, listens)
     IN /\ pos' = pos + n /\ held' = d.held
        /\ buf' = f.rest /\ calls' = Made(calls \o f.calls)
        /\ phase' = IF Threw(calls') THEN "failed" ELSE phase
  /\ UNCHANGED input

(* Mutant: what follows the last newline is dropped. *)
LeftoverDropped == <<>>

(* A non-empty trailing fragment, and what the decoder still held. *)
Leftover == handleStderrLine(Flushed([text |-> buf, held |-> held]).text, listens)

(* The end of the stream. *)
EndOfStream ==
  /\ phase = "reading" /\ pos = Len(text)
  /\ calls' = Made(calls \o Leftover)
  /\ phase' = IF Threw(calls') THEN "failed" ELSE "done"
  /\ UNCHANGED <<input, pos, held, buf>>

StderrNext == (\E n \in 1..(Len(text) - pos) : ReadChunk(n)) \/ EndOfStream

-----------------------------------------------------------------------------
(* Reference: the text as a whole, without chunks *)

(* The characters a byte sequence spells, byte by byte. *)
WholeAt(bytes, i) == i < Len(bytes) /\ bytes[i] = "lead" /\ bytes[i + 1] = "cont"
SpeltAt(bytes, i) ==
  IF WholeAt(bytes, i) THEN <<Char>>
  ELSE IF i > 1 /\ WholeAt(bytes, i - 1) THEN <<>>
  ELSE IF bytes[i] \in {"lead", "cont"} THEN <<Bad>> ELSE <<bytes[i]>>
Spelt(bytes) == FlattenSeq([i \in DOMAIN bytes |-> SpeltAt(bytes, i)])

(* The lines that end with a newline, and what follows the last one. *)
LineStarts(bytes) == {1} \cup {i + 1 : i \in Newlines(bytes)}
LineFrom(bytes, i) ==
  LET ends == {j \in Newlines(bytes) : j >= i}
  IN SubSeq(bytes, i, IF ends = {} THEN Len(bytes)
                      ELSE (CHOOSE j \in ends : \A k \in ends : j <= k) - 1)
Complete(bytes) == {i \in LineStarts(bytes) : \E j \in Newlines(bytes) : j >= i}

(* What the lines that start at some places lead to. *)
HeardAt(bytes, starts, i, onEvent) ==
  IF i \in starts THEN handleStderrLine(Spelt(LineFrom(bytes, i)), onEvent) ELSE <<>>
Heard(bytes, starts, onEvent) ==
  FlattenSeq([i \in 1..Len(bytes) + 1 |-> HeardAt(bytes, starts, i, onEvent)])

(* "surfacing each line as it arrives": at every moment the caller has been *)
(* told of each complete line received, once, in order and undamaged,       *)
(* however the pipe cut the bytes -- or up to the call that threw.          *)
LiveLines ==
  phase = "reading" =>
    LET received == SubSeq(text, 1, pos)
    IN calls = Made(Heard(received, Complete(received), listens))

(* "a non-empty trailing fragment is still an event": in the end the caller *)
(* has been told of everything the child wrote, its last words included.    *)
EverythingHeard == phase = "done" => calls = Heard(text, LineStarts(text), listens)

(* A call that throws is the last one, and nothing before it was skipped.   *)
NothingAfterThrow ==
  phase = "failed" => /\ Len(calls) = throwsAt
                      /\ IsPrefix(calls, Heard(text, LineStarts(text), listens))

(* EngineEvent, type by type. *)
IsEvent(e) ==
  \/ \E stage \in EngineStages, index, total \in {"number", Missing} :
       e = Progress(stage, index, total)
  \/ e.type = "log" /\ e.level \in Levels /\ e.msg # Missing

(* Whatever the pipe, the child and the listener do, each line is surfaced *)
(* once, in order, as an event of a known type.                            *)
EachLineOnce ==
  LiveLines /\ EverythingHeard /\ NothingAfterThrow /\ \A e \in ToSet(calls) : IsEvent(e)
=============================================================================
