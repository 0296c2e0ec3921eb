---------------------------- MODULE ResultCache ----------------------------
(***************************************************************************)
(* The result cache of core/cache.ts: analyzeWithCache, cacheGet and       *)
(* cachePut, as run by several processes (CLI invocations, a TUI) over one *)
(* cache directory, while audio files are replaced and engines upgraded.   *)
(*                                                                         *)
(* sha256 is taken to be injective: a key is the audio content itself.     *)
(* Other processes may act between the hash and the read of cacheGet and   *)
(* between the hash, the truncation and the write of cachePut.             *)
(***************************************************************************)
EXTENDS Naturals

CONSTANTS
  Procs,          \* concurrent users of the cache directory
  Files,          \* paths
  Contents,       \* what an audio file can hold
  Engines,        \* the engine names, "btc" among them
  MaxVersion,     \* bound, per engine: its last version
  EditDuringRun,  \* may an audio file be replaced while it is analysed?
  None,
  Torn            \* a file that does not parse

ASSUME ResultCacheAssumption ==
  /\ MaxVersion \in [Engines -> Nat \ {0}]
  /\ "btc" \in Engines
  /\ EditDuringRun \in BOOLEAN
  /\ Torn # None /\ None \notin Contents /\ None \notin Files /\ None \notin Engines

VARIABLES
  audio,      \* per file: what it holds, None when unreadable
  installed,  \* per engine: its version and modelVersions, as one number
  cache,      \* per content and engine: an entry, None, or Torn
  pc,         \* per process: where in analyzeWithCache it is
  job         \* per process: the request and what became of it

vars == <<audio, installed, cache, pc, job>>

Versions == UNION {1..MaxVersion[e] : e \in Engines}
Analyses == [audio : Contents, engine : Engines, version : Versions, mock : BOOLEAN]

ASSUME NoneAssumption == None \notin Analyses

Jobs == [file : Files \cup {None}, engine : Engines \cup {None}, expected : {0} \cup Versions,
         noCache : BOOLEAN, isMock : BOOLEAN, asked : Contents \cup {None},
         key : Contents \cup {None}, result : Analyses \cup {None}, engineRan : BOOLEAN]

Working == {"look", "read", "spawn", "put", "truncate", "write"}

TypeOK ==
  /\ audio \in [Files -> Contents \cup {None}]
  /\ installed \in [Engines -> Versions]
  /\ \A c \in Contents, e \in Engines : cache[c][e] \in Analyses \cup {None, Torn}
  /\ pc \in [Procs -> Working \cup {"idle", "answered"}]
  /\ job \in [Procs -> Jobs]

noJob == [file |-> None, engine |-> None, expected |-> 0, noCache |-> FALSE, isMock |-> FALSE,
          asked |-> None, key |-> None, result |-> None, engineRan |-> FALSE]

Init ==
  /\ audio \in [Files -> Contents]
  /\ installed = [e \in Engines |-> 1]
  /\ cache = [c \in Contents |-> [e \in Engines |-> None]]
  /\ pc = [p \in Procs |-> "idle"]
  /\ job = [p \in Procs |-> noJob]

-----------------------------------------------------------------------------
Goto(p, l) == pc' = [pc EXCEPT ![p] = l]

Note(p, key) == job' = [job EXCEPT ![p].key = key]

(* The call returns; the path it computed is gone. *)
Return(p, result) == job' = [job EXCEPT ![p].key = None, ![p].result = result]

(* Mutant: the mock is cached like any engine. *)
UseCacheMockToo(p) == ~job[p].noCache

UseCache(p) == ~job[p].noCache /\ ~job[p].isMock

(* The engine info a caller may hold: of btc only, and as old as its probe *)
(* (the TUI's is from its mount, the CLI's pickDefaultEngine probes anew). *)
ProbedVersions(e) == IF e = "btc" THEN 1..installed[e] ELSE {}

(* analyzeWithCache is called. *)
Request(p, f, e) ==
  /\ pc[p] \in {"idle", "answered"}
  /\ \E noCache, isMock \in BOOLEAN, expected \in {0} \cup ProbedVersions(e) :
       job' = [job EXCEPT ![p] =
                 [noJob EXCEPT !.file = f, !.engine = e, !.noCache = noCache,
                               !.isMock = isMock, !.expected = expected, !.asked = audio[f]]]
  /\ Goto(p, IF UseCache(p)' THEN "look" ELSE "spawn")
  /\ UNCHANGED <<audio, installed, cache>>

(* fileHash: the content now; None when reading throws. *)
Hash(p) == audio[job[p].file]

(* cacheGet, the key; an unreadable file is a miss. *)
LookHash(p) ==
  /\ pc[p] = "look"
  /\ Note(p, Hash(p))
  /\ Goto(p, IF Hash(p) = None THEN "spawn" ELSE "read")
  /\ UNCHANGED <<audio, installed, cache>>

(* Mutant: any entry that parses will do. *)
UsableAnyVersion(entry, expected) == entry \notin {None, Torn}

(* Mutant: an entry is handed on unvalidated. *)
UsableUnvalidated(entry, expected) ==
  entry # None /\ (entry # Torn /\ expected # 0 => entry.version = expected)

(* An entry validates, and matches the expected engine if there is one. *)
Usable(entry, expected) ==
  entry \notin {None, Torn} /\ (expected # 0 => entry.version = expected)

(* entryPath: the engine is part of the file name, beside the hash. *)
Slot(p) == job[p].engine

Entry(p) == cache[job[p].key][Slot(p)]

(* cacheGet, the read: a hit answers at once, anything else is a miss, be  *)
(* it that there is no entry or that it went between existsSync and here.  *)
LookRead(p) ==
  /\ pc[p] = "read"
  /\ IF Usable(Entry(p), job[p].expected)
       THEN Return(p, Entry(p)) /\ Goto(p, "answered")
       ELSE Note(p, None) /\ Goto(p, "spawn")
  /\ UNCHANGED <<audio, installed, cache>>

Decodable(p) == audio[job[p].file] # None

(* Mutant: --no-cache still writes. *)
AfterAnalysisPut(p) == "put"

AfterAnalysis(p) == IF UseCache(p) THEN "put" ELSE "answered"

(* The sidecar decodes the file and analyses what it read. *)
EngineSucceeds(p) ==
  /\ pc[p] = "spawn" /\ Decodable(p)
  /\ job' = [job EXCEPT ![p].engineRan = TRUE, ![p].result =
               [audio |-> audio[job[p].file], engine |-> job[p].engine,
                version |-> installed[job[p].engine], mock |-> job[p].isMock]]
  /\ Goto(p, AfterAnalysis(p))
  /\ UNCHANGED <<audio, installed, cache>>

(* An error envelope, a process-level failure or an abort: the call fails, *)
(* and nothing is cached.                                                  *)
EngineFails(p) ==
  /\ pc[p] = "spawn"
  /\ Goto(p, "answered")
  /\ job' = [job EXCEPT ![p] = noJob]
  /\ UNCHANGED <<audio, installed, cache>>

(* cachePut hashes the file again, as it is now. *)
PutHash(p) ==
  /\ pc[p] = "put"
  /\ Note(p, Hash(p))
  /\ Goto(p, IF Hash(p) = None THEN "answered" ELSE "truncate")
  /\ UNCHANGED <<audio, installed, cache>>

SetEntry(p, entry) == cache' = [cache EXCEPT ![job[p].key][Slot(p)] = entry]

(* writeFileSync, not atomic: first the file is emptied ... *)
PutTruncate(p) ==
  /\ pc[p] = "truncate"
  /\ SetEntry(p, Torn)
  /\ Goto(p, "write")
  /\ UNCHANGED <<audio, installed, job>>

(* ... then written: whole, or in part, when the disk fills up or another  *)
(* process writes the same entry before or after.                          *)
PutWrite(p) ==
  /\ pc[p] = "write"
  /\ \E entry \in {job[p].result, Torn} : SetEntry(p, entry)
  /\ Return(p, job[p].result)
  /\ Goto(p, "answered")
  /\ UNCHANGED <<audio, installed>>

(* Mutant: a failing write fails the run. *)
PutFailsThrows(p) == job' = [job EXCEPT ![p] = noJob]

PutFailsCaught(p) == Return(p, job[p].result)

(* Disk full, no permission: cachePut catches. *)
PutFails(p) ==
  /\ pc[p] \in {"put", "truncate", "write"}
  /\ PutFailsCaught(p)
  /\ Goto(p, "answered")
  /\ UNCHANGED <<audio, installed, cache>>

-----------------------------------------------------------------------------
(* What happens around the processes *)

(* A process is killed: its request is gone, a torn entry stays. *)
Crash(p) ==
  /\ pc[p] \in Working
  /\ Goto(p, "idle")
  /\ job' = [job EXCEPT ![p] = noJob]
  /\ UNCHANGED <<audio, installed, cache>>

ReplaceAudio(f) ==
  /\ EditDuringRun \/ \A p \in Procs : job[p].file = f => pc[p] \notin Working
  /\ \E c \in Contents \cup {None} : audio' = [audio EXCEPT ![f] = c]
  /\ UNCHANGED <<installed, cache, pc, job>>

UpgradeEngine(e) ==
  /\ installed[e] < MaxVersion[e]
  /\ installed' = [installed EXCEPT ![e] = @ + 1]
  /\ UNCHANGED <<audio, cache, pc, job>>

Next ==
  \/ \E p \in Procs :
       \/ \E e \in Engines, f \in Files : Request(p, f, e)
       \/ LookHash(p) \/ LookRead(p) \/ EngineSucceeds(p) \/ EngineFails(p)
       \/ PutHash(p) \/ PutTruncate(p) \/ PutWrite(p) \/ PutFails(p) \/ Crash(p)
  \/ \E f \in Files : ReplaceAudio(f)
  \/ \E e \in Engines : UpgradeEngine(e)

Spec == Init /\ [][Next]_vars

-----------------------------------------------------------------------------
(* Safety *)

(* "replacing the audio invalidates it automatically": an entry holds the  *)
(* analysis, by a real engine, of the content and engine it is filed under. *)
CacheHonest ==
  \A c \in Contents, e \in Engines :
    cache[c][e] \notin {None, Torn} =>
      cache[c][e].audio = c /\ cache[c][e].engine = e /\ ~cache[c][e].mock

(* Whichever way a request was answered, by whichever process's entry, the *)
(* result is of the audio asked about and by the engine asked for; it is   *)
(* fake only if the resolved sidecar is; and it is no older than the       *)
(* engine info the caller passed.                                          *)
AnswersTheQuestion ==
  \A p \in Procs : pc[p] = "answered" /\ job[p].result # None =>
    /\ job[p].result.audio = job[p].asked
    /\ job[p].result.engine = job[p].engine
    /\ job[p].result.mock = job[p].isMock
    /\ job[p].result.version >= job[p].expected

(* "Skip the cache entirely": only requests that use the cache change it.  *)
BypassLeavesCache ==
  [][cache' # cache => \E p \in Procs : pc[p] # pc'[p] /\ UseCache(p)]_vars

-----------------------------------------------------------------------------
(* The cache nobody sees *)

Question(p) == [audio |-> job[p].asked, engine |-> job[p].engine,
                expected |-> job[p].expected, mock |-> job[p].isMock]

Stage(p) ==
  CASE pc[p] \in {"look", "read", "spawn"} -> "asked"
    [] pc[p] \in {"put", "truncate", "write"} -> "owed"
    [] OTHER -> pc[p]

Unseen == INSTANCE Uncached WITH
  Questions <- [audio : Contents \cup {None}, engine : Engines,
                expected : {0} \cup Versions, mock : BOOLEAN],
  noQuestion <- [audio |-> None, engine |-> None, expected |-> 0, mock |-> FALSE],
  stage <- [p \in Procs |-> Stage(p)],
  question <- [p \in Procs |-> Question(p)],
  answer <- [p \in Procs |-> job[p].result]

(* "every read/write is best-effort and never fails a run": through torn,  *)
(* stale and unwritable entries, other processes and failing writes, each  *)
(* request is answered as it would be without a cache.                     *)
LooksUncached == Unseen!Spec
=============================================================================
