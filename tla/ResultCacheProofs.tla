------------------------- MODULE ResultCacheProofs -------------------------
(***************************************************************************)
(* For any number of processes, files, contents, engines and versions: the *)
(* safety invariants of ResultCache.                                       *)
(***************************************************************************)
EXTENDS ResultCache, TLAPS

USE ResultCacheAssumption, NoneAssumption DEF Working

-----------------------------------------------------------------------------
(* The invariant *)

Held == Analyses \cup {None, Torn}

Shapes ==
  /\ audio \in [Files -> Contents \cup {None}]
  /\ installed \in [Engines -> Nat] /\ \A e \in Engines : installed[e] \in 1..MaxVersion[e]
  /\ cache \in [Contents -> [Engines -> Held]]
  /\ pc \in [Procs -> Working \cup {"idle", "answered"}]
  /\ job \in [Procs -> Jobs]

(* What a process at l with job j knows of its request, its key and its    *)
(* result; only one that uses the cache comes near an entry.               *)
Knows(l, j) ==
  /\ l \in Working => j.file \in Files /\ j.engine \in Engines
  /\ l \in {"look", "read", "put", "truncate", "write"} => ~j.noCache /\ ~j.isMock
  /\ l \in {"read", "truncate", "write"} => j.key \in Contents
  /\ l \in {"look", "read", "spawn"} => ~j.engineRan
  /\ l \in Working => j.expected <= installed[j.engine]
  /\ l \in {"put", "truncate", "write"} => j.result # None
  /\ l = "answered" /\ j.engineRan => j.result # None
  /\ l \in {"put", "truncate", "write", "answered"} /\ j.result # None =>
       j.result.engine = j.engine /\ j.result.mock = j.isMock /\ j.result.version >= j.expected

(* An entry is of the engine it is filed under, and never of the mock. *)
RealEntries ==
  \A c \in Contents, e \in Engines :
    cache[c][e] \notin {None, Torn} => cache[c][e].engine = e /\ ~cache[c][e].mock

CacheInv == Shapes /\ RealEntries /\ \A p \in Procs : Knows(pc[p], job[p])

-----------------------------------------------------------------------------
(* Types *)

LEMMA VersionsAreNumbers ==
  /\ \A v \in Versions : v \in Nat /\ v # 0
  /\ \A e \in Engines : 1..MaxVersion[e] \subseteq Versions
  BY DEF Versions

LEMMA NoJobIsJob == noJob \in Jobs
  BY DEF noJob, Jobs

LEMMA InvInit == Init => CacheInv
<1> SUFFICES ASSUME Init PROVE CacheInv
  OBVIOUS
<1>1. Shapes
  <2>1. installed \in [Engines -> Nat] /\ \A e \in Engines : installed[e] \in 1..MaxVersion[e]
    BY DEF Init
  <2>2. cache \in [Contents -> [Engines -> Held]]
    BY DEF Init, Held
  <2> QED
    BY <2>1, <2>2, NoJobIsJob DEF Init, Shapes
<1>2. \A p \in Procs : Knows(pc[p], job[p])
  BY DEF Init, Knows, noJob
<1>3. RealEntries
  BY DEF Init, RealEntries
<1> QED
  BY <1>1, <1>2, <1>3 DEF CacheInv

(* A step of one process keeps the invariant if its own new job and what   *)
(* it leaves on disk are in order.                                         *)
LEMMA OneWriter ==
  ASSUME CacheInv, NEW p \in Procs, UNCHANGED <<audio, installed>>,
         cache' \in [Contents -> [Engines -> Held]], RealEntries',
         NEW l \in Working \cup {"idle", "answered"}, NEW j \in Jobs,
         pc' = [pc EXCEPT ![p] = l], job' = [job EXCEPT ![p] = j],
         Knows(l, j)
  PROVE  CacheInv'
<1>1. Shapes'
  BY DEF CacheInv, Shapes
<1>2. ASSUME NEW q \in Procs PROVE Knows(pc[q], job[q])'
  <2>1. CASE q = p
    BY <2>1 DEF CacheInv, Shapes, Knows
  <2>2. CASE q # p
    <3>1. pc'[q] = pc[q] /\ job'[q] = job[q] /\ Knows(pc[q], job[q])
      BY <2>2 DEF CacheInv, Shapes
    <3> QED
      BY <3>1 DEF Knows
  <2> QED
    BY <2>1, <2>2
<1> QED
  BY <1>1, <1>2 DEF CacheInv

(* So does one that leaves the cache alone too. *)
LEMMA OneProcess ==
  ASSUME CacheInv, NEW p \in Procs, UNCHANGED <<audio, installed, cache>>,
         NEW l \in Working \cup {"idle", "answered"}, NEW j \in Jobs,
         pc' = [pc EXCEPT ![p] = l], job' = [job EXCEPT ![p] = j],
         Knows(l, j)
  PROVE  CacheInv'
<1>1. cache' \in [Contents -> [Engines -> Held]] /\ RealEntries'
  BY DEF CacheInv, Shapes, RealEntries
<1> QED
  BY <1>1, OneWriter

-----------------------------------------------------------------------------
(* One step of analyzeWithCache *)

LEMMA RequestKeeps ==
  ASSUME CacheInv, NEW p \in Procs, NEW f \in Files, NEW e \in Engines, Request(p, f, e)
  PROVE  CacheInv'
<1>1. PICK noCache \in BOOLEAN, isMock \in BOOLEAN, expected \in {0} \cup ProbedVersions(e) :
        job' = [job EXCEPT ![p] =
                  [noJob EXCEPT !.file = f, !.engine = e, !.noCache = noCache,
                                !.isMock = isMock, !.expected = expected, !.asked = audio[f]]]
  BY DEF Request
<1> DEFINE j == [noJob EXCEPT !.file = f, !.engine = e, !.noCache = noCache,
                              !.isMock = isMock, !.expected = expected, !.asked = audio[f]]
           l == IF ~noCache /\ ~isMock THEN "look" ELSE "spawn"
<1>2. expected \in {0} \cup Versions /\ expected <= installed[e]
  BY VersionsAreNumbers DEF ProbedVersions, CacheInv, Shapes
<1>3. /\ j.file = f /\ j.engine = e /\ j.expected = expected
      /\ j.noCache = noCache /\ j.isMock = isMock /\ j.asked = audio[f]
      /\ j.key = None /\ j.result = None /\ j.engineRan = FALSE
  BY DEF noJob
<1>4. j \in Jobs
  BY <1>2, NoJobIsJob DEF Jobs, CacheInv, Shapes
<1>5. job'[p] = j
  BY <1>1 DEF CacheInv, Shapes
<1>6. pc' = [pc EXCEPT ![p] = l]
  BY <1>3, <1>5 DEF Request, Goto, UseCache
<1>7. Knows(l, j)
  BY <1>2, <1>3 DEF Knows
<1> HIDE DEF j, l
<1> QED
  BY <1>1, <1>4, <1>6, <1>7, OneProcess DEF Request, j, l

LEMMA LookKeeps ==
  ASSUME CacheInv, NEW p \in Procs, LookHash(p) \/ LookRead(p)
  PROVE  CacheInv'
<1>1. /\ job[p] \in Jobs /\ job[p].file \in Files /\ job[p].engine \in Engines
      /\ Knows(pc[p], job[p]) /\ pc[p] \in {"look", "read"}
  BY DEF CacheInv, Shapes, Knows, LookHash, LookRead
<1>2. CASE LookHash(p)
  <2> DEFINE j == [job[p] EXCEPT !.key = Hash(p)]
             l == IF Hash(p) = None THEN "spawn" ELSE "read"
  <2>1. Hash(p) \in Contents \cup {None}
    BY <1>1 DEF Hash, CacheInv, Shapes
  <2>2. j \in Jobs
    BY <1>1, <2>1 DEF Jobs
  <2>3. pc' = [pc EXCEPT ![p] = l] /\ job' = [job EXCEPT ![p] = j]
    BY <1>2 DEF LookHash, Goto, Note
  <2>4. Knows(l, j)
    BY <1>1, <1>2, <2>1 DEF Knows, Jobs, LookHash
  <2> HIDE DEF j
  <2> QED
    BY <1>2, <2>2, <2>3, <2>4, OneProcess DEF LookHash
<1>3. CASE LookRead(p)
  <2> DEFINE hit == [job[p] EXCEPT !.key = None, !.result = Entry(p)]
             miss == [job[p] EXCEPT !.key = None]
  <2>1. /\ job[p].key \in Contents /\ pc[p] = "read" /\ Entry(p) \in Held
        /\ Entry(p) \notin {None, Torn} =>
             Entry(p).engine = job[p].engine /\ ~Entry(p).mock
    BY <1>1, <1>3 DEF LookRead, Knows, Entry, Slot, CacheInv, Shapes, RealEntries
  <2>2. CASE Usable(Entry(p), job[p].expected)
    <3>1. pc' = [pc EXCEPT ![p] = "answered"] /\ job' = [job EXCEPT ![p] = hit]
      BY <1>3, <2>2 DEF LookRead, Goto, Return
    <3>2. Entry(p) \in Analyses /\ Entry(p).version \in Nat
          /\ Entry(p).version >= job[p].expected
      <4>1. Entry(p) \in Analyses /\ (job[p].expected # 0 => Entry(p).version = job[p].expected)
        BY <2>1, <2>2 DEF Usable, Held
      <4>2. Entry(p).version \in Versions /\ job[p].expected \in {0} \cup Versions
        BY <1>1, <4>1 DEF Analyses, Jobs
      <4>3. Entry(p).version \in Nat /\ job[p].expected \in Nat
        BY <4>2, VersionsAreNumbers
      <4> QED
        BY <4>1, <4>3
    <3>3. hit \in Jobs
      BY <1>1, <3>2 DEF Jobs
    <3>4. Knows("answered", hit)
      <4>1. /\ hit.file = job[p].file /\ hit.engine = job[p].engine /\ hit.isMock = job[p].isMock
            /\ hit.expected = job[p].expected /\ hit.result = Entry(p)
            /\ hit.engineRan = job[p].engineRan
        BY <1>1 DEF Jobs
      <4>2. job[p].isMock = FALSE /\ Entry(p).mock = FALSE
        BY <1>1, <2>1, <2>2, <3>2 DEF Knows, Usable, Analyses, Jobs
      <4> HIDE DEF hit
      <4> QED
        BY <1>1, <2>1, <2>2, <3>2, <4>1, <4>2 DEF Knows, Usable
    <3> HIDE DEF hit
    <3> QED
      BY <1>3, <3>1, <3>3, <3>4, OneProcess DEF LookRead
  <2>3. CASE ~Usable(Entry(p), job[p].expected)
    <3>1. pc' = [pc EXCEPT ![p] = "spawn"] /\ job' = [job EXCEPT ![p] = miss]
      BY <1>3, <2>3 DEF LookRead, Goto, Note
    <3>2. miss \in Jobs
      BY <1>1 DEF Jobs
    <3>3. Knows("spawn", miss)
      BY <1>1, <2>1 DEF Knows, Jobs
    <3> HIDE DEF miss
    <3> QED
      BY <1>3, <3>1, <3>2, <3>3, OneProcess DEF LookRead
  <2> QED
    BY <2>2, <2>3
<1> QED
  BY <1>2, <1>3

LEMMA EngineKeeps ==
  ASSUME CacheInv, NEW p \in Procs, EngineSucceeds(p)
  PROVE  CacheInv'
<1> DEFINE a == [audio |-> audio[job[p].file], engine |-> job[p].engine,
                 version |-> installed[job[p].engine], mock |-> job[p].isMock]
           j == [job[p] EXCEPT !.engineRan = TRUE, !.result = a]
           l == AfterAnalysis(p)
<1>1. /\ job[p] \in Jobs /\ job[p].file \in Files /\ job[p].engine \in Engines
      /\ Knows(pc[p], job[p]) /\ pc[p] = "spawn"
      /\ job[p].expected <= installed[job[p].engine]
  BY DEF CacheInv, Shapes, Knows, EngineSucceeds
<1>2. a \in Analyses
  <2>1. audio[job[p].file] \in Contents
    BY <1>1 DEF EngineSucceeds, Decodable, CacheInv, Shapes
  <2>2. installed[job[p].engine] \in Versions
    BY <1>1, VersionsAreNumbers DEF CacheInv, Shapes
  <2> QED
    BY <1>1, <2>1, <2>2 DEF Analyses, Jobs
<1>3. pc' = [pc EXCEPT ![p] = l] /\ job' = [job EXCEPT ![p] = j]
  BY DEF EngineSucceeds, Goto
<1>4. /\ l = IF ~job[p].noCache /\ ~job[p].isMock THEN "put" ELSE "answered"
      /\ a # None /\ a.engine = job[p].engine /\ a.version = installed[job[p].engine]
      /\ a.mock = job[p].isMock
  BY <1>2 DEF AfterAnalysis, UseCache
<1> HIDE DEF a, l
<1>5. j \in Jobs
  BY <1>1, <1>2 DEF Jobs
<1>6. Knows(l, j)
  <2>1. /\ j.file = job[p].file /\ j.engine = job[p].engine /\ j.isMock = job[p].isMock
        /\ j.noCache = job[p].noCache /\ j.expected = job[p].expected
        /\ j.result = a /\ j.engineRan = TRUE
    BY <1>1 DEF Jobs
  <2> HIDE DEF j
  <2> QED
    BY <1>1, <1>4, <2>1 DEF Knows
<1> HIDE DEF j
<1> QED
  BY <1>3, <1>4, <1>5, <1>6, OneProcess DEF EngineSucceeds

(* A failed run and a killed process are forgotten. *)
LEMMA ForgetKeeps ==
  ASSUME CacheInv, NEW p \in Procs, EngineFails(p) \/ Crash(p)
  PROVE  CacheInv'
<1>1. PICK l \in {"idle", "answered"} :
        /\ pc' = [pc EXCEPT ![p] = l] /\ job' = [job EXCEPT ![p] = noJob]
        /\ UNCHANGED <<audio, installed, cache>>
  BY DEF EngineFails, Crash, Goto
<1>2. Knows(l, noJob)
  BY DEF Knows, noJob
<1> QED
  BY <1>1, <1>2, NoJobIsJob, OneProcess

(* cachePut up to the write. *)
LEMMA PutBeginsKeeps ==
  ASSUME CacheInv, NEW p \in Procs, PutHash(p) \/ PutFails(p)
  PROVE  CacheInv'
<1>1. /\ job[p] \in Jobs /\ job[p].file \in Files /\ job[p].engine \in Engines
      /\ Knows(pc[p], job[p]) /\ pc[p] \in {"put", "truncate", "write"}
  BY DEF CacheInv, Shapes, Knows, PutHash, PutFails
<1>2. CASE PutHash(p)
  <2> DEFINE j == [job[p] EXCEPT !.key = Hash(p)]
             l == IF Hash(p) = None THEN "answered" ELSE "truncate"
  <2>1. Hash(p) \in Contents \cup {None}
    BY <1>1 DEF Hash, CacheInv, Shapes
  <2>2. j \in Jobs
    BY <1>1, <2>1 DEF Jobs
  <2>3. pc' = [pc EXCEPT ![p] = l] /\ job' = [job EXCEPT ![p] = j]
    BY <1>2 DEF PutHash, Goto, Note
  <2>4. Knows(l, j)
    BY <1>1, <1>2, <2>1 DEF Knows, Jobs, PutHash
  <2> HIDE DEF j
  <2> QED
    BY <1>2, <2>2, <2>3, <2>4, OneProcess DEF PutHash
<1>3. CASE PutFails(p)
  <2> DEFINE j == [job[p] EXCEPT !.key = None, !.result = job[p].result]
  <2>1. j \in Jobs
    BY <1>1 DEF Jobs
  <2>2. pc' = [pc EXCEPT ![p] = "answered"] /\ job' = [job EXCEPT ![p] = j]
    BY <1>3 DEF PutFails, PutFailsCaught, Return, Goto
  <2>3. Knows("answered", j)
    BY <1>1, <1>3 DEF Knows, Jobs
  <2> HIDE DEF j
  <2> QED
    BY <1>3, <2>1, <2>2, <2>3, OneProcess DEF PutFails
<1> QED
  BY <1>2, <1>3

(* A process that writes files what it computed, under its own engine. *)
LEMMA PutWritesKeeps ==
  ASSUME CacheInv, NEW p \in Procs, PutTruncate(p) \/ PutWrite(p)
  PROVE  CacheInv'
<1>1. /\ job[p] \in Jobs /\ job[p].file \in Files /\ job[p].engine \in Engines
      /\ job[p].key \in Contents /\ Slot(p) = job[p].engine
      /\ Knows(pc[p], job[p]) /\ pc[p] \in {"truncate", "write"}
  BY DEF CacheInv, Shapes, Knows, PutTruncate, PutWrite, Slot
<1>2. /\ job[p].result \in Analyses /\ job[p].result.engine = job[p].engine
      /\ job[p].result.mock = FALSE
  BY <1>1 DEF Knows, Jobs
<1>3. ASSUME NEW entry \in {Torn, job[p].result}, SetEntry(p, entry)
      PROVE  cache' \in [Contents -> [Engines -> Held]] /\ RealEntries'
  <2>1. entry \in Held
    BY <1>2 DEF Held
  <2>2. /\ cache' \in [Contents -> [Engines -> Held]]
        /\ \A c \in Contents, e \in Engines :
             cache'[c][e] = IF c = job[p].key /\ e = job[p].engine THEN entry ELSE cache[c][e]
    BY <1>1, <1>3, <2>1 DEF SetEntry, CacheInv, Shapes
  <2> QED
    BY <1>2, <2>2 DEF RealEntries, CacheInv
<1>4. CASE PutTruncate(p)
  <2>1. job' = [job EXCEPT ![p] = job[p]] /\ pc' = [pc EXCEPT ![p] = "write"]
    BY <1>4 DEF PutTruncate, Goto, CacheInv, Shapes
  <2>2. Knows("write", job[p])
    BY <1>1, <1>4 DEF Knows, PutTruncate
  <2> QED
    BY <1>1, <1>3, <1>4, <2>1, <2>2, OneWriter DEF PutTruncate
<1>5. CASE PutWrite(p)
  <2> DEFINE j == [job[p] EXCEPT !.key = None, !.result = job[p].result]
  <2>1. j \in Jobs
    BY <1>1 DEF Jobs
  <2>2. pc' = [pc EXCEPT ![p] = "answered"] /\ job' = [job EXCEPT ![p] = j]
    BY <1>5 DEF PutWrite, Return, Goto
  <2>3. Knows("answered", j)
    BY <1>1, <1>5 DEF Knows, Jobs, PutWrite
  <2>4. cache' \in [Contents -> [Engines -> Held]] /\ RealEntries'
    BY <1>3, <1>5 DEF PutWrite
  <2> HIDE DEF j
  <2> QED
    BY <1>5, <2>1, <2>2, <2>3, <2>4, OneWriter DEF PutWrite
<1> QED
  BY <1>4, <1>5

(* An upgrade only raises what a caller may have probed. *)
LEMMA AroundKeeps ==
  ASSUME CacheInv, \/ \E f \in Files : ReplaceAudio(f)
                   \/ \E e \in Engines : UpgradeEngine(e)
  PROVE  CacheInv'
<1>1. CASE \E f \in Files : ReplaceAudio(f)
  <2>1. UNCHANGED <<installed, cache, pc, job>> /\ audio' \in [Files -> Contents \cup {None}]
    BY <1>1 DEF ReplaceAudio, CacheInv, Shapes
  <2>2. \A p \in Procs : Knows(pc[p], job[p])'
    BY <2>1 DEF CacheInv, Knows
  <2> QED
    BY <2>1, <2>2 DEF CacheInv, Shapes, RealEntries
<1>2. CASE \E e \in Engines : UpgradeEngine(e)
  <2>1. /\ UNCHANGED <<audio, cache, pc, job>> /\ installed' \in [Engines -> Nat]
        /\ \A e \in Engines : installed'[e] \in 1..MaxVersion[e] /\ installed[e] <= installed'[e]
    BY <1>2 DEF UpgradeEngine, CacheInv, Shapes
  <2>2. ASSUME NEW p \in Procs PROVE job[p].expected \in Nat
    <3>1. job[p].expected \in {0} \cup Versions
      BY DEF CacheInv, Shapes, Jobs
    <3> QED
      BY <3>1, VersionsAreNumbers
  <2>3. \A p \in Procs : Knows(pc[p], job[p])'
    BY <2>1, <2>2 DEF CacheInv, Shapes, Knows
  <2> QED
    BY <2>1, <2>3 DEF CacheInv, Shapes, RealEntries
<1> QED
  BY <1>1, <1>2

LEMMA InvStep == CacheInv /\ [Next]_vars => CacheInv'
<1> SUFFICES ASSUME CacheInv, [Next]_vars PROVE CacheInv'
  OBVIOUS
<1>1. CASE UNCHANGED vars
  BY <1>1 DEF vars, CacheInv, Shapes, RealEntries, Knows
<1>2. ASSUME NEW p \in Procs,
             \/ \E e \in Engines, f \in Files : Request(p, f, e)
             \/ LookHash(p) \/ LookRead(p) \/ EngineSucceeds(p) \/ EngineFails(p)
             \/ PutHash(p) \/ PutTruncate(p) \/ PutWrite(p) \/ PutFails(p) \/ Crash(p)
      PROVE  CacheInv'
  BY <1>2, RequestKeeps, LookKeeps, EngineKeeps, ForgetKeeps, PutBeginsKeeps, PutWritesKeeps
<1> QED
  BY <1>1, <1>2, AroundKeeps DEF Next

LEMMA InvAlways == Spec => []CacheInv
  BY InvInit, InvStep, PTL DEF Spec

-----------------------------------------------------------------------------
(* What holds whether or not audio is replaced under a run *)

(* The state of a process and of the cache is always of its type; what a   *)
(* process has hashed, and hence the file it writes, always exists.        *)
THEOREM CacheTypes == Spec => []TypeOK
<1>1. CacheInv => TypeOK
  BY VersionsAreNumbers DEF CacheInv, Shapes, Held, TypeOK
<1> QED
  BY <1>1, InvAlways, PTL

(* A mock run and a --no-cache run leave no trace in the cache. *)
THEOREM BypassLeavesCacheHolds == Spec => BypassLeavesCache
<1>1. CacheInv /\ [Next]_vars =>
        [cache' # cache => \E p \in Procs : pc[p] # pc'[p] /\ UseCache(p)]_vars
  <2> SUFFICES ASSUME CacheInv, Next, cache' # cache
               PROVE  \E p \in Procs : pc[p] # pc'[p] /\ UseCache(p)
    OBVIOUS
  <2>1. PICK p \in Procs : PutTruncate(p) \/ PutWrite(p)
    BY DEF Next, Request, LookHash, LookRead, EngineSucceeds, EngineFails, PutHash, PutFails,
           Crash, ReplaceAudio, UpgradeEngine
  <2>2. UseCache(p)
    BY <2>1 DEF PutTruncate, PutWrite, CacheInv, Knows, UseCache
  <2>3. pc[p] # pc'[p]
    BY <2>1 DEF PutTruncate, PutWrite, Goto, CacheInv, Shapes
  <2> QED
    BY <2>2, <2>3
<1> QED
  BY <1>1, InvAlways, PTL DEF Spec, BypassLeavesCache

-----------------------------------------------------------------------------
(* What holds when no file is replaced while a request for it is under way *)

(* A working process still finds what it was asked about; so its key, its  *)
(* result and every entry are of the audio they are filed under.           *)
FreshJob(l, j) ==
  /\ l \in Working => audio[j.file] = j.asked
  /\ l \in {"read", "truncate", "write"} => j.key = j.asked
  /\ l \in {"put", "truncate", "write", "answered"} /\ j.result # None => j.result.audio = j.asked

FreshEntries ==
  \A c \in Contents, e \in Engines : cache[c][e] \notin {None, Torn} => cache[c][e].audio = c

Fresh == FreshEntries /\ \A p \in Procs : FreshJob(pc[p], job[p])

LEMMA FreshInit == Init => Fresh
  BY DEF Init, Fresh, FreshEntries, FreshJob, noJob

(* Other processes' requests are as fresh as they were. *)
LEMMA FreshOthers ==
  ASSUME CacheInv, Fresh, NEW p \in Procs, UNCHANGED audio,
         \A q \in Procs \ {p} : pc'[q] = pc[q] /\ job'[q] = job[q],
         FreshEntries', FreshJob(pc[p], job[p])'
  PROVE  Fresh'
<1>1. ASSUME NEW q \in Procs PROVE FreshJob(pc[q], job[q])'
  BY DEF Fresh, FreshJob
<1> QED
  BY <1>1 DEF Fresh

LEMMA FreshStep ==
  ASSUME CacheInv, Fresh, NEW p \in Procs,
         \/ \E e \in Engines, f \in Files : Request(p, f, e)
         \/ LookHash(p) \/ LookRead(p) \/ EngineSucceeds(p) \/ EngineFails(p)
         \/ PutHash(p) \/ PutTruncate(p) \/ PutWrite(p) \/ PutFails(p) \/ Crash(p)
  PROVE  Fresh'
<1>1. /\ pc \in [Procs -> Working \cup {"idle", "answered"}] /\ job \in [Procs -> Jobs]
      /\ Knows(pc[p], job[p]) /\ FreshJob(pc[p], job[p]) /\ FreshEntries
      /\ job[p] \in Jobs
  BY DEF CacheInv, Shapes, Fresh
<1>2. UNCHANGED audio /\ \A q \in Procs \ {p} : pc'[q] = pc[q] /\ job'[q] = job[q]
  BY <1>1 DEF Request, LookHash, LookRead, EngineSucceeds, EngineFails, PutHash, PutTruncate,
              PutWrite, PutFails, PutFailsCaught, Crash, Goto, Note, Return
<1>3. CASE \E e \in Engines, f \in Files : Request(p, f, e)
  <2>1. PICK e \in Engines, f \in Files : Request(p, f, e)
    BY <1>3
  <2>2. /\ pc'[p] \in {"look", "spawn"} /\ job'[p].file = f /\ job'[p].asked = audio[f]
        /\ UNCHANGED cache
    BY <1>1, <2>1 DEF Request, Goto, noJob
  <2> QED
    BY <1>1, <1>2, <2>2, FreshOthers DEF FreshEntries, FreshJob
<1>4. CASE LookHash(p) \/ PutHash(p)
  <2>1. /\ pc[p] \in {"look", "put"} /\ UNCHANGED cache
        /\ pc'[p] \in {"read", "spawn", "truncate", "answered"}
        /\ job'[p] = [job[p] EXCEPT !.key = Hash(p)]
    BY <1>1, <1>4 DEF LookHash, PutHash, Goto, Note
  <2>2. /\ job'[p].file = job[p].file /\ job'[p].asked = job[p].asked
        /\ job'[p].result = job[p].result /\ job'[p].key = audio[job[p].file]
    BY <1>1, <2>1 DEF Jobs, Hash
  <2>3. pc[p] = "look" => pc'[p] \in {"read", "spawn"}
    BY <1>1, <1>4 DEF LookHash, PutHash, Goto
  <2>4. FreshJob(pc[p], job[p])'
    BY <1>1, <1>2, <2>1, <2>2, <2>3 DEF FreshJob
  <2> QED
    BY <1>1, <1>2, <2>1, <2>4, FreshOthers DEF FreshEntries
<1>5. CASE LookRead(p)
  <2>1. CASE Usable(Entry(p), job[p].expected)
    <3>1. /\ pc'[p] = "answered" /\ UNCHANGED cache
          /\ job'[p].asked = job[p].asked /\ job'[p].result = Entry(p)
      BY <1>1, <1>5, <2>1 DEF LookRead, Goto, Return, Jobs
    <3>2. Entry(p).audio = job[p].asked
      BY <1>1, <1>5, <2>1 DEF LookRead, Usable, Entry, Slot, Knows, FreshJob, FreshEntries
    <3> QED
      BY <1>1, <1>2, <3>1, <3>2, FreshOthers DEF FreshEntries, FreshJob
  <2>2. CASE ~Usable(Entry(p), job[p].expected)
    <3>1. /\ pc[p] = "read" /\ pc'[p] = "spawn" /\ UNCHANGED cache
          /\ job'[p].file = job[p].file /\ job'[p].asked = job[p].asked
      BY <1>1, <1>5, <2>2 DEF LookRead, Goto, Note, Jobs
    <3> QED
      BY <1>1, <1>2, <3>1, FreshOthers DEF FreshEntries, FreshJob
  <2> QED
    BY <2>1, <2>2
<1>6. CASE EngineSucceeds(p)
  <2>1. /\ pc[p] = "spawn" /\ pc'[p] \in {"put", "answered"} /\ UNCHANGED cache
        /\ job'[p].file = job[p].file /\ job'[p].asked = job[p].asked
        /\ job'[p].result.audio = audio[job[p].file]
    BY <1>1, <1>6 DEF EngineSucceeds, AfterAnalysis, Goto, Jobs
  <2> QED
    BY <1>1, <1>2, <2>1, FreshOthers DEF FreshEntries, FreshJob
<1>7. CASE EngineFails(p) \/ Crash(p)
  <2>1. pc'[p] \in {"idle", "answered"} /\ job'[p].result = None /\ UNCHANGED cache
    BY <1>1, <1>7 DEF EngineFails, Crash, Goto, noJob
  <2> QED
    BY <1>1, <1>2, <2>1, FreshOthers DEF FreshEntries, FreshJob
<1>8. CASE PutTruncate(p) \/ PutWrite(p)
  <2>1. /\ job[p].key \in Contents /\ job[p].engine \in Engines /\ Slot(p) = job[p].engine
        /\ job[p].result # None /\ job[p].key = job[p].asked /\ job[p].result.audio = job[p].asked
        /\ pc'[p] \in {"write", "answered"} /\ pc[p] \in Working
    BY <1>1, <1>8 DEF PutTruncate, PutWrite, Goto, Knows, FreshJob, Slot
  <2>2. PICK entry \in {Torn, job[p].result} : SetEntry(p, entry)
    BY <1>8 DEF PutTruncate, PutWrite
  <2>3. \A c \in Contents, e \in Engines :
          cache'[c][e] = IF c = job[p].key /\ e = job[p].engine THEN entry ELSE cache[c][e]
    BY <2>1, <2>2 DEF SetEntry, CacheInv, Shapes
  <2>4. FreshEntries'
    BY <1>1, <2>1, <2>3 DEF FreshEntries
  <2>5. /\ job'[p].file = job[p].file /\ job'[p].asked = job[p].asked
        /\ job'[p].result = job[p].result /\ (pc'[p] = "write" => job'[p].key = job[p].key)
    BY <1>1, <1>8 DEF PutTruncate, PutWrite, Return, Goto, Jobs
  <2> QED
    BY <1>1, <1>2, <2>1, <2>4, <2>5, FreshOthers DEF FreshJob
<1>9. CASE PutFails(p)
  <2>1. /\ pc[p] \in {"put", "truncate", "write"} /\ pc'[p] = "answered" /\ UNCHANGED cache
        /\ job'[p].asked = job[p].asked /\ job'[p].result = job[p].result
    BY <1>1, <1>9 DEF PutFails, PutFailsCaught, Return, Goto, Jobs
  <2> QED
    BY <1>1, <1>2, <2>1, FreshOthers DEF FreshEntries, FreshJob
<1> QED
  BY <1>3, <1>4, <1>5, <1>6, <1>7, <1>8, <1>9

LEMMA FreshAlways ==
  ASSUME EditDuringRun = FALSE
  PROVE  Spec => []Fresh
<1>1. CacheInv /\ Fresh /\ [Next]_vars => Fresh'
  <2> SUFFICES ASSUME CacheInv, Fresh, [Next]_vars PROVE Fresh'
    OBVIOUS
  <2>1. CASE UNCHANGED vars
    BY <2>1 DEF vars, Fresh, FreshEntries, FreshJob
  <2>2. CASE \E f \in Files : ReplaceAudio(f)
    <3>1. PICK f \in Files : ReplaceAudio(f)
      BY <2>2
    <3>2. /\ UNCHANGED <<cache, pc, job>>
          /\ \A g \in Files \ {f} : audio'[g] = audio[g]
          /\ \A p \in Procs : pc[p] \in Working => job[p].file # f
      BY <3>1 DEF ReplaceAudio, CacheInv, Shapes
    <3>3. ASSUME NEW p \in Procs PROVE FreshJob(pc[p], job[p])'
      <4>1. FreshJob(pc[p], job[p]) /\ Knows(pc[p], job[p])
        BY DEF Fresh, CacheInv
      <4>2. pc[p] \in Working => audio'[job[p].file] = audio[job[p].file]
        BY <3>2, <4>1 DEF Knows
      <4> QED
        BY <3>2, <4>1, <4>2 DEF FreshJob
    <3> QED
      BY <3>2, <3>3 DEF Fresh, FreshEntries
  <2>3. CASE \E e \in Engines : UpgradeEngine(e)
    BY <2>3 DEF UpgradeEngine, Fresh, FreshEntries, FreshJob
  <2> QED
    BY <2>1, <2>2, <2>3, FreshStep DEF Next
<1> QED
  BY <1>1, FreshInit, InvAlways, PTL DEF Spec

(* "replacing the audio invalidates it automatically": with any number of  *)
(* processes reading, tearing and rewriting entries, an entry that parses  *)
(* is a real engine's analysis of the content it is filed under.           *)
THEOREM CacheHonestHolds ==
  ASSUME EditDuringRun = FALSE
  PROVE  Spec => []CacheHonest
<1>1. CacheInv /\ Fresh => CacheHonest
  BY DEF CacheInv, RealEntries, Fresh, FreshEntries, CacheHonest
<1> QED
  BY <1>1, InvAlways, FreshAlways, PTL

(* And a request is answered, from its own run or from an entry of any     *)
(* process, about the audio and the engine it asked for.                   *)
THEOREM AnswersTheQuestionHolds ==
  ASSUME EditDuringRun = FALSE
  PROVE  Spec => []AnswersTheQuestion
<1>1. CacheInv /\ Fresh => AnswersTheQuestion
  BY DEF CacheInv, Knows, Fresh, FreshJob, AnswersTheQuestion
<1> QED
  BY <1>1, InvAlways, FreshAlways, PTL

-----------------------------------------------------------------------------
(* The cache is not seen *)

(* What is seen of the process that takes a step; the others stay put. *)
SameElsewhere(p) == \A q \in Procs \ {p} : pc'[q] = pc[q] /\ job'[q] = job[q]

LEMMA SeenElsewhere ==
  ASSUME NEW p \in Procs, SameElsewhere(p)
  PROVE  \A q \in Procs \ {p} : Stage(q)' = Stage(q) /\ Question(q)' = Question(q)
                                 /\ job'[q].result = job[q].result
  BY DEF SameElsewhere, Stage, Question

LEMMA Stutters ==
  ASSUME NEW p \in Procs, SameElsewhere(p), Stage(p)' = Stage(p), Question(p)' = Question(p),
         job'[p].result = job[p].result
  PROVE  UNCHANGED Unseen!askVars
<1>1. \A q \in Procs : Stage(q)' = Stage(q) /\ Question(q)' = Question(q)
                        /\ job'[q].result = job[q].result
  BY SeenElsewhere
<1> QED
  BY <1>1 DEF Unseen!askVars

LEMMA AsksUnseen ==
  ASSUME CacheInv, CacheInv', NEW p \in Procs, SameElsewhere(p),
         Stage(p) \in {"idle", "answered"}, Stage(p)' = "asked", job'[p].result = None,
         job'[p].engine \in Engines
  PROVE  Unseen!Ask(p)
<1>1. job'[p] \in Jobs
  BY DEF CacheInv, Shapes
<1>2. Question(p)' \in [audio : Contents \cup {None}, engine : Engines,
                        expected : {0} \cup Versions, mock : BOOLEAN]
  BY <1>1 DEF Question, Jobs
<1> QED
  BY <1>2, SeenElsewhere DEF Unseen!Ask

LEMMA ComputesUnseen ==
  ASSUME CacheInv, CacheInv', Fresh', NEW p \in Procs, SameElsewhere(p),
         Stage(p) = "asked", pc'[p] \in {"put", "answered"}, Question(p)' = Question(p),
         job'[p].result # None
  PROVE  Unseen!Compute(p)
<1>1. job'[p] \in Jobs /\ Knows(pc[p], job[p])' /\ FreshJob(pc[p], job[p])'
  BY DEF CacheInv, Shapes, Fresh
<1>2. job'[p].result \in Analyses
  BY <1>1 DEF Jobs
<1>3. /\ job'[p].result.audio = job'[p].asked /\ job'[p].result.engine = job'[p].engine
      /\ job'[p].result.mock = job'[p].isMock /\ job'[p].result.version >= job'[p].expected
  BY <1>1 DEF Knows, FreshJob
<1>4. /\ Question(p).audio = job'[p].asked /\ Question(p).engine = job'[p].engine
      /\ Question(p).mock = job'[p].isMock /\ Question(p).expected = job'[p].expected
  BY DEF Question
<1>5. Unseen!Answers(job'[p].result, Question(p))
  BY <1>3, <1>4 DEF Unseen!Answers
<1>6. Stage(p)' \in {"owed", "answered"}
  BY DEF Stage
<1> QED
  BY <1>2, <1>5, <1>6, SeenElsewhere DEF Unseen!Compute

LEMMA HandsOverUnseen ==
  ASSUME NEW p \in Procs, SameElsewhere(p), Stage(p) = "owed", Stage(p)' = "answered",
         Question(p)' = Question(p), job'[p].result = job[p].result
  PROVE  Unseen!HandOver(p)
<1>1. \A q \in Procs : Question(q)' = Question(q) /\ job'[q].result = job[q].result
  BY SeenElsewhere
<1> QED
  BY <1>1, SeenElsewhere DEF Unseen!HandOver

LEMMA ForgetsUnseen ==
  ASSUME NEW p \in Procs, SameElsewhere(p), job'[p] = noJob
  PROVE  /\ Stage(p) = "asked" /\ Stage(p)' = "answered" => Unseen!Fail(p)
         /\ Stage(p) \in {"asked", "owed"} /\ Stage(p)' = "idle" => Unseen!Vanish(p)
<1>1. /\ Question(p)' = [audio |-> None, engine |-> None, expected |-> 0, mock |-> FALSE]
      /\ job'[p].result = None
  BY DEF Question, noJob
<1> QED
  BY <1>1, SeenElsewhere DEF Unseen!Fail, Unseen!Vanish, Unseen!Forget

LEMMA UnseenStep ==
  ASSUME CacheInv, CacheInv', Fresh', NEW p \in Procs,
         \/ \E e \in Engines, f \in Files : Request(p, f, e)
         \/ LookHash(p) \/ LookRead(p) \/ EngineSucceeds(p) \/ EngineFails(p)
         \/ PutHash(p) \/ PutTruncate(p) \/ PutWrite(p) \/ PutFails(p) \/ Crash(p)
  PROVE  [Unseen!Next]_Unseen!askVars
<1>1. /\ pc \in [Procs -> Working \cup {"idle", "answered"}] /\ job \in [Procs -> Jobs]
      /\ job[p] \in Jobs
  BY DEF CacheInv, Shapes
<1>2. SameElsewhere(p)
  BY <1>1 DEF Request, LookHash, LookRead, EngineSucceeds, EngineFails, PutHash, PutTruncate,
              PutWrite, PutFails, PutFailsCaught, Crash, Goto, Note, Return, SameElsewhere
<1>3. CASE \E e \in Engines, f \in Files : Request(p, f, e)
  <2> PICK e \in Engines, f \in Files : Request(p, f, e)
    BY <1>3
  <2>1. /\ pc[p] \in {"idle", "answered"} /\ pc'[p] \in {"look", "spawn"}
        /\ job'[p].result = None /\ job'[p].engine \in Engines
    BY <1>1 DEF Request, Goto, noJob
  <2>2. Unseen!Ask(p)
    BY <1>2, <2>1, AsksUnseen DEF Stage
  <2> QED
    BY <2>2 DEF Unseen!Next
<1>4. CASE LookHash(p) \/ PutTruncate(p) \/ (PutHash(p) /\ pc'[p] = "truncate")
           \/ (LookRead(p) /\ pc'[p] = "spawn")
  <2>1. /\ Stage(p)' = Stage(p) /\ job'[p].asked = job[p].asked /\ job'[p].engine = job[p].engine
        /\ job'[p].expected = job[p].expected /\ job'[p].isMock = job[p].isMock
        /\ job'[p].result = job[p].result
    BY <1>1, <1>4 DEF LookHash, PutTruncate, PutHash, LookRead, Goto, Note, Return, Stage, Jobs
  <2> QED
    BY <1>2, <2>1, Stutters DEF Question
<1>5. CASE EngineSucceeds(p) \/ (LookRead(p) /\ pc'[p] # "spawn")
  <2>1. /\ Stage(p) = "asked" /\ pc'[p] \in {"put", "answered"}
        /\ job'[p].asked = job[p].asked /\ job'[p].engine = job[p].engine
        /\ job'[p].expected = job[p].expected /\ job'[p].isMock = job[p].isMock
    BY <1>1, <1>5
    DEF EngineSucceeds, AfterAnalysis, LookRead, Goto, Note, Return, Stage, Jobs
  <2>2. job'[p].result # None
    <3>1. CASE EngineSucceeds(p)
      <4>1. job'[p].engineRan = TRUE
        BY <1>1, <3>1 DEF EngineSucceeds, Jobs
      <4> QED
        BY <2>1, <4>1 DEF CacheInv, Knows
    <3>2. CASE LookRead(p) /\ pc'[p] # "spawn"
      BY <1>1, <3>2 DEF LookRead, Usable, Return, Goto, Jobs
    <3> QED
      BY <1>5, <3>1, <3>2
  <2>3. Unseen!Compute(p)
    BY <1>2, <2>1, <2>2, ComputesUnseen DEF Question
  <2> QED
    BY <2>3 DEF Unseen!Next
<1>6. CASE EngineFails(p) \/ Crash(p)
  <2>1. /\ job'[p] = noJob
        /\ \/ pc[p] = "spawn" /\ pc'[p] = "answered"
           \/ pc[p] \in Working /\ pc'[p] = "idle"
    BY <1>1, <1>6 DEF EngineFails, Crash, Goto
  <2>2. Unseen!Fail(p) \/ Unseen!Vanish(p)
    BY <1>2, <2>1, ForgetsUnseen DEF Stage
  <2> QED
    BY <2>2 DEF Unseen!Next
<1>7. CASE PutWrite(p) \/ PutFails(p) \/ (PutHash(p) /\ pc'[p] # "truncate")
  <2>1. /\ Stage(p) = "owed" /\ Stage(p)' = "answered"
        /\ job'[p].asked = job[p].asked /\ job'[p].engine = job[p].engine
        /\ job'[p].expected = job[p].expected /\ job'[p].isMock = job[p].isMock
        /\ job'[p].result = job[p].result
    BY <1>1, <1>7
    DEF PutWrite, PutFails, PutFailsCaught, PutHash, Goto, Note, Return, Stage, Jobs
  <2>2. Unseen!HandOver(p)
    BY <1>2, <2>1, HandsOverUnseen DEF Question
  <2> QED
    BY <2>2 DEF Unseen!Next
<1> QED
  BY <1>3, <1>4, <1>5, <1>6, <1>7

(* "every read/write is best-effort and never fails a run": a caller sees  *)
(* what it would see without a cache, and keeps what its run produced.     *)
THEOREM ImplementsUncached ==
  ASSUME EditDuringRun = FALSE
  PROVE  Spec => LooksUncached
<1>1. Init => Unseen!Init
  BY DEF Init, Unseen!Init, Stage, Question, noJob
<1>2. CacheInv /\ CacheInv' /\ Fresh' /\ [Next]_vars => [Unseen!Next]_Unseen!askVars
  <2> SUFFICES ASSUME CacheInv, CacheInv', Fresh', [Next]_vars
               PROVE  [Unseen!Next]_Unseen!askVars
    OBVIOUS
  <2>1. CASE UNCHANGED <<pc, job>>
    BY <2>1 DEF Unseen!askVars, Stage, Question
  <2>2. CASE ~UNCHANGED <<pc, job>>
    BY <2>2, UnseenStep DEF Next, vars, ReplaceAudio, UpgradeEngine
  <2> QED
    BY <2>1, <2>2
<1> QED
  BY <1>1, <1>2, InvAlways, FreshAlways, PTL DEF Spec, LooksUncached, Unseen!Spec
=============================================================================
