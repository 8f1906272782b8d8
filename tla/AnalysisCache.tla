---------------------------- MODULE AnalysisCache ----------------------------
(***************************************************************************)
(* kcrash/core/cache.py as kcrash/core/pipeline.py uses it: look a key up, *)
(* and on a miss analyse the crash and `set` the key.  Each instance (the  *)
(* CLI, the API server, every batch worker) keeps an index in memory; all  *)
(* of them share one directory with index.json and one data file per key.  *)
(* Nothing locks the directory and files are rewritten in place, so a      *)
(* reader, or a process that starts after a crash, can find a file torn.   *)
(* ttl_seconds and max_entries are each instance's own (the server's come  *)
(* from its configuration, a pipeline without a cache makes an instance    *)
(* with ttl_seconds=0 over the same directory), and an entry keeps the     *)
(* lifetime given by the instance that made it.                            *)
(*                                                                         *)
(* A cached value is the clock at which it was written; hit_count and the  *)
(* hash that makes a key from a fingerprint and a model are left out.      *)
(***************************************************************************)
EXTENDS Integers, FiniteSets

CONSTANTS
  Keys,        \* results of make_key
  Instances,   \* AnalysisCache objects over the same cache_dir
  MaxEntries,  \* MaxEntries[i]: max_entries of instance i
  TTL,         \* TTL[i]: its ttl_seconds, in clock ticks
  None,        \* no entry, no file
  Torn,        \* a file opened for writing and not (yet) written
  MaxTime,     \* bound: the clock stops here
  MaxCrashes   \* bound: processes killed

ASSUME CapacityAssumption == MaxEntries \in [Instances -> Nat \ {0}]
ASSUME TTLAssumption      == TTL \in [Instances -> Nat]
ASSUME BoundAssumption    == MaxTime \in Nat /\ MaxCrashes \in Nat
ASSUME FiniteAssumption   == IsFiniteSet(Keys) /\ IsFiniteSet(Instances)
ASSUME MarkAssumption     == None # Torn /\ {None, Torn} \intersect Nat = {}

VARIABLES
  files,      \* files[k]: the data file <k>.json
  diskIndex,  \* index.json
  index,      \* index[i]: self._index
  op,         \* op[i]: where instance i is in an operation, its key and `now`
  now,        \* time.time()
  crashes,    \* history: processes killed so far
  shared,     \* history: two instances have been up together
  preClear    \* history: keys whose data file is older than the last clear

disk == <<files, diskIndex>>
vars == <<disk, index, op, now, crashes, shared, preClear>>

Entry == [created : 0..MaxTime, expires : Nat]
Empty == [k \in Keys |-> None]

\* json.load of an index file gives an object and of an entry a dictionary: a
\* mark is neither.
ASSUME ShapeAssumption ==
  None \notin Entry /\ {None, Torn} \intersect [Keys -> Entry \union {None}] = {}

Down   == [at |-> "down",   key |-> None, began |-> 0]
Idle   == [at |-> "idle",   key |-> None, began |-> 0]
Raised == [at |-> "raised", key |-> None, began |-> 0]  \* idle, after a failed get

Up(i)      == op[i] # Down
Free(i)    == op[i] \in {Idle, Raised}
At(i, l)   == op[i].at = l
Indexed(i) == {k \in Keys : index[i][k] # None}
Goto(i, l) == op' = [op EXCEPT ![i].at = l]

Init ==
  /\ files = Empty
  /\ diskIndex = None
  /\ index = [i \in Instances |-> Empty]
  /\ op = [i \in Instances |-> Down]
  /\ now = 0
  /\ crashes = 0
  /\ shared = FALSE
  /\ preClear = {}

-----------------------------------------------------------------------------
(* Life of an instance *)

\* __init__ with _load_index: a missing or unreadable index.json is empty.
Boot(i) ==
  /\ ~Up(i)
  /\ index' = [index EXCEPT ![i] = IF diskIndex \in {None, Torn} THEN Empty ELSE diskIndex]
  /\ op' = [op EXCEPT ![i] = Idle]
  /\ shared' = (shared \/ \E j \in Instances : Up(j))
  /\ UNCHANGED <<disk, now, crashes, preClear>>

\* The process ends, between operations or in the middle of one.
Crash(i) ==
  /\ Up(i)
  /\ crashes < MaxCrashes
  /\ op' = [op EXCEPT ![i] = Down]
  /\ index' = [index EXCEPT ![i] = Empty]
  /\ crashes' = crashes + 1
  /\ UNCHANGED <<disk, now, shared, preClear>>

Tick ==
  /\ now < MaxTime
  /\ now' = now + 1
  /\ UNCHANGED <<disk, index, op, crashes, shared, preClear>>

-----------------------------------------------------------------------------
(* get, called by AnalysisPipeline.run before the analysis *)

Expired_AtWholeTTL(e) == now > e.expires + 1
Expired(e) == now > e.expires

\* No entry, an expired one or one without a file is a miss.  The entry goes
\* from memory only: neither the data file nor index.json is touched.
Miss(i, k) ==
  /\ Free(i)
  /\ index[i][k] # None => Expired(index[i][k]) \/ files[k] = None
  /\ index' = [index EXCEPT ![i][k] = None]
  /\ op' = [op EXCEPT ![i] = [at |-> "analysing", key |-> k, began |-> 0]]
  /\ UNCHANGED <<disk, now, crashes, shared, preClear>>

Find(i, k) ==
  /\ Free(i)
  /\ index[i][k] # None
  /\ ~Expired(index[i][k]) /\ files[k] # None
  /\ op' = [op EXCEPT ![i] = [at |-> "reading", key |-> k, began |-> now]]
  /\ UNCHANGED <<disk, index, now, crashes, shared, preClear>>

\* open and json.load: a file that is gone or torn by now raises out of `get`
\* and out of AnalysisPipeline.run.
Read(i) ==
  /\ At(i, "reading")
  /\ op' = [op EXCEPT ![i] = IF files[op[i].key] \in {None, Torn} THEN Raised ELSE Idle]
  /\ UNCHANGED <<disk, index, now, crashes, shared, preClear>>

-----------------------------------------------------------------------------
(* set, called by AnalysisPipeline.run after the analysis *)

Full_OffByOne(i) == Cardinality(Indexed(i)) > MaxEntries[i]
Full(i) == Cardinality(Indexed(i)) >= MaxEntries[i]

Oldest(i) == {k \in Indexed(i) :
                \A l \in Indexed(i) : index[i][k].created <= index[i][l].created}

\* set reads the clock and, in a full index, evicts the oldest entry.  (The key
\* to be set is not in the index: the miss before took it out.)
SetBegin(i) ==
  /\ At(i, "analysing")
  /\ op' = [op EXCEPT ![i].at = "open", ![i].began = now]
  /\ \/ ~Full(i) /\ UNCHANGED <<files, index, preClear>>
     \/ Full(i) /\ \E old \in Oldest(i) :
          /\ files' = [files EXCEPT ![old] = None]
          /\ index' = [index EXCEPT ![i][old] = None]
          /\ preClear' = preClear \ {old}
  /\ UNCHANGED <<diskIndex, now, crashes, shared>>

NewEntry(i) == [created |-> op[i].began, expires |-> op[i].began + TTL[i]]

OpenData_AfterIndex(i) ==
  /\ At(i, "open")
  /\ index' = [index EXCEPT ![i][op[i].key] = NewEntry(i)]
  /\ diskIndex' = index'[i]
  /\ files' = [files EXCEPT ![op[i].key] = Torn]
  /\ preClear' = preClear \ {op[i].key}
  /\ Goto(i, "write")
  /\ UNCHANGED <<now, crashes, shared>>

\* open(data_path, "w") truncates the data file ...
OpenData(i) ==
  /\ At(i, "open")
  /\ files' = [files EXCEPT ![op[i].key] = Torn]
  /\ preClear' = preClear \ {op[i].key}
  /\ Goto(i, "write")
  /\ UNCHANGED <<diskIndex, index, now, crashes, shared>>

AfterData_NoSave == Idle
AfterData == [at |-> "save", key |-> None, began |-> 0]

\* ... json.dump fills it, and the index entry is made in memory.
WriteData(i) ==
  /\ At(i, "write")
  /\ LET k == op[i].key
     IN  /\ files' = [files EXCEPT ![k] = now]
         /\ index' = [index EXCEPT ![i][k] = NewEntry(i)]
         /\ preClear' = preClear \ {k}
  /\ op' = [op EXCEPT ![i] = AfterData]
  /\ UNCHANGED <<diskIndex, now, crashes, shared>>

\* _save_index truncates index.json ...
OpenIndex(i) ==
  /\ At(i, "save")
  /\ diskIndex' = Torn
  /\ Goto(i, "dump")
  /\ UNCHANGED <<files, index, now, crashes, shared, preClear>>

\* ... and writes this instance's whole index over whatever was there.
DumpIndex(i) ==
  /\ At(i, "dump")
  /\ diskIndex' = index[i]
  /\ op' = [op EXCEPT ![i] = Idle]
  /\ UNCHANGED <<files, index, now, crashes, shared, preClear>>

Clear_MemoryOnly(i) ==
  /\ Free(i)
  /\ index' = [index EXCEPT ![i] = Empty]
  /\ preClear' = {k \in Keys : files[k] # None}
  /\ op' = [op EXCEPT ![i] = Idle]
  /\ UNCHANGED <<disk, now, crashes, shared>>

\* clear: the data files of the indexed keys, the index, then _save_index.
Clear(i) ==
  /\ Free(i)
  /\ files' = [k \in Keys |-> IF k \in Indexed(i) THEN None ELSE files[k]]
  /\ preClear' = {k \in Keys : files'[k] # None}
  /\ index' = [index EXCEPT ![i] = Empty]
  /\ op' = [op EXCEPT ![i] = [at |-> "save", key |-> None, began |-> 0]]
  /\ UNCHANGED <<diskIndex, now, crashes, shared>>

Step(i) ==
  \/ Boot(i) \/ Crash(i) \/ Clear(i)
  \/ \E k \in Keys : Miss(i, k) \/ Find(i, k)
  \/ Read(i)
  \/ SetBegin(i) \/ OpenData(i) \/ WriteData(i) \/ OpenIndex(i) \/ DumpIndex(i)

Next == Tick \/ \E i \in Instances : Step(i)

Spec == Init /\ [][Next]_vars

-----------------------------------------------------------------------------
\* Type invariant of the directory and of the instances.
TypeOK ==
  /\ files \in [Keys -> (0..MaxTime) \union {None, Torn}]
  /\ diskIndex \in [Keys -> Entry \union {None}] \union {None, Torn}
  /\ index \in [Instances -> [Keys -> Entry \union {None}]]
  /\ op \in [Instances -> [at : {"down", "idle", "raised", "reading", "analysing",
                                "open", "write", "save", "dump"},
                          key : Keys \union {None}, began : 0..MaxTime]]
  /\ now \in 0..MaxTime
  /\ crashes \in 0..MaxCrashes
  /\ shared \in BOOLEAN
  /\ preClear \subseteq Keys

\* An index of n entries is allowed by some instance's max_entries.
Fits(n) == \E i \in Instances : n <= MaxEntries[i]

\* No index, on disk or in an instance, outgrows max_entries, across restarts
\* and instances that load what others saved.  With several values of it that
\* is the largest: an instance that loads more than it would keep itself
\* evicts one entry for each that it adds.
CapacityBound ==
  /\ \A i \in Instances : Fits(Cardinality(Indexed(i)))
  /\ diskIndex \notin {None, Torn} => Fits(Cardinality({k \in Keys : diskIndex[k] # None}))

\* A lookup never answers with a result older than the ttl_seconds that the
\* entry it followed was made with, whoever wrote the file since and whichever
\* index led to it.  (Not: than the ttl_seconds of the instance that asks.  One
\* with ttl_seconds=0 answers with an hour-old result of another.)
NoStaleHit ==
  \A i \in Instances :
    (At(i, "reading") /\ files[op[i].key] \notin {None, Torn})
      => LET entry == index[i][op[i].key]
         IN  \E j \in Instances : /\ entry.expires = entry.created + TTL[j]
                                  /\ op[i].began - files[op[i].key] <= TTL[j]

\* While one instance at a time uses the directory, one crash never leaves a
\* file that makes lookups raise: data goes to disk before the index names it.
\* (It takes two: a crash between an eviction or clear and the save leaves an
\* index entry without its file, and a second one while that key is written
\* again tears the file under it.)
OneCrashNeverPoisons ==
  \A i \in Instances : op[i] = Raised => shared \/ crashes >= 2

\* Alone in the directory and between operations, an instance has nothing in
\* memory that a restart would lose.
DiskCoversMemory ==
  \A i \in Instances :
    (~shared /\ (Free(i) \/ At(i, "reading") \/ At(i, "analysing"))) =>
      \A k \in Indexed(i) : diskIndex \notin {None, Torn} /\ diskIndex[k] = index[i][k]

\* Alone in the directory, an instance never serves what was cached before a
\* clear, not from a data file the clear overlooked and not after a restart.
ClearIsFinal ==
  \A i \in Instances : ~shared /\ At(i, "reading") => op[i].key \notin preClear

==============================================================================
