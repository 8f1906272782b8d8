------------------------ MODULE AnalysisCacheProofs ------------------------
(***************************************************************************)
(* Proofs about AnalysisCache for any keys, any number of instances, each  *)
(* with any capacity and TTL, and any number of crashes.                   *)
(*                                                                         *)
(* CapacityBound (Room) and NoStaleHit (Fresh) hold whatever the instances *)
(* do to each other.  The other three hold while they were never up        *)
(* together (Alone), and none of them is inductive: a lookup is fooled by  *)
(* what another step left behind earlier, on disk or in memory.  Solo says *)
(* for each key what the index on disk, the index in memory and the data   *)
(* file may then disagree about, at every point of `get` and `set` and     *)
(* after no, one or more crashes.  Each step is first looked at for one    *)
(* key (the lemmas ...Solo), as an update of that key's three copies.      *)
(***************************************************************************)
EXTENDS AnalysisCache, FiniteSetTheorems, TLAPS

\* Between operations, or in one that has not begun to write; and in a `set` or
\* the analysis before it, whose entry is not yet made.
Quiet   == {"idle", "raised", "reading", "analysing"}
Setting == {"analysing", "open", "write"}

\* An entry that `get` would not turn down for its age at time t.
Live(e, t) == e # None /\ ~(t > e.expires)

\* The index a process that starts now would load.
Saved == IF diskIndex \in {None, Torn} THEN Empty ELSE diskIndex

\* Where an operation stands determines its key, and `now` was read in the past.
OpShape ==
  \A i \in Instances :
    /\ At(i, "down") => op[i] = Down
    /\ At(i, "idle") => op[i] = Idle
    /\ At(i, "raised") => op[i] = Raised
    /\ op[i].at \in {"reading", "analysing", "open", "write"} => op[i].key \in Keys
    /\ op[i].began <= now

\* n entries leave room for one more, in some instance.
Leaves(n) == \E i \in Instances : n < MaxEntries[i]

\* CapacityBound, with the room that a set has made before it adds its entry.
Room ==
  /\ \A i \in Instances :
       /\ Fits(Cardinality(Indexed(i)))
       /\ op[i].at \in {"open", "write"} => Leaves(Cardinality(Indexed(i)))
  /\ IF Instances = {} THEN diskIndex = None
     ELSE Fits(Cardinality({k \in Keys : Saved[k] # None}))

\* An entry was made in the past, lives for some instance's TTL, and the file it
\* leads to, if it can be read, is not older than the entry.
Dated(e, file, t) ==
  e # None => /\ \E i \in Instances : e.expires = e.created + TTL[i]
              /\ e.created <= t
              /\ file \notin {None, Torn} => file >= e.created

\* The entry that a lookup follows stays in the index of its instance.
Pointed == \A i \in Instances : At(i, "reading") => index[i][op[i].key] # None

Fresh ==
  /\ \A k \in Keys : Dated(Saved[k], files[k], now)
  /\ \A k \in Keys, i \in Instances : Dated(index[i][k], files[k], now)
  /\ NoStaleHit
  /\ Pointed

Alone == ~shared => \A i, j \in Instances : Up(i) /\ Up(j) => i = j

(* While instances never shared the directory: instance i, if it is up, and key k *)

\* DiskCoversMemory
Covered(i, k) ==
  op[i].at \in Quiet /\ index[i][k] # None => Saved[k] = index[i][k]

\* What a restart could find again, this instance knows or has no file for.
Known(i, k) ==
  op[i].at \in Quiet /\ Live(Saved[k], now) => index[i][k] # None \/ files[k] = None

\* No live entry leads to a file from before the last clear.
Cleared(i, k) ==
  k \in preClear => ~Live(index[i][k], now) /\ ~(At(i, "reading") /\ op[i].key = k)

\* At most one process was killed: no live entry leads to a torn file, the
\* entry of a key that is being set is gone, a file being read can be read.
Sound(i, k) ==
  crashes <= 1 =>
    /\ Live(index[i][k], now) => files[k] # Torn
    /\ op[i].at \in Setting /\ op[i].key = k => index[i][k] = None
    /\ At(i, "reading") /\ op[i].key = k => files[k] \notin {None, Torn}

\* No process was killed: disk and memory know the same live entries, each
\* with its file, and none for a key that is being set.
Unharmed(i, k) ==
  crashes = 0 =>
    /\ op[i].at \in Quiet /\ Live(Saved[k], now) => index[i][k] # None
    /\ Live(index[i][k], now) => files[k] # None
    /\ op[i].at \in Setting /\ op[i].key = k => ~Live(Saved[k], now)

InMemory(i, k) ==
  Covered(i, k) /\ Known(i, k) /\ Cleared(i, k) /\ Sound(i, k) /\ Unharmed(i, k)

\* The same for the index on disk, where a crash may have left the file that an
\* instance is writing torn under a live entry.
NoneUp(o)     == \A i \in Instances : o[i].at = "down"
Writing(o, k) == \E i \in Instances : o[i].at = "write" /\ o[i].key = k

OnDisk(k) ==
  /\ k \in preClear => ~Live(Saved[k], now)
  /\ crashes <= 1 /\ Live(Saved[k], now) =>
       files[k] # Torn \/ (crashes = 1 /\ Writing(op, k))
  /\ crashes = 0 /\ NoneUp(op) => Saved[k] = None

Solo ==
  ~shared =>
    /\ \A k \in Keys : OnDisk(k)
    /\ \A i \in Instances :
         /\ crashes <= 1 => ~At(i, "raised")
         /\ ~At(i, "down") => \A k \in Keys : InMemory(i, k)

IInv == TypeOK /\ OpShape /\ Room /\ Fresh /\ Alone /\ Solo

-----------------------------------------------------------------------------
(* Types *)

Labels == {"down", "idle", "raised", "reading", "analysing", "open", "write", "save", "dump"}
Ops == [at : Labels, key : Keys \union {None}, began : 0..MaxTime]
OpsOK == op \in [Instances -> Ops]
FilesOK == files \in [Keys -> (0..MaxTime) \union {None, Torn}]
Slots == Entry \union {None}
IndexOK == index \in [Instances -> [Keys -> Slots]]
DiskOK == diskIndex \in [Keys -> Slots] \union {None, Torn}
MiscOK ==
  /\ now \in 0..MaxTime
  /\ crashes \in 0..MaxCrashes
  /\ shared \in BOOLEAN
  /\ preClear \subseteq Keys

\* The type invariant, part by part.
LEMMA TypeParts == TypeOK <=> FilesOK /\ DiskOK /\ IndexOK /\ OpsOK /\ MiscOK
  BY DEF TypeOK, FilesOK, DiskOK, IndexOK, OpsOK, MiscOK, Ops, Labels, Slots

\* The same of the next state.
LEMMA TypeParts2 == TypeOK' <=> (FilesOK /\ DiskOK /\ IndexOK /\ OpsOK /\ MiscOK)'
  BY DEF TypeOK, FilesOK, DiskOK, IndexOK, OpsOK, MiscOK, Ops, Labels, Slots

\* What a process loads is an index.
LEMMA SavedType ==
  ASSUME DiskOK
  PROVE  /\ Saved \in [Keys -> Slots]
         /\ diskIndex \in [Keys -> Slots] => Saved = diskIndex
  <1>1. Empty \in [Keys -> Slots]
    BY DEF Empty, Slots
  <1>2. {None, Torn} \intersect [Keys -> Slots] = {}
    BY ShapeAssumption DEF Slots
  <1>3. QED
    BY <1>1, <1>2 DEF DiskOK, Saved

\* OpShape for one operation.
Shaped(o) ==
  /\ o.at = "down" => o = Down
  /\ o.at = "idle" => o = Idle
  /\ o.at = "raised" => o = Raised
  /\ o.at \in {"reading", "analysing", "open", "write"} => o.key \in Keys

\* The operation an instance is in, after each step it can take.
LEMMA OpStep ==
  ASSUME TypeOK, OpShape, NEW i \in Instances, Step(i)
  PROVE  /\ OpsOK' /\ OpShape'
         /\ \A j \in Instances : j # i => op'[j] = op[j]
  <1> DEFINE Next_(o) == /\ o \in Ops /\ o.began <= now /\ Shaped(o)
                         /\ op' = [op EXCEPT ![i] = o] /\ UNCHANGED now
  <1>1. SUFFICES \E o : Next_(o)
    <2>1. PICK o : Next_(o)
      BY <1>1
    <2>2. OpsOK' /\ \A j \in Instances : op'[j] = IF j = i THEN o ELSE op[j]
      BY <2>1, TypeParts DEF OpsOK
    <2>3. OpShape'
      BY <2>1, <2>2 DEF OpShape, At, Shaped
    <2>4. QED
      BY <2>2, <2>3
  <1>2. op[i] \in Ops /\ Shaped(op[i]) /\ op[i].began <= now /\ now \in 0..MaxTime /\ MaxTime \in Nat
    BY TypeParts, BoundAssumption DEF OpsOK, MiscOK, OpShape, At, Shaped
  <1>3. /\ Down \in Ops /\ Down.began <= now /\ Shaped(Down)
        /\ Idle \in Ops /\ Idle.began <= now /\ Shaped(Idle)
        /\ Raised \in Ops /\ Raised.began <= now /\ Shaped(Raised)
        /\ AfterData \in Ops /\ AfterData.began <= now /\ Shaped(AfterData)
    BY <1>2 DEF Down, Idle, Raised, AfterData, Ops, Labels, Shaped
  <1>4. CASE Boot(i)
    BY <1>3, <1>4 DEF Boot
  <1>5. CASE Crash(i)
    BY <1>3, <1>5 DEF Crash
  <1>6. CASE Clear(i)
    BY <1>3, <1>6 DEF Clear, AfterData
  <1>7. ASSUME NEW k \in Keys, Miss(i, k) PROVE \E o : Next_(o)
    <2> DEFINE o == [at |-> "analysing", key |-> k, began |-> 0]
    <2>1. o \in Ops /\ o.began <= now /\ Shaped(o)
      BY <1>2 DEF Ops, Labels, Shaped
    <2>2. QED
      BY <1>7, <2>1 DEF Miss
  <1>8. ASSUME NEW k \in Keys, Find(i, k) PROVE \E o : Next_(o)
    <2> DEFINE o == [at |-> "reading", key |-> k, began |-> now]
    <2>1. o \in Ops /\ o.began <= now /\ Shaped(o)
      BY <1>2 DEF Ops, Labels, Shaped
    <2>2. QED
      BY <1>8, <2>1 DEF Find
  <1>9. CASE Read(i)
    BY <1>3, <1>9 DEF Read
  <1>10. CASE SetBegin(i)
    <2> DEFINE o == [at |-> "open", key |-> op[i].key, began |-> now]
    <2>1. op[i].key \in Keys
      BY <1>2, <1>10 DEF Shaped, SetBegin, At
    <2>2. o \in Ops /\ o.began <= now /\ Shaped(o)
      BY <1>2, <2>1 DEF Ops, Labels, Shaped
    <2>3. op[i] = [at |-> op[i].at, key |-> op[i].key, began |-> op[i].began]
      BY <1>2 DEF Ops
    <2>4. op' = [op EXCEPT ![i] = o] /\ UNCHANGED now
      <3>1. /\ op \in [Instances -> Ops] /\ op' = [op EXCEPT ![i].at = "open", ![i].began = now]
            /\ UNCHANGED now
        BY <1>10, TypeParts DEF SetBegin, OpsOK
      <3>2. DOMAIN op' = Instances /\ \A j \in Instances : j # i => op'[j] = op[j]
        BY <3>1
      <3>3. op'[i] = o
        BY <3>1, <2>3
      <3>4. op' = [j \in Instances |-> op'[j]]
        BY <3>1
      <3>5. QED
        BY <3>1, <3>2, <3>3, <3>4
    <2>5. QED
      BY <2>2, <2>4
  <1>11. CASE OpenData(i)
    <2> DEFINE o == [op[i] EXCEPT !.at = "write"]
    <2>1. o \in Ops /\ o.began <= now /\ Shaped(o)
      BY <1>2, <1>11 DEF Ops, Labels, Shaped, OpenData, At
    <2>2. QED
      BY <1>11, <2>1 DEF OpenData, Goto
  <1>12. CASE WriteData(i)
    BY <1>3, <1>12 DEF WriteData
  <1>13. CASE OpenIndex(i)
    <2> DEFINE o == [op[i] EXCEPT !.at = "dump"]
    <2>1. o \in Ops /\ o.began <= now /\ Shaped(o)
      BY <1>2, <1>13 DEF Ops, Labels, Shaped, OpenIndex, At
    <2>2. QED
      BY <1>13, <2>1 DEF OpenIndex, Goto
  <1>14. CASE DumpIndex(i)
    BY <1>3, <1>14 DEF DumpIndex
  <1>15. QED
    BY <1>4, <1>5, <1>6, <1>7, <1>8, <1>9, <1>10, <1>11, <1>12, <1>13, <1>14 DEF Step

\* The entry that a set makes.
LEMMA MadeEntry ==
  ASSUME TypeOK, OpShape, NEW i \in Instances
  PROVE  NewEntry(i) \in Entry
  <1>1. op[i].began \in 0..MaxTime
    BY TypeParts DEF OpsOK, Ops
  <1>2. QED
    BY <1>1, TTLAssumption, BoundAssumption DEF Entry, NewEntry

\* The files, the clock and the histories keep their types.
LEMMA FilesStep ==
  ASSUME TypeOK, OpShape, NEW i \in Instances, Step(i)
  PROVE  FilesOK' /\ MiscOK'
  <1>1. FilesOK /\ MiscOK /\ (op[i].at \in {"open", "write"} => op[i].key \in Keys)
    BY TypeParts DEF OpShape
  <1>2. CASE UNCHANGED <<files, now, crashes, preClear>> /\ shared' \in BOOLEAN
    BY <1>1, <1>2 DEF FilesOK, MiscOK
  <1>3. CASE Boot(i)
    BY <1>1, <1>3, <1>2 DEF Boot, disk, MiscOK
  <1>4. CASE Crash(i)
    BY <1>1, <1>4, BoundAssumption DEF Crash, disk, FilesOK, MiscOK
  <1>5. CASE Clear(i)
    BY <1>1, <1>5 DEF Clear, FilesOK, MiscOK
  <1>6. CASE SetBegin(i)
    BY <1>1, <1>6 DEF SetBegin, FilesOK, MiscOK
  <1>7. CASE OpenData(i)
    BY <1>1, <1>7 DEF OpenData, FilesOK, MiscOK
  <1>8. CASE WriteData(i)
    BY <1>1, <1>8, MarkAssumption DEF WriteData, FilesOK, MiscOK
  <1>9. QED
    BY <1>1, <1>2, <1>3, <1>4, <1>5, <1>6, <1>7, <1>8
       DEF Step, Miss, Find, Read, OpenIndex, DumpIndex, disk, MiscOK

\* So do the indexes, and a step of i leaves the other instances' alone.
LEMMA IndexStep ==
  ASSUME TypeOK, OpShape, NEW i \in Instances, Step(i)
  PROVE  IndexOK' /\ DiskOK' /\ \A j \in Instances : j # i => index'[j] = index[j]
  <1> DEFINE Loads(f) == /\ f \in [Keys -> Slots]
                         /\ index' = [index EXCEPT ![i] = f]
  <1>1. /\ IndexOK /\ DiskOK /\ Saved \in [Keys -> Slots] /\ Empty \in [Keys -> Slots]
        /\ None \in Slots
    BY TypeParts, SavedType DEF Empty, Slots
  <1>2. \A f : Loads(f) => IndexOK' /\ \A j \in Instances : j # i => index'[j] = index[j]
    BY <1>1 DEF IndexOK
  <1>3. CASE UNCHANGED <<index, diskIndex>>
    BY <1>1, <1>3 DEF IndexOK, DiskOK
  <1>4. CASE Boot(i)
    <2>1. Loads(Saved) /\ UNCHANGED diskIndex
      BY <1>4, <1>1 DEF Boot, Saved, disk
    <2>2. QED
      BY <2>1, <1>1, <1>2 DEF DiskOK
  <1>5. CASE Crash(i) \/ Clear(i)
    <2>1. Loads(Empty) /\ UNCHANGED diskIndex
      BY <1>5, <1>1 DEF Crash, Clear, disk
    <2>2. QED
      BY <2>1, <1>1, <1>2 DEF DiskOK
  <1>6. ASSUME NEW k \in Keys, Miss(i, k)
        PROVE  IndexOK' /\ DiskOK' /\ \A j \in Instances : j # i => index'[j] = index[j]
    BY <1>6, <1>1 DEF Miss, disk, IndexOK, DiskOK
  <1>7. CASE SetBegin(i)
    BY <1>7, <1>1 DEF SetBegin, Oldest, Indexed, IndexOK, DiskOK
  <1>8. CASE WriteData(i)
    <2> DEFINE e == NewEntry(i)
    <2>1. e \in Slots
      BY MadeEntry DEF Slots
    <2>2. index' = [index EXCEPT ![i][op[i].key] = e] /\ UNCHANGED diskIndex
      BY <1>8 DEF WriteData
    <2> HIDE DEF e
    <2>3. QED
      BY <2>1, <2>2, <1>1 DEF IndexOK, DiskOK
  <1>9. CASE OpenIndex(i)
    BY <1>9, <1>1 DEF OpenIndex, IndexOK, DiskOK
  <1>10. CASE DumpIndex(i)
    BY <1>10, <1>1 DEF DumpIndex, IndexOK, DiskOK
  <1>11. QED
    BY <1>3, <1>4, <1>5, <1>6, <1>7, <1>8, <1>9, <1>10
       DEF Step, Find, Read, OpenData, disk

\* The type invariant, with the shape of the operations, is inductive.
LEMMA TypeStep == TypeOK /\ OpShape /\ [Next]_vars => (TypeOK /\ OpShape)'
  <1> SUFFICES ASSUME TypeOK, OpShape, [Next]_vars PROVE TypeOK' /\ OpShape'
    OBVIOUS
  <1>1. ASSUME NEW i \in Instances, Step(i) PROVE TypeOK' /\ OpShape'
    BY <1>1, OpStep, FilesStep, IndexStep, TypeParts2
  <1>2. CASE Tick
    <2>1. now' \in 0..MaxTime /\ now <= now' /\ UNCHANGED <<disk, index, op, crashes, shared, preClear>>
      BY <1>2, TypeParts, BoundAssumption DEF Tick, MiscOK
    <2>2. TypeOK'
      BY <2>1 DEF TypeOK, disk
    <2>3. \A i \in Instances : op[i].began \in 0..MaxTime
      BY TypeParts DEF OpsOK, Ops
    <2>4. OpShape'
      BY <2>1, <2>3, TypeParts DEF OpShape, At, MiscOK
    <2>5. QED
      BY <2>2, <2>4
  <1>3. CASE UNCHANGED vars
    BY <1>3 DEF vars, disk, TypeOK, OpShape, At
  <1>4. QED
    BY <1>1, <1>2, <1>3 DEF Next

-----------------------------------------------------------------------------
(* CapacityBound *)

Taken(f) == {k \in Keys : f[k] # None}
Size(f) == Cardinality(Taken(f))

\* An index can be counted.
LEMMA SizeType == ASSUME NEW f PROVE IsFiniteSet(Taken(f)) /\ Size(f) \in Nat
  BY FiniteAssumption, FS_Subset, FS_CardinalityType DEF Taken, Size

\* An empty one has no entries.
LEMMA SizeEmpty == Size(Empty) = 0
  <1>1. Taken(Empty) = {}
    BY DEF Taken, Empty
  <1>2. QED
    BY <1>1, FS_EmptySet DEF Size

\* Forgetting a key makes room, if there was an entry for it.
LEMMA SizeForget ==
  ASSUME NEW f \in [Keys -> Slots], NEW k \in Keys
  PROVE  /\ Size([f EXCEPT ![k] = None]) <= Size(f)
         /\ f[k] # None => Size([f EXCEPT ![k] = None]) = Size(f) - 1
  <1>1. Taken([f EXCEPT ![k] = None]) = Taken(f) \ {k}
    BY DEF Taken
  <1>2. f[k] # None <=> k \in Taken(f)
    BY DEF Taken
  <1>3. Cardinality(Taken(f) \ {k}) = IF k \in Taken(f) THEN Size(f) - 1 ELSE Size(f)
    BY SizeType, FS_RemoveElement DEF Size
  <1>4. Size([f EXCEPT ![k] = None]) = IF f[k] # None THEN Size(f) - 1 ELSE Size(f)
    BY <1>1, <1>2, <1>3 DEF Size
  <1>5. Size(f) \in Nat
    BY SizeType
  <1>6. QED
    BY <1>4, <1>5

\* An entry takes the place of the entry there was for its key, or one more.
LEMMA SizeAdd ==
  ASSUME NEW f \in [Keys -> Slots], NEW k \in Keys, NEW e
  PROVE  Size([f EXCEPT ![k] = e]) <= Size(f) + 1
  <1>1. Taken([f EXCEPT ![k] = e]) \subseteq Taken(f) \union {k}
    BY DEF Taken
  <1>2. /\ IsFiniteSet(Taken(f) \union {k})
        /\ Cardinality(Taken(f) \union {k}) <= Size(f) + 1
    BY SizeType, FS_AddElement DEF Size
  <1>3. Size([f EXCEPT ![k] = e]) <= Cardinality(Taken(f) \union {k})
    BY <1>1, <1>2, FS_Subset DEF Size
  <1>4. QED
    BY <1>2, <1>3, SizeType, FS_CardinalityType DEF Size

\* Room in terms of Size, in this state and in the next.
LEMMA RoomParts ==
  Room <=> /\ \A i \in Instances :
                /\ Fits(Size(index[i]))
                /\ op[i].at \in {"open", "write"} => Leaves(Size(index[i]))
           /\ IF Instances = {} THEN diskIndex = None ELSE Fits(Size(Saved))
  BY DEF Room, Size, Taken, Indexed

\* The same of the next state.
LEMMA RoomParts2 ==
  Room' <=> /\ \A i \in Instances :
                /\ Fits(Size(index'[i]))
                /\ op'[i].at \in {"open", "write"} => Leaves(Size(index'[i]))
            /\ IF Instances = {} THEN diskIndex' = None ELSE Fits(Size(Saved'))
  BY DEF Room, Size, Taken, Indexed

\* What fits leaves room when one goes, and what leaves room fits with one more.
LEMMA FitsParts ==
  ASSUME NEW m \in Nat, NEW n \in Nat
  PROVE  /\ m <= n /\ Fits(n) => Fits(m)
         /\ m = n - 1 /\ Fits(n) => Leaves(m)
         /\ m <= n + 1 /\ Leaves(n) => Fits(m)
  BY CapacityAssumption DEF Fits, Leaves

\* `set` evicts before it adds; nothing else makes an index larger.
LEMMA RoomStep ==
  ASSUME TypeOK, OpShape, Room, NEW i \in Instances, Step(i)
  PROVE  Room'
  <1>1. /\ IndexOK /\ DiskOK /\ OpsOK /\ IndexOK' /\ OpsOK'
        /\ \A j \in Instances : j # i => index'[j] = index[j] /\ op'[j] = op[j]
    BY TypeParts, IndexStep, OpStep
  <1>2. index[i] \in [Keys -> Slots] /\ Size(index[i]) \in Nat /\ MaxEntries \in [Instances -> Nat \ {0}]
    BY <1>1, SizeType, CapacityAssumption DEF IndexOK
  <1>3. UNCHANGED diskIndex => Saved' = Saved
    BY DEF Saved, Empty
  <1>0. Fits(0)
    BY <1>2 DEF Fits
  <1>4. SUFFICES /\ Fits(Size(index'[i]))
                 /\ op'[i].at \in {"open", "write"} => Leaves(Size(index'[i]))
                 /\ Fits(Size(Saved'))
    BY <1>1, RoomParts, RoomParts2
  <1> USE RoomParts
  <1>5. CASE Boot(i)
    <2>1. index'[i] = Saved /\ op'[i].at = "idle" /\ UNCHANGED diskIndex
      BY <1>5, <1>1 DEF Boot, Saved, disk, OpsOK, IndexOK, Idle
    <2>2. QED
      BY <2>1, <1>3
  <1>6. CASE Crash(i) \/ Clear(i)
    <2>1. index'[i] = Empty /\ op'[i].at \in {"down", "save"} /\ UNCHANGED diskIndex
      BY <1>6, <1>1 DEF Crash, Clear, disk, OpsOK, IndexOK, Down
    <2>2. QED
      BY <2>1, <1>0, <1>3, SizeEmpty
  <1>7. ASSUME NEW k \in Keys, Miss(i, k)
        PROVE  /\ Fits(Size(index'[i]))
               /\ op'[i].at \in {"open", "write"} => Leaves(Size(index'[i]))
               /\ Fits(Size(Saved'))
    <2>1. /\ index'[i] = [index[i] EXCEPT ![k] = None]
          /\ op'[i].at = "analysing" /\ UNCHANGED diskIndex
      BY <1>7, <1>1 DEF Miss, disk, OpsOK, IndexOK
    <2>2. Size(index'[i]) <= Size(index[i]) /\ Size(index'[i]) \in Nat
      BY <2>1, <1>2, SizeForget, SizeType
    <2>3. QED
      BY <2>1, <2>2, <1>2, <1>3, FitsParts
  <1>8. CASE SetBegin(i)
    <2>1. UNCHANGED diskIndex
      BY <1>8 DEF SetBegin
    <2>2. ASSUME ~Full(i), UNCHANGED index PROVE Leaves(Size(index'[i]))
      <3>1. Size(index[i]) < MaxEntries[i]
        BY <2>2, <1>2 DEF Full, Size, Taken, Indexed
      <3>2. QED
        BY <2>2, <3>1 DEF Leaves
    <2>3. ASSUME NEW old \in Oldest(i), index' = [index EXCEPT ![i][old] = None]
          PROVE  Leaves(Size(index'[i]))
      <3>1. old \in Keys /\ index[i][old] # None
        BY DEF Oldest, Indexed
      <3>2. index'[i] = [index[i] EXCEPT ![old] = None]
        BY <2>3, <1>1 DEF IndexOK
      <3>3. Size(index'[i]) = Size(index[i]) - 1
        BY <3>1, <3>2, <1>2, SizeForget
      <3>4. QED
        BY <3>3, <1>2, FitsParts, SizeType
    <2>4. Leaves(Size(index'[i]))
      <3>1. CASE ~Full(i) /\ UNCHANGED index
        BY <3>1, <2>2
      <3>2. CASE \E old \in Oldest(i) : index' = [index EXCEPT ![i][old] = None]
        BY <3>2, <2>3
      <3>3. QED
        BY <1>8, <3>1, <3>2 DEF SetBegin
    <2>5. Size(index'[i]) \in Nat
      BY SizeType
    <2>6. QED
      BY <2>1, <2>4, <2>5, <1>3, FitsParts
  <1>9. CASE OpenData(i)
    <2>1. op[i].at = "open" /\ UNCHANGED <<index, diskIndex>>
      BY <1>9 DEF OpenData, At
    <2>2. QED
      BY <2>1, <1>2, <1>3
  <1>10. CASE WriteData(i)
    <2> DEFINE e == NewEntry(i)
    <2>1. /\ op[i].at = "write" /\ op'[i].at = "save" /\ UNCHANGED diskIndex
          /\ op[i].key \in Keys
      BY <1>10, <1>1 DEF WriteData, At, OpsOK, OpShape, AfterData
    <2>2. index'[i] = [index[i] EXCEPT ![op[i].key] = e]
      BY <1>10, <1>1 DEF WriteData, IndexOK
    <2>3. Size(index'[i]) <= Size(index[i]) + 1
      BY <2>1, <2>2, <1>2, SizeAdd
    <2>4. Leaves(Size(index[i])) /\ Size(index'[i]) \in Nat
      BY <2>1, SizeType
    <2>5. QED
      BY <2>1, <2>3, <2>4, <1>2, <1>3, FitsParts
  <1>11. CASE OpenIndex(i)
    <2>1. op'[i].at = "dump" /\ UNCHANGED index /\ Saved' = Empty
      BY <1>11, <1>1 DEF OpenIndex, Goto, OpsOK, Ops, Saved, Empty
    <2>2. QED
      BY <2>1, <1>0, SizeEmpty
  <1>12. CASE DumpIndex(i)
    <2>1. op'[i].at = "idle" /\ UNCHANGED index /\ diskIndex' = index[i]
      BY <1>12, <1>1 DEF DumpIndex, OpsOK, Idle
    <2>2. Saved' = index[i]
      BY <2>1, <1>2, ShapeAssumption DEF Saved, Slots
    <2>3. QED
      BY <2>1, <2>2
  <1>13. ASSUME op'[i].at \in {"idle", "raised", "reading"}, UNCHANGED <<index, diskIndex>>
         PROVE  /\ Fits(Size(index'[i]))
                /\ op'[i].at \in {"open", "write"} => Leaves(Size(index'[i]))
                /\ Fits(Size(Saved'))
    BY <1>13, <1>3
  <1>14. ASSUME NEW k \in Keys, Find(i, k)
         PROVE  op'[i].at = "reading" /\ UNCHANGED <<index, diskIndex>>
    BY <1>14, <1>1 DEF Find, OpsOK, disk
  <1>15. ASSUME Read(i)
         PROVE  op'[i].at \in {"idle", "raised"} /\ UNCHANGED <<index, diskIndex>>
    BY <1>15, <1>1 DEF Read, OpsOK, disk, Idle, Raised
  <1>16. QED
    BY <1>5, <1>6, <1>7, <1>8, <1>9, <1>10, <1>11, <1>12, <1>13, <1>14, <1>15 DEF Step

-----------------------------------------------------------------------------
(* NoStaleHit *)

\* Where the contents of files and indexes come from.
LEMMA Moves ==
  ASSUME TypeOK, OpShape, NEW i \in Instances, Step(i), NEW k \in Keys
  PROVE  /\ now' = now
         /\ files'[k] \in {files[k], None, Torn, now}
         /\ Saved'[k] \in {Saved[k], None, index[i][k]}
         /\ \A j \in Instances : \/ index'[j][k] \in {index[j][k], None, Saved[k]}
                                 \/ index'[j][k] = NewEntry(i) /\ files'[k] = now
  <1> DEFINE FromFiles  == files'[k] \in {files[k], None, Torn, now}
             FromDisk   == Saved'[k] \in {Saved[k], None, index[i][k]}
             FromMemory == \A j \in Instances : index'[j][k] \in {index[j][k], None, Saved[k]}
             Written    == \A j \in Instances : \/ index'[j][k] \in {index[j][k], None, Saved[k]}
                                                \/ index'[j][k] = NewEntry(i) /\ files'[k] = now
  <1> SUFFICES now' = now /\ FromFiles /\ FromDisk /\ Written
    OBVIOUS
  <1>0. FromMemory => Written
    OBVIOUS
  <1>1. FilesOK /\ IndexOK /\ DiskOK /\ Saved \in [Keys -> Slots] /\ index[i] \in [Keys -> Slots]
    BY TypeParts, SavedType DEF IndexOK
  <1>2. UNCHANGED diskIndex => FromDisk
    BY DEF Saved, Empty
  <1>3. UNCHANGED files => FromFiles
    OBVIOUS
  <1>4. UNCHANGED index => FromMemory
    OBVIOUS
  <1>5. ASSUME NEW f, index' = [index EXCEPT ![i] = f], f[k] \in {index[i][k], None, Saved[k]}
        PROVE  FromMemory
    BY <1>1, <1>5 DEF IndexOK
  <1>6. ASSUME NEW l \in Keys, index' = [index EXCEPT ![i][l] = None]
        PROVE  FromMemory
    BY <1>1, <1>6 DEF IndexOK
  <1>7. Empty[k] = None
    BY DEF Empty
  <1> HIDE DEF FromFiles, FromDisk, FromMemory, Written
  <1>8. CASE Boot(i)
    <2>1. index' = [index EXCEPT ![i] = Saved] /\ UNCHANGED <<now, files, diskIndex>>
      BY <1>8 DEF Boot, Saved, disk
    <2>2. QED
      BY <2>1, <1>0, <1>2, <1>3, <1>5
  <1>9. CASE Crash(i)
    <2>1. index' = [index EXCEPT ![i] = Empty] /\ UNCHANGED <<now, files, diskIndex>>
      BY <1>9 DEF Crash, disk
    <2>2. QED
      BY <2>1, <1>2, <1>3, <1>0, <1>5, <1>7
  <1>10. CASE Clear(i)
    <2>1. index' = [index EXCEPT ![i] = Empty] /\ UNCHANGED <<now, diskIndex>> /\ FromFiles
      BY <1>10 DEF Clear, FromFiles
    <2>2. QED
      BY <2>1, <1>2, <1>0, <1>5, <1>7
  <1>11. ASSUME NEW l \in Keys, Miss(i, l)
         PROVE  now' = now /\ FromFiles /\ FromDisk /\ FromMemory
    BY <1>11, <1>2, <1>3, <1>6 DEF Miss, disk
  <1>12. CASE SetBegin(i)
    <2>1. UNCHANGED <<now, diskIndex>> /\ FromFiles
      BY <1>12, <1>1 DEF SetBegin, Oldest, Indexed, FilesOK, FromFiles
    <2>2. CASE UNCHANGED index
      BY <2>1, <2>2, <1>0, <1>2, <1>4
    <2>3. ASSUME NEW l \in Keys, index' = [index EXCEPT ![i][l] = None] PROVE FromMemory
      BY <2>3, <1>6
    <2>4. FromMemory
      BY <1>12, <2>2, <2>3, <1>4 DEF SetBegin, Oldest, Indexed
    <2>5. QED
      BY <2>1, <2>4, <1>0, <1>2
  <1>13. CASE OpenData(i)
    <2>1. UNCHANGED <<now, diskIndex, index>> /\ FromFiles
      BY <1>13, <1>1 DEF OpenData, FilesOK, FromFiles
    <2>2. QED
      BY <2>1, <1>0, <1>2, <1>4
  <1>14. CASE WriteData(i)
    <2>1. /\ UNCHANGED <<now, diskIndex>> /\ files' = [files EXCEPT ![op[i].key] = now]
          /\ index' = [index EXCEPT ![i][op[i].key] = NewEntry(i)]
      BY <1>14 DEF WriteData
    <2>2. FromFiles /\ (k = op[i].key => files'[k] = now)
      BY <2>1, <1>1 DEF FilesOK, FromFiles
    <2>3. CASE k = op[i].key
      <3>1. /\ index'[i][k] = NewEntry(i)
            /\ \A j \in Instances : j # i => index'[j][k] = index[j][k]
        BY <2>1, <2>3, <1>1 DEF IndexOK
      <3>2. QED
        BY <3>1, <2>1, <2>2, <2>3, <1>2 DEF Written
    <2>4. CASE k # op[i].key
      <3>1. \A j \in Instances : index'[j][k] = index[j][k]
        BY <2>1, <2>4, <1>1 DEF IndexOK
      <3>2. QED
        BY <3>1, <2>1, <2>2, <1>2 DEF Written
    <2>5. QED
      BY <2>3, <2>4
  <1>15. CASE OpenIndex(i)
    <2>1. Saved' = Empty /\ UNCHANGED <<now, files, index>>
      BY <1>15 DEF OpenIndex, Saved, Empty
    <2>2. QED
      BY <2>1, <1>0, <1>3, <1>4, <1>7 DEF FromDisk
  <1>16. CASE DumpIndex(i)
    <2>1. Saved' = index[i] /\ UNCHANGED <<now, files, index>>
      BY <1>16, <1>1, ShapeAssumption DEF DumpIndex, Saved, Slots
    <2>2. QED
      BY <2>1, <1>0, <1>3, <1>4 DEF FromDisk
  <1>17. CASE Read(i) \/ \E l \in Keys : Find(i, l)
    <2>1. UNCHANGED <<now, files, diskIndex, index>>
      BY <1>17 DEF Read, Find, disk
    <2>2. QED
      BY <2>1, <1>0, <1>2, <1>3, <1>4
  <1>18. QED
    BY <1>0, <1>8, <1>9, <1>10, <1>11, <1>12, <1>13, <1>14, <1>15, <1>16, <1>17 DEF Step

\* An entry that is dated stays so: a file is only ever replaced by a newer one.
LEMMA DatedStep ==
  ASSUME TypeOK, OpShape, NEW i \in Instances, Step(i), NEW k \in Keys,
         NEW e \in Slots, Dated(e, files[k], now)
  PROVE  Dated(e, files'[k], now')
  <1>1. now' = now /\ files'[k] \in {files[k], None, Torn, now}
    BY Moves
  <1>2. now \in Nat /\ (e # None => e.created \in Nat)
    BY TypeParts, BoundAssumption DEF MiscOK, Slots, Entry
  <1>3. QED
    BY <1>1, <1>2 DEF Dated

LEMMA OnlyFindReads ==
  ASSUME TypeOK, NEW i \in Instances, Step(i), ~ \E k \in Keys : Find(i, k)
  PROVE  op'[i].at # "reading"
  BY TypeParts DEF Step, Boot, Crash, Clear, Miss, Read, SetBegin, OpenData, WriteData,
     OpenIndex, DumpIndex, Goto, OpsOK, Ops, Down, Idle, Raised, AfterData

\* Every entry stays dated, so that a hit, which is not expired, is not stale.
LEMMA FreshStep ==
  ASSUME TypeOK, OpShape, Fresh, NEW i \in Instances, Step(i)
  PROVE  Fresh'
  <1>1. now \in Nat /\ now' = now /\ \A k \in Keys : files[k] \in Nat \union {None, Torn}
    <2>1. now' = now
      BY DEF Step, Boot, Crash, Clear, Miss, Find, Read, SetBegin, OpenData, WriteData,
             OpenIndex, DumpIndex
    <2>2. QED
      BY <2>1, TypeParts, BoundAssumption DEF MiscOK, FilesOK
  <1>2. ASSUME NEW j \in Instances
        PROVE  /\ op[j].began \in Nat /\ op[j].began <= now
               /\ At(j, "reading") => op[j].key \in Keys
    BY TypeParts, BoundAssumption DEF OpsOK, Ops, OpShape, At
  <1>3. ASSUME NEW k \in Keys
        PROVE  Saved[k] \in Slots /\ \A j \in Instances : index[j][k] \in Slots
    BY TypeParts, SavedType DEF IndexOK
  <1>4. ASSUME NEW k \in Keys
        PROVE  /\ Dated(None, files'[k], now') /\ Dated(Saved[k], files'[k], now')
               /\ \A j \in Instances : Dated(index[j][k], files'[k], now')
    <2>1. Dated(None, files'[k], now')
      BY DEF Dated
    <2>2. Saved[k] \in Slots /\ Dated(Saved[k], files[k], now)
      BY <1>3 DEF Fresh
    <2>3. ASSUME NEW j \in Instances PROVE Dated(index[j][k], files'[k], now')
      <3>1. index[j][k] \in Slots /\ Dated(index[j][k], files[k], now)
        BY <1>3 DEF Fresh
      <3>2. QED
        BY <3>1, DatedStep
    <2>4. QED
      BY <2>1, <2>2, <2>3, DatedStep
  <1>5. ASSUME NEW k \in Keys PROVE Dated(Saved'[k], files'[k], now')
    BY <1>4, Moves
  <1>6. ASSUME NEW k \in Keys, NEW j \in Instances
        PROVE  Dated(index'[j][k], files'[k], now')
    <2>1. CASE index'[j][k] \in {index[j][k], None, Saved[k]}
      BY <2>1, <1>4
    <2>2. CASE index'[j][k] = NewEntry(i) /\ files'[k] = now
      BY <2>2, <1>1, <1>2 DEF Dated, NewEntry
    <2>3. QED
      BY <2>1, <2>2, Moves
  <1> DEFINE Young(e, t, made) == \E j \in Instances : /\ e.expires = e.created + TTL[j]
                                                     /\ t - made <= TTL[j]
  <1>7. ASSUME NEW j \in Instances, At(j, "reading")', files'[op'[j].key] \notin {None, Torn}
        PROVE  Young(index'[j][op'[j].key], op'[j].began, files'[op'[j].key])
    <2>1. CASE op'[j] = op[j] /\ index'[j] = index[j]
      <3>1. At(j, "reading") /\ op[j].key \in Keys
        BY <1>7, <2>1, <1>2 DEF At
      <3>2. files'[op[j].key] \in {files[op[j].key], now}
        BY <1>7, <2>1, <3>1, Moves
      <3>3. files[op[j].key] \notin {None, Torn}
              => Young(index[j][op[j].key], op[j].began, files[op[j].key])
        BY <3>1 DEF Fresh, NoStaleHit
      <3>4. op[j].began \in Nat /\ op[j].began <= now /\ \A l \in Instances : TTL[l] \in Nat
        BY <1>2, TTLAssumption
      <3>5. CASE files'[op[j].key] = files[op[j].key]
        BY <1>7, <2>1, <3>3, <3>5
      <3>6. CASE files'[op[j].key] = now
        <4> DEFINE e == index[j][op[j].key]
        <4>1. PICK l \in Instances : e.expires = e.created + TTL[l]
          <5>1. e # None
            BY <3>1, <2>1 DEF Fresh, Pointed
          <5>2. QED
            BY <5>1, <3>1 DEF Fresh, Dated
        <4>2. op[j].began - now <= TTL[l]
          BY <3>4, <1>1
        <4>3. QED
          BY <2>1, <3>6, <4>1, <4>2
      <3>7. QED
        BY <3>2, <3>5, <3>6
    <2>2. ASSUME j = i, NEW k \in Keys, Find(i, k)
          PROVE  Young(index'[j][op'[j].key], op'[j].began, files'[op'[j].key])
      <3>1. op'[j].began = now /\ op'[j].key = k /\ files' = files /\ index' = index
        BY <2>2, TypeParts DEF Find, OpsOK, disk
      <3>2. PICK l \in Instances :
            /\ index[i][k] # None /\ now <= index[i][k].expires
            /\ index[i][k].expires = index[i][k].created + TTL[l]
            /\ index[i][k].created <= files[k]
            /\ index[i][k].created \in Nat /\ index[i][k].expires \in Nat
        <4>1. index[i][k] \in Entry /\ index[i][k] # None /\ ~Expired(index[i][k])
          BY <2>2, <1>3 DEF Find, Slots
        <4>2. index[i][k].created \in Nat /\ index[i][k].expires \in Nat
          BY <4>1, BoundAssumption DEF Entry
        <4>3. QED
          BY <4>1, <4>2, <3>1, <1>1, <1>7 DEF Fresh, Dated, Expired
      <3>3. TTL[l] \in Nat /\ files[k] \in Nat
        BY <3>1, <1>1, <1>7, TTLAssumption
      <3>4. now - files[k] <= TTL[l]
        BY <3>2, <3>3, <1>1
      <3>5. QED
        BY <2>2, <3>1, <3>2, <3>4
    <2>3. QED
      <3>1. j # i => op'[j] = op[j] /\ index'[j] = index[j]
        BY OpStep, IndexStep
      <3>2. CASE j = i /\ ~ \E k \in Keys : Find(i, k)
        <4>1. op'[i].at # "reading"
          BY <3>2, OnlyFindReads
        <4>2. QED
          BY <4>1, <3>2, <1>7 DEF At
      <3>3. QED
        BY <3>1, <3>2, <2>1, <2>2
  <1>8. NoStaleHit'
    BY <1>7 DEF NoStaleHit
  <1>9. Pointed'
    <2> SUFFICES ASSUME NEW j \in Instances, At(j, "reading")'
                 PROVE  index'[j][op'[j].key] # None
      BY DEF Pointed
    <2>1. CASE op'[j] = op[j] /\ index'[j] = index[j]
      BY <2>1 DEF Fresh, Pointed, At
    <2>2. ASSUME j = i, NEW k \in Keys, Find(i, k)
          PROVE  index'[j][op'[j].key] # None
      <3>1. op'[i].key = k /\ index' = index /\ index[i][k] # None
        BY <2>2, TypeParts DEF Find, OpsOK
      <3>2. QED
        BY <2>2, <3>1
    <2>3. CASE j = i /\ ~ \E k \in Keys : Find(i, k)
      BY <2>3, OnlyFindReads DEF At
    <2>4. QED
      BY <2>1, <2>2, <2>3, OpStep, IndexStep
  <1>10. QED
    BY <1>5, <1>6, <1>8, <1>9 DEF Fresh

-----------------------------------------------------------------------------
(* DiskCoversMemory, ClearIsFinal, OneCrashNeverPoisons *)

\* What the labels say of an operation.
LEMMA Labelled ==
  ASSUME NEW o, Shaped(o)
  PROVE  /\ o = Down <=> o.at = "down"
         /\ o \in {Idle, Raised} <=> o.at \in {"idle", "raised"}
         /\ o = Raised <=> o.at = "raised"
  BY DEF Shaped, Down, Idle, Raised

\* The same, for an instance.
LEMMA OpFacts ==
  ASSUME TypeOK, OpShape, NEW i \in Instances
  PROVE  /\ Up(i) <=> ~At(i, "down")
         /\ Free(i) <=> op[i].at \in {"idle", "raised"}
         /\ op[i] = Raised <=> At(i, "raised")
         /\ op[i].at \in Setting \union {"reading"} => op[i].key \in Keys
  <1>1. Shaped(op[i])
    BY DEF OpShape, Shaped, At
  <1>2. QED
    BY <1>1, Labelled DEF Up, Free, At, Shaped, Setting

\* With every instance but i down, what is said of all is about i.
LEMMA OnlyOne ==
  ASSUME NEW o, NEW i \in Instances, NEW k,
         \A j \in Instances : j # i => o[j].at = "down"
  PROVE  /\ NoneUp(o) <=> o[i].at = "down"
         /\ Writing(o, k) <=> o[i].at = "write" /\ o[i].key = k
  BY DEF NoneUp, Writing

\* A process that starts knows what the disk knows.
LEMMA BootSolo ==
  ASSUME NEW i \in Instances, NEW k \in Keys, OnDisk(k),
         op[i].at = "down", op'[i] = Idle, index'[i][k] = Saved[k],
         UNCHANGED <<files, Saved, now, crashes, preClear>>,
         \A j \in Instances : j # i => op[j].at = "down" /\ op'[j].at = "down"
  PROVE  OnDisk(k)' /\ InMemory(i, k)'
  <1>1. NoneUp(op) /\ ~Writing(op, k) /\ ~NoneUp(op') /\ ~Writing(op', k)
    BY OnlyOne DEF Idle
  <1>2. op'[i].at = "idle"
    BY DEF Idle
  <1>3. OnDisk(k)'
    BY <1>1 DEF OnDisk
  <1>4. Covered(i, k)' /\ Known(i, k)'
    BY DEF Covered, Known, Live
  <1>5. Cleared(i, k)'
    BY <1>2 DEF Cleared, OnDisk, At
  <1>6. Sound(i, k)' /\ Unharmed(i, k)'
    BY <1>1, <1>2 DEF Sound, Unharmed, OnDisk, Setting, At, Live
  <1>7. QED
    BY <1>3, <1>4, <1>5, <1>6 DEF InMemory

\* A miss forgets an entry that is dead on disk too, or has no file.
LEMMA MissSolo ==
  ASSUME NEW i \in Instances, NEW k \in Keys, OnDisk(k), InMemory(i, k),
         \A j \in Instances : j # i => op[j].at = "down" /\ op'[j].at = "down",
         op[i].at \in {"idle", "raised"},
         NEW l \in Keys, op'[i].at = "analysing", op'[i].key = l,
         index'[i][k] = IF k = l THEN None ELSE index[i][k],
         k = l => ~Live(index[i][k], now) \/ files[k] = None,
         UNCHANGED <<files, Saved, now, crashes, preClear>>
  PROVE  OnDisk(k)' /\ InMemory(i, k)'
  <1>1. /\ ~NoneUp(op) /\ (Writing(op, k) <=> op[i].at = "write" /\ op[i].key = k)
        /\ ~NoneUp(op') /\ (Writing(op', k) <=> op'[i].at = "write" /\ op'[i].key = k)
    <2>1. ~NoneUp(op) /\ (Writing(op, k) <=> op[i].at = "write" /\ op[i].key = k)
      BY OnlyOne
    <2>2. ~NoneUp(op') /\ (Writing(op', k) <=> op'[i].at = "write" /\ op'[i].key = k)
      BY OnlyOne
    <2>3. QED
      BY <2>1, <2>2
  <1>2. Covered(i, k) /\ Known(i, k) /\ Cleared(i, k) /\ Sound(i, k) /\ Unharmed(i, k)
    BY DEF InMemory
  <1>3. ~Live(None, now)
    BY DEF Live
  <1>4. OnDisk(k)'
    BY <1>1, <1>2, <1>3 DEF OnDisk, Covered, Known, Cleared, Sound, Unharmed, Setting, Quiet
  <1>5. Covered(i, k)' /\ Known(i, k)'
    BY <1>1, <1>2, <1>3 DEF OnDisk, Covered, Known, Setting, Quiet
  <1>6. Cleared(i, k)'
    BY <1>1, <1>2, <1>3 DEF OnDisk, Covered, Cleared, At, Setting, Quiet
  <1>7. Sound(i, k)' /\ Unharmed(i, k)'
    BY <1>1, <1>2, <1>3 DEF OnDisk, Covered, Known, Sound, Unharmed, At, Setting, Quiet
  <1>8. QED
    BY <1>4, <1>5, <1>6, <1>7 DEF InMemory

\* A hit is a live entry with its file.
LEMMA FindSolo ==
  ASSUME NEW i \in Instances, NEW k \in Keys, OnDisk(k), InMemory(i, k),
         \A j \in Instances : j # i => op[j].at = "down" /\ op'[j].at = "down",
         op[i].at \in {"idle", "raised"},
         NEW l \in Keys, op'[i].at = "reading", op'[i].key = l,
         k = l => Live(index[i][k], now) /\ files[k] # None,
         UNCHANGED <<files, index, Saved, now, crashes, preClear>>
  PROVE  OnDisk(k)' /\ InMemory(i, k)'
  <1>1. /\ ~NoneUp(op) /\ (Writing(op, k) <=> op[i].at = "write" /\ op[i].key = k)
        /\ ~NoneUp(op') /\ (Writing(op', k) <=> op'[i].at = "write" /\ op'[i].key = k)
    <2>1. ~NoneUp(op) /\ (Writing(op, k) <=> op[i].at = "write" /\ op[i].key = k)
      BY OnlyOne
    <2>2. ~NoneUp(op') /\ (Writing(op', k) <=> op'[i].at = "write" /\ op'[i].key = k)
      BY OnlyOne
    <2>3. QED
      BY <2>1, <2>2
  <1>2. Covered(i, k) /\ Known(i, k) /\ Cleared(i, k) /\ Sound(i, k) /\ Unharmed(i, k)
    BY DEF InMemory
  <1>3. ~Live(None, now)
    BY DEF Live
  <1>4. OnDisk(k)'
    BY <1>1, <1>2, <1>3 DEF OnDisk, Covered, Known, Cleared, Sound, Unharmed, Setting, Quiet
  <1>5. Covered(i, k)' /\ Known(i, k)'
    BY <1>1, <1>2, <1>3 DEF OnDisk, Covered, Known, Setting, Quiet
  <1>6. Cleared(i, k)'
    BY <1>1, <1>2, <1>3 DEF OnDisk, Covered, Cleared, At, Setting, Quiet
  <1>7. Sound(i, k)' /\ Unharmed(i, k)'
    BY <1>1, <1>2, <1>3 DEF OnDisk, Covered, Known, Sound, Unharmed, At, Setting, Quiet
  <1>8. QED
    BY <1>4, <1>5, <1>6, <1>7 DEF InMemory

\* Reading the file changes nothing.
LEMMA ReadSolo ==
  ASSUME NEW i \in Instances, NEW k \in Keys, OnDisk(k), InMemory(i, k),
         \A j \in Instances : j # i => op[j].at = "down" /\ op'[j].at = "down",
         op[i].at = "reading",
         op'[i].at \in {"idle", "raised"},
         UNCHANGED <<files, index, Saved, now, crashes, preClear>>
  PROVE  OnDisk(k)' /\ InMemory(i, k)'
  <1>1. /\ ~NoneUp(op) /\ (Writing(op, k) <=> op[i].at = "write" /\ op[i].key = k)
        /\ ~NoneUp(op') /\ (Writing(op', k) <=> op'[i].at = "write" /\ op'[i].key = k)
    <2>1. ~NoneUp(op) /\ (Writing(op, k) <=> op[i].at = "write" /\ op[i].key = k)
      BY OnlyOne
    <2>2. ~NoneUp(op') /\ (Writing(op', k) <=> op'[i].at = "write" /\ op'[i].key = k)
      BY OnlyOne
    <2>3. QED
      BY <2>1, <2>2
  <1>2. Covered(i, k) /\ Known(i, k) /\ Cleared(i, k) /\ Sound(i, k) /\ Unharmed(i, k)
    BY DEF InMemory
  <1>3. ~Live(None, now)
    BY DEF Live
  <1>4. OnDisk(k)'
    BY <1>1, <1>2, <1>3 DEF OnDisk, Covered, Known, Cleared, Sound, Unharmed, Setting, Quiet
  <1>5. Covered(i, k)' /\ Known(i, k)'
    BY <1>1, <1>2, <1>3 DEF OnDisk, Covered, Known, Setting, Quiet
  <1>6. Cleared(i, k)'
    BY <1>1, <1>2, <1>3 DEF OnDisk, Covered, Cleared, At, Setting, Quiet
  <1>7. Sound(i, k)' /\ Unharmed(i, k)'
    BY <1>1, <1>2, <1>3 DEF OnDisk, Covered, Known, Sound, Unharmed, At, Setting, Quiet
  <1>8. QED
    BY <1>4, <1>5, <1>6, <1>7 DEF InMemory

\* An eviction takes the entry in memory and its file, not the entry on disk.
LEMMA SetBeginSolo ==
  ASSUME NEW i \in Instances, NEW k \in Keys, OnDisk(k), InMemory(i, k),
         \A j \in Instances : j # i => op[j].at = "down" /\ op'[j].at = "down",
         op[i].at = "analysing",
         op'[i].at = "open", op'[i].key = op[i].key,
         \/ files'[k] = files[k] /\ index'[i][k] = index[i][k] /\ (k \in preClear' <=> k \in preClear)
         \/ files'[k] = None /\ index'[i][k] = None /\ k \notin preClear',
         None # Torn,
         UNCHANGED <<Saved, now, crashes>>
  PROVE  OnDisk(k)' /\ InMemory(i, k)'
  <1>1. /\ ~NoneUp(op) /\ (Writing(op, k) <=> op[i].at = "write" /\ op[i].key = k)
        /\ ~NoneUp(op') /\ (Writing(op', k) <=> op'[i].at = "write" /\ op'[i].key = k)
    <2>1. ~NoneUp(op) /\ (Writing(op, k) <=> op[i].at = "write" /\ op[i].key = k)
      BY OnlyOne
    <2>2. ~NoneUp(op') /\ (Writing(op', k) <=> op'[i].at = "write" /\ op'[i].key = k)
      BY OnlyOne
    <2>3. QED
      BY <2>1, <2>2
  <1>2. Covered(i, k) /\ Known(i, k) /\ Cleared(i, k) /\ Sound(i, k) /\ Unharmed(i, k)
    BY DEF InMemory
  <1>3. ~Live(None, now)
    BY DEF Live
  <1>4. OnDisk(k)'
    BY <1>1, <1>2, <1>3 DEF OnDisk, Covered, Known, Cleared, Sound, Unharmed, Setting, Quiet
  <1>5. Covered(i, k)' /\ Known(i, k)'
    BY <1>1, <1>2, <1>3 DEF OnDisk, Covered, Known, Setting, Quiet
  <1>6. Cleared(i, k)'
    BY <1>1, <1>2, <1>3 DEF OnDisk, Covered, Cleared, At, Setting, Quiet
  <1>7. Sound(i, k)' /\ Unharmed(i, k)'
    BY <1>1, <1>2, <1>3 DEF OnDisk, Covered, Known, Sound, Unharmed, At, Setting, Quiet
  <1>8. QED
    BY <1>4, <1>5, <1>6, <1>7 DEF InMemory

\* The file torn by a set has no live entry, in memory or on a disk that saw no crash.
LEMMA OpenDataSolo ==
  ASSUME NEW i \in Instances, NEW k \in Keys, OnDisk(k), InMemory(i, k),
         \A j \in Instances : j # i => op[j].at = "down" /\ op'[j].at = "down",
         op[i].at = "open",
         op'[i].at = "write", op'[i].key = op[i].key,
         files'[k] = IF k = op[i].key THEN Torn ELSE files[k],
         k \in preClear' <=> k \in preClear /\ k # op[i].key,
         crashes \in Nat, None # Torn,
         UNCHANGED <<index, Saved, now, crashes>>
  PROVE  OnDisk(k)' /\ InMemory(i, k)'
  <1>1. /\ ~NoneUp(op) /\ (Writing(op, k) <=> op[i].at = "write" /\ op[i].key = k)
        /\ ~NoneUp(op') /\ (Writing(op', k) <=> op'[i].at = "write" /\ op'[i].key = k)
    <2>1. ~NoneUp(op) /\ (Writing(op, k) <=> op[i].at = "write" /\ op[i].key = k)
      BY OnlyOne
    <2>2. ~NoneUp(op') /\ (Writing(op', k) <=> op'[i].at = "write" /\ op'[i].key = k)
      BY OnlyOne
    <2>3. QED
      BY <2>1, <2>2
  <1>2. Covered(i, k) /\ Known(i, k) /\ Cleared(i, k) /\ Sound(i, k) /\ Unharmed(i, k)
    BY DEF InMemory
  <1>3. ~Live(None, now)
    BY DEF Live
  <1>4. OnDisk(k)'
    BY <1>1, <1>2, <1>3 DEF OnDisk, Covered, Known, Cleared, Sound, Unharmed, Setting, Quiet
  <1>5. Covered(i, k)' /\ Known(i, k)'
    BY <1>1, <1>2, <1>3 DEF OnDisk, Covered, Known, Setting, Quiet
  <1>6. Cleared(i, k)'
    BY <1>1, <1>2, <1>3 DEF OnDisk, Covered, Cleared, At, Setting, Quiet
  <1>7. Sound(i, k)' /\ Unharmed(i, k)'
    BY <1>1, <1>2, <1>3 DEF OnDisk, Covered, Known, Sound, Unharmed, At, Setting, Quiet
  <1>8. QED
    BY <1>4, <1>5, <1>6, <1>7 DEF InMemory

\* The file is whole before an entry leads to it.
LEMMA WriteDataSolo ==
  ASSUME NEW i \in Instances, NEW k \in Keys, OnDisk(k), InMemory(i, k),
         \A j \in Instances : j # i => op[j].at = "down" /\ op'[j].at = "down",
         op[i].at = "write",
         op'[i].at = "save",
         files'[k] = IF k = op[i].key THEN now ELSE files[k],
         index'[i][k] = IF k = op[i].key THEN NewEntry(i) ELSE index[i][k],
         k \in preClear' <=> k \in preClear /\ k # op[i].key,
         now \notin {None, Torn},
         UNCHANGED <<Saved, now, crashes>>
  PROVE  OnDisk(k)' /\ InMemory(i, k)'
  <1>1. /\ ~NoneUp(op) /\ (Writing(op, k) <=> op[i].at = "write" /\ op[i].key = k)
        /\ ~NoneUp(op') /\ (Writing(op', k) <=> op'[i].at = "write" /\ op'[i].key = k)
    <2>1. ~NoneUp(op) /\ (Writing(op, k) <=> op[i].at = "write" /\ op[i].key = k)
      BY OnlyOne
    <2>2. ~NoneUp(op') /\ (Writing(op', k) <=> op'[i].at = "write" /\ op'[i].key = k)
      BY OnlyOne
    <2>3. QED
      BY <2>1, <2>2
  <1>2. Covered(i, k) /\ Known(i, k) /\ Cleared(i, k) /\ Sound(i, k) /\ Unharmed(i, k)
    BY DEF InMemory
  <1>3. ~Live(None, now)
    BY DEF Live
  <1>4. OnDisk(k)'
    BY <1>1, <1>2, <1>3 DEF OnDisk, Covered, Known, Cleared, Sound, Unharmed, Setting, Quiet
  <1>5. Covered(i, k)' /\ Known(i, k)'
    BY <1>1, <1>2, <1>3 DEF OnDisk, Covered, Known, Setting, Quiet
  <1>6. Cleared(i, k)'
    BY <1>1, <1>2, <1>3 DEF OnDisk, Covered, Cleared, At, Setting, Quiet
  <1>7. Sound(i, k)' /\ Unharmed(i, k)'
    BY <1>1, <1>2, <1>3 DEF OnDisk, Covered, Known, Sound, Unharmed, At, Setting, Quiet
  <1>8. QED
    BY <1>4, <1>5, <1>6, <1>7 DEF InMemory

\* A torn index names nothing.
LEMMA OpenIndexSolo ==
  ASSUME NEW i \in Instances, NEW k \in Keys, OnDisk(k), InMemory(i, k),
         \A j \in Instances : j # i => op[j].at = "down" /\ op'[j].at = "down",
         op[i].at = "save",
         op'[i].at = "dump", Saved'[k] = None,
         UNCHANGED <<files, index, now, crashes, preClear>>
  PROVE  OnDisk(k)' /\ InMemory(i, k)'
  <1>1. /\ ~NoneUp(op) /\ (Writing(op, k) <=> op[i].at = "write" /\ op[i].key = k)
        /\ ~NoneUp(op') /\ (Writing(op', k) <=> op'[i].at = "write" /\ op'[i].key = k)
    <2>1. ~NoneUp(op) /\ (Writing(op, k) <=> op[i].at = "write" /\ op[i].key = k)
      BY OnlyOne
    <2>2. ~NoneUp(op') /\ (Writing(op', k) <=> op'[i].at = "write" /\ op'[i].key = k)
      BY OnlyOne
    <2>3. QED
      BY <2>1, <2>2
  <1>2. Covered(i, k) /\ Known(i, k) /\ Cleared(i, k) /\ Sound(i, k) /\ Unharmed(i, k)
    BY DEF InMemory
  <1>3. ~Live(None, now)
    BY DEF Live
  <1>4. OnDisk(k)'
    BY <1>1, <1>2, <1>3 DEF OnDisk, Covered, Known, Cleared, Sound, Unharmed, Setting, Quiet
  <1>5. Covered(i, k)' /\ Known(i, k)'
    BY <1>1, <1>2, <1>3 DEF OnDisk, Covered, Known, Setting, Quiet
  <1>6. Cleared(i, k)'
    BY <1>1, <1>2, <1>3 DEF OnDisk, Covered, Cleared, At, Setting, Quiet
  <1>7. Sound(i, k)' /\ Unharmed(i, k)'
    BY <1>1, <1>2, <1>3 DEF OnDisk, Covered, Known, Sound, Unharmed, At, Setting, Quiet
  <1>8. QED
    BY <1>4, <1>5, <1>6, <1>7 DEF InMemory

\* A saved index is the one in memory.
LEMMA DumpIndexSolo ==
  ASSUME NEW i \in Instances, NEW k \in Keys, OnDisk(k), InMemory(i, k),
         \A j \in Instances : j # i => op[j].at = "down" /\ op'[j].at = "down",
         op[i].at = "dump",
         op'[i].at = "idle", Saved'[k] = index[i][k],
         UNCHANGED <<files, index, now, crashes, preClear>>
  PROVE  OnDisk(k)' /\ InMemory(i, k)'
  <1>1. /\ ~NoneUp(op) /\ (Writing(op, k) <=> op[i].at = "write" /\ op[i].key = k)
        /\ ~NoneUp(op') /\ (Writing(op', k) <=> op'[i].at = "write" /\ op'[i].key = k)
    <2>1. ~NoneUp(op) /\ (Writing(op, k) <=> op[i].at = "write" /\ op[i].key = k)
      BY OnlyOne
    <2>2. ~NoneUp(op') /\ (Writing(op', k) <=> op'[i].at = "write" /\ op'[i].key = k)
      BY OnlyOne
    <2>3. QED
      BY <2>1, <2>2
  <1>2. Covered(i, k) /\ Known(i, k) /\ Cleared(i, k) /\ Sound(i, k) /\ Unharmed(i, k)
    BY DEF InMemory
  <1>3. ~Live(None, now)
    BY DEF Live
  <1>4. OnDisk(k)'
    BY <1>1, <1>2, <1>3 DEF OnDisk, Covered, Known, Cleared, Sound, Unharmed, Setting, Quiet
  <1>5. Covered(i, k)' /\ Known(i, k)'
    BY <1>1, <1>2, <1>3 DEF OnDisk, Covered, Known, Setting, Quiet
  <1>6. Cleared(i, k)'
    BY <1>1, <1>2, <1>3 DEF OnDisk, Covered, Cleared, At, Setting, Quiet
  <1>7. Sound(i, k)' /\ Unharmed(i, k)'
    BY <1>1, <1>2, <1>3 DEF OnDisk, Covered, Known, Sound, Unharmed, At, Setting, Quiet
  <1>8. QED
    BY <1>4, <1>5, <1>6, <1>7 DEF InMemory

\* A file that a clear overlooks has no live entry on disk either.
LEMMA ClearSolo ==
  ASSUME NEW i \in Instances, NEW k \in Keys, OnDisk(k), InMemory(i, k),
         \A j \in Instances : j # i => op[j].at = "down" /\ op'[j].at = "down",
         op[i].at \in {"idle", "raised"},
         op'[i].at = "save", index'[i][k] = None,
         files'[k] = IF index[i][k] # None THEN None ELSE files[k],
         k \in preClear' <=> files'[k] # None,
         None # Torn,
         UNCHANGED <<Saved, now, crashes>>
  PROVE  OnDisk(k)' /\ InMemory(i, k)'
  <1>1. /\ ~NoneUp(op) /\ (Writing(op, k) <=> op[i].at = "write" /\ op[i].key = k)
        /\ ~NoneUp(op') /\ (Writing(op', k) <=> op'[i].at = "write" /\ op'[i].key = k)
    <2>1. ~NoneUp(op) /\ (Writing(op, k) <=> op[i].at = "write" /\ op[i].key = k)
      BY OnlyOne
    <2>2. ~NoneUp(op') /\ (Writing(op', k) <=> op'[i].at = "write" /\ op'[i].key = k)
      BY OnlyOne
    <2>3. QED
      BY <2>1, <2>2
  <1>2. Covered(i, k) /\ Known(i, k) /\ Cleared(i, k) /\ Sound(i, k) /\ Unharmed(i, k)
    BY DEF InMemory
  <1>3. ~Live(None, now)
    BY DEF Live
  <1>4. OnDisk(k)'
    BY <1>1, <1>2, <1>3 DEF OnDisk, Covered, Known, Cleared, Sound, Unharmed, Setting, Quiet
  <1>5. Covered(i, k)' /\ Known(i, k)'
    BY <1>1, <1>2, <1>3 DEF OnDisk, Covered, Known, Setting, Quiet
  <1>6. Cleared(i, k)'
    BY <1>1, <1>2, <1>3 DEF OnDisk, Covered, Cleared, At, Setting, Quiet
  <1>7. Sound(i, k)' /\ Unharmed(i, k)'
    BY <1>1, <1>2, <1>3 DEF OnDisk, Covered, Known, Sound, Unharmed, At, Setting, Quiet
  <1>8. QED
    BY <1>4, <1>5, <1>6, <1>7 DEF InMemory

\* A crash leaves the disk as it was: at most the file being written is torn.
LEMMA CrashSolo ==
  ASSUME NEW i \in Instances, NEW k \in Keys, OnDisk(k), op[i].at # "down",
         \A j \in Instances : j # i => op[j].at = "down", crashes \in Nat,
         crashes' = crashes + 1, UNCHANGED <<files, Saved, now, preClear>>
  PROVE  OnDisk(k)'
  BY OnlyOne DEF OnDisk

\* Time only kills entries.
LEMMA TickSolo ==
  ASSUME NEW k \in Keys, OnDisk(k),
         Live(Saved[k], now') => Live(Saved[k], now),
         UNCHANGED <<files, Saved, op, crashes, preClear>>
  PROVE  /\ OnDisk(k)'
         /\ \A i \in Instances :
              /\ InMemory(i, k) /\ UNCHANGED index
              /\ Live(index[i][k], now') => Live(index[i][k], now)
              => InMemory(i, k)'
  <1>1. OnDisk(k)'
    BY DEF OnDisk
  <1>2. ASSUME NEW i \in Instances, InMemory(i, k), UNCHANGED index,
               Live(index[i][k], now') => Live(index[i][k], now)
        PROVE  InMemory(i, k)'
    <2>1. Covered(i, k)' /\ Known(i, k)' /\ Cleared(i, k)'
      BY <1>2 DEF InMemory, Covered, Known, Cleared, At
    <2>2. Sound(i, k)' /\ Unharmed(i, k)'
      BY <1>2 DEF InMemory, Sound, Unharmed, At
    <2>3. QED
      BY <2>1, <2>2 DEF InMemory
  <1>3. QED
    BY <1>1, <1>2

\* A step of an instance that was always alone leaves it alone.
LEMMA AloneStep ==
  ASSUME TypeOK, OpShape, Alone, NEW i \in Instances, Step(i), ~shared'
  PROVE  /\ ~shared
         /\ op[i].at = "down" <=> Boot(i)
         /\ \A j \in Instances : j # i => op[j].at = "down" /\ op'[j].at = "down"
         /\ Alone'
  <1>1. \A j \in Instances : (Up(j) <=> ~At(j, "down")) /\ (j # i => op'[j] = op[j])
    BY OpFacts, OpStep
  <1>2. ~Boot(i) => op[i].at # "down" /\ shared' = shared
    <2>1. CASE Crash(i)
      BY <2>1, <1>1 DEF Crash, At
    <2>2. CASE Clear(i) \/ \E k \in Keys : Miss(i, k) \/ Find(i, k)
      <3>1. Free(i) /\ shared' = shared
        BY <2>2 DEF Clear, Miss, Find
      <3>2. QED
        BY <3>1, OpFacts
    <2>3. CASE Read(i) \/ SetBegin(i) \/ OpenData(i)
      BY <2>3 DEF Read, SetBegin, OpenData, At
    <2>4. CASE WriteData(i) \/ OpenIndex(i) \/ DumpIndex(i)
      BY <2>4 DEF WriteData, OpenIndex, DumpIndex, At
    <2>5. QED
      BY <2>1, <2>2, <2>3, <2>4 DEF Step
  <1>3. Boot(i) => ~Up(i) /\ ~shared /\ \A j \in Instances : ~Up(j)
    BY DEF Boot
  <1>4. \A j \in Instances : j # i => op[j].at = "down"
    BY <1>1, <1>2, <1>3 DEF Alone, At
  <1>5. \A j \in Instances : j # i => op'[j].at = "down" /\ ~Up(j)'
    BY <1>1, <1>4 DEF Up, At
  <1>6. Alone'
    BY <1>5 DEF Alone
  <1>7. QED
    BY <1>1, <1>2, <1>3, <1>4, <1>5, <1>6 DEF At

\* What disk, memory and file of a key may disagree about is kept by each step.
LEMMA SoloStep ==
  ASSUME TypeOK, OpShape, Alone, Solo, NEW i \in Instances, Step(i), ~shared'
  PROVE  Solo'
  <1>1. /\ ~shared /\ (op[i].at = "down" <=> Boot(i))
        /\ \A j \in Instances : j # i => op[j].at = "down" /\ op'[j].at = "down"
    BY AloneStep
  <1>2. /\ FilesOK /\ IndexOK /\ OpsOK /\ IndexOK' /\ OpsOK'
        /\ crashes \in Nat /\ now \notin {None, Torn} /\ None # Torn
    BY TypeParts, OpStep, IndexStep, MarkAssumption, BoundAssumption DEF MiscOK
  <1>3. (Free(i) <=> op[i].at \in {"idle", "raised"}) /\ (op[i].at \in Setting \union {"reading"} => op[i].key \in Keys)
    BY OpFacts
  <1>4. /\ \A k \in Keys : OnDisk(k)
        /\ crashes <= 1 => op[i].at # "raised"
        /\ op[i].at # "down" => \A k \in Keys : InMemory(i, k)
    BY <1>1 DEF Solo, At
  <1> DEFINE Kept(k) == OnDisk(k)' /\ (op'[i].at # "down" => InMemory(i, k)')
  <1>5. SUFFICES (crashes' <= 1 => op'[i].at # "raised") /\ \A k \in Keys : Kept(k)
    BY <1>1 DEF Solo, At
  <1>6. UNCHANGED diskIndex => UNCHANGED Saved
    BY DEF Saved, Empty
  <1>7. CASE Boot(i)
    <2>1. /\ op'[i] = Idle /\ index'[i] = Saved
          /\ UNCHANGED <<files, diskIndex, now, crashes, preClear>>
      BY <1>7, <1>2 DEF Boot, Saved, disk, IndexOK, OpsOK
    <2>2. ASSUME NEW k \in Keys PROVE Kept(k)
      BY <1>7, <1>1, <1>4, <1>6, <2>1, BootSolo
    <2>3. QED
      BY <2>1, <2>2 DEF Idle
  <1>8. CASE Crash(i)
    <2>1. /\ op'[i].at = "down" /\ crashes' = crashes + 1
          /\ UNCHANGED <<files, diskIndex, now, preClear>>
      BY <1>8, <1>2 DEF Crash, disk, OpsOK, Down
    <2>2. op[i].at # "down"
      BY <1>8, OpFacts DEF Crash, At
    <2>3. ASSUME NEW k \in Keys PROVE Kept(k)
      BY <1>1, <1>2, <1>4, <1>6, <2>1, <2>2, CrashSolo
    <2>4. QED
      BY <2>1, <2>3
  <1>9. CASE Clear(i)
    <2>1. /\ op'[i].at = "save" /\ op[i].at \in {"idle", "raised"}
          /\ UNCHANGED <<diskIndex, now, crashes>>
      BY <1>9, <1>2, <1>3 DEF Clear, OpsOK
    <2>2. ASSUME NEW k \in Keys
          PROVE  /\ index'[i][k] = None
                 /\ files'[k] = IF index[i][k] # None THEN None ELSE files[k]
                 /\ k \in preClear' <=> files'[k] # None
      BY <1>9, <1>2 DEF Clear, IndexOK, Empty, Indexed
    <2>3. ASSUME NEW k \in Keys PROVE Kept(k)
      BY <1>1, <1>2, <1>4, <1>6, <2>1, <2>2, ClearSolo
    <2>4. QED
      BY <2>1, <2>3
  <1>10. ASSUME NEW l \in Keys, Miss(i, l)
         PROVE  (crashes' <= 1 => op'[i].at # "raised") /\ \A k \in Keys : Kept(k)
    <2>1. /\ op'[i].at = "analysing" /\ op'[i].key = l /\ op[i].at \in {"idle", "raised"}
          /\ UNCHANGED <<files, diskIndex, now, crashes, preClear>>
      BY <1>10, <1>2, <1>3 DEF Miss, OpsOK, disk
    <2>2. ASSUME NEW k \in Keys
          PROVE  /\ index'[i][k] = IF k = l THEN None ELSE index[i][k]
                 /\ k = l => ~Live(index[i][k], now) \/ files[k] = None
      BY <1>10, <1>2 DEF Miss, IndexOK, Live, Expired
    <2>3. ASSUME NEW k \in Keys PROVE Kept(k)
      BY <1>1, <1>4, <1>6, <2>1, <2>2, MissSolo
    <2>4. QED
      BY <2>1, <2>3
  <1>11. ASSUME NEW l \in Keys, Find(i, l)
         PROVE  (crashes' <= 1 => op'[i].at # "raised") /\ \A k \in Keys : Kept(k)
    <2>1. /\ op'[i].at = "reading" /\ op'[i].key = l /\ op[i].at \in {"idle", "raised"}
          /\ UNCHANGED <<files, diskIndex, index, now, crashes, preClear>>
          /\ Live(index[i][l], now) /\ files[l] # None
      BY <1>11, <1>2, <1>3 DEF Find, OpsOK, disk, Live, Expired
    <2>2. ASSUME NEW k \in Keys PROVE Kept(k)
      BY <1>1, <1>4, <1>6, <2>1, FindSolo
    <2>3. QED
      BY <2>1, <2>2
  <1>12. CASE Read(i)
    <2>1. /\ op'[i].at \in {"idle", "raised"} /\ op[i].at = "reading"
          /\ op'[i].at = "raised" => files[op[i].key] \in {None, Torn}
          /\ UNCHANGED <<files, diskIndex, index, now, crashes, preClear>>
      BY <1>12, <1>2 DEF Read, OpsOK, disk, At, Idle, Raised
    <2>2. ASSUME NEW k \in Keys PROVE Kept(k)
      BY <1>1, <1>4, <1>6, <2>1, ReadSolo
    <2>3. crashes <= 1 => files[op[i].key] \notin {None, Torn}
      BY <2>1, <1>3, <1>4 DEF InMemory, Sound, At
    <2>4. QED
      BY <2>1, <2>2, <2>3
  <1>13. CASE SetBegin(i)
    <2>1. /\ op'[i].at = "open" /\ op'[i].key = op[i].key /\ op[i].at = "analysing"
          /\ UNCHANGED <<diskIndex, now, crashes>>
      BY <1>13, <1>2 DEF SetBegin, OpsOK, Ops, At
    <2>2. ASSUME NEW k \in Keys
          PROVE  \/ /\ files'[k] = files[k] /\ index'[i][k] = index[i][k]
                    /\ k \in preClear' <=> k \in preClear
                 \/ files'[k] = None /\ index'[i][k] = None /\ k \notin preClear'
      <3>1. ASSUME NEW old \in Keys, files' = [files EXCEPT ![old] = None],
                   index' = [index EXCEPT ![i][old] = None], preClear' = preClear \ {old}
            PROVE  \/ /\ files'[k] = files[k] /\ index'[i][k] = index[i][k]
                      /\ k \in preClear' <=> k \in preClear
                   \/ files'[k] = None /\ index'[i][k] = None /\ k \notin preClear'
        BY <3>1, <1>2 DEF FilesOK, IndexOK
      <3>2. QED
        BY <1>13, <3>1 DEF SetBegin, Oldest, Indexed
    <2>3. ASSUME NEW k \in Keys PROVE Kept(k)
      BY <1>1, <1>2, <1>4, <1>6, <2>1, <2>2, SetBeginSolo
    <2>4. QED
      BY <2>1, <2>3
  <1>14. CASE OpenData(i)
    <2>1. /\ op'[i].at = "write" /\ op'[i].key = op[i].key /\ op[i].at = "open"
          /\ UNCHANGED <<diskIndex, index, now, crashes>>
      BY <1>14, <1>2 DEF OpenData, Goto, OpsOK, Ops, At
    <2>2. ASSUME NEW k \in Keys
          PROVE  /\ files'[k] = IF k = op[i].key THEN Torn ELSE files[k]
                 /\ k \in preClear' <=> k \in preClear /\ k # op[i].key
      BY <1>14, <1>2 DEF OpenData, FilesOK
    <2>3. ASSUME NEW k \in Keys PROVE Kept(k)
      BY <1>1, <1>2, <1>4, <1>6, <2>1, <2>2, OpenDataSolo
    <2>4. QED
      BY <2>1, <2>3
  <1>15. CASE WriteData(i)
    <2>1. /\ op'[i].at = "save" /\ op[i].at = "write"
          /\ UNCHANGED <<diskIndex, now, crashes>>
      BY <1>15, <1>2 DEF WriteData, OpsOK, AfterData, At
    <2>2. ASSUME NEW k \in Keys
          PROVE  /\ files'[k] = IF k = op[i].key THEN now ELSE files[k]
                 /\ index'[i][k] = IF k = op[i].key THEN NewEntry(i) ELSE index[i][k]
                 /\ k \in preClear' <=> k \in preClear /\ k # op[i].key
      <3>1. index' = [index EXCEPT ![i][op[i].key] = NewEntry(i)]
        BY <1>15 DEF WriteData
      <3>2. index'[i][k] = IF k = op[i].key THEN NewEntry(i) ELSE index[i][k]
        BY <3>1, <1>2 DEF IndexOK
      <3>3. QED
        BY <3>2, <1>15, <1>2 DEF WriteData, FilesOK
    <2>3. ASSUME NEW k \in Keys PROVE Kept(k)
      BY <1>1, <1>2, <1>4, <1>6, <2>1, <2>2, WriteDataSolo
    <2>4. QED
      BY <2>1, <2>3
  <1>16. CASE OpenIndex(i)
    <2>1. /\ op'[i].at = "dump" /\ op[i].at = "save" /\ Saved' = Empty
          /\ UNCHANGED <<files, index, now, crashes, preClear>>
      BY <1>16, <1>2 DEF OpenIndex, Goto, OpsOK, Ops, At, Saved, Empty
    <2>2. ASSUME NEW k \in Keys PROVE Kept(k)
      <3>1. Saved'[k] = None
        BY <2>1 DEF Empty
      <3>2. QED
        BY <3>1, <1>1, <1>4, <2>1, OpenIndexSolo
    <2>3. QED
      BY <2>1, <2>2
  <1>17. CASE DumpIndex(i)
    <2>1. /\ op'[i].at = "idle" /\ op[i].at = "dump"
          /\ UNCHANGED <<files, index, now, crashes, preClear>>
      BY <1>17, <1>2 DEF DumpIndex, OpsOK, At, Idle
    <2>2. Saved' = index[i]
      BY <1>17, <1>2, ShapeAssumption DEF DumpIndex, Saved, Slots, IndexOK
    <2>3. ASSUME NEW k \in Keys PROVE Kept(k)
      BY <1>1, <1>4, <2>1, <2>2, DumpIndexSolo
    <2>4. QED
      BY <2>1, <2>3
  <1>18. QED
    BY <1>7, <1>8, <1>9, <1>10, <1>11, <1>12, <1>13, <1>14, <1>15, <1>16, <1>17 DEF Step

-----------------------------------------------------------------------------
(* The inductive invariant *)

\* An empty directory and no process.
LEMMA InitIInv == Init => IInv
  <1> SUFFICES ASSUME Init PROVE IInv
    OBVIOUS
  <1>1. TypeOK
    <2>1. Down \in Ops
      BY BoundAssumption DEF Down, Ops, Labels
    <2>2. Empty \in [Keys -> Slots]
      BY DEF Empty, Slots
    <2>3. FilesOK
      BY DEF Init, Empty, FilesOK
    <2>4. DiskOK
      BY DEF Init, DiskOK
    <2>5. now \in 0..MaxTime /\ crashes \in 0..MaxCrashes
      BY BoundAssumption DEF Init
    <2>6. shared \in BOOLEAN /\ preClear \subseteq Keys
      BY DEF Init
    <2>7. IndexOK /\ OpsOK
      BY <2>1, <2>2 DEF Init, IndexOK, OpsOK
    <2>8. QED
      BY <2>3, <2>4, <2>5, <2>6, <2>7, TypeParts DEF MiscOK
  <1>2. OpShape
    BY DEF Init, OpShape, Down, At
  <1>3. Saved = Empty /\ \A i \in Instances : index[i] = Empty /\ op[i] = Down
    BY DEF Init, Saved
  <1>4. Room
    BY <1>3, SizeEmpty, CapacityAssumption, RoomParts DEF Down, Fits, Init
  <1>5. Fresh
    <2>1. \A k \in Keys : Empty[k] = None
      BY DEF Empty
    <2>2. NoStaleHit /\ Pointed
      BY <1>3 DEF NoStaleHit, Pointed, At, Down
    <2>3. QED
      BY <1>3, <2>1, <2>2 DEF Fresh, Dated
  <1>6. Alone
    BY <1>3 DEF Alone, Up
  <1>7. Solo
    <2>1. \A k \in Keys : Saved[k] = None /\ k \notin preClear
      BY <1>3 DEF Empty, Init
    <2>2. \A k \in Keys : OnDisk(k)
      BY <2>1 DEF OnDisk, Live
    <2>3. QED
      BY <1>3, <2>2 DEF Solo, At, Down
  <1>8. QED
    BY <1>1, <1>2, <1>4, <1>5, <1>6, <1>7 DEF IInv

\* The clock moves away from every stamp.
LEMMA TickIInv == IInv /\ Tick => (Room /\ Fresh /\ Alone /\ Solo)'
  <1> SUFFICES ASSUME IInv, Tick PROVE (Room /\ Fresh /\ Alone /\ Solo)'
    OBVIOUS
  <1>1. /\ TypeOK /\ OpShape /\ Room /\ Fresh /\ Alone /\ Solo
        /\ UNCHANGED <<files, diskIndex, index, op, crashes, shared, preClear, Saved>>
        /\ now \in Nat /\ now' \in Nat /\ now < now'
    BY TypeParts, BoundAssumption DEF IInv, Tick, disk, Saved, Empty, MiscOK
  <1>2. ASSUME NEW k \in Keys
        PROVE  Saved[k] \in Slots /\ \A i \in Instances : index[i][k] \in Slots
    BY <1>1, TypeParts, SavedType DEF IndexOK
  <1>3. Room'
    BY <1>1, RoomParts, RoomParts2
  <1>4. Fresh'
    <2>1. ASSUME NEW k \in Keys, NEW e \in Slots, Dated(e, files[k], now)
          PROVE  Dated(e, files'[k], now')
      <3>1. e # None => e.created \in Nat
        BY BoundAssumption DEF Slots, Entry
      <3>2. QED
        BY <1>1, <2>1, <3>1 DEF Dated
    <2>2. ASSUME NEW k \in Keys
          PROVE  /\ Dated(Saved'[k], files'[k], now')
                 /\ \A i \in Instances : Dated(index'[i][k], files'[k], now')
      <3>1. /\ Dated(Saved[k], files[k], now)
            /\ \A i \in Instances : Dated(index[i][k], files[k], now)
        BY <1>1 DEF Fresh
      <3>2. QED
        BY <3>1, <2>1, <1>1, <1>2
    <2>3. NoStaleHit' /\ Pointed'
      BY <1>1 DEF Fresh, NoStaleHit, Pointed, At
    <2>4. QED
      BY <2>2, <2>3 DEF Fresh
  <1>5. Alone'
    BY <1>1 DEF Alone, Up
  <1>6. Solo'
    <2>1. ASSUME NEW e \in Slots PROVE Live(e, now') => Live(e, now)
      <3>1. e # None => e.expires \in Nat
        BY BoundAssumption DEF Slots, Entry
      <3>2. QED
        BY <1>1, <3>1 DEF Live
    <2>2. ASSUME NEW k \in Keys, ~shared
          PROVE  /\ OnDisk(k)'
                 /\ \A i \in Instances : InMemory(i, k) => InMemory(i, k)'
      <3>1. OnDisk(k) /\ (Live(Saved[k], now') => Live(Saved[k], now))
        BY <1>1, <1>2, <2>1, <2>2 DEF Solo
      <3>2. \A i \in Instances : Live(index[i][k], now') => Live(index[i][k], now)
        BY <1>2, <2>1
      <3>3. QED
        BY <1>1, <3>1, <3>2, TickSolo
    <2>3. QED
      BY <1>1, <2>2 DEF Solo, At
  <1>7. QED
    BY <1>3, <1>4, <1>5, <1>6

\* Every step keeps the inductive invariant.
LEMMA NextIInv == IInv /\ [Next]_vars => IInv'
  <1> SUFFICES ASSUME IInv, [Next]_vars PROVE IInv'
    OBVIOUS
  <1>1. TypeOK /\ OpShape /\ Room /\ Fresh /\ Alone /\ Solo
    BY DEF IInv
  <1>2. TypeOK' /\ OpShape'
    BY <1>1, TypeStep
  <1>3. ASSUME NEW i \in Instances, Step(i) PROVE (Room /\ Fresh /\ Alone /\ Solo)'
    <2>1. Room' /\ Fresh'
      BY <1>1, <1>3, RoomStep, FreshStep
    <2>2. CASE ~shared'
      BY <1>1, <1>3, <2>1, <2>2, AloneStep, SoloStep
    <2>3. CASE shared'
      BY <2>1, <2>3 DEF Alone, Solo
    <2>4. QED
      BY <2>1, <2>2, <2>3
  <1>4. CASE UNCHANGED vars
    <2>1. UNCHANGED <<files, diskIndex, index, op, now, crashes, shared, preClear, Saved>>
      BY <1>4 DEF vars, disk, Saved, Empty
    <2>2. Room'
      BY <1>1, <2>1, RoomParts, RoomParts2
    <2>3. Fresh' /\ Alone'
      BY <1>1, <2>1 DEF Fresh, NoStaleHit, Pointed, Alone, At, Up
    <2>4. (\A k \in Keys : OnDisk(k) <=> OnDisk(k)')
      BY <2>1 DEF OnDisk
    <2>5. \A k \in Keys, i \in Instances : InMemory(i, k) <=> InMemory(i, k)'
      BY <2>1 DEF InMemory, Covered, Known, Cleared, Sound, Unharmed, At
    <2>6. Solo'
      BY <1>1, <2>1, <2>4, <2>5 DEF Solo, At
    <2>7. QED
      BY <1>2, <2>2, <2>3, <2>6 DEF IInv
  <1>5. QED
    BY <1>1, <1>2, <1>3, <1>4, TickIInv DEF IInv, Next

\* The inductive invariant holds of every behaviour.
LEMMA SpecIInv == Spec => []IInv
  BY InitIInv, NextIInv, PTL DEF Spec

-----------------------------------------------------------------------------
\* The type invariant of the directory and the instances.
THEOREM CacheTypes == Spec => []TypeOK
  <1>1. IInv => TypeOK
    BY DEF IInv
  <1>2. QED
    BY <1>1, SpecIInv, PTL

\* No index outgrows max_entries, in memory or on disk, across restarts and
\* instances that load what others saved: `set` evicts before it adds.
THEOREM CacheBounded == Spec => []CapacityBound
  <1>1. IInv => CapacityBound
    <2>1. IInv => (diskIndex \notin {None, Torn} => Saved = diskIndex)
      BY DEF Saved
    <2>2. CASE Instances # {}
      BY <2>1, <2>2 DEF IInv, Room, CapacityBound
    <2>3. CASE Instances = {}
      BY <2>3 DEF IInv, Room, CapacityBound
    <2>4. QED
      BY <2>2, <2>3
  <1>2. QED
    BY <1>1, SpecIInv, PTL

\* A lookup never answers with a result older than the lifetime of the entry
\* it followed, however many instances, each with its own ttl_seconds, write the
\* files and the index.
THEOREM NoStaleHits == Spec => []NoStaleHit
  <1>1. IInv => NoStaleHit
    BY DEF IInv, Fresh
  <1>2. QED
    BY <1>1, SpecIInv, PTL

\* Alone in the directory and between operations, an instance has nothing in
\* memory that a restart would lose.
THEOREM MemoryIsSaved == Spec => []DiskCoversMemory
  <1>1. IInv => DiskCoversMemory
    <2> SUFFICES ASSUME IInv, NEW i \in Instances, ~shared,
                        Free(i) \/ At(i, "reading") \/ At(i, "analysing"),
                        NEW k \in Keys, index[i][k] # None
                 PROVE  diskIndex \notin {None, Torn} /\ diskIndex[k] = index[i][k]
      BY DEF DiskCoversMemory, Indexed
    <2>1. op[i].at \in Quiet
      BY OpFacts DEF IInv, Quiet, At
    <2>2. Saved[k] = index[i][k]
      BY <2>1 DEF IInv, Solo, InMemory, Covered, Quiet, At
    <2>3. QED
      BY <2>2 DEF Saved, Empty
  <1>2. QED
    BY <1>1, SpecIInv, PTL

\* Alone in the directory, an instance never serves what was cached before a
\* clear: not from a file the clear overlooked, not after a restart.
THEOREM ClearsAreFinal == Spec => []ClearIsFinal
  <1>1. IInv => ClearIsFinal
    <2> SUFFICES ASSUME IInv, NEW i \in Instances, ~shared, At(i, "reading")
                 PROVE  op[i].key \notin preClear
      BY DEF ClearIsFinal
    <2>1. op[i].key \in Keys
      BY OpFacts DEF IInv, At
    <2>2. Cleared(i, op[i].key)
      BY <2>1 DEF IInv, Solo, InMemory, At
    <2>3. QED
      BY <2>2 DEF Cleared
  <1>2. QED
    BY <1>1, SpecIInv, PTL

\* While one instance at a time uses the directory, a single crash, whenever it
\* happens, never leaves a file that makes a lookup raise.
THEOREM OneCrashIsHarmless == Spec => []OneCrashNeverPoisons
  <1>1. IInv => OneCrashNeverPoisons
    <2> SUFFICES ASSUME IInv, NEW i \in Instances, op[i] = Raised, ~shared
                 PROVE  crashes >= 2
      BY DEF OneCrashNeverPoisons
    <2>1. ~(crashes <= 1)
      BY DEF IInv, Solo, At, Raised
    <2>2. crashes \in Nat
      BY TypeParts, BoundAssumption DEF IInv, MiscOK
    <2>3. QED
      BY <2>1, <2>2
  <1>2. QED
    BY <1>1, SpecIInv, PTL

=============================================================================
