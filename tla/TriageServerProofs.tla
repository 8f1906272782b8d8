-------------------------- MODULE TriageServerProofs --------------------------
(***************************************************************************)
(* Proofs about TriageServer, for any number of workers, fingerprints,     *)
(* dumps and batches, any window, limits and days, and restarts at any     *)
(* step: the deduplicator's counts, the rows of the database and what its  *)
(* queries return.                                                         *)
(***************************************************************************)
EXTENDS TriageServer, FiniteSetTheorems, SequenceTheorems, WellFoundedInduction, TLAPS

-------------------------------------------------------------------------------
(* Numbers, sets of them, and functions *)

Below == {p \in Nat \X Nat : p[1] < p[2]}

\* Min of numbers is one of them.
LEMMA MinIsOne ==
  ASSUME NEW S, S \subseteq Nat, S # {}
  PROVE  Min(S) \in S
  <1>1. IsWellFoundedOn(Below, Nat)
    <2>1. Below = OpToRel(<, Nat)
      BY Zenon DEF Below, OpToRel
    <2>2. QED
      BY <2>1, NatLessThanWellFounded, Zenon
  <1>2. PICK m \in S : \A k \in S : ~(<<k, m>> \in Below)
    BY <1>1, WFMin, Zenon
  <1>3. \A k \in S : <<k, m>> \in Nat \X Nat
    OBVIOUS
  <1>4. \A k \in S : ~(k < m)
    BY <1>2, <1>3 DEF Below
  <1>5. \A k \in S : m <= k
    BY <1>4
  <1>6. QED
    BY <1>5 DEF Min

\* As many numbers as a finite set has members, counted from 1.
LEMMA UpTo ==
  ASSUME NEW n \in Nat
  PROVE  IsFiniteSet(1..n) /\ Cardinality(1..n) = n
  <1>1. 1 \in Int /\ n \in Int
    OBVIOUS
  <1>2. IsFiniteSet(1..n) /\ Cardinality(1..n) = IF 1 > n THEN 0 ELSE n - 1 + 1
    BY <1>1, FS_Interval
  <1>3. (IF 1 > n THEN 0 ELSE n - 1 + 1) = n
    OBVIOUS
  <1>4. QED
    BY <1>2, <1>3

\* A function takes no more values than it has arguments.
LEMMA FewValues ==
  ASSUME NEW S, IsFiniteSet(S), NEW f, DOMAIN f = S
  PROVE  LET T == {f[x] : x \in S}
         IN  IsFiniteSet(T) /\ Cardinality(T) \in Nat /\ Cardinality(S) \in Nat /\ Cardinality(T) <= Cardinality(S)
  <1> DEFINE T == {f[x] : x \in S}
             g == [x \in S |-> f[x]]
  <1>1. g \in Surjection(S, T)
    <2>1. g \in [S -> T] /\ \A x \in S : g[x] = f[x]
      OBVIOUS
    <2> HIDE DEF g
    <2>2. \A t \in T : \E x \in S : g[x] = t
      BY <2>1
    <2> HIDE DEF T
    <2>3. QED
      BY <2>1, <2>2 DEF Surjection
  <1> HIDE DEF g, T
  <1>2. IsFiniteSet(T) /\ Cardinality(T) <= Cardinality(S)
    BY <1>1, FS_Surjection
  <1>3. QED
    BY <1>2, FS_CardinalityType DEF T

\* Days follow each other and are DayLength long.
LEMMA DayMonotone ==
  ASSUME NEW s \in Int, NEW t \in Int, s <= t
  PROVE  Day(s) <= Day(t)
  BY DayAssumption DEF Day

LEMMA DayBounds ==
  ASSUME NEW t \in Int
  PROVE  /\ Day(t) \in Int
         /\ Day(t) * DayLength <= t
         /\ t < Day(t) * DayLength + DayLength
  BY DayAssumption DEF Day

-------------------------------------------------------------------------------
(***************************************************************************)
(* The deduplicator.                                                       *)
(***************************************************************************)
Labels == {"no", "lookup", "insert", "test", "renew", "reset", "touch", "count", "limit",
           "suppress", "answer", "checked"}

\* In the steps between the lookup and the answer a worker holds an object.
Holding == {"test", "renew", "reset", "touch", "count", "limit", "suppress", "answer"}

Object == [count : Nat, suppressed : Nat, last : 0..MaxClock, alerts : Nat]

DedupOK ==
  /\ entries \in [Fingerprints -> Refs \union {0}]
  /\ objects \in [Refs -> Object]
  /\ check \in [Workers -> Labels]
  /\ target \in [Workers -> Fingerprints]
  /\ held \in [Workers -> Refs \union {0}]
  /\ num \in [Workers -> Nat]
  /\ contended \in BOOLEAN
  /\ \A w \in Workers : check[w] \in Holding <=> held[w] # 0

\* No two fingerprints share an object.
Distinct == \A f, g \in Fingerprints : entries[f] = entries[g] /\ entries[f] # 0 => f = g

LEMMA RefsAreNumbers ==
  /\ Cardinality(Fingerprints) \in Nat /\ Cardinality(Workers) \in Nat \ {0}
  /\ Refs \subseteq Nat /\ 0 \notin Refs /\ IsFiniteSet(Refs)
  /\ Cardinality(Refs) = Cardinality(Fingerprints) + Cardinality(Workers)
  <1>1. Cardinality(Fingerprints) \in Nat /\ Cardinality(Workers) \in Nat
    BY DedupAssumption, FS_CardinalityType
  <1>2. Cardinality(Workers) # 0
    BY DedupAssumption, FS_EmptySet
  <1> DEFINE n == Cardinality(Fingerprints) + Cardinality(Workers)
  <1>3. n \in Nat
    BY <1>1
  <1>4. Refs = 1..n
    BY DEF Refs
  <1> HIDE DEF n
  <1>5. IsFiniteSet(Refs) /\ Cardinality(Refs) = n /\ Refs \subseteq Nat /\ 0 \notin Refs
    BY <1>3, <1>4, UpTo
  <1>6. QED
    BY <1>1, <1>2, <1>5 DEF n

\* A worker that holds nothing finds an object that nothing refers to.
LEMMA FreeRefIsFree ==
  ASSUME DedupOK, NEW w \in Workers, held[w] = 0
  PROVE  /\ FreeRef \in Refs
         /\ \A f \in Fingerprints : entries[f] # FreeRef
         /\ \A v \in Workers : held[v] # FreeRef
  <1> DEFINE E == {entries[f] : f \in Fingerprints}
             others == [v \in Workers \ {w} |-> held[v]]
             H == {others[v] : v \in Workers \ {w}}
             used == {entries[f] : f \in Fingerprints} \union {held[v] : v \in Workers}
             n == Cardinality(Fingerprints)
             m == Cardinality(Workers)
  <1>1. IsFiniteSet(E) /\ Cardinality(E) \in Nat /\ Cardinality(E) <= n
    <2>1. DOMAIN entries = Fingerprints /\ IsFiniteSet(Fingerprints)
      BY DedupAssumption DEF DedupOK
    <2>2. QED
      BY <2>1, FewValues
  <1>2. IsFiniteSet(H) /\ Cardinality(H) \in Nat /\ Cardinality(H) <= m - 1
    <2>1. IsFiniteSet(Workers \ {w}) /\ Cardinality(Workers \ {w}) = m - 1
      BY DedupAssumption, FS_RemoveElement
    <2>2. DOMAIN others = Workers \ {w}
      OBVIOUS
    <2> HIDE DEF others, m
    <2>3. QED
      BY <2>1, <2>2, FewValues
  <1>3. n \in Nat /\ m \in Nat \ {0} /\ Refs \subseteq Nat /\ 0 \notin Refs
        /\ IsFiniteSet(Refs) /\ Cardinality(Refs) = n + m
    BY RefsAreNumbers
  <1>4. used \subseteq E \union H \union {0}
    <2>1. \A v \in Workers : held[v] \in H \union {0}
      <3> TAKE v \in Workers
      <3>1. CASE v = w
        BY <3>1
      <3>2. CASE v # w
        <4>1. others[v] = held[v] /\ v \in Workers \ {w}
          BY <3>2
        <4> HIDE DEF others
        <4>2. QED
          BY <4>1
      <3>3. QED
        BY <3>1, <3>2
    <2>2. QED
      BY <2>1
  <1> DEFINE both == E \union H
             free == Refs \ used
  <1> HIDE DEF E, H, used, n, m
  <1>5. IsFiniteSet(both) /\ Cardinality(both) \in Nat /\ Cardinality(both) <= n + m - 1
    <2>1. IsFiniteSet(both) /\ Cardinality(both) = Cardinality(E) + Cardinality(H) - Cardinality(E \intersect H)
      BY <1>1, <1>2, FS_Union
    <2>2. Cardinality(E \intersect H) \in Nat
      <3>1. IsFiniteSet(E \intersect H)
        BY <1>1, FS_Subset
      <3>2. QED
        BY <3>1, FS_CardinalityType
    <2> DEFINE c == Cardinality(both)
               ce == Cardinality(E)
               ch == Cardinality(H)
               ci == Cardinality(E \intersect H)
    <2>3. c = ce + ch - ci /\ ci \in Nat /\ ce \in Nat /\ ch \in Nat /\ ce <= n /\ ch <= m - 1
      BY <1>1, <1>2, <2>1, <2>2
    <2>4. c \in Nat
      BY <2>1, FS_CardinalityType
    <2> HIDE DEF c, ce, ch, ci
    <2>5. c <= n + m - 1
      BY <1>3, <2>3
    <2>6. QED
      BY <2>1, <2>4, <2>5 DEF c
  <1> HIDE DEF both
  <1>6. free # {}
    <2>1. SUFFICES ASSUME free = {} PROVE FALSE
      OBVIOUS
    <2>2. Refs \subseteq both
      BY <1>3, <1>4, <2>1 DEF both
    <2>3. Cardinality(Refs) <= Cardinality(both)
      BY <1>5, <2>2, FS_Subset
    <2>4. QED
      BY <1>3, <1>5, <2>3
  <1>7. Min(free) \in free
    <2>1. free \subseteq Nat
      BY <1>3
    <2> HIDE DEF free
    <2>2. QED
      BY <1>6, <2>1, MinIsOne
  <1>8. FreeRef = Min(free)
    BY DEF FreeRef, used
  <1>9. QED
    BY <1>7, <1>8 DEF used

-------------------------------------------------------------------------------
(* What a step of check does to the objects *)

\* An object with a field set, as a record.
LEMMA Fields ==
  ASSUME NEW o \in Object, NEW v
  PROVE  /\ [o EXCEPT !.count = v] = [count |-> v, suppressed |-> o.suppressed, last |-> o.last, alerts |-> o.alerts]
         /\ [o EXCEPT !.suppressed = v] = [count |-> o.count, suppressed |-> v, last |-> o.last, alerts |-> o.alerts]
         /\ [o EXCEPT !.last = v] = [count |-> o.count, suppressed |-> o.suppressed, last |-> v, alerts |-> o.alerts]
         /\ [o EXCEPT !.alerts = v] = [count |-> o.count, suppressed |-> o.suppressed, last |-> o.last, alerts |-> v]
         /\ [o EXCEPT !.count = 1, !.suppressed = 0, !.alerts = 0]
              = [count |-> 1, suppressed |-> 0, last |-> o.last, alerts |-> 0]
  <1>1. [o EXCEPT !.count = v] = [count |-> v, suppressed |-> o.suppressed, last |-> o.last, alerts |-> o.alerts]
    BY DEF Object
  <1>2. [o EXCEPT !.suppressed = v] = [count |-> o.count, suppressed |-> v, last |-> o.last, alerts |-> o.alerts]
    BY DEF Object
  <1>3. [o EXCEPT !.last = v] = [count |-> o.count, suppressed |-> o.suppressed, last |-> v, alerts |-> o.alerts]
    BY DEF Object
  <1>4. [o EXCEPT !.alerts = v] = [count |-> o.count, suppressed |-> o.suppressed, last |-> o.last, alerts |-> v]
    BY DEF Object
  <1>5. [o EXCEPT !.count = 1, !.suppressed = 0, !.alerts = 0]
          = [count |-> 1, suppressed |-> 0, last |-> o.last, alerts |-> 0]
    <2> DEFINE p == [o EXCEPT !.count = 1]
               q == [p EXCEPT !.suppressed = 0]
               z == [q EXCEPT !.alerts = 0]
    <2>1. [o EXCEPT !.count = 1, !.suppressed = 0, !.alerts = 0] = z
      OBVIOUS
    <2>2. p = [count |-> 1, suppressed |-> o.suppressed, last |-> o.last, alerts |-> o.alerts]
      BY DEF Object
    <2> HIDE DEF p
    <2>3. q = [count |-> 1, suppressed |-> 0, last |-> o.last, alerts |-> o.alerts]
      BY <2>2
    <2> HIDE DEF q
    <2>4. z = [count |-> 1, suppressed |-> 0, last |-> o.last, alerts |-> 0]
      BY <2>3
    <2>5. QED
      BY <2>1, <2>4
  <1>6. QED
    BY <1>1, <1>2, <1>3, <1>4, <1>5

\* One object, r, has these values now.
Becomes(r, count, suppressed, last, alerts) ==
  objects' = [objects EXCEPT ![r] = [count |-> count, suppressed |-> suppressed, last |-> last, alerts |-> alerts]]

LEMMA HeldIsObject ==
  ASSUME DedupOK, NEW w \in Workers, check[w] \in Holding
  PROVE  held[w] \in Refs /\ objects[held[w]] \in Object
  BY DEF DedupOK

LEMMA BecomesOne ==
  ASSUME DedupOK, NEW r \in Refs, NEW c, NEW s, NEW l, NEW a, Becomes(r, c, s, l, a)
  PROVE  /\ objects'[r].count = c /\ objects'[r].suppressed = s /\ objects'[r].last = l /\ objects'[r].alerts = a
         /\ \A q \in Refs : q # r => objects'[q] = objects[q]
  <1>1. objects'[r] = [count |-> c, suppressed |-> s, last |-> l, alerts |-> a]
    BY DEF DedupOK, Becomes
  <1>2. \A q \in Refs : q # r => objects'[q] = objects[q]
    BY DEF DedupOK, Becomes
  <1>3. QED
    BY <1>1, <1>2

LEMMA ObjectsTyped ==
  ASSUME DedupOK, NEW r \in Refs, NEW c \in Nat, NEW s \in Nat, NEW l \in 0..MaxClock, NEW a \in Nat,
         Becomes(r, c, s, l, a)
  PROVE  objects' \in [Refs -> Object]
  BY DEF DedupOK, Becomes, Object

LEMMA InsertEffect ==
  ASSUME DedupOK, NEW w \in Workers, Insert(w)
  PROVE  /\ Becomes(FreeRef, 1, 0, clock, 0) /\ entries' = [entries EXCEPT ![target[w]] = FreeRef]
         /\ held[w] = 0
  <1>1. [Blank EXCEPT !.count = 1, !.last = clock] = [count |-> 1, suppressed |-> 0, last |-> clock, alerts |-> 0]
    <2> DEFINE p == [Blank EXCEPT !.count = 1]
    <2>1. [Blank EXCEPT !.count = 1, !.last = clock] = [p EXCEPT !.last = clock]
      OBVIOUS
    <2>2. p = [count |-> 1, suppressed |-> 0, last |-> 0, alerts |-> 0]
      BY DEF Blank
    <2> HIDE DEF p
    <2>3. [p EXCEPT !.last = clock] = [count |-> 1, suppressed |-> 0, last |-> clock, alerts |-> 0]
      BY <2>2
    <2>4. QED
      BY <2>1, <2>3
  <1>2. held[w] = 0
    BY DEF DedupOK, Insert, Holding
  <1>3. QED
    BY <1>1, <1>2 DEF Insert, Becomes

LEMMA RenewEffect ==
  ASSUME DedupOK, NEW w \in Workers, Renew(w)
  PROVE  LET o == objects[held[w]] IN Becomes(held[w], o.count, o.suppressed, clock, o.alerts)
  <1>1. held[w] \in Refs /\ objects[held[w]] \in Object
    BY HeldIsObject DEF Renew, Holding
  <1>2. objects' = [objects EXCEPT ![held[w]] = [objects[held[w]] EXCEPT !.last = clock]]
    BY DEF Renew
  <1>3. QED
    BY <1>1, <1>2, Fields DEF Becomes

LEMMA TouchEffect ==
  ASSUME DedupOK, NEW w \in Workers, Touch(w)
  PROVE  LET o == objects[held[w]] IN Becomes(held[w], o.count, o.suppressed, clock, o.alerts)
  <1>1. held[w] \in Refs /\ objects[held[w]] \in Object
    BY HeldIsObject DEF Touch, Holding
  <1>2. objects' = [objects EXCEPT ![held[w]] = [objects[held[w]] EXCEPT !.last = clock]]
    BY DEF Touch
  <1>3. QED
    BY <1>1, <1>2, Fields DEF Becomes

LEMMA CountEffect ==
  ASSUME DedupOK, NEW w \in Workers, Count(w)
  PROVE  LET o == objects[held[w]] IN Becomes(held[w], num[w] + 1, o.suppressed, o.last, o.alerts)
  <1>1. held[w] \in Refs /\ objects[held[w]] \in Object
    BY HeldIsObject DEF Count, Holding
  <1>2. objects' = [objects EXCEPT ![held[w]] = [objects[held[w]] EXCEPT !.count = num[w] + 1]]
    BY DEF Count
  <1>3. QED
    BY <1>1, <1>2, Fields DEF Becomes

LEMMA ResetEffect ==
  ASSUME DedupOK, NEW w \in Workers, Reset(w)
  PROVE  LET o == objects[held[w]] IN Becomes(held[w], 1, 0, o.last, 0)
  <1>1. held[w] \in Refs /\ objects[held[w]] \in Object
    BY HeldIsObject DEF Reset, Holding
  <1>2. objects' = [objects EXCEPT ![held[w]] = [objects[held[w]] EXCEPT !.count = 1, !.suppressed = 0, !.alerts = 0]]
    BY DEF Reset
  <1>3. QED
    BY <1>1, <1>2, Fields DEF Becomes

LEMMA SuppressEffect ==
  ASSUME DedupOK, NEW w \in Workers, Suppress(w)
  PROVE  LET o == objects[held[w]] IN Becomes(held[w], o.count, o.suppressed + 1, o.last, o.alerts)
  <1>1. held[w] \in Refs /\ objects[held[w]] \in Object
    BY HeldIsObject DEF Suppress, Holding
  <1>2. objects' = [objects EXCEPT ![held[w]] = [objects[held[w]] EXCEPT !.suppressed = objects[held[w]].suppressed + 1]]
    BY DEF Suppress
  <1>3. QED
    BY <1>1, <1>2, Fields DEF Becomes

Due(count) == IF count >= AlertAfter THEN 1 ELSE 0

LEMMA AnswerEffect ==
  ASSUME DedupOK, NEW w \in Workers, Answer(w)
  PROVE  LET o == objects[held[w]]
         IN  Becomes(held[w], o.count, o.suppressed, o.last, o.alerts + IF o.count = AlertAfter THEN 1 ELSE 0)
  <1>1. held[w] \in Refs /\ objects[held[w]] \in Object
    BY HeldIsObject DEF Answer, Holding
  <1>2. objects' = [objects EXCEPT ![held[w]] = [objects[held[w]] EXCEPT !.alerts = objects[held[w]].alerts + IF objects[held[w]].count = AlertAfter THEN 1 ELSE 0]]
    BY DEF Answer, AlertDue
  <1>3. QED
    BY <1>1, <1>2, Fields DEF Becomes

\* A step of check keeps the types of the deduplicator.
LEMMA CheckStepTyped ==
  ASSUME DedupOK, clock \in 0..MaxClock, NEW w \in Workers, CheckStep(w)
  PROVE  DedupOK'
  <1> DEFINE r == held[w]
             o == objects[r]
  <1>1. check[w] \in Holding => r \in Refs /\ o \in Object
    BY HeldIsObject
  <1>2. 0 \notin Refs
    BY RefsAreNumbers
  <1>3. CASE Lookup(w)
    <2>1. entries[target[w]] \in Refs \union {0}
      BY DEF DedupOK
    <2>2. QED
      BY <1>3, <2>1 DEF Lookup, Step, DedupOK, Labels, Holding
  <1>4. CASE TestWindow(w)
    BY <1>4 DEF TestWindow, Step, DedupOK, Labels, Holding
  <1>5. CASE Limit(w)
    BY <1>5, <1>2 DEF Limit, Leave, Step, DedupOK, Labels, Holding
  <1>6. CASE Insert(w)
    <2>1. /\ Becomes(FreeRef, 1, 0, clock, 0) /\ entries' = [entries EXCEPT ![target[w]] = FreeRef]
          /\ held[w] = 0
      BY <1>6, InsertEffect
    <2>2. FreeRef \in Refs
      BY <2>1, FreeRefIsFree
    <2>3. objects' \in [Refs -> Object]
      BY <2>1, <2>2, ObjectsTyped
    <2>4. entries' \in [Fingerprints -> Refs \union {0}]
      BY <2>1, <2>2 DEF DedupOK
    <2>5. QED
      BY <1>6, <2>3, <2>4 DEF Insert, Leave, Step, DedupOK, Labels, Holding
  <1>7. ASSUME objects' \in [Refs -> Object], entries' = entries, target' = target, contended' = contended,
               check[w] \in Holding, num' \in [Workers -> Nat],
               \/ Leave(w)
               \/ UNCHANGED held /\ \E label \in Holding : Step(w, label)
        PROVE  DedupOK'
    <2>1. CASE Leave(w)
      BY <1>7, <2>1 DEF DedupOK, Leave, Step, Labels, Holding
    <2>2. CASE UNCHANGED held /\ \E label \in Holding : Step(w, label)
      BY <1>7, <2>2 DEF DedupOK, Step, Labels, Holding
    <2>3. QED
      BY <1>7, <2>1, <2>2
  <1>8. CASE Renew(w) \/ Touch(w)
    <2>1. check[w] \in Holding
      BY <1>8 DEF Renew, Touch, Holding
    <2>2. Becomes(r, o.count, o.suppressed, clock, o.alerts)
      BY <1>8, RenewEffect, TouchEffect
    <2>3. objects' \in [Refs -> Object]
      BY <1>1, <2>1, <2>2, ObjectsTyped DEF Object
    <2>4. num' \in [Workers -> Nat]
      BY <1>1, <1>8, <2>1 DEF Renew, Touch, DedupOK, Object
    <2>5. "reset" \in Holding /\ "count" \in Holding
      BY DEF Holding
    <2>6. QED
      BY <1>7, <1>8, <2>1, <2>3, <2>4, <2>5 DEF Renew, Touch
  <1>9. CASE Count(w)
    <2>1. check[w] \in Holding /\ num[w] + 1 \in Nat
      BY <1>9 DEF Count, Holding, DedupOK
    <2>2. Becomes(r, num[w] + 1, o.suppressed, o.last, o.alerts)
      BY <1>9, CountEffect
    <2>3. objects' \in [Refs -> Object]
      BY <1>1, <2>1, <2>2, ObjectsTyped DEF Object
    <2>4. num' \in [Workers -> Nat]
      BY <1>9 DEF Count, DedupOK
    <2>5. "limit" \in Holding
      BY DEF Holding
    <2>6. QED
      BY <1>7, <1>9, <2>1, <2>3, <2>4, <2>5 DEF Count
  <1>10. CASE Suppress(w)
    <2>1. check[w] \in Holding
      BY <1>10 DEF Suppress, Holding
    <2>2. Becomes(r, o.count, o.suppressed + 1, o.last, o.alerts)
      BY <1>10, SuppressEffect
    <2>3. objects' \in [Refs -> Object]
      BY <1>1, <2>1, <2>2, ObjectsTyped DEF Object
    <2>4. num' \in [Workers -> Nat]
      BY <1>10 DEF Suppress, DedupOK
    <2>5. "answer" \in Holding
      BY DEF Holding
    <2>6. QED
      BY <1>7, <1>10, <2>1, <2>3, <2>4, <2>5 DEF Suppress
  <1>11. CASE Reset(w) \/ Answer(w)
    <2>1. check[w] \in Holding
      BY <1>11 DEF Reset, Answer, Holding
    <2>2. CASE Reset(w)
      <3>1. Becomes(r, 1, 0, o.last, 0)
        BY <2>2, ResetEffect
      <3>2. objects' \in [Refs -> Object]
        BY <1>1, <2>1, <3>1, ObjectsTyped DEF Object
      <3>3. num' \in [Workers -> Nat]
        BY <2>2 DEF Reset, Leave, DedupOK
      <3>4. QED
        BY <1>7, <2>1, <2>2, <3>2, <3>3 DEF Reset
    <2>3. CASE Answer(w)
      <3> DEFINE a == o.alerts + IF o.count = AlertAfter THEN 1 ELSE 0
      <3>1. Becomes(r, o.count, o.suppressed, o.last, a)
        BY <2>3, AnswerEffect
      <3>2. a \in Nat
        BY <1>1, <2>1 DEF Object
      <3> HIDE DEF a
      <3>3. objects' \in [Refs -> Object]
        BY <1>1, <2>1, <3>1, <3>2, ObjectsTyped DEF Object
      <3>4. num' \in [Workers -> Nat]
        BY <2>3 DEF Answer, Leave, DedupOK
      <3>5. QED
        BY <1>7, <2>1, <2>3, <3>3, <3>4 DEF Answer
    <2>4. QED
      BY <1>11, <2>2, <2>3
  <1>12. QED
    BY <1>3, <1>4, <1>5, <1>6, <1>8, <1>9, <1>10, <1>11 DEF CheckStep
-------------------------------------------------------------------------------
(***************************************************************************)
(* The batch and the table.                                                *)
(***************************************************************************)
Outcomes == {"pending", "saved", "unread", "raised"}

BatchOK ==
  /\ clock \in 0..MaxClock
  /\ second \in 0..MaxClock
  /\ dumps \in 0..MaxDumps
  /\ results \in Seq(Outcomes) /\ Len(results) <= dumps
  /\ job \in [Workers -> Jobs \union {0}]
  /\ \A v, w \in Workers : v # w /\ job[v] # 0 => job[v] # job[w]
  /\ \A w \in Workers : job[w] # 0 => running /\ results[job[w]] = "pending"
  /\ \A w \in Workers : check[w] # "no" => job[w] # 0
  /\ started \in [Workers -> 0..MaxClock]
  /\ totals \in [completed : 0..MaxDumps, failed : 0..MaxDumps, skipped : 0..MaxDumps]
  /\ running \in BOOLEAN

Ids == {"batch", "api"} \X (0..MaxClock) \X (0..MaxDumps)

RowsOK ==
  /\ IsFiniteSet(DOMAIN rows)
  /\ DOMAIN rows \subseteq Ids
  /\ \A i \in DOMAIN rows : rows[i] \in Rows /\ rows[i].request <= dumps

\* The jobs of a batch are its numbers.
LEMMA JobsAreNumbers ==
  ASSUME BatchOK
  PROVE  Jobs = 1..Len(results) /\ Len(results) \in Nat /\ Len(results) <= MaxDumps /\ Jobs \subseteq 1..MaxDumps
  <1>1. Jobs = 1..Len(results) /\ Len(results) \in Nat
    BY DEF BatchOK, Jobs
  <1>2. Len(results) <= dumps /\ dumps \in 0..MaxDumps
    BY DEF BatchOK
  <1> DEFINE n == Len(results)
  <1>3. n \in Nat /\ n <= dumps /\ dumps \in 0..MaxDumps /\ Jobs = 1..n
    BY <1>1, <1>2
  <1> HIDE DEF n
  <1>4. n <= MaxDumps /\ Jobs \subseteq 1..MaxDumps
    BY <1>3, BoundAssumption
  <1>5. QED
    BY <1>1, <1>4 DEF n

\* A worker that is free takes a pending job that no other has.
LEMMA TakenJob ==
  ASSUME BatchOK, NEW w \in Workers, TakeJob(w)
  PROVE  \E i \in Jobs : /\ i # 0 /\ results[i] = "pending" /\ (\A v \in Workers : job[v] # i)
                         /\ job' = [job EXCEPT ![w] = i]
  <1> DEFINE free == Jobs \ Taken
  <1>1. free \subseteq Nat /\ free # {} /\ 0 \notin free
    BY JobsAreNumbers DEF TakeJob
  <1> HIDE DEF free
  <1>2. Min(free) \in free
    BY <1>1, MinIsOne
  <1>3. job' = [job EXCEPT ![w] = Min(free)]
    BY DEF TakeJob, free
  <1>4. Min(free) # 0
    BY <1>1, <1>2
  <1> DEFINE i == Min(free)
  <1>5. i \in free /\ i # 0 /\ job' = [job EXCEPT ![w] = i]
    BY <1>2, <1>3, <1>4
  <1> HIDE DEF i
  <1>6. i \in Jobs /\ i \notin Taken
    BY <1>5 DEF free
  <1>7. QED
    BY <1>5, <1>6 DEF Taken

\* The future of a job is done.
LEMMA FinishEffect ==
  ASSUME BatchOK, NEW w \in Workers, job[w] # 0, NEW x \in Outcomes \ {"pending"}, Finish(w, x), check'[w] = "no",
         \A v \in Workers \ {w} : check'[v] = check[v],
         UNCHANGED <<clock, dumps>>
  PROVE  /\ BatchOK'
         /\ Jobs' = Jobs
         /\ results'[job[w]] = x /\ job[w] \in Jobs
         /\ \A i \in Jobs : i # job[w] => results'[i] = results[i]
  <1>1. job[w] \in Jobs /\ results \in Seq(Outcomes)
    BY DEF BatchOK
  <1>2. results' = [results EXCEPT ![job[w]] = x]
    BY DEF Finish
  <1>3. results' \in Seq(Outcomes) /\ Len(results') = Len(results)
    BY <1>1, <1>2, ExceptSeq DEF Jobs
  <1>4. Jobs' = Jobs /\ results'[job[w]] = x /\ \A i \in Jobs : i # job[w] => results'[i] = results[i]
    BY <1>1, <1>2 DEF Jobs
  <1>5. job' = [job EXCEPT ![w] = 0] /\ started' = [started EXCEPT ![w] = 0]
        /\ UNCHANGED <<second, totals, running>>
    BY DEF Finish
  <1>6. job' \in [Workers -> Jobs \union {0}] /\ started' \in [Workers -> 0..MaxClock]
    BY <1>5, BoundAssumption DEF BatchOK
  <1>7. \A v \in Workers : job'[v] # 0 => v # w /\ job'[v] = job[v] /\ job[v] # job[w]
    <2> TAKE v \in Workers
    <2> HAVE job'[v] # 0
    <2>1. job \in [Workers -> Jobs \union {0}]
      BY DEF BatchOK
    <2>2. v # w /\ job'[v] = job[v]
      BY <1>5, <2>1
    <2>3. job[v] # job[w]
      BY <2>2 DEF BatchOK
    <2>4. QED
      BY <2>2, <2>3
  <1>8. \A v, u \in Workers : v # u /\ job'[v] # 0 => job'[v] # job'[u]
    <2> TAKE v, u \in Workers
    <2> HAVE v # u /\ job'[v] # 0
    <2>1. v # w /\ job'[v] = job[v] /\ job[v] # job[u]
      BY <1>7 DEF BatchOK
    <2>2. job'[u] = job[u] \/ job'[u] = 0
      BY <1>5 DEF BatchOK
    <2>3. QED
      BY <2>1, <2>2
  <1>9. \A v \in Workers : job'[v] # 0 => running' /\ results'[job'[v]] = "pending"
    <2> TAKE v \in Workers
    <2> HAVE job'[v] # 0
    <2>1. job'[v] = job[v] /\ job[v] # job[w] /\ job[v] # 0
      BY <1>7
    <2>2. job[v] \in Jobs /\ running /\ results[job[v]] = "pending"
      BY <2>1 DEF BatchOK
    <2>3. QED
      BY <1>4, <1>5, <2>1, <2>2
  <1>10. \A v \in Workers : check'[v] # "no" => job'[v] # 0
    <2> TAKE v \in Workers
    <2> HAVE check'[v] # "no"
    <2>1. v # w
      OBVIOUS
    <2>2. job[v] # 0
      BY <2>1 DEF BatchOK
    <2>3. QED
      BY <1>5, <2>1, <2>2 DEF BatchOK
  <1>11. BatchOK'
    BY <1>3, <1>4, <1>5, <1>6, <1>8, <1>9, <1>10 DEF BatchOK
  <1>12. QED
    BY <1>1, <1>4, <1>11

\* Steps that leave the batch alone.
LEMMA BatchFrame ==
  ASSUME BatchOK, UNCHANGED <<batch>>, clock' \in 0..MaxClock, dumps' \in 0..MaxDumps, dumps <= dumps',
         \A w \in Workers : check'[w] # "no" => job[w] # 0
  PROVE  BatchOK'
  <1>1. UNCHANGED <<second, results, job, started, totals, running>>
    BY DEF batch
  <1>2. Len(results') <= dumps'
    <2> DEFINE n == Len(results)
    <2>1. n \in Nat /\ n <= dumps /\ dumps \in Nat /\ dumps' \in Nat
      BY BoundAssumption DEF BatchOK
    <2> HIDE DEF n
    <2>2. n <= dumps'
      BY <2>1
    <2>3. QED
      BY <1>1, <2>2 DEF n
  <1>3. Jobs' = Jobs
    BY <1>1 DEF Jobs
  <1>4. QED
    BY <1>1, <1>2, <1>3 DEF BatchOK

\* How many jobs have ended in some way.
LEMMA EndedBounds ==
  ASSUME BatchOK, NEW S
  PROVE  Ended(S) \in 0..MaxDumps
  <1> DEFINE T == {i \in Jobs : results[i] \in S}
             n == Len(results)
             c == Cardinality(T)
  <1>1. Jobs = 1..n /\ n \in Nat /\ n <= MaxDumps
    BY JobsAreNumbers
  <1>2. IsFiniteSet(1..n) /\ Cardinality(1..n) = n
    BY <1>1, UpTo
  <1>3. T \subseteq 1..n
    BY <1>1
  <1> HIDE DEF T
  <1>4. IsFiniteSet(T) /\ Cardinality(T) <= Cardinality(1..n)
    BY <1>2, <1>3, FS_Subset
  <1>5. c \in Nat /\ c <= n
    BY <1>2, <1>4, FS_CardinalityType
  <1>6. Ended(S) = c
    BY DEF Ended, T
  <1> HIDE DEF c, n
  <1>7. QED
    BY <1>1, <1>5, <1>6, BoundAssumption

\* A crash is saved under one id.
LEMMA SaveEffect ==
  ASSUME RowsOK, NEW id \in Ids, NEW row \in Rows, SaveCrash(id, row), row.request <= dumps',
         dumps \in Nat, dumps' \in Nat, dumps <= dumps'
  PROVE  /\ RowsOK'
         /\ DOMAIN rows' = DOMAIN rows \union {id} /\ rows'[id] = row
         /\ \A i \in DOMAIN rows : i # id => rows'[i] = rows[i]
  <1>1. DOMAIN rows' = DOMAIN rows \union {id}
    BY DEF SaveCrash
  <1>2. rows'[id] = row /\ \A i \in DOMAIN rows : i # id => rows'[i] = rows[i]
    BY DEF SaveCrash
  <1>3. IsFiniteSet(DOMAIN rows')
    BY <1>1, FS_AddElement DEF RowsOK
  <1>4. \A i \in DOMAIN rows' : rows'[i] \in Rows /\ rows'[i].request <= dumps'
    <2> TAKE i \in DOMAIN rows'
    <2>1. CASE i = id
      BY <1>2, <2>1
    <2>2. CASE i # id
      <3>1. i \in DOMAIN rows /\ rows'[i] = rows[i]
        BY <1>1, <1>2, <2>2
      <3>2. rows[i] \in Rows /\ rows[i].request <= dumps
        BY <3>1 DEF RowsOK
      <3> DEFINE q == rows[i].request
      <3>3. q \in Nat /\ q <= dumps
        BY <3>2, BoundAssumption DEF Rows
      <3> HIDE DEF q
      <3>4. q <= dumps'
        BY <3>3
      <3>5. QED
        BY <3>1, <3>2, <3>4 DEF q
    <2>3. QED
      BY <2>1, <2>2
  <1>5. QED
    BY <1>1, <1>2, <1>3, <1>4 DEF RowsOK

\* The rows that go are older than some cutoff.
LEMMA PurgeEffect ==
  ASSUME RowsOK, NEW days, PurgeOld(clock, days), UNCHANGED dumps
  PROVE  /\ RowsOK'
         /\ DOMAIN rows' = Recent(clock, days * DayLength)
         /\ \A i \in DOMAIN rows' : i \in DOMAIN rows /\ rows'[i] = rows[i]
  <1> DEFINE kept == Recent(clock, days * DayLength)
  <1>1. kept \subseteq DOMAIN rows
    BY DEF Recent
  <1>2. rows' = [i \in kept |-> rows[i]]
    BY DEF PurgeOld, Restrict
  <1> HIDE DEF kept
  <1>3. DOMAIN rows' = kept /\ \A i \in kept : rows'[i] = rows[i]
    BY <1>2
  <1>4. IsFiniteSet(kept)
    BY <1>1, FS_Subset DEF RowsOK
  <1>5. RowsOK'
    BY <1>1, <1>3, <1>4 DEF RowsOK
  <1>6. QED
    BY <1>1, <1>3, <1>5 DEF kept

LEMMA RowsFrame ==
  ASSUME RowsOK, UNCHANGED rows, dumps \in Nat, dumps' \in Nat, dumps <= dumps'
  PROVE  RowsOK'
  <1>1. \A i \in DOMAIN rows : rows[i].request <= dumps'
    <2> TAKE i \in DOMAIN rows
    <2> DEFINE q == rows[i].request
    <2>1. q \in Nat /\ q <= dumps
      BY BoundAssumption DEF RowsOK, Rows
    <2> HIDE DEF q
    <2>2. q <= dumps'
      BY <2>1
    <2>3. QED
      BY <2>2 DEF q
  <1>2. QED
    BY <1>1 DEF RowsOK

-------------------------------------------------------------------------------
(***************************************************************************)
(* Types.                                                                  *)
(***************************************************************************)
Typed == DedupOK /\ BatchOK /\ RowsOK

\* What a worker saves is a row, under an id of its own.
LEMMA SavedRow ==
  ASSUME Typed, NEW w \in Workers, job[w] # 0
  PROVE  /\ JobId(job[w]) \in Ids
         /\ [fingerprint |-> target[w], created |-> started[w], request |-> dumps] \in Rows
  <1>1. job[w] \in Jobs
    BY DEF Typed, BatchOK
  <1>2. job[w] \in 1..MaxDumps /\ second \in 0..MaxClock
    BY <1>1, JobsAreNumbers DEF Typed, BatchOK
  <1>3. JobId(job[w]) \in Ids
    BY <1>2, BoundAssumption DEF JobId, Ids
  <1>4. dumps \in 1..MaxDumps
    <2> DEFINE n == Len(results)
    <2>1. n \in Nat /\ job[w] \in 1..n /\ n <= dumps /\ dumps \in 0..MaxDumps
      BY <1>1, JobsAreNumbers DEF Typed, BatchOK
    <2> HIDE DEF n
    <2>2. QED
      BY <2>1, BoundAssumption
  <1>5. target[w] \in Fingerprints /\ started[w] \in 0..MaxClock
    BY DEF Typed, DedupOK, BatchOK
  <1>6. QED
    BY <1>3, <1>4, <1>5 DEF Rows

\* The deduplicator's state is all that its types depend on.
LEMMA DedupFrame ==
  ASSUME DedupOK, UNCHANGED dedup
  PROVE  DedupOK'
  BY DEF DedupOK, dedup

LEMMA BackTyped ==
  ASSUME DedupOK, NEW w \in Workers, Back(w)
  PROVE  /\ DedupOK' /\ check'[w] = "no" /\ \A v \in Workers \ {w} : check'[v] = check[v]
  BY DEF DedupOK, Back, Step, Labels, Holding

\* A free worker takes a job.
LEMMA TakeJobTyped ==
  ASSUME Typed, NEW w \in Workers, TakeJob(w)
  PROVE  Typed'
  <1>1. DedupOK'
    BY DedupFrame DEF Typed, TakeJob
  <1>2. RowsOK'
    BY RowsFrame, BoundAssumption DEF Typed, TakeJob, BatchOK
  <1>3. PICK i \in Jobs : /\ i # 0 /\ results[i] = "pending" /\ (\A v \in Workers : job[v] # i)
                          /\ job' = [job EXCEPT ![w] = i]
    BY TakenJob DEF Typed
  <1>4. /\ UNCHANGED <<clock, second, results, totals, running, dumps>> /\ UNCHANGED check
        /\ running /\ job[w] = 0 /\ started' = [started EXCEPT ![w] = clock]
    BY DEF TakeJob, dedup
  <1>5. BatchOK
    BY DEF Typed
  <1>6. job \in [Workers -> Jobs \union {0}]
    BY <1>5 DEF BatchOK
  <1>7. job' \in [Workers -> Jobs \union {0}] /\ job'[w] = i /\ \A v \in Workers : v # w => job'[v] = job[v]
    BY <1>3, <1>6
  <1>8. \A v, u \in Workers : v # u /\ job'[v] # 0 => job'[v] # job'[u]
    BY <1>3, <1>5, <1>7 DEF BatchOK
  <1>9. \A v \in Workers : job'[v] # 0 => results[job'[v]] = "pending"
    BY <1>3, <1>5, <1>7 DEF BatchOK
  <1>10. \A v \in Workers : check[v] # "no" => job'[v] # 0
    BY <1>3, <1>5, <1>7 DEF BatchOK
  <1>11. started' \in [Workers -> 0..MaxClock]
    BY <1>4, <1>5 DEF BatchOK
  <1>12. Jobs' = Jobs
    BY <1>4 DEF Jobs
  <1>13. BatchOK'
    BY <1>4, <1>5, <1>7, <1>8, <1>9, <1>10, <1>11, <1>12 DEF BatchOK
  <1>14. QED
    BY <1>1, <1>2, <1>13 DEF Typed

\* A worker calls check, or is in it.
LEMMA CheckingTyped ==
  ASSUME Typed, NEW w \in Workers, Analysed(w) \/ (CheckStep(w) /\ UNCHANGED <<clock, rows, batch, cached, dumps>>)
  PROVE  Typed'
  <1>1. UNCHANGED <<clock, rows, batch, cached, dumps>>
    BY DEF Analysed
  <1>2. clock \in 0..MaxClock /\ dumps \in Nat
    BY BoundAssumption DEF Typed, BatchOK
  <1>3. DedupOK'
    <2>1. CASE Analysed(w)
      BY <2>1 DEF Typed, Analysed, Busy, CallCheck, Step, DedupOK, Labels, Holding
    <2>2. CASE CheckStep(w)
      BY <1>2, <2>2, CheckStepTyped DEF Typed
    <2>3. QED
      BY <2>1, <2>2
  <1>4. RowsOK'
    BY <1>1, <1>2, RowsFrame DEF Typed
  <1>5. job[w] # 0
    <2>1. CASE Analysed(w)
      BY <2>1 DEF Analysed, Busy
    <2>2. CASE CheckStep(w)
      <3>1. check[w] # "no"
        BY <2>2 DEF CheckStep, Lookup, Insert, TestWindow, Renew, Reset, Touch, Count, Limit, Suppress, Answer
      <3>2. QED
        BY <3>1 DEF Typed, BatchOK
    <2>3. QED
      BY <2>1, <2>2
  <1>6. \A v \in Workers : v # w => check'[v] = check[v]
    <2>1. \E label : Step(w, label)
      BY Zenon DEF Analysed, CallCheck, CheckStep, Lookup, Insert, TestWindow, Renew, Reset, Touch, Count, Limit,
                   Suppress, Answer, Leave
    <2>2. QED
      BY <2>1 DEF Step, Typed, DedupOK
  <1>7. \A v \in Workers : check'[v] # "no" => job[v] # 0
    BY <1>5, <1>6 DEF Typed, BatchOK
  <1>8. BatchOK'
    <2>1. clock' \in 0..MaxClock /\ dumps' \in 0..MaxDumps /\ dumps <= dumps' /\ UNCHANGED <<batch>>
      BY <1>1, BoundAssumption DEF Typed, BatchOK
    <2>2. QED
      BY <1>7, <2>1, BatchFrame DEF Typed
  <1>9. QED
    BY <1>3, <1>4, <1>8 DEF Typed

\* A worker is done with its job.
LEMMA FinishedTyped ==
  ASSUME Typed, NEW w \in Workers, NotCollected(w) \/ AnalysisRaises(w) \/ SaveJob(w) \/ SaveFails(w)
  PROVE  Typed'
  <1>1. PICK x \in Outcomes \ {"pending"} : Finish(w, x)
    <2>1. "unread" \in Outcomes \ {"pending"} /\ "raised" \in Outcomes \ {"pending"} /\ "saved" \in Outcomes \ {"pending"}
      BY DEF Outcomes
    <2>2. QED
      BY <2>1, Zenon DEF NotCollected, AnalysisRaises, SaveJob, SaveFails
  <1>2. UNCHANGED <<clock, dumps>>
    BY DEF NotCollected, AnalysisRaises, SaveJob, SaveFails
  <1>3. DedupOK' /\ check'[w] = "no" /\ \A v \in Workers \ {w} : check'[v] = check[v]
    <2>1. CASE Back(w)
      BY <2>1, BackTyped DEF Typed
    <2>2. CASE Busy(w) /\ UNCHANGED dedup
      <3>1. UNCHANGED check /\ check[w] = "no"
        BY <2>2 DEF dedup, Busy
      <3>2. QED
        BY <2>2, <3>1, DedupFrame DEF Typed
    <2>3. QED
      BY <2>1, <2>2 DEF NotCollected, AnalysisRaises, SaveJob, SaveFails
  <1>4. job[w] # 0
    <2>1. Busy(w) \/ check[w] # "no"
      BY DEF NotCollected, AnalysisRaises, SaveJob, SaveFails, Back
    <2>2. QED
      BY <2>1 DEF Typed, BatchOK, Busy
  <1>5. BatchOK'
    BY <1>1, <1>2, <1>3, <1>4, FinishEffect DEF Typed
  <1>6. dumps \in Nat /\ dumps' \in Nat /\ dumps <= dumps'
    BY <1>2, BoundAssumption DEF Typed, BatchOK
  <1>7. RowsOK'
    <2>1. CASE UNCHANGED rows
      BY <1>6, <2>1, RowsFrame DEF Typed
    <2>2. CASE SaveJob(w)
      <3> DEFINE row == [fingerprint |-> target[w], created |-> started[w], request |-> dumps]
      <3>1. JobId(job[w]) \in Ids /\ row \in Rows /\ row.request = dumps /\ SaveCrash(JobId(job[w]), row)
        BY <1>4, <2>2, SavedRow DEF SaveJob
      <3> HIDE DEF row
      <3>2. QED
        BY <1>6, <1>2, <3>1, SaveEffect DEF Typed
    <2>3. QED
      BY <2>1, <2>2 DEF NotCollected, AnalysisRaises, SaveFails
  <1>8. QED
    BY <1>3, <1>5, <1>7 DEF Typed

\* A batch begins.
LEMMA SubmitTyped ==
  ASSUME Typed, SubmitBatch
  PROVE  Typed' /\ dumps < dumps'
  <1>1. PICK n \in 1..(MaxDumps - dumps) : results' = [i \in 1..n |-> "pending"] /\ dumps' = dumps + n
    BY DEF SubmitBatch
  <1>2. dumps \in 0..MaxDumps /\ dumps' \in 0..MaxDumps /\ dumps < dumps' /\ n \in Nat /\ n <= dumps'
    BY <1>1, BoundAssumption DEF Typed, BatchOK
  <1>3. ~running /\ UNCHANGED <<clock, dedup, rows, job, started>> /\ running' = TRUE /\ second' = clock
        /\ totals' = NoTotals
    BY DEF SubmitBatch
  <1>4. \A w \in Workers : job[w] = 0 /\ check[w] = "no"
    BY <1>3 DEF Typed, BatchOK
  <1>5. DedupOK'
    BY <1>3, DedupFrame DEF Typed
  <1>6. RowsOK'
    <2>1. dumps \in Nat /\ dumps' \in Nat /\ dumps <= dumps'
      BY <1>2
    <2>2. QED
      BY <1>3, <2>1, RowsFrame DEF Typed
  <1>7. results' \in Seq(Outcomes) /\ Len(results') = n
    BY <1>1 DEF Outcomes
  <1>8. totals' \in [completed : 0..MaxDumps, failed : 0..MaxDumps, skipped : 0..MaxDumps]
    BY <1>3, BoundAssumption DEF NoTotals
  <1>9. /\ \A w \in Workers : job'[w] = 0 /\ check'[w] = "no"
        /\ job' \in [Workers -> Jobs' \union {0}] /\ started' \in [Workers -> 0..MaxClock]
        /\ clock' \in 0..MaxClock /\ second' \in 0..MaxClock
    BY <1>3, <1>4 DEF Typed, BatchOK, dedup
  <1>10. BatchOK'
    BY <1>2, <1>3, <1>7, <1>8, <1>9 DEF BatchOK
  <1>11. QED
    BY <1>2, <1>5, <1>6, <1>10 DEF Typed

\* A batch ends.
LEMMA EndTyped ==
  ASSUME Typed, EndBatch
  PROVE  Typed'
  <1>1. /\ UNCHANGED <<clock, dedup, rows, second, results, job, started, dumps>> /\ running' = FALSE
        /\ totals' = [completed |-> Ended({"saved", "unread"}), failed |-> Ended({"raised"}), skipped |-> 0]
        /\ Ended({"pending"}) = 0
    BY DEF EndBatch
  <1>2. DedupOK' /\ RowsOK'
    <2>1. dumps \in Nat /\ dumps' \in Nat /\ dumps <= dumps'
      BY <1>1, BoundAssumption DEF Typed, BatchOK
    <2>2. QED
      BY <1>1, <2>1, DedupFrame, RowsFrame DEF Typed
  <1>3. \A i \in Jobs : results[i] # "pending"
    <2> DEFINE T == {i \in Jobs : results[i] \in {"pending"}}
               n == Len(results)
    <2>1. n \in Nat /\ T \subseteq 1..n
      BY JobsAreNumbers DEF Typed
    <2>2. Cardinality(T) = 0
      BY <1>1 DEF Ended
    <2> HIDE DEF T
    <2>3. IsFiniteSet(T)
      BY <2>1, UpTo, FS_Subset
    <2>4. T = {}
      BY <2>2, <2>3, FS_EmptySet
    <2>5. QED
      BY <2>4 DEF T
  <1>4. \A w \in Workers : job[w] = 0 /\ check[w] = "no"
    BY <1>3 DEF Typed, BatchOK
  <1>5. totals' \in [completed : 0..MaxDumps, failed : 0..MaxDumps, skipped : 0..MaxDumps]
    <2> DEFINE c == Ended({"saved", "unread"})
               d == Ended({"raised"})
    <2>1. c \in 0..MaxDumps /\ d \in 0..MaxDumps /\ 0 \in 0..MaxDumps
      BY EndedBounds, BoundAssumption DEF Typed
    <2>2. totals' = [completed |-> c, failed |-> d, skipped |-> 0]
      BY <1>1
    <2> HIDE DEF c, d
    <2>3. QED
      BY <2>1, <2>2
  <1>6. Jobs' = Jobs
    BY <1>1 DEF Jobs
  <1>7. \A w \in Workers : check'[w] = "no" /\ job'[w] = 0
    BY <1>1, <1>4 DEF dedup
  <1>8. BatchOK'
    BY <1>1, <1>5, <1>6, <1>7 DEF Typed, BatchOK
  <1>9. QED
    BY <1>2, <1>8 DEF Typed

\* Single requests, forgotten entries, a tick: no batch is involved.
LEMMA RequestTyped ==
  ASSUME Typed, Analyze \/ Purge \/ CleanUp \/ Tick
  PROVE  Typed' /\ UNCHANGED batch /\ UNCHANGED check
  <1>1. UNCHANGED batch /\ UNCHANGED check
    BY DEF Analyze, Purge, CleanUp, Cleanup, Tick, dedup
  <1>2. clock \in 0..MaxClock /\ dumps \in 0..MaxDumps /\ 0 \in 0..MaxDumps
    BY BoundAssumption DEF Typed, BatchOK
  <1>3. dumps' \in 0..MaxDumps /\ dumps <= dumps' /\ clock' \in 0..MaxClock
    BY <1>2, BoundAssumption DEF Analyze, Purge, CleanUp, Tick
  <1>4. BatchOK'
    <2>1. \A w \in Workers : check'[w] # "no" => job[w] # 0
      BY <1>1 DEF Typed, BatchOK
    <2>2. UNCHANGED <<batch>>
      BY <1>1
    <2>3. QED
      BY <1>3, <2>1, <2>2, BatchFrame DEF Typed
  <1>5. DedupOK'
    <2>1. CASE UNCHANGED dedup
      BY <2>1, DedupFrame DEF Typed
    <2>2. CASE CleanUp
      <3>1. entries' \in [Fingerprints -> Refs \union {0}]
        BY <2>2 DEF CleanUp, Cleanup, Typed, DedupOK
      <3>2. QED
        BY <2>2, <3>1 DEF CleanUp, Cleanup, Typed, DedupOK
    <2>3. QED
      BY <2>1, <2>2 DEF Analyze, Purge, Tick
  <1>6. RowsOK'
    <2>1. dumps \in Nat /\ dumps' \in Nat
      BY <1>2, <1>3, BoundAssumption
    <2>2. CASE UNCHANGED rows
      BY <1>3, <2>1, <2>2, RowsFrame DEF Typed
    <2>3. CASE Purge
      <3>1. UNCHANGED dumps /\ \E days \in Days : PurgeOld(clock, days)
        BY <2>3 DEF Purge
      <3>2. QED
        BY <3>1, PurgeEffect DEF Typed
    <2>4. CASE Analyze
      <3>1. PICK f \in Fingerprints :
               \/ SaveCrash(ApiId, [fingerprint |-> f, created |-> clock, request |-> dumps'])
               \/ UNCHANGED rows
        BY <2>4 DEF Analyze
      <3> DEFINE row == [fingerprint |-> f, created |-> clock, request |-> dumps']
      <3>2. row \in Rows /\ row.request <= dumps'
        <4>1. dumps' \in 1..MaxDumps /\ dumps' <= dumps'
          BY <1>2, <2>4, BoundAssumption DEF Analyze
        <4>2. QED
          BY <1>2, <4>1 DEF Rows
      <3>3. ApiId \in Ids
        BY <1>2 DEF ApiId, Ids
      <3>4. SaveCrash(ApiId, row) \/ UNCHANGED rows
        BY <3>1
      <3> HIDE DEF row
      <3>5. QED
        BY <1>3, <2>1, <2>2, <3>2, <3>3, <3>4, SaveEffect DEF Typed
    <2>5. QED
      BY <2>2, <2>3, <2>4 DEF CleanUp, Tick
  <1>7. QED
    BY <1>1, <1>4, <1>5, <1>6 DEF Typed

\* The process starts again.
LEMMA RestartTyped ==
  ASSUME Typed, Restart
  PROVE  Typed'
  <1>1. Blank \in Object /\ 0 \in 0..MaxClock /\ 0 \in 0..MaxDumps
    BY BoundAssumption DEF Blank, Object
  <1>2. DedupOK'
    BY <1>1 DEF Restart, Typed, DedupOK, Labels, Holding
  <1>3. results' \in Seq(Outcomes) /\ Len(results') = 0 /\ dumps \in 0..MaxDumps
        /\ Len(results') <= dumps'
    BY BoundAssumption DEF Restart, Typed, BatchOK
  <1>4. BatchOK'
    BY <1>1, <1>3 DEF Restart, Typed, BatchOK, NoTotals, Jobs
  <1>5. RowsOK'
    BY BoundAssumption, RowsFrame DEF Restart, Typed, BatchOK
  <1>6. QED
    BY <1>2, <1>4, <1>5 DEF Typed

LEMMA InitTyped ==
  ASSUME Init
  PROVE  Typed
  <1>1. Blank \in Object /\ 0 \in 0..MaxClock /\ 0 \in 0..MaxDumps
    BY BoundAssumption DEF Blank, Object
  <1>2. (CHOOSE f \in Fingerprints : TRUE) \in Fingerprints
    BY DedupAssumption
  <1>3. DedupOK
    BY <1>1, <1>2 DEF Init, DedupInit, DedupOK, Labels, Holding
  <1>4. results \in Seq(Outcomes) /\ Len(results) = 0 /\ Len(results) <= dumps
    BY DEF Init, BatchInit
  <1>5. BatchOK
    BY <1>1, <1>4 DEF Init, DedupInit, BatchInit, BatchOK, NoTotals, Jobs
  <1>6. DOMAIN rows = {}
    BY DEF Init
  <1>7. RowsOK
    BY <1>6, FS_EmptySet DEF RowsOK
  <1>8. QED
    BY <1>3, <1>5, <1>7 DEF Typed

LEMMA StepTyped ==
  ASSUME Typed, [Next]_vars
  PROVE  Typed'
  <1>1. CASE UNCHANGED vars
    <2>1. UNCHANGED <<clock, dedup, rows, batch, dumps>>
      BY <1>1 DEF vars, dedup, batch
    <2>2. DedupOK'
      BY <2>1, DedupFrame DEF Typed
    <2>3. RowsOK' /\ BatchOK'
      BY <1>1 DEF vars, Typed, RowsOK, BatchOK, Jobs
    <2>4. QED
      BY <2>2, <2>3 DEF Typed
  <1>2. ASSUME NEW w \in Workers, WorkerStep(w) PROVE Typed'
    BY <1>2, TakeJobTyped, CheckingTyped, FinishedTyped DEF WorkerStep
  <1>3. QED
    BY <1>1, <1>2, SubmitTyped, EndTyped, RequestTyped, RestartTyped DEF Next, BatchStep

\* Every variable keeps its type, whatever a batch, a request, a purge or a
\* restart does, and a job is run by one worker.
THEOREM TriageTypes == Spec => []TypeOK
  <1>1. Init => Typed
    BY InitTyped
  <1>2. Typed /\ [Next]_vars => Typed'
    BY StepTyped
  <1>3. Typed => TypeOK
    BY DEF Typed, DedupOK, BatchOK, RowsOK, TypeOK, Ids, Object, Outcomes
  <1>4. QED
    BY <1>1, <1>2, <1>3, PTL DEF Spec

-------------------------------------------------------------------------------
(***************************************************************************)
(* The bound on suppressions: a worker that has passed the test and not    *)
(* yet counted its suppression counts already.                             *)
(***************************************************************************)
Suppressors(r) == {w \in Workers : check[w] = "suppress" /\ held[w] = r}

SuppressInv ==
  \A r \in Refs :
    objects[r].suppressed + Cardinality(Suppressors(r)) <= MaxSuppressed + Cardinality(Workers) - 1

LEMMA SuppressorsCount ==
  ASSUME NEW r
  PROVE  /\ IsFiniteSet(Suppressors(r)) /\ Cardinality(Suppressors(r)) \in Nat
         /\ Cardinality(Suppressors(r)) <= Cardinality(Workers)
         /\ \A w \in Workers : w \notin Suppressors(r) => Cardinality(Suppressors(r)) <= Cardinality(Workers) - 1
  <1> DEFINE S == Suppressors(r)
  <1>1. S \subseteq Workers
    BY DEF Suppressors
  <1> HIDE DEF S
  <1>2. IsFiniteSet(S) /\ Cardinality(S) \in Nat /\ Cardinality(S) <= Cardinality(Workers)
    BY <1>1, DedupAssumption, FS_Subset, FS_CardinalityType
  <1>3. ASSUME NEW w \in Workers, w \notin S PROVE Cardinality(S) <= Cardinality(Workers) - 1
    <2>1. IsFiniteSet(Workers \ {w}) /\ Cardinality(Workers \ {w}) = Cardinality(Workers) - 1
      BY DedupAssumption, FS_RemoveElement
    <2>2. S \subseteq Workers \ {w}
      BY <1>1, <1>3
    <2>3. QED
      BY <2>1, <2>2, FS_Subset
  <1>4. QED
    BY <1>2, <1>3 DEF S

\* The suppressions of an object that nobody joins stay within the bound.
LEMMA SuppressorsFewer ==
  ASSUME DedupOK, DedupOK', SuppressInv, NEW r \in Refs,
         objects'[r].suppressed <= objects[r].suppressed,
         \A w \in Workers : check'[w] = "suppress" /\ held'[w] = r => check[w] = "suppress" /\ held[w] = r
  PROVE  objects'[r].suppressed + Cardinality(Suppressors(r)') <= MaxSuppressed + Cardinality(Workers) - 1
  <1> DEFINE S == Suppressors(r)
             T == Suppressors(r)'
             a == objects[r].suppressed
             b == objects'[r].suppressed
             c == Cardinality(S)
             d == Cardinality(T)
             n == Cardinality(Workers)
  <1>1. T \subseteq S
    BY DEF Suppressors
  <1>2. IsFiniteSet(S) /\ c \in Nat
    BY SuppressorsCount
  <1> HIDE DEF S, T
  <1>3. d \in Nat /\ d <= c
    BY <1>1, <1>2, FS_Subset, FS_CardinalityType
  <1>4. a \in Nat /\ b \in Nat /\ b <= a /\ n \in Nat
    BY RefsAreNumbers DEF DedupOK, Object
  <1>5. a + c <= MaxSuppressed + n - 1
    BY DEF SuppressInv, S
  <1> HIDE DEF a, b, c, d, n
  <1>6. b + d <= MaxSuppressed + n - 1
    BY <1>2, <1>3, <1>4, <1>5, DedupAssumption
  <1>7. QED
    BY <1>6 DEF T, b, d, n

\* An object set to zero is within the bound when one worker is elsewhere.
LEMMA SuppressorsReset ==
  ASSUME NEW r \in Refs, objects'[r].suppressed = 0, NEW w \in Workers, check'[w] # "suppress"
  PROVE  objects'[r].suppressed + Cardinality(Suppressors(r)') <= MaxSuppressed + Cardinality(Workers) - 1
  <1> DEFINE T == Suppressors(r)'
             d == Cardinality(T)
             n == Cardinality(Workers)
  <1>1. T \subseteq Workers \ {w}
    BY DEF Suppressors
  <1>2. IsFiniteSet(Workers \ {w}) /\ Cardinality(Workers \ {w}) = Cardinality(Workers) - 1
    BY DedupAssumption, FS_RemoveElement
  <1> HIDE DEF T
  <1>3. d \in Nat /\ d <= n - 1 /\ n \in Nat
    BY <1>1, <1>2, RefsAreNumbers, FS_Subset, FS_CardinalityType
  <1> HIDE DEF d, n
  <1>4. 0 + d <= MaxSuppressed + n - 1
    BY <1>3, DedupAssumption
  <1>5. QED
    BY <1>4 DEF T, d, n

LEMMA SuppressCheck ==
  ASSUME DedupOK, DedupOK', SuppressInv, clock \in 0..MaxClock, NEW w \in Workers, CheckStep(w)
  PROVE  SuppressInv'
  <1> DEFINE h == held[w]
             o == objects[h]
  <1>1. SUFFICES ASSUME NEW r \in Refs
                 PROVE  objects'[r].suppressed + Cardinality(Suppressors(r)')
                          <= MaxSuppressed + Cardinality(Workers) - 1
    BY DEF SuppressInv
  <1>2. objects[r] \in Object /\ (check[w] \in Holding => h \in Refs /\ o \in Object)
    BY HeldIsObject DEF DedupOK
  <1>3. objects[r].suppressed <= objects[r].suppressed
    BY <1>2 DEF Object
  <1>4. ASSUME NEW label, Step(w, label), label # "suppress", UNCHANGED held \/ held' = [held EXCEPT ![w] = 0]
        PROVE  /\ check'[w] # "suppress"
               /\ \A v \in Workers : check'[v] = "suppress" /\ held'[v] = r => check[v] = "suppress" /\ held[v] = r
    BY <1>4 DEF Step, DedupOK
  <1>5. CASE Lookup(w)
    <2>1. UNCHANGED objects /\ check' = [check EXCEPT ![w] = IF entries[target[w]] = 0 THEN "insert" ELSE "test"]
          /\ held' = [held EXCEPT ![w] = entries[target[w]]]
      BY <1>5 DEF Lookup, Step
    <2>2. \A v \in Workers : check'[v] = "suppress" /\ held'[v] = r => check[v] = "suppress" /\ held[v] = r
      BY <2>1 DEF DedupOK
    <2>3. QED
      BY <1>3, <2>1, <2>2, SuppressorsFewer
  <1>6. CASE TestWindow(w)
    <2>1. UNCHANGED objects /\ \E label : Step(w, label) /\ label # "suppress" /\ UNCHANGED held
      BY <1>6 DEF TestWindow
    <2>2. QED
      BY <1>3, <1>4, <2>1, SuppressorsFewer
  <1>7. CASE Insert(w)
    <2>1. Becomes(FreeRef, 1, 0, clock, 0) /\ h = 0
      BY <1>7, InsertEffect
    <2>2. FreeRef \in Refs
      BY <2>1, FreeRefIsFree
    <2>3. check'[w] # "suppress"
      BY <1>7 DEF Insert, Leave, Step, DedupOK
    <2>4. CASE r = FreeRef
      <3>1. objects'[r].suppressed = 0
        BY <2>1, <2>2, <2>4, BecomesOne
      <3>2. QED
        BY <2>3, <3>1, SuppressorsReset
    <2>5. CASE r # FreeRef
      <3>1. objects'[r] = objects[r]
        BY <2>1, <2>2, <2>5, BecomesOne
      <3>2. \A v \in Workers : check'[v] = "suppress" /\ held'[v] = r => check[v] = "suppress" /\ held[v] = r
        BY <1>4, <1>7 DEF Insert, Leave
      <3>3. QED
        BY <1>3, <3>1, <3>2, SuppressorsFewer
    <2>6. QED
      BY <2>4, <2>5
  <1>8. CASE Reset(w)
    <2>1. Becomes(h, 1, 0, o.last, 0) /\ h \in Refs
      BY <1>2, <1>8, ResetEffect DEF Reset, Holding
    <2>2. /\ check'[w] # "suppress"
          /\ \A v \in Workers : check'[v] = "suppress" /\ held'[v] = r => check[v] = "suppress" /\ held[v] = r
      BY <1>4, <1>8 DEF Reset, Leave
    <2>3. CASE r = h
      <3>1. objects'[r].suppressed = 0
        BY <2>1, <2>3, BecomesOne
      <3>2. QED
        BY <2>2, <3>1, SuppressorsReset
    <2>4. CASE r # h
      <3>1. objects'[r] = objects[r]
        BY <2>1, <2>4, BecomesOne
      <3>2. QED
        BY <1>3, <2>2, <3>1, SuppressorsFewer
    <2>5. QED
      BY <2>3, <2>4
  <1>9. ASSUME NEW c, NEW l, NEW a, Becomes(h, c, o.suppressed, l, a), h \in Refs,
               NEW label, Step(w, label), label # "suppress", UNCHANGED held \/ held' = [held EXCEPT ![w] = 0]
        PROVE  objects'[r].suppressed + Cardinality(Suppressors(r)') <= MaxSuppressed + Cardinality(Workers) - 1
    <2>1. objects'[r].suppressed = objects[r].suppressed
      <3>1. CASE r = h
        BY <1>9, <3>1, BecomesOne
      <3>2. CASE r # h
        BY <1>9, <3>2, BecomesOne
      <3>3. QED
        BY <3>1, <3>2
    <2>2. \A v \in Workers : check'[v] = "suppress" /\ held'[v] = r => check[v] = "suppress" /\ held[v] = r
      BY <1>4, <1>9
    <2>3. QED
      BY <1>3, <2>1, <2>2, SuppressorsFewer
  <1>10. CASE Renew(w) \/ Touch(w)
    <2>1. Becomes(h, o.count, o.suppressed, clock, o.alerts) /\ h \in Refs
      BY <1>2, <1>10, RenewEffect, TouchEffect DEF Renew, Touch, Holding
    <2>2. \E label : Step(w, label) /\ label # "suppress" /\ UNCHANGED held
      BY <1>10 DEF Renew, Touch
    <2>3. QED
      BY <1>9, <2>1, <2>2
  <1>11. CASE Count(w)
    <2>1. Becomes(h, num[w] + 1, o.suppressed, o.last, o.alerts) /\ h \in Refs
      BY <1>2, <1>11, CountEffect DEF Count, Holding
    <2>2. \E label : Step(w, label) /\ label # "suppress" /\ UNCHANGED held
      BY <1>11 DEF Count
    <2>3. QED
      BY <1>9, <2>1, <2>2
  <1>12. CASE Answer(w)
    <2> DEFINE a == o.alerts + IF o.count = AlertAfter THEN 1 ELSE 0
    <2>1. Becomes(h, o.count, o.suppressed, o.last, a) /\ h \in Refs
      BY <1>2, <1>12, AnswerEffect DEF Answer, Holding
    <2> HIDE DEF a
    <2>2. Step(w, "checked") /\ held' = [held EXCEPT ![w] = 0]
      BY <1>12 DEF Answer, Leave
    <2>3. QED
      BY <1>9, <2>1, <2>2
  <1>13. CASE Limit(w)
    <2>1. UNCHANGED objects /\ h \in Refs /\ o \in Object
      BY <1>2, <1>13 DEF Limit, Holding
    <2>2. CASE Exhausted(o.suppressed)
      <3>1. Step(w, "checked") /\ held' = [held EXCEPT ![w] = 0]
        BY <1>13, <2>2 DEF Limit, Leave
      <3>2. QED
        BY <1>3, <1>4, <2>1, <3>1, SuppressorsFewer
    <2>3. CASE ~Exhausted(o.suppressed)
      <3>1. check' = [check EXCEPT ![w] = "suppress"] /\ UNCHANGED held
        BY <1>13, <2>3 DEF Limit, Step
      <3>2. CASE r = h
        <4> DEFINE a == objects'[r].suppressed
                   d == Cardinality(Suppressors(r)')
                   n == Cardinality(Workers)
        <4>1. d \in Nat /\ d <= n /\ n \in Nat
          <5>1. Suppressors(r)' \subseteq Workers
            BY DEF Suppressors
          <5>2. QED
            BY <5>1, RefsAreNumbers, DedupAssumption, FS_Subset, FS_CardinalityType
        <4>2. a \in Nat /\ ~(a >= MaxSuppressed)
          BY <2>1, <2>3, <3>2 DEF Exhausted, Object
        <4> HIDE DEF a, d, n
        <4>3. a + d <= MaxSuppressed + n - 1
          BY <4>1, <4>2, DedupAssumption
        <4>4. QED
          BY <4>3 DEF a, d, n
      <3>3. CASE r # h
        <4>1. \A v \in Workers : check'[v] = "suppress" /\ held'[v] = r => check[v] = "suppress" /\ held[v] = r
          BY <3>1, <3>3 DEF DedupOK
        <4>2. QED
          BY <1>3, <2>1, <4>1, SuppressorsFewer
      <3>4. QED
        BY <3>2, <3>3
    <2>4. QED
      BY <2>2, <2>3
  <1>14. CASE Suppress(w)
    <2>1. Becomes(h, o.count, o.suppressed + 1, o.last, o.alerts) /\ h \in Refs /\ o \in Object
      BY <1>2, <1>14, SuppressEffect DEF Suppress, Holding
    <2>2. check[w] = "suppress" /\ check' = [check EXCEPT ![w] = "answer"] /\ UNCHANGED held
      BY <1>14 DEF Suppress, Step
    <2>3. CASE r = h
      <3> DEFINE S == Suppressors(r)
                 T == Suppressors(r)'
                 a == o.suppressed
                 b == objects'[r].suppressed
                 c == Cardinality(S)
                 d == Cardinality(T)
                 n == Cardinality(Workers)
      <3>1. w \in S /\ T = S \ {w}
        BY <2>2, <2>3 DEF Suppressors, DedupOK
      <3>2. IsFiniteSet(S) /\ c \in Nat
        BY SuppressorsCount
      <3> HIDE DEF S, T
      <3>3. d = c - 1
        BY <3>1, <3>2, FS_RemoveElement
      <3>4. a \in Nat /\ b = a + 1 /\ n \in Nat
        BY <2>1, <2>3, BecomesOne, RefsAreNumbers DEF Object
      <3>5. a + c <= MaxSuppressed + n - 1
        BY <2>3 DEF SuppressInv, S
      <3> HIDE DEF a, b, c, d, n
      <3>6. b + d <= MaxSuppressed + n - 1
        BY <3>2, <3>3, <3>4, <3>5, DedupAssumption
      <3>7. QED
        BY <3>6 DEF T, b, d, n
    <2>4. CASE r # h
      <3>1. objects'[r] = objects[r]
        BY <2>1, <2>4, BecomesOne
      <3>2. \A v \in Workers : check'[v] = "suppress" /\ held'[v] = r => check[v] = "suppress" /\ held[v] = r
        BY <2>2 DEF DedupOK
      <3>3. QED
        BY <1>3, <3>1, <3>2, SuppressorsFewer
    <2>5. QED
      BY <2>3, <2>4
  <1>15. QED
    BY <1>5, <1>6, <1>7, <1>8, <1>10, <1>11, <1>12, <1>13, <1>14 DEF CheckStep

\* Steps that leave the objects alone and bring nobody into check's suppression.
LEMMA SuppressFrame ==
  ASSUME DedupOK, DedupOK', SuppressInv, UNCHANGED <<objects, held>>,
         \A w \in Workers : check'[w] = "suppress" => check[w] = "suppress"
  PROVE  SuppressInv'
  <1>1. ASSUME NEW r \in Refs
        PROVE  objects'[r].suppressed + Cardinality(Suppressors(r)') <= MaxSuppressed + Cardinality(Workers) - 1
    <2>1. objects'[r].suppressed <= objects[r].suppressed
      BY DEF DedupOK, Object
    <2>2. QED
      BY <2>1, SuppressorsFewer
  <1>2. QED
    BY <1>1 DEF SuppressInv

LEMMA SuppressStep ==
  ASSUME Typed, Typed', SuppressInv, [Next]_vars
  PROVE  SuppressInv'
  <1>0. DedupOK /\ DedupOK' /\ clock \in 0..MaxClock
    BY DEF Typed, BatchOK
  <1>1. CASE UNCHANGED dedup
    BY <1>0, <1>1, SuppressFrame DEF dedup
  <1>2. ASSUME NEW w \in Workers, WorkerStep(w) PROVE SuppressInv'
    <2>1. CASE CheckStep(w)
      BY <1>0, <2>1, SuppressCheck
    <2>2. CASE Analysed(w)
      BY <1>0, <2>2, SuppressFrame DEF Analysed, CallCheck, Step, DedupOK
    <2>3. CASE Back(w)
      BY <1>0, <2>3, SuppressFrame DEF Back, Step, DedupOK
    <2>4. QED
      BY <1>1, <1>2, <2>1, <2>2, <2>3 DEF WorkerStep, TakeJob, NotCollected, AnalysisRaises, SaveJob, SaveFails
  <1>3. CASE CleanUp
    BY <1>0, <1>3, SuppressFrame DEF CleanUp, Cleanup
  <1>4. CASE Restart
    <2>1. \A r \in Refs : objects'[r].suppressed = 0
      BY <1>4 DEF Restart, Blank
    <2>2. \A w \in Workers : check'[w] # "suppress"
      BY <1>4 DEF Restart
    <2>3. QED
      BY <2>1, <2>2, SuppressorsReset, DedupAssumption DEF SuppressInv
  <1>5. QED
    BY <1>1, <1>2, <1>3, <1>4 DEF Next, BatchStep, SubmitBatch, EndBatch, Analyze, Purge, Tick, vars, dedup

\* However the workers' unlocked tests and increments interleave, an entry is
\* suppressed at most once more than max_suppressed for every worker but one.
THEOREM Suppressions == Spec => []SuppressionBound
  <1>1. Init => Typed /\ SuppressInv
    <2>1. SUFFICES ASSUME Init PROVE Typed /\ SuppressInv
      OBVIOUS
    <2>2. \A r \in Refs : objects[r].suppressed = 0 /\ Suppressors(r) = {}
      BY <2>1 DEF Init, DedupInit, Blank, Suppressors
    <2>3. Cardinality({}) = 0
      BY FS_EmptySet
    <2>4. 0 + 0 <= MaxSuppressed + Cardinality(Workers) - 1
      BY RefsAreNumbers, DedupAssumption
    <2>5. QED
      BY <2>1, <2>2, <2>3, <2>4, InitTyped DEF SuppressInv
  <1>2. Typed /\ SuppressInv /\ [Next]_vars => (Typed /\ SuppressInv)'
    BY StepTyped, SuppressStep
  <1>3. Typed /\ SuppressInv => SuppressionBound
    <2>1. SUFFICES ASSUME Typed, SuppressInv, NEW r \in Refs
                   PROVE  objects[r].suppressed <= MaxSuppressed + Cardinality(Workers) - 1
      BY DEF SuppressionBound
    <2> DEFINE a == objects[r].suppressed
               c == Cardinality(Suppressors(r))
               n == Cardinality(Workers)
    <2>2. a + c <= MaxSuppressed + n - 1 /\ a \in Nat /\ c \in Nat /\ n \in Nat
      BY <2>1, SuppressorsCount, RefsAreNumbers DEF SuppressInv, Typed, DedupOK, Object
    <2> HIDE DEF a, c, n
    <2>3. a <= MaxSuppressed + n - 1
      BY <2>2, DedupAssumption
    <2>4. QED
      BY <2>3 DEF a, n
  <1>4. QED
    BY <1>1, <1>2, <1>3, PTL DEF Spec

-------------------------------------------------------------------------------
(***************************************************************************)
(* The rows: a batch's own row under a job's id carries the batch's number *)
(* of dumps, which no earlier row does.                                    *)
(***************************************************************************)
Own(i) == JobId(i) \in DOMAIN rows /\ rows[JobId(i)].request = dumps

OutcomeInv ==
  running =>
    \A i \in Jobs :
      /\ results[i] = "saved" => Own(i)
      /\ results[i] # "saved" => ~Own(i)

\* No two jobs of a batch have the same id.
LEMMA JobIdsDiffer ==
  ASSUME NEW i, NEW j, JobId(i) = JobId(j)
  PROVE  i = j
  BY DEF JobId

\* Steps that change neither the batch nor its rows.
LEMMA OutcomeFrame ==
  ASSUME OutcomeInv, UNCHANGED <<second, results, running, rows, dumps>>
  PROVE  OutcomeInv'
  BY DEF OutcomeInv, Own, JobId, Jobs

\* A job of the batch ends: saved with a row, or without one.
LEMMA OutcomeFinish ==
  ASSUME Typed, OutcomeInv, NEW w \in Workers, NotCollected(w) \/ AnalysisRaises(w) \/ SaveJob(w) \/ SaveFails(w)
  PROVE  OutcomeInv'
  <1>1. PICK j \in Jobs : j = job[w] /\ j # 0 /\ running /\ results[j] = "pending"
    <2>1. Busy(w) \/ check[w] # "no"
      BY DEF NotCollected, AnalysisRaises, SaveJob, SaveFails, Back
    <2>2. QED
      BY <2>1 DEF Typed, BatchOK, Busy
  <1>2. UNCHANGED <<second, dumps, running>>
    BY DEF NotCollected, AnalysisRaises, SaveJob, SaveFails, Finish
  <1>3. \A i \in Jobs : JobId(i)' = JobId(i)
    BY <1>2 DEF JobId
  <1>4. ASSUME NEW x, Finish(w, x)
        PROVE  Jobs' = Jobs /\ results'[j] = x /\ \A i \in Jobs : i # j => results'[i] = results[i]
    BY <1>1, <1>4 DEF Finish, Jobs
  <1>5. CASE SaveJob(w)
    <2> DEFINE row == [fingerprint |-> target[w], created |-> started[w], request |-> dumps]
    <2>1. JobId(j) \in Ids /\ row \in Rows /\ row.request = dumps /\ SaveCrash(JobId(j), row)
      BY <1>1, <1>5, SavedRow DEF SaveJob
    <2>2. dumps \in Nat /\ dumps' \in Nat /\ dumps <= dumps'
      BY <1>2, BoundAssumption DEF Typed, BatchOK
    <2> HIDE DEF row
    <2>3. /\ DOMAIN rows' = DOMAIN rows \union {JobId(j)} /\ rows'[JobId(j)] = row
          /\ \A i \in DOMAIN rows : i # JobId(j) => rows'[i] = rows[i]
      BY <1>2, <2>1, <2>2, SaveEffect DEF Typed
    <2>4. Own(j)'
      BY <1>1, <1>2, <1>3, <2>1, <2>3 DEF Own
    <2>5. \A i \in Jobs : i # j => (Own(i)' <=> Own(i))
      BY <1>2, <1>3, <2>3, JobIdsDiffer DEF Own
    <2>6. Finish(w, "saved")
      BY <1>5 DEF SaveJob
    <2>7. QED
      BY <1>1, <1>2, <1>4, <2>4, <2>5, <2>6 DEF OutcomeInv
  <1>6. CASE NotCollected(w) \/ AnalysisRaises(w) \/ SaveFails(w)
    <2>1. UNCHANGED rows /\ (Finish(w, "unread") \/ Finish(w, "raised"))
      BY <1>6 DEF NotCollected, AnalysisRaises, SaveFails
    <2>2. \A i \in Jobs : Own(i)' <=> Own(i)
      BY <1>2, <1>3, <2>1 DEF Own
    <2>3. QED
      BY <1>1, <1>2, <1>4, <2>1, <2>2 DEF OutcomeInv
  <1>7. QED
    BY <1>5, <1>6

LEMMA OutcomeStep ==
  ASSUME Typed, Typed', OutcomeInv, [Next]_vars
  PROVE  OutcomeInv'
  <1>1. CASE UNCHANGED vars
    BY <1>1, OutcomeFrame DEF vars
  <1>2. CASE SubmitBatch
    <2>1. dumps < dumps' /\ dumps \in Nat /\ dumps' \in Nat
      BY <1>2, SubmitTyped, BoundAssumption DEF Typed, BatchOK
    <2>2. UNCHANGED rows /\ \A i \in Jobs' : results'[i] = "pending"
      BY <1>2 DEF SubmitBatch, Jobs
    <2>3. ASSUME NEW id \in DOMAIN rows PROVE rows[id].request # dumps'
      <3> DEFINE q == rows[id].request
      <3>1. q \in Nat /\ q <= dumps
        BY BoundAssumption DEF Typed, RowsOK, Rows
      <3> HIDE DEF q
      <3>2. q # dumps'
        BY <2>1, <3>1
      <3>3. QED
        BY <3>2 DEF q
    <2>4. \A i \in Jobs' : ~Own(i)'
      BY <2>2, <2>3 DEF Own
    <2>5. QED
      BY <2>2, <2>4 DEF OutcomeInv
  <1>3. ASSUME NEW w \in Workers, WorkerStep(w) PROVE OutcomeInv'
    <2>1. CASE TakeJob(w) \/ Analysed(w) \/ (CheckStep(w) /\ UNCHANGED <<clock, rows, batch, cached, dumps>>)
      BY <2>1, OutcomeFrame DEF TakeJob, Analysed, batch
    <2>2. QED
      BY <1>3, <2>1, OutcomeFinish DEF WorkerStep
  <1>4. CASE EndBatch \/ Restart
    <2>1. running' = FALSE
      BY <1>4 DEF EndBatch, Restart
    <2>2. QED
      BY <2>1 DEF OutcomeInv
  <1>5. CASE Analyze \/ Purge \/ CleanUp
    <2>1. ~running /\ UNCHANGED running
      BY <1>5 DEF Analyze, Purge, CleanUp, batch
    <2>2. QED
      BY <2>1 DEF OutcomeInv
  <1>6. CASE Tick
    BY <1>6, OutcomeFrame DEF Tick, batch
  <1>7. QED
    BY <1>1, <1>2, <1>3, <1>4, <1>5, <1>6 DEF Next, BatchStep

LEMMA InitOutcomes ==
  ASSUME Init
  PROVE  OutcomeInv
  BY DEF Init, BatchInit, OutcomeInv

\* While a batch runs, a job reported saved has its own row in the database, a
\* duplicate's too, and one that failed or read nothing has left none.
THEOREM ReportsMatchRows == Spec => []OutcomesMatchRows
  <1>1. Init => Typed /\ OutcomeInv
    BY InitTyped, InitOutcomes
  <1>2. Typed /\ OutcomeInv /\ [Next]_vars => (Typed /\ OutcomeInv)'
    BY StepTyped, OutcomeStep
  <1>3. OutcomeInv => OutcomesMatchRows
    BY DEF OutcomeInv, OutcomesMatchRows, Own
  <1>4. QED
    BY <1>1, <1>2, <1>3, PTL DEF Spec

-------------------------------------------------------------------------------
(* What goes from the table, and what its queries return *)

\* A row that the purge takes is older than the days asked for.
LEMMA BeforeIsOlder ==
  ASSUME NEW created \in Int, NEW cutoff \in Int
  PROVE  /\ Before(created, cutoff) => created < cutoff
         /\ ~Before(created, cutoff) => cutoff - created < DayLength
  <1>1. cutoff <= created => Day(cutoff) <= Day(created)
    BY DayMonotone
  <1>2. Day(created) \in Int /\ Day(cutoff) \in Int
    BY DayBounds
  <1>3. Before(created, cutoff) => created < cutoff
    BY <1>1, <1>2 DEF Before
  <1> DEFINE a == Day(created)
             b == Day(cutoff)
             x == a * DayLength
             y == b * DayLength
  <1>4. ASSUME ~Before(created, cutoff) PROVE cutoff - created < DayLength
    <2>1. a \in Int /\ b \in Int /\ b <= a
      BY <1>2, <1>4 DEF Before
    <2>2. x <= created /\ cutoff < y + DayLength
      BY DayBounds
    <2>3. DayLength \in Nat
      BY DayAssumption
    <2> HIDE DEF a, b
    <2>4. y <= x /\ x \in Int /\ y \in Int
      BY <2>1, <2>3
    <2> HIDE DEF x, y
    <2>5. QED
      BY <2>2, <2>3, <2>4
  <1>5. QED
    BY <1>3, <1>4

KeptStep ==
  \A i \in DOMAIN rows :
    \/ i \in DOMAIN rows' /\ rows'[i] = rows[i]
    \/ i \in DOMAIN rows' /\ rows'[i].request > rows[i].request
    \/ i \notin DOMAIN rows' /\ \E days \in Days : clock - rows[i].created > days * DayLength

LEMMA StepKeeps ==
  ASSUME Typed, OutcomeInv, [Next]_vars
  PROVE  KeptStep
  <1>1. CASE UNCHANGED rows
    BY <1>1 DEF KeptStep
  <1>2. dumps \in Nat /\ \A i \in DOMAIN rows : rows[i].request \in Nat /\ rows[i].request <= dumps
    BY BoundAssumption DEF Typed, BatchOK, RowsOK, Rows
  <1>3. ASSUME NEW w \in Workers, SaveJob(w) PROVE KeptStep
    <2> DEFINE id == JobId(job[w])
               row == [fingerprint |-> target[w], created |-> started[w], request |-> dumps]
    <2>1. job[w] # 0 /\ job[w] \in Jobs /\ running /\ results[job[w]] = "pending"
      BY <1>3 DEF SaveJob, Back, Typed, BatchOK
    <2>2. id \in Ids /\ row \in Rows /\ row.request = dumps /\ SaveCrash(id, row) /\ UNCHANGED dumps
      BY <1>3, <2>1, SavedRow DEF SaveJob
    <2>3. ~Own(job[w])
      BY <2>1 DEF OutcomeInv
    <2> HIDE DEF row
    <2>4. /\ DOMAIN rows' = DOMAIN rows \union {id} /\ rows'[id] = row
          /\ \A i \in DOMAIN rows : i # id => rows'[i] = rows[i]
      BY <1>2, <2>2, SaveEffect DEF Typed
    <2>5. id \in DOMAIN rows => rows'[id].request > rows[id].request
      <3>1. SUFFICES ASSUME id \in DOMAIN rows PROVE rows'[id].request > rows[id].request
        OBVIOUS
      <3>2. rows[id].request # dumps /\ rows[id].request \in Nat /\ rows[id].request <= dumps
        BY <1>2, <2>3, <3>1 DEF Own
      <3> DEFINE q == rows[id].request
      <3>3. q \in Nat /\ q <= dumps /\ q # dumps
        BY <3>2
      <3> HIDE DEF q
      <3>4. dumps > q
        BY <1>2, <3>3
      <3>5. QED
        BY <2>2, <2>4, <3>4 DEF q
    <2> HIDE DEF id
    <2>6. QED
      BY <2>4, <2>5 DEF KeptStep
  <1>4. CASE Analyze
    <2>1. dumps' = dumps + 1 /\ clock \in 0..MaxClock /\ dumps' \in 1..MaxDumps
      BY <1>2, <1>4, BoundAssumption DEF Analyze, Typed, BatchOK
    <2>2. PICK f \in Fingerprints :
             \/ SaveCrash(ApiId, [fingerprint |-> f, created |-> clock, request |-> dumps'])
             \/ UNCHANGED rows
      BY <1>4 DEF Analyze
    <2> DEFINE row == [fingerprint |-> f, created |-> clock, request |-> dumps']
    <2>3. CASE SaveCrash(ApiId, row)
      <3>1. row \in Rows /\ row.request = dumps'
        BY <2>1 DEF Rows
      <3>2. ApiId \in Ids
        BY <2>1, BoundAssumption DEF ApiId, Ids
      <3> HIDE DEF row
      <3>3. row.request <= dumps' /\ dumps' \in Nat /\ dumps <= dumps'
        BY <1>2, <2>1, <3>1
      <3>4. /\ DOMAIN rows' = DOMAIN rows \union {ApiId} /\ rows'[ApiId] = row
            /\ \A i \in DOMAIN rows : i # ApiId => rows'[i] = rows[i]
        BY <1>2, <2>3, <3>1, <3>2, <3>3, SaveEffect DEF Typed
      <3>5. ApiId \in DOMAIN rows => rows'[ApiId].request > rows[ApiId].request
        <4>1. SUFFICES ASSUME ApiId \in DOMAIN rows PROVE rows'[ApiId].request > rows[ApiId].request
          OBVIOUS
        <4> DEFINE q == rows[ApiId].request
        <4>2. q \in Nat /\ q <= dumps
          BY <1>2, <4>1
        <4> HIDE DEF q
        <4>3. dumps' > q
          BY <1>2, <2>1, <4>2
        <4>4. QED
          BY <3>1, <3>4, <4>3 DEF q
      <3>6. QED
        BY <3>4, <3>5 DEF KeptStep
    <2>4. QED
      BY <1>1, <2>2, <2>3
  <1>5. CASE Purge
    <2>1. PICK days \in Days : PurgeOld(clock, days)
      BY <1>5 DEF Purge
    <2>2. UNCHANGED dumps
      BY <1>5 DEF Purge
    <2>3. /\ DOMAIN rows' = Recent(clock, days * DayLength)
          /\ \A i \in DOMAIN rows' : i \in DOMAIN rows /\ rows'[i] = rows[i]
      BY <2>1, <2>2, PurgeEffect DEF Typed
    <2>4. ASSUME NEW i \in DOMAIN rows, i \notin DOMAIN rows'
          PROVE  clock - rows[i].created > days * DayLength
      <3> DEFINE c == rows[i].created
                 span == days * DayLength
      <3>1. Before(c, clock - span)
        BY <2>3, <2>4 DEF Recent
      <3>2. c \in Int /\ clock \in Int
        BY BoundAssumption DEF Typed, RowsOK, BatchOK, Rows
      <3>3. days \in Int /\ DayLength \in Int
        BY DaysAssumption, DayAssumption
      <3>4. span \in Int
        BY <3>3
      <3> HIDE DEF c, span
      <3>5. c < clock - span
        BY <3>1, <3>2, <3>4, BeforeIsOlder
      <3>6. clock - c > span
        BY <3>2, <3>4, <3>5
      <3>7. QED
        BY <3>6 DEF c, span
    <2>5. QED
      BY <2>3, <2>4 DEF KeptStep
  <1>6. ASSUME NEW w \in Workers, WorkerStep(w) PROVE KeptStep
    BY <1>1, <1>3, <1>6 DEF WorkerStep, TakeJob, Analysed, NotCollected, AnalysisRaises, SaveFails
  <1>7. QED
    BY <1>1, <1>4, <1>5, <1>6 DEF Next, BatchStep, SubmitBatch, EndBatch, CleanUp, Restart, Tick, vars

\* A saved crash goes only by a purge that it is old enough for, or when a later
\* request gives the same id; never through a job of its own batch.
THEOREM RowsAreKept == Spec => RowsKept
  <1>1. Init => Typed /\ OutcomeInv
    BY InitTyped, InitOutcomes
  <1>2. Typed /\ OutcomeInv /\ [Next]_vars => (Typed /\ OutcomeInv)'
    BY StepTyped, OutcomeStep
  <1>3. Typed /\ OutcomeInv /\ [Next]_vars => [KeptStep]_vars
    BY StepKeeps
  <1>4. RowsKept <=> [][KeptStep]_vars
    BY PTL DEF RowsKept, KeptStep
  <1>5. QED
    BY <1>1, <1>2, <1>3, <1>4, PTL DEF Spec

\* The comparison of time stamps as texts loses no crash at the edge of a
\* window: a list over a span holds every crash of the span and none a day
\* older, and a fingerprint with enough crashes within the days is a trend.
THEOREM QueriesCover == Spec => []QueriesCoverWindow
  <1>1. Typed => QueriesCoverWindow
    <2>1. SUFFICES ASSUME Typed PROVE QueriesCoverWindow
      OBVIOUS
    <2>2. clock \in Int /\ \A i \in DOMAIN rows : rows[i].created \in Int
      BY <2>1, BoundAssumption DEF Typed, RowsOK, BatchOK, Rows
    <2>3. ASSUME NEW span \in Int, NEW i \in DOMAIN rows
          PROVE  LET age == clock - rows[i].created
                 IN  /\ age <= span => i \in Recent(clock, span)
                     /\ i \in Recent(clock, span) => age < span + DayLength
      <3> DEFINE c == rows[i].created
      <3>1. c \in Int /\ DayLength \in Nat /\ clock - span \in Int
        BY <2>2, DayAssumption
      <3>2. i \in Recent(clock, span) <=> ~Before(c, clock - span)
        BY DEF Recent
      <3> HIDE DEF c
      <3>3. /\ Before(c, clock - span) => c < clock - span
            /\ ~Before(c, clock - span) => (clock - span) - c < DayLength
        BY <3>1, BeforeIsOlder
      <3>4. /\ clock - c <= span => i \in Recent(clock, span)
            /\ i \in Recent(clock, span) => clock - c < span + DayLength
        BY <2>2, <3>1, <3>2, <3>3
      <3>5. QED
        BY <3>4 DEF c
    <2>4. ASSUME NEW days \in Days, NEW f \in Fingerprints
          PROVE  LET within == {i \in DOMAIN rows : rows[i].fingerprint = f
                                                      /\ clock - rows[i].created <= days * DayLength}
                 IN  within # {} => f \in GetTrends(days, Cardinality(within))
      <3> DEFINE span == days * DayLength
                 within == {i \in DOMAIN rows : rows[i].fingerprint = f /\ clock - rows[i].created <= span}
                 found == {i \in Recent(clock, span) : rows[i].fingerprint = f}
      <3>1. span \in Int
        <4>1. days \in Int /\ DayLength \in Int
          BY DaysAssumption, DayAssumption
        <4>2. QED
          BY <4>1
      <3> HIDE DEF span
      <3>2. within \subseteq found
        BY <2>3, <3>1
      <3>3. found \subseteq DOMAIN rows
        BY DEF Recent
      <3> HIDE DEF within, found
      <3>4. IsFiniteSet(found)
        BY <2>1, <3>3, FS_Subset DEF Typed, RowsOK
      <3>5. Cardinality(within) <= Cardinality(found) /\ Cardinality(within) \in Nat /\ Cardinality(found) \in Nat
        BY <3>2, <3>4, FS_Subset, FS_CardinalityType
      <3>6. Occurrences(clock, days, f) = Cardinality(found)
        BY DEF Occurrences, found, span
      <3>7. f \in GetTrends(days, Cardinality(within))
        BY <3>5, <3>6 DEF GetTrends, Trends
      <3>8. QED
        BY <3>7 DEF within, span
    <2>5. \A hours \in 0..MaxClock : hours \in Int
      BY BoundAssumption
    <2>6. QED
      BY <2>3, <2>4, <2>5 DEF QueriesCoverWindow, ListCrashes
  <1>2. Init => Typed
    BY InitTyped
  <1>3. Typed /\ [Next]_vars => Typed'
    BY StepTyped
  <1>4. QED
    BY <1>1, <1>2, <1>3, PTL DEF Spec

-------------------------------------------------------------------------------
(***************************************************************************)
(* One alert per window, as long as checks do not overlap.  An entry that  *)
(* nobody is checking has a count, a number of suppressions and an alert   *)
(* that agree; from the write of the count to the answer they are behind   *)
(* by one, and by the worker's label one knows which.                      *)
(***************************************************************************)
Suppressed(n) == IF n <= MaxSuppressed THEN n ELSE MaxSuppressed

Settled(o)   == o.count >= 1 /\ o.suppressed = Suppressed(o.count - 1) /\ o.alerts = Due(o.count)
Counted(o)   == o.count >= 2 /\ o.suppressed = Suppressed(o.count - 2) /\ o.alerts = Due(o.count - 1)
Answering(o) == o.count >= 2 /\ o.suppressed = Suppressed(o.count - 1) /\ o.alerts = Due(o.count - 1)

Late == {"limit", "suppress", "answer"}

Stage(w) ==
  /\ check[w] \in Holding => held[w] = entries[target[w]]
  /\ check[w] = "count" => num[w] = objects[held[w]].count
  /\ check[w] \in {"limit", "suppress"} => Counted(objects[held[w]])
  /\ check[w] = "suppress" => objects[held[w]].suppressed < MaxSuppressed
  /\ check[w] = "answer" => Answering(objects[held[w]])

OneCheck == \A v, w \in Workers : Checking(v) /\ Checking(w) => v = w

AllSettled ==
  \A f \in Fingerprints :
    entries[f] # 0 => \/ Settled(objects[entries[f]])
                      \/ \E w \in Workers : check[w] \in Late /\ held[w] = entries[f]

Orderly == OneCheck /\ AllSettled /\ \A w \in Workers : Checking(w) => Stage(w)

AlertInv == Distinct /\ (~contended /\ AlertAfter <= MaxSuppressed + 1 => Orderly)

\* How a check that nobody disturbs moves the three numbers on.
LEMMA Numbers ==
  ASSUME AlertAfter <= MaxSuppressed + 1, NEW o \in Object, NEW q \in Object
  PROVE  /\ q.count = 1 /\ q.suppressed = 0 /\ q.alerts = 0 => Settled(q)
         /\ Settled(o) /\ q.count = o.count /\ q.suppressed = o.suppressed /\ q.alerts = o.alerts => Settled(q)
         /\ Settled(o) /\ q.count = o.count + 1 /\ q.suppressed = o.suppressed /\ q.alerts = o.alerts => Counted(q)
         /\ Counted(o) /\ o.suppressed >= MaxSuppressed => Settled(o)
         /\ Counted(o) /\ o.suppressed < MaxSuppressed
              /\ q.count = o.count /\ q.suppressed = o.suppressed + 1 /\ q.alerts = o.alerts => Answering(q)
         /\ Answering(o) /\ q.count = o.count /\ q.suppressed = o.suppressed
              /\ q.alerts = o.alerts + (IF o.count = AlertAfter THEN 1 ELSE 0) => Settled(q)
  <1> DEFINE c == o.count  s == o.suppressed  a == o.alerts
             d == q.count  t == q.suppressed  b == q.alerts
  <1>1. /\ c \in Nat /\ s \in Nat /\ a \in Nat /\ d \in Nat /\ t \in Nat /\ b \in Nat
        /\ AlertAfter \in Nat \ {0, 1} /\ MaxSuppressed \in Nat
    BY DedupAssumption DEF Object
  <1>2. /\ Settled(o) <=> c >= 1 /\ s = Suppressed(c - 1) /\ a = Due(c)
        /\ Counted(o) <=> c >= 2 /\ s = Suppressed(c - 2) /\ a = Due(c - 1)
        /\ Answering(o) <=> c >= 2 /\ s = Suppressed(c - 1) /\ a = Due(c - 1)
    BY DEF Settled, Counted, Answering
  <1>3. /\ Settled(q) <=> d >= 1 /\ t = Suppressed(d - 1) /\ b = Due(d)
        /\ Counted(q) <=> d >= 2 /\ t = Suppressed(d - 2) /\ b = Due(d - 1)
        /\ Answering(q) <=> d >= 2 /\ t = Suppressed(d - 1) /\ b = Due(d - 1)
    BY DEF Settled, Counted, Answering
  <1> HIDE DEF c, s, a, d, t, b
  <1>4. d = 1 /\ t = 0 /\ b = 0 => Settled(q)
    BY <1>1, <1>3 DEF Suppressed, Due
  <1>5. Settled(o) /\ d = c /\ t = s /\ b = a => Settled(q)
    BY <1>2, <1>3
  <1>6. Settled(o) /\ d = c + 1 /\ t = s /\ b = a => Counted(q)
    <2>1. (c + 1) - 2 = c - 1 /\ (c + 1) - 1 = c /\ (c >= 1 => c + 1 >= 2)
      BY <1>1
    <2>2. QED
      BY <1>2, <1>3, <2>1
  <1>7. Counted(o) /\ s >= MaxSuppressed => Settled(o)
    BY <1>1, <1>2 DEF Suppressed, Due
  <1>8. Counted(o) /\ s < MaxSuppressed /\ d = c /\ t = s + 1 /\ b = a => Answering(q)
    BY <1>1, <1>2, <1>3 DEF Suppressed
  <1>9. Answering(o) /\ d = c /\ t = s /\ b = a + (IF c = AlertAfter THEN 1 ELSE 0) => Settled(q)
    BY <1>1, <1>2, <1>3 DEF Due
  <1>10. QED
    BY <1>4, <1>5, <1>6, <1>7, <1>8, <1>9 DEF c, s, a, d, t, b

\* The entries of other fingerprints than the one that is being checked.
LEMMA OthersSettled ==
  ASSUME DedupOK, Distinct, Orderly, NEW w \in Workers, Checking(w), NEW f \in Fingerprints, entries[f] # 0,
         check[w] \notin Late \/ f # target[w]
  PROVE  Settled(objects[entries[f]])
  <1>1. SUFFICES ASSUME NEW v \in Workers, check[v] \in Late, held[v] = entries[f] PROVE FALSE
    BY DEF Orderly, AllSettled
  <1>2. v = w
    BY <1>1 DEF Orderly, OneCheck, Checking, Late
  <1>3. check[w] \in Late /\ Stage(w)
    BY <1>1, <1>2 DEF Orderly
  <1>4. entries[target[w]] = entries[f] /\ target[w] \in Fingerprints
    BY <1>1, <1>2, <1>3 DEF Stage, Late, Holding, DedupOK
  <1>5. QED
    BY <1>3, <1>4 DEF Distinct

\* A step of a worker on the object that it holds.
LEMMA HoldingStep ==
  ASSUME DedupOK, DedupOK', Distinct, Orderly, NEW w \in Workers, check[w] \in Holding,
         UNCHANGED <<entries, target>>,
         \A q \in Refs : q # held[w] => objects'[q] = objects[q],
         \A v \in Workers : v # w => check'[v] = check[v],
         Settled(objects'[held[w]]) \/ (check'[w] \in Late /\ held'[w] = held[w]),
         Checking(w)' => Stage(w)'
  PROVE  Distinct' /\ Orderly'
  <1>1. Checking(w)
    BY DEF Checking, Holding
  <1>2. \A v \in Workers : Checking(v)' => v = w
    BY <1>1 DEF Orderly, OneCheck, Checking
  <1>3. held[w] = entries[target[w]]
    BY <1>1 DEF Orderly, Stage
  <1>4. AllSettled'
    <2>1. SUFFICES ASSUME NEW f \in Fingerprints, entries[f] # 0
                   PROVE  \/ Settled(objects'[entries[f]])
                          \/ \E v \in Workers : check'[v] \in Late /\ held'[v] = entries[f]
      BY DEF AllSettled
    <2>2. CASE f = target[w]
      BY <1>3, <2>2
    <2>3. CASE f # target[w]
      <3>1. Settled(objects[entries[f]])
        BY <1>1, <2>1, <2>3, OthersSettled
      <3>2. entries[f] # held[w] /\ entries[f] \in Refs
        BY <1>3, <2>1, <2>3 DEF Distinct, DedupOK
      <3>3. QED
        BY <3>1, <3>2
    <2>4. QED
      BY <2>2, <2>3
  <1>5. Distinct'
    BY DEF Distinct
  <1>6. QED
    BY <1>2, <1>4, <1>5 DEF Orderly, OneCheck

\* A step of check, when nobody else is in check.
LEMMA OrderlyCheck ==
  ASSUME DedupOK, DedupOK', AlertAfter <= MaxSuppressed + 1, Distinct, Orderly,
         NEW w \in Workers, CheckStep(w)
  PROVE  Distinct' /\ Orderly'
  <1> DEFINE h == held[w]
             o == objects[h]
  <1>1. Checking(w) /\ \A v \in Workers : Checking(v) => v = w
    <2>1. Checking(w)
      BY DEF CheckStep, Lookup, Insert, TestWindow, Renew, Reset, Touch, Count, Limit, Suppress, Answer, Checking
    <2>2. QED
      BY <2>1 DEF Orderly, OneCheck
  <1>2. Stage(w)
    BY <1>1 DEF Orderly
  <1>3. check[w] \in Holding => h \in Refs /\ o \in Object /\ h = entries[target[w]] /\ h # 0 /\ objects'[h] \in Object
    <2>1. check[w] \in Holding => h \in Refs /\ o \in Object
      BY HeldIsObject
    <2>2. 0 \notin Refs
      BY RefsAreNumbers
    <2>3. QED
      BY <1>2, <2>1, <2>2 DEF Stage, DedupOK
  <1>4. check[w] \in Holding \ Late => Settled(o)
    BY <1>1, <1>3, OthersSettled DEF DedupOK
  <1>5. ASSUME NEW label, Step(w, label)
        PROVE  check'[w] = label /\ \A v \in Workers : v # w => check'[v] = check[v]
    BY <1>5 DEF Step, DedupOK
  <1>6. ASSUME Leave(w)
        PROVE  /\ check'[w] = "checked" /\ ~Checking(w)' /\ \A v \in Workers : v # w => check'[v] = check[v]
               /\ held' = [held EXCEPT ![w] = 0]
    BY <1>5, <1>6 DEF Leave, Checking
  <1>7. CASE Lookup(w)
    <2>1. UNCHANGED <<entries, objects, target>> /\ held'[w] = entries[target[w]]
      BY <1>7 DEF Lookup, DedupOK
    <2>2. check'[w] \in {"insert", "test"} /\ \A v \in Workers : v # w => check'[v] = check[v]
      BY <1>5, <1>7 DEF Lookup
    <2>3. \A f \in Fingerprints : entries[f] # 0 => Settled(objects[entries[f]])
      BY <1>1, <1>7, OthersSettled DEF Lookup, Late
    <2>4. Stage(w)'
      BY <2>1, <2>2 DEF Stage
    <2>5. OneCheck' /\ AllSettled' /\ Distinct'
      <3>1. OneCheck'
        BY <1>1, <2>2 DEF OneCheck, Checking
      <3>2. AllSettled'
        BY <2>1, <2>3 DEF AllSettled
      <3>3. QED
        BY <2>1, <3>1, <3>2 DEF Distinct
    <2>6. QED
      BY <1>1, <2>2, <2>4, <2>5 DEF Orderly, Checking
  <1>8. CASE Insert(w)
    <2>1. /\ Becomes(FreeRef, 1, 0, clock, 0) /\ entries' = [entries EXCEPT ![target[w]] = FreeRef]
          /\ held[w] = 0
      BY <1>8, InsertEffect
    <2>2. FreeRef \in Refs /\ \A f \in Fingerprints : entries[f] # FreeRef
      BY <2>1, FreeRefIsFree
    <2> DEFINE n == FreeRef
    <2>3. n \in Refs /\ (\A f \in Fingerprints : entries[f] # n)
          /\ Becomes(n, 1, 0, clock, 0) /\ entries' = [entries EXCEPT ![target[w]] = n]
      BY <2>1, <2>2
    <2> HIDE DEF n
    <2>4. /\ \A q \in Refs : q # n => objects'[q] = objects[q]
          /\ objects'[n].count = 1 /\ objects'[n].suppressed = 0 /\ objects'[n].alerts = 0 /\ objects'[n] \in Object
      BY <2>3, BecomesOne DEF DedupOK
    <2>5. Settled(objects'[n])
      BY <2>4, Numbers
    <2>6. ~Checking(w)' /\ \A v \in Workers : v # w => check'[v] = check[v]
      BY <1>6, <1>8 DEF Insert
    <2>7. \A v \in Workers : ~Checking(v)'
      BY <1>1, <2>6 DEF Checking
    <2>8. AllSettled'
      <3>1. SUFFICES ASSUME NEW f \in Fingerprints, entries'[f] # 0 PROVE Settled(objects'[entries'[f]])
        BY DEF AllSettled
      <3>2. CASE f = target[w]
        <4>1. entries'[f] = n
          BY <2>3, <3>2 DEF DedupOK
        <4>2. QED
          BY <2>5, <4>1
      <3>3. CASE f # target[w]
        <4>1. entries'[f] = entries[f] /\ entries[f] # n /\ entries[f] \in Refs
          BY <2>3, <3>1, <3>3 DEF DedupOK
        <4>2. Settled(objects[entries[f]])
          BY <1>1, <3>1, <3>3, <4>1, OthersSettled
        <4>3. QED
          BY <2>4, <4>1, <4>2
      <3>4. QED
        BY <3>2, <3>3
    <2>9. Distinct'
      BY <2>3 DEF Distinct, DedupOK
    <2>10. QED
      BY <2>7, <2>8, <2>9 DEF Orderly, OneCheck
  <1>9. CASE TestWindow(w)
    <2>1. UNCHANGED <<entries, target, objects, held>> /\ check[w] = "test"
          /\ check'[w] \in {"renew", "touch"} /\ \A v \in Workers : v # w => check'[v] = check[v]
      BY <1>5, <1>9 DEF TestWindow
    <2>2. Settled(objects'[held[w]]) /\ Stage(w)'
      BY <1>3, <1>4, <2>1 DEF Stage, Holding, Late
    <2>3. QED
      BY <2>1, <2>2, HoldingStep DEF Holding
  <1>10. CASE Renew(w)
    <2>1. UNCHANGED <<entries, target, held, num>> /\ check[w] = "renew"
          /\ check'[w] = "reset" /\ \A v \in Workers : v # w => check'[v] = check[v]
      BY <1>5, <1>10 DEF Renew
    <2>2. Becomes(h, o.count, o.suppressed, clock, o.alerts) /\ check[w] \in Holding
      BY <1>10, <2>1, RenewEffect DEF Holding
    <2>3. objects'[h].count = o.count /\ objects'[h].suppressed = o.suppressed /\ objects'[h].alerts = o.alerts
          /\ \A q \in Refs : q # h => objects'[q] = objects[q]
      BY <1>3, <2>2, BecomesOne
    <2>4. Settled(o)
      BY <1>4, <2>1 DEF Holding, Late
    <2>5. Settled(objects'[h])
      BY <1>3, <2>2, <2>3, <2>4, Numbers
    <2>6. Stage(w)'
      BY <1>3, <2>1, <2>2 DEF Stage
    <2>7. QED
      BY <2>1, <2>2, <2>3, <2>5, <2>6, HoldingStep
  <1>11. CASE Touch(w)
    <2>1. UNCHANGED <<entries, target, held>> /\ check[w] = "touch" /\ num'[w] = o.count
          /\ check'[w] = "count" /\ \A v \in Workers : v # w => check'[v] = check[v]
      BY <1>5, <1>11 DEF Touch, DedupOK
    <2>2. Becomes(h, o.count, o.suppressed, clock, o.alerts) /\ check[w] \in Holding
      BY <1>11, <2>1, TouchEffect DEF Holding
    <2>3. objects'[h].count = o.count /\ objects'[h].suppressed = o.suppressed /\ objects'[h].alerts = o.alerts
          /\ \A q \in Refs : q # h => objects'[q] = objects[q]
      BY <1>3, <2>2, BecomesOne
    <2>4. Settled(o)
      BY <1>4, <2>1 DEF Holding, Late
    <2>5. Settled(objects'[h])
      BY <1>3, <2>2, <2>3, <2>4, Numbers
    <2>6. Stage(w)'
      BY <1>3, <2>1, <2>2, <2>3 DEF Stage
    <2>7. QED
      BY <2>1, <2>2, <2>3, <2>5, <2>6, HoldingStep
  <1>12. CASE Count(w)
    <2>1. UNCHANGED <<entries, target, held>> /\ check[w] = "count" /\ num[w] = o.count
          /\ check'[w] = "limit" /\ \A v \in Workers : v # w => check'[v] = check[v]
      BY <1>2, <1>5, <1>12 DEF Count, Stage
    <2>2. Becomes(h, num[w] + 1, o.suppressed, o.last, o.alerts) /\ check[w] \in Holding
      BY <1>12, <2>1, CountEffect DEF Holding
    <2>3. objects'[h].count = o.count + 1 /\ objects'[h].suppressed = o.suppressed /\ objects'[h].alerts = o.alerts
          /\ \A q \in Refs : q # h => objects'[q] = objects[q]
      BY <1>3, <2>1, <2>2, BecomesOne
    <2>4. Settled(o)
      BY <1>4, <2>1 DEF Holding, Late
    <2>5. Counted(objects'[h])
      BY <1>3, <2>2, <2>3, <2>4, Numbers
    <2>6. Stage(w)'
      BY <1>3, <2>1, <2>2, <2>5 DEF Stage
    <2>7. QED
      BY <2>1, <2>2, <2>3, <2>6, HoldingStep DEF Late
  <1>13. CASE Reset(w)
    <2>1. UNCHANGED <<entries, target>> /\ check[w] \in Holding /\ ~Checking(w)'
          /\ \A v \in Workers : v # w => check'[v] = check[v]
      BY <1>6, <1>13 DEF Reset, Holding
    <2>2. Becomes(h, 1, 0, o.last, 0)
      BY <1>13, ResetEffect
    <2>3. objects'[h].count = 1 /\ objects'[h].suppressed = 0 /\ objects'[h].alerts = 0
          /\ \A q \in Refs : q # h => objects'[q] = objects[q]
      BY <1>3, <2>1, <2>2, BecomesOne
    <2>4. Settled(objects'[h])
      BY <1>3, <2>1, <2>3, Numbers
    <2>5. QED
      BY <2>1, <2>3, <2>4, HoldingStep
  <1>14. CASE Limit(w)
    <2>1. UNCHANGED <<entries, target, objects>> /\ check[w] = "limit" /\ check[w] \in Holding /\ Counted(o)
      BY <1>2, <1>14 DEF Limit, Stage, Holding
    <2>2. CASE Exhausted(o.suppressed)
      <3>1. Settled(o)
        BY <1>3, <2>1, <2>2, Numbers DEF Exhausted
      <3>2. ~Checking(w)' /\ \A v \in Workers : v # w => check'[v] = check[v]
        BY <1>6, <1>14, <2>2 DEF Limit
      <3>3. QED
        BY <2>1, <3>1, <3>2, HoldingStep
    <2>3. CASE ~Exhausted(o.suppressed)
      <3>1. UNCHANGED held /\ check'[w] = "suppress" /\ \A v \in Workers : v # w => check'[v] = check[v]
        BY <1>5, <1>14, <2>3 DEF Limit
      <3>2. o.suppressed < MaxSuppressed
        BY <1>3, <2>1, <2>3, DedupAssumption DEF Exhausted, Object
      <3>3. Stage(w)'
        BY <1>3, <2>1, <3>1, <3>2 DEF Stage
      <3>4. QED
        BY <2>1, <3>1, <3>3, HoldingStep DEF Late
    <2>4. QED
      BY <2>2, <2>3
  <1>15. CASE Suppress(w)
    <2>1. UNCHANGED <<entries, target, held>> /\ check[w] = "suppress" /\ Counted(o) /\ o.suppressed < MaxSuppressed
          /\ check'[w] = "answer" /\ \A v \in Workers : v # w => check'[v] = check[v]
      BY <1>2, <1>5, <1>15 DEF Suppress, Stage
    <2>2. Becomes(h, o.count, o.suppressed + 1, o.last, o.alerts) /\ check[w] \in Holding
      BY <1>15, <2>1, SuppressEffect DEF Holding
    <2>3. objects'[h].count = o.count /\ objects'[h].suppressed = o.suppressed + 1 /\ objects'[h].alerts = o.alerts
          /\ \A q \in Refs : q # h => objects'[q] = objects[q]
      BY <1>3, <2>2, BecomesOne
    <2>4. Answering(objects'[h])
      BY <1>3, <2>1, <2>2, <2>3, Numbers
    <2>5. Stage(w)'
      BY <1>3, <2>1, <2>2, <2>4 DEF Stage
    <2>6. QED
      BY <2>1, <2>2, <2>3, <2>5, HoldingStep DEF Late
  <1>16. CASE Answer(w)
    <2>1. UNCHANGED <<entries, target>> /\ check[w] \in Holding /\ Answering(o) /\ ~Checking(w)'
          /\ \A v \in Workers : v # w => check'[v] = check[v]
      BY <1>2, <1>6, <1>16 DEF Answer, Stage, Holding
    <2> DEFINE a == o.alerts + IF o.count = AlertAfter THEN 1 ELSE 0
    <2>2. Becomes(h, o.count, o.suppressed, o.last, a)
      BY <1>16, AnswerEffect
    <2> HIDE DEF a
    <2>3. objects'[h].count = o.count /\ objects'[h].suppressed = o.suppressed /\ objects'[h].alerts = a
          /\ \A q \in Refs : q # h => objects'[q] = objects[q]
      BY <1>3, <2>1, <2>2, BecomesOne
    <2>4. Settled(objects'[h])
      BY <1>3, <2>1, <2>3, Numbers DEF a
    <2>5. QED
      BY <2>1, <2>3, <2>4, HoldingStep
  <1>17. QED
    BY <1>7, <1>8, <1>9, <1>10, <1>11, <1>12, <1>13, <1>14, <1>15, <1>16 DEF CheckStep

\* The object that is inserted is nobody's, also when checks overlap.
LEMMA DistinctCheck ==
  ASSUME DedupOK, Distinct, NEW w \in Workers, CheckStep(w)
  PROVE  Distinct'
  <1>1. CASE Insert(w)
    <2>1. entries' = [entries EXCEPT ![target[w]] = FreeRef] /\ held[w] = 0
      BY <1>1, InsertEffect
    <2> DEFINE n == FreeRef
    <2>2. (\A f \in Fingerprints : entries[f] # n) /\ entries' = [entries EXCEPT ![target[w]] = n]
      BY <2>1, FreeRefIsFree
    <2> HIDE DEF n
    <2>3. QED
      BY <2>2 DEF Distinct, DedupOK
  <1>2. CASE UNCHANGED entries
    BY <1>2 DEF Distinct
  <1>3. QED
    BY <1>1, <1>2 DEF CheckStep, Lookup, TestWindow, Renew, Reset, Touch, Count, Limit, Suppress, Answer

\* Steps that move nobody inside check.
LEMMA OrderlyFrame ==
  ASSUME Orderly, UNCHANGED <<entries, objects, held, num>>,
         \A w \in Workers : Checking(w)' => check'[w] = check[w] /\ target'[w] = target[w],
         \A w \in Workers : Checking(w) => check'[w] = check[w]
  PROVE  Orderly'
  <1>1. OneCheck'
    BY DEF Orderly, OneCheck, Checking
  <1>2. AllSettled'
    BY DEF Orderly, AllSettled, Checking, Late
  <1>3. \A w \in Workers : Checking(w)' => Stage(w)'
    BY DEF Orderly, Stage, Checking
  <1>4. QED
    BY <1>1, <1>2, <1>3 DEF Orderly

LEMMA AlertStep ==
  ASSUME Typed, Typed', AlertInv, [Next]_vars
  PROVE  AlertInv'
  <1>0. DedupOK /\ DedupOK' /\ Distinct
    BY DEF Typed, AlertInv
  <1>1. CASE UNCHANGED dedup
    BY <1>0, <1>1, OrderlyFrame DEF dedup, AlertInv, Distinct, Checking
  <1>2. ASSUME NEW w \in Workers, CheckStep(w) PROVE AlertInv'
    <2>1. UNCHANGED contended
      BY <1>2 DEF CheckStep, Lookup, Insert, TestWindow, Renew, Reset, Touch, Count, Limit, Suppress, Answer
    <2>2. QED
      BY <1>0, <1>2, <2>1, OrderlyCheck, DistinctCheck DEF AlertInv
  <1>3. ASSUME NEW w \in Workers, Analysed(w) PROVE AlertInv'
    <2>1. PICK f \in Fingerprints : CallCheck(w, f)
      BY <1>3 DEF Analysed
    <2>2. check[w] = "no" /\ UNCHANGED <<entries, objects, held, num>>
          /\ check'[w] = "lookup" /\ (\A v \in Workers : v # w => check'[v] = check[v])
          /\ \A v \in Workers : v # w => target'[v] = target[v]
      BY <1>0, <1>3, <2>1 DEF Analysed, Busy, CallCheck, Step, DedupOK
    <2>3. Distinct'
      BY <1>0, <2>2 DEF Distinct
    <2>4. ASSUME ~contended', AlertAfter <= MaxSuppressed + 1 PROVE Orderly'
      <3>1. ~contended /\ \A v \in Workers \ {w} : ~Checking(v)
        BY <2>1, <2>4 DEF CallCheck
      <3>2. Orderly /\ \A v \in Workers : ~Checking(v)
        BY <2>2, <2>4, <3>1 DEF AlertInv, Checking
      <3>3. \A v \in Workers : Checking(v)' => v = w
        BY <2>2, <3>2 DEF Checking
      <3>4. OneCheck' /\ Stage(w)'
        BY <2>2, <3>3 DEF OneCheck, Stage, Holding
      <3>5. AllSettled'
        BY <2>2, <3>2 DEF Orderly, AllSettled, Checking, Late
      <3>6. QED
        BY <3>3, <3>4, <3>5 DEF Orderly
    <2>5. QED
      BY <2>3, <2>4 DEF AlertInv
  <1>4. ASSUME NEW w \in Workers, Back(w) PROVE AlertInv'
    <2>1. check[w] = "checked" /\ check'[w] = "no" /\ UNCHANGED <<entries, objects, target, held, num, contended>>
          /\ \A v \in Workers : v # w => check'[v] = check[v]
      BY <1>0, <1>4 DEF Back, Step, DedupOK
    <2>2. Distinct'
      BY <1>0, <2>1 DEF Distinct
    <2>3. Orderly => Orderly'
      BY <2>1, OrderlyFrame DEF Checking
    <2>4. QED
      BY <2>1, <2>2, <2>3 DEF AlertInv
  <1>5. CASE CleanUp
    <2>1. /\ UNCHANGED <<objects, check, target, held, num, contended>> /\ ~running
          /\ \A f \in Fingerprints : entries'[f] = entries[f] \/ entries'[f] = 0
      BY <1>5 DEF CleanUp, Cleanup
    <2>2. \A w \in Workers : check[w] = "no"
      BY <2>1 DEF Typed, BatchOK
    <2>3. Distinct'
      BY <1>0, <2>1 DEF Distinct
    <2>4. Orderly => Orderly'
      BY <2>1, <2>2 DEF Orderly, OneCheck, AllSettled, Checking, Late
    <2>5. QED
      BY <2>1, <2>3, <2>4 DEF AlertInv
  <1>6. CASE Restart
    <2>1. (\A f \in Fingerprints : entries'[f] = 0) /\ \A w \in Workers : check'[w] = "no"
      BY <1>6 DEF Restart
    <2>2. Distinct' /\ Orderly'
      BY <2>1 DEF Distinct, Orderly, OneCheck, AllSettled, Checking
    <2>3. QED
      BY <2>2 DEF AlertInv
  <1>7. ASSUME NEW w \in Workers, WorkerStep(w) PROVE AlertInv'
    BY <1>1, <1>2, <1>3, <1>4, <1>7 DEF WorkerStep, TakeJob, NotCollected, AnalysisRaises, SaveJob, SaveFails
  <1>8. QED
    BY <1>1, <1>5, <1>6, <1>7 DEF Next, BatchStep, SubmitBatch, EndBatch, Analyze, Purge, Tick, vars, dedup

\* As long as checks do not overlap and alert_after is within reach, a crash
\* that keeps coming back raises one alert per window, with the alert_after'th
\* occurrence.
THEOREM OneAlert == Spec => []AlertOnce
  <1>1. Init => Typed /\ AlertInv
    <2>1. SUFFICES ASSUME Init PROVE Typed /\ AlertInv
      OBVIOUS
    <2>2. (\A f \in Fingerprints : entries[f] = 0) /\ \A w \in Workers : check[w] = "no"
      BY <2>1 DEF Init, DedupInit
    <2>3. Distinct /\ Orderly
      BY <2>2 DEF Distinct, Orderly, OneCheck, AllSettled, Checking
    <2>4. QED
      BY <2>1, <2>3, InitTyped DEF AlertInv
  <1>2. Typed /\ AlertInv /\ [Next]_vars => (Typed /\ AlertInv)'
    BY StepTyped, AlertStep
  <1>3. AlertInv => AlertOnce
    BY DEF AlertInv, AlertOnce, Orderly, AllSettled, Settled, Due, Checking, Late
  <1>4. QED
    BY <1>1, <1>2, <1>3, PTL DEF Spec

=============================================================================
