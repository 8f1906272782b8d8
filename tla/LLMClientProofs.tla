---------------------------- MODULE LLMClientProofs ----------------------------
(***************************************************************************)
(* Proofs about LLMClient, for any finite set of threads, any limit,       *)
(* window, retries, delays and lag.  What holds whatever threads do to     *)
(* each other comes first (LInv), then what one thread at a time in        *)
(* acquire adds to it (Honoured): every list has its oldest stamp first,   *)
(* the limiter's list is what has been granted, and there is room for the  *)
(* stamp of whoever passes.                                                *)
(***************************************************************************)
EXTENDS LLMClient, FiniteSetTheorems, SequenceTheorems, WellFoundedInduction, TLAPS

-------------------------------------------------------------------------------
(* Numbers and sets of them *)

Below == {p \in Nat \X Nat : p[1] < p[2]}

\* Min of numbers is one of them.
LEMMA MinIsOne ==
  ASSUME NEW S, S \subseteq Nat, S # {}
  PROVE  Min(S) \in S
  <1>1. IsWellFoundedOn(Below, Nat)
    <2>1. Below = OpToRel(<, Nat)
      BY Zenon DEF Below, OpToRel
    <2>2. QED
      BY <2>1, NatLessThanWellFounded, Zenon
  <1>2. PICK m \in S : \A k \in S : ~(<<k, m>> \in Below)
    BY <1>1, WFMin, Zenon
  <1>3. \A k \in S : <<k, m>> \in Nat \X Nat
    OBVIOUS
  <1>4. \A k \in S : ~(k < m)
    BY <1>2, <1>3 DEF Below
  <1>5. \A k \in S : m <= k
    BY <1>4
  <1>6. QED
    BY <1>5 DEF Min

\* As many numbers as a finite set has members, counted from 1.
LEMMA UpTo ==
  ASSUME NEW n \in Nat
  PROVE  IsFiniteSet(1..n) /\ Cardinality(1..n) = n
  <1>1. 1 \in Int /\ n \in Int
    OBVIOUS
  <1>2. IsFiniteSet(1..n) /\ Cardinality(1..n) = IF 1 > n THEN 0 ELSE n - 1 + 1
    BY <1>1, FS_Interval
  <1>3. (IF 1 > n THEN 0 ELSE n - 1 + 1) = n
    OBVIOUS
  <1>4. QED
    BY <1>2, <1>3

\* A function takes no more values than it has arguments.
LEMMA FewValues ==
  ASSUME NEW S, IsFiniteSet(S), NEW f, DOMAIN f = S
  PROVE  LET T == {f[x] : x \in S}
         IN  IsFiniteSet(T) /\ Cardinality(T) \in Nat /\ Cardinality(S) \in Nat /\ Cardinality(T) <= Cardinality(S)
  <1> DEFINE T == {f[x] : x \in S}
             g == [x \in S |-> f[x]]
  <1>1. g \in Surjection(S, T)
    <2>1. g \in [S -> T] /\ \A x \in S : g[x] = f[x]
      OBVIOUS
    <2> HIDE DEF g
    <2>2. \A t \in T : \E x \in S : g[x] = t
      BY <2>1
    <2> HIDE DEF T
    <2>3. QED
      BY <2>1, <2>2 DEF Surjection
  <1> HIDE DEF g, T
  <1>2. IsFiniteSet(T) /\ Cardinality(T) <= Cardinality(S)
    BY <1>1, FS_Surjection
  <1>3. QED
    BY <1>2, FS_CardinalityType DEF T

\* It is the least of them.
LEMMA MinIsLeast ==
  ASSUME NEW S, S \subseteq Nat, NEW k \in S
  PROVE  Min(S) \in S /\ Min(S) <= k
  <1>1. IsWellFoundedOn(Below, Nat)
    <2>1. Below = OpToRel(<, Nat)
      BY Zenon DEF Below, OpToRel
    <2>2. QED
      BY <2>1, NatLessThanWellFounded, Zenon
  <1>2. PICK m \in S : \A j \in S : ~(<<j, m>> \in Below)
    BY <1>1, WFMin, Zenon
  <1>3. \A j \in S : <<j, m>> \in Nat \X Nat
    OBVIOUS
  <1>4. \A j \in S : ~(j < m)
    BY <1>2, <1>3 DEF Below
  <1>5. \A j \in S : m <= j
    BY <1>4
  <1>6. Min(S) \in S /\ \A j \in S : Min(S) <= j
    BY <1>5 DEF Min
  <1>7. QED
    BY <1>6

-------------------------------------------------------------------------------
(* Lists of stamps, the oldest first *)

LEMMA FunctionIsSeq ==
  ASSUME NEW S, NEW k \in Nat, NEW r \in [1..k -> S]
  PROVE  r \in Seq(S) /\ Len(r) = k
  <1>1. Seq(S) = UNION {[1..n -> S] : n \in Nat}
    BY SeqDef
  <1>2. r \in Seq(S)
    BY <1>1, Zenon
  <1>3. DOMAIN r = 1..k /\ DOMAIN r = 1..Len(r) /\ Len(r) \in Nat
    BY <1>2, LenProperties
  <1>4. QED
    BY <1>2, <1>3

InOrder(s) == \A i, j \in DOMAIN s : i <= j => s[j] <= s[i]

LEMMA Ages ==
  ASSUME NEW S, NEW s \in Seq(S)
  PROVE  Len(s) \in Nat /\ DOMAIN s = 1..Len(s) /\ \A i \in DOMAIN s : s[i] \in S
  BY ElementOfSeq

\* Where the stamps begin that are recent by a reading of l ticks ago.
First(s, l) == Min({i \in DOMAIN s : s[i] - l < Window} \union {Len(s) + 1})

LEMMA Spans ==
  /\ Window \in Nat \ {0} /\ MaxLag \in Nat /\ Ancient \in Nat /\ Ancient = Window + 2 * MaxLag
  /\ 0 \in 0..MaxLag
  BY LimitAssumption, BoundsAssumption DEF Ancient

\* Those before it are old, those from it on recent.
LEMMA FirstSplits ==
  ASSUME NEW s \in Seq(0..Ancient), InOrder(s), NEW l \in 0..MaxLag
  PROVE  /\ First(s, l) \in 1..(Len(s) + 1)
         /\ \A i \in DOMAIN s : i < First(s, l) => ~(s[i] - l < Window)
         /\ \A i \in DOMAIN s : i >= First(s, l) => s[i] - l < Window
  <1> DEFINE S == {i \in DOMAIN s : s[i] - l < Window} \union {Len(s) + 1}
             f == First(s, l)
  <1>1. S \subseteq 1..(Len(s) + 1) /\ Len(s) + 1 \in S /\ DOMAIN s = 1..Len(s) /\ Len(s) \in Nat
    <2>1. DOMAIN s = 1..Len(s) /\ Len(s) \in Nat
      OBVIOUS
    <2>2. QED
      BY <2>1
  <1>2. f = Min(S)
    BY DEF First
  <1>3. S \subseteq Nat
    BY <1>1
  <1>4. f \in S /\ \A k \in S : f <= k
    BY <1>1, <1>2, <1>3, MinIsLeast
  <1>5. f \in 1..(Len(s) + 1)
    BY <1>1, <1>4
  <1> HIDE DEF f
  <1>6. \A i \in DOMAIN s : i < f => ~(s[i] - l < Window)
    <2> TAKE i \in DOMAIN s
    <2> HAVE i < f
    <2>1. i \notin S
      BY <1>1, <1>4, <1>5
    <2>2. QED
      BY <2>1
  <1>7. \A i \in DOMAIN s : i >= f => s[i] - l < Window
    <2> TAKE i \in DOMAIN s
    <2> HAVE i >= f
    <2>1. f \in DOMAIN s /\ s[f] - l < Window
      BY <1>1, <1>4, <1>5
    <2>2. s[i] <= s[f] /\ s[i] \in 0..Ancient /\ s[f] \in 0..Ancient
      BY <2>1, Ages DEF InOrder
    <2>3. QED
      BY <2>1, <2>2, Spans
  <1>8. QED
    BY <1>5, <1>6, <1>7 DEF f

\* There is only one such place.
LEMMA FirstIs ==
  ASSUME NEW s \in Seq(0..Ancient), InOrder(s), NEW l \in 0..MaxLag, NEW k \in 1..(Len(s) + 1),
         \A i \in DOMAIN s : i < k => ~(s[i] - l < Window),
         \A i \in DOMAIN s : i >= k => s[i] - l < Window
  PROVE  First(s, l) = k
  <1> DEFINE f == First(s, l)
  <1>1. /\ f \in 1..(Len(s) + 1)
        /\ \A i \in DOMAIN s : i < f => ~(s[i] - l < Window)
        /\ \A i \in DOMAIN s : i >= f => s[i] - l < Window
    BY FirstSplits
  <1> HIDE DEF f
  <1>2. DOMAIN s = 1..Len(s) /\ Len(s) \in Nat
    OBVIOUS
  <1>3. ~(f < k)
    BY <1>1, <1>2
  <1>4. ~(k < f)
    BY <1>1, <1>2
  <1>5. QED
    BY <1>1, <1>3, <1>4 DEF f

\* The comprehension keeps an ordered list from there on.
LEMMA RecentIsTail ==
  ASSUME NEW s \in Seq(0..Ancient), InOrder(s), NEW l \in 0..MaxLag
  PROVE  Recent(s, l) = [i \in 1..(Len(s) + 1 - First(s, l)) |-> s[i + First(s, l) - 1]]
  <1> DEFINE f == First(s, l)
             n == Len(s)
             kept == {i \in DOMAIN s : s[i] - l < Window}
             Rank(i) == Cardinality({j \in kept : j <= i})
  <1>1. /\ f \in 1..(n + 1) /\ DOMAIN s = 1..n /\ n \in Nat
        /\ \A i \in DOMAIN s : i < f => ~(s[i] - l < Window)
        /\ \A i \in DOMAIN s : i >= f => s[i] - l < Window
    BY FirstSplits
  <1> HIDE DEF f, n
  <1>2. kept = f..n
    BY <1>1
  <1>3. Cardinality(kept) = n + 1 - f
    <2>1. Cardinality(f..n) = IF f > n THEN 0 ELSE n - f + 1
      BY <1>1, FS_Interval
    <2>2. (IF f > n THEN 0 ELSE n - f + 1) = n + 1 - f
      BY <1>1
    <2>3. QED
      BY <1>2, <2>1, <2>2
  <1>4. ASSUME NEW i \in kept PROVE Rank(i) = i + 1 - f
    <2>1. {j \in kept : j <= i} = f..i /\ i \in Int /\ f \in Int /\ f <= i
      BY <1>1, <1>2
    <2>2. Cardinality(f..i) = IF f > i THEN 0 ELSE i - f + 1
      BY <2>1, FS_Interval
    <2>3. (IF f > i THEN 0 ELSE i - f + 1) = i + 1 - f
      BY <2>1
    <2>4. QED
      BY <2>1, <2>2, <2>3
  <1> HIDE DEF Rank
  <1>5. ASSUME NEW k \in 1..(n + 1 - f) PROVE (CHOOSE i \in kept : Rank(i) = k) = k + f - 1
    <2>1. k + f - 1 \in kept
      BY <1>1, <1>2
    <2> HIDE DEF kept
    <2>2. Rank(k + f - 1) = k
      BY <1>1, <1>4, <2>1
    <2>3. \A i \in kept : Rank(i) = k => i = k + f - 1
      <3> TAKE i \in kept
      <3> HAVE Rank(i) = k
      <3>1. i + 1 - f = k /\ i \in Int
        BY <1>1, <1>2, <1>4
      <3>2. QED
        BY <1>1, <3>1
    <2>4. QED
      BY <2>1, <2>2, <2>3
  <1>6. Recent(s, l) = [k \in 1..Cardinality(kept) |-> s[CHOOSE i \in kept : Rank(i) = k]]
    BY DEF Recent, Rank
  <1> HIDE DEF kept
  <1>7. Recent(s, l) = [k \in 1..(n + 1 - f) |-> s[k + f - 1]]
    BY <1>3, <1>5, <1>6
  <1>8. QED
    BY <1>7 DEF f, n

\* The recent stamps: a list in order, younger than the window by that reading.
LEMMA RecentIs ==
  ASSUME NEW s \in Seq(0..Ancient), InOrder(s), NEW l \in 0..MaxLag
  PROVE  /\ Recent(s, l) \in Seq(0..Ancient) /\ InOrder(Recent(s, l))
         /\ Len(Recent(s, l)) = Len(s) + 1 - First(s, l)
         /\ \A i \in 1..Len(Recent(s, l)) : /\ Recent(s, l)[i] = s[i + First(s, l) - 1]
                                            /\ Recent(s, l)[i] - l < Window
  <1> DEFINE f == First(s, l)
             r == Recent(s, l)
             n == Len(s)
             m == n + 1 - f
  <1>1. /\ f \in 1..(n + 1) /\ (\A i \in DOMAIN s : i >= f => s[i] - l < Window)
        /\ DOMAIN s = 1..n /\ n \in Nat /\ \A i \in 1..n : s[i] \in 0..Ancient
    BY FirstSplits, Ages
  <1>2. r = [i \in 1..(n + 1 - f) |-> s[i + f - 1]]
    BY RecentIsTail
  <1> HIDE DEF f, r, n
  <1>3. m \in Nat /\ r = [i \in 1..m |-> s[i + f - 1]]
        /\ \A i \in 1..m : i + f - 1 \in 1..n /\ i + f - 1 >= f
    BY <1>1, <1>2
  <1>4. \A i \in 1..m : s[i + f - 1] \in 0..Ancient /\ s[i + f - 1] - l < Window
    BY <1>1, <1>3
  <1>5. r \in Seq(0..Ancient) /\ Len(r) = m
    <2>1. r \in [1..m -> 0..Ancient]
      BY <1>3, <1>4
    <2> HIDE DEF m
    <2>2. QED
      BY <1>3, <2>1, FunctionIsSeq
  <1>6. \A i \in 1..Len(r) : r[i] = s[i + f - 1] /\ r[i] - l < Window
    BY <1>3, <1>4, <1>5
  <1>7. InOrder(r)
    <2>1. SUFFICES ASSUME NEW i \in 1..m, NEW j \in 1..m, i <= j PROVE r[j] <= r[i]
      BY <1>3 DEF InOrder
    <2>2. i + f - 1 \in 1..n /\ j + f - 1 \in 1..n /\ i + f - 1 <= j + f - 1
      BY <1>1, <1>3, <2>1
    <2>3. s[j + f - 1] <= s[i + f - 1]
      BY <1>1, <2>2 DEF InOrder
    <2>4. QED
      BY <1>3, <2>3
  <1>8. QED
    BY <1>5, <1>6, <1>7 DEF f, r, n, m

\* Nothing is dropped of a list that is younger than the window.
LEMMA RecentKeeps ==
  ASSUME NEW s \in Seq(0..Ancient), InOrder(s), NEW l \in 0..MaxLag, \A i \in DOMAIN s : s[i] - l < Window
  PROVE  Recent(s, l) = s
  <1>1. Len(s) \in Nat /\ DOMAIN s = 1..Len(s)
    BY Ages
  <1>2. 1 \in 1..(Len(s) + 1) /\ \A i \in DOMAIN s : ~(i < 1)
    BY <1>1
  <1>3. First(s, l) = 1
    BY <1>2, FirstIs
  <1>4. Recent(s, l) = [i \in 1..(Len(s) + 1 - 1) |-> s[i + 1 - 1]]
    BY <1>3, RecentIsTail
  <1>5. QED
    BY <1>1, <1>4

\* By an earlier reading no fewer stamps are recent.
LEMMA FirstEarlier ==
  ASSUME NEW s \in Seq(0..Ancient), InOrder(s), NEW l \in 0..MaxLag
  PROVE  First(s, l) <= First(s, 0) /\ Len(Recent(s, 0)) <= Len(Recent(s, l))
  <1> DEFINE f == First(s, l)
             g == First(s, 0)
             n == Len(s)
  <1>1. /\ f \in 1..(n + 1) /\ g \in 1..(n + 1) /\ n \in Nat /\ DOMAIN s = 1..n
        /\ \A i \in DOMAIN s : i < f => ~(s[i] - l < Window)
        /\ \A i \in DOMAIN s : i >= g => s[i] - 0 < Window
        /\ \A i \in DOMAIN s : s[i] \in 0..Ancient
    BY FirstSplits, Ages, Spans
  <1>2. Len(Recent(s, 0)) = n + 1 - g /\ Len(Recent(s, l)) = n + 1 - f
    BY RecentIs, Spans
  <1> HIDE DEF f, g, n
  <1>3. f <= g
    <2>1. SUFFICES ASSUME g < f PROVE FALSE
      BY <1>1
    <2>2. g \in DOMAIN s /\ ~(s[g] - l < Window) /\ s[g] - 0 < Window /\ s[g] \in 0..Ancient
      BY <1>1, <2>1
    <2>3. QED
      BY <2>2, Spans
  <1>4. QED
    BY <1>1, <1>2, <1>3 DEF f, g

\* What is recent does not depend on whether old stamps were dropped before.
LEMMA TailRecent ==
  ASSUME NEW a \in Seq(0..Ancient), InOrder(a), NEW b \in Seq(0..Ancient), InOrder(b), NEW f \in 1..First(a, 0),
         Len(b) = Len(a) + 1 - f, \A i \in 1..Len(b) : b[i] = a[i + f - 1]
  PROVE  Recent(b, 0) = Recent(a, 0)
  <1> DEFINE n == Len(a)
             m == Len(b)
             g == First(a, 0)
             h == g + 1 - f
  <1>1. /\ n \in Nat /\ m \in Nat /\ DOMAIN a = 1..n /\ DOMAIN b = 1..m /\ g \in 1..(n + 1) /\ f \in 1..g
        /\ m = n + 1 - f
        /\ \A i \in 1..n : i < g => ~(a[i] - 0 < Window)
        /\ \A i \in 1..n : i >= g => a[i] - 0 < Window
    BY FirstSplits, Ages, Spans
  <1>2. /\ Recent(a, 0) = [i \in 1..(n + 1 - g) |-> a[i + g - 1]]
        /\ Recent(b, 0) = [i \in 1..(m + 1 - First(b, 0)) |-> b[i + First(b, 0) - 1]]
    BY RecentIsTail, Spans
  <1>3. \A i \in 1..m : b[i] = a[i + f - 1]
    OBVIOUS
  <1> HIDE DEF n, m, g
  <1>4. h \in 1..(m + 1)
    BY <1>1
  <1>5. \A i \in 1..m : (i < h => ~(b[i] - 0 < Window)) /\ (i >= h => b[i] - 0 < Window)
    <2> TAKE i \in 1..m
    <2> DEFINE k == i + f - 1
    <2>1. k \in 1..n /\ b[i] = a[k] /\ (i < h => k < g) /\ (i >= h => k >= g)
      BY <1>1, <1>3
    <2> HIDE DEF k, h
    <2>2. QED
      BY <1>1, <2>1
  <1> HIDE DEF h
  <1>6. First(b, 0) = h
    BY <1>1, <1>4, <1>5, FirstIs, Spans DEF m
  <1>7. m + 1 - h = n + 1 - g
    BY <1>1 DEF h
  <1>8. \A i \in 1..(n + 1 - g) : b[i + h - 1] = a[i + g - 1]
    <2> TAKE i \in 1..(n + 1 - g)
    <2> DEFINE j == i + h - 1
    <2>1. j \in 1..m /\ j + f - 1 = i + g - 1
      BY <1>1, <1>7 DEF h
    <2> HIDE DEF j
    <2>2. b[j] = a[j + f - 1]
      BY <1>3, <2>1
    <2>3. QED
      BY <2>1, <2>2 DEF j
  <1>9. QED
    BY <1>2, <1>6, <1>7, <1>8

LEMMA RecentTwice ==
  ASSUME NEW s \in Seq(0..Ancient), InOrder(s), NEW l \in 0..MaxLag
  PROVE  Recent(Recent(s, l), 0) = Recent(s, 0)
  <1> DEFINE r == Recent(s, l)
             f == First(s, l)
  <1>1. /\ r \in Seq(0..Ancient) /\ InOrder(r) /\ Len(r) = Len(s) + 1 - f
        /\ \A i \in 1..Len(r) : r[i] = s[i + f - 1]
    BY RecentIs
  <1>2. f \in 1..(Len(s) + 1) /\ First(s, 0) \in 1..(Len(s) + 1) /\ f <= First(s, 0) /\ Len(s) \in Nat
    BY FirstSplits, FirstEarlier, Ages, Spans
  <1> HIDE DEF r, f
  <1>3. f \in 1..First(s, 0)
    BY <1>2
  <1>4. Recent(r, 0) = Recent(s, 0)
    BY <1>1, <1>3, TailRecent
  <1>5. QED
    BY <1>4 DEF r

\* A new stamp is recent.
LEMMA RecentAppend ==
  ASSUME NEW s \in Seq(0..Ancient), InOrder(s)
  PROVE  /\ Append(s, 0) \in Seq(0..Ancient) /\ InOrder(Append(s, 0))
         /\ Recent(Append(s, 0), 0) = Append(Recent(s, 0), 0)
  <1> DEFINE a == Append(s, 0)
             r == Recent(s, 0)
             f == First(s, 0)
             n == Len(s)
  <1>1. /\ Len(a) = n + 1 /\ n \in Nat /\ DOMAIN s = 1..n
        /\ (\A i \in 1..n : a[i] = s[i] /\ s[i] \in 0..Ancient) /\ a[n + 1] = 0
    <2>1. n \in Nat /\ DOMAIN s = 1..n /\ \A i \in 1..n : s[i] \in 0..Ancient
      BY Ages
    <2>2. Len(a) = n + 1 /\ (\A i \in 1..n : a[i] = s[i]) /\ a[n + 1] = 0
      BY <2>1
    <2>3. QED
      BY <2>1, <2>2
  <1>2. a \in Seq(0..Ancient) /\ DOMAIN a = 1..(n + 1)
    <2>1. 0 \in 0..Ancient
      BY Spans
    <2>2. a \in Seq(0..Ancient)
      BY <2>1
    <2> HIDE DEF a, n
    <2>3. QED
      BY <1>1, <2>2, Ages
  <1>3. /\ f \in 1..(n + 1)
        /\ \A i \in DOMAIN s : i < f => ~(s[i] - 0 < Window)
        /\ \A i \in DOMAIN s : i >= f => s[i] - 0 < Window
    BY FirstSplits, Spans
  <1>4. r = [i \in 1..(n + 1 - f) |-> s[i + f - 1]] /\ r \in Seq(0..Ancient) /\ Len(r) = n + 1 - f
    BY RecentIsTail, RecentIs, Spans
  <1> HIDE DEF a, f, n, r
  <1>5. InOrder(a)
    <2>1. SUFFICES ASSUME NEW i \in 1..(n + 1), NEW j \in 1..(n + 1), i <= j PROVE a[j] <= a[i]
      BY <1>2 DEF InOrder
    <2>2. CASE j \in 1..n
      <3>1. i \in 1..n
        BY <1>1, <2>1, <2>2
      <3>2. QED
        BY <1>1, <2>1, <2>2, <3>1 DEF InOrder
    <2>3. CASE j = n + 1
      <3>1. a[i] \in 0..Ancient
        BY <1>2, Ages
      <3>2. QED
        BY <1>1, <2>3, <3>1
    <2>4. QED
      BY <1>1, <2>2, <2>3
  <1>6. First(a, 0) = f
    <2>1. f \in 1..(Len(a) + 1)
      BY <1>1, <1>3
    <2>2. \A i \in DOMAIN a : i < f => ~(a[i] - 0 < Window)
      BY <1>1, <1>2, <1>3
    <2>3. \A i \in DOMAIN a : i >= f => a[i] - 0 < Window
      BY <1>1, <1>2, <1>3, Spans
    <2>4. QED
      BY <1>2, <1>5, <2>1, <2>2, <2>3, FirstIs, Spans
  <1> DEFINE x == Recent(a, 0)
             y == Append(r, 0)
  <1>7. x \in Seq(0..Ancient) /\ Len(x) = n + 2 - f /\ \A i \in 1..(n + 2 - f) : x[i] = a[i + f - 1]
    <2>1. x \in Seq(0..Ancient) /\ Len(x) = Len(a) + 1 - f /\ \A i \in 1..Len(x) : x[i] = a[i + f - 1]
      BY <1>2, <1>5, <1>6, RecentIs, Spans
    <2>2. Len(a) + 1 - f = n + 2 - f
      BY <1>1, <1>3
    <2>3. QED
      BY <2>1, <2>2
  <1>8. y \in Seq(0..Ancient) /\ Len(y) = n + 2 - f /\ \A i \in 1..(n + 2 - f) : y[i] = a[i + f - 1]
    <2>1. /\ y \in Seq(0..Ancient) /\ Len(y) = Len(r) + 1
          /\ (\A i \in 1..Len(r) : y[i] = r[i]) /\ y[Len(r) + 1] = 0
      BY <1>4, AppendProperties, Spans
    <2> HIDE DEF y
    <2>2. \A i \in 1..(n + 2 - f) : y[i] = a[i + f - 1]
      <3> TAKE i \in 1..(n + 2 - f)
      <3>1. CASE i <= n + 1 - f
        <4>1. i + f - 1 \in 1..n /\ i \in 1..(n + 1 - f)
          BY <1>1, <1>3, <3>1
        <4>2. QED
          BY <1>1, <1>4, <2>1, <4>1
      <3>2. CASE ~(i <= n + 1 - f)
        <4>1. i + f - 1 = n + 1 /\ i = n + 2 - f
          BY <1>1, <1>3, <3>2
        <4>2. y[i] = 0
          BY <1>1, <1>3, <1>4, <2>1, <4>1
        <4>3. QED
          BY <1>1, <4>1, <4>2
      <3>3. QED
        BY <3>1, <3>2
    <2>3. Len(r) + 1 = n + 2 - f
      BY <1>1, <1>3, <1>4
    <2>4. QED
      BY <2>1, <2>2, <2>3
  <1> HIDE DEF x, y
  <1>9. x = y
    BY <1>7, <1>8, SeqEqual
  <1>10. QED
    BY <1>2, <1>5, <1>9 DEF a, r, x, y

\* Time goes on for a list.
LEMMA OlderIs ==
  ASSUME NEW s \in Seq(0..Ancient), InOrder(s)
  PROVE  /\ Older(s) \in Seq(0..Ancient) /\ Len(Older(s)) = Len(s) /\ InOrder(Older(s))
         /\ \A i \in DOMAIN s : Older(s)[i] = IF s[i] < Ancient THEN s[i] + 1 ELSE Ancient
  <1> DEFINE a == Older(s)
             n == Len(s)
  <1>1. DOMAIN s = 1..n /\ n \in Nat /\ Ancient \in Nat /\ \A i \in 1..n : s[i] \in 0..Ancient
    BY Ages, Spans
  <1>2. a = [i \in DOMAIN s |-> IF s[i] < Ancient THEN s[i] + 1 ELSE Ancient]
    BY DEF Older
  <1> HIDE DEF a, n
  <1>3. a \in [1..n -> 0..Ancient]
    BY <1>1, <1>2
  <1>4. a \in Seq(0..Ancient) /\ Len(a) = n
    BY <1>1, <1>3, FunctionIsSeq
  <1>5. \A i \in DOMAIN s : a[i] = IF s[i] < Ancient THEN s[i] + 1 ELSE Ancient
    BY <1>2
  <1>6. InOrder(a)
    <2>1. SUFFICES ASSUME NEW i \in 1..n, NEW j \in 1..n, i <= j PROVE a[j] <= a[i]
      BY <1>1, <1>2 DEF InOrder
    <2>2. s[j] <= s[i] /\ s[j] \in 0..Ancient /\ s[i] \in 0..Ancient
      BY <1>1, <2>1 DEF InOrder
    <2>3. /\ a[i] = IF s[i] < Ancient THEN s[i] + 1 ELSE Ancient
          /\ a[j] = IF s[j] < Ancient THEN s[j] + 1 ELSE Ancient
      BY <1>1, <1>5
    <2>4. QED
      BY <1>1, <2>2, <2>3
  <1>7. QED
    BY <1>4, <1>5, <1>6 DEF a, n

\* What was old by a reading stays old, what was recent by it stays recent.
LEMMA OlderKeeps ==
  ASSUME NEW s \in Seq(0..Ancient), InOrder(s), NEW l \in 0..MaxLag, l < MaxLag
  PROVE  /\ l + 1 \in 0..MaxLag
         /\ \A i \in DOMAIN s : Older(s)[i] - (l + 1) < Window <=> s[i] - l < Window
         /\ Len(Recent(Older(s), l + 1)) = Len(Recent(s, l))
  <1> DEFINE a == Older(s)
             n == Len(s)
             f == First(s, l)
  <1>1. l + 1 \in 0..MaxLag
    BY Spans
  <1>2. /\ a \in Seq(0..Ancient) /\ Len(a) = n /\ InOrder(a)
        /\ \A i \in DOMAIN s : a[i] = IF s[i] < Ancient THEN s[i] + 1 ELSE Ancient
    BY OlderIs
  <1>3. DOMAIN s = 1..n /\ n \in Nat /\ \A i \in 1..n : s[i] \in 0..Ancient
    BY Ages
  <1> HIDE DEF a, n
  <1>4. DOMAIN a = 1..n
    BY <1>2, Ages
  <1>5. \A i \in DOMAIN s : a[i] - (l + 1) < Window <=> s[i] - l < Window
    <2> TAKE i \in DOMAIN s
    <2>1. s[i] \in 0..Ancient /\ a[i] = IF s[i] < Ancient THEN s[i] + 1 ELSE Ancient
      BY <1>2, <1>3
    <2>2. QED
      BY <2>1, Spans
  <1>6. /\ f \in 1..(n + 1)
        /\ \A i \in DOMAIN s : i < f => ~(s[i] - l < Window)
        /\ \A i \in DOMAIN s : i >= f => s[i] - l < Window
    BY FirstSplits DEF n
  <1> HIDE DEF f
  <1>7. First(a, l + 1) = f
    <2>1. f \in 1..(Len(a) + 1)
      BY <1>2, <1>6
    <2>2. \A i \in DOMAIN a : i < f => ~(a[i] - (l + 1) < Window)
      BY <1>3, <1>4, <1>5, <1>6
    <2>3. \A i \in DOMAIN a : i >= f => a[i] - (l + 1) < Window
      BY <1>3, <1>4, <1>5, <1>6
    <2> DEFINE k == l + 1
    <2>4. k \in 0..MaxLag
      BY <1>1
    <2>5. \A i \in DOMAIN a : (i < f => ~(a[i] - k < Window)) /\ (i >= f => a[i] - k < Window)
      BY <2>2, <2>3
    <2> HIDE DEF k
    <2>6. First(a, k) = f
      BY <1>2, <2>1, <2>4, <2>5, FirstIs
    <2>7. QED
      BY <2>6 DEF k
  <1>8. Len(Recent(a, l + 1)) = Len(a) + 1 - First(a, l + 1) /\ Len(Recent(s, l)) = n + 1 - f
    BY <1>1, <1>2, RecentIs DEF n, f
  <1>9. QED
    BY <1>1, <1>2, <1>5, <1>7, <1>8 DEF a

\* What is recent a tick later is so whether or not the old ones were dropped.
LEMMA RecentOlder ==
  ASSUME NEW s \in Seq(0..Ancient), InOrder(s)
  PROVE  Recent(Older(s), 0) = Recent(Older(Recent(s, 0)), 0)
  <1> DEFINE n == Len(s)
             f == First(s, 0)
             r == Recent(s, 0)
             m == Len(r)
             a == Older(s)
             b == Older(r)
             g == First(a, 0)
  <1>1. /\ n \in Nat /\ DOMAIN s = 1..n /\ f \in 1..(n + 1)
        /\ (\A i \in 1..n : s[i] \in 0..Ancient)
        /\ (\A i \in 1..n : i < f => ~(s[i] - 0 < Window))
    BY FirstSplits, Ages, Spans
  <1>2. /\ r \in Seq(0..Ancient) /\ InOrder(r) /\ m = n + 1 - f /\ \A i \in 1..m : r[i] = s[i + f - 1]
    BY RecentIs, Spans
  <1>3. /\ a \in Seq(0..Ancient) /\ Len(a) = n /\ InOrder(a)
        /\ \A i \in 1..n : a[i] = IF s[i] < Ancient THEN s[i] + 1 ELSE Ancient
    BY <1>1, OlderIs
  <1> HIDE DEF r
  <1>4. /\ b \in Seq(0..Ancient) /\ Len(b) = m /\ InOrder(b)
        /\ \A i \in 1..m : b[i] = IF r[i] < Ancient THEN r[i] + 1 ELSE Ancient
    <2>1. DOMAIN r = 1..m
      BY <1>2, Ages
    <2>2. QED
      BY <1>2, <2>1, OlderIs
  <1> HIDE DEF a, b, m
  <1>5. /\ g \in 1..(n + 1)
        /\ \A i \in 1..n : i >= g => a[i] - 0 < Window
    <2>1. DOMAIN a = 1..n
      BY <1>3, Ages
    <2>2. QED
      BY <1>3, <2>1, FirstSplits, Spans
  <1> HIDE DEF n, f, g
  <1>6. f <= g
    <2>1. SUFFICES ASSUME g < f PROVE FALSE
      BY <1>1, <1>5
    <2>2. g \in 1..n
      BY <1>1, <1>5, <2>1
    <2>3. ~(s[g] - 0 < Window) /\ a[g] - 0 < Window /\ s[g] \in 0..Ancient
      BY <1>1, <1>5, <2>1, <2>2
    <2>4. QED
      BY <1>3, <2>2, <2>3, Spans
  <1>7. \A i \in 1..m : b[i] = a[i + f - 1]
    <2> TAKE i \in 1..m
    <2>1. i + f - 1 \in 1..n
      BY <1>1, <1>2
    <2>2. QED
      BY <1>2, <1>3, <1>4, <2>1
  <1>8. f \in 1..g /\ Len(b) = Len(a) + 1 - f
    BY <1>1, <1>2, <1>3, <1>4, <1>5, <1>6
  <1>9. Recent(b, 0) = Recent(a, 0)
    BY <1>3, <1>4, <1>7, <1>8, TailRecent DEF g
  <1>10. QED
    BY <1>9 DEF a, b, r

\* Time only takes stamps away, and while it takes none the first one ages.
LEMMA RecentShorter ==
  ASSUME NEW s \in Seq(0..Ancient), InOrder(s), \A i \in DOMAIN s : s[i] < Window
  PROVE  LET r == Recent(Older(s), 0)
         IN  /\ r \in Seq(0..Ancient) /\ InOrder(r) /\ Len(r) <= Len(s) /\ \A i \in DOMAIN r : r[i] < Window
             /\ Len(r) = Len(s) /\ s # <<>> => r[1] = s[1] + 1
  <1> DEFINE a == Older(s)
             r == Recent(a, 0)
             f == First(a, 0)
             n == Len(s)
             k == Len(r)
  <1>1. n \in Nat /\ DOMAIN s = 1..n /\ \A i \in 1..n : s[i] \in 0..Ancient /\ s[i] < Window
    BY Ages
  <1>2. /\ a \in Seq(0..Ancient) /\ Len(a) = n /\ InOrder(a)
        /\ \A i \in 1..n : a[i] = IF s[i] < Ancient THEN s[i] + 1 ELSE Ancient
    BY <1>1, OlderIs
  <1> HIDE DEF a, n
  <1>3. f \in 1..(n + 1)
    BY <1>2, FirstSplits, Spans
  <1>4. /\ r \in Seq(0..Ancient) /\ InOrder(r) /\ k = n + 1 - f
        /\ \A i \in 1..k : r[i] = a[i + f - 1] /\ r[i] - 0 < Window
    BY <1>2, RecentIs, Spans
  <1> HIDE DEF f, r, k
  <1>5. k <= n /\ DOMAIN r = 1..k
    BY <1>1, <1>3, <1>4, Ages DEF k
  <1>6. \A i \in DOMAIN r : r[i] < Window
    <2> TAKE i \in DOMAIN r
    <2>1. r[i] \in 0..Ancient /\ r[i] - 0 < Window
      BY <1>4, <1>5, Ages
    <2>2. QED
      BY <2>1
  <1>7. ASSUME k = n, s # <<>> PROVE r[1] = s[1] + 1
    <2>1. n # 0
      BY <1>1, <1>7, EmptySeq DEF n
    <2>2. f = 1 /\ 1 \in 1..k /\ 1 \in 1..n
      BY <1>1, <1>3, <1>4, <1>7, <2>1
    <2>3. r[1] = a[1 + 1 - 1] /\ 1 + 1 - 1 = 1
      BY <1>4, <2>2
    <2>4. s[1] \in 0..Ancient /\ s[1] < Window
      BY <1>1, <2>2
    <2>5. QED
      BY <1>2, <2>2, <2>3, <2>4, Spans
  <1>8. QED
    BY <1>4, <1>5, <1>6, <1>7 DEF r, a, k, n

\* A stamp that is still to be appended ages like those of the list.
LEMMA OlderAppend ==
  ASSUME NEW s \in Seq(0..Ancient), NEW l \in 0..MaxLag, l < MaxLag
  PROVE  Older(Append(s, l)) = Append(Older(s), l + 1)
  <1> DEFINE n == Len(s)
             p == Append(s, l)
             o == Older(s)
  <1>1. n \in Nat /\ DOMAIN s = 1..n /\ l < Ancient /\ l \in Nat
    BY Ages, Spans
  <1>2. DOMAIN p = 1..(n + 1) /\ (\A i \in 1..n : p[i] = s[i]) /\ p[n + 1] = l
    BY <1>1
  <1>3. Older(p) = [i \in 1..(n + 1) |-> IF p[i] < Ancient THEN p[i] + 1 ELSE Ancient]
    BY <1>2 DEF Older
  <1>4. o = [i \in 1..n |-> IF s[i] < Ancient THEN s[i] + 1 ELSE Ancient]
    BY <1>1 DEF Older
  <1>5. o \in Seq(0..Ancient) /\ Len(o) = n
    <2>1. \A i \in 1..n : s[i] \in 0..Ancient
      BY <1>1, Ages
    <2>2. o \in [1..n -> 0..Ancient]
      BY <1>4, <2>1, Spans
    <2> HIDE DEF n, o
    <2>3. QED
      BY <1>1, <2>2, FunctionIsSeq
  <1> HIDE DEF n, p, o
  <1>6. Append(o, l + 1) = [i \in 1..(n + 1) |-> IF i <= n THEN o[i] ELSE l + 1]
    BY <1>5
  <1>7. \A i \in 1..(n + 1) : (IF i <= n THEN o[i] ELSE l + 1) = IF p[i] < Ancient THEN p[i] + 1 ELSE Ancient
    <2> TAKE i \in 1..(n + 1)
    <2>1. CASE i \in 1..n
      BY <1>1, <1>2, <1>4, <2>1
    <2>2. CASE i = n + 1
      BY <1>1, <1>2, <2>2
    <2>3. QED
      BY <1>1, <2>1, <2>2
  <1>8. QED
    BY <1>3, <1>6, <1>7 DEF p, o

-------------------------------------------------------------------------------
(***************************************************************************)
(* Types.  The stamps of a list are in order only while acquire is entered *)
(* by one thread at a time: two threads can read the clock in one order    *)
(* and append in the other.  So nothing is said of the lists here.  A list *)
(* that nobody names is always to be had for the copy.                     *)
(***************************************************************************)
Typed ==
  /\ current \in Refs
  /\ bound \in [Threads -> Refs \union {0}]
  /\ since \in [Threads -> 0..MaxLag]
  /\ pc \in [Threads -> Labels]
  /\ attempt \in [Threads -> 0..MaxRetries]
  /\ wait = [t \in Threads |-> wait[t]]
  /\ contended \in BOOLEAN

Granted == grants \in Seq(0..Ancient) /\ InOrder(grants) /\ \A i \in DOMAIN grants : grants[i] < Window

Bound == \A t \in Threads : pc[t] \in {"filter", "assign", "clock", "append"} => bound[t] \in Refs

\* Nobody is asleep but in the limiter and between two attempts, and only who
\* goes by a clock reading counts the time since.
Awake == \A t \in Threads : /\ pc[t] \notin {"sleep", "backoff"} => wait[t] = 0
                            /\ ~Reading(t) => since[t] = 0

LInv == Typed /\ Granted /\ Bound /\ Awake

LEMMA RefsAreNumbers ==
  /\ Cardinality(Threads) \in Nat
  /\ Refs \subseteq Nat /\ IsFiniteSet(Refs) /\ 1 \in Refs
  /\ Cardinality(Refs) = Cardinality(Threads) + 1
  <1>1. Cardinality(Threads) \in Nat
    BY ThreadsAssumption, FS_CardinalityType
  <1> DEFINE n == Cardinality(Threads) + 1
  <1>2. n \in Nat /\ 1 <= n
    BY <1>1
  <1>3. Refs = 1..n
    BY DEF Refs
  <1> HIDE DEF n
  <1>4. IsFiniteSet(Refs) /\ Cardinality(Refs) = n /\ Refs \subseteq Nat /\ 1 \in Refs
    BY <1>2, <1>3, UpTo
  <1>5. QED
    BY <1>1, <1>4 DEF n

LEMMA FreeRefIsFree ==
  ASSUME Typed, NEW t \in Threads
  PROVE  /\ FreeRef(t) \in Refs /\ FreeRef(t) # current
         /\ \A u \in Threads \ {t} : bound[u] # FreeRef(t)
  <1> DEFINE others == [u \in Threads \ {t} |-> bound[u]]
             H == {others[u] : u \in Threads \ {t}}
             used == {current} \union {bound[u] : u \in Threads \ {t}}
             n == Cardinality(Threads)
  <1>1. IsFiniteSet(H) /\ Cardinality(H) \in Nat /\ Cardinality(H) <= n - 1
    <2>1. IsFiniteSet(Threads \ {t}) /\ Cardinality(Threads \ {t}) = n - 1
      BY ThreadsAssumption, FS_RemoveElement
    <2>2. DOMAIN others = Threads \ {t}
      OBVIOUS
    <2> HIDE DEF others, n
    <2>3. QED
      BY <2>1, <2>2, FewValues
  <1>2. used = H \union {current}
    BY DEF Typed
  <1> HIDE DEF H, used
  <1>3. n \in Nat /\ Refs \subseteq Nat /\ IsFiniteSet(Refs) /\ Cardinality(Refs) = n + 1
    BY RefsAreNumbers
  <1> HIDE DEF n
  <1>4. IsFiniteSet(used) /\ Cardinality(used) \in Nat /\ Cardinality(used) <= n
    <2>1. IsFiniteSet(used)
          /\ Cardinality(used) = IF current \in H THEN Cardinality(H) ELSE Cardinality(H) + 1
      BY <1>1, <1>2, FS_AddElement
    <2>2. Cardinality(used) \in Nat
      BY <2>1, FS_CardinalityType
    <2>3. QED
      BY <1>1, <1>3, <2>1, <2>2
  <1> DEFINE free == Refs \ used
  <1>5. free # {}
    <2>1. SUFFICES ASSUME free = {} PROVE FALSE
      OBVIOUS
    <2>2. Refs \subseteq used
      BY <2>1
    <2>3. Cardinality(Refs) <= Cardinality(used)
      BY <1>4, <2>2, FS_Subset
    <2>4. QED
      BY <1>3, <1>4, <2>3
  <1>6. Min(free) \in free
    <2>1. free \subseteq Nat
      BY <1>3
    <2> HIDE DEF free
    <2>2. QED
      BY <1>5, <2>1, MinIsOne
  <1>7. FreeRef(t) = Min(free)
    BY DEF FreeRef, used
  <1>8. QED
    BY <1>6, <1>7 DEF used

LEMMA InitTyped ==
  ASSUME Init
  PROVE  LInv
  <1>1. 1 \in Refs /\ 0 \in 0..MaxRetries /\ 0 \in 0..MaxLag
    BY RefsAreNumbers, RetryAssumption, Spans
  <1>2. <<>> \in Seq(0..Ancient) /\ InOrder(<<>>) /\ DOMAIN <<>> = {}
    BY DEF InOrder
  <1>3. QED
    BY <1>1, <1>2 DEF Init, LInv, Typed, Granted, Bound, Awake, Labels

\* A failed attempt: the thread waits, or gives up.
LEMMA FailedAttempt ==
  ASSUME LInv, NEW t \in Threads, AttemptFailed(t), pc[t] \in {"oldest", "request"}
  PROVE  /\ attempt' \in [Threads -> 0..MaxRetries]
         /\ wait' = [u \in Threads |-> wait'[u]]
         /\ pc' \in [Threads -> Labels] /\ pc'[t] \in {"backoff", "idle"}
         /\ \A u \in Threads \ {t} : pc'[u] = pc[u] /\ wait'[u] = wait[u]
         /\ pc'[t] = "idle" => wait'[t] = 0
  <1>1. CASE attempt[t] < MaxRetries
    <2>1. attempt' = [attempt EXCEPT ![t] = @ + 1] /\ pc' = [pc EXCEPT ![t] = "backoff"]
          /\ \E w : wait' = [wait EXCEPT ![t] = w]
      BY <1>1 DEF AttemptFailed, Goto
    <2>2. attempt[t] + 1 \in 0..MaxRetries
      BY <1>1, RetryAssumption DEF LInv, Typed
    <2>3. QED
      BY <2>1, <2>2 DEF LInv, Typed, Labels
  <1>2. CASE ~(attempt[t] < MaxRetries)
    <2>1. attempt' = [attempt EXCEPT ![t] = 0] /\ pc' = [pc EXCEPT ![t] = "idle"] /\ UNCHANGED wait
      BY <1>2 DEF AttemptFailed, Goto
    <2>2. 0 \in 0..MaxRetries
      BY RetryAssumption
    <2>3. wait[t] = 0
      BY DEF LInv, Awake
    <2>4. QED
      BY <2>1, <2>2, <2>3 DEF LInv, Typed, Labels
  <1>3. QED
    BY <1>1, <1>2

\* Steps of one thread inside acquire that leave the grants alone.
LEMMA ThreadTyped ==
  ASSUME LInv, NEW t \in Threads, NEW label \in Labels \ {"sleep", "backoff"}, Goto(t, label),
         pc[t] \notin {"sleep", "backoff"} \/ wait[t] = 0,
         NEW b \in Refs \union {0}, bound' = [bound EXCEPT ![t] = b],
         label \in {"filter", "assign", "clock", "append"} => b \in Refs,
         NEW l \in 0..MaxLag, since' = [since EXCEPT ![t] = l],
         label \notin {"lookup", "filter", "assign", "test", "oldest", "append"} => l = 0,
         current' \in Refs, contended' \in BOOLEAN, UNCHANGED <<wait, attempt, grants>>
  PROVE  LInv'
  <1>1. pc' = [pc EXCEPT ![t] = label]
    BY DEF Goto
  <1>2. Typed'
    BY <1>1 DEF LInv, Typed
  <1>3. Granted'
    BY DEF LInv, Granted
  <1>4. Bound' /\ Awake'
    BY <1>1 DEF LInv, Typed, Bound, Awake, Reading
  <1>5. QED
    BY <1>2, <1>3, <1>4 DEF LInv

\* A reading that is kept as it is, and one that is let go of or not yet taken.
LEMMA SameEntry ==
  ASSUME LInv, NEW t \in Threads
  PROVE  /\ bound = [bound EXCEPT ![t] = bound[t]] /\ bound[t] \in Refs \union {0}
         /\ since = [since EXCEPT ![t] = since[t]] /\ since[t] \in 0..MaxLag
         /\ 0 \in 0..MaxLag /\ current \in Refs /\ contended \in BOOLEAN
  BY Spans DEF LInv, Typed

LEMMA TickTyped ==
  ASSUME LInv, Tick
  PROVE  LInv'
  <1>1. /\ grants' = Recent(Older(grants), 0)
        /\ wait' = [t \in Threads |-> IF wait[t] > 0 THEN wait[t] - 1 ELSE 0]
        /\ since' = [t \in Threads |-> IF Reading(t) THEN since[t] + 1 ELSE 0]
        /\ \A t \in Threads : Reading(t) => since[t] < MaxLag
        /\ UNCHANGED <<current, bound, pc, attempt, contended>>
    BY DEF Tick
  <1>2. Granted'
    <2> DEFINE r == Recent(Older(grants), 0)
    <2>1. r \in Seq(0..Ancient) /\ InOrder(r) /\ \A i \in DOMAIN r : r[i] < Window
      BY RecentShorter DEF LInv, Granted
    <2> HIDE DEF r
    <2>2. QED
      BY <1>1, <2>1 DEF Granted, r
  <1>3. since' \in [Threads -> 0..MaxLag]
    <2>1. \A t \in Threads : since[t] \in 0..MaxLag
      BY DEF LInv, Typed
    <2>2. QED
      BY <1>1, <2>1, Spans
  <1>4. wait' = [t \in Threads |-> wait'[t]]
    BY <1>1
  <1>5. Typed'
    BY <1>1, <1>3, <1>4 DEF LInv, Typed
  <1>6. Awake'
    BY <1>1 DEF LInv, Awake, Reading
  <1>7. QED
    BY <1>1, <1>2, <1>5, <1>6 DEF LInv, Bound

LEMMA StepTyped ==
  ASSUME LInv, [Next]_vars
  PROVE  LInv'
  <1>1. CASE UNCHANGED vars
    BY <1>1 DEF vars, heap, caller, history, LInv, Typed, Granted, Bound, Awake, Reading
  <1>2. ASSUME NEW t \in Threads, Chat(t) PROVE LInv'
    BY <1>2, SameEntry, ThreadTyped DEF Chat, heap, caller, history, Labels, LInv, Awake, Reading
  <1>3. ASSUME NEW t \in Threads, Enter(t) PROVE LInv'
    <2>1. pc[t] = "acquire" /\ Goto(t, "lookup") /\ contended' \in BOOLEAN
          /\ UNCHANGED <<current, bound, since, wait, attempt, grants>>
      BY <1>3 DEF Enter, heap, caller
    <2>2. QED
      BY <2>1, SameEntry, ThreadTyped DEF Labels
  <1>4. ASSUME NEW t \in Threads, LookUp(t) PROVE LInv'
    BY <1>4, SameEntry, ThreadTyped DEF LookUp, caller, history, Labels
  <1>5. ASSUME NEW t \in Threads, Filter(t) PROVE LInv'
    <2>1. /\ pc[t] = "filter" /\ Goto(t, "assign") /\ bound' = [bound EXCEPT ![t] = FreeRef(t)]
          /\ UNCHANGED <<current, since, wait, attempt, grants, contended>>
      BY <1>5 DEF Filter, caller, history
    <2>2. FreeRef(t) \in Refs
      BY FreeRefIsFree DEF LInv
    <2>3. QED
      BY <2>1, <2>2, SameEntry, ThreadTyped DEF Labels
  <1>6. ASSUME NEW t \in Threads, Assign(t) PROVE LInv'
    <2>1. /\ pc[t] = "assign" /\ Goto(t, "test") /\ bound' = [bound EXCEPT ![t] = 0] /\ current' = bound[t]
          /\ UNCHANGED <<since, wait, attempt, grants, contended>>
      BY <1>6 DEF Assign, caller, history
    <2>2. bound[t] \in Refs
      BY <2>1 DEF LInv, Bound
    <2>3. QED
      BY <2>1, <2>2, SameEntry, ThreadTyped DEF Labels
  <1>7. ASSUME NEW t \in Threads, Test(t) PROVE LInv'
    <2>1. /\ pc[t] = "test" /\ UNCHANGED <<current, bound, wait, attempt, grants, contended>>
          /\ \/ Goto(t, "oldest") /\ UNCHANGED since
             \/ Goto(t, "stamp") /\ since' = [since EXCEPT ![t] = 0]
      BY <1>7 DEF Test, heap, caller, history
    <2>2. CASE Goto(t, "oldest") /\ UNCHANGED since
      BY <2>1, <2>2, SameEntry, ThreadTyped DEF Labels
    <2>3. CASE Goto(t, "stamp") /\ since' = [since EXCEPT ![t] = 0]
      <3>1. /\ "stamp" \in Labels \ {"sleep", "backoff"} /\ bound[t] \in Refs \union {0} /\ 0 \in 0..MaxLag
            /\ bound' = [bound EXCEPT ![t] = bound[t]] /\ current' \in Refs /\ contended' \in BOOLEAN
        BY <2>1, SameEntry DEF Labels
      <3>2. pc[t] \notin {"sleep", "backoff"} /\ "stamp" \notin {"filter", "assign", "clock", "append"}
        BY <2>1
      <3>3. QED
        BY <2>1, <2>3, <3>1, <3>2, ThreadTyped
    <2>4. QED
      BY <2>1, <2>2, <2>3
  <1>8. ASSUME NEW t \in Threads, Oldest(t) PROVE LInv'
    <2>1. UNCHANGED <<current, bound, grants, contended>> /\ pc[t] = "oldest" /\ since' = [since EXCEPT ![t] = 0]
      BY <1>8 DEF Oldest, heap, history
    <2>2. CASE AttemptFailed(t)
      <3>1. /\ attempt' \in [Threads -> 0..MaxRetries]
            /\ wait' = [u \in Threads |-> wait'[u]]
            /\ pc' \in [Threads -> Labels] /\ pc'[t] \in {"backoff", "idle"}
            /\ \A u \in Threads \ {t} : pc'[u] = pc[u] /\ wait'[u] = wait[u]
            /\ pc'[t] = "idle" => wait'[t] = 0
        BY <2>1, <2>2, FailedAttempt
      <3>2. Typed' /\ Granted'
        BY <2>1, <3>1, Spans DEF LInv, Typed, Granted
      <3>3. Bound' /\ Awake'
        BY <2>1, <3>1 DEF LInv, Typed, Bound, Awake, Reading
      <3>4. QED
        BY <3>2, <3>3 DEF LInv
    <2>3. CASE \E n : wait' = [wait EXCEPT ![t] = n] /\ Goto(t, "sleep") /\ UNCHANGED attempt
      <3>1. pc' = [pc EXCEPT ![t] = "sleep"] /\ attempt' = attempt /\ \E n : wait' = [wait EXCEPT ![t] = n]
        BY <2>3 DEF Goto
      <3>2. Typed' /\ Granted'
        BY <2>1, <3>1, Spans DEF LInv, Typed, Granted, Labels
      <3>3. Bound' /\ Awake'
        BY <2>1, <3>1 DEF LInv, Typed, Bound, Awake, Reading
      <3>4. QED
        BY <3>2, <3>3 DEF LInv
    <2>4. CASE Goto(t, "stamp") /\ UNCHANGED <<wait, attempt>>
      <3>1. /\ "stamp" \in Labels \ {"sleep", "backoff"} /\ bound[t] \in Refs \union {0} /\ 0 \in 0..MaxLag
            /\ bound' = [bound EXCEPT ![t] = bound[t]] /\ current' \in Refs /\ contended' \in BOOLEAN
        BY <2>1, SameEntry DEF Labels
      <3>2. pc[t] \notin {"sleep", "backoff"} /\ "stamp" \notin {"filter", "assign", "clock", "append"}
        BY <2>1
      <3>3. QED
        BY <2>1, <2>4, <3>1, <3>2, ThreadTyped
    <2>5. QED
      BY <1>8, <2>2, <2>3, <2>4 DEF Oldest, caller
  <1>9. ASSUME NEW t \in Threads, Wake(t) \/ Retry(t) PROVE LInv'
    <2>1. /\ UNCHANGED <<current, bound, since, wait, attempt, grants, contended>> /\ wait[t] = 0
          /\ pc[t] \in {"sleep", "backoff"} /\ \E label \in {"stamp", "acquire"} : Goto(t, label)
      BY <1>9 DEF Wake, Retry, heap, caller, history
    <2>2. since[t] = 0
      BY <2>1 DEF LInv, Awake, Reading
    <2>3. QED
      BY <2>1, <2>2, SameEntry, ThreadTyped DEF Labels
  <1>10. ASSUME NEW t \in Threads, Stamp(t) PROVE LInv'
    <2>1. pc[t] = "stamp" /\ Goto(t, "clock") /\ bound' = [bound EXCEPT ![t] = current]
          /\ UNCHANGED <<current, since, wait, attempt, grants, contended>>
      BY <1>10 DEF Stamp, caller, history
    <2>2. since[t] = 0
      BY <2>1 DEF LInv, Awake, Reading
    <2>3. QED
      BY <2>1, <2>2, SameEntry, ThreadTyped DEF Labels
  <1>11. ASSUME NEW t \in Threads, ReadClock(t) PROVE LInv'
    <2>1. pc[t] = "clock" /\ pc' = [pc EXCEPT ![t] = "append"] /\ grants' = Append(grants, 0)
          /\ UNCHANGED <<current, bound, since, wait, attempt, contended>>
      BY <1>11 DEF ReadClock, Goto, heap, caller
    <2>2. Granted'
      <3> DEFINE g == Append(grants, 0)
      <3>1. g \in Seq(0..Ancient) /\ InOrder(g)
        BY RecentAppend DEF LInv, Granted
      <3>2. \A i \in 1..Len(grants) : grants[i] < Window /\ g[i] = grants[i]
        BY Ages DEF LInv, Granted
      <3>3. Len(g) = Len(grants) + 1 /\ g[Len(grants) + 1] = 0 /\ 0 < Window /\ Len(grants) \in Nat
        BY Spans, Ages DEF LInv, Granted
      <3> HIDE DEF g
      <3>4. DOMAIN g = 1..Len(g)
        BY <3>1, Ages
      <3>5. \A i \in DOMAIN g : g[i] < Window
        <4> TAKE i \in DOMAIN g
        <4>1. i \in 1..Len(grants) \/ i = Len(grants) + 1
          BY <3>3, <3>4
        <4>2. QED
          BY <3>2, <3>3, <4>1
      <3>6. QED
        BY <2>1, <3>1, <3>5 DEF Granted, g
    <2>3. Typed' /\ Bound' /\ Awake'
      BY <2>1 DEF LInv, Typed, Bound, Awake, Reading, Labels
    <2>4. QED
      BY <2>2, <2>3 DEF LInv
  <1>12. ASSUME NEW t \in Threads, AppendStamp(t) PROVE LInv'
    <2>1. pc[t] = "append" /\ Goto(t, "request") /\ bound' = [bound EXCEPT ![t] = 0]
          /\ since' = [since EXCEPT ![t] = 0] /\ UNCHANGED <<current, wait, attempt, grants, contended>>
      BY <1>12 DEF AppendStamp, caller, history
    <2>2. 0 \in Refs \union {0} /\ "request" \in Labels \ {"sleep", "backoff"}
      BY DEF Labels
    <2>3. QED
      BY <2>1, <2>2, SameEntry, ThreadTyped
  <1>13. ASSUME NEW t \in Threads, Answered(t) PROVE LInv'
    <2>1. pc[t] = "request" /\ pc' = [pc EXCEPT ![t] = "idle"] /\ attempt' = [attempt EXCEPT ![t] = 0]
          /\ UNCHANGED <<current, bound, since, wait, grants, contended>> /\ 0 \in 0..MaxRetries
      BY <1>13, RetryAssumption DEF Answered, Goto, heap, history
    <2>2. Typed' /\ Granted'
      BY <2>1 DEF LInv, Typed, Granted, Labels
    <2>3. Bound' /\ Awake'
      BY <2>1 DEF LInv, Typed, Bound, Awake, Reading
    <2>4. QED
      BY <2>2, <2>3 DEF LInv
  <1>14. ASSUME NEW t \in Threads, RequestFails(t) PROVE LInv'
    <2>1. /\ attempt' \in [Threads -> 0..MaxRetries]
          /\ wait' = [u \in Threads |-> wait'[u]]
          /\ pc' \in [Threads -> Labels] /\ pc'[t] \in {"backoff", "idle"} /\ pc[t] = "request"
          /\ \A u \in Threads \ {t} : pc'[u] = pc[u] /\ wait'[u] = wait[u]
          /\ pc'[t] = "idle" => wait'[t] = 0
          /\ UNCHANGED <<current, bound, since, grants, contended>>
      BY <1>14, FailedAttempt DEF RequestFails, heap, history
    <2>2. Typed' /\ Granted'
      BY <2>1 DEF LInv, Typed, Granted
    <2>3. Bound' /\ Awake'
      BY <2>1 DEF LInv, Typed, Bound, Awake, Reading
    <2>4. QED
      BY <2>2, <2>3 DEF LInv
  <1>15. QED
    BY <1>1, <1>2, <1>3, <1>4, <1>5, <1>6, <1>7, <1>8, <1>9, <1>10, <1>11, <1>12, <1>13, <1>14, TickTyped DEF Next, Go

-------------------------------------------------------------------------------
(***************************************************************************)
(* The limit, as long as acquire is entered by one thread at a time.  Then *)
(* every list has its oldest stamp first.  A thread past the test has room *)
(* for its stamp, and one asleep will have it once its sleep is over: the  *)
(* oldest grant has left by then, since the reading it reckons from lies   *)
(* before the sleep.  A stamp that was read is a grant before it is in the *)
(* list.                                                                   *)
(***************************************************************************)
Alone == \A t, u \in Threads : Acquiring(t) /\ Acquiring(u) => t = u

Sorted == lists \in [Refs -> Seq(0..Ancient)] /\ \A r \in Refs : InOrder(lists[r])

\* A copy: all recent by the reading it was made by, with room for all of it.
Copy(s, l, all) == Len(s) <= Limit /\ (\A i \in DOMAIN s : s[i] - l < Window) /\ Recent(s, 0) = all

Pending(s, l, all) == InOrder(Append(s, l)) /\ Recent(Append(s, l), 0) = all

Room(t) ==
  /\ pc[t] \in {"filter", "clock", "append"} => bound[t] = current
  /\ pc[t] \in {"lookup", "filter"} => Len(Recent(lists[current], since[t])) <= Limit
  /\ pc[t] = "assign" => Copy(lists[bound[t]], since[t], grants)
  /\ pc[t] \in {"test", "oldest"} => Copy(lists[current], since[t], grants)
  /\ pc[t] = "oldest" => Len(lists[current]) = Limit
  /\ pc[t] = "sleep" => /\ wait[t] \in Nat
                        /\ Len(grants) < Limit \/ wait[t] + grants[1] >= Window
  /\ pc[t] \in {"stamp", "clock"} => Len(grants) < Limit
  /\ pc[t] = "append" => Pending(lists[current], since[t], grants)

Honoured ==
  /\ Alone
  /\ Sorted
  /\ (\A t \in Threads : pc[t] # "append") => Recent(lists[current], 0) = grants
  /\ Len(grants) <= Limit
  /\ \A t \in Threads : Room(t)

RateInv == ~contended => Honoured

\* Steps of a thread that is not in acquire and does not enter it.
LEMMA OutsideStep ==
  ASSUME Honoured, NEW t \in Threads, ~Acquiring(t), ~Acquiring(t)', UNCHANGED <<lists, current, bound, since, grants>>,
         \A u \in Threads \ {t} : pc'[u] = pc[u] /\ wait'[u] = wait[u]
  PROVE  Honoured'
  <1>1. Alone'
    BY DEF Honoured, Alone, Acquiring, Reading
  <1>2. \A u \in Threads : Room(u)'
    <2> TAKE u \in Threads
    <2>1. CASE u = t
      BY <2>1 DEF Room, Acquiring, Reading
    <2>2. CASE u # t
      BY <2>2 DEF Honoured, Room, Copy, Pending
    <2>3. QED
      BY <2>1, <2>2
  <1>3. pc[t] # "append" /\ pc'[t] # "append"
    BY DEF Acquiring, Reading
  <1>4. (\A u \in Threads : pc'[u] # "append") => Recent(lists'[current'], 0) = grants'
    BY <1>3 DEF Honoured
  <1>5. QED
    BY <1>1, <1>2, <1>4 DEF Honoured, Sorted

\* Steps of the one thread that is in acquire, with the rest asserted.
LEMMA InsideStep ==
  ASSUME Honoured, NEW t \in Threads, Acquiring(t),
         \A u \in Threads \ {t} : pc'[u] = pc[u],
         Sorted', pc'[t] # "append" => Recent(lists'[current'], 0) = grants', Len(grants') <= Limit, Room(t)'
  PROVE  Honoured'
  <1>1. \A u \in Threads \ {t} : ~Acquiring(u) /\ ~Acquiring(u)'
    BY DEF Honoured, Alone, Acquiring, Reading
  <1>2. \A u \in Threads \ {t} : Room(u)'
    BY <1>1 DEF Room, Acquiring, Reading
  <1>3. Alone'
    BY <1>1 DEF Alone
  <1>4. QED
    BY <1>2, <1>3 DEF Honoured

\* What the one thread in acquire knows.
LEMMA Inside ==
  ASSUME LInv, Honoured, NEW t \in Threads, Acquiring(t)
  PROVE  /\ lists[current] \in Seq(0..Ancient) /\ InOrder(lists[current])
         /\ pc[t] # "append" => Recent(lists[current], 0) = grants
         /\ since[t] \in 0..MaxLag /\ Room(t)
  <1>1. \A u \in Threads \ {t} : ~Acquiring(u)
    BY DEF Honoured, Alone
  <1>2. pc[t] # "append" => \A u \in Threads : pc[u] # "append"
    BY <1>1 DEF Acquiring, Reading
  <1>3. QED
    BY <1>2 DEF LInv, Typed, Honoured, Sorted

LEMMA GrantCount ==
  ASSUME LInv
  PROVE  /\ Len(grants) \in Nat /\ Limit \in Nat \ {0}
         /\ (Len(grants) # 0 => grants # <<>> /\ grants[1] \in 0..Ancient /\ grants[1] < Window)
  <1>1. grants \in Seq(0..Ancient) /\ \A i \in DOMAIN grants : grants[i] < Window
    BY DEF LInv, Granted
  <1> DEFINE n == Len(grants)
  <1>2. n \in Nat /\ DOMAIN grants = 1..n /\ \A i \in DOMAIN grants : grants[i] \in 0..Ancient
    BY <1>1, Ages
  <1>3. n # 0 => 1 \in 1..n
    BY <1>2
  <1>4. n # 0 => grants # <<>>
    BY <1>1, EmptySeq
  <1>5. QED
    BY <1>1, <1>2, <1>3, <1>4, LimitAssumption

LEMMA EnterHonoured ==
  ASSUME LInv, Honoured, NEW t \in Threads, Enter(t), ~contended'
  PROVE  Honoured'
  <1>1. /\ pc' = [pc EXCEPT ![t] = "lookup"] /\ pc[t] = "acquire"
        /\ UNCHANGED <<lists, current, bound, since, wait, grants>>
        /\ \A u \in Threads \ {t} : ~Acquiring(u)
    BY DEF Enter, Goto, heap, caller
  <1>2. pc'[t] = "lookup" /\ \A u \in Threads \ {t} : pc'[u] = pc[u]
    BY <1>1 DEF LInv, Typed
  <1>3. Alone'
    BY <1>1, <1>2 DEF Alone, Acquiring, Reading
  <1>4. Recent(lists[current], 0) = grants
    <2>1. \A u \in Threads : pc[u] # "append"
      BY <1>1 DEF Acquiring, Reading
    <2>2. QED
      BY <2>1 DEF Honoured
  <1>5. since[t] = 0
    BY <1>1 DEF LInv, Awake, Reading
  <1>6. Room(t)'
    BY <1>1, <1>2, <1>4, <1>5 DEF Room, Honoured
  <1>7. \A u \in Threads \ {t} : Room(u)'
    BY <1>1, <1>2 DEF Room, Acquiring, Reading
  <1>8. QED
    BY <1>1, <1>3, <1>4, <1>6, <1>7 DEF Honoured, Sorted

LEMMA LookUpHonoured ==
  ASSUME LInv, Honoured, NEW t \in Threads, LookUp(t)
  PROVE  Honoured'
  <1>1. /\ pc[t] = "lookup" /\ pc' = [pc EXCEPT ![t] = "filter"] /\ bound' = [bound EXCEPT ![t] = current]
        /\ UNCHANGED <<lists, current, since, wait, grants>>
    BY DEF LookUp, Goto, caller, history
  <1>2. pc'[t] = "filter" /\ bound'[t] = current /\ (\A u \in Threads \ {t} : pc'[u] = pc[u]) /\ Acquiring(t)
    BY <1>1 DEF LInv, Typed, Acquiring, Reading
  <1>3. Room(t)'
    BY <1>1, <1>2 DEF Room, Honoured
  <1>4. QED
    BY <1>1, <1>2, <1>3, Inside, InsideStep DEF Honoured, Sorted

LEMMA FilterHonoured ==
  ASSUME LInv, Honoured, NEW t \in Threads, Filter(t)
  PROVE  Honoured'
  <1> DEFINE fresh == Recent(lists[bound[t]], since[t])
             new == FreeRef(t)
             l == since[t]
  <1>1. pc[t] = "filter" /\ Acquiring(t)
    BY DEF Filter, Acquiring, Reading
  <1>2. /\ bound[t] = current /\ l \in 0..MaxLag /\ Len(fresh) <= Limit /\ Recent(lists[current], 0) = grants
        /\ lists[current] \in Seq(0..Ancient) /\ InOrder(lists[current])
    BY <1>1, Inside DEF Room
  <1>3. /\ fresh \in Seq(0..Ancient) /\ InOrder(fresh) /\ Recent(fresh, 0) = grants
        /\ \A i \in 1..Len(fresh) : fresh[i] - l < Window
    BY <1>2, RecentIs, RecentTwice
  <1>4. new \in Refs /\ new # current /\ current \in Refs
    BY FreeRefIsFree DEF LInv, Typed
  <1>5. /\ current' = current /\ bound' = [bound EXCEPT ![t] = new] /\ UNCHANGED <<since, wait, grants>>
        /\ pc' = [pc EXCEPT ![t] = "assign"]
    BY DEF Filter, Goto, caller, history
  <1>6. \E S : /\ current \in S
               /\ lists' = [r \in Refs |-> IF r = new THEN fresh ELSE IF r \in S THEN lists[r] ELSE <<>>]
    BY DEF Filter
  <1> HIDE DEF fresh, new, l
  <1>7. DOMAIN fresh = 1..Len(fresh)
    BY <1>3, Ages
  <1>8. lists'[new] = fresh /\ lists'[current] = lists[current]
    BY <1>4, <1>6
  <1>9. Sorted'
    <2>1. <<>> \in Seq(0..Ancient) /\ InOrder(<<>>)
      BY DEF InOrder
    <2>2. QED
      BY <1>3, <1>6, <2>1 DEF Sorted, Honoured
  <1>10. bound'[t] = new /\ pc'[t] = "assign" /\ \A u \in Threads \ {t} : pc'[u] = pc[u]
    BY <1>5 DEF LInv, Typed
  <1>11. Copy(lists'[bound'[t]], since'[t], grants')
    BY <1>2, <1>3, <1>5, <1>7, <1>8, <1>10 DEF Copy, l
  <1>12. Room(t)'
    BY <1>10, <1>11 DEF Room
  <1>13. Recent(lists'[current'], 0) = grants' /\ Len(grants') <= Limit
    BY <1>2, <1>5, <1>8 DEF Honoured
  <1>14. QED
    BY <1>1, <1>9, <1>10, <1>12, <1>13, InsideStep

LEMMA AssignHonoured ==
  ASSUME LInv, Honoured, NEW t \in Threads, Assign(t)
  PROVE  Honoured'
  <1>1. pc[t] = "assign" /\ Acquiring(t) /\ bound[t] \in Refs
    BY DEF Assign, Acquiring, Reading, LInv, Bound
  <1>2. Copy(lists[bound[t]], since[t], grants)
    BY <1>1 DEF Honoured, Room
  <1>3. /\ current' = bound[t] /\ UNCHANGED <<since, wait, grants>> /\ pc' = [pc EXCEPT ![t] = "test"]
    BY DEF Assign, Goto, caller, history
  <1>4. \E S : bound[t] \in S /\ lists' = [r \in Refs |-> IF r \in S THEN lists[r] ELSE <<>>]
    BY DEF Assign
  <1>5. lists'[current'] = lists[bound[t]]
    BY <1>1, <1>3, <1>4
  <1>6. Sorted'
    <2>1. <<>> \in Seq(0..Ancient) /\ InOrder(<<>>)
      BY DEF InOrder
    <2>2. QED
      BY <1>4, <2>1 DEF Sorted, Honoured
  <1>7. pc'[t] = "test" /\ \A u \in Threads \ {t} : pc'[u] = pc[u]
    BY <1>3 DEF LInv, Typed
  <1>8. Copy(lists'[current'], since'[t], grants')
    BY <1>2, <1>3, <1>5 DEF Copy
  <1>9. Room(t)' /\ Recent(lists'[current'], 0) = grants' /\ Len(grants') <= Limit
    BY <1>2, <1>3, <1>5, <1>7, <1>8 DEF Room, Copy, Honoured
  <1>10. QED
    BY <1>1, <1>6, <1>7, <1>9, InsideStep

LEMMA TestHonoured ==
  ASSUME LInv, Honoured, NEW t \in Threads, Test(t)
  PROVE  Honoured'
  <1> DEFINE s == lists[current]
             l == since[t]
             n == Len(s)
             g == Len(grants)
  <1>1. pc[t] = "test" /\ Acquiring(t) /\ UNCHANGED <<lists, current, wait, grants>>
    BY DEF Test, Acquiring, Reading, heap, caller, history
  <1>2. /\ s \in Seq(0..Ancient) /\ InOrder(s) /\ Recent(s, 0) = grants /\ l \in 0..MaxLag
        /\ Copy(s, l, grants)
    BY <1>1, Inside DEF Room
  <1>3. g <= n /\ n <= Limit /\ n \in Nat /\ g \in Nat /\ Limit \in Nat
    <2>1. Recent(s, l) = s
      BY <1>2, RecentKeeps DEF Copy
    <2>2. Len(Recent(s, 0)) <= Len(Recent(s, l))
      BY <1>2, FirstEarlier
    <2>3. QED
      BY <1>2, <2>1, <2>2, GrantCount, Ages DEF Copy
  <1>4. Recent(lists'[current'], 0) = grants' /\ Len(grants') <= Limit /\ Sorted'
    BY <1>1, <1>2 DEF Honoured, Sorted
  <1>5. \/ n >= Limit /\ pc' = [pc EXCEPT ![t] = "oldest"] /\ since' = since
        \/ n < Limit /\ pc' = [pc EXCEPT ![t] = "stamp"]
    BY DEF Test, Goto
  <1>6. CASE n >= Limit /\ pc' = [pc EXCEPT ![t] = "oldest"] /\ since' = since
    <2>1. pc'[t] = "oldest" /\ \A u \in Threads \ {t} : pc'[u] = pc[u]
      BY <1>6 DEF LInv, Typed
    <2>2. n = Limit
      <3> HIDE DEF n, g
      <3>1. QED
        BY <1>3, <1>6
    <2>3. Copy(lists'[current'], since'[t], grants')
      BY <1>1, <1>2, <1>6 DEF Copy
    <2>4. Len(lists'[current']) = Limit
      BY <1>1, <2>2
    <2>5. Room(t)'
      BY <2>1, <2>3, <2>4 DEF Room
    <2>6. QED
      BY <1>1, <1>4, <2>1, <2>5, InsideStep
  <1>7. CASE n < Limit /\ pc' = [pc EXCEPT ![t] = "stamp"]
    <2>1. pc'[t] = "stamp" /\ \A u \in Threads \ {t} : pc'[u] = pc[u]
      BY <1>7 DEF LInv, Typed
    <2>2. g < Limit
      <3> HIDE DEF n, g
      <3>1. QED
        BY <1>3, <1>7
    <2>3. Room(t)'
      BY <1>1, <2>1, <2>2 DEF Room
    <2>4. QED
      BY <1>1, <1>4, <2>1, <2>3, InsideStep
  <1>8. QED
    BY <1>5, <1>6, <1>7

LEMMA OldestHonoured ==
  ASSUME LInv, Honoured, NEW t \in Threads, Oldest(t)
  PROVE  Honoured'
  <1> DEFINE s == lists[current]
             l == since[t]
             h == s[1]
             w == SleepTime(s, l)
             f == First(s, 0)
             g == Len(grants)
  <1>1. pc[t] = "oldest" /\ Acquiring(t) /\ UNCHANGED <<lists, current, grants>>
    BY DEF Oldest, Acquiring, Reading, heap, history
  <1>2. /\ s \in Seq(0..Ancient) /\ InOrder(s) /\ Recent(s, 0) = grants /\ l \in 0..MaxLag
        /\ Copy(s, l, grants) /\ Len(s) = Limit
    BY <1>1, Inside DEF Room
  <1>3. s # <<>> /\ 1 \in DOMAIN s /\ Limit \in Nat \ {0}
    BY <1>2, Ages, LimitAssumption
  <1>4. h \in 0..Ancient /\ h - l < Window
    BY <1>2, <1>3, Ages DEF Copy
  <1>5. w = Window - (h - l) + 1
    BY <1>3 DEF SleepTime
  <1>6. w \in Nat /\ w > 0 /\ w + h >= Window /\ ~(w <= 0)
    <2> HIDE DEF w, h, l
    <2>1. QED
      BY <1>2, <1>4, <1>5, Spans
  <1>7. wait' = [wait EXCEPT ![t] = w] /\ pc' = [pc EXCEPT ![t] = "sleep"]
    <2> HIDE DEF w
    <2>1. QED
      BY <1>3, <1>6 DEF Oldest, Goto, w
  <1>8. pc'[t] = "sleep" /\ wait'[t] = w /\ \A u \in Threads \ {t} : pc'[u] = pc[u]
    BY <1>7 DEF LInv, Typed
  <1>9. g < Limit \/ w + grants[1] >= Window
    <2>1. /\ f \in 1..(Len(s) + 1) /\ g = Limit + 1 - f
          /\ \A i \in 1..g : grants[i] = s[i + f - 1]
      BY <1>2, FirstSplits, RecentIs, Spans
    <2> HIDE DEF f, g, w, h
    <2>2. CASE f = 1
      <3>1. g = Limit /\ 1 \in 1..g /\ 1 + f - 1 = 1
        BY <1>3, <2>1, <2>2
      <3>2. grants[1] = h
        BY <2>1, <3>1 DEF h
      <3>3. QED
        BY <1>6, <3>2
    <2>3. CASE f # 1
      BY <1>2, <1>3, <2>1, <2>3
    <2>4. QED
      BY <2>2, <2>3
  <1> HIDE DEF w
  <1>10. Room(t)'
    BY <1>1, <1>6, <1>8, <1>9 DEF Room
  <1>11. QED
    BY <1>1, <1>2, <1>8, <1>10, InsideStep DEF Honoured, Sorted

LEMMA WakeHonoured ==
  ASSUME LInv, Honoured, NEW t \in Threads, Wake(t)
  PROVE  Honoured'
  <1>1. pc[t] = "sleep" /\ wait[t] = 0 /\ pc' = [pc EXCEPT ![t] = "stamp"] /\ Acquiring(t)
        /\ UNCHANGED <<lists, current, bound, grants>>
    BY DEF Wake, Goto, heap, history, Acquiring, Reading
  <1>2. Len(grants) < Limit
    <2>1. Len(grants) < Limit \/ 0 + grants[1] >= Window
      BY <1>1 DEF Honoured, Room
    <2>2. Len(grants) <= Limit
      BY DEF Honoured
    <2> DEFINE n == Len(grants)
               g == grants[1]
    <2>3. /\ n \in Nat /\ Limit \in Nat \ {0} /\ (n # 0 => g \in 0..Ancient /\ g < Window)
          /\ n < Limit \/ 0 + g >= Window
          /\ n <= Limit
      BY <2>1, <2>2, GrantCount
    <2> HIDE DEF n, g
    <2>4. n < Limit
      BY <2>3, Spans
    <2>5. QED
      BY <2>4 DEF n
  <1>3. pc'[t] = "stamp" /\ \A u \in Threads \ {t} : pc'[u] = pc[u]
    BY <1>1 DEF LInv, Typed
  <1>4. Room(t)'
    BY <1>1, <1>2, <1>3 DEF Room
  <1>5. QED
    BY <1>1, <1>3, <1>4, Inside, InsideStep DEF Honoured, Sorted

LEMMA StampHonoured ==
  ASSUME LInv, Honoured, NEW t \in Threads, Stamp(t)
  PROVE  Honoured'
  <1>1. pc[t] = "stamp" /\ pc' = [pc EXCEPT ![t] = "clock"] /\ bound' = [bound EXCEPT ![t] = current]
        /\ UNCHANGED <<lists, current, grants>> /\ Acquiring(t)
    BY DEF Stamp, Goto, history, Acquiring, Reading
  <1>2. pc'[t] = "clock" /\ bound'[t] = current /\ \A u \in Threads \ {t} : pc'[u] = pc[u]
    BY <1>1 DEF LInv, Typed
  <1>3. Room(t)'
    BY <1>1, <1>2 DEF Room, Honoured
  <1>4. QED
    BY <1>1, <1>2, <1>3, Inside, InsideStep DEF Honoured, Sorted

LEMMA ReadClockHonoured ==
  ASSUME LInv, Honoured, NEW t \in Threads, ReadClock(t)
  PROVE  Honoured'
  <1> DEFINE s == lists[current]
             n == Len(grants)
  <1>1. pc[t] = "clock" /\ pc' = [pc EXCEPT ![t] = "append"] /\ grants' = Append(grants, 0)
        /\ UNCHANGED <<lists, current, bound, since>> /\ Acquiring(t)
    BY DEF ReadClock, Goto, heap, Acquiring, Reading
  <1>2. /\ s \in Seq(0..Ancient) /\ InOrder(s) /\ Recent(s, 0) = grants
        /\ bound[t] = current /\ n < Limit
    BY <1>1, Inside DEF Room
  <1>3. since[t] = 0
    BY <1>1 DEF LInv, Awake, Reading
  <1>4. pc'[t] = "append" /\ \A u \in Threads \ {t} : pc'[u] = pc[u]
    BY <1>1 DEF LInv, Typed
  <1>5. Pending(lists'[current'], since'[t], grants')
    BY <1>1, <1>2, <1>3, RecentAppend DEF Pending
  <1>6. Len(grants') <= Limit
    <2>1. Len(grants') = n + 1
      BY <1>1 DEF LInv, Granted
    <2>2. n \in Nat /\ Limit \in Nat
      BY GrantCount
    <2> HIDE DEF n
    <2>3. QED
      BY <1>2, <2>1, <2>2
  <1>7. Room(t)'
    BY <1>1, <1>2, <1>4, <1>5 DEF Room
  <1>8. QED
    BY <1>1, <1>4, <1>6, <1>7, InsideStep DEF Honoured, Sorted

LEMMA AppendHonoured ==
  ASSUME LInv, Honoured, NEW t \in Threads, AppendStamp(t)
  PROVE  Honoured'
  <1> DEFINE a == Append(lists[current], since[t])
  <1>1. pc[t] = "append" /\ pc' = [pc EXCEPT ![t] = "request"] /\ UNCHANGED <<current, grants>> /\ Acquiring(t)
    BY DEF AppendStamp, Goto, history, Acquiring, Reading
  <1>2. bound[t] = current /\ since[t] \in 0..MaxLag /\ Pending(lists[current], since[t], grants)
        /\ lists[current] \in Seq(0..Ancient)
    BY <1>1, Inside DEF Room
  <1>3. lists' = [lists EXCEPT ![current] = a]
    BY <1>2 DEF AppendStamp
  <1>4. a \in Seq(0..Ancient) /\ InOrder(a) /\ Recent(a, 0) = grants
    <2>1. since[t] \in 0..Ancient
      BY <1>2, Spans
    <2>2. QED
      BY <1>2, <2>1 DEF Pending
  <1> HIDE DEF a
  <1>5. current \in Refs /\ Sorted
    BY DEF LInv, Typed, Honoured
  <1>6. lists'[current'] = a /\ Sorted'
    BY <1>1, <1>3, <1>4, <1>5 DEF Sorted
  <1>7. pc'[t] = "request" /\ \A u \in Threads \ {t} : pc'[u] = pc[u]
    BY <1>1 DEF LInv, Typed
  <1>8. Room(t)'
    BY <1>7 DEF Room
  <1>9. QED
    BY <1>1, <1>4, <1>6, <1>7, <1>8, InsideStep DEF Honoured

LEMMA TickHonoured ==
  ASSUME LInv, Honoured, Tick
  PROVE  Honoured'
  <1>1. /\ \A t \in Threads : Reading(t) => since[t] < MaxLag
        /\ lists' = [r \in Refs |-> Older(lists[r])]
        /\ grants' = Recent(Older(grants), 0)
        /\ wait' = [t \in Threads |-> IF wait[t] > 0 THEN wait[t] - 1 ELSE 0]
        /\ since' = [t \in Threads |-> IF Reading(t) THEN since[t] + 1 ELSE 0]
        /\ UNCHANGED <<current, bound, pc>>
    BY DEF Tick
  <1>2. current \in Refs /\ Sorted
    BY DEF LInv, Typed, Honoured
  <1>3. \A r \in Refs : /\ lists[r] \in Seq(0..Ancient) /\ InOrder(lists[r]) /\ lists'[r] = Older(lists[r])
                        /\ lists'[r] \in Seq(0..Ancient) /\ InOrder(lists'[r]) /\ Len(lists'[r]) = Len(lists[r])
    <2> TAKE r \in Refs
    <2>1. lists[r] \in Seq(0..Ancient) /\ InOrder(lists[r]) /\ lists'[r] = Older(lists[r])
      BY <1>1, <1>2 DEF Sorted
    <2>2. QED
      BY <2>1, OlderIs
  <1>4. Sorted'
    <2>1. \A r \in Refs : Older(lists[r]) \in Seq(0..Ancient) /\ InOrder(Older(lists[r]))
      BY <1>3
    <2>2. QED
      BY <1>1, <2>1 DEF Sorted
  <1>5. ASSUME NEW s \in Seq(0..Ancient), InOrder(s), Recent(s, 0) = grants
        PROVE  Recent(Older(s), 0) = grants'
    BY <1>1, <1>5, RecentOlder
  <1>6. Len(grants') <= Len(grants) /\ (Len(grants') = Len(grants) /\ grants # <<>> => grants'[1] = grants[1] + 1)
        /\ grants' \in Seq(0..Ancient)
    BY <1>1, RecentShorter DEF LInv, Granted
  <1> DEFINE n == Len(grants)
             m == Len(grants')
             g == grants[1]
             h == grants'[1]
  <1>7. /\ n \in Nat /\ m \in Nat /\ Limit \in Nat \ {0} /\ m <= n /\ n <= Limit
        /\ (n # 0 => g \in 0..Ancient /\ g < Window) /\ (m = n /\ n # 0 => h = g + 1)
    BY <1>6, GrantCount, Ages DEF Honoured
  <1>8. ASSUME NEW t \in Threads, Reading(t)
        PROVE  since[t] \in 0..MaxLag /\ since[t] < MaxLag /\ since'[t] = since[t] + 1
    BY <1>1, <1>8 DEF LInv, Typed
  <1>9. ASSUME NEW t \in Threads, Reading(t), NEW r \in Refs, Copy(lists[r], since[t], grants)
        PROVE  Copy(lists'[r], since'[t], grants')
    <2> DEFINE s == lists[r]
               o == lists'[r]
               l == since[t]
    <2>1. s \in Seq(0..Ancient) /\ InOrder(s) /\ o = Older(s) /\ o \in Seq(0..Ancient) /\ Len(o) = Len(s)
      BY <1>3
    <2>2. l \in 0..MaxLag /\ l < MaxLag /\ since'[t] = l + 1
      BY <1>8, <1>9
    <2>3. Len(s) <= Limit /\ (\A i \in DOMAIN s : s[i] - l < Window) /\ Recent(s, 0) = grants
      BY <1>9 DEF Copy
    <2> HIDE DEF s, o, l
    <2>4. Recent(o, 0) = grants'
      BY <1>5, <2>1, <2>3
    <2>5. \A i \in DOMAIN s : o[i] - (l + 1) < Window
      BY <2>1, <2>2, <2>3, OlderKeeps
    <2>6. DOMAIN s = DOMAIN o
      BY <2>1, Ages
    <2>7. Len(o) <= Limit /\ \A i \in DOMAIN o : o[i] - since'[t] < Window
      BY <2>1, <2>2, <2>3, <2>5, <2>6
    <2>8. QED
      BY <2>4, <2>7 DEF Copy, o
  <1>10. ASSUME NEW t \in Threads PROVE Room(t)'
    <2>1. pc'[t] = pc[t] /\ bound'[t] = bound[t] /\ current' = current /\ Room(t)
      BY <1>1, <1>10 DEF Honoured
    <2>2. CASE pc[t] = "sleep"
      <3> DEFINE x == wait[t]
                 y == wait'[t]
      <3>1. x \in Nat /\ (n < Limit \/ x + g >= Window) /\ y = IF x > 0 THEN x - 1 ELSE 0
        BY <1>1, <2>1, <2>2 DEF Room
      <3> HIDE DEF x, y, n, m, g, h
      <3>2. y \in Nat /\ (m < Limit \/ y + h >= Window)
        BY <1>7, <3>1, Spans
      <3>3. QED
        BY <2>1, <2>2, <3>2 DEF Room, y, m, h
    <2>3. CASE pc[t] \in {"lookup", "filter"}
      <3>1. Reading(t)
        BY <2>3 DEF Reading
      <3>2. Len(Recent(Older(lists[current]), since[t] + 1)) = Len(Recent(lists[current], since[t]))
        BY <1>2, <1>3, <1>8, <3>1, OlderKeeps
      <3>3. Len(Recent(lists'[current'], since'[t])) <= Limit
        BY <1>2, <1>3, <1>8, <2>1, <2>3, <3>1, <3>2 DEF Room
      <3>4. QED
        BY <2>1, <2>3, <3>3 DEF Room
    <2>4. CASE pc[t] = "assign"
      <3>1. Reading(t) /\ bound[t] \in Refs /\ Copy(lists[bound[t]], since[t], grants)
        BY <2>1, <2>4 DEF Reading, LInv, Bound, Room
      <3>2. Copy(lists'[bound'[t]], since'[t], grants')
        BY <1>9, <2>1, <3>1
      <3>3. QED
        BY <2>1, <2>4, <3>2 DEF Room
    <2>5. CASE pc[t] \in {"test", "oldest"}
      <3>1. Reading(t) /\ Copy(lists[current], since[t], grants)
        BY <2>1, <2>5 DEF Reading, Room
      <3>2. Copy(lists'[current'], since'[t], grants')
        BY <1>2, <1>9, <2>1, <3>1
      <3>3. pc[t] = "oldest" => Len(lists'[current']) = Limit
        BY <1>2, <1>3, <2>1 DEF Room
      <3>4. QED
        BY <2>1, <2>5, <3>2, <3>3 DEF Room
    <2>6. CASE pc[t] \in {"stamp", "clock"}
      <3>1. n < Limit
        BY <2>1, <2>6 DEF Room
      <3> HIDE DEF n, m, g, h
      <3>2. m < Limit
        BY <1>7, <3>1
      <3>3. QED
        BY <2>1, <2>6, <3>2 DEF Room, m
    <2>7. CASE pc[t] = "append"
      <3> DEFINE s == lists[current]
                 l == since[t]
                 a == Append(s, l)
      <3>1. Reading(t) /\ InOrder(a) /\ Recent(a, 0) = grants
        BY <2>1, <2>7 DEF Reading, Room, Pending
      <3>2. s \in Seq(0..Ancient) /\ l \in 0..MaxLag /\ l < MaxLag /\ since'[t] = l + 1 /\ lists'[current'] = Older(s)
        BY <1>2, <1>3, <1>8, <2>1, <3>1
      <3>3. l \in 0..Ancient
        BY <3>2, Spans
      <3> HIDE DEF s, l
      <3>4. a \in Seq(0..Ancient)
        BY <3>2, <3>3
      <3>5. Older(a) = Append(lists'[current'], since'[t])
        BY <3>2, OlderAppend
      <3> HIDE DEF a
      <3>6. InOrder(Older(a)) /\ Recent(Older(a), 0) = grants'
        BY <1>5, <3>1, <3>4, OlderIs
      <3>7. Pending(lists'[current'], since'[t], grants')
        BY <3>5, <3>6 DEF Pending
      <3>8. bound'[t] = current'
        BY <2>1, <2>7 DEF Room
      <3>9. QED
        BY <2>1, <2>7, <3>7, <3>8 DEF Room
    <2>8. CASE pc[t] \in {"idle", "acquire", "request", "backoff"}
      BY <2>1, <2>8 DEF Room
    <2>9. pc[t] \in Labels
      BY DEF LInv, Typed
    <2>10. QED
      BY <2>2, <2>3, <2>4, <2>5, <2>6, <2>7, <2>8, <2>9 DEF Labels
  <1>11. Alone'
    BY <1>1 DEF Honoured, Alone, Acquiring, Reading
  <1>12. m <= Limit
    <2> HIDE DEF n, m, g, h
    <2>1. QED
      BY <1>7
  <1>13. (\A t \in Threads : pc'[t] # "append") => Recent(lists'[current'], 0) = grants'
    BY <1>1, <1>2, <1>3, <1>5 DEF Honoured
  <1>14. QED
    BY <1>4, <1>10, <1>11, <1>12, <1>13 DEF Honoured

LEMMA RateStep ==
  ASSUME LInv, RateInv, [Next]_vars
  PROVE  RateInv'
  <1>1. SUFFICES ASSUME ~contended' PROVE Honoured'
    BY DEF RateInv
  <1>2. ~contended
    BY <1>1 DEF Next, Go, Chat, Enter, LookUp, Filter, Assign, Test, Oldest, Wake, Stamp, ReadClock, AppendStamp,
                Answered, RequestFails, Retry, Tick, vars, history
  <1>3. Honoured
    BY <1>2 DEF RateInv
  <1>4. CASE UNCHANGED vars
    BY <1>3, <1>4 DEF vars, heap, caller, history, Honoured, Alone, Sorted, Room, Copy, Pending, Acquiring, Reading
  <1>5. ASSUME NEW t \in Threads, Chat(t) \/ Answered(t) \/ Retry(t) PROVE Honoured'
    <2>1. UNCHANGED <<lists, current, bound, since, wait, grants>> /\ ~Acquiring(t)
          /\ \E label \in {"acquire", "idle"} : pc' = [pc EXCEPT ![t] = label]
      BY <1>5 DEF Chat, Answered, Retry, Goto, Acquiring, Reading, heap, caller, history
    <2>2. ~Acquiring(t)' /\ \A u \in Threads \ {t} : pc'[u] = pc[u]
      BY <2>1 DEF LInv, Typed, Acquiring, Reading
    <2>3. QED
      BY <1>3, <2>1, <2>2, OutsideStep
  <1>6. ASSUME NEW t \in Threads, RequestFails(t) PROVE Honoured'
    <2>1. /\ pc'[t] \in {"backoff", "idle"}
          /\ \A u \in Threads \ {t} : pc'[u] = pc[u] /\ wait'[u] = wait[u]
          /\ UNCHANGED <<lists, current, bound, since, grants>> /\ pc[t] = "request"
      BY <1>6, FailedAttempt DEF RequestFails, heap, history
    <2>2. ~Acquiring(t) /\ ~Acquiring(t)'
      BY <2>1 DEF Acquiring, Reading
    <2>3. QED
      BY <1>3, <2>1, <2>2, OutsideStep
  <1>7. QED
    BY <1>1, <1>3, <1>4, <1>5, <1>6, EnterHonoured, LookUpHonoured, FilterHonoured, AssignHonoured, TestHonoured,
       OldestHonoured, WakeHonoured, StampHonoured, ReadClockHonoured, AppendHonoured, TickHonoured DEF Next, Go

LEMMA InitHonoured ==
  ASSUME Init
  PROVE  RateInv
  <1>1. \A t \in Threads : pc[t] = "idle" /\ ~Acquiring(t)
    BY DEF Init, Acquiring, Reading
  <1>2. 1 \in Refs
    BY RefsAreNumbers
  <1>3. lists[current] = <<>> /\ grants = <<>> /\ lists = [r \in Refs |-> <<>>]
    BY <1>2 DEF Init
  <1>4. <<>> \in Seq(0..Ancient) /\ InOrder(<<>>) /\ DOMAIN <<>> = {}
    BY DEF InOrder
  <1>5. Recent(lists[current], 0) = grants
    BY <1>3, <1>4, RecentKeeps, Spans
  <1>6. Len(grants) <= Limit /\ Sorted
    BY <1>3, <1>4, LimitAssumption DEF Sorted
  <1>7. QED
    BY <1>1, <1>5, <1>6 DEF RateInv, Honoured, Alone, Room

\* As long as acquire is never entered by two threads together, no window holds
\* more stamps than calls_per_minute, across sleeps, failures and retries and
\* however late a thread comes to use a clock reading.
THEOREM RateKept == Spec => []RateHonoured
  <1>1. Init => LInv /\ RateInv
    BY InitTyped, InitHonoured
  <1>2. LInv /\ RateInv /\ [Next]_vars => (LInv /\ RateInv)'
    BY StepTyped, RateStep
  <1>3. RateInv => RateHonoured
    BY DEF RateInv, Honoured, RateHonoured
  <1>4. QED
    BY <1>1, <1>2, <1>3, PTL DEF Spec

\* Up to then the limiter's list, the old stamps left out, is what was granted:
\* no grant of the last window is forgotten and no other is remembered.
THEOREM Remembers == Spec => []LimiterRemembers
  <1>1. Init => LInv /\ RateInv
    BY InitTyped, InitHonoured
  <1>2. LInv /\ RateInv /\ [Next]_vars => (LInv /\ RateInv)'
    BY StepTyped, RateStep
  <1>3. RateInv => LimiterRemembers
    BY DEF RateInv, Honoured, LimiterRemembers, Acquiring, Reading
  <1>4. QED
    BY <1>1, <1>2, <1>3, PTL DEF Spec

=============================================================================
