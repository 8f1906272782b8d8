-------------------------- MODULE ServiceEdgeProofs --------------------------
(***************************************************************************)
(* Proofs about the service's edges: ApiKeys, the keys that let a request  *)
(* in; CrashWatch, the directory that dumps come in by; Notifications, the *)
(* channels that news goes out by.  The three share no state: the keys'    *)
(* theorems are stated of the module itself, the others' of an instance.   *)
(*                                                                         *)
(* For the keys, with any keys, rate limits, lifetimes, clock resolution   *)
(* and pauses, everything rests on how the level of a bucket moves with    *)
(* time (Refilling): refilling by d ticks at once and refilling in two     *)
(* parts are the same, the cap included.                                   *)
(***************************************************************************)
EXTENDS ApiKeys, Sequences, TLAPS

CONSTANTS
  Paths,                            \* of Watch
  Channels, NameOf, Names, Prints   \* of Manager

VARIABLES
  file, at, listing, seen, handed, yields,              \* of Watch
  channels, rules, sending, live, targets, outcome      \* of Manager

Watch   == INSTANCE CrashWatch
Manager == INSTANCE Notifications


\* One level of a bucket of capacity c and rate r, refilled for e ticks.
Fill(c, r, t, e) == IF t + e * r <= c THEN t + e * r ELSE c

LEMMA Distribute == \A a, b, r \in Int : (a + b) * r = a * r + b * r
  OBVIOUS

LEMMA Product == \A a, b \in Nat : a * b \in Nat
  OBVIOUS

\* A bucket is refilled to a level between nothing and its capacity, a full
\* turn of the clock adds at most what it is worth, and in two parts as at once.
LEMMA Refilling ==
  \A c, r, t, e, d \in Nat :
      /\ Fill(c, r, t, e) \in Nat /\ Fill(c, r, t, e) <= c
      /\ Fill(c, r, t, e + d) = Fill(c, r, Fill(c, r, t, e), d)
      /\ Fill(c, r, t, e + d) <= Fill(c, r, t, e) + d * r
      /\ t <= c => Fill(c, r, t, 0) = t
  <1> SUFFICES ASSUME NEW c \in Nat, NEW r \in Nat, NEW t \in Nat, NEW e \in Nat, NEW d \in Nat
               PROVE  /\ Fill(c, r, t, e) \in Nat /\ Fill(c, r, t, e) <= c
                      /\ Fill(c, r, t, e + d) = Fill(c, r, Fill(c, r, t, e), d)
                      /\ Fill(c, r, t, e + d) <= Fill(c, r, t, e) + d * r
                      /\ t <= c => Fill(c, r, t, 0) = t
    OBVIOUS
  <1>1. e * r \in Nat /\ d * r \in Nat /\ 0 * r = 0
    BY Product
  <1>2. (e + d) * r = e * r + d * r
    BY Distribute
  <1> HIDE DEF Fill
  <1> DEFINE x == e * r
             y == d * r
             z == (e + d) * r
             w == 0 * r
  <1>3. Fill(c, r, t, e) = IF t + x <= c THEN t + x ELSE c
    BY DEF Fill
  <1>4. Fill(c, r, t, e + d) = IF t + z <= c THEN t + z ELSE c
    BY DEF Fill
  <1>5. \A l : Fill(c, r, l, d) = IF l + y <= c THEN l + y ELSE c
    BY DEF Fill
  <1>6. Fill(c, r, t, 0) = IF t + w <= c THEN t + w ELSE c
    BY DEF Fill
  <1>7. x \in Nat /\ y \in Nat /\ z = x + y /\ w = 0 /\ d * r = y
    BY <1>1, <1>2
  <1> HIDE DEF x, y, z, w
  <1>8. Fill(c, r, t, e) \in Nat /\ Fill(c, r, t, e) <= c
    BY <1>3, <1>7
  <1>9. Fill(c, r, t, e + d) = Fill(c, r, Fill(c, r, t, e), d)
    BY <1>3, <1>4, <1>5, <1>7
  <1>10. Fill(c, r, t, e + d) <= Fill(c, r, t, e) + d * r
    BY <1>3, <1>4, <1>7
  <1>11. t <= c => Fill(c, r, t, 0) = t
    BY <1>6, <1>7
  <1>12. QED
    BY <1>8, <1>9, <1>10, <1>11

\* Constants and what is computed from them.
LEMMA Numbers ==
  /\ Token \in Nat /\ Token > 0
  /\ \A r \in Rates : r \in Nat
  /\ \A d \in Jumps : d \in Nat
  BY ClockAssumption, RatesAssumption DEF Token

LEMMA Levels ==
  ASSUME TypeOK, NEW k \in Keys
  PROVE  /\ Capacity(k) \in Nat
         /\ now - lastRefill[k] \in Nat
         /\ Refilled(k) = Fill(Capacity(k), rateLimit[k], tokens[k], now - lastRefill[k])
         /\ Refilled(k) \in Nat /\ Refilled(k) <= Capacity(k)
  <1>1. Capacity(k) \in Nat
    BY Numbers, Product DEF TypeOK, Capacity
  <1>2. now - lastRefill[k] \in Nat
    BY DEF TypeOK
  <1>3. Refilled(k) = Fill(Capacity(k), rateLimit[k], tokens[k], now - lastRefill[k])
    BY DEF Refilled, Fill
  <1>4. tokens[k] \in Nat /\ rateLimit[k] \in Nat
    BY DEF TypeOK
  <1>5. \A c, r, t, e \in Nat : Fill(c, r, t, e) \in Nat /\ Fill(c, r, t, e) <= c
    BY Refilling
  <1> DEFINE level == Fill(Capacity(k), rateLimit[k], tokens[k], now - lastRefill[k])
  <1>6. level \in Nat /\ level <= Capacity(k)
    BY <1>1, <1>2, <1>4, <1>5
  <1> HIDE DEF level
  <1>7. Refilled(k) = level
    BY <1>3 DEF level
  <1>8. QED
    BY <1>1, <1>2, <1>3, <1>6, <1>7

\* What int(wait_time) + 1 is worth: the time it announces refills the token,
\* the whole second before it does not.
LEMMA Rounding ==
  ASSUME NEW p \in Nat, NEW q \in Nat, q > 0
  PROVE  /\ p \div q \in Nat
         /\ q * (p \div q) <= p /\ p < q * (p \div q) + q
  OBVIOUS

LEMMA RetryNatural ==
  ASSUME TypeOK, NEW k \in Keys, rateLimit[k] > 0, Refilled(k) \in Nat, Refilled(k) < Token
  PROVE  RetryAfter(k) \in Nat
  <1>1. Token - Refilled(k) \in Nat
    BY Numbers
  <1>2. rateLimit[k] * Second \in Nat /\ rateLimit[k] * Second > 0
    <2>1. rateLimit[k] \in Nat /\ rateLimit[k] > 0 /\ Second \in Nat /\ Second > 0
      BY ClockAssumption DEF TypeOK
    <2>2. \A a, b \in Nat : a > 0 /\ b > 0 => a * b \in Nat /\ a * b > 0
      OBVIOUS
    <2>3. QED
      BY <2>1, <2>2
  <1>3. QED
    BY <1>1, <1>2, Rounding DEF RetryAfter

LEMMA InitTyped == Init => TypeOK
  <1> SUFFICES ASSUME Init PROVE TypeOK
    OBVIOUS
  <1>1. \A k \in Keys : Capacity(k) \in Nat
    BY Numbers, Product DEF Init, Capacity
  <1>2. QED
    BY <1>1 DEF Init, TypeOK, Answer, Silence

\* What every step leaves of the type invariant.
LEMMA StepTyped == TypeOK /\ [Next]_vars => TypeOK'
  <1> SUFFICES ASSUME TypeOK, [Next]_vars PROVE TypeOK'
    OBVIOUS
  <1>1. ASSUME NEW k \in Keys, NEW r \in Rates, Register(k, r) PROVE TypeOK'
    <2>1. r \in Nat /\ r * Token \in Nat
      BY Numbers, Product
    <2>2. \A j \in Keys : tokens'[j] <= Capacity(j)'
      BY <1>1, <2>1 DEF Register, TypeOK, Capacity
    <2>3. now + Lifetime \in Int
      BY LifetimeAssumption DEF TypeOK
    <2>4. QED
      BY <1>1, <2>1, <2>2, <2>3 DEF Register, TypeOK
  <1>2. ASSUME NEW k \in Keys, Disable(k) PROVE TypeOK'
    BY <1>2 DEF Disable, TypeOK, Capacity, bucketVars, countVars
  <1>3. ASSUME NEW k \in Keys, Unauthenticated(k) PROVE TypeOK'
    BY <1>3 DEF Unauthenticated, Tell, TypeOK, Capacity, Answer, keyVars, bucketVars, countVars
  <1>4. ASSUME NEW k \in Keys, Admit(k) PROVE TypeOK'
    <2>1. Refilled(k) - Token \in Nat /\ Refilled(k) - Token <= Capacity(k)
      BY <1>4, Levels, Numbers DEF Admit
    <2>2. \A j \in Keys : tokens'[j] <= Capacity(j)'
      BY <1>4, <2>1 DEF Admit, TypeOK, Capacity, keyVars
    <2>3. QED
      BY <1>4, <2>1, <2>2 DEF Admit, Tell, TypeOK, Answer, keyVars
  <1>5. ASSUME NEW k \in Keys, Limit(k) PROVE TypeOK'
    <2>1. Refilled(k) \in Nat /\ Refilled(k) <= Capacity(k)
      BY Levels
    <2>2. \A j \in Keys : tokens'[j] <= Capacity(j)'
      BY <1>5, <2>1 DEF Limit, TypeOK, Capacity, keyVars
    <2>3. RetryAfter(k) \in Nat
      BY <1>5, <2>1, RetryNatural DEF Limit
    <2>4. QED
      BY <1>5, <2>1, <2>2, <2>3 DEF Limit, Tell, TypeOK, Answer, keyVars, countVars
  <1>6. ASSUME NEW k \in Keys, Breaks(k) PROVE TypeOK'
    BY <1>6 DEF Breaks, Tell, TypeOK, Capacity, Answer, keyVars, countVars
  <1>7. ASSUME NEW d \in Jumps, Pass(d) PROVE TypeOK'
    BY <1>7, Numbers DEF Pass, TypeOK, Capacity, keyVars, bucketVars
  <1>8. ASSUME NEW k \in Keys, Observe(k) PROVE TypeOK'
    BY <1>8 DEF Observe, TypeOK, Capacity, keyVars, bucketVars
  <1>9. CASE UNCHANGED vars
    BY <1>9 DEF vars, TypeOK, Capacity, keyVars, bucketVars, countVars
  <1>10. QED
    BY <1>1, <1>2, <1>3, <1>4, <1>5, <1>6, <1>7, <1>8, <1>9 DEF Next, Request

\* The counters and stamps of every store are numbers, and no bucket overflows.
THEOREM TypeCorrect == Spec => []TypeOK
  BY InitTyped, StepTyped, PTL DEF Spec

-----------------------------------------------------------------------------
(* How an action moves the levels.  A check, admitted or not, stores what   *)
(* the bucket has been refilled to, which by itself changes no level.       *)

LEMMA StoredLevel ==
  ASSUME TypeOK, NEW k \in Keys, NEW t \in Nat, t <= Capacity(k)
  PROVE  Fill(Capacity(k), rateLimit[k], t, 0) = t
  <1>1. Capacity(k) \in Nat /\ rateLimit[k] \in Nat
    BY Levels DEF TypeOK
  <1>2. \A c, r \in Nat : t <= c => Fill(c, r, t, 0) = t
    BY Refilling
  <1>3. QED
    BY <1>1, <1>2

\* A key whose attributes and bucket an action leaves alone keeps its level.
LEMMA Untouched ==
  ASSUME NEW j \in Keys, now' = now, rateLimit'[j] = rateLimit[j],
         tokens'[j] = tokens[j], lastRefill'[j] = lastRefill[j]
  PROVE  Refilled(j)' = Refilled(j)
  BY DEF Refilled, Capacity

\* A bucket that was stamped now holds what is stored.
LEMMA Stamped ==
  ASSUME TypeOK', NEW j \in Keys, lastRefill'[j] = now'
  PROVE  Refilled(j)' = tokens'[j]
  <1>1. /\ tokens'[j] \in Nat /\ rateLimit'[j] \in Nat /\ now' \in Nat
        /\ tokens'[j] <= Capacity(j)'
    BY DEF TypeOK
  <1>2. (now' - lastRefill'[j]) * rateLimit'[j] = 0
    BY <1>1
  <1>3. QED
    BY <1>1, <1>2 DEF Refilled

LEMMA LevelRegister ==
  ASSUME TypeOK, TypeOK', NEW k \in Keys, NEW r \in Rates, Register(k, r), NEW j \in Keys
  PROVE  Refilled(j)' = IF j = k THEN r * Token ELSE Refilled(j)
  <1>1. CASE j = k
    BY <1>1, Stamped DEF Register, TypeOK
  <1>2. CASE j # k
    BY <1>2, Untouched DEF Register, TypeOK
  <1>3. QED
    BY <1>1, <1>2

LEMMA LevelAdmit ==
  ASSUME TypeOK, TypeOK', NEW k \in Keys, Admit(k), NEW j \in Keys
  PROVE  Refilled(j)' = IF j = k THEN Refilled(j) - Token ELSE Refilled(j)
  <1>1. CASE j = k
    BY <1>1, Stamped DEF Admit, TypeOK
  <1>2. CASE j # k
    BY <1>2, Untouched DEF Admit, TypeOK, keyVars
  <1>3. QED
    BY <1>1, <1>2

LEMMA LevelLimit ==
  ASSUME TypeOK, TypeOK', NEW k \in Keys, Limit(k), NEW j \in Keys
  PROVE  Refilled(j)' = Refilled(j)
  <1>1. CASE j = k
    BY <1>1, Stamped DEF Limit, TypeOK
  <1>2. CASE j # k
    BY <1>2, Untouched DEF Limit, TypeOK, keyVars
  <1>3. QED
    BY <1>1, <1>2

\* A key of rate 0 has an empty bucket, whenever it was stamped.
LEMMA LevelBreaks ==
  ASSUME TypeOK, TypeOK', NEW k \in Keys, Breaks(k), NEW j \in Keys
  PROVE  Refilled(j)' = Refilled(j)
  <1>1. CASE j = k
    <2>1. Capacity(k) = 0
      <3>1. \A t \in Nat : 0 * t = 0
        OBVIOUS
      <3>2. QED
        BY <1>1, <3>1, Numbers DEF Breaks, Capacity
    <2>2. Refilled(k) = 0
      BY <2>1, Levels
    <2>3. tokens[k] = 0
      BY <2>1 DEF TypeOK
    <2>4. QED
      BY <1>1, <2>2, <2>3, Stamped DEF Breaks, TypeOK
  <1>2. CASE j # k
    BY <1>2, Untouched DEF Breaks, TypeOK, keyVars
  <1>3. QED
    BY <1>1, <1>2

LEMMA LevelPass ==
  ASSUME TypeOK, NEW d \in Jumps, Pass(d), NEW j \in Keys
  PROVE  /\ Refilled(j)' = Fill(Capacity(j), rateLimit[j], Refilled(j), d)
         /\ Refilled(j)' <= Refilled(j) + d * rateLimit[j]
  <1> DEFINE cap == Capacity(j)
             gain == rateLimit[j]
             kept == tokens[j]
             idle == now - lastRefill[j]
  <1>1. cap \in Nat /\ gain \in Nat /\ kept \in Nat /\ idle \in Nat /\ d \in Nat
    BY Levels, Numbers DEF TypeOK
  <1>2. Refilled(j) = Fill(cap, gain, kept, idle)
    BY Levels
  <1>3. (now - lastRefill[j])' = idle + d
    BY <1>1 DEF Pass, TypeOK, bucketVars
  <1>4. Refilled(j)' = Fill(cap, gain, kept, idle + d)
    BY <1>3 DEF Pass, Refilled, Capacity, Fill, keyVars, bucketVars
  <1> HIDE DEF cap, gain, kept, idle
  <1>5. /\ Fill(cap, gain, kept, idle + d) = Fill(cap, gain, Fill(cap, gain, kept, idle), d)
        /\ Fill(cap, gain, kept, idle + d) <= Fill(cap, gain, kept, idle) + d * gain
    <2>1. Fill(cap, gain, kept, idle + d) = Fill(cap, gain, Fill(cap, gain, kept, idle), d)
      BY <1>1, Refilling, SMT
    <2>2. Fill(cap, gain, kept, idle + d) <= Fill(cap, gain, kept, idle) + d * gain
      BY <1>1, Refilling, Zenon
    <2>3. QED
      BY <2>1, <2>2
  <1>6. /\ Refilled(j)' = Fill(cap, gain, Refilled(j), d)
        /\ Refilled(j)' <= Refilled(j) + d * gain
    BY <1>2, <1>4, <1>5
  <1>7. QED
    BY <1>6 DEF cap, gain

-----------------------------------------------------------------------------
(* The window: what has been admitted and what is left in the bucket are    *)
(* together no more than a full bucket and what the window has refilled.    *)

Accounted(k) == spent[k] * Token + Refilled(k) <= Capacity(k) + window[k] * rateLimit[k]

WInv == TypeOK /\ \A k \in Keys : Accounted(k)

LevelsBounded == \A k \in Keys :
  Refilled(k) \in Nat /\ Refilled(k) <= Capacity(k) /\ Capacity(k) \in Nat

\* The levels after a step are as well-behaved as those before.
LEMMA NextLevels == TypeOK' => LevelsBounded'
  <1>1. TypeOK => LevelsBounded
    BY Levels DEF LevelsBounded
  <1>2. QED
    BY <1>1, PTL

\* An observer that starts now has seen nothing.
LEMMA NewWindow ==
  ASSUME TypeOK', NEW j \in Keys, spent'[j] = 0, window'[j] = 0
  PROVE  Accounted(j)'
  <1>1. \A n \in Nat : 0 * n = 0
    OBVIOUS
  <1>2. Refilled(j)' \in Nat /\ Refilled(j)' <= Capacity(j)' /\ Capacity(j)' \in Nat
    BY NextLevels DEF LevelsBounded
  <1>3. spent'[j] * Token = 0 /\ window'[j] * rateLimit'[j] = 0
    BY <1>1, Numbers DEF TypeOK
  <1>4. QED
    BY <1>2, <1>3 DEF Accounted

\* A step that moves neither the level nor the counters of a key.
LEMMA SameWindow ==
  ASSUME WInv, NEW j \in Keys, Refilled(j)' = Refilled(j), rateLimit'[j] = rateLimit[j],
         spent'[j] = spent[j], window'[j] = window[j]
  PROVE  Accounted(j)'
  BY DEF WInv, Accounted, Capacity

LEMMA WindowStep == WInv /\ [Next]_vars => WInv'
  <1> SUFFICES ASSUME WInv, [Next]_vars, NEW j \in Keys PROVE Accounted(j)'
    BY StepTyped DEF WInv
  <1>0. TypeOK /\ TypeOK'
    BY StepTyped DEF WInv
  <1>1. ASSUME NEW k \in Keys, NEW r \in Rates, Register(k, r) PROVE Accounted(j)'
    <2>1. CASE j = k
      BY <1>0, <1>1, <2>1, NewWindow DEF Register, TypeOK
    <2>2. CASE j # k
      BY <1>0, <1>1, <2>2, LevelRegister, SameWindow DEF Register, TypeOK
    <2>3. QED
      BY <2>1, <2>2
  <1>2. ASSUME NEW k \in Keys, Disable(k) PROVE Accounted(j)'
    BY <1>0, <1>2, Untouched, SameWindow DEF Disable, bucketVars, countVars
  <1>3. ASSUME NEW k \in Keys, Unauthenticated(k) PROVE Accounted(j)'
    BY <1>0, <1>3, Untouched, SameWindow DEF Unauthenticated, keyVars, bucketVars, countVars
  <1>4. ASSUME NEW k \in Keys, Admit(k) PROVE Accounted(j)'
    <2>1. CASE j = k
      <3>1. /\ spent'[k] = spent[k] + 1 /\ window'[k] = window[k]
            /\ Refilled(k)' = Refilled(k) - Token /\ Capacity(k)' = Capacity(k)
            /\ rateLimit' = rateLimit
        BY <1>0, <1>4, LevelAdmit DEF Admit, TypeOK, keyVars, Capacity
      <3>2. (spent[k] + 1) * Token = spent[k] * Token + Token
        BY <1>0, Numbers DEF TypeOK
      <3>3. spent[k] * Token \in Int /\ Refilled(k) \in Int /\ Token \in Int
        BY <1>0, Levels, Numbers, Product DEF TypeOK
      <3>4. QED
        BY <2>1, <3>1, <3>2, <3>3 DEF WInv, Accounted
    <2>2. CASE j # k
      BY <1>0, <1>4, <2>2, LevelAdmit, SameWindow DEF Admit, TypeOK, keyVars
    <2>3. QED
      BY <2>1, <2>2
  <1>5. ASSUME NEW k \in Keys, Limit(k) PROVE Accounted(j)'
    BY <1>0, <1>5, LevelLimit, SameWindow DEF Limit, keyVars, countVars
  <1>6. ASSUME NEW k \in Keys, Breaks(k) PROVE Accounted(j)'
    BY <1>0, <1>6, LevelBreaks, SameWindow DEF Breaks, keyVars, countVars
  <1>7. ASSUME NEW d \in Jumps, Pass(d) PROVE Accounted(j)'
    <2> DEFINE gained == d * rateLimit[j]
               before == window[j] * rateLimit[j]
               paid == spent[j] * Token
    <2>1. Refilled(j)' <= Refilled(j) + gained
      BY <1>0, <1>7, LevelPass
    <2>2. /\ spent' = spent /\ rateLimit' = rateLimit /\ Capacity(j)' = Capacity(j)
          /\ window'[j] = window[j] + d
      BY <1>7 DEF Pass, keyVars, Capacity
    <2>3. (window[j] + d) * rateLimit[j] = before + gained
      BY <1>0, Distribute, Numbers DEF TypeOK
    <2>4. gained \in Nat /\ before \in Nat /\ paid \in Nat
      BY <1>0, Product, Numbers DEF TypeOK
    <2>5. Refilled(j) \in Nat /\ Refilled(j)' \in Nat /\ Capacity(j) \in Nat
      BY <1>0, Levels, NextLevels DEF LevelsBounded
    <2>6. paid + Refilled(j) <= Capacity(j) + before
      BY DEF WInv, Accounted
    <2>7. spent'[j] * Token = paid /\ window'[j] * rateLimit'[j] = before + gained
      BY <2>2, <2>3
    <2> HIDE DEF gained, before, paid
    <2>8. QED
      BY <2>1, <2>2, <2>4, <2>5, <2>6, <2>7 DEF Accounted
  <1>8. ASSUME NEW k \in Keys, Observe(k) PROVE Accounted(j)'
    <2>1. CASE j = k
      BY <1>0, <1>8, <2>1, NewWindow DEF Observe, TypeOK
    <2>2. CASE j # k
      BY <1>0, <1>8, <2>2, Untouched, SameWindow DEF Observe, TypeOK, keyVars, bucketVars
    <2>3. QED
      BY <2>1, <2>2
  <1>9. CASE UNCHANGED vars
    BY <1>0, <1>9, Untouched, SameWindow DEF vars, keyVars, bucketVars, countVars
  <1>10. QED
    BY <1>1, <1>2, <1>3, <1>4, <1>5, <1>6, <1>7, <1>8, <1>9 DEF Next, Request

\* However requests, pauses and refusals fall, no window admits more requests
\* of a key than its rate limit and what the window has refilled.
THEOREM Window == Spec => []WindowBound
  <1>1. Init => WInv
    <2> SUFFICES ASSUME Init, NEW k \in Keys PROVE Accounted(k)
      BY InitTyped DEF WInv
    <2>1. TypeOK
      BY InitTyped
    <2>2. spent[k] * Token = 0 /\ window[k] * rateLimit[k] = 0
      BY Numbers DEF Init
    <2>3. QED
      BY <2>1, <2>2, Levels DEF Accounted
  <1>2. WInv => WindowBound
    <2> SUFFICES ASSUME WInv, NEW k \in Keys
                 PROVE  spent[k] * Token <= Capacity(k) + window[k] * rateLimit[k]
      BY DEF WindowBound
    <2>1. spent[k] * Token \in Nat /\ window[k] * rateLimit[k] \in Nat
      BY Product, Numbers DEF WInv, TypeOK
    <2>2. Refilled(k) \in Nat /\ Capacity(k) \in Nat
      BY Levels DEF WInv
    <2>3. QED
      BY <2>1, <2>2 DEF WInv, Accounted
  <1>3. QED
    BY <1>1, <1>2, WindowStep, PTL DEF Spec

-----------------------------------------------------------------------------
(* Nothing but the key's own next request moves a bucket after a refusal,    *)
(* so that the refusal's arithmetic stays good until then.                   *)

RefusedAt(k) ==
  /\ status[k] # "absent" /\ rateLimit[k] > 0
  /\ tokens[k] < Token /\ lastRefill[k] = answer[k].at
  /\ answer[k].retryAfter = (Token - tokens[k]) \div (rateLimit[k] * Second) + 1

RInv == TypeOK /\ \A k \in Keys : answer[k].told = "limited" => RefusedAt(k)

\* A step that does not answer a request of j and leaves j's bucket alone.
LEMMA SameRefusal ==
  ASSUME RInv, NEW j \in Keys, answer'[j] = answer[j], rateLimit'[j] = rateLimit[j],
         tokens'[j] = tokens[j], lastRefill'[j] = lastRefill[j], status'[j] # "absent" \/ status'[j] = status[j]
  PROVE  answer'[j].told = "limited" => RefusedAt(j)'
  BY DEF RInv, RefusedAt

LEMMA RefusalStep == RInv /\ [Next]_vars => RInv'
  <1> SUFFICES ASSUME RInv, [Next]_vars, NEW j \in Keys
               PROVE  answer'[j].told = "limited" => RefusedAt(j)'
    BY StepTyped DEF RInv
  <1>0. TypeOK /\ TypeOK'
    BY StepTyped DEF RInv
  <1> DEFINE Goal == answer'[j].told = "limited" => RefusedAt(j)'
  <1>1. ASSUME NEW k \in Keys, NEW r \in Rates, Register(k, r) PROVE Goal
    <2>1. CASE j = k
      BY <1>1, <2>1 DEF Register, RInv, RefusedAt
    <2>2. CASE j # k
      BY <1>0, <1>1, <2>2, SameRefusal DEF Register, TypeOK
    <2>3. QED
      BY <2>1, <2>2
  <1>2. ASSUME NEW k \in Keys, Disable(k) PROVE Goal
    BY <1>0, <1>2, SameRefusal DEF Disable, TypeOK, bucketVars
  <1>3. ASSUME NEW k \in Keys, Unauthenticated(k) PROVE Goal
    <2>1. CASE j = k
      BY <1>0, <1>3, <2>1 DEF Unauthenticated, Tell, TypeOK
    <2>2. CASE j # k
      BY <1>0, <1>3, <2>2, SameRefusal DEF Unauthenticated, Tell, TypeOK, keyVars, bucketVars
    <2>3. QED
      BY <2>1, <2>2
  <1>4. ASSUME NEW k \in Keys, Admit(k) PROVE Goal
    <2>1. CASE j = k
      BY <1>0, <1>4, <2>1 DEF Admit, Tell, TypeOK
    <2>2. CASE j # k
      BY <1>0, <1>4, <2>2, SameRefusal DEF Admit, Tell, TypeOK, keyVars
    <2>3. QED
      BY <2>1, <2>2
  <1>5. ASSUME NEW k \in Keys, Limit(k) PROVE Goal
    <2>1. CASE j = k
      <3>1. /\ answer'[k].at = now /\ answer'[k].retryAfter = RetryAfter(k)
            /\ lastRefill'[k] = now /\ tokens'[k] = Refilled(k)
            /\ status' = status /\ rateLimit' = rateLimit
        BY <1>0, <1>5 DEF Limit, Tell, TypeOK, keyVars
      <3>2. status[k] = "enabled" /\ rateLimit[k] > 0 /\ Refilled(k) < Token
        BY <1>5 DEF Limit, Valid
      <3>3. Token' = Token
        BY DEF Token
      <3>4. QED
        BY <2>1, <3>1, <3>2, <3>3 DEF RefusedAt, RetryAfter
    <2>2. CASE j # k
      BY <1>0, <1>5, <2>2, SameRefusal DEF Limit, Tell, TypeOK, keyVars
    <2>3. QED
      BY <2>1, <2>2
  <1>6. ASSUME NEW k \in Keys, Breaks(k) PROVE Goal
    <2>1. CASE j = k
      BY <1>0, <1>6, <2>1 DEF Breaks, Tell, TypeOK
    <2>2. CASE j # k
      BY <1>0, <1>6, <2>2, SameRefusal DEF Breaks, Tell, TypeOK, keyVars
    <2>3. QED
      BY <2>1, <2>2
  <1>7. ASSUME NEW d \in Jumps, Pass(d) PROVE Goal
    BY <1>7, SameRefusal DEF Pass, keyVars, bucketVars
  <1>8. ASSUME NEW k \in Keys, Observe(k) PROVE Goal
    BY <1>8, SameRefusal DEF Observe, keyVars, bucketVars
  <1>9. CASE UNCHANGED vars
    BY <1>9, SameRefusal DEF vars, keyVars, bucketVars
  <1>10. QED
    BY <1>1, <1>2, <1>3, <1>4, <1>5, <1>6, <1>7, <1>8, <1>9 DEF Next, Request

\* n announced seconds refill at least what was missing; a second less does not.
LEMMA Waiting ==
  ASSUME NEW p \in Nat, NEW r \in Nat, r > 0, NEW s \in Nat, s > 0, NEW w \in Nat
  PROVE  /\ w >= (p \div (r * s) + 1) * s => w * r > p
         /\ w < (p \div (r * s)) * s => w * r < p
  <1> DEFINE q == r * s
             n == p \div q
  <1>1. q \in Nat /\ q > 0
    <2>1. \A a, b \in Nat : a > 0 /\ b > 0 => a * b \in Nat /\ a * b > 0
      OBVIOUS
    <2>2. QED
      BY <2>1
  <1> HIDE DEF q
  <1>2. n \in Nat /\ q * n <= p /\ p < q * n + q
    BY <1>1, Rounding
  <1> HIDE DEF n
  <1>3. \A a, b, c \in Nat : (a * b) * c = (c * b) * a
    OBVIOUS
  <1>4. (n * s) * r = q * n
    BY <1>2, <1>3 DEF q
  <1>5. ((n + 1) * s) * r = q * n + q
    <2>1. (n + 1) * s = n * s + s /\ n * s \in Nat
      BY <1>2, Distribute, Product
    <2>2. (n * s + s) * r = (n * s) * r + s * r
      BY <2>1, Distribute
    <2>3. s * r = q
      BY DEF q
    <2>4. QED
      BY <1>4, <2>1, <2>2, <2>3
  <1>6. \A a, b, c \in Nat : /\ a >= b => a * c >= b * c
                             /\ a < b /\ c > 0 => a * c < b * c
    OBVIOUS
  <1>7. ASSUME w >= (n + 1) * s PROVE w * r > p
    <2>1. (n + 1) * s \in Nat
      BY <1>2, Product
    <2>2. w * r >= ((n + 1) * s) * r
      BY <1>6, <1>7, <2>1
    <2>3. w * r \in Nat /\ q * n \in Nat
      BY <1>1, <1>2, Product
    <2>4. QED
      BY <1>1, <1>2, <1>5, <2>2, <2>3
  <1>8. ASSUME w < n * s PROVE w * r < p
    <2>1. n * s \in Nat
      BY <1>2, Product
    <2>2. w * r < (n * s) * r
      BY <1>6, <1>8, <2>1
    <2>3. w * r \in Nat /\ q * n \in Nat
      BY <1>1, <1>2, Product
    <2>4. QED
      BY <1>1, <1>2, <1>4, <2>2, <2>3
  <1>9. QED
    BY <1>7, <1>8 DEF n, q

\* The retry_after of a refusal is the least whole number of seconds, or one
\* more, after which a request of the key is admitted.
THEOREM Retry == Spec => []RetryAfterExact
  <1>1. Init => RInv
    BY InitTyped DEF Init, RInv, Silence
  <1>2. RInv => RetryAfterExact
    <2> SUFFICES ASSUME RInv, NEW k \in Keys, answer[k].told = "limited"
                 PROVE  LET waited == now - answer[k].at
                        IN  /\ waited >= answer[k].retryAfter * Second => Refilled(k) >= Token
                            /\ waited < (answer[k].retryAfter - 1) * Second => Refilled(k) < Token
      BY DEF RetryAfterExact
    <2> DEFINE p == Token - tokens[k]
               n == p \div (rateLimit[k] * Second)
               w == now - lastRefill[k]
               gain == w * rateLimit[k]
    <2>1. p \in Nat /\ w \in Nat /\ rateLimit[k] \in Nat /\ rateLimit[k] > 0
      BY Numbers DEF RInv, RefusedAt, TypeOK
    <2>2. Second \in Nat /\ Second > 0
      BY ClockAssumption
    <2>3. /\ w >= (n + 1) * Second => gain > p
          /\ w < n * Second => gain < p
      BY <2>1, <2>2, Waiting
    <2>4. answer[k].at = lastRefill[k] /\ answer[k].retryAfter = n + 1
      BY DEF RInv, RefusedAt
    <2>5. Token <= Capacity(k) /\ Capacity(k) \in Nat /\ tokens[k] \in Nat
      <3>1. \A a, b \in Nat : a > 0 => b <= a * b
        OBVIOUS
      <3>2. Token <= Capacity(k)
        BY <2>1, <3>1, Numbers DEF Capacity
      <3>3. QED
        BY <3>2, Levels DEF RInv, TypeOK
    <2>6. gain \in Nat
      BY <2>1, Product
    <2>7. Refilled(k) = IF tokens[k] + gain <= Capacity(k) THEN tokens[k] + gain ELSE Capacity(k)
      BY DEF Refilled
    <2>8. gain > p => Refilled(k) >= Token
      BY <2>1, <2>5, <2>6, <2>7, Numbers
    <2>9. gain < p => Refilled(k) < Token
      BY <2>1, <2>5, <2>6, <2>7, Numbers
    <2>10. n \in Int
      <3>1. rateLimit[k] * Second \in Nat /\ rateLimit[k] * Second > 0
        <4>1. \A a, b \in Nat : a > 0 /\ b > 0 => a * b \in Nat /\ a * b > 0
          OBVIOUS
        <4>2. QED
          BY <2>1, <2>2, <4>1
      <3>2. QED
        BY <2>1, <3>1, Rounding
    <2> HIDE DEF n, gain, p
    <2>11. (n + 1) - 1 = n
      BY <2>10
    <2>12. QED
      BY <2>3, <2>4, <2>8, <2>9, <2>11
  <1>3. QED
    BY <1>1, <1>2, RefusalStep, PTL DEF Spec

-----------------------------------------------------------------------------
(* ApiKeys implements TokenBucket: the bucket that fills all the time.       *)

SteadyLevel == [k \in Keys |-> Refilled(k)]

\* A step that moves no level and counts nothing is invisible to the bucket.
LEMMA Invisible ==
  ASSUME rateLimit' = rateLimit, window' = window, spent' = spent,
         \A k \in Keys : Refilled(k)' = Refilled(k)
  PROVE  UNCHANGED Steady!vars
  BY DEF Steady!vars

LEMMA StepRefines == TypeOK /\ [Next]_vars => [Steady!Next]_(Steady!vars)
  <1> SUFFICES ASSUME TypeOK, [Next]_vars PROVE [Steady!Next]_(Steady!vars)
    OBVIOUS
  <1>0. TypeOK'
    BY StepTyped
  <1>1. ASSUME NEW k \in Keys, NEW r \in Rates, Register(k, r) PROVE Steady!Next
    <2>1. Steady!Issue(k, r)
      <3>1. \A j \in Keys : Refilled(j)' = IF j = k THEN r * Token ELSE Refilled(j)
        BY <1>0, <1>1, LevelRegister
      <3>2. SteadyLevel' = [SteadyLevel EXCEPT ![k] = r * Token]
        BY <3>1 DEF SteadyLevel
      <3>3. QED
        BY <1>1, <3>2 DEF Steady!Issue, Steady!Capacity, Register, SteadyLevel
    <2>2. QED
      BY <2>1 DEF Steady!Next
  <1>2. ASSUME NEW k \in Keys, Disable(k) PROVE UNCHANGED Steady!vars
    BY <1>2, Untouched, Invisible DEF Disable, bucketVars, countVars
  <1>3. ASSUME NEW k \in Keys, Unauthenticated(k) PROVE UNCHANGED Steady!vars
    BY <1>3, Untouched, Invisible DEF Unauthenticated, keyVars, bucketVars, countVars
  <1>4. ASSUME NEW k \in Keys, Admit(k) PROVE Steady!Next
    <2>1. Steady!Take(k)
      <3>1. \A j \in Keys : Refilled(j)' = IF j = k THEN Refilled(j) - Token ELSE Refilled(j)
        BY <1>0, <1>4, LevelAdmit
      <3>2. SteadyLevel' = [SteadyLevel EXCEPT ![k] = @ - Token] /\ SteadyLevel[k] >= Token
        BY <1>4, <3>1 DEF SteadyLevel, Admit
      <3>3. QED
        BY <1>4, <3>2 DEF Steady!Take, Admit, SteadyLevel, keyVars
    <2>2. QED
      BY <2>1 DEF Steady!Next
  <1>5. ASSUME NEW k \in Keys, Limit(k) PROVE UNCHANGED Steady!vars
    BY <1>0, <1>5, LevelLimit, Invisible DEF Limit, keyVars, countVars
  <1>6. ASSUME NEW k \in Keys, Breaks(k) PROVE UNCHANGED Steady!vars
    BY <1>0, <1>6, LevelBreaks, Invisible DEF Breaks, keyVars, countVars
  <1>7. ASSUME NEW d \in Jumps, Pass(d) PROVE Steady!Next
    <2>1. Steady!Pass(d)
      <3>1. \A j \in Keys : Refilled(j)' = Fill(Capacity(j), rateLimit[j], Refilled(j), d)
        BY <1>7, LevelPass
      <3>2. \A j \in Keys : Fill(Capacity(j), rateLimit[j], Refilled(j), d)
              = Steady!Lesser(Steady!Capacity(rateLimit[j]), SteadyLevel[j] + d * rateLimit[j])
        <4>1. \A j \in Keys : /\ Capacity(j) \in Nat /\ Refilled(j) \in Nat
                              /\ d * rateLimit[j] \in Nat
          BY Levels, Numbers, Product DEF TypeOK
        <4>2. \A a, b \in Int : (IF a <= b THEN a ELSE b) = (IF b <= a THEN b ELSE a)
          OBVIOUS
        <4>3. QED
          BY <4>1, <4>2 DEF Fill, Capacity, Steady!Lesser, Steady!Capacity, SteadyLevel
      <3>3. SteadyLevel' = [j \in Keys |->
              Steady!Lesser(Steady!Capacity(rateLimit[j]), SteadyLevel[j] + d * rateLimit[j])]
        BY <3>1, <3>2 DEF SteadyLevel
      <3>4. QED
        BY <1>7, <3>3 DEF Steady!Pass, Pass, SteadyLevel, keyVars
    <2>2. QED
      BY <2>1 DEF Steady!Next
  <1>8. ASSUME NEW k \in Keys, Observe(k) PROVE Steady!Next
    <2>1. \A j \in Keys : Refilled(j)' = Refilled(j)
      BY <1>8, Untouched DEF Observe, keyVars, bucketVars
    <2>2. Steady!Observe(k)
      BY <1>8, <2>1 DEF Steady!Observe, Observe, keyVars
    <2>3. QED
      BY <2>2 DEF Steady!Next
  <1>9. CASE UNCHANGED vars
    BY <1>9, Untouched, Invisible DEF vars, keyVars, bucketVars, countVars
  <1>10. QED
    BY <1>1, <1>2, <1>3, <1>4, <1>5, <1>6, <1>7, <1>8, <1>9 DEF Next, Request

\* A bucket that only looks at the clock when it is asked cannot be told from
\* one that fills all the time, whatever was refused or disabled in between.
THEOREM Implements == Spec => Buckets
  <1>1. Init => Steady!Init
    <2> SUFFICES ASSUME Init PROVE Steady!Init
      OBVIOUS
    <2>1. ASSUME NEW k \in Keys PROVE Refilled(k) = 0
      <3>1. \A n \in Nat : 0 * n = 0
        OBVIOUS
      <3>2. Capacity(k) = 0
        BY <3>1, Numbers DEF Init, Capacity
      <3>3. Refilled(k) \in Nat /\ Refilled(k) <= Capacity(k)
        BY InitTyped, Levels
      <3>4. QED
        BY <3>2, <3>3
    <2>2. QED
      BY <2>1 DEF Init, Steady!Init
  <1>2. QED
    BY <1>1, StepRefines, TypeCorrect, PTL DEF Spec, Buckets, Steady!Spec

-----------------------------------------------------------------------------
(* CrashWatcher.watch, for any set of paths.                                *)

LEMMA WatchInit == Watch!Init => Watch!TypeOK /\ Watch!AtMostOnce
  BY DEF Watch!Init, Watch!TypeOK, Watch!AtMostOnce

LEMMA WatchStep == Watch!TypeOK /\ [Watch!Next]_(Watch!vars) => Watch!TypeOK'
  <1> SUFFICES ASSUME Watch!TypeOK, [Watch!Next]_(Watch!vars) PROVE Watch!TypeOK'
    OBVIOUS
  <1>1. CASE Watch!BeginPass
    BY <1>1 DEF Watch!TypeOK, Watch!BeginPass
  <1>2. CASE Watch!ListingRaises \/ Watch!Resume \/ Watch!Close \/ Watch!EndPass
    BY <1>2 DEF Watch!TypeOK, Watch!ListingRaises, Watch!Resume, Watch!Close, Watch!EndPass
  <1>3. CASE Watch!Restart
    BY <1>3 DEF Watch!TypeOK, Watch!Restart, Watch!Fresh
  <1>4. ASSUME NEW p \in Paths, Watch!SkipSeen(p) \/ Watch!IngestFails(p) PROVE Watch!TypeOK'
    BY <1>4 DEF Watch!TypeOK, Watch!SkipSeen, Watch!IngestFails, Watch!Take
  <1>5. ASSUME NEW p \in Paths, Watch!IngestAndYield(p) PROVE Watch!TypeOK'
    BY <1>5 DEF Watch!TypeOK, Watch!IngestAndYield, Watch!Take
  <1>6. ASSUME NEW p \in Paths, Watch!FileChanges(p) PROVE Watch!TypeOK'
    BY <1>6 DEF Watch!TypeOK, Watch!FileChanges
  <1>7. CASE UNCHANGED Watch!vars
    BY <1>7 DEF Watch!TypeOK, Watch!vars
  <1>8. QED BY <1>1, <1>2, <1>3, <1>4, <1>5, <1>6, <1>7 DEF Watch!Next

LEMMA OnceStep == Watch!TypeOK /\ Watch!AtMostOnce /\ [Watch!Next]_(Watch!vars) => Watch!AtMostOnce'
  <1> SUFFICES ASSUME Watch!TypeOK, Watch!AtMostOnce, [Watch!Next]_(Watch!vars) PROVE Watch!AtMostOnce'
    OBVIOUS
  <1>1. CASE Watch!BeginPass \/ Watch!ListingRaises \/ Watch!Resume \/ Watch!Close \/ Watch!EndPass
    BY <1>1 DEF Watch!AtMostOnce, Watch!BeginPass, Watch!ListingRaises, Watch!Resume, Watch!Close, Watch!EndPass
  <1>2. CASE Watch!Restart
    BY <1>2 DEF Watch!AtMostOnce, Watch!Restart, Watch!Fresh
  <1>3. ASSUME NEW p \in Paths, Watch!SkipSeen(p) \/ Watch!IngestFails(p) \/ Watch!FileChanges(p) PROVE Watch!AtMostOnce'
    BY <1>3 DEF Watch!AtMostOnce, Watch!SkipSeen, Watch!IngestFails, Watch!FileChanges, Watch!Take
  <1>4. ASSUME NEW p \in Paths, Watch!IngestAndYield(p) PROVE Watch!AtMostOnce'
    <2>1. yields[p] = 0
      BY <1>4 DEF Watch!TypeOK, Watch!AtMostOnce, Watch!IngestAndYield, Watch!Take
    <2>2. QED BY <1>4, <2>1 DEF Watch!TypeOK, Watch!AtMostOnce, Watch!IngestAndYield, Watch!Take
  <1>5. CASE UNCHANGED Watch!vars
    BY <1>5 DEF Watch!AtMostOnce, Watch!vars
  <1>6. QED BY <1>1, <1>2, <1>3, <1>4, <1>5 DEF Watch!Next

(* The watcher's variables keep their types.                               *)
THEOREM WatchTyped == Watch!Spec => []Watch!TypeOK
  BY WatchInit, WatchStep, PTL DEF Watch!Spec

(* For any set of dumps, whatever happens to the files and wherever the    *)
(* consumer lets the generator stand, one watcher yields no path twice.    *)
THEOREM WatchOnce == Watch!Spec => []Watch!AtMostOnce
  BY WatchInit, WatchStep, OnceStep, PTL DEF Watch!Spec

LEMMA LookStep ==
  ASSUME Watch!TypeOK, [Watch!Next]_(Watch!vars), ~Watch!Restart, NEW q \in seen
  PROVE  handed'[q] = handed[q] /\ yields'[q] = yields[q]
  <1>1. CASE Watch!BeginPass \/ Watch!ListingRaises \/ Watch!Resume \/ Watch!Close \/ Watch!EndPass
    BY <1>1 DEF Watch!BeginPass, Watch!ListingRaises, Watch!Resume, Watch!Close, Watch!EndPass
  <1>2. ASSUME NEW p \in Paths, Watch!SkipSeen(p) \/ Watch!IngestFails(p) \/ Watch!FileChanges(p)
        PROVE  handed'[q] = handed[q] /\ yields'[q] = yields[q]
    BY <1>2 DEF Watch!SkipSeen, Watch!IngestFails, Watch!FileChanges
  <1>3. ASSUME NEW p \in Paths, Watch!IngestAndYield(p)
        PROVE  handed'[q] = handed[q] /\ yields'[q] = yields[q]
    BY <1>3 DEF Watch!TypeOK, Watch!IngestAndYield, Watch!Take
  <1>4. CASE UNCHANGED Watch!vars
    BY <1>4 DEF Watch!vars
  <1>5. QED BY <1>1, <1>2, <1>3, <1>4 DEF Watch!Next

(* A watcher has one look at each path (_seen is marked before the dump is *)
(* ingested): no later step but a new watcher's start changes what it      *)
(* handed out for a path it has marked.                                    *)
THEOREM WatchLooksOnce == Watch!Spec => Watch!OneLook
  <1>1. Watch!TypeOK /\ [Watch!Next]_(Watch!vars) => [~Watch!Restart => \A p \in seen : handed'[p] = handed[p] /\ yields'[p] = yields[p]]_(Watch!vars)
    BY LookStep
  <1>2. QED BY <1>1, WatchTyped, PTL DEF Watch!Spec, Watch!OneLook

-----------------------------------------------------------------------------
(* The notification manager, for any channels, names, rules and crashes.    *)

\* Places of a list stay when something is added to it.
LEMMA Longer ==
  ASSUME NEW s \in Seq(Channels), NEW c \in Channels
  PROVE  Append(s, c) \in Seq(Channels) /\ DOMAIN s \subseteq DOMAIN Append(s, c)
  OBVIOUS

\* What the loop works through, and what it has done, are places of the list.
PlacesInv ==
  /\ Manager!TypeOK
  /\ targets \subseteq Manager!Listed
  /\ ~live => DOMAIN outcome \subseteq targets

LEMMA PlacesInit == Manager!Init => PlacesInv /\ Manager!InTurn
<1> SUFFICES ASSUME Manager!Init PROVE PlacesInv /\ Manager!InTurn
  OBVIOUS
<1>1. channels \in Seq(Channels)
  BY DEF Manager!Init
<1>2. DOMAIN outcome = {}
  BY DEF Manager!Init
<1>3. QED BY <1>1, <1>2 DEF Manager!Init, PlacesInv, Manager!TypeOK, Manager!InTurn, Manager!Listed

LEMMA Places == Manager!TypeOK => DOMAIN channels \subseteq Nat
  BY DEF Manager!TypeOK

LEMMA PlacesStep == PlacesInv /\ [Manager!Next]_(Manager!vars) => PlacesInv'
<1> SUFFICES ASSUME PlacesInv, [Manager!Next]_(Manager!vars) PROVE PlacesInv'
  OBVIOUS
<1> USE DEF PlacesInv, Manager!TypeOK, Manager!Listed
<1>1. ASSUME NEW c \in Channels, Manager!AddChannel(c) PROVE PlacesInv'
  BY <1>1, Longer DEF Manager!AddChannel
<1>2. ASSUME NEW r \in Manager!RuleType, Manager!AddRule(r) PROVE PlacesInv'
  BY <1>2 DEF Manager!AddRule
<1>3. ASSUME NEW severity \in Manager!LOW..Manager!CRITICAL, NEW print \in Prints, Manager!Notify(severity, print)
      PROVE  PlacesInv'
  <2>1. targets' \subseteq DOMAIN channels /\ DOMAIN outcome' = {}
    BY <1>3 DEF Manager!Notify, Manager!Resolved
  <2>2. QED BY <1>3, <2>1 DEF Manager!Notify
<1>4. ASSUME NEW i \in DOMAIN channels, Manager!Attempt(i) PROVE PlacesInv'
  <2>1. i \in Manager!Listed /\ DOMAIN outcome' = DOMAIN outcome \union {i}
    BY <1>4 DEF Manager!Attempt, Manager!Left
  <2>2. QED BY <1>4, <2>1 DEF Manager!Attempt
<1>5. CASE Manager!Return
  BY <1>5 DEF Manager!Return
<1>6. CASE UNCHANGED Manager!vars
  BY <1>6 DEF Manager!vars
<1>7. QED BY <1>1, <1>2, <1>3, <1>4, <1>5, <1>6 DEF Manager!Next

(* The manager's state keeps its type, with channels and rules added at    *)
(* any time.                                                               *)
THEOREM NotifyTyped == Manager!Spec => []Manager!TypeOK
<1>1. PlacesInv => Manager!TypeOK
  BY DEF PlacesInv
<1>2. QED BY PlacesInit, PlacesStep, <1>1, PTL DEF Manager!Spec

LEMMA TurnStep == PlacesInv /\ Manager!InTurn /\ [Manager!Next]_(Manager!vars) => Manager!InTurn'
<1> SUFFICES ASSUME PlacesInv, Manager!InTurn, [Manager!Next]_(Manager!vars) PROVE Manager!InTurn'
  OBVIOUS
<1>1. ASSUME NEW i \in DOMAIN channels, Manager!Attempt(i) PROVE Manager!InTurn'
  <2> SUFFICES ASSUME NEW k \in DOMAIN outcome', NEW j \in targets', j < k
               PROVE  j \in DOMAIN outcome'
    BY DEF Manager!InTurn
  <2>1. DOMAIN outcome' = DOMAIN outcome \union {i} /\ targets' = targets
    BY <1>1 DEF Manager!Attempt
  <2>2. CASE k \in DOMAIN outcome
    BY <2>1, <2>2 DEF Manager!InTurn
  <2>3. CASE k = i
    <3>1. j \in Nat /\ i \in Nat
      BY <2>1, Places DEF PlacesInv, Manager!TypeOK
    <3>2. j \in Manager!Listed /\ ~(i <= j)
      BY <2>1, <2>3, <3>1 DEF PlacesInv
    <3>3. QED BY <1>1, <2>1, <3>2 DEF Manager!Attempt, Manager!Left
  <2>4. QED BY <2>1, <2>2, <2>3
<1>2. ASSUME NEW severity \in Manager!LOW..Manager!CRITICAL, NEW print \in Prints, Manager!Notify(severity, print)
      PROVE  Manager!InTurn'
  BY <1>2 DEF Manager!Notify, Manager!InTurn
<1>3. CASE UNCHANGED <<targets, outcome>>
  BY <1>3 DEF Manager!InTurn
<1>4. QED BY <1>1, <1>2, <1>3 DEF Manager!Next, Manager!AddChannel, Manager!AddRule, Manager!Return, Manager!vars

(* A channel that fails or raises takes no other channel's turn (notify's  *)
(* try inside the loop), nor does one that is added while notify sends.    *)
THEOREM NotifyInTurn == Manager!Spec => []Manager!InTurn
  BY PlacesInit, PlacesStep, TurnStep, PTL DEF Manager!Spec

LEMMA EndStep ==
  PlacesInv /\ [Manager!Next]_(Manager!vars) =>
    [sending /\ ~sending' =>
       targets \subseteq DOMAIN outcome /\ (DOMAIN outcome \subseteq targets \/ live)]_(Manager!vars)
<1> SUFFICES ASSUME PlacesInv, [Manager!Next]_(Manager!vars), sending, ~sending'
             PROVE  targets \subseteq DOMAIN outcome /\ (DOMAIN outcome \subseteq targets \/ live)
  OBVIOUS
<1>1. Manager!Return
  BY DEF Manager!Next, Manager!AddChannel, Manager!AddRule, Manager!Notify, Manager!Attempt, Manager!vars
<1>2. QED BY <1>1 DEF Manager!Return, Manager!Left, PlacesInv

(* A call of notify ends with an outcome for every channel it resolved.    *)
THEOREM NotifyNoneSkipped == Manager!Spec => Manager!NoneSkipped
  BY PlacesInit, PlacesStep, EndStep, PTL DEF Manager!Spec, Manager!NoneSkipped

(* Among crashes that some rule sends somewhere, the graver one reaches    *)
(* every channel that the milder one reaches (_resolve_channels).          *)
THEOREM GraverReachesMore ==
  ASSUME Manager!TypeOK, NEW print \in Prints,
         NEW mild \in Manager!LOW..Manager!CRITICAL, NEW grave \in Manager!LOW..Manager!CRITICAL, mild <= grave,
         Manager!Matched(mild, print) # {}
  PROVE  Manager!Resolved(mild, print) \subseteq Manager!Resolved(grave, print)
<1>1. ASSUME NEW r \in rules, Manager!Applies(r, mild, print) PROVE Manager!Applies(r, grave, print)
  BY <1>1 DEF Manager!Applies, Manager!TypeOK, Manager!RuleType, Manager!LOW, Manager!CRITICAL
<1>2. Manager!Matched(mild, print) \subseteq Manager!Matched(grave, print)
  BY <1>1 DEF Manager!Matched
<1>3. QED BY <1>2 DEF Manager!Resolved

(* But a crash that is too mild for every rule reaches all channels, the   *)
(* pagers that the rules reserve for graver ones included: a rule narrows  *)
(* what it matches and keeps nothing else out (_resolve_channels falls     *)
(* back to self._channels).                                                *)
THEOREM MildReachesAll ==
  ASSUME Manager!TypeOK, NEW print \in Prints,
         NEW mild \in Manager!LOW..Manager!CRITICAL, NEW grave \in Manager!LOW..Manager!CRITICAL,
         \A r \in rules : mild < r.min
  PROVE  /\ Manager!Resolved(mild, print) = DOMAIN channels
         /\ Manager!Resolved(grave, print) \subseteq Manager!Resolved(mild, print)
<1>1. \A r \in rules : ~Manager!Applies(r, mild, print)
  BY DEF Manager!Applies, Manager!TypeOK, Manager!RuleType, Manager!LOW, Manager!CRITICAL
<1>2. Manager!Matched(mild, print) = {}
  BY <1>1 DEF Manager!Matched
<1>3. QED BY <1>2 DEF Manager!Resolved

(* And a crash that is matched by rules that name channels nobody added,   *)
(* a misspelt one say, reaches nobody: there is no fallback for that.      *)
THEOREM UnknownReachesNobody ==
  ASSUME NEW print \in Prints, NEW severity \in Manager!LOW..Manager!CRITICAL,
         Manager!Matched(severity, print) # {},
         \A i \in DOMAIN channels : NameOf[channels[i]] \notin Manager!Matched(severity, print)
  PROVE  Manager!Resolved(severity, print) = {}
  BY DEF Manager!Resolved

==============================================================================
