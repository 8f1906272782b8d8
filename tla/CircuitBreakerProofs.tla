------------------------ MODULE CircuitBreakerProofs ------------------------
(***************************************************************************)
(* Proofs about CircuitBreaker for any number of threads, any threshold,   *)
(* timeout and number of probes.                                           *)
(*                                                                         *)
(* The five parts of IInv support each other: CooldownHonoured needs to    *)
(* know that an open circuit was stamped no earlier than it opened, and    *)
(* that needs the type invariant; the counters are integers only because   *)
(* of the type invariant, and sets of callers have a size only because     *)
(* they are subsets of the finite set Callers.                             *)
(***************************************************************************)
EXTENDS CircuitBreaker, FiniteSetTheorems, TLAPS

\* The circuit opened in the past, and while it is open the last failure,
\* which the cooldown counts from, is no older than the opening.
OpenStamped ==
  /\ openedAt <= now
  /\ state = "open" => openedAt <= stats.lastFailureTime

\* The counters of CircuitBreakerStats.
StatsType == [total : Nat, successful : Nat, failed : Nat, rejected : Nat,
              lastFailureTime : 0..MaxTime]

IInv == TypeOK /\ TrippedIffThreshold /\ ProbeAccounting /\ StatsBalance /\ OpenStamped

-----------------------------------------------------------------------------
\* The threads in flight and the probes among them can be counted.
LEMMA CallersCounted ==
  ASSUME TypeOK
  PROVE  /\ IsFiniteSet(running) /\ Cardinality(running) \in Nat
         /\ IsFiniteSet(probes)  /\ Cardinality(probes) \in Nat
  <1>1. running \subseteq Callers /\ probes \subseteq Callers
    BY DEF TypeOK
  <1>2. IsFiniteSet(running) /\ IsFiniteSet(probes)
    BY <1>1, CallersAssumption, FS_Subset
  <1>3. QED
    BY <1>2, FS_CardinalityType

\* A new breaker satisfies the inductive invariant.
LEMMA InitIInv == Init => IInv
  <1> SUFFICES ASSUME Init PROVE IInv
    OBVIOUS
  <1>1. Cardinality({}) = 0
    BY FS_EmptySet
  <1>2. TypeOK
    BY ThresholdAssumption, TimeoutAssumption, HalfOpenAssumption, BoundAssumption
       DEF Init, TypeOK, States, ZeroStats
  <1>3. TrippedIffThreshold /\ ProbeAccounting /\ OpenStamped
    BY ThresholdAssumption DEF Init, TrippedIffThreshold, ProbeAccounting, OpenStamped
  <1>4. StatsBalance
    BY <1>1 DEF Init, StatsBalance, ZeroStats
  <1>5. QED
    BY <1>2, <1>3, <1>4 DEF IInv

\* The clock disturbs nothing: it only moves away from the stamps.
LEMMA TickIInv == IInv /\ Tick => IInv'
  <1> SUFFICES ASSUME IInv, Tick PROVE IInv'
    OBVIOUS
  <1> USE DEF IInv
  <1>1. TypeOK'
    BY BoundAssumption DEF Tick, TypeOK, history
  <1>2. (TrippedIffThreshold /\ ProbeAccounting /\ StatsBalance)'
    BY DEF Tick, TrippedIffThreshold, ProbeAccounting, StatsBalance, history
  <1>3. OpenStamped'
    BY DEF Tick, OpenStamped, TypeOK, history
  <1>4. QED
    BY <1>1, <1>2, <1>3

\* Reading the state half-opens a cooled circuit with all its slots free.
LEMMA ReadStateIInv == IInv /\ ReadState => IInv'
  <1> SUFFICES ASSUME IInv, ReadState PROVE IInv'
    OBVIOUS
  <1> USE DEF IInv
  <1>1. Cardinality({}) = 0
    BY FS_EmptySet
  <1>2. TypeOK'
    BY HalfOpenAssumption DEF ReadState, TypeOK, States
  <1>3. (TrippedIffThreshold /\ StatsBalance)'
    BY DEF ReadState, Reopening, TrippedIffThreshold, StatsBalance
  <1>4. ProbeAccounting'
    BY <1>1 DEF ReadState, ProbeAccounting
  <1>5. OpenStamped'
    BY DEF ReadState, OpenStamped
  <1>6. QED
    BY <1>2, <1>3, <1>4, <1>5

\* What the first locked section of `call` starts from is consistent: the
\* refreshed state agrees with the count, and the slots with the probes.
LEMMA SeenConsistent ==
  ASSUME IInv
  PROVE  /\ StateSeen \in States
         /\ StateSeen # "closed" <=> failureCount >= FailureThreshold
         /\ SlotsTaken \in 0..HalfOpenMax
         /\ ProbesSeen \subseteq running
         /\ LeakedSeen \in Nat
         /\ IsFiniteSet(ProbesSeen)
         /\ StateSeen = "half_open" => SlotsTaken = Cardinality(ProbesSeen) + LeakedSeen
         /\ StateSeen = "open" => state = "open"
  <1> USE DEF IInv
  <1>1. CASE Reopening
    BY <1>1, FS_EmptySet, HalfOpenAssumption
       DEF Reopening, StateSeen, SlotsTaken, ProbesSeen, LeakedSeen, States,
           TrippedIffThreshold
  <1>2. CASE ~Reopening
    BY <1>2, CallersCounted
       DEF Reopening, StateSeen, SlotsTaken, ProbesSeen, LeakedSeen, States,
           TypeOK, TrippedIffThreshold, ProbeAccounting
  <1>3. QED
    BY <1>1, <1>2

\* An admitted call takes a slot if and only if it becomes a probe.
LEMMA AdmitIInv == ASSUME IInv, NEW c \in Callers, Admit(c) PROVE IInv'
  <1> USE DEF IInv
  <1>1. /\ IsFiniteSet(running) /\ Cardinality(running) \in Nat
        /\ Cardinality(running \union {c}) = Cardinality(running) + 1
    BY CallersCounted, FS_AddElement DEF Admit
  <1>2. StateSeen = "half_open" =>
          Cardinality(ProbesSeen \union {c}) = Cardinality(ProbesSeen) + 1
    BY SeenConsistent, FS_AddElement DEF Admit
  <1>3. TypeOK'
    <2>1. halfOpenCalls' \in 0..HalfOpenMax
      BY SeenConsistent, HalfOpenAssumption DEF Admit, SlotFree
    <2>2. probes' \subseteq running' /\ running' \subseteq Callers
      BY SeenConsistent DEF Admit, TypeOK
    <2>3. QED
      BY <2>1, <2>2, SeenConsistent DEF Admit, TypeOK
  <1>4. TrippedIffThreshold'
    BY SeenConsistent DEF Admit, TrippedIffThreshold
  <1>5. ProbeAccounting'
    <2>1. CASE StateSeen = "half_open"
      <3>1. SlotsTaken \in Nat /\ LeakedSeen \in Nat /\ Cardinality(ProbesSeen) \in Nat
        BY SeenConsistent, FS_CardinalityType, HalfOpenAssumption
      <3>2. halfOpenCalls' = SlotsTaken + 1 /\ leaked' = LeakedSeen
            /\ probes' = ProbesSeen \union {c}
        BY <2>1 DEF Admit
      <3>3. QED
        BY <2>1, <3>1, <3>2, <1>2, SeenConsistent DEF ProbeAccounting
    <2>2. CASE StateSeen # "half_open"
      BY <2>2 DEF Admit, ProbeAccounting
    <2>3. QED
      BY <2>1, <2>2
  <1>6. StatsBalance'
    BY <1>1 DEF Admit, TypeOK, StatsBalance
  <1>7. OpenStamped'
    BY SeenConsistent DEF Admit, OpenStamped, TypeOK
  <1>8. QED
    BY <1>3, <1>4, <1>5, <1>6, <1>7

\* A rejected call changes nothing but the refresh and the statistics.
LEMMA RejectIInv == ASSUME IInv, NEW c \in Callers, Reject(c) PROVE IInv'
  <1> USE DEF IInv
  <1>0. /\ stats' \in StatsType
        /\ stats'.total = stats.total + 1 /\ stats'.rejected = stats.rejected + 1
        /\ stats'.successful = stats.successful /\ stats'.failed = stats.failed
        /\ stats'.lastFailureTime = stats.lastFailureTime
    <2>1. stats \in StatsType
      BY DEF TypeOK, StatsType
    <2>2. stats' = [total |-> stats.total + 1, successful |-> stats.successful,
                    failed |-> stats.failed, rejected |-> stats.rejected + 1,
                    lastFailureTime |-> stats.lastFailureTime]
      BY <2>1 DEF Reject, StatsType
    <2>3. QED
      BY <2>1, <2>2 DEF StatsType
  <1>1. TypeOK'
    BY <1>0, SeenConsistent DEF Reject, TypeOK, StatsType
  <1>2. (TrippedIffThreshold /\ ProbeAccounting)'
    BY SeenConsistent DEF Reject, TrippedIffThreshold, ProbeAccounting
  <1>3. StatsBalance'
    <2>1. Cardinality(running) \in Nat /\ stats \in StatsType
          /\ carried \in Nat /\ interrupted \in Nat
      BY CallersCounted DEF TypeOK, StatsType
    <2>2. QED
      BY <1>0, <2>1 DEF Reject, StatsBalance, StatsType
  <1>4. OpenStamped'
    BY SeenConsistent DEF Reject, OpenStamped, TypeOK
  <1>5. QED
    BY <1>1, <1>2, <1>3, <1>4

\* The end of a call takes it out of the running ones and out of the probes.
LEMMA OneLess ==
  ASSUME IInv, NEW c \in running
  PROVE  /\ Cardinality(running) \in Nat
         /\ Cardinality(running \ {c}) = Cardinality(running) - 1
         /\ Cardinality(probes) \in Nat
         /\ Cardinality(probes \ {c}) =
              IF c \in probes THEN Cardinality(probes) - 1 ELSE Cardinality(probes)
  BY CallersCounted, FS_RemoveElement DEF IInv

\* A success closes the circuit with its count at zero.
LEMMA SucceedIInv == ASSUME IInv, NEW c \in Callers, Succeed(c) PROVE IInv'
  <1> USE DEF IInv
  <1>1. TypeOK'
    BY DEF Succeed, TypeOK, States
  <1>2. (TrippedIffThreshold /\ ProbeAccounting /\ OpenStamped)'
    BY ThresholdAssumption
       DEF Succeed, TypeOK, TrippedIffThreshold, ProbeAccounting, OpenStamped
  <1>3. StatsBalance'
    <2>1. /\ Cardinality(running) \in Nat /\ stats \in StatsType
          /\ carried \in Nat /\ interrupted \in Nat
      BY CallersCounted DEF TypeOK, StatsType
    <2>2. /\ stats'.total = stats.total /\ stats'.successful = stats.successful + 1
          /\ stats'.failed = stats.failed /\ stats'.rejected = stats.rejected
      BY <2>1 DEF Succeed, StatsType
    <2>3. Cardinality(running') = Cardinality(running) - 1
      BY OneLess DEF Succeed
    <2>4. QED
      BY <2>1, <2>2, <2>3 DEF Succeed, StatsBalance, StatsType
  <1>4. QED
    BY <1>1, <1>2, <1>3

\* A failure never leaves the circuit half-open, and never closed at the
\* threshold.
LEMMA FailIInv == ASSUME IInv, NEW c \in Callers, Fail(c) PROVE IInv'
  <1> USE DEF IInv
  <1>1. StateAfterFailure \in {"open", "closed"}
    BY DEF StateAfterFailure, TypeOK, States
  <1>2. StateAfterFailure = "open" <=> failureCount + 1 >= FailureThreshold
    BY ThresholdAssumption
       DEF StateAfterFailure, TypeOK, States, TrippedIffThreshold
  <1>0. /\ stats' \in StatsType
        /\ stats'.total = stats.total /\ stats'.successful = stats.successful
        /\ stats'.failed = stats.failed + 1 /\ stats'.rejected = stats.rejected
        /\ stats'.lastFailureTime = now
    <2>1. stats \in StatsType /\ now \in 0..MaxTime
      BY DEF TypeOK, StatsType
    <2>2. stats' = [total |-> stats.total, successful |-> stats.successful,
                    failed |-> stats.failed + 1, rejected |-> stats.rejected,
                    lastFailureTime |-> now]
      BY <2>1 DEF Fail, FailureStamp, StatsType
    <2>3. QED
      BY <2>1, <2>2 DEF StatsType
  <1>3. TypeOK'
    BY <1>0, <1>1 DEF Fail, TypeOK, States, StatsType
  <1>4. (TrippedIffThreshold /\ ProbeAccounting)'
    BY <1>1, <1>2 DEF Fail, TrippedIffThreshold, ProbeAccounting
  <1>5. StatsBalance'
    <2>1. /\ Cardinality(running) \in Nat /\ stats \in StatsType
          /\ carried \in Nat /\ interrupted \in Nat
      BY CallersCounted DEF TypeOK, StatsType
    <2>2. Cardinality(running') = Cardinality(running) - 1
      BY OneLess DEF Fail
    <2>3. QED
      BY <1>0, <2>1, <2>2 DEF Fail, StatsBalance, StatsType
  <1>6. OpenStamped'
    BY <1>0 DEF Fail, TypeOK, OpenStamped
  <1>7. QED
    BY <1>3, <1>4, <1>5, <1>6

\* An interrupted probe keeps its slot: it moves from the probes to the leaks.
LEMMA InterruptIInv == ASSUME IInv, NEW c \in Callers, Interrupt(c) PROVE IInv'
  <1> USE DEF IInv
  <1>1. TypeOK'
    BY DEF Interrupt, TypeOK
  <1>2. (TrippedIffThreshold /\ OpenStamped)'
    BY DEF Interrupt, TrippedIffThreshold, OpenStamped
  <1>3. ProbeAccounting'
    <2>1. /\ Cardinality(probes) \in Nat
          /\ Cardinality(probes') =
               IF c \in probes THEN Cardinality(probes) - 1 ELSE Cardinality(probes)
      BY OneLess DEF Interrupt
    <2>2. leaked \in Nat
      BY DEF TypeOK
    <2>3. QED
      BY <2>1, <2>2 DEF Interrupt, ProbeAccounting
  <1>4. StatsBalance'
    <2>1. /\ Cardinality(running) \in Nat /\ stats \in StatsType
          /\ carried \in Nat /\ interrupted \in Nat
      BY CallersCounted DEF TypeOK, StatsType
    <2>2. Cardinality(running') = Cardinality(running) - 1
      BY OneLess DEF Interrupt
    <2>3. /\ interrupted' = interrupted + 1 /\ carried' = carried
          /\ stats' = stats
      BY DEF Interrupt
    <2>4. stats.total \in Nat /\ stats.successful \in Nat /\ stats.failed \in Nat
          /\ stats.rejected \in Nat
      BY <2>1 DEF StatsType
    <2>5. QED
      BY <2>1, <2>2, <2>3, <2>4 DEF StatsBalance
  <1>5. QED
    BY <1>1, <1>2, <1>3, <1>4

\* A reset starts the accounts anew, with the calls in flight carried over.
LEMMA ResetIInv == IInv /\ Reset => IInv'
  <1> SUFFICES ASSUME IInv, Reset PROVE IInv'
    OBVIOUS
  <1> USE DEF IInv
  <1>1. Cardinality(running) \in Nat
    BY CallersCounted
  <1>2. TypeOK'
    BY <1>1, HalfOpenAssumption, BoundAssumption DEF Reset, TypeOK, States, ZeroStats
  <1>3. (TrippedIffThreshold /\ ProbeAccounting /\ OpenStamped)'
    BY ThresholdAssumption
       DEF Reset, TrippedIffThreshold, ProbeAccounting, OpenStamped
  <1>4. StatsBalance'
    BY <1>1 DEF Reset, StatsBalance, ZeroStats
  <1>5. QED
    BY <1>2, <1>3, <1>4

\* Every step of the breaker preserves the inductive invariant.
LEMMA NextIInv == IInv /\ [Next]_vars => IInv'
  <1> SUFFICES ASSUME IInv, [Next]_vars PROVE IInv'
    OBVIOUS
  <1>1. CASE Tick
    BY <1>1, TickIInv
  <1>2. CASE ReadState
    BY <1>2, ReadStateIInv
  <1>3. CASE Reset
    BY <1>3, ResetIInv
  <1>4. ASSUME NEW c \in Callers, Admit(c) \/ Reject(c) \/ Finish(c) PROVE IInv'
    BY <1>4, AdmitIInv, RejectIInv, SucceedIInv, FailIInv, InterruptIInv DEF Finish
  <1>5. CASE UNCHANGED vars
    BY <1>5 DEF vars, code, history, IInv, TypeOK, TrippedIffThreshold,
                ProbeAccounting, StatsBalance, OpenStamped
  <1>6. QED
    BY <1>1, <1>2, <1>3, <1>4, <1>5 DEF Next

\* The inductive invariant holds of every behaviour of the breaker.
THEOREM Invariance == Spec => []IInv
  BY InitIInv, NextIInv, PTL DEF Spec

-----------------------------------------------------------------------------
\* The breaker's attributes keep their types and half_open_calls its bound.
THEOREM TypeCorrect == Spec => []TypeOK
  <1>1. IInv => TypeOK
    BY DEF IInv
  <1>2. QED
    BY <1>1, Invariance, PTL

\* The circuit is tripped exactly while the failure count is at the threshold.
THEOREM Tripped == Spec => []TrippedIffThreshold
  <1>1. IInv => TrippedIffThreshold
    BY DEF IInv
  <1>2. QED
    BY <1>1, Invariance, PTL

\* While half-open, taken slots are running probes and interrupted ones.
THEOREM ProbesAccounted == Spec => []ProbeAccounting
  <1>1. IInv => ProbeAccounting
    BY DEF IInv
  <1>2. QED
    BY <1>1, Invariance, PTL

\* The statistics lose no call and count none twice.
THEOREM StatsBalanced == Spec => []StatsBalance
  <1>1. IInv => StatsBalance
    BY DEF IInv
  <1>2. QED
    BY <1>1, Invariance, PTL

\* A step that half-opens an open circuit is at least RecoveryTimeout later
\* than the step that opened it, whatever failed or was reset in between.
THEOREM Cooldown == Spec => CooldownHonoured
  <1>1. ASSUME IInv, [Next]_vars, state = "open", state' = "half_open"
        PROVE  now - openedAt >= RecoveryTimeout
    <2>1. Reopening
      BY <1>1 DEF Next, vars, code, history, Tick, ReadState, Admit, Reject, Finish,
                  Succeed, Fail, Interrupt, Reset, StateSeen, StateAfterFailure
    <2>2. openedAt <= stats.lastFailureTime
      BY <1>1 DEF IInv, OpenStamped
    <2>3. now \in Int /\ openedAt \in Int /\ stats.lastFailureTime \in Int
      BY <1>1, BoundAssumption DEF IInv, TypeOK
    <2>4. QED
      BY <2>1, <2>2, <2>3, TimeoutAssumption DEF Reopening, CooledDown
  <1>2. IInv /\ [Next]_vars
          => [state = "open" /\ state' = "half_open" => now - openedAt >= RecoveryTimeout]_vars
    BY <1>1
  <1>3. QED
    BY <1>2, Invariance, PTL DEF Spec, CooldownHonoured

=============================================================================
