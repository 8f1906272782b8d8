--------------------------- MODULE CircuitBreaker ---------------------------
(***************************************************************************)
(* kcrash/core/circuit_breaker.py: one CircuitBreaker shared by threads.   *)
(*                                                                         *)
(* `call` holds the lock twice: once to admit or reject the call and once, *)
(* after the protected function returned, to book its outcome.  Between    *)
(* the two the function runs without the lock, so the circuit may have     *)
(* been opened, half-opened, closed or reset by others when the outcome is *)
(* booked.  Each locked section is one action here.                        *)
(*                                                                         *)
(* Time is a discrete clock.  last_success_time, the name and the text of  *)
(* the exceptions are left out: nothing reads them.                        *)
(***************************************************************************)
EXTENDS Integers, FiniteSets

CONSTANTS
  Callers,           \* threads that use the breaker
  FailureThreshold,  \* failure_threshold
  RecoveryTimeout,   \* recovery_timeout, in clock ticks
  HalfOpenMax,       \* half_open_max_calls
  MaxTime,           \* bound: the clock stops here
  MaxCalls           \* bound: calls counted between two resets

ASSUME ThresholdAssumption == FailureThreshold \in Nat \ {0}
ASSUME TimeoutAssumption   == RecoveryTimeout \in Nat
ASSUME HalfOpenAssumption  == HalfOpenMax \in Nat \ {0}
ASSUME BoundAssumption     == MaxTime \in Nat /\ MaxCalls \in Nat
ASSUME CallersAssumption   == IsFiniteSet(Callers)

VARIABLES
  state,          \* self._state
  failureCount,   \* self._failure_count
  halfOpenCalls,  \* self._half_open_calls
  stats,          \* self._stats
  running,        \* callers inside the protected function
  now,            \* time.time()
  probes,         \* history: running calls admitted in this half-open period
  leaked,         \* history: slots of this period whose call was interrupted
  openedAt,       \* history: when the circuit last became OPEN
  carried,        \* history: calls in flight when the stats were last replaced
  interrupted     \* history: calls interrupted since then

code    == <<state, failureCount, halfOpenCalls, stats, running, now>>
history == <<probes, leaked, openedAt, carried, interrupted>>
vars    == <<code, history>>

States == {"closed", "open", "half_open"}

ZeroStats == [total |-> 0, successful |-> 0, failed |-> 0, rejected |-> 0,
              lastFailureTime |-> 0]

Init ==
  /\ state = "closed"
  /\ failureCount = 0
  /\ halfOpenCalls = 0
  /\ stats = ZeroStats
  /\ running = {}
  /\ now = 0
  /\ probes = {} /\ leaked = 0
  /\ openedAt = 0
  /\ carried = 0 /\ interrupted = 0

-----------------------------------------------------------------------------
\* The cooldown counts from the last failure, which a late failure moves.
CooledDown == now - stats.lastFailureTime >= RecoveryTimeout

Reopening == state = "open" /\ CooledDown

\* What a caller finds after the OPEN -> HALF_OPEN refresh `call` starts with.
StateSeen == IF Reopening THEN "half_open" ELSE state
SlotsTaken_Kept == halfOpenCalls
SlotsTaken == IF Reopening THEN 0 ELSE halfOpenCalls

\* A new half-open period starts with no probe and no leaked slot.
ProbesSeen == IF Reopening THEN {} ELSE probes
LeakedSeen == IF Reopening THEN 0 ELSE leaked

SlotFree_OffByOne == SlotsTaken <= HalfOpenMax
SlotFree == SlotsTaken < HalfOpenMax

Tick ==
  /\ now < MaxTime
  /\ now' = now + 1
  /\ UNCHANGED <<state, failureCount, halfOpenCalls, stats, running, history>>

\* The `state` property is not a pure read: it half-opens a cooled circuit.
ReadState ==
  /\ Reopening
  /\ state' = "half_open"
  /\ halfOpenCalls' = 0
  /\ probes' = {} /\ leaked' = 0
  /\ UNCHANGED <<failureCount, stats, running, now, openedAt, carried, interrupted>>

\* First locked section of `call`: the function is going to run.
Admit(c) ==
  /\ c \notin running
  /\ stats.total < MaxCalls
  /\ \/ StateSeen = "closed"
     \/ StateSeen = "half_open" /\ SlotFree
  /\ LET probing == StateSeen = "half_open"
     IN  /\ state' = StateSeen
         /\ halfOpenCalls' = SlotsTaken + (IF probing THEN 1 ELSE 0)
         /\ probes' = ProbesSeen \union (IF probing THEN {c} ELSE {})
         /\ leaked' = LeakedSeen
  /\ stats' = [stats EXCEPT !.total = @ + 1]
  /\ running' = running \union {c}
  /\ UNCHANGED <<failureCount, now, openedAt, carried, interrupted>>

\* First locked section of `call`: LLMError, the function is not run.
Reject_Uncounted(c) ==
  /\ c \notin running
  /\ stats.total < MaxCalls
  /\ StateSeen = "open" \/ (StateSeen = "half_open" /\ ~SlotFree)
  /\ state' = StateSeen
  /\ halfOpenCalls' = SlotsTaken
  /\ probes' = ProbesSeen /\ leaked' = LeakedSeen
  /\ stats' = [stats EXCEPT !.total = @ + 1]
  /\ UNCHANGED <<failureCount, running, now, openedAt, carried, interrupted>>

Reject(c) ==
  /\ c \notin running
  /\ stats.total < MaxCalls
  /\ \/ StateSeen = "open"
     \/ StateSeen = "half_open" /\ ~SlotFree
  /\ state' = StateSeen
  /\ halfOpenCalls' = SlotsTaken
  /\ probes' = ProbesSeen /\ leaked' = LeakedSeen
  /\ stats' = [stats EXCEPT !.total = @ + 1, !.rejected = @ + 1]
  /\ UNCHANGED <<failureCount, running, now, openedAt, carried, interrupted>>

\* Second locked section, the function returned: the circuit closes, whatever
\* its state has become since this call was admitted.
Succeed_KeepCount(c) ==
  /\ c \in running
  /\ stats' = [stats EXCEPT !.successful = @ + 1]
  /\ state' = "closed"
  /\ running' = running \ {c}
  /\ probes' = probes \ {c}
  /\ UNCHANGED <<failureCount, halfOpenCalls, now, leaked, openedAt, carried, interrupted>>

Succeed(c) ==
  /\ c \in running
  /\ stats' = [stats EXCEPT !.successful = @ + 1]
  /\ failureCount' = 0
  /\ state' = "closed"
  /\ running' = running \ {c}
  /\ probes' = probes \ {c}
  /\ UNCHANGED <<halfOpenCalls, now, leaked, openedAt, carried, interrupted>>

StateAfterFailure_ClosedOnly ==
  IF failureCount + 1 >= FailureThreshold /\ state = "closed" THEN "open" ELSE state

StateAfterFailure ==
  IF failureCount + 1 >= FailureThreshold \/ state = "half_open"
  THEN "open" ELSE state

\* Every failure is stamped, also the ones that find the circuit open already.
FailureStamp_ClosedOnly == IF state = "closed" THEN now ELSE stats.lastFailureTime
FailureStamp == now

\* Second locked section, the function raised an Exception.
Fail(c) ==
  /\ c \in running
  /\ stats' = [stats EXCEPT !.failed = @ + 1, !.lastFailureTime = FailureStamp]
  /\ failureCount' = failureCount + 1
  /\ state' = StateAfterFailure
  /\ openedAt' = IF state # "open" /\ StateAfterFailure = "open" THEN now ELSE openedAt
  /\ running' = running \ {c}
  /\ probes' = probes \ {c}
  /\ UNCHANGED <<halfOpenCalls, now, leaked, carried, interrupted>>

\* The function raised a BaseException that is no Exception (SystemExit,
\* KeyboardInterrupt): `except Exception` does not see it, nothing is booked.
Interrupt(c) ==
  /\ c \in running
  /\ running' = running \ {c}
  /\ probes' = probes \ {c}
  /\ leaked' = IF c \in probes THEN leaked + 1 ELSE leaked
  /\ interrupted' = interrupted + 1
  /\ UNCHANGED <<state, failureCount, halfOpenCalls, stats, now, openedAt, carried>>

Reset ==
  /\ state' = "closed"
  /\ failureCount' = 0
  /\ halfOpenCalls' = 0
  /\ stats' = ZeroStats
  /\ probes' = {} /\ leaked' = 0
  /\ carried' = Cardinality(running) /\ interrupted' = 0
  /\ UNCHANGED <<running, now, openedAt>>

Finish(c) == Succeed(c) \/ Fail(c) \/ Interrupt(c)

Next ==
  \/ Tick
  \/ ReadState
  \/ Reset
  \/ \E c \in Callers : Admit(c) \/ Reject(c) \/ Finish(c)

\* The protected function is an LLM request with a timeout: it always ends.
Fairness == \A c \in Callers : WF_vars(Finish(c))

Spec == Init /\ [][Next]_vars /\ Fairness

-----------------------------------------------------------------------------
\* Type invariant: counters and stats of __init__'s types, within the bounds.
TypeOK ==
  /\ state \in States
  /\ failureCount \in Nat
  /\ halfOpenCalls \in 0..HalfOpenMax
  /\ stats \in [total : Nat, successful : Nat, failed : Nat, rejected : Nat,
                lastFailureTime : 0..MaxTime]
  /\ running \subseteq Callers
  /\ probes \subseteq running
  /\ now \in 0..MaxTime
  /\ openedAt \in 0..MaxTime
  /\ leaked \in Nat /\ carried \in Nat /\ interrupted \in Nat

\* The count and the state agree: the circuit is tripped exactly while the
\* consecutive failures are at the threshold.  A half-open circuit keeps its
\* count, so one failed probe opens it again through the threshold test alone
\* (the `elif HALF_OPEN` branch of `call` is never the one that decides).
TrippedIffThreshold == state # "closed" <=> failureCount >= FailureThreshold

\* While half-open, every slot taken belongs to a probe that is still running
\* or to one that was interrupted: a booked outcome always ends the period,
\* so slots are never given back one by one and never counted twice.
ProbeAccounting ==
  state = "half_open" => halfOpenCalls = Cardinality(probes) + leaked

\* The stats lose no call: what was counted, plus what a reset left in flight,
\* is booked under exactly one outcome, interrupted, or still running.
StatsBalance ==
  stats.total + carried
    = stats.successful + stats.failed + stats.rejected + interrupted
      + Cardinality(running)

\* However late failures, resets and half-open periods interleave, an open
\* circuit is half-opened only RecoveryTimeout after the moment it opened.
CooldownHonoured ==
  [][state = "open" /\ state' = "half_open" => now - openedAt >= RecoveryTimeout]_vars

\* A half-open period with a probe in it ends by the probe's outcome.  The one
\* exception is a period whose slots have all been lost to interrupted calls.
ProbesResolve ==
  (state = "half_open" /\ halfOpenCalls > 0)
    ~> (state # "half_open" \/ leaked = halfOpenCalls)

=============================================================================
