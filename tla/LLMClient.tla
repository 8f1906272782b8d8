------------------------------ MODULE LLMClient ------------------------------
(***************************************************************************)
(* kcrash/llm/client.py: one LLMClient, shared by the batch workers, calls *)
(* the LLM with retries behind a RateLimiter that has no lock.             *)
(*                                                                         *)
(* `acquire` replaces self._timestamps by a filtered copy, looks the       *)
(* attribute up again for every use, and reads the clock before it filters *)
(* and again before it appends; between any two of these another thread    *)
(* can run.  So the lists live in a small heap and threads hold references *)
(* into it, and time may pass between any two steps of a thread.           *)
(*                                                                         *)
(* A time stamp is kept as its age, and a clock reading that a thread      *)
(* still goes by as the time since it was taken; one tick is the 0.1 s     *)
(* that acquire sleeps longer than it has to.                              *)
(***************************************************************************)
EXTENDS Integers, Sequences, FiniteSets, FiniteSetsExt

CONSTANTS
  Threads,     \* threads that call chat
  Limit,       \* calls_per_minute
  Window,      \* the 60 s window, in ticks
  MaxRetries,  \* max_retries
  RetryDelay,  \* retry_delay, in ticks
  MaxLag,      \* bound: ticks for which a thread goes by one clock reading
  MaxBurst     \* bound: callers start no call with more grants in the window

ASSUME LimitAssumption   == Limit \in Nat \ {0} /\ Window \in Nat \ {0}
ASSUME RetryAssumption   == MaxRetries \in Nat /\ RetryDelay \in Nat
ASSUME ThreadsAssumption == IsFiniteSet(Threads)
ASSUME BoundsAssumption  == MaxLag \in Nat /\ MaxBurst \in Nat

VARIABLES
  lists,      \* heap: the lists of time stamps that something refers to
  current,    \* the list that self._timestamps names
  bound,      \* bound[t]: the list thread t has looked up or made, 0 for none
  since,      \* since[t]: ticks since the clock reading t goes by, 0 for none
  pc,         \* pc[t]: where t is in chat
  wait,       \* wait[t]: ticks t still sleeps
  attempt,    \* attempt[t]: the attempt of _call's loop t is in
  grants,     \* history: ages of the stamps read in the last window, in order
  contended   \* history: two threads have been inside acquire together

heap    == <<lists, current, bound>>
caller  == <<wait, attempt>>
history == <<grants, contended>>
vars    == <<heap, since, pc, caller, history>>

Refs == 1..(Cardinality(Threads) + 1)

\* Threads that go by a clock reading, and threads inside acquire.
Reading(t)   == pc[t] \in {"lookup", "filter", "assign", "test", "oldest", "append"}
Acquiring(t) == Reading(t) \/ pc[t] \in {"sleep", "stamp", "clock"}

Init ==
  /\ lists = [r \in Refs |-> <<>>]
  /\ current = 1
  /\ bound = [t \in Threads |-> 0]
  /\ since = [t \in Threads |-> 0]
  /\ pc = [t \in Threads |-> "idle"]
  /\ wait = [t \in Threads |-> 0]
  /\ attempt = [t \in Threads |-> 0]
  /\ grants = <<>>
  /\ contended = FALSE

Goto(t, label) == pc' = [pc EXCEPT ![t] = label]

-----------------------------------------------------------------------------
(* RateLimiter.acquire *)

\* `now = time.time()`
Enter(t) ==
  /\ pc[t] = "acquire"
  /\ Goto(t, "lookup")
  /\ contended' = (contended \/ \E u \in Threads \ {t} : Acquiring(u))
  /\ UNCHANGED <<heap, since, caller, grants>>

\* `for t in self._timestamps`: the list that the comprehension goes through.
LookUp(t) ==
  /\ pc[t] = "lookup"
  /\ bound' = [bound EXCEPT ![t] = current]
  /\ Goto(t, "filter")
  /\ UNCHANGED <<lists, current, since, caller, history>>

\* The stamps younger than the window, by a clock reading of so long ago.
Recent(stamps, lag) ==
  LET kept    == {i \in DOMAIN stamps : stamps[i] - lag < Window}
      Rank(i) == Cardinality({j \in kept : j <= i})
  IN  [n \in 1..Cardinality(kept) |-> stamps[CHOOSE i \in kept : Rank(i) = n]]

\* A list nobody refers to once thread t has let go of its own.
FreeRef(t) == Min(Refs \ ({current} \union {bound[u] : u \in Threads \ {t}}))

\* The copy is made ...
Filter(t) ==
  /\ pc[t] = "filter"
  /\ LET new  == FreeRef(t)
         used == {current} \union {bound[u] : u \in Threads \ {t}}
     IN  /\ lists' = [r \in Refs |-> IF r = new THEN Recent(lists[bound[t]], since[t])
                                     ELSE IF r \in used THEN lists[r] ELSE <<>>]
         /\ bound' = [bound EXCEPT ![t] = new]
  /\ Goto(t, "assign")
  /\ UNCHANGED <<current, since, caller, history>>

\* ... and becomes self._timestamps,
Assign(t) ==
  /\ pc[t] = "assign"
  /\ LET used == {bound[u] : u \in Threads}
     IN  lists' = [r \in Refs |-> IF r \in used THEN lists[r] ELSE <<>>]
  /\ current' = bound[t]
  /\ bound' = [bound EXCEPT ![t] = 0]
  /\ Goto(t, "test")
  /\ UNCHANGED <<since, caller, history>>

\* whose length is tested.
Test(t) ==
  /\ pc[t] = "test"
  /\ \/ /\ Len(lists[current]) >= Limit
        /\ Goto(t, "oldest")
        /\ UNCHANGED since
     \/ /\ Len(lists[current]) < Limit
        /\ Goto(t, "stamp")
        /\ since' = [since EXCEPT ![t] = 0]
  /\ UNCHANGED <<heap, caller, history>>

\* After a failed attempt: back off, or give up when it was the last one.
AttemptFailed(t) ==
  IF attempt[t] < MaxRetries
  THEN /\ attempt' = [attempt EXCEPT ![t] = @ + 1]
       /\ wait' = [wait EXCEPT ![t] = RetryDelay * 2^attempt[t]]
       /\ Goto(t, "backoff")
  ELSE /\ attempt' = [attempt EXCEPT ![t] = 0]
       /\ UNCHANGED wait
       /\ Goto(t, "idle")

SleepTime_Age(stamps, lag) == Head(stamps) - lag + 1
SleepTime(stamps, lag) == Window - (Head(stamps) - lag) + 1

\* The sleep until the oldest stamp leaves the window, by the reading of Enter.
\* On a list that is empty by now self._timestamps[0] makes the attempt fail.
Oldest(t) ==
  /\ pc[t] = "oldest"
  /\ LET stamps == lists[current]
     IN  \/ stamps = <<>> /\ AttemptFailed(t)
         \/ /\ stamps # <<>> /\ SleepTime(stamps, since[t]) > 0
            /\ wait' = [wait EXCEPT ![t] = SleepTime(stamps, since[t])]
            /\ Goto(t, "sleep")
            /\ UNCHANGED attempt
         \/ /\ stamps # <<>> /\ SleepTime(stamps, since[t]) <= 0
            /\ Goto(t, "stamp")
            /\ UNCHANGED caller
  /\ since' = [since EXCEPT ![t] = 0]
  /\ UNCHANGED <<heap, history>>

Wake_Unstamped(t) ==
  /\ pc[t] = "sleep" /\ wait[t] = 0
  /\ grants' = Append(grants, 0)
  /\ Goto(t, "request")
  /\ UNCHANGED <<heap, since, caller, contended>>

Wake(t) ==
  /\ pc[t] = "sleep" /\ wait[t] = 0
  /\ Goto(t, "stamp")
  /\ UNCHANGED <<heap, since, caller, history>>

\* `self._timestamps.append(time.time())`: the list is looked up, ...
Stamp(t) ==
  /\ pc[t] = "stamp"
  /\ bound' = [bound EXCEPT ![t] = current]
  /\ Goto(t, "clock")
  /\ UNCHANGED <<lists, current, since, caller, history>>

\* ... the clock is read, ...
ReadClock(t) ==
  /\ pc[t] = "clock"
  /\ grants' = Append(grants, 0)
  /\ Goto(t, "append")
  /\ UNCHANGED <<heap, since, caller, contended>>

\* ... and the list gets the stamp, which is lost if the list was replaced.
AppendStamp(t) ==
  /\ pc[t] = "append"
  /\ LET shared == bound[t] \in {current} \union {bound[u] : u \in Threads \ {t}}
     IN  lists' = [lists EXCEPT ![bound[t]] = IF shared THEN Append(@, since[t]) ELSE <<>>]
  /\ bound' = [bound EXCEPT ![t] = 0]
  /\ since' = [since EXCEPT ![t] = 0]
  /\ Goto(t, "request")
  /\ UNCHANGED <<current, caller, history>>

-----------------------------------------------------------------------------
(* LLMClient._call *)

Chat(t) ==
  /\ pc[t] = "idle"
  /\ Len(grants) <= MaxBurst
  /\ Goto(t, "acquire")
  /\ UNCHANGED <<heap, since, caller, history>>

Answered(t) ==
  /\ pc[t] = "request"
  /\ attempt' = [attempt EXCEPT ![t] = 0]
  /\ Goto(t, "idle")
  /\ UNCHANGED <<heap, since, wait, history>>

\* The request raises or times out, or the answer has no choices.
RequestFails(t) ==
  /\ pc[t] = "request"
  /\ AttemptFailed(t)
  /\ UNCHANGED <<heap, since, history>>

Retry_Unlimited(t) ==
  /\ pc[t] = "backoff" /\ wait[t] = 0
  /\ attempt' = [attempt EXCEPT ![t] = 0]
  /\ Goto(t, "acquire")
  /\ UNCHANGED <<heap, since, wait, history>>

Retry(t) ==
  /\ pc[t] = "backoff" /\ wait[t] = 0
  /\ Goto(t, "acquire")
  /\ UNCHANGED <<heap, since, caller, history>>

\* An age from which on no reading a thread goes by makes a difference.
Ancient == Window + 2 * MaxLag

Older(stamps) == [i \in DOMAIN stamps |-> IF stamps[i] < Ancient THEN stamps[i] + 1 ELSE Ancient]

Tick ==
  /\ \A t \in Threads : Reading(t) => since[t] < MaxLag
  /\ lists' = [r \in Refs |-> Older(lists[r])]
  /\ since' = [t \in Threads |-> IF Reading(t) THEN since[t] + 1 ELSE 0]
  /\ grants' = Recent(Older(grants), 0)
  /\ wait' = [t \in Threads |-> IF wait[t] > 0 THEN wait[t] - 1 ELSE 0]
  /\ UNCHANGED <<current, bound, pc, attempt, contended>>

Go(t) ==
  \/ Enter(t) \/ LookUp(t) \/ Filter(t) \/ Assign(t) \/ Test(t) \/ Oldest(t) \/ Wake(t)
  \/ Stamp(t) \/ ReadClock(t) \/ AppendStamp(t) \/ Answered(t) \/ RequestFails(t) \/ Retry(t)

Next == Tick \/ \E t \in Threads : Chat(t) \/ Go(t)

\* Threads are scheduled, requests end (they have a timeout), time passes.
Fairness == WF_vars(Tick) /\ \A t \in Threads : WF_vars(Go(t))

Spec == Init /\ [][Next]_vars /\ Fairness

-----------------------------------------------------------------------------
Labels == {"idle", "acquire", "lookup", "filter", "assign", "test", "oldest", "sleep",
           "stamp", "clock", "append", "request", "backoff"}

\* Type invariant; no sleep is longer than the window and its 0.1 s by the
\* reading it goes by, or the longest backoff.
TypeOK ==
  /\ lists \in [Refs -> Seq(0..Ancient)]
  /\ current \in Refs
  /\ bound \in [Threads -> Refs \union {0}]
  /\ since \in [Threads -> 0..MaxLag]
  /\ pc \in [Threads -> Labels]
  /\ wait \in [Threads -> 0..Max({Window + MaxLag + 1, RetryDelay * 2^MaxRetries})]
  /\ attempt \in [Threads -> 0..MaxRetries]
  /\ grants \in Seq(0..(Window - 1))
  /\ contended \in BOOLEAN

\* As long as acquire is never entered by two threads together, no window holds
\* more stamps than calls_per_minute, across retries and sleeps and however
\* late a thread comes to use a clock reading.
RateHonoured == ~contended => Len(grants) <= Limit

\* Up to then the limiter forgets no grant of the last window, and remembers
\* nothing that was not one.
LimiterRemembers ==
  (~contended /\ \A t \in Threads : ~Acquiring(t)) => Recent(lists[current], 0) = grants

\* chat comes back, with an answer or after its last attempt.
EveryCallEnds == \A t \in Threads : pc[t] = "acquire" ~> pc[t] = "idle"

=============================================================================
