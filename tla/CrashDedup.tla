------------------------------ MODULE CrashDedup ------------------------------
(***************************************************************************)
(* kcrash/core/dedup.py: CrashDeduplicator.  The batch workers share one   *)
(* deduplicator and it has no lock, so every access to an attribute of an  *)
(* entry is a step.  Entries are objects: a worker that has looked one up  *)
(* goes on using it after `_entries` names another.                        *)
(*                                                                         *)
(* A check takes no time, so the `now` it read first is the clock          *)
(* throughout.  Host sets and the texts of the answers are left out.       *)
(***************************************************************************)
EXTENDS Integers, FiniteSets, FiniteSetsExt

CONSTANTS
  Workers,        \* threads that call check
  Fingerprints,   \* crash fingerprints
  Window,         \* window_seconds, in ticks
  MaxSuppressed,  \* max_suppressed
  AlertAfter      \* alert_after

ASSUME DedupAssumption ==
  /\ IsFiniteSet(Workers) /\ Workers # {} /\ IsFiniteSet(Fingerprints) /\ Fingerprints # {}
  /\ Window \in Nat /\ MaxSuppressed \in Nat /\ AlertAfter \in Nat \ {0, 1}

VARIABLES
  clock,      \* time.time()
  entries,    \* _entries: the object under each fingerprint, 0 for none
  objects,    \* the DedupEntry objects
  check,      \* check[w]: where worker w is in check, "no" when it is not in it
  target,     \* target[w]: the fingerprint that w checks
  held,       \* held[w]: the object w has looked up, 0 for none
  num,        \* num[w]: the count that w has read and not yet written
  contended   \* history: two workers have been in check together

dedup == <<entries, objects, check, target, held, num, contended>>

Refs == 1..(Cardinality(Fingerprints) + Cardinality(Workers))

\* `alerts` is history: the alerts raised since the object's last reset.
Blank == [count |-> 0, suppressed |-> 0, last |-> 0, alerts |-> 0]

DedupInit ==
  /\ entries = [f \in Fingerprints |-> 0]
  /\ objects = [r \in Refs |-> Blank]
  /\ check = [w \in Workers |-> "no"]
  /\ target = [w \in Workers |-> CHOOSE f \in Fingerprints : TRUE]
  /\ held = [w \in Workers |-> 0]
  /\ num = [w \in Workers |-> 0]
  /\ contended = FALSE

Checking(w) == check[w] \notin {"no", "checked"}

Step(w, label) == check' = [check EXCEPT ![w] = label]

\* The worker's call of check(f) begins.
CallCheck(w, f) ==
  /\ Step(w, "lookup")
  /\ target' = [target EXCEPT ![w] = f]
  /\ contended' = (contended \/ \E v \in Workers \ {w} : Checking(v))
  /\ UNCHANGED <<entries, objects, held, num>>

Lookup(w) ==
  /\ check[w] = "lookup"
  /\ held' = [held EXCEPT ![w] = entries[target[w]]]
  /\ Step(w, IF entries[target[w]] = 0 THEN "insert" ELSE "test")
  /\ UNCHANGED <<entries, objects, target, num, contended>>

\* An object that neither `_entries` nor a worker refers to.
FreeRef == Min(Refs \ ({entries[f] : f \in Fingerprints} \union {held[w] : w \in Workers}))

\* Leaving check: the reference and the numbers read go.
Leave(w) ==
  /\ Step(w, "checked")
  /\ held' = [held EXCEPT ![w] = 0]
  /\ num' = [num EXCEPT ![w] = 0]

Insert(w) ==
  /\ check[w] = "insert"
  /\ entries' = [entries EXCEPT ![target[w]] = FreeRef]
  /\ objects' = [objects EXCEPT ![FreeRef] = [Blank EXCEPT !.count = 1, !.last = clock]]
  /\ Leave(w)
  /\ UNCHANGED <<target, contended>>

Quiet(last) == clock - last > Window

TestWindow(w) ==
  /\ check[w] = "test"
  /\ Step(w, IF Quiet(objects[held[w]].last) THEN "renew" ELSE "touch")
  /\ UNCHANGED <<entries, objects, target, held, num, contended>>

Renew(w) ==
  /\ check[w] = "renew"
  /\ objects' = [objects EXCEPT ![held[w]].last = clock]
  /\ Step(w, "reset")
  /\ UNCHANGED <<entries, target, held, num, contended>>

Reset(w) ==
  /\ check[w] = "reset"
  /\ objects' = [objects EXCEPT ![held[w]] = [@ EXCEPT !.count = 1, !.suppressed = 0, !.alerts = 0]]
  /\ Leave(w)
  /\ UNCHANGED <<entries, target, contended>>

\* last_seen is written and the count read.
Touch(w) ==
  /\ check[w] = "touch"
  /\ objects' = [objects EXCEPT ![held[w]].last = clock]
  /\ num' = [num EXCEPT ![w] = objects[held[w]].count]
  /\ Step(w, "count")
  /\ UNCHANGED <<entries, target, held, contended>>

Count(w) ==
  /\ check[w] = "count"
  /\ objects' = [objects EXCEPT ![held[w]].count = num[w] + 1]
  /\ num' = [num EXCEPT ![w] = 0]
  /\ Step(w, "limit")
  /\ UNCHANGED <<entries, target, held, contended>>

Exhausted_OffByOne(suppressed) == suppressed > MaxSuppressed
Exhausted(suppressed) == suppressed >= MaxSuppressed

Limit(w) ==
  /\ check[w] = "limit"
  /\ IF Exhausted(objects[held[w]].suppressed)
     THEN Leave(w)
     ELSE Step(w, "suppress") /\ UNCHANGED <<held, num>>
  /\ UNCHANGED <<entries, objects, target, contended>>

\* One step: losing an increment to a race only lowers the number.
Suppress(w) ==
  /\ check[w] = "suppress"
  /\ objects' = [objects EXCEPT ![held[w]].suppressed = @ + 1]
  /\ Step(w, "answer")
  /\ UNCHANGED <<entries, target, held, num, contended>>

AlertDue_Beyond(count) == count > AlertAfter
AlertDue(count) == count = AlertAfter

\* The answer of a duplicate says whether it is the one that alerts.
Answer(w) ==
  /\ check[w] = "answer"
  /\ objects' = [objects EXCEPT ![held[w]].alerts = @ + IF AlertDue(objects[held[w]].count) THEN 1 ELSE 0]
  /\ Leave(w)
  /\ UNCHANGED <<entries, target, contended>>

CheckStep(w) ==
  \/ Lookup(w) \/ Insert(w) \/ TestWindow(w)
  \/ Renew(w) \/ Reset(w)
  \/ Touch(w) \/ Count(w) \/ Limit(w) \/ Suppress(w) \/ Answer(w)

\* cleanup: entries quiet for two windows are forgotten.
Cleanup ==
  /\ \E f \in Fingerprints : entries[f] # 0 /\ clock - objects[entries[f]].last > 2 * Window
  /\ entries' = [f \in Fingerprints |->
       IF entries[f] # 0 /\ clock - objects[entries[f]].last > 2 * Window THEN 0 ELSE entries[f]]
  /\ UNCHANGED <<objects, check, target, held, num, contended>>

=============================================================================
