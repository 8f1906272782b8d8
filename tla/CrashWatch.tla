------------------------------ MODULE CrashWatch ------------------------------
(***************************************************************************)
(* kcrash/core/ingestion.py: CrashWatcher.watch, a generator that lists a  *)
(* directory again and again and yields a CrashEvent for every dump it has *)
(* not seen.  It stands still at each yield until its consumer asks for    *)
(* the next event, while dumps arrive, grow and vanish.                    *)
(*                                                                         *)
(* Paths are those with a dump's suffix.  The order of the names within a  *)
(* pass, the resolved vmlinux and the ids of the events are left out.      *)
(***************************************************************************)
EXTENDS Integers

CONSTANT Paths

VARIABLES
  file,     \* environment: file[p] is "absent", "growing" or "complete"
  at,       \* "sleeping", "passing", "yielded", or "ended" when the generator is
  listing,  \* what is left of sorted(iterdir()), read at the start of the pass
  seen,     \* self._seen
  handed,   \* history: the file as it was when an event was yielded for it, "no" without
  yields    \* history: yields[p], the events yielded for p by this watcher

vars == <<file, at, listing, seen, handed, yields>>

Fresh ==
  /\ at' = "sleeping"
  /\ listing' = {} /\ seen' = {}
  /\ handed' = [p \in Paths |-> "no"]
  /\ yields' = [p \in Paths |-> 0]

Init ==
  /\ file \in [Paths -> {"absent", "growing", "complete"}]
  /\ at = "sleeping"
  /\ listing = {} /\ seen = {}
  /\ handed = [p \in Paths |-> "no"]
  /\ yields = [p \in Paths |-> 0]

-------------------------------------------------------------------------------
(* watch *)

BeginPass ==
  /\ at = "sleeping"
  /\ at' = "passing"
  /\ listing' = {p \in Paths : file[p] # "absent"}
  /\ UNCHANGED <<file, seen, handed, yields>>

\* The directory cannot be listed: nothing catches that, the generator is over.
ListingRaises ==
  /\ at = "sleeping"
  /\ at' = "ended"
  /\ UNCHANGED <<file, listing, seen, handed, yields>>

SkipSeen(p) ==
  /\ at = "passing"
  /\ p \in listing /\ p \in seen
  /\ listing' = listing \ {p}
  /\ UNCHANGED <<file, at, seen, handed, yields>>

\* The next new path is marked as seen, whatever becomes of it.
Take(p) ==
  /\ at = "passing"
  /\ p \in listing /\ p \notin seen
  /\ listing' = listing \ {p}
  /\ seen' = seen \union {p}

\* ingest_single asks whether the file exists, not whether it is complete.
IngestAndYield(p) ==
  /\ Take(p)
  /\ file[p] # "absent"
  /\ at' = "yielded"
  /\ handed' = [handed EXCEPT ![p] = file[p]]
  /\ yields' = [yields EXCEPT ![p] = @ + 1]
  /\ UNCHANGED file

\* FileNotFoundError, or stat fails: logged, and the pass goes on.
IngestFails(p) ==
  /\ Take(p)
  /\ UNCHANGED <<file, at, handed, yields>>

Resume ==
  /\ at = "yielded"
  /\ at' = "passing"
  /\ UNCHANGED <<file, listing, seen, handed, yields>>

\* The consumer closes the generator: GeneratorExit passes `except Exception`.
Close ==
  /\ at = "yielded"
  /\ at' = "ended"
  /\ UNCHANGED <<file, listing, seen, handed, yields>>

EndPass ==
  /\ at = "passing" /\ listing = {}
  /\ at' = "sleeping"
  /\ UNCHANGED <<file, listing, seen, handed, yields>>

-------------------------------------------------------------------------------
(* Dumps, and the process *)

FileChanges(p) ==
  /\ \E f \in {"absent", "growing", "complete"} \ {file[p]} : file' = [file EXCEPT ![p] = f]
  /\ UNCHANGED <<at, listing, seen, handed, yields>>

\* A new watcher, after a crash too, knows nothing of what was yielded before.
Restart == Fresh /\ UNCHANGED file

Next ==
  \/ BeginPass \/ ListingRaises \/ Resume \/ Close \/ EndPass \/ Restart
  \/ \E p \in Paths : SkipSeen(p) \/ IngestAndYield(p) \/ IngestFails(p) \/ FileChanges(p)

Spec == Init /\ [][Next]_vars

-------------------------------------------------------------------------------
TypeOK ==
  /\ file \in [Paths -> {"absent", "growing", "complete"}]
  /\ at \in {"sleeping", "passing", "yielded", "ended"}
  /\ listing \subseteq Paths /\ seen \subseteq Paths
  /\ handed \in [Paths -> {"no", "growing", "complete"}]
  /\ yields \in [Paths -> Nat]

\* A watcher yields at most one event for a path, and one for no path it has not
\* marked, however passes and yields interleave with what happens to the files.
AtMostOnce ==
  \A p \in Paths : yields[p] <= 1 /\ (yields[p] = 1 => p \in seen)

\* A watcher has one look at each path: a dump that vanished or failed then, or
\* was yielded while it still grew, it never yields as a whole.
OneLook ==
  [][~Restart => \A p \in seen : handed'[p] = handed[p] /\ yields'[p] = yields[p]]_vars

===============================================================================
