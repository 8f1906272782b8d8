---------------------------- MODULE TriageServer ----------------------------
(***************************************************************************)
(* kcrash/api/server.py with kcrash/core/batch.py: requests, the batch     *)
(* workers, the deduplicator and the crash database.                       *)
(*                                                                         *)
(* The handlers are coroutines that never await, so the event loop runs    *)
(* one request at a time: POST /analyze is one step, and during a POST     *)
(* /analyze/batch nothing else runs but the batch's worker threads.  What  *)
(* an analysis returns is AnalysisPipeline's business: here it comes back  *)
(* with a fingerprint, without one (the dump could not be read), or        *)
(* raises.                                                                 *)
(***************************************************************************)
EXTENDS CrashDedup, CrashDatabase, Sequences

CONSTANTS
  Days,         \* values of the query parameter of the purge
  MaxClock,     \* bound: the clock stops here
  MaxDumps      \* bound: dumps handed in, by all requests together

ASSUME DaysAssumption  == Days \subseteq Nat
ASSUME BoundAssumption == MaxClock \in Nat /\ MaxDumps \in Nat

VARIABLES
  second,      \* the second in the running batch's id
  results,     \* results[i]: what became of job i, "pending" until its future is done
  job,         \* job[w]: the job worker w runs, 0 for none
  started,     \* started[w]: the time stamp of the report w works on
  totals,      \* completed, failed and skipped jobs of the last batch answered
  running,     \* a batch request is being served
  cached,      \* keys that went into the server's analysis cache
  dumps        \* history: dumps handed in up to the last request

batch == <<second, results, job, started, totals, running>>
vars == <<clock, entries, objects, check, target, held, num, contended, rows,
          second, results, job, started, totals, running, cached, dumps>>

Jobs == DOMAIN results

NoTotals == [completed |-> 0, failed |-> 0, skipped |-> 0]

BatchInit ==
  /\ second = 0
  /\ results = <<>>
  /\ job = [w \in Workers |-> 0]
  /\ started = [w \in Workers |-> 0]
  /\ totals = NoTotals
  /\ running = FALSE

Init ==
  /\ clock = 0
  /\ rows = [i \in {} |-> 0]
  /\ DedupInit /\ BatchInit
  /\ cached = {}
  /\ dumps = 0

JobId_NoIndex(i) == <<"batch", second, 0>>
JobId(i) == <<"batch", second, i>>
ApiId == <<"api", clock, 0>>

-----------------------------------------------------------------------------
(* BatchProcessor *)

SubmitBatch ==
  /\ ~running
  /\ \E n \in 1..(MaxDumps - dumps) :
       /\ results' = [i \in 1..n |-> "pending"]
       /\ dumps' = dumps + n
  /\ running' = TRUE
  /\ second' = clock
  /\ totals' = NoTotals
  /\ UNCHANGED <<clock, dedup, rows, job, started, cached>>

Taken == {job[w] : w \in Workers} \union {i \in Jobs : results[i] # "pending"}

\* The executor hands the jobs out in order.
TakeJob(w) ==
  /\ running /\ job[w] = 0
  /\ Jobs \ Taken # {}
  /\ job' = [job EXCEPT ![w] = Min(Jobs \ Taken)]
  /\ started' = [started EXCEPT ![w] = clock]
  /\ UNCHANGED <<clock, dedup, rows, second, results, totals, running, cached, dumps>>

\* The future of w's job is done and w is free.
Finish(w, result) ==
  /\ results' = [results EXCEPT ![job[w]] = result]
  /\ job' = [job EXCEPT ![w] = 0]
  /\ started' = [started EXCEPT ![w] = 0]
  /\ UNCHANGED <<second, totals, running>>

Busy(w) == job[w] # 0 /\ check[w] = "no"

\* The analysis comes back with a fingerprint: the duplicate check is called.
Analysed(w) ==
  /\ Busy(w)
  /\ \E f \in Fingerprints : CallCheck(w, f)
  /\ UNCHANGED <<clock, rows, batch, cached, dumps>>

\* No fingerprint: nothing to check and nothing to save, and not a failure.
NotCollected(w) ==
  /\ Busy(w)
  /\ Finish(w, "unread")
  /\ UNCHANGED <<clock, dedup, rows, cached, dumps>>

\* pipeline.run raises.
AnalysisRaises(w) ==
  /\ Busy(w)
  /\ Finish(w, "raised")
  /\ UNCHANGED <<clock, dedup, rows, cached, dumps>>

Back(w) == check[w] = "checked" /\ Step(w, "no") /\ UNCHANGED <<entries, objects, target, held, num, contended>>

\* Whatever check answered (it has no "status"), the crash is saved.
SaveJob(w) ==
  /\ Back(w)
  /\ SaveCrash(JobId(job[w]), [fingerprint |-> target[w], created |-> started[w], request |-> dumps])
  /\ Finish(w, "saved")
  /\ UNCHANGED <<clock, cached, dumps>>

SaveFails_Saved(w) ==
  /\ Back(w)
  /\ Finish(w, "saved")
  /\ UNCHANGED <<clock, rows, cached, dumps>>

\* save_crash raises (the database stays locked): rolled back, the job failed.
SaveFails(w) ==
  /\ Back(w)
  /\ Finish(w, "raised")
  /\ UNCHANGED <<clock, rows, cached, dumps>>

Ended(outcomes) == Cardinality({i \in Jobs : results[i] \in outcomes})

\* as_completed has yielded every future; a result without analysis counts as
\* completed, and nothing is ever skipped.
EndBatch ==
  /\ running /\ Ended({"pending"}) = 0
  /\ totals' = [completed |-> Ended({"saved", "unread"}), failed |-> Ended({"raised"}), skipped |-> 0]
  /\ running' = FALSE
  /\ UNCHANGED <<clock, dedup, rows, second, results, job, started, cached, dumps>>

WorkerStep(w) ==
  \/ TakeJob(w) \/ Analysed(w) \/ NotCollected(w) \/ AnalysisRaises(w)
  \/ CheckStep(w) /\ UNCHANGED <<clock, rows, batch, cached, dumps>>
  \/ SaveJob(w) \/ SaveFails(w)

-----------------------------------------------------------------------------
(* Single requests *)

CacheKey(f, model) == <<f, model>>

\* POST /analyze: analysed and cached, then saved unless the database fails.
Analyze ==
  /\ ~running /\ dumps < MaxDumps
  /\ dumps' = dumps + 1
  /\ \E f \in Fingerprints :
       /\ cached' = cached \union {CacheKey(f, "model")}
       /\ \/ SaveCrash(ApiId, [fingerprint |-> f, created |-> clock, request |-> dumps'])
          \/ UNCHANGED rows
  /\ UNCHANGED <<clock, dedup, batch>>

\* GET /crashes/{fingerprint_hash} asks the cache with no model in the key.
GetCrashFinds(f) == CacheKey(f, "") \in cached

\* DELETE /crashes/purge
Purge ==
  /\ ~running
  /\ \E days \in Days : PurgeOld(clock, days)
  /\ UNCHANGED <<clock, dedup, batch, cached, dumps>>

\* GET /crashes and GET /trends, which change nothing.
ListCrashes(hours) == Recent(clock, hours)
GetTrends(days, minCount) == Trends(clock, days, minCount, Fingerprints)

\* cleanup, which nothing in the server calls; an embedding program may.
CleanUp ==
  /\ ~running
  /\ Cleanup
  /\ UNCHANGED <<clock, rows, batch, cached, dumps>>

\* The process dies and is started again: only the database and the cache stay.
Restart ==
  /\ entries' = [f \in Fingerprints |-> 0]
  /\ objects' = [r \in Refs |-> Blank]
  /\ check' = [w \in Workers |-> "no"]
  /\ held' = [w \in Workers |-> 0]
  /\ num' = [w \in Workers |-> 0]
  /\ contended' = FALSE
  /\ second' = 0
  /\ results' = <<>>
  /\ job' = [w \in Workers |-> 0]
  /\ started' = [w \in Workers |-> 0]
  /\ totals' = NoTotals
  /\ running' = FALSE
  /\ UNCHANGED <<clock, target, rows, cached, dumps>>

Tick ==
  /\ clock < MaxClock
  /\ \A w \in Workers : ~Checking(w)
  /\ clock' = clock + 1
  /\ UNCHANGED <<dedup, rows, batch, cached, dumps>>

BatchStep == EndBatch \/ \E w \in Workers : WorkerStep(w)

Next == SubmitBatch \/ BatchStep \/ Analyze \/ Purge \/ CleanUp \/ Restart \/ Tick

Spec == Init /\ [][Next]_vars

-----------------------------------------------------------------------------
Rows == [fingerprint : Fingerprints, created : 0..MaxClock, request : 1..MaxDumps]

\* Type invariant; a job is run by one worker.
TypeOK ==
  /\ clock \in 0..MaxClock
  /\ entries \in [Fingerprints -> Refs \union {0}]
  /\ objects \in [Refs -> [count : Nat, suppressed : Nat, last : 0..MaxClock, alerts : Nat]]
  /\ target \in [Workers -> Fingerprints]
  /\ held \in [Workers -> Refs \union {0}]
  /\ num \in [Workers -> Nat]
  /\ DOMAIN rows \subseteq {"batch", "api"} \X (0..MaxClock) \X (0..MaxDumps)
  /\ \A i \in DOMAIN rows : rows[i] \in Rows
  /\ results \in Seq({"pending", "saved", "unread", "raised"})
  /\ job \in [Workers -> Jobs \union {0}]
  /\ \A v, w \in Workers : v # w /\ job[v] # 0 => job[v] # job[w]
  /\ started \in [Workers -> 0..MaxClock]
  /\ totals \in [completed : 0..MaxDumps, failed : 0..MaxDumps, skipped : 0..MaxDumps]
  /\ dumps \in 0..MaxDumps

\* max_suppressed is overshot by at most one suppression per other worker,
\* however the unlocked test and increment interleave.
SuppressionBound ==
  \A r \in Refs : objects[r].suppressed <= MaxSuppressed + Cardinality(Workers) - 1

\* As long as checks do not overlap, a crash that keeps coming back raises one
\* alert per window, with the alert_after'th occurrence.
AlertOnce ==
  (~contended /\ AlertAfter <= MaxSuppressed + 1) =>
    \A f \in Fingerprints :
      LET e == objects[entries[f]]
      IN  (entries[f] # 0 /\ \A w \in Workers : ~Checking(w)) =>
             e.alerts = IF e.count >= AlertAfter THEN 1 ELSE 0

\* Each job's result agrees with the database: a job reported saved has its own
\* row there, a duplicate's too, and one that failed or read nothing left none.
OutcomesMatchRows ==
  running =>
    \A i \in Jobs :
      LET own == JobId(i) \in DOMAIN rows /\ rows[JobId(i)].request = dumps
      IN  /\ results[i] = "saved" => own
          /\ results[i] \in {"unread", "raised"} => ~own

\* A saved crash goes only by a purge that it is old enough for, or when another
\* request gives the same id; never through a job of its own batch.
RowsKept ==
  [][\A i \in DOMAIN rows :
       \/ i \in DOMAIN rows' /\ rows'[i] = rows[i]
       \/ i \in DOMAIN rows' /\ rows'[i].request > rows[i].request
       \/ i \notin DOMAIN rows' /\ \E days \in Days : clock - rows[i].created > days * DayLength]_vars

\* The text comparison of time stamps loses no crash at the edge of a window:
\* a list over a span holds every crash of that span, and none that is a day or
\* more older; and a fingerprint with as many crashes within the days as a trend
\* asks for is a trend.
QueriesCoverWindow ==
  /\ \A hours \in 0..MaxClock, i \in DOMAIN rows :
       LET age == clock - rows[i].created
       IN  /\ age <= hours => i \in ListCrashes(hours)
           /\ i \in ListCrashes(hours) => age < hours + DayLength
  /\ \A days \in Days, f \in Fingerprints :
       LET within == {i \in DOMAIN rows : rows[i].fingerprint = f /\ clock - rows[i].created <= days * DayLength}
       IN  within # {} => f \in GetTrends(days, Cardinality(within))

\* GET /crashes/{hash} finds what an analysis has put into the cache.
FoundByHash == \A f \in Fingerprints : CacheKey(f, "model") \in cached => GetCrashFinds(f)

=============================================================================
