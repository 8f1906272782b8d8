# TLA+ models and proofs of kcrash and ObserveX

The repository holds two programs. **kcrash** (`src/kcrash`) triages kernel
crash dumps: it fingerprints a dump, asks an LLM in two phases, lets three
agents debate, perhaps generates an eBPF or kpatch hot patch, caches and stores
the result. **ObserveX** (`src/observex`) does the same kind of work for event
streams: it clusters events, builds a causal graph, lets four agents debate,
plans a remediation and learns. This directory holds TLA+ modules of the parts
that carry state or decide something, the TLC configurations that check them,
and proofs checked by TLAPS. `PROJECT.json` maps every definition to the source
lines it models, and lists runs, mutants, findings, hazards and theorems.

## Inventory

| Part | State it keeps | Operations | What is hard | What makes it correct |
|---|---|---|---|---|
| Circuit breaker `core/circuit_breaker.py` | state, counts, half-open slots, stats, last failure | `call`, `state`, `reset` | calls run outside the lock and report in another period; `BaseException` | count and state agree; cooldown honoured; every call booked once; slots accounted |
| Event stream `stream/ingestion.py` | bounded queue, worker thread, handlers, stats | `submit`, `start`, `stop`, `on_batch` | two workers on a queue, unlocked counters, raising handlers | no event lost to the counters, none given twice to one registration of a handler, a running worker flushes |
| Analysis cache `core/cache.py` | index in memory, `index.json`, one file per key | `get`, `set`, `clear` | crashes between file writes, two instances over a directory, expiry | bounded, no result older than the lifetime it was saved with, not poisoned by a crash, clear is final |
| Analysis pipeline `core/pipeline.py` | report, stages, cache | seven stages | each stage may fail alone; LLM output is untyped | no patch without grounds; an outage is survived and not served for ever |
| Crash debate `debate/`, `agents/` | memory of rounds | initial round, rebuttals, verdict | feedback between rounds | rounds settle |
| LLM client `llm/client.py` | timestamps of the rate limiter | `chat` with retries | limiter has no lock, goes by old clock readings and sleeps without testing again | limit per window honoured, calls end |
| Deduplication `core/dedup.py` | entry per fingerprint | `check`, `cleanup` | no lock, called by a thread pool | bounded suppression, one alert per window |
| Database `core/database.py` | rows of crashes | save, purge, recent crashes, trends | REPLACE on equal ids, text comparison of dates | saved rows stay; a query covers its window |
| Batch and server `core/batch.py`, `api/server.py` | jobs, results | batch, analyze, lookup | jobs in any order, one step of several failing | results agree with rows |
| API keys `api/auth.py` | keys, one token bucket each | register, authenticate, rate limit, disable | tokens refilled in fractions, only when asked | no window admits too many; the exception's `retry_after` is enough and not too much |
| Severity, fingerprint `core/severity.py`, `core/fingerprint.py` | none | classify, fingerprint, similarity, score | two tables of error classes that must agree, caps | more never means milder; similar stacks are alike |
| Hot patches `patch/` | none | template or LLM patch, validation | the LLM's patch may be anything | what is invalid does not count as a patch |
| Crash watcher `core/ingestion.py` | paths seen | `watch` | a generator that stands still while dumps come, grow and vanish | no dump twice |
| Notifications `notifications/manager.py` | channels, rules | `notify` | channels fail one by one, lists change while they are walked | every resolved channel is tried |
| Event clustering `processing/clustering.py` | clusters by template | `ingest`, eviction | late events, eviction at the limit | no event uncounted |
| Causal graph `processing/causal_builder.py`, `models/causal.py` | nodes, edges | build, order | events at one instant, changes looked up by substring, the root cause loses its type | acyclic, root cause is a root |
| Incident debate `debate/engine.py`, `agents/` | arguments | rounds, verdict | a rebuttal replaces the argument it came from | the change that caused the incident can be blamed, a sure first round can be learned from: the code does neither (see findings) |
| Remediation `remediation/engine.py` | plan, sandbox results | plan, iterate | clang's outcomes, retries | verified means compiled |
| Knowledge base `knowledge/base.py` | patterns, entries, two JSON files | learn, load | crash between writes, reload | disk keeps up with memory |

How they meet: a CLI command or a server request runs the analysis pipeline,
which calls the LLM client and the cache and ends in the debate and the patch
gate; batch jobs run pipelines in a thread pool and share one deduplicator and
one database. Every request that carries a key passes `verify_api_key`, that is
the key store and its buckets. The circuit breaker and the notification manager
are written for the client and the server and called by neither. In ObserveX, `process_events` calls clusterer, graph builder, debate,
remediation and knowledge base in order, in the caller's thread; the event
stream is a separate producer/consumer object to which any handler can be
attached.

## Modules

| Module | Models | Notes |
|---|---|---|
| `CircuitBreaker` | `CircuitBreaker` | one action per locked section: `Admit`/`Reject` at entry, `Succeed`/`Fail`/`Interrupt` at the end of the call, `ReadState`, `Reset`, `Tick`. `probes`, `leaked`, `openedAt`, `carried` are history |
| `TokenBucket` | | abstract: a bucket that fills all the time, `Take` and `Issue` |
| `ApiKeys` | `APIKeyStore`, `verify_api_key` | tokens in parts so small that a tick refills `rate_limit` of them, and nothing is rounded; refilled only by a request; refines `TokenBucket` |
| `CrashFingerprint`, `Severity` | `fingerprint.py`, `severity.py` | operators; a hash is the text that is hashed, a dmesg the markers in it |
| `PatchGeneration` | eBPF and kpatch generators, validator | operators; a source is what the validator looks for in it |
| `CrashWatch` | `CrashWatcher.watch`, `ingest_single` | the generator stops at each yield; files change at any time |
| `Notifications` | `NotificationManager` | places in the list of channels; `live` says that the loop walks the manager's own list |
| `...Proofs` | | the theorems below |
| `EventDelivery` | | abstract: events are accepted, and each registration of a handler is given a sequence of events, in batches of at most `BatchSize` that are new to it and hold none twice; a second delivery would make the sequence longer and is no step of it |
| `EventStream` | `EventStreamProcessor` | workers step by step (`Test`, `Collect`, `Hand`, `LoadProcessed`, `Account`), refines `EventDelivery`. `on_batch` appends without a test and at any time, so a callable registered twice is two registrations and is given every batch as both |
| `AnalysisCache` | `AnalysisCache` | file by file: opening truncates, so that a file is torn between `OpenData` and `WriteData`. `ttl_seconds` and `max_entries` belong to an instance, and an entry keeps the expiry it was made with |
| `KernelDebate` | kcrash agents, memory, moderator | operators; confidences in percent, words instead of texts |
| `AnalysisPipeline` | `AnalysisPipeline.run` | composes `KernelDebate`, `Severity`, `PatchGeneration` and the cache's answer; the LLM answers anything of its set, or nothing |
| `LLMClient` | `RateLimiter`, `LLMClient._call` | threads, clock, retries. A list of stamps is an object that threads may share or replace; `acquire` is cut wherever another thread can run, between the clock reading and the append too, and time may pass at every cut (`since`). Lists can lose their order, and `Recent` filters them by each stamp |
| `CrashDedup`, `CrashDatabase` | `CrashDeduplicator`, `Database` | `check` in its unlocked steps; REPLACE and the textual comparison of dates |
| `TriageServer` | `BatchProcessor`, `/analyze` and the lookups | composes the two with jobs in a pool |
| `EventClusterer`, `CausalGraph`, `ObservexDebate`, `KnowledgeBase` | the ObserveX parts of these names | operators and actions of `IncidentPipeline` |
| `IncidentPipeline` | `process_events`, `iteratively_fix` | composes the four, with crash and restart, and callers that come back to a plan |

An `MC...` module instantiates one of these for TLC. A definition whose name
ends in `_Something` is a mutated form of the definition before the underscore,
as a plausible bug would make it; the mutation of each property is listed in
`PROJECT.json`, and TLC finds the property violated under it.

Data is kept to what the properties tell apart. A message, label, claim or
description is the set of the words in it that some code looks for; confidences
are integers (percent, or hundredths of a percent where products are compared);
time is a clock in ticks; a crash, fingerprint or worker is a model value.

## Runs

Bounds are in the `.cfg`, and every bound on a counter is a named constant.

| Run | Question | Instance and why it is enough |
|---|---|---|
| `breaker` | Do count, state, slots and statistics agree, and does a half-open period end, whatever order calls end in? | three threads, threshold 2, two probes: a call of an old period, a probe and a rejection overlap; five calls trip, half-open and close it again |
| `stream` | Is every event counted, none given to a registration twice, none left with a worker that ended; does a running processor flush, and does a stop end its workers? | one producer, two events, a queue of one and batches of two: the queue overflows, and a batch is flushed by size or by interval; two workers overlap after a stop that timed out or a second start; one callable registered up to twice, at any time |
| `cache` | Is the cache bounded, does no result outlive the lifetime it was saved with, is it whole after one crash, complete on disk and empty after clear? | two instances with lifetimes of 1 and 0 over one directory, two keys, room for one, two crashes: every set evicts, and each instance meets the other's entries |
| `pipeline` | No patch without grounds, outages survived and forgotten, rounds settle? | two crashes of one fingerprint, one with a deeper stack and worse hardware, five commands (no cache, no rounds, threshold 0, both patch types), four answers per phase and the failures |
| `pipeline_no_cache` (violation) | Is a `--no-cache` run never answered from the cache? | as `pipeline` |
| `llm` | Is the rate kept across retries and sleeps while threads do not enter together, and does each call end? | two threads, two grants per window of two ticks, one retry; a clock reading is gone by up to a tick late (`MaxLag`), and callers start with up to one grant in the window (`MaxBurst`), so that both threads find it full; an entry of several threads at once is recorded in `contended` |
| `gate` | Does no window of requests admit too many, is the `retry_after` of the exception exact to a second, and is the bucket as good as one that fills all the time? | one key (keys share nothing) at none, 2 and 7 requests a minute, half seconds, pauses of 8.5 and 21.5 s whose sums fall on both sides of every whole token and second, expiry at 45 s of 60 |
| `triage` | Suppression bound, one alert per window, results agree with rows, rows kept, list and trends cover their window? | two workers and four dumps of one fingerprint, clock past two windows and a day, queries at any time |
| `triage_by_hash` (violation) | Does `GET /crashes/{hash}` find what was cached? | as `triage` |
| `incident` | Counts, graph order, an unblamed root cause, disk, and what a verified, a failed and an abandoned plan have behind them | three templates for two clusters, late and simultaneous events on two hosts, changes of three sources, one worded like another, 1 to 3 rounds, two calls of up to three events per process, crashes anywhere |
| `documented_result` (violation) | Does an incident that the agents open as in the README's sample end as the sample shows? | as `incident` |
| `kb_reload` (violation) | Does the knowledge survive a restart without a torn file? | as `incident` |

The runs list the properties that relate parts of the state. The type invariants of
`AnalysisCache`, `LLMClient`, `TriageServer`, `IncidentPipeline` and `ApiKeys` are the
modules' `TypeOK` and hold in the same instances; those of `AnalysisCache`, `TriageServer`
and `ApiKeys` are theorems.

Deadlock is checked except in `incident`, `documented_result` and `kb_reload`, where a
process whose knowledge base cannot be loaded stops for good.

Some of the safety properties hold under a condition that the code does not
ensure. The condition is in the property, TLC has a counterexample without it, and
what it excludes is not claimed anywhere:

* `RateHonoured` and `LimiterRemembers` speak of executions in which `acquire` is never
  entered by two threads together (`contended`). Only `EveryCallEnds` covers the
  threads that are. With them the limit is not kept.
* `AlertOnce` speaks of checks that do not overlap. Overlapping ones do skip and repeat
  the alert. `SuppressionBound` and `OutcomesMatchRows` cover any overlap.
* `OrderComplete` speaks of changes none of which is described by words of another
  (`Distinguished`). With others the graph does get cycles.
* `ContiguousDelivery`, and the part of `Conservation` that `total_processed` is exact,
  speak of workers that have not overlapped. The rest of `Conservation`,
  `ExitedHandsOver` and `Delivery` cover any overlap.
* The cache's properties about crashes and `clear` speak of one instance at a time in the
  directory; `CapacityBound` and `NoStaleHit` of any number together.

Two say less than their names might suggest. `NoStaleHit` is about the lifetime that an
entry was saved with, not that of the instance that asks: one with `ttl_seconds=0`
answers with an hour-old result of another (see `pipeline_no_cache`). `CapacityBound` is
about the largest `max_entries` of the instances, since eviction makes room for one entry
and a start loads all there are.

### Fairness

* breaker: the caller's function ends (`Finish`), which the breaker cannot
  influence; nothing is assumed of new calls.
* stream: a live worker thread runs, a producer that has put an event goes on to
  count it, and time passes. `queue.get` has a timeout of 0.1 s, so that a worker
  never waits for ever. Producers, handlers' outcomes and `stop` are not fair.
* LLM client: time passes and a thread that can go on does: the client has a
  timeout, sleeps are bounded.
* pipeline: the run in progress goes on (every stage returns or raises) and cache
  entries expire, which is the clock.

## Findings

* `kb_reload`: `FailurePattern.to_dict` and `_load` disagree on field names; after
  the first learned incident the next process dies in `KnowledgeBase.__init__`. It takes
  `debate_rounds=1` to learn one.
* `documented_result`: `README.md:547-577` shows the result of a default run: 8 arguments,
  confidence 0.85 and a step of type `ebpf_patch`; `README.md:98` says that "Every resolved
  incident feeds back into the pattern knowledge base", `README.md:245` that "Resolved
  incidents auto-generate patterns". In the code a rebuttal replaces the argument it
  answers and is never surer than 0.66, so that an incident opened just like the sample ends
  at 0.66 with a ticket for manual work, and nothing is learned. The theorem
  `RebuttalsOnlyOpenTickets` says that this is so for every incident once there is a round of
  rebuttals.
* `pipeline_no_cache`: `--no-cache` reads, and adds to, the default cache directory.
* `triage_by_hash`: the lookup uses the fingerprint, the cache key has the model in it.

Noted while modelling and visible in the models:

* ObserveX: marking a change as the root cause takes its type away before the debate, so
  that the change agent does not blame it (`RootCauseUnblamed`). The causal graph, a "Full
  DAG" in `README.md:170`, can have a cycle when one change's description contains
  another's, or is empty; a result shows it only as a `chain_length` that is too small.
* LLM client: `README.md:710` speaks of a token bucket; the code keeps a sliding window of
  time stamps.
* Deduplication: nothing in the repository calls `cleanup`.
* Breaker: several calls at once may probe a half-open circuit, up to
  `half_open_max_calls`, where the README speaks of one; a probe ended by a
  `BaseException` loses its slot for good.
* Cache: the entry evicted is the oldest written (`Oldest`), in constant use or not;
  `docs/architecture.md:18` calls it LRU. A cached report carries no severity, and
  the row made of it says UNKNOWN.
* Severity: the classifier calls a kernel panic `panic`, the table of severities
  `kernel_panic`: a panic is rated LOW (theorem `PanicUnderrated`), where `README.md:722`
  says "panic > oops > bug > warning". MEDIUM begins at 35 and CRITICAL at 80, where
  `README.md:729` has 30 and above 80.
* Patches: the kpatch template never passes the validator's BPF syntax check.
* API keys: the server's startup registers the configured names and drops the raw
  keys that `register_key` made, so that a configured key never authenticates;
  a refused request is answered 401 like a wrong key, with the text of the exception
  alone, so that `retry_after` never reaches the HTTP client; a key with a limit of 0
  divides by zero in `check_rate_limit`, which is answered 401 too (`Breaks`).
  Buckets are full after a restart.
* Ingestion: the `ingest` command calls `CrashIngestion.watch()`, which only
  `CrashWatcher` has (`main.py:146`). A dump that is first listed while it is still
  being written is handed out as it is, or never (`WatchLooksOnce`).
* Notifications: a crash too mild for every rule goes to all channels
  (`MildReachesAll`); one whose rules name unknown channels goes to none.

## Proofs

Eight modules hold theorems. They are about the same specifications that TLC runs, for
every value of the constants that the named assumptions of the modules allow; the
bounds of the runs (`MaxTime`, `MaxEvents`, ...) are constants like the others. No
theorem has a hypothesis of its own about the state: each is `Spec => ...`, or a fact
about an operator for all arguments of its type.

| Proof module | Theorems |
|---|---|
| `CircuitBreakerProofs` | `TypeCorrect`, `Tripped` (`TrippedIffThreshold`), `ProbesAccounted` (`ProbeAccounting`), `StatsBalanced` (`StatsBalance`), `Cooldown` (`CooldownHonoured`, an action property) |
| `EventStreamProofs` | `StreamTypes` (`TypeOK`), `NothingUnaccounted` (`Conservation`), `DeliveryInOrder` (`ContiguousDelivery`), `NothingLeftBehind` (`ExitedHandsOver`), `KeepsPromise` (the refinement of `EventDelivery`) |
| `AnalysisCacheProofs` | `CacheTypes` (`TypeOK`), `CacheBounded` (`CapacityBound`), `NoStaleHits` (`NoStaleHit`), `MemoryIsSaved` (`DiskCoversMemory`), `ClearsAreFinal` (`ClearIsFinal`), `OneCrashIsHarmless` (`OneCrashNeverPoisons`) |
| `AnalysisPipelineProofs` | `ReportTypes` (`TypeOK`), `PatchesHaveGrounds` (`NoPatchWithoutGrounds`), `OutagesEndInAVerdict` (`OutageVerdict`), `DebatesSettle` (`RoundsSettle`), and of the operators `ScoreInRange`, `SeverityMonotone`, `PanicUnderrated`, `SimilarByOneFrame` |
| `LLMClientProofs` | `RateKept` (`RateHonoured`), `Remembers` (`LimiterRemembers`) |
| `TriageServerProofs` | `TriageTypes` (`TypeOK`), `Suppressions` (`SuppressionBound`), `OneAlert` (`AlertOnce`), `ReportsMatchRows` (`OutcomesMatchRows`), `RowsAreKept` (`RowsKept`, an action property), `QueriesCover` (`QueriesCoverWindow`) |
| `IncidentPipelineProofs` | `DiskKeptUp` (`DiskKeepsUp`), `VerifiedCovers` (`VerifiedCoversEbpf`), `RebuttalsOnlyOpenTickets`, `EventsAccounted` (`ClustersAccounted`), `OrderMissesNoNode` (`OrderComplete`), `RootCauseNeverBlamed` (`RootCauseUnblamed`) |
| `ServiceEdgeProofs` | of `ApiKeys`: `TypeCorrect`, `Window` (`WindowBound`), `Retry` (`RetryAfterExact`), `Implements` (the refinement of `TokenBucket`); of `CrashWatch`: `WatchTyped`, `WatchOnce`, `WatchLooksOnce`; of `Notifications`: `NotifyTyped`, `NotifyInTurn`, `NotifyNoneSkipped`, `GraverReachesMore`, `MildReachesAll`, `UnknownReachesNobody` |

### Circuit breaker

For any finite set of threads, any threshold, cooldown and number of probes. One
inductive invariant, `IInv`: the four state invariants and `OpenStamped`. None of the
five is inductive alone. `ProbeAccounting` needs `TrippedIffThreshold`, because a
failure half-opens or reopens by the count; the cooldown needs to know that an
open circuit's last failure is no older than its opening, since a failure that
arrives late moves the stamp (`OpenStamped`); the counters are numbers only by the
type invariant, and sets of callers have a cardinality only as subsets of a
finite set. There is a lemma per action, and one (`SeenConsistent`) for the
refresh of the state that `call` makes before it decides.

### Event stream

For any producers, handlers, workers, queue and batch size, and any number of
registrations, several of one callable among them. The queue holds the events after the
first `Taken` ones in order (`Queued`), and what was taken is in batches, with
registrations, or both: `Passed` and `Apart` say that no two workers share an event,
`Registered` that a worker's loop over the handlers is within their list, and `Unseen` that
a registration has not been given what a worker's batch still has in store for it. That is
what the refinement needs: `KeepsPromise` maps each step to a step of `EventDelivery` or a
stutter, overlap or not, and there what a registration was given is a sequence that only a
batch of new events can extend. `Counted` adds to `Conservation` what a worker has read of
`total_processed` and not yet written back. `Single`, `InRow`, `UpToDate` and `Late` speak
of executions in which workers do not overlap; there the batch is the last of what was
taken and every registration has seen up to it, from which `ContiguousDelivery` follows.
Counts are cardinalities of sets of places in batches, so that a step is one element more
or less.

### Analysis cache

For any keys and instances, any capacity and lifetime of each, and any number of crashes.
`Room` and `Fresh` make the bound and freshness inductive whatever the instances do to each
other: `Room` says of every index, and of what is about to be saved, that it fits the
`max_entries` of some instance (`Fits`), and `Fresh` that every entry in an index expires a
lifetime of some instance after it was made (`Dated`) and that its file, if it is there
and whole, is no older than the entry. `NoStaleHits` follows: the result that a lookup is
about to read is no older than the lifetime its entry was made with.
The other three hold while instances were never up together, and none of them is
inductive: `Solo` says for each key what the index on disk, the index in memory and the
file may disagree about at every point of `get` and `set`, after no, one or more
crashes. A step is first described as an update of one key's three copies and then
checked against the parts of `Solo` for that key.

### Analysis pipeline

For any dumps, commands and answers. The debate is a function of the report's phases
(`Debated`): the first round and one and the same round of rebuttals from then on, which
is `RoundsSettle`. `Grounded` says what a confident verdict rests on, for every answer
the LLM can give, and carries `NoPatchWithoutGrounds` through the patch gate; `Filled`,
`Phased` and `Ordered` say which parts of the report exist at which stage. The theorems
about operators: more hardware errors, siblings, depth or a critical module never make
a crash milder, and the 0.7 of `is_similar` lets at most one frame of a signature
differ.

### LLM client

For any finite set of threads, any limit, window, number of retries and delay, and any
time between two steps of a thread (`MaxLag`). `LInv` describes the lists of stamps as
objects and holds for any interleaving: who holds one, that a thread about to filter or
append does (`Bound`), that only a thread that sleeps has time to wait (`Awake`), and that
the history of grants is in order (`Granted`). The lists themselves need not be in order
once threads read the clock in one order and append in the other, and nothing is said of
that. `Honoured` is what holds on top of it while threads have entered `acquire` one at a
time (`Alone`): the current list is in order, a copy made of it is its recent part as of
the clock reading, a stamp read and not yet appended is the one grant it lacks, and
without what has grown old it is what was granted in the last window; a thread that has
filtered or slept has `Room` for its stamp. The sleep is where the limit could break:
`acquire` does not test again after it, and the argument is that by then the oldest stamp
has left the window, also when the sleep was worked out from an old clock reading. A grant
counts from the reading of its stamp; the request is sent later.

### Triage server

For any finite set of workers, any fingerprints, dumps, windows, limits and days, and a
restart at any step.

* `Typed`, in three parts for the deduplicator, the batch and the rows, adds to `TypeOK`
  that a worker holds an entry exactly in the steps from the test of the window to the
  answer (`Holding`), and what entries and rows are made of.
* `SuppressInv` counts, for every entry, the workers that are past the test of
  `max_suppressed` and have not yet counted their suppression: suppressions and those
  workers are together less than `max_suppressed` and the number of workers. A worker
  joins them only below the maximum, when at most all the others have joined.
* `OutcomeInv` says for each job of the running batch whether its id has the row of this
  very batch: a job that is pending has none yet, and no other job can make it one, the
  index being part of the id. `KeptStep` follows for each action that touches rows.
* `AlertInv`: no two fingerprints share an entry (`Distinct`), and while checks have not
  overlapped at most one worker is in `check` (`OneCheck`), every other entry is
  `Settled`, that is has its one alert exactly from the `alert_after`'th occurrence on, and
  the entry in hand is as far as the `Stage` its worker is in.
* `QueriesCover` rests on one lemma about the comparison of dates as texts
  (`BeforeIsOlder`: what is before is older, and what is not is less than a day older) and on
  the sets of rows being finite.

### API keys

For any keys, rate limits, lifetime, clock resolution and pauses. `WindowBound` is not
inductive, because a window begins where a history variable
says; `WInv` adds what the bucket holds now, admissions and tokens together being
what was there and what was refilled. `RInv` relates the announced second to the
tokens of the refusal. Time and rate multiply, which the SMT solver does not do by
itself: `Distribute`, `Product` and `Refilling` carry the arithmetic, and every step
cites `Level...` lemmas that say what one action does to the level of one bucket.
The refinement mapping gives the abstract bucket the level the concrete one would
have if it were asked now.

### Incident pipeline

For any events, changes, rounds, calls and attempts, and a crash at any step. Five
invariants, each inductive with the ones it needs:

* `KInv` for the files. `DiskKeepsUp` speaks of the two files only; `KInv` adds that the
  memory has a pattern for every entry in memory and in the file (`MemoryCovers`: this is
  where `learn_from_incident` adding the pattern before the entry is used) and that a
  save which is past the first file has written the patterns it still has
  (`SaveInStep`). A restart keeps it because a patterns file that can be loaded is
  empty, so that the entries file beside it, if it is intact, is too.
* `PInv` for the plan: while it is being verified no attempt has passed yet, one that was
  left by a clang without an answer can be tried again, a plan that exists has a step, and its patch, if it has one, is in front from `generate_plan` on
  (`StepsPatchFirst`). `TriedIsUnverified` is the heart of the argument: the loop's
  condition keeps a verified plan and one that is out of attempts from being tried
  again, also when a caller calls `iteratively_fix` twice.
* `Debating` and `Modest` for the debate: the last four arguments are one of each
  agent's, none blames a change where no node is one (`Blameless`), and rebuttals are
  `Mild`. A mild verdict is below 0.7, so nothing is learned, so no save begins and a
  restart has nothing to load. This is why `DocumentedResult` is violated.
* `ClusterInv` for the clusters: `Tally` is the set of the events that the clusters count,
  an event joining, opening or (by eviction) taking along a cluster changes it by as many
  members (`TallyCount`, `TallyAppend`, `TallyRemove`).
* `GraphInv` for the graph. `Rank` orders nodes by time, a change before the events of its
  instant; every edge leads up in it (`EdgesLeadOn`, where `Distinguished` changes are
  needed: `FoundAsItself`), so that a node of least rank among any that are left has
  nothing leading to it. That makes the order complete (`OrderMissesNone`) and a root exist,
  and so the greatest key of `mark_root_cause` is a root's. `ActiveShape` shows that
  the clusters handed over are clusters: each has a place of its own in the order.

`InputAssumption` is what these rest on beyond numbers being numbers: time stamps are
positive. The sources of events and changes may be any.
Induction over numbers is done with sets (`Least`, `SetInduction`, `GreatestFirst`),
since the prover cannot instantiate an induction theorem for a predicate.

### Watcher and notifications

For any set of paths, and for any channels and rules. Their two modules are small, have
no constant to choose and no run: the theorems cover what a run would. They share nothing
with the keys and are proved of instances (`Watch`, `Manager`) beside them.

### What stays with TLC

Liveness (`ProbesResolve`, `EventuallyHandled`, `StopTerminates`, `OutageForgotten`,
`EveryCallEnds`), which is out of the prover's reach. The type invariants of
`IncidentPipeline` and of `LLMClient` as they stand: the proofs use typed invariants of
their own, and the second's bound on a back-off, `RetryDelay * 2^MaxRetries`, is a power,
of which the provers know nothing. Every other property of a passing run is a theorem.

## Not modelled

Parsing and formatting (log parsers, dump reader, prompts, report layout, the
templates' bodies), subprocess wrappers (crash, git, make; clang only by its
outcome), metrics that no decision reads, configuration, logging and the command
line. Of modelled parts: batch manifests and crash ids of whole seconds (their
collisions are in the triage model), the query of crashes by host and the row limits,
the event and notification tables, correlations and search in ObserveX, which only
report. In the API keys, rounding of floats and a clock that is set back.
Python's GIL is taken to make a
single dictionary or list operation atomic, and nothing more; SQLite's
transactions are taken as atomic.

## Plan

1. Done: breaker, API keys and watcher, severity and notifications with proofs;
   stream and its refinement, cache, pipeline with debate and patches, LLM client,
   triage server with its queries, incident pipeline.
2. Done: proofs of every safety property, action property and refinement that a passing
   run checks.
3. Next: abstract specifications of the deduplicator (an alert and a count per window)
   and of the analysis cache (a map that forgets), with the detailed modules shown to
   implement them where their conditions hold.
4. A larger instance of the pipeline with a third crash, if its states allow it.
