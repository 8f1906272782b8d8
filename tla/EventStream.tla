----------------------------- MODULE EventStream -----------------------------
(***************************************************************************)
(* observex/stream/ingestion.py, EventStreamProcessor: producer threads    *)
(* `submit` events to a bounded queue, a worker thread (_process_loop)     *)
(* collects them into batches and hands each batch to the handlers, and a  *)
(* controller thread starts and stops the worker.                          *)
(*                                                                         *)
(* `stop` waits five seconds for the worker and then returns even if a     *)
(* handler still runs; `start` makes a new thread without looking at the   *)
(* old one.  A worker that outlived its stop() goes on when the next       *)
(* start() clears the stop event, so several workers can share the queue.  *)
(*                                                                         *)
(* An event is the number of its put: the queue accepts 1, 2, 3, ...       *)
(* CPython switches threads at calls and loop edges.  `stats[k] += 1` has  *)
(* none and is one step; `total_processed += len(batch)` reads the counter *)
(* before the call of len and writes it after, so it is two.               *)
(***************************************************************************)
EXTENDS Integers, Sequences, FiniteSets, Functions

CONSTANTS
  Producers,      \* threads that submit
  Handlers,       \* callables that on_batch registers
  MaxHandlers,    \* bound: registrations
  Workers,        \* worker threads, one per start(): 1..n in order of start
  BatchSize,      \* batch_size
  FlushInterval,  \* flush_interval, in clock ticks
  MaxQueue,       \* max_queue_size
  MaxEvents,      \* bound: events accepted
  MaxDropped      \* bound: events dropped

ASSUME SizeAssumption ==
  /\ BatchSize \in Nat \ {0}
  /\ MaxQueue \in Nat \ {0}
  /\ FlushInterval \in Nat
ASSUME WorkersAssumption == Workers = 1..Cardinality(Workers) /\ IsFiniteSet(Workers)
ASSUME BoundsAssumption  == MaxEvents \in Nat /\ MaxDropped \in Nat /\ MaxHandlers \in Nat

\* A registration is its place in the list of handlers.
Registrations == 1..MaxHandlers

VARIABLES
  queue,         \* self._queue
  handlers,      \* self._handlers; a callable may be registered more than once
  stopEvent,     \* self._stop_event
  worker,        \* self._worker: the thread last started, 0 for None
  stats,         \* self._stats
  counting,      \* producers between put_nowait and `total_received += 1`
  joining,       \* the controller is inside stop(), waiting in join
  pc,            \* pc[w]: where thread w is in _process_loop
  batch,         \* batch[w]: its local batch
  turn,          \* turn[w]: the registrations w has called with the batch so far
  loaded,        \* loaded[w]: total_processed as w read it for its update
  elapsed,       \* elapsed[w]: ticks since w's last_flush, up to FlushInterval
  accepted,      \* history: events put so far
  seen,          \* history: seen[r], the events handed to registration r, in order
  overlapped     \* history: a worker was started while another was alive

vars == <<queue, handlers, stopEvent, worker, stats, counting, joining, pc,
          batch, turn, loaded, elapsed, accepted, seen, overlapped>>

producerVars == <<counting, accepted>>
workerVars   == <<pc, batch, turn, loaded, elapsed, seen>>
controlVars  == <<handlers, stopEvent, worker, joining, overlapped>>

Init ==
  /\ queue = <<>>
  /\ handlers = <<>>
  /\ stopEvent = FALSE
  /\ worker = 0
  /\ stats = [received |-> 0, processed |-> 0, batches |-> 0, dropped |-> 0]
  /\ counting = {}
  /\ joining = FALSE
  /\ pc = [w \in Workers |-> "new"]
  /\ batch = [w \in Workers |-> <<>>]
  /\ turn = [w \in Workers |-> 0]
  /\ loaded = [w \in Workers |-> 0]
  /\ elapsed = [w \in Workers |-> 0]
  /\ accepted = 0
  /\ seen = [r \in Registrations |-> <<>>]
  /\ overlapped = FALSE

Alive(w) == pc[w] \notin {"new", "exited"}

-----------------------------------------------------------------------------
(* Producers *)

Full_OffByOne == Len(queue) > MaxQueue
Full == Len(queue) >= MaxQueue

\* submit: the put succeeds; the event is visible before it is counted.
Put(p) ==
  /\ p \notin counting
  /\ ~Full
  /\ accepted < MaxEvents
  /\ queue' = Append(queue, accepted + 1)
  /\ accepted' = accepted + 1
  /\ counting' = counting \union {p}
  /\ UNCHANGED <<stats, workerVars, controlVars>>

CountReceived(p) ==
  /\ p \in counting
  /\ stats' = [stats EXCEPT !.received = @ + 1]
  /\ counting' = counting \ {p}
  /\ UNCHANGED <<queue, accepted, workerVars, controlVars>>

\* submit: queue.Full, the event is dropped and the caller is told False.
Drop_CountedFirst(p) ==
  /\ p \notin counting
  /\ Full
  /\ stats.dropped < MaxDropped
  /\ stats' = [stats EXCEPT !.received = @ + 1, !.dropped = @ + 1]
  /\ UNCHANGED <<queue, producerVars, workerVars, controlVars>>

Drop(p) ==
  /\ p \notin counting
  /\ Full
  /\ stats.dropped < MaxDropped
  /\ stats' = [stats EXCEPT !.dropped = @ + 1]
  /\ UNCHANGED <<queue, producerVars, workerVars, controlVars>>

-----------------------------------------------------------------------------
(* Worker threads: _process_loop *)

Goto(w, label) == pc' = [pc EXCEPT ![w] = label]

Test_NoFinalDispatch(w) ==
  /\ pc[w] = "test"
  /\ Goto(w, IF stopEvent THEN "exited" ELSE "get")
  /\ UNCHANGED <<queue, stats, producerVars, controlVars, batch, turn, loaded, elapsed, seen>>

\* `while not self._stop_event.is_set()`; after the loop, the final dispatch.
Test(w) ==
  /\ pc[w] = "test"
  /\ Goto(w, IF ~stopEvent THEN "get"
             ELSE IF batch[w] # <<>> THEN "last_dispatch" ELSE "exited")
  /\ UNCHANGED <<queue, stats, producerVars, controlVars, batch, turn, loaded, elapsed, seen>>

FlushDue_SizeOnly(w, events) == Len(events) >= BatchSize

FlushDue(w, events) ==
  \/ Len(events) >= BatchSize
  \/ elapsed[w] >= FlushInterval /\ events # <<>>

Collect_NoTimeout(w) ==
  /\ pc[w] = "get"
  /\ queue # <<>>
  /\ LET events == Append(batch[w], Head(queue))
         due == FlushDue(w, events)
     IN  /\ batch' = [batch EXCEPT ![w] = events]
         /\ Goto(w, IF due THEN "dispatch" ELSE "test")
         /\ elapsed' = [elapsed EXCEPT ![w] = IF due THEN 0 ELSE @]
  /\ queue' = Tail(queue)
  /\ UNCHANGED <<stats, producerVars, controlVars, turn, loaded, seen>>

Collect_AtFront(w) ==
  /\ pc[w] = "get"
  /\ LET got == IF queue = <<>> THEN <<>> ELSE <<Head(queue)>>
         events == got \o batch[w]
         due == FlushDue(w, events)
     IN  /\ queue' = IF queue = <<>> THEN queue ELSE Tail(queue)
         /\ batch' = [batch EXCEPT ![w] = events]
         /\ Goto(w, IF due THEN "dispatch" ELSE "test")
         /\ elapsed' = [elapsed EXCEPT ![w] = IF due THEN 0 ELSE @]
  /\ UNCHANGED <<stats, producerVars, controlVars, turn, loaded, seen>>

\* queue.get returns the oldest event, or times out on an empty queue; then the
\* worker decides whether to flush.  last_flush becomes the time read before
\* the dispatch: the time the handlers take counts towards the next flush.
Collect(w) ==
  /\ pc[w] = "get"
  /\ LET got == IF queue = <<>> THEN <<>> ELSE <<Head(queue)>>
         events == batch[w] \o got
         due == FlushDue(w, events)
     IN  /\ queue' = IF queue = <<>> THEN queue ELSE Tail(queue)
         /\ batch' = [batch EXCEPT ![w] = events]
         /\ Goto(w, IF due THEN "dispatch" ELSE "test")
         /\ elapsed' = [elapsed EXCEPT ![w] = IF due THEN 0 ELSE @]
  /\ UNCHANGED <<stats, producerVars, controlVars, turn, loaded, seen>>

Dispatching(w) == pc[w] \in {"dispatch", "last_dispatch"}

\* _dispatch: one call `handler(batch)`.  The handler may raise; the exception
\* is dropped and the next handler is called all the same.  A callable that is
\* registered twice is called twice, once for each registration.
Hand(w) ==
  /\ Dispatching(w)
  /\ turn[w] < Len(handlers)
  /\ seen' = [seen EXCEPT ![turn[w] + 1] = @ \o batch[w]]
  /\ turn' = [turn EXCEPT ![w] = @ + 1]
  /\ UNCHANGED <<queue, stats, producerVars, controlVars, pc, batch, loaded, elapsed>>

\* _dispatch, after the last handler: `total_processed += len(batch)` reads ...
LoadProcessed(w) ==
  /\ Dispatching(w)
  /\ turn[w] = Len(handlers)
  /\ loaded' = [loaded EXCEPT ![w] = stats.processed]
  /\ Goto(w, IF pc[w] = "dispatch" THEN "account" ELSE "last_account")
  /\ UNCHANGED <<queue, stats, producerVars, controlVars, batch, turn, elapsed, seen>>

Account_KeepsBatch(w) ==
  /\ pc[w] \in {"account", "last_account"}
  /\ stats' = [stats EXCEPT !.processed = loaded[w] + Len(batch[w]), !.batches = @ + 1]
  /\ turn' = [turn EXCEPT ![w] = 0]
  /\ loaded' = [loaded EXCEPT ![w] = 0]
  /\ Goto(w, IF pc[w] = "account" THEN "test" ELSE "exited")
  /\ UNCHANGED <<queue, producerVars, controlVars, batch, elapsed, seen>>

\* ... and writes, after which the worker is back in the loop, or out of it,
\* with an empty batch.
Account(w) ==
  /\ pc[w] \in {"account", "last_account"}
  /\ stats' = [stats EXCEPT !.processed = loaded[w] + Len(batch[w]), !.batches = @ + 1]
  /\ batch' = [batch EXCEPT ![w] = <<>>]
  /\ turn' = [turn EXCEPT ![w] = 0]
  /\ loaded' = [loaded EXCEPT ![w] = 0]
  /\ Goto(w, IF pc[w] = "account" THEN "test" ELSE "exited")
  /\ UNCHANGED <<queue, producerVars, controlVars, elapsed, seen>>

-----------------------------------------------------------------------------
(* The controller and the clock *)

\* on_batch appends without a test, also while a batch is handed out.
OnBatch(h) ==
  /\ Len(handlers) < MaxHandlers
  /\ handlers' = Append(handlers, h)
  /\ UNCHANGED <<queue, stats, producerVars, workerVars,
                 stopEvent, worker, joining, overlapped>>

Start ==
  /\ ~joining
  /\ worker + 1 \in Workers
  /\ stopEvent' = FALSE
  /\ worker' = worker + 1
  /\ pc' = [pc EXCEPT ![worker + 1] = "test"]
  /\ overlapped' = (overlapped \/ \E w \in Workers : Alive(w))
  /\ UNCHANGED <<queue, stats, producerVars, handlers, joining,
                 batch, turn, loaded, elapsed, seen>>

Stop ==
  /\ ~joining
  /\ stopEvent' = TRUE
  /\ joining' = (worker # 0)
  /\ UNCHANGED <<queue, stats, producerVars, workerVars,
                 handlers, worker, overlapped>>

\* join(timeout=5) returns: the worker has ended or the five seconds are over.
StopReturns ==
  /\ joining
  /\ joining' = FALSE
  /\ UNCHANGED <<queue, stats, producerVars, workerVars,
                 handlers, stopEvent, worker, overlapped>>

Tick ==
  /\ \E w \in Workers : Alive(w) /\ elapsed[w] < FlushInterval
  /\ elapsed' = [w \in Workers |->
       IF Alive(w) /\ elapsed[w] < FlushInterval THEN elapsed[w] + 1 ELSE elapsed[w]]
  /\ UNCHANGED <<queue, stats, producerVars, controlVars, pc, batch, turn, loaded, seen>>

Work(w) == Test(w) \/ Collect(w) \/ Hand(w) \/ LoadProcessed(w) \/ Account(w)

Next ==
  \/ \E p \in Producers : Put(p) \/ CountReceived(p) \/ Drop(p)
  \/ \E w \in Workers : Work(w)
  \/ \E h \in Handlers : OnBatch(h)
  \/ Start \/ Stop \/ StopReturns
  \/ Tick

\* Threads that can run are scheduled (handlers return), and time passes.
Fairness ==
  /\ \A w \in Workers : WF_vars(Work(w))
  /\ \A p \in Producers : WF_vars(CountReceived(p))
  /\ WF_vars(Tick)

Spec == Init /\ [][Next]_vars /\ Fairness

------------------------------------------------------------------------------
Labels == {"new", "test", "get", "dispatch", "last_dispatch",
           "account", "last_account", "exited"}

\* Type invariant of the processor's attributes and of the workers' locals.
TypeOK ==
  /\ queue \in Seq(1..MaxEvents) /\ Len(queue) <= MaxQueue
  /\ handlers \in Seq(Handlers) /\ Len(handlers) <= MaxHandlers
  /\ stopEvent \in BOOLEAN /\ joining \in BOOLEAN /\ overlapped \in BOOLEAN
  /\ worker \in Workers \union {0}
  /\ stats \in [received : 0..MaxEvents, processed : 0..MaxEvents,
                batches : Nat, dropped : 0..MaxDropped]
  /\ counting \subseteq Producers
  /\ pc \in [Workers -> Labels]
  /\ batch \in [Workers -> Seq(1..MaxEvents)]
  /\ turn \in [Workers -> 0..MaxHandlers]
  /\ loaded \in [Workers -> 0..MaxEvents]
  /\ elapsed \in [Workers -> 0..FlushInterval]
  /\ accepted \in 0..MaxEvents
  /\ seen \in [Registrations -> Seq(1..MaxEvents)]

\* The events in the workers' hands: a worker and a place in its batch each.
InBatches == Cardinality(UNION {{w} \X DOMAIN batch[w] : w \in Workers})

\* The counters account for every accepted event: it is queued, in a worker's
\* batch, or processed.  total_received trails by the producers that have put
\* and not yet counted; total_processed is exact as long as only one worker
\* has run at a time and can otherwise only be too small (a lost update).
Conservation ==
  LET handedOver == accepted - Len(queue) - InBatches
  IN  /\ stats.received + Cardinality(counting) = accepted
      /\ stats.processed <= handedOver
      /\ ~overlapped => stats.processed = handedOver

\* Unless workers overlapped, each registration sees an uninterrupted run of
\* the accepted events in queue order, across flushes, stops and restarts.
ContiguousDelivery ==
  ~overlapped =>
    \A r \in Registrations : \A i \in 1..(Len(seen[r]) - 1) : seen[r][i + 1] = seen[r][i] + 1

\* A worker that saw the stop event does not end with events in its hands.
ExitedHandsOver == \A w \in Workers : pc[w] = "exited" => batch[w] = <<>>

\* A running processor does not sit on an event: an accepted event reaches
\* every registration, by batch size or by interval, unless it is stopped.
EventuallyHandled ==
  \A e \in 1..MaxEvents, r \in Registrations :
    (e \in Range(queue) /\ r \in DOMAIN handlers /\ worker # 0)
      ~> (e \in Range(seen[r]) \/ stopEvent)

\* A stop that is not taken back ends every worker, also one whose stop() timed
\* out or that was started twice.
StopTerminates == stopEvent ~> (~stopEvent \/ \A w \in Workers : ~Alive(w))

\* The processor keeps EventDelivery's promise: no registration is given
\* an event again in a later batch or twice in one, nor before it was accepted,
\* and batches have at most BatchSize events.
Promise == INSTANCE EventDelivery WITH handed <- seen
Delivery == Promise!Spec

==============================================================================
