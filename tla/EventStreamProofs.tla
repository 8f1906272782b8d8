--------------------------- MODULE EventStreamProofs ---------------------------
(***************************************************************************)
(* Proofs about EventStream, for any number of producers, handlers and     *)
(* workers: its invariants, and that it implements EventDelivery.          *)
(***************************************************************************)
EXTENDS EventStream, FiniteSetTheorems, SequenceTheorems, TLAPS

-------------------------------------------------------------------------------
(* The inductive invariant *)

\* The events taken from the queue so far are 1..Taken, what is queued follows.
Taken == accepted - Len(queue)

Queued == Taken >= 0 /\ \A i \in DOMAIN queue : queue[i] = Taken + i

Busy == {"dispatch", "last_dispatch", "account", "last_account"}
Accounting == {"account", "last_account"}

\* Where a worker is in its loop, and what it holds there.
Local ==
  \A w \in Workers :
    /\ pc[w] = "new" <=> w > worker
    /\ pc[w] \in {"new", "exited"} => batch[w] = <<>>
    /\ pc[w] \notin Busy => turn[w] = 0
    /\ pc[w] \in {"test", "get"} => Len(batch[w]) < BatchSize
    /\ pc[w] \in Busy => batch[w] # <<>> /\ Len(batch[w]) <= BatchSize

\* Nothing is handed to a registration that was not made yet.
Registered ==
  /\ \A r \in Registrations : seen[r] # <<>> => r \in DOMAIN handlers
  /\ \A w \in Workers : turn[w] <= Len(handlers)

\* Batches and handlers have only events that were taken.
Passed ==
  /\ \A w \in Workers : \A i \in DOMAIN batch[w] : batch[w][i] <= Taken
  /\ \A r \in Registrations : \A i \in DOMAIN seen[r] : seen[r][i] <= Taken

\* No event is in two batches, or at two places of one.
Apart ==
  \A v, w \in Workers : \A i \in DOMAIN batch[v], j \in DOMAIN batch[w] :
    batch[v][i] = batch[w][j] => v = w /\ i = j

\* A registration whose turn has not come knows nothing of a worker's batch.
Unseen ==
  \A w \in Workers : \A j \in DOMAIN handlers : j > turn[w] =>
    \A i \in DOMAIN batch[w], k \in DOMAIN seen[j] : batch[w][i] # seen[j][k]

\* What a worker read of total_processed is not too much either.
Counted ==
  /\ IsFiniteSet(counting)
  /\ Conservation
  /\ \A w \in Workers : loaded[w] <= Taken - InBatches

\* Without overlap one worker is alive at most, what it read of the counter is
\* still true, ...
Single ==
  ~overlapped =>
    /\ \A v, w \in Workers : Alive(v) /\ Alive(w) => v = w
    /\ \A w \in Workers : pc[w] \in Accounting => loaded[w] = stats.processed

\* ... its batch is the last of the events taken, ...
InRow ==
  ~overlapped =>
    \A w \in Workers : \A i \in DOMAIN batch[w] : batch[w][i] = (Taken - Len(batch[w])) + i

\* ... and a registration has seen events up to that batch, or with it once called.
Reached(w) ==
  \A j \in DOMAIN handlers : seen[j] # <<>> =>
    seen[j][Len(seen[j])]
      = Taken - (IF j <= turn[w] THEN 0 ELSE Len(batch[w]))

UpToDate ==
  ~overlapped =>
    \A w \in Workers : (\A v \in Workers : v # w => batch[v] = <<>>) => Reached(w)

\* A registration made after the last call has seen nothing.
Late ==
  ~overlapped =>
    \A w \in Workers : pc[w] \in Accounting =>
      \A j \in DOMAIN handlers : j > turn[w] => seen[j] = <<>>

IInv ==
  /\ TypeOK /\ Queued /\ Local /\ Registered /\ Passed /\ Apart /\ Unseen
  /\ Counted /\ Single /\ InRow /\ UpToDate /\ Late
  /\ ContiguousDelivery /\ ExitedHandsOver

-------------------------------------------------------------------------------
(* Types *)

\* TypeOK but for the bounds of the counters, which follow from Conservation.
Typed ==
  /\ queue \in Seq(1..MaxEvents) /\ Len(queue) <= MaxQueue
  /\ handlers \in Seq(Handlers) /\ Len(handlers) <= MaxHandlers
  /\ stopEvent \in BOOLEAN /\ joining \in BOOLEAN /\ overlapped \in BOOLEAN
  /\ worker \in Workers \union {0}
  /\ stats \in [received : Nat, processed : Nat, batches : Nat, dropped : 0..MaxDropped]
  /\ counting \subseteq Producers
  /\ pc \in [Workers -> Labels]
  /\ batch \in [Workers -> Seq(1..MaxEvents)]
  /\ turn \in [Workers -> Nat]
  /\ loaded \in [Workers -> Nat]
  /\ elapsed \in [Workers -> 0..FlushInterval]
  /\ accepted \in 0..MaxEvents
  /\ seen \in [Registrations -> Seq(1..MaxEvents)]

LEMMA TypeIsTyped == TypeOK => Typed
  <1> SUFFICES ASSUME TypeOK PROVE Typed
    OBVIOUS
  <1>1. /\ stats \in [received : 0..MaxEvents, processed : 0..MaxEvents, batches : Nat, dropped : 0..MaxDropped]
        /\ MaxEvents \in Nat
    BY BoundsAssumption DEF TypeOK
  <1>2. stats \in [received : Nat, processed : Nat, batches : Nat, dropped : 0..MaxDropped]
    BY <1>1
  <1>3. MaxHandlers \in Nat
    BY BoundsAssumption
  <1>4. turn \in [Workers -> Nat] /\ loaded \in [Workers -> Nat]
    BY <1>1, <1>3 DEF TypeOK
  <1>5. QED
    BY <1>2, <1>4 DEF TypeOK, Typed

\* What a worker does to the queue and to its batch.
LEMMA CollectParts ==
  ASSUME Typed, NEW w \in Workers, Collect(w)
  PROVE  /\ \/ queue = <<>> /\ queue' = queue /\ batch' = batch
            \/ /\ queue # <<>> /\ queue' = Tail(queue)
               /\ batch' = [batch EXCEPT ![w] = Append(batch[w], Head(queue))]
         /\ \/ pc' = [pc EXCEPT ![w] = "dispatch"] /\ batch'[w] # <<>>
            \/ pc' = [pc EXCEPT ![w] = "test"] /\ Len(batch'[w]) < BatchSize
         /\ elapsed' \in [Workers -> 0..FlushInterval]
         /\ pc[w] = "get"
         /\ UNCHANGED <<stats, producerVars, controlVars, turn, loaded, seen>>
  <1> DEFINE got == IF queue = <<>> THEN <<>> ELSE <<Head(queue)>>
             events == batch[w] \o got
             due == FlushDue(w, events)
  <1>1. /\ queue' = IF queue = <<>> THEN queue ELSE Tail(queue)
        /\ batch' = [batch EXCEPT ![w] = events]
        /\ pc' = [pc EXCEPT ![w] = IF due THEN "dispatch" ELSE "test"]
        /\ elapsed' = [elapsed EXCEPT ![w] = IF due THEN 0 ELSE elapsed[w]]
    BY DEF Collect, Goto
  <1>2. batch[w] \in Seq(1..MaxEvents) /\ queue \in Seq(1..MaxEvents)
    BY DEF Typed
  <1>3. queue = <<>> => events = batch[w]
    BY <1>2, ConcatEmptySeq
  <1>4. queue # <<>> => events = Append(batch[w], Head(queue)) /\ events \in Seq(1..MaxEvents)
    <2> SUFFICES ASSUME queue # <<>>
                 PROVE  events = Append(batch[w], Head(queue)) /\ events \in Seq(1..MaxEvents)
      OBVIOUS
    <2>1. Head(queue) \in 1..MaxEvents
      BY <1>2, HeadTailProperties
    <2>2. events = Append(batch[w], Head(queue))
      BY <1>2, <2>1, AppendIsConcat
    <2>3. QED
      BY <1>2, <2>1, <2>2, AppendProperties
  <1>5. events \in Seq(1..MaxEvents) /\ Len(events) \in Nat
    <2>1. events \in Seq(1..MaxEvents)
      BY <1>2, <1>3, <1>4
    <2>2. QED
      BY <2>1, LenProperties
  <1> HIDE DEF events, due
  <1>6. batch'[w] = events
    BY <1>1 DEF Typed
  <1>7. \/ queue = <<>> /\ queue' = queue /\ batch' = batch
        \/ /\ queue # <<>> /\ queue' = Tail(queue)
           /\ batch' = [batch EXCEPT ![w] = Append(batch[w], Head(queue))]
    <2>1. CASE queue = <<>>
      <3>1. batch' = batch
        BY <1>1, <1>3, <2>1 DEF Typed
      <3>2. QED
        BY <1>1, <2>1, <3>1
    <2>2. CASE queue # <<>>
      BY <1>1, <1>4, <2>2
    <2>3. QED
      BY <2>1, <2>2
  <1>8. \/ pc' = [pc EXCEPT ![w] = "dispatch"] /\ batch'[w] # <<>>
        \/ pc' = [pc EXCEPT ![w] = "test"] /\ Len(batch'[w]) < BatchSize
    <2>1. BatchSize \in Nat /\ BatchSize > 0
      BY SizeAssumption
    <2>2. due => events # <<>>
      BY <1>5, <2>1 DEF due, FlushDue
    <2>3. ~due => Len(events) < BatchSize
      BY <1>5, <2>1 DEF due, FlushDue
    <2>4. QED
      BY <1>1, <1>6, <2>2, <2>3
  <1>9. elapsed' \in [Workers -> 0..FlushInterval]
    <2>1. 0 \in 0..FlushInterval
      BY SizeAssumption
    <2>2. QED
      BY <1>1, <2>1 DEF Typed
  <1>10. QED
    BY <1>7, <1>8, <1>9 DEF Collect

LEMMA TypedStep ==
  ASSUME Typed, [Next]_vars
  PROVE  Typed'
  <1> USE DEF Typed
  <1>1. ASSUME NEW p \in Producers, Put(p) PROVE Typed'
    <2>1. accepted + 1 \in 1..MaxEvents /\ accepted + 1 \in 0..MaxEvents
      BY <1>1, BoundsAssumption DEF Put
    <2>2. /\ queue' = Append(queue, accepted + 1) /\ Len(queue) < MaxQueue
          /\ accepted' = accepted + 1 /\ counting' = counting \union {p}
      BY <1>1, SizeAssumption DEF Put, Full
    <2>3. queue' \in Seq(1..MaxEvents) /\ Len(queue') <= MaxQueue
      BY <2>1, <2>2, SizeAssumption
    <2>4. counting' \subseteq Producers
      BY <2>2
    <2>5. UNCHANGED <<stats, pc, batch, turn, loaded, elapsed, seen, handlers, stopEvent, worker, joining, overlapped>>
      BY <1>1 DEF Put, workerVars, controlVars
    <2>6. accepted' \in 0..MaxEvents
      BY <2>1, <2>2
    <2>7. QED
      BY <2>3, <2>4, <2>5, <2>6
  <1>2. ASSUME NEW p \in Producers, CountReceived(p) PROVE Typed'
    <2>1. stats' = [stats EXCEPT !.received = stats.received + 1] /\ stats.received + 1 \in Nat
      BY <1>2 DEF CountReceived
    <2>2. stats' \in [received : Nat, processed : Nat, batches : Nat, dropped : 0..MaxDropped]
      BY <2>1
    <2>3. counting' \subseteq Producers
      BY <1>2 DEF CountReceived
    <2>4. QED
      BY <1>2, <2>2, <2>3 DEF CountReceived, workerVars, controlVars
  <1>3. ASSUME NEW p \in Producers, Drop(p) PROVE Typed'
    <2>1. stats.dropped + 1 \in 0..MaxDropped
      BY <1>3, BoundsAssumption DEF Drop
    <2>2. QED
      BY <1>3, <2>1 DEF Drop, workerVars, controlVars, producerVars
  <1>4. ASSUME NEW w \in Workers, Test(w) PROVE Typed'
    <2>1. \E label \in Labels : pc' = [pc EXCEPT ![w] = label]
      BY <1>4 DEF Test, Goto, Labels
    <2>2. pc' \in [Workers -> Labels]
      BY <2>1
    <2>3. QED
      BY <1>4, <2>2 DEF Test, producerVars, controlVars
  <1>5. ASSUME NEW w \in Workers, Collect(w) PROVE Typed'
    <2>1. pc' \in [Workers -> Labels]
      BY <1>5, CollectParts DEF Labels
    <2>2. elapsed' \in [Workers -> 0..FlushInterval]
      BY <1>5, CollectParts
    <2>3. queue' \in Seq(1..MaxEvents) /\ Len(queue') <= MaxQueue /\ batch' \in [Workers -> Seq(1..MaxEvents)]
      <3>1. CASE queue = <<>>
        BY <1>5, <3>1, CollectParts
      <3>2. CASE queue # <<>>
        <4>1. /\ queue' = Tail(queue)
              /\ batch' = [batch EXCEPT ![w] = Append(batch[w], Head(queue))]
          BY <1>5, <3>2, CollectParts
        <4>2. /\ Head(queue) \in 1..MaxEvents /\ Tail(queue) \in Seq(1..MaxEvents)
              /\ Len(Tail(queue)) = Len(queue) - 1 /\ Len(queue) \in Nat
          BY <3>2, HeadTailProperties, LenProperties
        <4>3. Append(batch[w], Head(queue)) \in Seq(1..MaxEvents)
          BY <4>2, AppendProperties
        <4>4. Len(Tail(queue)) <= MaxQueue
          BY <4>2, SizeAssumption
        <4>5. QED
          BY <4>1, <4>2, <4>3, <4>4
      <3>3. QED
        BY <3>1, <3>2
    <2>4. QED
      BY <1>5, <2>1, <2>2, <2>3, CollectParts DEF producerVars, controlVars
  <1>6. ASSUME NEW w \in Workers, Hand(w) PROVE Typed'
    <2>1. PICK h \in Registrations : seen' = [seen EXCEPT ![h] = seen[h] \o batch[w]]
      <3>1. turn[w] + 1 \in 1..Len(handlers)
        <4>1. turn[w] \in Nat /\ Len(handlers) \in Nat /\ turn[w] < Len(handlers)
          BY <1>6, LenProperties DEF Hand
        <4> HIDE DEF Typed
        <4>2. QED
          BY <4>1
      <3>2. turn[w] + 1 \in Registrations
        <4>1. Len(handlers) \in Nat /\ Len(handlers) <= MaxHandlers /\ MaxHandlers \in Nat
          BY LenProperties, BoundsAssumption
        <4> HIDE DEF Typed
        <4>2. QED
          BY <3>1, <4>1 DEF Registrations
      <3>3. seen' = [seen EXCEPT ![turn[w] + 1] = seen[turn[w] + 1] \o batch[w]]
        BY <1>6 DEF Hand
      <3>4. QED
        BY <3>2, <3>3
    <2>2. seen' \in [Registrations -> Seq(1..MaxEvents)]
      <3>1. seen[h] \o batch[w] \in Seq(1..MaxEvents)
        BY ConcatProperties
      <3>2. QED
        BY <2>1, <3>1
    <2>3. turn' \in [Workers -> Nat]
      <3>1. turn' = [turn EXCEPT ![w] = turn[w] + 1] /\ turn \in [Workers -> Nat]
        BY <1>6 DEF Hand
      <3> HIDE DEF Typed
      <3>2. QED
        BY <3>1
    <2>4. QED
      BY <1>6, <2>2, <2>3 DEF Hand, producerVars, controlVars
  <1>7. ASSUME NEW w \in Workers, LoadProcessed(w) PROVE Typed'
    <2>1. \E label \in Labels : pc' = [pc EXCEPT ![w] = label]
      BY <1>7 DEF LoadProcessed, Goto, Labels
    <2>2. pc' \in [Workers -> Labels]
      BY <2>1
    <2>3. QED
      BY <1>7, <2>2 DEF LoadProcessed, producerVars, controlVars
  <1>8. ASSUME NEW w \in Workers, Account(w) PROVE Typed'
    <2>1. \E label \in Labels : pc' = [pc EXCEPT ![w] = label]
      BY <1>8 DEF Account, Goto, Labels
    <2>2. pc' \in [Workers -> Labels]
      BY <2>1
    <2>3. batch' \in [Workers -> Seq(1..MaxEvents)] /\ turn' \in [Workers -> Nat] /\ loaded' \in [Workers -> Nat]
      BY <1>8 DEF Account
    <2>4. stats' \in [received : Nat, processed : Nat, batches : Nat, dropped : 0..MaxDropped]
      <3>1. loaded[w] + Len(batch[w]) \in Nat /\ stats.batches + 1 \in Nat
        BY LenProperties
      <3>2. stats' = [stats EXCEPT !.processed = loaded[w] + Len(batch[w]), !.batches = stats.batches + 1]
        BY <1>8 DEF Account
      <3>3. QED
        BY <3>1, <3>2
    <2>5. QED
      BY <1>8, <2>2, <2>3, <2>4 DEF Account, producerVars, controlVars
  <1>9. ASSUME NEW h \in Handlers, OnBatch(h) PROVE Typed'
    <2>1. /\ handlers' = Append(handlers, h) /\ Len(handlers) < MaxHandlers
          /\ MaxHandlers \in Nat /\ Len(handlers) \in Nat
      BY <1>9, BoundsAssumption, LenProperties DEF OnBatch
    <2>2. handlers' \in Seq(Handlers) /\ Len(handlers') = Len(handlers) + 1
      BY <2>1, AppendProperties
    <2>3. Len(handlers') <= MaxHandlers
      BY <2>1, <2>2
    <2>4. QED
      BY <1>9, <2>2, <2>3 DEF OnBatch, producerVars, workerVars
  <1>10. CASE Start
    <2>1. pc' \in [Workers -> Labels] /\ worker' \in Workers
      BY <1>10 DEF Start, Labels
    <2>2. overlapped' \in BOOLEAN
      BY <1>10 DEF Start
    <2>3. QED
      BY <1>10, <2>1, <2>2 DEF Start, producerVars
  <1>11. CASE Stop
    BY <1>11 DEF Stop, producerVars, workerVars
  <1>12. CASE StopReturns
    BY <1>12 DEF StopReturns, producerVars, workerVars
  <1>13. CASE Tick
    <2>1. elapsed' \in [Workers -> 0..FlushInterval]
      <3>1. ASSUME NEW w \in Workers, elapsed[w] < FlushInterval
            PROVE  elapsed[w] + 1 \in 0..FlushInterval
        <4>1. elapsed[w] \in 0..FlushInterval
          OBVIOUS
        <4> HIDE DEF Typed
        <4>2. QED
          BY <3>1, <4>1, SizeAssumption
      <3>2. QED
        BY <1>13, <3>1 DEF Tick
    <2>2. QED
      BY <1>13, <2>1 DEF Tick, producerVars, controlVars
  <1>14. CASE UNCHANGED vars
    BY <1>14 DEF vars
  <1>15. QED
    BY <1>1, <1>2, <1>3, <1>4, <1>5, <1>6, <1>7, <1>8, <1>9, <1>10, <1>11, <1>12, <1>13, <1>14
       DEF Next, Work

-------------------------------------------------------------------------------
(* Events on their way *)

\* Which steps move an event or a handler, and which move none.
Resting == UNCHANGED <<queue, accepted, batch, seen, turn, handlers>>

LEMMA Moves ==
  ASSUME [Next]_vars
  PROVE  \/ \E p \in Producers : Put(p)
         \/ \E w \in Workers : Collect(w) \/ Hand(w) \/ Account(w)
         \/ \E h \in Handlers : OnBatch(h)
         \/ Resting
  <1> USE DEF Resting, producerVars, workerVars, controlVars
  <1>1. ASSUME NEW p \in Producers, CountReceived(p) \/ Drop(p) PROVE Resting
    BY <1>1 DEF CountReceived, Drop
  <1>2. ASSUME NEW w \in Workers, Test(w) \/ LoadProcessed(w) PROVE Resting
    BY <1>2 DEF Test, LoadProcessed
  <1>3. CASE Start \/ Stop \/ StopReturns \/ Tick
    BY <1>3 DEF Start, Stop, StopReturns, Tick
  <1>4. CASE UNCHANGED vars
    BY <1>4 DEF vars
  <1>5. QED
    BY <1>1, <1>2, <1>3, <1>4 DEF Next, Work

LEMMA TakenType ==
  ASSUME Typed
  PROVE  Taken \in Int /\ accepted \in Nat /\ Len(queue) \in Nat
  BY LenProperties, BoundsAssumption DEF Typed, Taken

\* A put adds the next event, a get takes the next one.
LEMMA PutTakes ==
  ASSUME Typed, Queued, NEW p \in Producers, Put(p)
  PROVE  Taken' = Taken /\ Queued'
  <1>1. queue \in Seq(Int) /\ accepted \in Int /\ accepted + 1 \in Int
    BY SeqMonotonic, BoundsAssumption DEF Typed
  <1>2. queue' = Append(queue, accepted + 1) /\ accepted' = accepted + 1
    BY DEF Put
  <1>3. /\ queue' \in Seq(Int) /\ Len(queue') = Len(queue) + 1 /\ Len(queue) \in Nat
        /\ \A i \in 1..Len(queue) : queue'[i] = queue[i]
        /\ queue'[Len(queue) + 1] = accepted + 1
    BY <1>1, <1>2, AppendProperties, LenProperties
  <1>4. Taken' = Taken
    BY <1>1, <1>2, <1>3 DEF Taken
  <1>5. DOMAIN queue' = 1..(Len(queue) + 1) /\ DOMAIN queue = 1..Len(queue)
    BY <1>1, <1>3, LenProperties
  <1>6. accepted + 1 = Taken + (Len(queue) + 1)
    BY <1>1, <1>3 DEF Taken
  <1>7. ASSUME NEW i \in 1..(Len(queue) + 1)
        PROVE  queue'[i] = Taken + i
    <2>1. i \in 1..Len(queue) \/ i = Len(queue) + 1
      BY <1>3
    <2>2. QED
      BY <1>3, <1>5, <1>6, <2>1 DEF Queued
  <1>8. QED
    BY <1>4, <1>5, <1>7 DEF Queued

LEMMA CollectTakes ==
  ASSUME Typed, Queued, NEW w \in Workers, Collect(w)
  PROVE  /\ Queued'
         /\ \/ Taken' = Taken /\ batch' = batch /\ queue = <<>>
            \/ /\ Taken' = Taken + 1
               /\ batch' = [batch EXCEPT ![w] = Append(batch[w], Taken + 1)]
               /\ Taken + 1 \in 1..MaxEvents
  <1>1. accepted' = accepted
    BY CollectParts DEF producerVars
  <1>2. CASE queue = <<>> /\ queue' = queue /\ batch' = batch
    BY <1>1, <1>2 DEF Queued, Taken
  <1>3. CASE /\ queue # <<>> /\ queue' = Tail(queue)
             /\ batch' = [batch EXCEPT ![w] = Append(batch[w], Head(queue))]
    <2>1. queue \in Seq(1..MaxEvents)
      BY DEF Typed
    <2>2. /\ Len(queue) \in Nat /\ Len(queue) > 0 /\ Len(queue') = Len(queue) - 1
          /\ queue' \in Seq(1..MaxEvents)
          /\ \A i \in 1..Len(queue') : queue'[i] = queue[i + 1]
          /\ Head(queue) \in 1..MaxEvents
      <3>1. Len(queue) \in Nat \ {0}
        BY <1>3, <2>1, EmptySeq
      <3>2. /\ Len(queue') = Len(queue) - 1 /\ queue' \in Seq(1..MaxEvents)
            /\ \A i \in 1..Len(queue') : queue'[i] = queue[i + 1]
            /\ Head(queue) \in 1..MaxEvents
        BY <1>3, <2>1, HeadTailProperties
      <3>3. QED
        BY <3>1, <3>2
    <2>3. DOMAIN queue = 1..Len(queue) /\ DOMAIN queue' = 1..Len(queue')
      BY <2>1, <2>2, LenProperties
    <2>4. Taken' = Taken + 1 /\ Taken \in Int
      BY <1>1, <2>2, TakenType DEF Taken
    <2>5. Head(queue) = queue[1] /\ queue[1] = Taken + 1
      <3>1. 1 \in DOMAIN queue
        BY <2>2, <2>3
      <3>2. Head(queue) = queue[1]
        BY <1>3, <2>1
      <3>3. QED
        BY <3>1, <3>2 DEF Queued
    <2>6. ASSUME NEW i \in DOMAIN queue'
          PROVE  queue'[i] = Taken' + i
      <3>1. i + 1 \in DOMAIN queue /\ i \in Int /\ queue'[i] = queue[i + 1]
        BY <2>2, <2>3
      <3>2. queue[i + 1] = Taken + (i + 1)
        BY <3>1 DEF Queued
      <3>3. QED
        BY <2>4, <3>1, <3>2
    <2>7. Taken' >= 0
      BY <2>4 DEF Queued
    <2>8. QED
      BY <1>3, <2>2, <2>4, <2>5, <2>6, <2>7 DEF Queued
  <1>4. QED
    BY <1>2, <1>3, CollectParts

LEMMA RestTakes ==
  ASSUME queue' = queue, accepted' = accepted
  PROVE  Taken' = Taken /\ Queued' = Queued
  BY DEF Taken, Queued

LEMMA QueuedStep ==
  ASSUME Typed, Queued, [Next]_vars
  PROVE  Queued'
  <1>1. ASSUME NEW w \in Workers, Hand(w) \/ Account(w) PROVE Queued'
    BY <1>1, RestTakes DEF Hand, Account, producerVars
  <1>2. ASSUME NEW h \in Handlers, OnBatch(h) PROVE Queued'
    BY <1>2, RestTakes DEF OnBatch, producerVars
  <1>3. CASE Resting
    BY <1>3, RestTakes DEF Resting
  <1>4. QED
    BY <1>1, <1>2, <1>3, Moves, PutTakes, CollectTakes

-------------------------------------------------------------------------------
(* Who has which events *)

LEMMA HandParts ==
  ASSUME Typed, NEW w \in Workers, Hand(w)
  PROVE  /\ turn[w] \in Nat /\ turn[w] + 1 \in DOMAIN handlers /\ turn[w] + 1 \in Registrations
         /\ seen' = [seen EXCEPT ![turn[w] + 1] = seen[turn[w] + 1] \o batch[w]]
         /\ turn' = [turn EXCEPT ![w] = turn[w] + 1]
         /\ pc[w] \in {"dispatch", "last_dispatch"}
         /\ UNCHANGED <<queue, accepted, counting, stats, controlVars, pc, batch, loaded, elapsed>>
  <1>1. /\ turn[w] \in Nat /\ handlers \in Seq(Handlers) /\ turn[w] < Len(handlers)
        /\ Len(handlers) <= MaxHandlers /\ MaxHandlers \in Nat
    BY BoundsAssumption DEF Typed, Hand
  <1>2. Len(handlers) \in Nat /\ DOMAIN handlers = 1..Len(handlers)
    BY <1>1, LenProperties
  <1>3. turn[w] + 1 \in 1..Len(handlers)
    BY <1>1, <1>2
  <1>4. turn[w] + 1 \in Registrations
    BY <1>1, <1>2, <1>3 DEF Registrations
  <1>5. QED
    BY <1>1, <1>2, <1>3, <1>4 DEF Hand, Dispatching, producerVars

\* What a registration knows after a call is what it knew, or from the batch.
LEMMA HandedEvents ==
  ASSUME Typed, NEW w \in Workers, Hand(w), NEW g \in Registrations, NEW k \in DOMAIN seen'[g]
  PROVE  \/ k \in DOMAIN seen[g] /\ seen'[g][k] = seen[g][k]
         \/ /\ g = turn[w] + 1
            /\ \E i \in DOMAIN batch[w] : seen'[g][k] = batch[w][i]
  <1>1. seen \in [Registrations -> Seq(1..MaxEvents)] /\ batch[w] \in Seq(1..MaxEvents)
    BY DEF Typed
  <1>2. CASE g # turn[w] + 1
    BY <1>1, <1>2, HandParts
  <1>3. CASE g = turn[w] + 1
    <2>1. seen'[g] = seen[g] \o batch[w]
      BY <1>1, <1>3, HandParts
    <2>2. /\ Len(seen[g]) \in Nat /\ Len(batch[w]) \in Nat
          /\ DOMAIN seen[g] = 1..Len(seen[g]) /\ DOMAIN batch[w] = 1..Len(batch[w])
          /\ DOMAIN seen'[g] = 1..(Len(seen[g]) + Len(batch[w]))
      BY <1>1, <2>1, LenProperties, ConcatProperties
    <2>3. seen'[g][k] = IF k <= Len(seen[g]) THEN seen[g][k] ELSE batch[w][k - Len(seen[g])]
      BY <1>1, <2>1, <2>2, ConcatProperties
    <2>4. CASE k <= Len(seen[g])
      BY <2>2, <2>3, <2>4
    <2>5. CASE ~(k <= Len(seen[g]))
      <3>1. k - Len(seen[g]) \in DOMAIN batch[w]
        <4> DEFINE m == Len(seen[g])
                   n == Len(batch[w])
        <4>1. m \in Nat /\ n \in Nat /\ k \in 1..(m + n) /\ ~(k <= m)
          BY <2>2, <2>5
        <4> HIDE DEF m, n
        <4>2. k - m \in 1..n
          BY <4>1
        <4>3. QED
          BY <2>2, <4>2 DEF m, n
      <3>2. QED
        BY <1>3, <2>3, <2>5, <3>1
    <2>6. QED
      BY <2>4, <2>5
  <1>4. QED
    BY <1>2, <1>3

LEMMA AccountParts ==
  ASSUME Typed, NEW w \in Workers, Account(w)
  PROVE  /\ batch' = [batch EXCEPT ![w] = <<>>] /\ turn' = [turn EXCEPT ![w] = 0]
         /\ loaded' = [loaded EXCEPT ![w] = 0]
         /\ \/ pc[w] = "account" /\ pc' = [pc EXCEPT ![w] = "test"]
            \/ pc[w] = "last_account" /\ pc' = [pc EXCEPT ![w] = "exited"]
         /\ stats'.processed = loaded[w] + Len(batch[w]) /\ stats'.received = stats.received
         /\ UNCHANGED <<queue, accepted, counting, controlVars, elapsed, seen>>
  BY DEF Account, Goto, producerVars, Typed

\* A batch grows by the event taken, at its end.
LEMMA BatchGrows ==
  ASSUME Typed, NEW w \in Workers, Taken + 1 \in 1..MaxEvents,
         batch' = [batch EXCEPT ![w] = Append(batch[w], Taken + 1)]
  PROVE  /\ \A v \in Workers : v # w => batch'[v] = batch[v]
         /\ Len(batch[w]) \in Nat /\ DOMAIN batch[w] = 1..Len(batch[w])
         /\ Len(batch'[w]) = Len(batch[w]) + 1 /\ DOMAIN batch'[w] = 1..(Len(batch[w]) + 1)
         /\ \A i \in 1..Len(batch[w]) : batch'[w][i] = batch[w][i]
         /\ batch'[w][Len(batch[w]) + 1] = Taken + 1
         /\ batch'[w] # <<>>
         /\ \A v \in Workers : \A i \in DOMAIN batch'[v] :
              \/ i \in DOMAIN batch[v] /\ batch'[v][i] = batch[v][i]
              \/ v = w /\ batch'[v][i] = Taken + 1 /\ i = Len(batch[w]) + 1
  <1>1. batch \in [Workers -> Seq(1..MaxEvents)] /\ batch[w] \in Seq(1..MaxEvents)
    BY DEF Typed
  <1>2. batch'[w] = Append(batch[w], Taken + 1) /\ \A v \in Workers : v # w => batch'[v] = batch[v]
    BY <1>1
  <1>3. /\ Append(batch[w], Taken + 1) \in Seq(1..MaxEvents)
        /\ Append(batch[w], Taken + 1) # <<>>
        /\ Len(Append(batch[w], Taken + 1)) = Len(batch[w]) + 1
        /\ \A i \in 1..Len(batch[w]) : Append(batch[w], Taken + 1)[i] = batch[w][i]
        /\ Append(batch[w], Taken + 1)[Len(batch[w]) + 1] = Taken + 1
    BY <1>1, AppendProperties
  <1>4. /\ Len(batch[w]) \in Nat /\ DOMAIN batch[w] = 1..Len(batch[w])
        /\ DOMAIN batch'[w] = 1..(Len(batch[w]) + 1)
    BY <1>1, <1>2, <1>3, LenProperties
  <1>5. ASSUME NEW v \in Workers, NEW i \in DOMAIN batch'[v]
        PROVE  \/ i \in DOMAIN batch[v] /\ batch'[v][i] = batch[v][i]
               \/ v = w /\ batch'[v][i] = Taken + 1 /\ i = Len(batch[w]) + 1
    <2>1. v = w => i \in 1..Len(batch[w]) \/ i = Len(batch[w]) + 1
      BY <1>4
    <2>2. QED
      BY <1>2, <1>3, <1>4, <2>1
  <1>6. QED
    BY <1>2, <1>3, <1>4, <1>5

LEMMA PassedStep ==
  ASSUME Typed, Queued, Passed, [Next]_vars
  PROVE  Passed'
  <1>1. Taken \in Int
    BY TakenType
  <1>2. ASSUME Taken' = Taken, batch' = batch, seen' = seen
        PROVE  Passed'
    BY <1>2 DEF Passed
  <1>3. ASSUME NEW p \in Producers, Put(p) PROVE Passed'
    BY <1>2, <1>3, PutTakes DEF Put, workerVars
  <1>4. ASSUME NEW w \in Workers, Collect(w) PROVE Passed'
    <2>1. seen' = seen
      BY <1>4, CollectParts
    <2>2. CASE Taken' = Taken /\ batch' = batch
      BY <1>2, <2>1, <2>2
    <2>3. CASE /\ Taken' = Taken + 1 /\ Taken + 1 \in 1..MaxEvents
               /\ batch' = [batch EXCEPT ![w] = Append(batch[w], Taken + 1)]
      <3>1. ASSUME NEW v \in Workers, NEW i \in DOMAIN batch'[v]
            PROVE  batch'[v][i] <= Taken'
        <4>1. \/ i \in DOMAIN batch[v] /\ batch'[v][i] = batch[v][i]
              \/ batch'[v][i] = Taken + 1
          BY <2>3, BatchGrows
        <4>2. i \in DOMAIN batch[v] => batch[v][i] \in Int /\ batch[v][i] <= Taken
          <5>1. batch[v] \in Seq(1..MaxEvents)
            BY DEF Typed
          <5>2. i \in DOMAIN batch[v] => batch[v][i] \in 1..MaxEvents
            BY <5>1, LenProperties, ElementOfSeq
          <5>3. QED
            BY <5>2 DEF Passed
        <4>3. QED
          BY <1>1, <2>3, <4>1, <4>2
      <3>2. ASSUME NEW h \in Registrations, NEW i \in DOMAIN seen'[h]
            PROVE  seen'[h][i] <= Taken'
        <4>1. seen[h] \in Seq(1..MaxEvents)
          BY DEF Typed
        <4>2. seen[h][i] \in 1..MaxEvents /\ seen[h][i] <= Taken
          BY <2>1, <4>1, LenProperties, ElementOfSeq DEF Passed
        <4>3. QED
          BY <1>1, <2>1, <2>3, <4>2
      <3>3. QED
        BY <3>1, <3>2 DEF Passed
    <2>4. QED
      BY <1>4, <2>2, <2>3, CollectTakes
  <1>5. ASSUME NEW w \in Workers, Hand(w) PROVE Passed'
    <2>1. batch' = batch /\ Taken' = Taken
      BY <1>5, HandParts, RestTakes
    <2>2. ASSUME NEW h \in Registrations, NEW k \in DOMAIN seen'[h]
          PROVE  seen'[h][k] <= Taken
      BY <1>5, HandedEvents DEF Passed
    <2>3. QED
      BY <2>1, <2>2 DEF Passed
  <1>6. ASSUME NEW w \in Workers, Account(w) PROVE Passed'
    <2>1. seen' = seen /\ Taken' = Taken /\ batch' = [batch EXCEPT ![w] = <<>>]
      BY <1>6, AccountParts, RestTakes
    <2>2. \A v \in Workers : batch'[v] = batch[v] \/ batch'[v] = <<>>
      BY <2>1 DEF Typed
    <2>3. QED
      BY <2>1, <2>2 DEF Passed
  <1>7. ASSUME NEW h \in Handlers, OnBatch(h) PROVE Passed'
    BY <1>2, <1>7, RestTakes DEF OnBatch, producerVars, workerVars
  <1>8. CASE Resting
    BY <1>2, <1>8, RestTakes DEF Resting
  <1>9. QED
    BY <1>3, <1>4, <1>5, <1>6, <1>7, <1>8, Moves

LEMMA ApartStep ==
  ASSUME Typed, Queued, Passed, Apart, [Next]_vars
  PROVE  Apart'
  <1>1. CASE batch' = batch
    BY <1>1 DEF Apart
  <1>2. ASSUME NEW w \in Workers, Taken + 1 \in 1..MaxEvents,
               batch' = [batch EXCEPT ![w] = Append(batch[w], Taken + 1)]
        PROVE  Apart'
    <2>1. \A v \in Workers : \A i \in DOMAIN batch[v] : batch[v][i] # Taken + 1
      <3> SUFFICES ASSUME NEW v \in Workers, NEW i \in DOMAIN batch[v]
                   PROVE  batch[v][i] # Taken + 1
        OBVIOUS
      <3>1. batch[v][i] \in 1..MaxEvents
        BY LenProperties, ElementOfSeq DEF Typed
      <3>2. batch[v][i] <= Taken /\ Taken \in Int
        BY TakenType DEF Passed
      <3>3. QED
        BY <3>1, <3>2
    <2>2. ASSUME NEW u \in Workers, NEW v \in Workers,
                 NEW i \in DOMAIN batch'[u], NEW j \in DOMAIN batch'[v],
                 batch'[u][i] = batch'[v][j]
          PROVE  u = v /\ i = j
      <3>1. /\ \/ i \in DOMAIN batch[u] /\ batch'[u][i] = batch[u][i]
               \/ u = w /\ batch'[u][i] = Taken + 1 /\ i = Len(batch[w]) + 1
            /\ \/ j \in DOMAIN batch[v] /\ batch'[v][j] = batch[v][j]
               \/ v = w /\ batch'[v][j] = Taken + 1 /\ j = Len(batch[w]) + 1
        BY <1>2, BatchGrows
      <3>2. QED
        BY <2>1, <2>2, <3>1 DEF Apart
    <2>3. QED
      BY <2>2 DEF Apart
  <1>3. ASSUME NEW w \in Workers, Collect(w) PROVE Apart'
    BY <1>1, <1>2, <1>3, CollectTakes
  <1>4. ASSUME NEW w \in Workers, Account(w) PROVE Apart'
    <2>1. \A v \in Workers : batch'[v] = batch[v] \/ batch'[v] = <<>>
      BY <1>4, AccountParts DEF Typed
    <2>2. QED
      BY <2>1 DEF Apart
  <1>5. ASSUME NEW p \in Producers, Put(p) PROVE batch' = batch
    BY <1>5 DEF Put, workerVars
  <1>6. ASSUME NEW h \in Handlers, OnBatch(h) PROVE batch' = batch
    BY <1>6 DEF OnBatch, workerVars
  <1>7. ASSUME NEW w \in Workers, Hand(w) PROVE batch' = batch
    BY <1>7, HandParts
  <1>8. QED
    BY <1>1, <1>3, <1>4, <1>5, <1>6, <1>7, Moves DEF Resting

\* A registration takes the next place, which has been given nothing.
LEMMA OnBatchParts ==
  ASSUME Typed, NEW h \in Handlers, OnBatch(h)
  PROVE  /\ handlers' = Append(handlers, h)
         /\ Len(handlers) \in Nat /\ Len(handlers') = Len(handlers) + 1
         /\ DOMAIN handlers = 1..Len(handlers) /\ DOMAIN handlers' = 1..(Len(handlers) + 1)
         /\ \A j \in DOMAIN handlers : handlers'[j] = handlers[j]
         /\ Len(handlers) + 1 \in Registrations /\ Len(handlers) + 1 \notin DOMAIN handlers
         /\ \A j \in DOMAIN handlers' : j \in DOMAIN handlers \/ j = Len(handlers) + 1
         /\ UNCHANGED <<queue, stats, producerVars, workerVars, stopEvent, worker, joining, overlapped>>
  <1>1. handlers \in Seq(Handlers) /\ handlers' = Append(handlers, h)
    BY DEF Typed, OnBatch
  <1>2. /\ Len(handlers) \in Nat /\ Len(handlers') = Len(handlers) + 1
        /\ DOMAIN handlers = 1..Len(handlers) /\ DOMAIN handlers' = 1..(Len(handlers) + 1)
        /\ \A j \in DOMAIN handlers : handlers'[j] = handlers[j]
    BY <1>1, LenProperties, AppendProperties
  <1>3. /\ \A j \in DOMAIN handlers' : j \in DOMAIN handlers \/ j = Len(handlers) + 1
        /\ Len(handlers) + 1 \in Registrations /\ Len(handlers) + 1 \notin DOMAIN handlers
    <2>1. Len(handlers) < MaxHandlers /\ MaxHandlers \in Nat
      BY BoundsAssumption DEF OnBatch
    <2>2. QED
      BY <1>2, <2>1 DEF Registrations
  <1>4. QED
    BY <1>1, <1>2, <1>3 DEF OnBatch

LEMMA PlacesAreRegistrations ==
  ASSUME Typed
  PROVE  \A j \in DOMAIN handlers : j \in Registrations /\ j \in Nat
  <1>1. /\ Len(handlers) \in Nat /\ DOMAIN handlers = 1..Len(handlers)
        /\ Len(handlers) <= MaxHandlers /\ MaxHandlers \in Nat
    BY LenProperties, BoundsAssumption DEF Typed
  <1>2. QED
    BY <1>1 DEF Registrations

LEMMA RegisteredStep ==
  ASSUME Typed, Registered, [Next]_vars
  PROVE  Registered'
  <1>1. CASE UNCHANGED <<handlers, seen, turn>>
    BY <1>1 DEF Registered
  <1>2. ASSUME NEW w \in Workers, Hand(w) PROVE Registered'
    <2>1. handlers' = handlers /\ turn[w] + 1 \in DOMAIN handlers /\ turn[w] \in Nat
      BY <1>2, HandParts DEF controlVars
    <2>2. \A g \in Registrations : seen'[g] # <<>> => seen[g] # <<>> \/ g = turn[w] + 1
      BY <1>2, HandParts DEF Typed
    <2>3. \A g \in Registrations : seen'[g] # <<>> => g \in DOMAIN handlers
      BY <2>1, <2>2 DEF Registered
    <2>4. turn[w] + 1 <= Len(handlers)
      BY <2>1, LenProperties DEF Typed
    <2>5. \A v \in Workers : turn'[v] <= Len(handlers)
      <3>1. \A v \in Workers : turn'[v] = turn[v] \/ turn'[v] = turn[w] + 1
        <4>1. turn' = [turn EXCEPT ![w] = turn[w] + 1] /\ turn \in [Workers -> Nat]
          BY <1>2, HandParts DEF Typed
        <4>2. QED
          BY <4>1
      <3>2. QED
        BY <2>4, <3>1 DEF Registered
    <2>6. QED
      BY <2>1, <2>3, <2>5 DEF Registered
  <1>3. ASSUME NEW w \in Workers, Account(w) PROVE Registered'
    <2>1. \A v \in Workers : turn'[v] = turn[v] \/ turn'[v] = 0
      BY <1>3, AccountParts DEF Typed
    <2>2. Len(handlers) >= 0
      BY LenProperties DEF Typed
    <2>3. QED
      BY <1>3, <2>1, <2>2, AccountParts DEF Registered, controlVars
  <1>4. ASSUME NEW h \in Handlers, OnBatch(h) PROVE Registered'
    <2>1. \A g \in Registrations : seen'[g] # <<>> => g \in DOMAIN handlers'
      <3>1. seen' = seen
        BY <1>4, OnBatchParts DEF workerVars
      <3>2. \A i \in DOMAIN handlers : i \in DOMAIN handlers'
        BY <1>4, OnBatchParts
      <3>3. QED
        BY <3>1, <3>2 DEF Registered
    <2>2. \A v \in Workers : turn'[v] <= Len(handlers')
      <3>1. turn' = turn
        BY <1>4, OnBatchParts DEF workerVars
      <3>2. \A v \in Workers : turn[v] \in Nat
        BY DEF Typed
      <3>3. QED
        BY <1>4, <3>1, <3>2, OnBatchParts DEF Registered
    <2>3. QED
      BY <2>1, <2>2 DEF Registered
  <1>5. ASSUME NEW p \in Producers, Put(p) PROVE Registered'
    BY <1>1, <1>5 DEF Put, workerVars, controlVars
  <1>6. ASSUME NEW w \in Workers, Collect(w) PROVE Registered'
    BY <1>1, <1>6, CollectParts DEF controlVars
  <1>7. QED
    BY <1>1, <1>2, <1>3, <1>4, <1>5, <1>6, Moves DEF Resting

LEMMA UnseenStep ==
  ASSUME Typed, Queued, Passed, Apart, Registered, Unseen, [Next]_vars
  PROVE  Unseen'
  <1>1. CASE UNCHANGED <<batch, seen, turn, handlers>>
    BY <1>1 DEF Unseen
  <1>2. ASSUME NEW w \in Workers, Collect(w) PROVE Unseen'
    <2>1. UNCHANGED <<seen, turn, handlers>>
      BY <1>2, CollectParts DEF controlVars
    <2>2. CASE batch' = batch
      BY <1>1, <2>1, <2>2
    <2>3. CASE /\ Taken + 1 \in 1..MaxEvents
               /\ batch' = [batch EXCEPT ![w] = Append(batch[w], Taken + 1)]
      <3> SUFFICES ASSUME NEW v \in Workers, NEW j \in DOMAIN handlers, j > turn[v],
                          NEW i \in DOMAIN batch'[v], NEW k \in DOMAIN seen[j]
                   PROVE  batch'[v][i] # seen[j][k]
        BY <2>1 DEF Unseen
      <3>1. \/ i \in DOMAIN batch[v] /\ batch'[v][i] = batch[v][i]
            \/ batch'[v][i] = Taken + 1
        BY <2>3, BatchGrows
      <3>2. j \in Registrations
        BY PlacesAreRegistrations
      <3>3. seen[j][k] \in 1..MaxEvents
        BY <3>2, LenProperties, ElementOfSeq DEF Typed
      <3>4. seen[j][k] <= Taken /\ Taken \in Int
        BY <3>2, TakenType DEF Passed
      <3>5. seen[j][k] # Taken + 1
        BY <3>3, <3>4
      <3>6. QED
        BY <3>1, <3>5 DEF Unseen
    <2>4. QED
      BY <1>2, <2>2, <2>3, CollectTakes
  <1>3. ASSUME NEW w \in Workers, Hand(w) PROVE Unseen'
    <2>1. /\ batch' = batch /\ handlers' = handlers /\ turn' = [turn EXCEPT ![w] = turn[w] + 1]
          /\ turn[w] + 1 \in DOMAIN handlers
      BY <1>3, HandParts DEF controlVars
    <2> SUFFICES ASSUME NEW v \in Workers, NEW j \in DOMAIN handlers, j > turn'[v],
                        NEW i \in DOMAIN batch[v], NEW k \in DOMAIN seen'[j]
                 PROVE  batch[v][i] # seen'[j][k]
      BY <2>1 DEF Unseen
    <2>2. j \in Registrations /\ j \in Nat /\ turn[v] \in Nat /\ turn[w] \in Nat
      BY PlacesAreRegistrations DEF Typed
    <2>3. turn'[v] = IF v = w THEN turn[w] + 1 ELSE turn[v]
      BY <2>1 DEF Typed
    <2>4. j > turn[v]
      BY <2>2, <2>3
    <2>5. CASE k \in DOMAIN seen[j] /\ seen'[j][k] = seen[j][k]
      BY <2>4, <2>5 DEF Unseen
    <2>6. CASE /\ j = turn[w] + 1
               /\ \E l \in DOMAIN batch[w] : seen'[j][k] = batch[w][l]
      <3>1. v # w
        BY <2>2, <2>3, <2>6
      <3>2. QED
        BY <2>6, <3>1 DEF Apart
    <2>7. QED
      BY <1>3, <2>2, <2>5, <2>6, HandedEvents
  <1>4. ASSUME NEW w \in Workers, Account(w) PROVE Unseen'
    <2>1. /\ seen' = seen /\ handlers' = handlers
          /\ \A v \in Workers : \/ batch'[v] = batch[v] /\ turn'[v] = turn[v]
                               \/ batch'[v] = <<>>
      BY <1>4, AccountParts DEF Typed, controlVars
    <2>2. QED
      BY <2>1 DEF Unseen
  <1>5. ASSUME NEW h \in Handlers, OnBatch(h) PROVE Unseen'
    <2>1. UNCHANGED <<seen, batch, turn>>
      BY <1>5, OnBatchParts DEF workerVars
    <2>2. seen[Len(handlers) + 1] = <<>>
      BY <1>5, OnBatchParts DEF Registered
    <2> SUFFICES ASSUME NEW v \in Workers, NEW j \in DOMAIN handlers', j > turn[v],
                        NEW i \in DOMAIN batch[v], NEW k \in DOMAIN seen[j]
                 PROVE  batch[v][i] # seen[j][k]
      BY <2>1 DEF Unseen
    <2>3. CASE j \in DOMAIN handlers
      BY <1>5, <2>3, OnBatchParts DEF Unseen
    <2>4. CASE j = Len(handlers) + 1
      <3>1. k \in DOMAIN <<>>
        BY <2>2, <2>4
      <3>2. QED
        BY <3>1
    <2>5. QED
      BY <1>5, <2>3, <2>4, OnBatchParts
  <1>6. ASSUME NEW p \in Producers, Put(p) PROVE Unseen'
    BY <1>1, <1>6 DEF Put, workerVars, controlVars
  <1>7. QED
    BY <1>1, <1>2, <1>3, <1>4, <1>5, <1>6, Moves DEF Resting

-------------------------------------------------------------------------------
(* Where the workers are *)

LEMMA WorkerNumbers == \A w \in Workers : w \in Nat
  <1> DEFINE n == Cardinality(Workers)
  <1>1. Workers = 1..n /\ n \in Nat
    BY WorkersAssumption, FS_CardinalityType
  <1> HIDE DEF n
  <1>2. QED
    BY <1>1

LEMMA LocalStep ==
  ASSUME Typed, Queued, Local, [Next]_vars
  PROVE  Local'
  <1> DEFINE Place(w) ==
        /\ pc[w] = "new" <=> w > worker
        /\ pc[w] \in {"new", "exited"} => batch[w] = <<>>
        /\ pc[w] \notin Busy => turn[w] = 0
        /\ pc[w] \in {"test", "get"} => Len(batch[w]) < BatchSize
        /\ pc[w] \in Busy => batch[w] # <<>> /\ Len(batch[w]) <= BatchSize
  <1>1. Local <=> \A w \in Workers : Place(w)
    BY DEF Local
  <1>2. Local' <=> \A w \in Workers : Place(w)'
    BY DEF Local
  <1>3. ASSUME NEW w \in Workers, worker' = worker,
               \A v \in Workers : v # w => pc'[v] = pc[v] /\ batch'[v] = batch[v] /\ turn'[v] = turn[v],
               Place(w)'
        PROVE  Local'
    <2>1. \A v \in Workers : v # w => Place(v)'
      BY <1>1, <1>3
    <2>2. QED
      BY <1>2, <1>3, <2>1
  <1>4. CASE UNCHANGED <<pc, batch, turn, worker>>
    BY <1>4 DEF Local
  <1>5. BatchSize \in Nat /\ BatchSize > 0 /\ Len(<<>>) = 0
    BY SizeAssumption
  <1>6. \A w \in Workers : Len(batch[w]) \in Nat
    BY LenProperties DEF Typed
  <1>7. ASSUME NEW w \in Workers, Test(w) PROVE Local'
    <2>1. /\ pc[w] = "test" /\ UNCHANGED <<batch, turn, worker>>
          /\ pc' = [pc EXCEPT ![w] = IF ~stopEvent THEN "get"
                                     ELSE IF batch[w] # <<>> THEN "last_dispatch" ELSE "exited"]
      BY <1>7 DEF Test, Goto, controlVars
    <2>2. /\ pc'[w] = "get" \/ (pc'[w] = "last_dispatch" /\ batch[w] # <<>>)
                           \/ (pc'[w] = "exited" /\ batch[w] = <<>>)
          /\ \A v \in Workers : v # w => pc'[v] = pc[v]
      BY <2>1 DEF Typed
    <2>3. Place(w)'
      BY <1>1, <1>5, <1>6, <2>1, <2>2 DEF Busy
    <2>4. QED
      BY <1>3, <2>1, <2>2, <2>3
  <1>8. ASSUME NEW w \in Workers, Collect(w) PROVE Local'
    <2>1. /\ pc[w] = "get" /\ UNCHANGED <<turn, worker>>
          /\ \/ pc'[w] = "dispatch" /\ batch'[w] # <<>>
             \/ pc'[w] = "test" /\ Len(batch'[w]) < BatchSize
          /\ \A v \in Workers : v # w => pc'[v] = pc[v]
      BY <1>8, CollectParts DEF controlVars, Typed
    <2>2. /\ \A v \in Workers : v # w => batch'[v] = batch[v]
          /\ Len(batch'[w]) <= Len(batch[w]) + 1
      <3>1. CASE batch' = batch
        BY <1>6, <3>1
      <3>2. CASE Taken + 1 \in 1..MaxEvents /\ batch' = [batch EXCEPT ![w] = Append(batch[w], Taken + 1)]
        BY <1>6, <3>2, BatchGrows
      <3>3. QED
        BY <1>8, <3>1, <3>2, CollectTakes
    <2>3. Len(batch'[w]) \in Nat
      BY TypedStep, LenProperties DEF Typed
    <2>4. Len(batch[w]) < BatchSize /\ turn[w] = 0 /\ ~(w > worker)
      BY <1>1, <2>1 DEF Busy
    <2>5. Len(batch'[w]) <= BatchSize
      BY <1>5, <1>6, <2>2, <2>3, <2>4
    <2>6. Place(w)'
      BY <2>1, <2>4, <2>5 DEF Busy
    <2>7. QED
      BY <1>3, <2>1, <2>2, <2>6
  <1>9. ASSUME NEW w \in Workers, Hand(w) PROVE Local'
    <2>1. /\ pc[w] \in {"dispatch", "last_dispatch"} /\ UNCHANGED <<pc, batch, worker>>
          /\ \A v \in Workers : v # w => turn'[v] = turn[v]
      BY <1>9, HandParts DEF controlVars, Typed
    <2>2. Place(w)'
      BY <1>1, <2>1 DEF Busy
    <2>3. QED
      BY <1>3, <2>1, <2>2
  <1>10. ASSUME NEW w \in Workers, LoadProcessed(w) PROVE Local'
    <2>1. /\ pc[w] \in {"dispatch", "last_dispatch"} /\ UNCHANGED <<turn, batch, worker>>
          /\ pc'[w] \in {"account", "last_account"}
          /\ \A v \in Workers : v # w => pc'[v] = pc[v]
      BY <1>10 DEF LoadProcessed, Dispatching, Goto, controlVars, Typed
    <2>2. Place(w)'
      BY <1>1, <2>1 DEF Busy
    <2>3. QED
      BY <1>3, <2>1, <2>2
  <1>11. ASSUME NEW w \in Workers, Account(w) PROVE Local'
    <2>1. /\ pc[w] \in {"account", "last_account"} /\ pc'[w] \in {"test", "exited"}
          /\ batch'[w] = <<>> /\ turn'[w] = 0 /\ worker' = worker
          /\ \A v \in Workers : v # w => pc'[v] = pc[v] /\ batch'[v] = batch[v] /\ turn'[v] = turn[v]
      BY <1>11, AccountParts DEF controlVars, Typed
    <2>2. Place(w)'
      BY <1>1, <1>5, <2>1 DEF Busy
    <2>3. QED
      BY <1>3, <2>1, <2>2
  <1>12. CASE Start
    <2>1. PICK n \in Workers : n = worker + 1
      BY <1>12 DEF Start
    <2>2. /\ worker' = n /\ UNCHANGED <<batch, turn>>
          /\ pc'[n] = "test" /\ \A v \in Workers : v # n => pc'[v] = pc[v]
      BY <1>12, <2>1 DEF Start, Typed
    <2>3. worker \in Nat /\ \A v \in Workers : v \in Nat
      BY WorkerNumbers DEF Typed
    <2>4. pc[n] = "new"
      BY <1>1, <2>1, <2>3
    <2>5. batch[n] = <<>> /\ turn[n] = 0
      BY <1>1, <2>4 DEF Busy
    <2>6. Place(n)'
      BY <1>5, <2>1, <2>2, <2>3, <2>5 DEF Busy
    <2>7. ASSUME NEW v \in Workers, v # n
          PROVE  Place(v)'
      <3>1. v > worker <=> v > n
        BY <2>1, <2>3, <2>7
      <3>2. QED
        BY <1>1, <2>2, <2>7, <3>1
    <2>8. QED
      BY <1>2, <2>6, <2>7
  <1>13. ASSUME NEW p \in Producers, Put(p) \/ CountReceived(p) \/ Drop(p)
         PROVE  Local'
    BY <1>4, <1>13 DEF Put, CountReceived, Drop, workerVars, controlVars
  <1>14. ASSUME NEW h \in Handlers, OnBatch(h) PROVE Local'
    BY <1>4, <1>14 DEF OnBatch, workerVars
  <1>15. CASE Stop \/ StopReturns \/ Tick
    BY <1>4, <1>15 DEF Stop, StopReturns, Tick, workerVars, controlVars
  <1>16. CASE UNCHANGED vars
    BY <1>4, <1>16 DEF vars
  <1>17. QED
    BY <1>7, <1>8, <1>9, <1>10, <1>11, <1>12, <1>13, <1>14, <1>15, <1>16 DEF Next, Work

\* Without overlap there is one worker alive at most: the others have nothing.
LEMMA OneAlive ==
  ASSUME Local, Single, ~overlapped, NEW w \in Workers, Alive(w),
         NEW v \in Workers, v # w
  PROVE  ~Alive(v) /\ batch[v] = <<>> /\ turn[v] = 0
  <1>1. ~Alive(v)
    BY DEF Single
  <1>2. QED
    BY <1>1 DEF Alive, Local, Busy

LEMMA SingleStep ==
  ASSUME Typed, Local, Single, [Next]_vars
  PROVE  Single'
  <1>1. ASSUME overlapped' = overlapped, stats'.processed = stats.processed,
               \A v \in Workers : Alive(v)' => Alive(v),
               \A v \in Workers : pc'[v] \in Accounting =>
                 loaded'[v] = stats.processed \/ (loaded'[v] = loaded[v] /\ pc[v] \in Accounting)
        PROVE  Single'
    BY <1>1 DEF Single
  <1>2. CASE UNCHANGED <<overlapped, pc, loaded>> /\ stats'.processed = stats.processed
    BY <1>1, <1>2 DEF Alive
  <1>3. ASSUME NEW w \in Workers, Test(w) \/ Collect(w) PROVE Single'
    <2>1. /\ UNCHANGED <<overlapped, loaded, stats>>
          /\ Alive(w) /\ pc'[w] \notin Accounting
          /\ \A v \in Workers : v # w => pc'[v] = pc[v]
      <3>1. CASE Test(w)
        BY <3>1 DEF Test, Goto, Alive, Accounting, Typed, controlVars
      <3>2. CASE Collect(w)
        BY <3>2, CollectParts DEF Alive, Accounting, Typed, controlVars
      <3>3. QED
        BY <1>3, <3>1, <3>2
    <2>2. QED
      BY <1>1, <2>1 DEF Alive
  <1>4. ASSUME NEW w \in Workers, Hand(w) PROVE Single'
    BY <1>2, <1>4, HandParts DEF controlVars
  <1>5. ASSUME NEW w \in Workers, LoadProcessed(w) PROVE Single'
    <2>1. /\ UNCHANGED <<overlapped, stats>> /\ Alive(w) /\ loaded'[w] = stats.processed
          /\ \A v \in Workers : v # w => pc'[v] = pc[v] /\ loaded'[v] = loaded[v]
      BY <1>5 DEF LoadProcessed, Dispatching, Goto, Alive, Typed, controlVars
    <2>2. QED
      BY <1>1, <2>1 DEF Alive
  <1>6. ASSUME NEW w \in Workers, Account(w) PROVE Single'
    <2>1. /\ overlapped' = overlapped /\ Alive(w) /\ pc'[w] \notin Accounting
          /\ \A v \in Workers : v # w => pc'[v] = pc[v]
      BY <1>6, AccountParts DEF Alive, Accounting, Typed, controlVars
    <2> SUFFICES ASSUME ~overlapped
                 PROVE  /\ \A u, v \in Workers : Alive(u)' /\ Alive(v)' => u = v
                        /\ \A v \in Workers : pc'[v] \notin Accounting
      BY <2>1 DEF Single
    <2>2. \A v \in Workers : v # w => ~Alive(v)
      BY <2>1, OneAlive
    <2>3. \A v \in Workers : v # w => ~Alive(v)' /\ pc'[v] \notin Accounting
      BY <2>1, <2>2 DEF Alive, Accounting
    <2>4. QED
      BY <2>1, <2>3
  <1>7. CASE Start
    <2>1. PICK n \in Workers : n = worker + 1
      BY <1>7 DEF Start
    <2>2. /\ pc'[n] = "test" /\ \A v \in Workers : v # n => pc'[v] = pc[v]
          /\ ~overlapped' => \A v \in Workers : ~Alive(v)
      BY <1>7, <2>1 DEF Start, Typed
    <2>3. ~overlapped' => \A v \in Workers : v # n => ~Alive(v)' /\ pc'[v] \notin Accounting
      BY <2>2 DEF Alive, Accounting
    <2>4. pc'[n] \notin Accounting
      BY <2>2 DEF Accounting
    <2>5. QED
      BY <2>3, <2>4 DEF Single
  <1>8. ASSUME NEW p \in Producers, Put(p) PROVE Single'
    BY <1>2, <1>8 DEF Put, workerVars, controlVars
  <1>9. ASSUME NEW p \in Producers, CountReceived(p) \/ Drop(p) PROVE Single'
    BY <1>2, <1>9 DEF CountReceived, Drop, workerVars, controlVars, Typed
  <1>10. ASSUME NEW h \in Handlers, OnBatch(h) PROVE Single'
    BY <1>2, <1>10 DEF OnBatch, workerVars
  <1>11. CASE Stop \/ StopReturns \/ Tick
    BY <1>2, <1>11 DEF Stop, StopReturns, Tick, workerVars, controlVars
  <1>12. CASE UNCHANGED vars
    BY <1>2, <1>12 DEF vars
  <1>13. QED
    BY <1>3, <1>4, <1>5, <1>6, <1>7, <1>8, <1>9, <1>10, <1>11, <1>12 DEF Next, Work

-------------------------------------------------------------------------------
(* The counters *)

Held == UNION {{w} \X DOMAIN batch[w] : w \in Workers}

LEMMA HeldPairs ==
  /\ \A x : x \in Held <=> \E w \in Workers : \E i \in DOMAIN batch[w] : x = <<w, i>>
  /\ \A w \in Workers : \A i : <<w, i>> \in Held <=> i \in DOMAIN batch[w]
  <1>1. ASSUME NEW x
        PROVE  x \in Held <=> \E w \in Workers : \E i \in DOMAIN batch[w] : x = <<w, i>>
    BY DEF Held
  <1>2. QED
    BY <1>1

LEMMA HeldFinite ==
  ASSUME Typed, Local
  PROVE  IsFiniteSet(Held) /\ InBatches \in Nat
  <1>1. BatchSize \in Nat
    BY SizeAssumption
  <1>2. IsFiniteSet(Workers \X (1..BatchSize))
    <2>1. IsFiniteSet(Workers)
      BY WorkersAssumption
    <2>2. IsFiniteSet(1..BatchSize)
      BY <1>1, FS_Interval
    <2>3. QED
      BY <2>1, <2>2, FS_Product
  <1>3. ASSUME NEW w \in Workers, NEW i \in DOMAIN batch[w]
        PROVE  i \in 1..BatchSize
    <2>1. Len(batch[w]) \in Nat /\ DOMAIN batch[w] = 1..Len(batch[w])
      BY LenProperties DEF Typed
    <2>2. Len(batch[w]) <= BatchSize
      <3>1. pc[w] \in {"new", "exited"} \union {"test", "get"} \union Busy
        BY DEF Typed, Labels, Busy
      <3>2. CASE pc[w] \in {"new", "exited"}
        BY <1>1, <3>2 DEF Local
      <3>3. CASE pc[w] \in {"test", "get"}
        BY <1>1, <2>1, <3>3 DEF Local
      <3>4. CASE pc[w] \in Busy
        BY <3>4 DEF Local
      <3>5. QED
        BY <3>1, <3>2, <3>3, <3>4
    <2>3. QED
      BY <1>1, <2>1, <2>2
  <1>4. Held \subseteq Workers \X (1..BatchSize)
    BY <1>3, HeldPairs
  <1>5. IsFiniteSet(Held)
    BY <1>2, <1>4, FS_Subset
  <1>6. InBatches = Cardinality(Held)
    BY DEF InBatches, Held
  <1>7. QED
    BY <1>5, <1>6, FS_CardinalityType

\* An event taken is one more in a worker's hands.
LEMMA HeldGrows ==
  ASSUME Typed, Local, NEW w \in Workers, Taken + 1 \in 1..MaxEvents,
         batch' = [batch EXCEPT ![w] = Append(batch[w], Taken + 1)]
  PROVE  InBatches' = InBatches + 1
  <1> DEFINE new == <<w, Len(batch[w]) + 1>>
  <1>1. /\ Len(batch[w]) \in Nat /\ DOMAIN batch[w] = 1..Len(batch[w])
        /\ DOMAIN batch'[w] = 1..(Len(batch[w]) + 1)
        /\ \A v \in Workers : v # w => batch'[v] = batch[v]
    BY BatchGrows
  <1>2. new \notin Held
    BY <1>1, HeldPairs
  <1>3. \A v \in Workers : \A i : i \in DOMAIN batch'[v] <=> i \in DOMAIN batch[v] \/ <<v, i>> = new
    BY <1>1
  <1>4. \A x : x \in Held' <=> \E v \in Workers : \E i \in DOMAIN batch'[v] : x = <<v, i>>
    BY DEF Held
  <1>5. Held' = Held \union {new}
    <2>1. \A x \in Held' : x \in Held \union {new}
      BY <1>3, <1>4, HeldPairs
    <2>2. \A x \in Held : x \in Held'
      BY <1>3, <1>4, HeldPairs
    <2>3. new \in Held'
      BY <1>3, <1>4, <1>1
    <2>4. QED
      BY <2>1, <2>2, <2>3
  <1>6. Cardinality(Held') = Cardinality(Held) + 1
    BY <1>2, <1>5, HeldFinite, FS_AddElement
  <1>7. QED
    BY <1>6 DEF InBatches, Held

\* A batch accounted for is out of the worker's hands.
LEMMA HeldEmptied ==
  ASSUME Typed, Local, NEW w \in Workers, batch' = [batch EXCEPT ![w] = <<>>]
  PROVE  InBatches' = InBatches - Len(batch[w]) /\ Len(batch[w]) \in Nat
  <1> DEFINE mine == {w} \X (1..Len(batch[w]))
  <1>1. /\ Len(batch[w]) \in Nat /\ DOMAIN batch[w] = 1..Len(batch[w])
        /\ DOMAIN batch'[w] = {}
        /\ \A v \in Workers : v # w => batch'[v] = batch[v]
    BY LenProperties DEF Typed
  <1>2. IsFiniteSet(mine) /\ Cardinality(mine) = Len(batch[w])
    <2>1. IsFiniteSet({w}) /\ Cardinality({w}) = 1
      BY FS_Singleton
    <2>2. IsFiniteSet(1..Len(batch[w])) /\ Cardinality(1..Len(batch[w])) = Len(batch[w])
      BY <1>1, FS_Interval
    <2>3. /\ IsFiniteSet(mine)
          /\ Cardinality(mine) = Cardinality({w}) * Cardinality(1..Len(batch[w]))
      BY <2>1, <2>2, FS_Product
    <2>4. QED
      BY <1>1, <2>1, <2>2, <2>3
  <1>3. Held \cap mine = mine
    BY <1>1, HeldPairs
  <1>4. \A x : x \in Held' <=> \E v \in Workers : \E i \in DOMAIN batch'[v] : x = <<v, i>>
    BY DEF Held
  <1>5. Held' = Held \ mine
    <2>1. \A x \in Held' : x \in Held /\ x \notin mine
      BY <1>1, <1>4, HeldPairs
    <2>2. \A x \in Held \ mine : x \in Held'
      BY <1>1, <1>4, HeldPairs
    <2>3. QED
      BY <2>1, <2>2
  <1>6. Cardinality(Held') = Cardinality(Held) - Cardinality(mine)
    <2>1. IsFiniteSet(Held)
      BY HeldFinite
    <2> HIDE DEF mine
    <2>2. Cardinality(Held \ mine) = Cardinality(Held) - Cardinality(Held \cap mine)
      BY <2>1, FS_Difference
    <2>3. QED
      BY <1>3, <1>5, <2>2
  <1>7. QED
    BY <1>1, <1>2, <1>6 DEF InBatches, Held

LEMMA CountedStep ==
  ASSUME Typed, Queued, Local, Single, Counted, [Next]_vars
  PROVE  Counted'
  <1> DEFINE Over == Taken - InBatches
  <1>1. /\ Taken \in Int /\ accepted \in Nat /\ InBatches \in Nat
        /\ stats.received \in Nat /\ stats.processed \in Nat
        /\ \A w \in Workers : loaded[w] \in Nat /\ Len(batch[w]) \in Nat
    BY TakenType, HeldFinite, LenProperties DEF Typed
  <1>2. /\ IsFiniteSet(counting) /\ Cardinality(counting) \in Nat
        /\ stats.received + Cardinality(counting) = accepted
        /\ stats.processed <= Over /\ \A w \in Workers : loaded[w] <= Over
    BY FS_CardinalityType DEF Counted, Conservation, Taken
  <1>3. ~overlapped => stats.processed = Over
    BY DEF Counted, Conservation, Taken
  <1>4. ASSUME IsFiniteSet(counting'), stats'.received + Cardinality(counting') = accepted',
               stats'.processed <= Over', ~overlapped' => stats'.processed = Over',
               \A w \in Workers : loaded'[w] <= Over'
        PROVE  Counted'
    BY <1>4 DEF Counted, Conservation, Taken
  <1>5. ASSUME UNCHANGED <<batch, queue, accepted>> PROVE Over' = Over
    BY <1>5 DEF Taken, InBatches
  <1>6. CASE /\ UNCHANGED <<batch, queue, accepted, counting, stats, loaded>>
             /\ ~overlapped' => ~overlapped
    BY <1>2, <1>3, <1>4, <1>5, <1>6
  <1> HIDE DEF Over
  <1>7. ASSUME NEW p \in Producers, Put(p) PROVE Counted'
    <2>1. /\ UNCHANGED <<stats, batch, loaded, overlapped>>
          /\ accepted' = accepted + 1 /\ counting' = counting \union {p} /\ p \notin counting
      BY <1>7 DEF Put, workerVars, controlVars
    <2>2. Over' = Over
      <3>1. Taken' = Taken
        BY <1>7, PutTakes
      <3>2. InBatches' = InBatches
        BY <2>1 DEF InBatches
      <3>3. QED
        BY <3>1, <3>2 DEF Over
    <2>3. IsFiniteSet(counting') /\ Cardinality(counting') = Cardinality(counting) + 1
      BY <1>2, <2>1, FS_AddElement
    <2>4. stats'.received + Cardinality(counting') = accepted'
      BY <1>1, <1>2, <2>1, <2>3
    <2>5. QED
      BY <1>2, <1>3, <1>4, <2>1, <2>2, <2>3, <2>4
  <1>8. ASSUME NEW p \in Producers, CountReceived(p) PROVE Counted'
    <2>1. /\ UNCHANGED <<queue, accepted, batch, loaded, overlapped>>
          /\ stats'.received = stats.received + 1 /\ stats'.processed = stats.processed
          /\ counting' = counting \ {p} /\ p \in counting
      BY <1>8 DEF CountReceived, workerVars, controlVars, Typed
    <2>2. Over' = Over
      BY <1>5, <2>1
    <2>3. IsFiniteSet(counting') /\ Cardinality(counting') = Cardinality(counting) - 1
      BY <1>2, <2>1, FS_RemoveElement
    <2>4. stats'.received + Cardinality(counting') = accepted'
      BY <1>1, <1>2, <2>1, <2>3
    <2>5. QED
      BY <1>2, <1>3, <1>4, <2>1, <2>2, <2>3, <2>4
  <1>9. ASSUME NEW p \in Producers, Drop(p) PROVE Counted'
    <2>1. /\ UNCHANGED <<queue, accepted, counting, batch, loaded, overlapped>>
          /\ stats'.received = stats.received /\ stats'.processed = stats.processed
      BY <1>9 DEF Drop, producerVars, workerVars, controlVars, Typed
    <2>2. Over' = Over
      BY <1>5, <2>1
    <2>3. QED
      BY <1>2, <1>3, <1>4, <2>1, <2>2
  <1>10. ASSUME NEW w \in Workers, Collect(w) PROVE Counted'
    <2>1. UNCHANGED <<stats, counting, accepted, loaded, overlapped>>
      BY <1>10, CollectParts DEF producerVars, controlVars
    <2>2. Over' = Over
      <3>1. CASE Taken' = Taken /\ batch' = batch
        BY <3>1 DEF Over, InBatches
      <3>2. CASE /\ Taken' = Taken + 1 /\ Taken + 1 \in 1..MaxEvents
                 /\ batch' = [batch EXCEPT ![w] = Append(batch[w], Taken + 1)]
        <4>1. InBatches' = InBatches + 1
          BY <3>2, HeldGrows
        <4>2. QED
          BY <1>1, <3>2, <4>1 DEF Over
      <3>3. QED
        BY <1>10, <3>1, <3>2, CollectTakes
    <2>3. QED
      BY <1>2, <1>3, <1>4, <2>1, <2>2
  <1>11. ASSUME NEW w \in Workers, LoadProcessed(w) PROVE Counted'
    <2>1. /\ UNCHANGED <<queue, accepted, counting, stats, batch, overlapped>>
          /\ \A v \in Workers : loaded'[v] = loaded[v] \/ loaded'[v] = stats.processed
      BY <1>11 DEF LoadProcessed, producerVars, controlVars, Typed
    <2>2. Over' = Over
      BY <1>5, <2>1
    <2>3. \A v \in Workers : loaded'[v] <= Over
      BY <1>2, <2>1
    <2>4. QED
      BY <1>2, <1>3, <1>4, <2>1, <2>2, <2>3
  <1>12. ASSUME NEW w \in Workers, Account(w) PROVE Counted'
    <2>1. /\ UNCHANGED <<queue, accepted, counting, overlapped>>
          /\ stats'.processed = loaded[w] + Len(batch[w]) /\ stats'.received = stats.received
          /\ batch' = [batch EXCEPT ![w] = <<>>]
          /\ pc[w] \in Accounting
          /\ \A v \in Workers : loaded'[v] = loaded[v] \/ loaded'[v] = 0
      BY <1>12, AccountParts DEF controlVars, Typed, Accounting
    <2>2. Over' = Over + Len(batch[w]) /\ Over \in Int
      <3>1. Taken' = Taken
        BY <2>1, RestTakes
      <3>2. InBatches' = InBatches - Len(batch[w])
        BY <2>1, HeldEmptied
      <3>3. QED
        BY <1>1, <3>1, <3>2 DEF Over
    <2>3. stats'.processed <= Over'
      BY <1>1, <1>2, <2>1, <2>2
    <2>4. ASSUME ~overlapped PROVE stats'.processed = Over'
      <3>1. loaded[w] = stats.processed
        BY <2>1, <2>4 DEF Single
      <3>2. QED
        BY <1>3, <2>1, <2>2, <2>4, <3>1
    <2>5. \A v \in Workers : loaded'[v] <= Over'
      <3>1. 0 <= Over
        BY <1>1, <1>2, <2>2
      <3>2. QED
        BY <1>1, <1>2, <2>1, <2>2, <3>1
    <2>6. QED
      BY <1>2, <1>4, <2>1, <2>3, <2>4, <2>5
  <1>13. ASSUME NEW w \in Workers, Test(w) \/ Hand(w) PROVE Counted'
    BY <1>6, <1>13 DEF Test, Hand, producerVars, controlVars
  <1>14. ASSUME NEW h \in Handlers, OnBatch(h) PROVE Counted'
    BY <1>6, <1>14 DEF OnBatch, producerVars, workerVars
  <1>15. CASE Start \/ Stop \/ StopReturns \/ Tick
    BY <1>6, <1>15 DEF Start, Stop, StopReturns, Tick, producerVars, workerVars, controlVars
  <1>16. CASE UNCHANGED vars
    BY <1>6, <1>16 DEF vars
  <1>17. QED
    BY <1>7, <1>8, <1>9, <1>10, <1>11, <1>12, <1>13, <1>14, <1>15, <1>16 DEF Next, Work

-------------------------------------------------------------------------------
(* The order without overlap *)

\* An overlap is not forgotten.
LEMMA OverlapStays ==
  ASSUME Typed, [Next]_vars, ~overlapped'
  PROVE  ~overlapped
  <1>1. ASSUME NEW p \in Producers, Put(p) \/ CountReceived(p) \/ Drop(p) PROVE ~overlapped
    BY <1>1 DEF Put, CountReceived, Drop, controlVars
  <1>2. ASSUME NEW w \in Workers, Work(w) PROVE ~overlapped
    BY <1>2 DEF Work, Test, Collect, Hand, LoadProcessed, Account, controlVars
  <1>3. CASE \/ \E h \in Handlers : OnBatch(h)
             \/ Start \/ Stop \/ StopReturns \/ Tick
    BY <1>3 DEF OnBatch, Start, Stop, StopReturns, Tick, controlVars
  <1>4. CASE UNCHANGED vars
    BY <1>4 DEF vars
  <1>5. QED
    BY <1>1, <1>2, <1>3, <1>4 DEF Next

\* Without overlap the worker that moves is the one that has something.
LEMMA OthersIdle ==
  ASSUME Local, Single, ~overlapped, NEW w \in Workers,
         Collect(w) \/ Hand(w) \/ Account(w)
  PROVE  Alive(w) /\ \A v \in Workers : v # w => batch[v] = <<>>
  <1>1. Alive(w)
    BY DEF Collect, Hand, Dispatching, Account, Alive
  <1>2. QED
    BY <1>1, OneAlive

LEMMA InRowStep ==
  ASSUME Typed, Queued, Local, Single, InRow, [Next]_vars
  PROVE  InRow'
  <1> SUFFICES ASSUME ~overlapped'
               PROVE  \A v \in Workers : \A i \in DOMAIN batch'[v] :
                        batch'[v][i] = (Taken' - Len(batch'[v])) + i
    BY DEF InRow
  <1>1. ~overlapped
    BY OverlapStays
  <1>2. CASE Taken' = Taken /\ batch' = batch
    BY <1>1, <1>2 DEF InRow
  <1>3. ASSUME NEW w \in Workers, Collect(w), Taken' = Taken + 1, Taken + 1 \in 1..MaxEvents,
               batch' = [batch EXCEPT ![w] = Append(batch[w], Taken + 1)],
               NEW v \in Workers, NEW i \in DOMAIN batch'[v]
        PROVE  batch'[v][i] = (Taken' - Len(batch'[v])) + i
    <2>1. Taken \in Int
      BY TakenType
    <2>2. v = w
      <3>1. v # w => batch'[v] = <<>>
        BY <1>1, <1>3, OthersIdle, BatchGrows
      <3>2. QED
        BY <1>3, <3>1
    <2>3. /\ Len(batch[w]) \in Nat /\ Len(batch'[w]) = Len(batch[w]) + 1
          /\ i \in 1..(Len(batch[w]) + 1) /\ DOMAIN batch[w] = 1..Len(batch[w])
          /\ \A k \in 1..Len(batch[w]) : batch'[w][k] = batch[w][k]
          /\ batch'[w][Len(batch[w]) + 1] = Taken + 1
      BY <1>3, <2>2, BatchGrows
    <2>4. Taken' - Len(batch'[w]) = Taken - Len(batch[w])
      <3>1. Taken' = Taken + 1 /\ Len(batch'[w]) = Len(batch[w]) + 1 /\ Len(batch[w]) \in Nat
        BY <1>3, <2>3
      <3>2. QED
        BY <2>1, <3>1
    <2>5. CASE i \in 1..Len(batch[w])
      <3>1. i \in DOMAIN batch[w] /\ batch'[w][i] = batch[w][i]
        BY <2>3, <2>5
      <3>2. batch[w][i] = (Taken - Len(batch[w])) + i
        BY <1>1, <3>1 DEF InRow
      <3>3. QED
        BY <2>2, <2>4, <3>1, <3>2
    <2>6. CASE i = Len(batch[w]) + 1
      <3>1. Taken + 1 = (Taken - Len(batch[w])) + i
        BY <2>1, <2>3, <2>6
      <3>2. QED
        BY <2>2, <2>3, <2>4, <2>6, <3>1
    <2>7. QED
      BY <2>3, <2>5, <2>6
  <1>4. ASSUME NEW w \in Workers, Account(w),
               NEW v \in Workers, NEW i \in DOMAIN batch'[v]
        PROVE  batch'[v][i] = (Taken' - Len(batch'[v])) + i
    <2>1. batch' = [batch EXCEPT ![w] = <<>>] /\ Taken' = Taken
      BY <1>4, AccountParts, RestTakes
    <2>2. v # w /\ batch'[v] = batch[v]
      BY <1>4, <2>1 DEF Typed
    <2>3. QED
      BY <1>1, <1>4, <2>1, <2>2 DEF InRow
  <1>5. ASSUME NEW p \in Producers, Put(p) PROVE Taken' = Taken /\ batch' = batch
    BY <1>5, PutTakes DEF Put, workerVars
  <1>6. ASSUME NEW h \in Handlers, OnBatch(h) PROVE Taken' = Taken /\ batch' = batch
    BY <1>6, RestTakes DEF OnBatch, workerVars, producerVars
  <1>7. ASSUME NEW w \in Workers, Hand(w) PROVE Taken' = Taken /\ batch' = batch
    BY <1>7, HandParts, RestTakes
  <1>8. CASE Resting
    BY <1>2, <1>8, RestTakes DEF Resting
  <1>9. ASSUME NEW w \in Workers, Collect(w)
        PROVE  \A v \in Workers : \A i \in DOMAIN batch'[v] :
                 batch'[v][i] = (Taken' - Len(batch'[v])) + i
    BY <1>2, <1>3, <1>9, CollectTakes
  <1>10. QED
    BY <1>2, <1>4, <1>5, <1>6, <1>7, <1>8, <1>9, Moves

\* The events a registration is given follow those it has seen.
LEMMA HandedInRow ==
  ASSUME Typed, Queued, Local, Registered, Single, InRow, UpToDate, ~overlapped,
         NEW w \in Workers, Hand(w), NEW h, h = turn[w] + 1
  PROVE  LET a == Len(seen[h])
             b == Len(batch[w])
         IN  /\ a \in Nat /\ b \in Nat \ {0} /\ Len(seen'[h]) = a + b
             /\ seen'[h] # <<>>
             /\ \A i \in 1..a : seen'[h][i] = seen[h][i]
             /\ \A i \in (a + 1)..(a + b) : seen'[h][i] = (Taken - b) + (i - a)
             /\ a # 0 => seen[h][a] = Taken - b
  <1> DEFINE a == Len(seen[h])
             b == Len(batch[w])
  <1>1. /\ h \in Registrations /\ seen[h] \in Seq(1..MaxEvents) /\ batch[w] \in Seq(1..MaxEvents)
        /\ seen'[h] = seen[h] \o batch[w]
    BY HandParts DEF Typed
  <1>2. batch[w] # <<>>
    BY HandParts DEF Local, Busy
  <1>3. /\ a \in Nat /\ b \in Nat \ {0} /\ DOMAIN batch[w] = 1..b
    BY <1>1, <1>2, LenProperties, EmptySeq
  <1>4. /\ Len(seen'[h]) = a + b
        /\ \A i \in 1..(a + b) : seen'[h][i] = IF i <= a THEN seen[h][i] ELSE batch[w][i - a]
    <2>1. Len(seen[h] \o batch[w]) = Len(seen[h]) + Len(batch[w])
      BY <1>1, ConcatProperties
    <2>2. \A i \in 1..(Len(seen[h]) + Len(batch[w])) :
            (seen[h] \o batch[w])[i]
              = IF i <= Len(seen[h]) THEN seen[h][i] ELSE batch[w][i - Len(seen[h])]
      BY <1>1, ConcatProperties
    <2>3. QED
      BY <1>1, <2>1, <2>2
  <1>5. seen'[h] # <<>>
    BY <1>1, <1>2, ConcatEqualIffEmpty
  <1>6. \A i \in 1..b : batch[w][i] = (Taken - b) + i
    BY <1>3 DEF InRow
  <1>7. a # 0 => seen[h][a] = Taken - b
    <2>1. Reached(w)
      BY OthersIdle DEF UpToDate
    <2>2. turn[w] \in Nat /\ turn[w] + 1 \in DOMAIN handlers
      BY HandParts
    <2>3. ~(turn[w] + 1 <= turn[w])
      BY <2>2
    <2>4. a # 0 => seen[h] # <<>>
      BY EmptySeq
    <2>5. QED
      BY <2>1, <2>2, <2>3, <2>4 DEF Reached
  <1> HIDE DEF a, b
  <1>8. \A i \in 1..a : seen'[h][i] = seen[h][i]
    BY <1>3, <1>4
  <1>9. ASSUME NEW i \in (a + 1)..(a + b)
        PROVE  seen'[h][i] = (Taken - b) + (i - a)
    <2>1. i \in 1..(a + b) /\ ~(i <= a) /\ i - a \in 1..b
      BY <1>3
    <2>2. QED
      BY <1>4, <1>6, <2>1
  <1>10. QED
    BY <1>3, <1>4, <1>5, <1>7, <1>8, <1>9 DEF a, b

LEMMA ContiguousStep ==
  ASSUME Typed, Queued, Local, Registered, Single, InRow, UpToDate, ContiguousDelivery, [Next]_vars
  PROVE  ContiguousDelivery'
  <1> SUFFICES ASSUME ~overlapped', NEW g \in Registrations, NEW i \in 1..(Len(seen'[g]) - 1)
               PROVE  seen'[g][i + 1] = seen'[g][i] + 1
    BY DEF ContiguousDelivery
  <1>1. ~overlapped
    BY OverlapStays
  <1>2. CASE seen'[g] = seen[g]
    BY <1>1, <1>2 DEF ContiguousDelivery
  <1>3. ASSUME NEW w \in Workers, Hand(w), g = turn[w] + 1
        PROVE  seen'[g][i + 1] = seen'[g][i] + 1
    <2> DEFINE a == Len(seen[g])
               b == Len(batch[w])
               t == Taken
    <2>1. /\ a \in Nat /\ b \in Nat \ {0} /\ Len(seen'[g]) = a + b
          /\ \A k \in 1..a : seen'[g][k] = seen[g][k]
          /\ \A k \in (a + 1)..(a + b) : seen'[g][k] = (t - b) + (k - a)
          /\ a # 0 => seen[g][a] = t - b
      BY <1>1, <1>3, HandedInRow
    <2>2. t \in Int
      BY TakenType
    <2>3. \A k \in 1..(a - 1) : seen[g][k + 1] = seen[g][k] + 1
      BY <1>1 DEF ContiguousDelivery
    <2> HIDE DEF a, b, t
    <2>4. i \in 1..((a + b) - 1)
      BY <2>1
    <2>5. CASE i \in 1..(a - 1)
      <3>1. i \in 1..a /\ i + 1 \in 1..a
        BY <2>1, <2>5
      <3>2. QED
        BY <2>1, <2>3, <2>5, <3>1
    <2>6. CASE i = a
      <3>1. a # 0 /\ i \in 1..a /\ i + 1 \in (a + 1)..(a + b)
        BY <2>1, <2>4, <2>6
      <3>2. seen'[g][i] = t - b /\ seen'[g][i + 1] = (t - b) + ((i + 1) - a)
        BY <2>1, <2>6, <3>1
      <3>3. QED
        BY <2>1, <2>2, <2>6, <3>2
    <2>7. CASE i \in (a + 1)..((a + b) - 1)
      <3>1. i \in (a + 1)..(a + b) /\ i + 1 \in (a + 1)..(a + b) /\ i \in Int
        BY <2>1, <2>7
      <3>2. seen'[g][i] = (t - b) + (i - a) /\ seen'[g][i + 1] = (t - b) + ((i + 1) - a)
        BY <2>1, <3>1
      <3>3. QED
        BY <2>1, <2>2, <3>1, <3>2
    <2>8. QED
      BY <2>1, <2>4, <2>5, <2>6, <2>7
  <1>4. ASSUME NEW w \in Workers, Hand(w), g # turn[w] + 1
        PROVE  seen'[g] = seen[g]
    BY <1>4, HandParts DEF Typed
  <1>5. ASSUME NEW w \in Workers, Collect(w) \/ Account(w) PROVE seen'[g] = seen[g]
    BY <1>5, CollectParts, AccountParts
  <1>6. ASSUME NEW p \in Producers, Put(p) PROVE seen'[g] = seen[g]
    BY <1>6 DEF Put, workerVars
  <1>7. ASSUME NEW h \in Handlers, OnBatch(h) PROVE seen'[g] = seen[g]
    BY <1>7 DEF OnBatch, workerVars
  <1>8. QED
    BY <1>2, <1>3, <1>4, <1>5, <1>6, <1>7, Moves DEF Resting

LEMMA UpToDateStep ==
  ASSUME Typed, Queued, Local, Registered, Single, InRow, UpToDate, Late, [Next]_vars
  PROVE  UpToDate'
  <1> SUFFICES ASSUME ~overlapped', NEW v \in Workers, \A u \in Workers : u # v => batch'[u] = <<>>
               PROVE  Reached(v)'
    BY DEF UpToDate
  <1>1. ~overlapped /\ Taken \in Int
    BY OverlapStays, TakenType
  <1>2. CASE Taken' = Taken /\ UNCHANGED <<batch, seen, turn, handlers>>
    BY <1>1, <1>2 DEF UpToDate, Reached
  <1>3. ASSUME NEW w \in Workers, Collect(w), Taken' = Taken + 1, Taken + 1 \in 1..MaxEvents,
               batch' = [batch EXCEPT ![w] = Append(batch[w], Taken + 1)]
        PROVE  Reached(v)'
    <2>1. v = w
      BY <1>3, BatchGrows
    <2>2. Reached(w) /\ turn[w] = 0
      <3>1. pc[w] \notin Busy
        BY <1>3 DEF Collect, Busy
      <3>2. QED
        BY <1>1, <1>3, <3>1, OthersIdle DEF UpToDate, Local
    <2>3. UNCHANGED <<seen, turn, handlers>>
      BY <1>3, CollectParts DEF controlVars
    <2>4. /\ Len(batch[w]) \in Nat /\ Len(batch'[w]) = Len(batch[w]) + 1
      BY <1>3, BatchGrows
    <2>5. Taken' - Len(batch'[w]) = Taken - Len(batch[w])
      <3>1. Taken' = Taken + 1
        BY <1>3
      <3>2. QED
        BY <1>1, <2>4, <3>1
    <2>6. \A j \in DOMAIN handlers : ~(j <= 0)
      BY LenProperties DEF Typed
    <2>7. QED
      BY <2>1, <2>2, <2>3, <2>5, <2>6 DEF Reached
  <1>4. ASSUME NEW w \in Workers, Hand(w)
        PROVE  Reached(v)'
    <2> PICK h \in Registrations : h = turn[w] + 1
      BY <1>4, HandParts
    <2>1. /\ UNCHANGED <<batch, handlers>> /\ Taken' = Taken
          /\ turn[w] \in Nat /\ turn[w] + 1 \in DOMAIN handlers
          /\ turn'[w] = turn[w] + 1
          /\ \A g \in Registrations : g # h => seen'[g] = seen[g]
      <3>1. /\ UNCHANGED <<batch, handlers>> /\ Taken' = Taken
            /\ turn[w] \in Nat /\ turn[w] + 1 \in DOMAIN handlers
            /\ turn' = [turn EXCEPT ![w] = turn[w] + 1]
            /\ seen' = [seen EXCEPT ![h] = seen[h] \o batch[w]]
        BY <1>4, HandParts, RestTakes DEF controlVars
      <3>2. turn \in [Workers -> Nat] /\ seen \in [Registrations -> Seq(1..MaxEvents)]
        BY DEF Typed
      <3>3. QED
        BY <3>1, <3>2
    <2>2. v = w
      BY <1>4, <2>1, HandParts DEF Local, Busy
    <2>3. Reached(w)
      BY <1>1, <1>4, OthersIdle DEF UpToDate
    <2>4. seen'[h][Len(seen'[h])] = Taken
      <3> DEFINE a == Len(seen[h])
                 b == Len(batch[w])
                 t == Taken
      <3>1. /\ a \in Nat /\ b \in Nat \ {0} /\ Len(seen'[h]) = a + b
            /\ \A k \in (a + 1)..(a + b) : seen'[h][k] = (t - b) + (k - a)
        BY <1>1, <1>4, HandedInRow
      <3> HIDE DEF a, b, t
      <3>2. a + b \in (a + 1)..(a + b)
        BY <3>1
      <3>3. seen'[h][a + b] = (t - b) + ((a + b) - a)
        BY <3>1, <3>2
      <3>4. QED
        BY <1>1, <3>1, <3>3 DEF t
    <2>5. ASSUME NEW j \in DOMAIN handlers, seen'[j] # <<>>
          PROVE  seen'[j][Len(seen'[j])]
                   = Taken - (IF j <= turn'[w] THEN 0 ELSE Len(batch[w]))
      <3>1. j \in Registrations /\ j \in Nat
        BY PlacesAreRegistrations
      <3>2. CASE j = turn[w] + 1
        <4>1. j <= turn'[w] /\ Taken - 0 = Taken
          BY <1>1, <2>1, <3>2
        <4>2. QED
          BY <2>4, <3>2, <4>1
      <3>3. CASE j # turn[w] + 1
        <4>1. seen'[j] = seen[j]
          BY <2>1, <3>1, <3>3 DEF Registered
        <4>2. j <= turn'[w] <=> j <= turn[w]
          BY <2>1, <3>1, <3>3
        <4>3. QED
          BY <2>3, <2>5, <4>1, <4>2 DEF Reached
      <3>4. QED
        BY <3>2, <3>3
    <2>6. QED
      BY <2>1, <2>2, <2>5 DEF Reached
  <1>5. ASSUME NEW w \in Workers, Account(w)
        PROVE  Reached(v)'
    <2>1. /\ UNCHANGED <<seen, handlers>> /\ Taken' = Taken /\ pc[w] \in Accounting
          /\ batch'[v] = <<>>
      <3>1. /\ UNCHANGED <<seen, handlers>> /\ Taken' = Taken
            /\ batch' = [batch EXCEPT ![w] = <<>>]
            /\ pc[w] \in {"account", "last_account"}
        BY <1>5, AccountParts, RestTakes DEF controlVars
      <3>2. v # w => batch[v] = <<>>
        BY <1>1, <1>5, OthersIdle
      <3>3. QED
        BY <3>1, <3>2 DEF Accounting, Typed
    <2>2. Reached(w)
      BY <1>1, <1>5, OthersIdle DEF UpToDate
    <2>3. \A j \in DOMAIN handlers : seen[j] # <<>> => j <= turn[w]
      <3>1. \A j \in DOMAIN handlers : j > turn[w] => seen[j] = <<>>
        BY <1>1, <2>1 DEF Late
      <3>2. turn[w] \in Nat /\ DOMAIN handlers = 1..Len(handlers)
        <4>1. turn \in [Workers -> Nat] /\ handlers \in Seq(Handlers)
          BY DEF Typed
        <4>2. QED
          BY <4>1, LenProperties
      <3>3. QED
        BY <3>1, <3>2
    <2>4. Len(batch'[v]) = 0
      BY <2>1, EmptySeq
    <2>5. QED
      BY <2>1, <2>2, <2>3, <2>4 DEF Reached
  <1>6. ASSUME NEW h \in Handlers, OnBatch(h)
        PROVE  Reached(v)'
    <2>1. UNCHANGED <<seen, batch, turn>> /\ Taken' = Taken
      BY <1>6, OnBatchParts, RestTakes DEF workerVars, producerVars
    <2>2. seen[Len(handlers) + 1] = <<>>
      BY <1>6, OnBatchParts DEF Registered
    <2>3. Reached(v)
      BY <1>1, <2>1 DEF UpToDate
    <2>4. QED
      BY <1>6, <2>1, <2>2, <2>3, OnBatchParts DEF Reached
  <1>7. ASSUME NEW p \in Producers, Put(p) PROVE Reached(v)'
    BY <1>2, <1>7, PutTakes DEF Put, workerVars, controlVars
  <1>8. CASE Resting
    BY <1>2, <1>8, RestTakes DEF Resting
  <1>9. ASSUME NEW w \in Workers, Collect(w) PROVE Reached(v)'
    <2>1. UNCHANGED <<seen, turn, handlers>>
      BY <1>9, CollectParts DEF controlVars
    <2>2. QED
      BY <1>2, <1>3, <1>9, <2>1, CollectTakes
  <1>10. QED
    BY <1>4, <1>5, <1>6, <1>7, <1>8, <1>9, Moves

LEMMA LateStep ==
  ASSUME Typed, Local, Registered, Single, Late, [Next]_vars
  PROVE  Late'
  <1> SUFFICES ASSUME ~overlapped', NEW v \in Workers, pc'[v] \in Accounting,
                      NEW j \in DOMAIN handlers', j > turn'[v]
               PROVE  seen'[j] = <<>>
    BY DEF Late
  <1>1. ~overlapped
    BY OverlapStays
  <1>2. CASE UNCHANGED <<seen, turn, handlers>> /\ pc[v] \in Accounting
    BY <1>1, <1>2 DEF Late
  <1>3. ASSUME NEW w \in Workers, Test(w) PROVE seen'[j] = <<>>
    <2>1. pc'[w] \notin Accounting /\ UNCHANGED <<seen, turn, handlers>>
          /\ \A u \in Workers : u # w => pc'[u] = pc[u]
      BY <1>3 DEF Test, Goto, Accounting, Typed, controlVars
    <2>2. QED
      BY <1>2, <2>1
  <1>4. ASSUME NEW w \in Workers, Collect(w) PROVE seen'[j] = <<>>
    <2>1. pc'[w] \notin Accounting /\ UNCHANGED <<seen, turn, handlers>>
          /\ \A u \in Workers : u # w => pc'[u] = pc[u]
      BY <1>4, CollectParts DEF Accounting, Typed, controlVars
    <2>2. QED
      BY <1>2, <2>1
  <1>5. ASSUME NEW w \in Workers, Hand(w) PROVE FALSE
    <2>1. pc' = pc /\ pc[w] \in {"dispatch", "last_dispatch"} /\ Alive(w)
      BY <1>5, HandParts DEF Alive
    <2>2. v # w /\ Alive(v)
      BY <2>1 DEF Accounting, Alive
    <2>3. QED
      BY <1>1, <2>1, <2>2, OneAlive
  <1>6. ASSUME NEW w \in Workers, LoadProcessed(w) PROVE seen'[j] = <<>>
    <2>1. /\ UNCHANGED <<seen, turn, handlers>> /\ turn[w] = Len(handlers)
          /\ \A u \in Workers : u # w => pc'[u] = pc[u]
      BY <1>6 DEF LoadProcessed, Goto, Typed, controlVars
    <2>2. v # w
      <3>1. j \in 1..Len(handlers) /\ Len(handlers) \in Nat
        BY <2>1, LenProperties DEF Typed
      <3>2. QED
        BY <2>1, <3>1
    <2>3. QED
      BY <1>2, <2>1, <2>2
  <1>7. ASSUME NEW w \in Workers, Account(w) PROVE seen'[j] = <<>>
    <2>1. /\ pc'[w] \notin Accounting /\ UNCHANGED <<seen, handlers>>
          /\ \A u \in Workers : u # w => pc'[u] = pc[u] /\ turn'[u] = turn[u]
      <3>1. /\ \/ pc' = [pc EXCEPT ![w] = "test"]
               \/ pc' = [pc EXCEPT ![w] = "exited"]
            /\ turn' = [turn EXCEPT ![w] = 0]
            /\ UNCHANGED <<seen, handlers>>
        BY <1>7, AccountParts DEF controlVars
      <3>2. pc \in [Workers -> Labels] /\ turn \in [Workers -> Nat]
        BY DEF Typed
      <3>3. QED
        BY <3>1, <3>2 DEF Accounting
    <2>2. v # w /\ pc[v] \in Accounting /\ turn'[v] = turn[v]
      BY <2>1
    <2>3. QED
      BY <1>1, <2>1, <2>2 DEF Late
  <1>8. ASSUME NEW h \in Handlers, OnBatch(h) PROVE seen'[j] = <<>>
    <2>1. UNCHANGED <<seen, turn, pc>>
      BY <1>8, OnBatchParts DEF workerVars
    <2>2. seen[Len(handlers) + 1] = <<>>
      BY <1>8, OnBatchParts DEF Registered
    <2>3. CASE j \in DOMAIN handlers
      BY <1>1, <1>8, <2>1, <2>3, OnBatchParts DEF Late
    <2>4. CASE j = Len(handlers) + 1
      BY <1>8, <2>1, <2>2, <2>4, OnBatchParts
    <2>5. QED
      BY <1>8, <2>3, <2>4, OnBatchParts
  <1>9. CASE Start
    <2>1. PICK n \in Workers : n = worker + 1
      BY <1>9 DEF Start
    <2>2. /\ pc'[n] = "test" /\ \A u \in Workers : u # n => pc'[u] = pc[u]
          /\ UNCHANGED <<seen, turn, handlers>>
      BY <1>9, <2>1 DEF Start, Typed
    <2>3. QED
      BY <1>2, <2>2 DEF Accounting
  <1>10. ASSUME NEW p \in Producers, Put(p) \/ CountReceived(p) \/ Drop(p)
         PROVE  seen'[j] = <<>>
    BY <1>2, <1>10 DEF Put, CountReceived, Drop, workerVars, controlVars
  <1>11. CASE Stop \/ StopReturns \/ Tick
    BY <1>2, <1>11 DEF Stop, StopReturns, Tick, workerVars, controlVars
  <1>12. CASE UNCHANGED vars
    BY <1>2, <1>12 DEF vars
  <1>13. QED
    BY <1>3, <1>4, <1>5, <1>6, <1>7, <1>8, <1>9, <1>10, <1>11, <1>12 DEF Next, Work

-------------------------------------------------------------------------------
(* The promise to the handlers *)

\* What a registration is given is a batch of accepted events that are new to it.
LEMMA HandGives ==
  ASSUME Typed, Queued, Local, Passed, Apart, Unseen, NEW w \in Workers, Hand(w)
  PROVE  \E r \in Registrations, events \in Promise!Batches : Promise!Give(r, events)
  <1> DEFINE r == turn[w] + 1
             events == batch[w]
             n == Len(batch[w])
  <1>1. /\ seen' = [seen EXCEPT ![r] = seen[r] \o events] /\ accepted' = accepted
        /\ r \in Registrations /\ turn[w] \in Nat /\ r \in DOMAIN handlers
        /\ pc[w] \in Busy
    BY HandParts DEF Busy
  <1>2. events \in Seq(1..MaxEvents) /\ events # <<>> /\ n <= BatchSize
    BY <1>1 DEF Local, Typed
  <1>3. n \in 1..BatchSize /\ DOMAIN events = 1..n
    BY <1>2, EmptySeq, LenProperties, SizeAssumption
  <1>4. events \in [1..n -> 1..accepted]
    <2>1. ASSUME NEW i \in 1..n
          PROVE  events[i] \in 1..accepted
      <3>1. events[i] \in 1..MaxEvents /\ events[i] <= Taken
        BY <1>2, <1>3, LenProperties, ElementOfSeq DEF Passed
      <3>2. accepted \in Nat /\ Taken \in Int /\ Taken <= accepted
        BY TakenType DEF Taken
      <3>3. QED
        BY <3>1, <3>2
    <2>2. events \in [1..n -> 1..MaxEvents]
      BY <1>2, LenProperties
    <2>3. QED
      BY <2>1, <2>2
  <1>5. events \in Promise!Batches
    BY <1>3, <1>4 DEF Promise!Batches
  <1>6. Promise!IsInjective(events)
    BY DEF Apart, Promise!IsInjective
  <1>7. Promise!Range(events) \intersect Promise!Range(seen[r]) = {}
    <2>1. r > turn[w]
      BY <1>1
    <2>2. \A i \in DOMAIN events, k \in DOMAIN seen[r] : events[i] # seen[r][k]
      BY <1>1, <2>1 DEF Unseen
    <2>3. QED
      BY <2>2 DEF Promise!Range
  <1>8. Promise!Give(r, events)
    BY <1>1, <1>6, <1>7 DEF Promise!Give
  <1>9. QED
    BY <1>1, <1>5, <1>8

LEMMA PromiseStep ==
  ASSUME Typed, Queued, Local, Passed, Apart, Unseen, [Next]_vars
  PROVE  [Promise!Next]_(Promise!vars)
  <1>1. ASSUME NEW p \in Producers, Put(p) PROVE Promise!Next
    <2>1. accepted' = accepted + 1 /\ seen' = seen
      BY <1>1 DEF Put, workerVars
    <2>2. QED
      BY <2>1 DEF Promise!Next, Promise!Accept
  <1>2. ASSUME NEW w \in Workers, Hand(w) PROVE Promise!Next
    BY <1>2, HandGives DEF Promise!Next
  <1>3. CASE UNCHANGED <<accepted, seen>>
    BY <1>3 DEF Promise!vars
  <1>4. ASSUME NEW w \in Workers, Collect(w) \/ Account(w) PROVE UNCHANGED <<accepted, seen>>
    BY <1>4, CollectParts, AccountParts DEF producerVars
  <1>5. ASSUME NEW h \in Handlers, OnBatch(h) PROVE UNCHANGED <<accepted, seen>>
    BY <1>5 DEF OnBatch, producerVars, workerVars
  <1>6. QED
    BY <1>1, <1>2, <1>3, <1>4, <1>5, Moves DEF Resting

-------------------------------------------------------------------------------
(* The invariants *)

\* The counters stay within the bounds because of what they count.
LEMMA TypesFollow ==
  ASSUME Typed, Queued, Local, Registered, Counted
  PROVE  TypeOK
  <1>1. /\ accepted \in Nat /\ accepted <= MaxEvents /\ MaxEvents \in Nat
        /\ Taken \in Int /\ Taken <= accepted /\ InBatches \in Nat
    BY TakenType, HeldFinite, BoundsAssumption DEF Typed, Taken
  <1>2. /\ stats.received \in Nat /\ stats.processed \in Nat /\ Cardinality(counting) \in Nat
        /\ stats.received + Cardinality(counting) = accepted
        /\ stats.processed <= Taken - InBatches
    BY FS_CardinalityType DEF Typed, Counted, Conservation, Taken
  <1>3. stats.received \in 0..MaxEvents /\ stats.processed \in 0..MaxEvents
    BY <1>1, <1>2
  <1>4. stats \in [received : 0..MaxEvents, processed : 0..MaxEvents, batches : Nat, dropped : 0..MaxDropped]
    BY <1>3 DEF Typed
  <1>5. \A w \in Workers : turn[w] \in 0..MaxHandlers
    <2> SUFFICES ASSUME NEW w \in Workers PROVE turn[w] \in 0..MaxHandlers
      OBVIOUS
    <2>1. turn[w] \in Nat /\ Len(handlers) \in Nat
      BY LenProperties DEF Typed
    <2>2. turn[w] <= Len(handlers) /\ Len(handlers) <= MaxHandlers
      BY DEF Registered, Typed
    <2>3. MaxHandlers \in Nat
      BY BoundsAssumption
    <2>4. QED
      BY <2>1, <2>2, <2>3
  <1>6. \A w \in Workers : loaded[w] \in 0..MaxEvents
    <2> SUFFICES ASSUME NEW w \in Workers PROVE loaded[w] \in 0..MaxEvents
      OBVIOUS
    <2>1. loaded[w] \in Nat /\ loaded[w] <= Taken - InBatches
      BY DEF Typed, Counted
    <2>2. QED
      BY <1>1, <2>1
  <1>7. turn \in [Workers -> 0..MaxHandlers] /\ loaded \in [Workers -> 0..MaxEvents]
    BY <1>5, <1>6 DEF Typed
  <1>8. QED
    BY <1>4, <1>7 DEF Typed, TypeOK

LEMMA HandedOver == Local => ExitedHandsOver
  BY DEF Local, ExitedHandsOver

LEMMA InitInvariant == Init => IInv
  <1> SUFFICES ASSUME Init PROVE IInv
    OBVIOUS
  <1>1. MaxEvents \in Nat /\ MaxDropped \in Nat /\ MaxQueue \in Nat /\ FlushInterval \in Nat
        /\ BatchSize \in Nat /\ BatchSize > 0 /\ MaxHandlers \in Nat
    BY BoundsAssumption, SizeAssumption
  <1>2. /\ 0 \in 0..MaxEvents /\ 0 \in 0..MaxDropped /\ 0 \in 0..FlushInterval
        /\ <<>> \in Seq(1..MaxEvents) /\ <<>> \in Seq(Handlers) /\ Len(<<>>) = 0 /\ 0 <= MaxQueue /\ 0 <= MaxHandlers
    BY <1>1, EmptySeq
  <1>3. Typed
    BY <1>2 DEF Init, Typed, Labels
  <1>4. Taken = 0 /\ Queued
    <2>1. accepted = 0 /\ Len(queue) = 0
      BY <1>2 DEF Init
    <2>2. DOMAIN queue = {}
      BY DEF Init
    <2>3. Taken = 0
      BY <2>1 DEF Taken
    <2>4. QED
      BY <2>2, <2>3 DEF Queued
  <1>5. Local
    <2>1. \A w \in Workers : w \in 1..Cardinality(Workers)
      BY WorkersAssumption
    <2>2. \A w \in Workers : w > 0
      BY <2>1
    <2>3. QED
      BY <2>2 DEF Init, Local, Busy
  <1>6. Registered /\ Passed /\ Apart /\ Unseen
    BY <1>2 DEF Init, Registered, Passed, Apart, Unseen
  <1>7. InBatches = 0
    <2>1. Held = {}
      BY DEF Init, Held
    <2>2. QED
      BY <2>1, FS_EmptySet DEF InBatches, Held
  <1>8. Counted
    <2>1. /\ accepted - Len(queue) - InBatches = 0 /\ Taken - InBatches = 0
          /\ stats.received = 0 /\ stats.processed = 0 /\ accepted = 0
      <3>1. accepted = 0 /\ Len(queue) = 0 /\ stats.received = 0 /\ stats.processed = 0
        BY <1>2 DEF Init
      <3>2. QED
        BY <1>4, <1>7, <3>1
    <2>2. IsFiniteSet(counting) /\ Cardinality(counting) = 0
      BY FS_EmptySet DEF Init
    <2>3. \A w \in Workers : loaded[w] <= Taken - InBatches
      BY <2>1 DEF Init
    <2>4. Conservation
      BY <2>1, <2>2 DEF Conservation
    <2>5. QED
      BY <2>2, <2>3, <2>4 DEF Counted
  <1>9. Single /\ Late
    BY DEF Init, Single, Late, Alive, Accounting
  <1>10. InRow /\ UpToDate /\ ContiguousDelivery
    BY <1>2 DEF Init, InRow, UpToDate, Reached, ContiguousDelivery
  <1>11. QED
    BY <1>3, <1>4, <1>5, <1>6, <1>8, <1>9, <1>10, TypesFollow, HandedOver DEF IInv

LEMMA NextInvariant == IInv /\ [Next]_vars => IInv'
  <1> SUFFICES ASSUME IInv, [Next]_vars PROVE IInv'
    OBVIOUS
  <1>1. /\ Typed /\ Queued /\ Local /\ Registered /\ Passed /\ Apart /\ Unseen
        /\ Counted /\ Single /\ InRow /\ UpToDate /\ Late /\ ContiguousDelivery
    BY TypeIsTyped DEF IInv
  <1>2. Typed' /\ Queued' /\ Local' /\ Registered' /\ Counted'
    BY <1>1, TypedStep, QueuedStep, LocalStep, RegisteredStep, CountedStep
  <1>3. Passed' /\ Apart' /\ Unseen'
    BY <1>1, PassedStep, ApartStep, UnseenStep
  <1>4. Single' /\ InRow' /\ UpToDate' /\ Late' /\ ContiguousDelivery'
    BY <1>1, SingleStep, InRowStep, UpToDateStep, LateStep, ContiguousStep
  <1>5. TypeOK' /\ ExitedHandsOver'
    <2>1. (Typed /\ Queued /\ Local /\ Registered /\ Counted => TypeOK)'
      BY TypesFollow, PTL
    <2>2. (Local => ExitedHandsOver)'
      BY HandedOver, PTL
    <2>3. QED
      BY <1>2, <2>1, <2>2
  <1>6. QED
    BY <1>2, <1>3, <1>4, <1>5 DEF IInv

LEMMA Invariance == Spec => []IInv
  BY InitInvariant, NextInvariant, PTL DEF Spec

\* The attributes of the processor and the locals of its threads have their types.
THEOREM StreamTypes == Spec => []TypeOK
  <1>1. IInv => TypeOK
    BY DEF IInv
  <1>2. QED
    BY <1>1, Invariance, PTL

\* The counters account for every accepted event, whatever the threads do.
THEOREM NothingUnaccounted == Spec => []Conservation
  <1>1. IInv => Conservation
    BY DEF IInv, Counted
  <1>2. QED
    BY <1>1, Invariance, PTL

\* Without overlapping workers a registration sees every event of its time, in order.
THEOREM DeliveryInOrder == Spec => []ContiguousDelivery
  <1>1. IInv => ContiguousDelivery
    BY DEF IInv
  <1>2. QED
    BY <1>1, Invariance, PTL

\* A worker that ends has handed over what it collected.
THEOREM NothingLeftBehind == Spec => []ExitedHandsOver
  <1>1. IInv => ExitedHandsOver
    BY DEF IInv
  <1>2. QED
    BY <1>1, Invariance, PTL

\* EventStreamProcessor keeps EventDelivery's promise, overlap or not: every
\* step of it is a step of EventDelivery or leaves its state alone.
THEOREM KeepsPromise == Spec => Delivery
  <1>1. Init => Promise!Init
    BY DEF Init, Promise!Init
  <1>2. IInv /\ [Next]_vars => [Promise!Next]_(Promise!vars)
    <2>1. IInv => Typed /\ Queued /\ Local /\ Passed /\ Apart /\ Unseen
      BY TypeIsTyped DEF IInv
    <2>2. QED
      BY <2>1, PromiseStep
  <1>3. QED
    BY <1>1, <1>2, Invariance, PTL DEF Spec, Delivery, Promise!Spec

===============================================================================
