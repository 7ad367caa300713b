# TLA+ models of the GPU telemetry pipeline

The pipeline moves telemetry from CSV files to MongoDB: *streamers* read a file
and publish one message per row to a *queue service* (HTTP in front of Redis);
*collectors* poll the queue service, acknowledge messages and store them; an
*API gateway* answers queries. This directory holds TLA+ modules of the parts
that run concurrently, fail and recover, TLC configurations that check them on
small instances, and TLAPS proofs of the properties that matter most.

`PROJECT.json` lists every run with its properties, the mutant that shows each
property can fail, the source lines behind every definition, the hazards of the
code, the disagreements found between code and documentation, and the theorems.

## Inventory

| Component | State | Operations | Interacts with |
|---|---|---|---|
| Queue service, `internal/queueservice/redis_queue.go` | Redis list `queue:<topic>`, sorted set `pel:<topic>:<group>`, in-memory dead letters, context | Publish, FetchBatch, Ack, Nack, checkExpiredMessages (ticker), Close; SSE delivery (deprecated) | Redis commands; called by HTTP handlers |
| HTTP server, `http_server.go`, and `cmd/queueservice` | one goroutine per request; server and process state | publish, fetch, ack, nack, subscribe, stats; SIGTERM drains, then Close | clients by HTTP, RedisQueue by calls |
| HTTP queue client, `internal/mq/http_queue_client.go` | subscription table, one polling goroutine per subscription | Publish, Subscribe, poll, Ack, Nack, Unsubscribe, Shutdown | queue service by HTTP, collector by callback |
| Collector, `internal/collector/collector.go`, `cmd/collector` | bounded work queue, 50 workers, monitor goroutine, counters | handleMessage, worker, processMessage, Start with shutdown | client callback, repositories |
| In-memory queue, `internal/mq/inmemory_queue.go` | buffered channel, subscriber table, worker slots, WaitGroup, counters | Publish, Subscribe, Unsubscribe, dispatch, Stop, Close | handlers by callback |
| Streamer, `internal/streamer/streamer.go`, and batch lock, `batch_lock.go` | Redis key with TTL, current batch, deferred releases | Start loop, streamFile, processRecord, AcquireLock, ReleaseLock | Redis, queue client |
| CSV parser, `internal/parser/csv_parser.go` | header map | ParseHeader, ParseRow, Next | streamer by calls |
| Storage, `internal/storage/mongodb` | the collections `gpus` and `metrics`, without unique index | Store (upsert of a GPU, insert of a point), GetByUUID, List, GetByGPU | collectors and gateway by calls, MongoDB |
| API gateway, `cmd/api-gateway`, `internal/api` | none; one goroutine per request | ListGPUs, GetGPU, GetGPUTelemetry | clients by HTTP, repositories |
| Domain types, configuration, charts | none | - | - |

What is hard: one logical operation of the queue is several Redis commands, so
handlers, the timeout checker and crashes interleave between them; Ack and the
checker act on copies of the PEL that may be stale; clients give up while
handlers go on; the collector's shutdown involves five kinds of goroutines that
all react to the same cancel; Go's `select` picks at random among ready cases;
the streamers' lock expires by time; a message is stored by two database calls
that may fail one by one, in any number of workers and again after a redelivery.
The correctness of each part: nothing is
lost silently and copies stay bounded (queue service); acknowledged messages are
accounted for and shutdown ends (collector); Stop waits and drains (in-memory
queue); one streamer at a time, and no lock left behind (streamer); no poller out
of reach, and none that outlives a Shutdown unknown to anybody (client); what the
API answers was in a file, and what was stored can be found (data path).

## Modules

* `Lists` - membership in a sequence, number of occurrences, increasing sequences.
  `ListTheorems` - what the proofs use of them: how an append, a push and a pop
  change membership, count and freedom from repetition, cardinalities of sets that
  gain or lose an element, and induction (see Proofs).
* `RedisQueue` - the queue service with its clients at the interface, one topic
  and one group. A Redis command is one atomic step. `queue` and `pel` survive a
  crash; `pc`, `hand`, `ent`, `got`, `tries` are the locals of the handler
  goroutines, `chkPc`, `chkSnap`, `chkMsg` those of `checkExpiredMessages`,
  `call` and `inbox` those of the polling consumers. A message is its ID; an
  entry is a message with a stamp (its `VisibleAt`) and a delivery count. Time is
  abstract: `Expire` lets the instant of an entry pass at any time, whoever is
  working on the entry; the history variable `overdue` records the messages to which
  that happened while somebody could still settle them. Where a command's reply
  can be lost after it took effect and the caller then acts differently, both
  outcomes are there. Retries inside the Redis client library are not modelled.
* `MCRedisQueue` - its instances.
* `AtLeastOnce` - what the queue service promises, without its data structures:
  a published message stays owed until it is acknowledged or dead-lettered, or a
  failure loses it. `RedisQueue` implements it (`ImplementsAtLeastOnce`), with
  `owed` mapped to the messages that some list, PEL entry or goroutine will still
  deliver and `failures` to the sum of failed commands and stops.
* `GroupDelivery`, `MCGroupDelivery` - the SSE delivery path of the same service:
  `handleSubscribe` requests, the registry `group.Consumers`, the delivery
  goroutines with their copy of the consumer list, and Close. A request owns the
  channel it registers. The PEL is a set of messages, and Ack, Nack and timeout
  are one step each, because `RedisQueue` has their steps; so several entries of
  one message are not told apart here. The round-robin index runs over the ids in
  map order, which is arbitrary, so the copy is any order of them, served from its
  head. A written event may reach nobody.
* `Collector`, `MCCollector` - one collector process with its polling goroutine.
  The queue service is reduced to available, leased and acknowledged messages.
* `InMemoryQueue`, `MCInMemoryQueue` - one topic, after Start. Each Publish is a
  goroutine with its steps; the deferred function of a handler is split where
  Stop can observe it. The parent context may end on its own, Stop and Close are
  separate calls. `early` records what was accepted before `q.ctx` was done. A second
  Start after Stop is not modelled.
* `QueueClient`, `MCQueueClient` - the subscription table of one HTTP queue client:
  concurrent calls of Subscribe, Unsubscribe and Shutdown, each split at its locks
  and waits, and one polling goroutine per subscription, which looks at its context
  only before a fetch. `cancelled`, `parentDone` and `closed` are the three contexts
  (the subscription's, the caller's, the client's own, which only Ack and Nack use).
  `raced` and `tardy` record Subscribes that overlapped another one of the topic, or
  stored their entry after Shutdown copied the table.
  The queue service is reduced as in `Collector`.
* `CSVParser`, `Repositories` - pure operators: reading a file of cells under a
  header, and what the MongoDB calls do to a collection (a sequence of documents).
  `ReadAll` is the increasing enumeration of the rows that are accepted, which is
  what the loop that appends them one by one builds.
  What the server leaves open is a set of results. Times are instants of a clock;
  a BSON date has `Resolution` of them.
* `Pipeline`, `MCPipeline` - composes both with the streamer's publishing, the
  workers' `processMessage` and the gateway's handlers: the path of the data. An
  upsert that finds no document is two steps (find, insert). When a collector dies, a
  write in flight has either taken effect before (the worker's own step) or never
  does; one that the server completes only later is left out. Of the metadata
  columns `Hostname` and `pod` stand for all required and all optional ones. Inner
  steps of queue, collector and streamer lock are in their own modules; here one
  streamer reads at a time, which `Streamer` shows within the TTL.
* `Streamer`, `MCStreamer` - all streamers with their shared lock. A batch is
  the number of records left; rows that do not parse are not counted in.
* `RedisQueueProofs`, `GroupDeliveryProofs`, `CollectorProofs`,
  `InMemoryQueueProofs`, `QueueClientProofs`, `StreamerProofs`, `PipelineProofs` -
  the theorems.

Definitions whose comment says *mutant* are faulty variants of the definition
that follows them (a dropped guard, a forgotten command, an off-by-one). No
specification uses them; each shows that some property is able to fail.

## Runs

Passing runs:

| Run | Question |
|---|---|
| `redis_failures` | Two consumers, two handlers and the checker race over two messages, entries expire at any time, and two Redis commands fail or one fails and a Nack happens: are the losses exactly those with no answer in the code, is there at most one extra copy per Nack, error or stop, do threads stay coherent, is every step one of `AtLeastOnce`? Yes. Can an acknowledged message come back? Only after an error, or if this very message expired while somebody could still settle it (`AckIsFinal`). |
| `redis_deadletter` | Batches of two with max-retries 1, a lost reply, a Nack and a stop, where dead-lettering, the panic in the middle of a batch and shutdown happen: is a dead letter final, is every step one of `AtLeastOnce`, so that nothing leaves the queue unaccounted for, and does every message end acknowledged, dead-lettered or lost to the stop (`EventuallySettled`)? Yes; a Nack, an error or a stop can leave a dead letter deliverable. |
| `collector` | Send on a closed channel, wrong counters, acknowledged messages without a trace? None. Does Unsubscribe return, are enqueued messages processed? Yes. |
| `inmemory` | Does Stop wait and drain (`StopCompletes`), do counters add up, do Stop, Close and Publish end (`CallsReturn`), is what was accepted while the queue ran served whether Stop, Close or only the parent context ends it (`AcceptedIsServed`)? Yes. |
| `groups` | SSE requests come, go and return under the same id while two delivery goroutines run: is a closed channel ever used, is a message lost or delivered twice other than by a redelivery, an error or a stop, is a waiting message taken while somebody is registered, does Close end? All hold. |
| `streamer` | Is there one streamer at a time within the TTL, is no lock left behind after a stop, does a late release after an overrun spare another's lock, does a cancelled streamer stop? All hold. |
| `client` | Subscribe, Subscribe, Unsubscribe and Shutdown of one client race: can a poller get out of reach, can two poll one topic (`PollersInReach`), which pollers survive a Shutdown that returned nil (`ShutdownLeavesKnown`), do Unsubscribe and Shutdown return? Out of reach or two at once only when Subscribes overlap; survivors are those an Unsubscribe took and still waits for, those stored after Shutdown copied the table and those of overlapping Subscribes, each of which happens; Unsubscribe returns, Shutdown once the callers' contexts are done. |
| `pipeline` | From three shapes of file to the API's answers with one failure anywhere: is what is stored in the file under the date of its batch (`FaithfulToFile`), do GPU documents and telemetry belong together, is an answer sound and complete (`AnswersExact`)? Yes; a failed GPU store hides telemetry, a failed insert leaves a GPU without any, racing first upserts make two documents, and a window is exact to the millisecond only. |

Violation runs, each a disagreement between the code and what a document,
comment or test of the repository says (quoted in `PROJECT.json`):

| Run | What TLC shows |
|---|---|
| `redis_retries` | `EventuallySettled` with max-retries 3 and a batch the list cannot fill (the client always asks for 500): the fetch moves the message to the PEL and panics on the empty list, because `popMessage` returns `(nil, nil)`; the entry expires with delivery count 1 and is requeued, for ever. The message reaches neither a consumer nor the dead-letter queue. |
| `redis_duplicate` | `NoDuplication`: the checker has scanned an expired entry, the consumer acknowledges it, the checker ignores that its ZREM removed nothing and requeues it. No failure is needed. |
| `collector_hang` | Workers stop with items queued, and `Start` never returns. |
| `collector_ack_early` | Messages are acknowledged before they are stored and die with the process. |

Seen while modelling, without a run of their own: a Publish to the in-memory queue
after the context ended, with or without a Stop, may succeed and never be delivered,
and one that overlaps Close may panic on the closed channel, although the interface
promises an error; `Shutdown` of the client is commented "Cancel all subscription
contexts" but cancels only its own, so without a deadline it waits for pollers until
the callers of Subscribe stop them, while Acks already fail; overlapping Subscribes
leave a poller nobody can unsubscribe; two rows of a file with the same uuid and
metric share what `GetUniqueKey` calls unique; a GPU whose uuid does not have the
gateway's format is stored and listed, but its telemetry is only answered with 400;
a persistent read error of the CSV file keeps `streamFile` in its loop, which does
not look at the context; `requeueMessage` pushes to the end BRPOP takes from, so a
requeued message overtakes what waits although the comment says it is processed
later; a stop between BRPOP and ZADD loses a message (`dropped` in `NoSilentLoss`);
dead letters are appended to a slice of which only the length is read and which a
restart forgets; `RegisterConsumer` starts a second delivery goroutine when a group
was emptied and filled again, although its comment says "only if not already
started" (harmless for duplicates, as `DeliveredOnce` shows); `Start` of the
collector may return while a worker still stores; a batch longer than the lock's TTL
runs beside the next one (`overran` in `OneStreamer`), since `ExtendLock` has no
caller.

### Bounds

Two messages are enough for order and for one message being affected by work on
another; two handlers for every pairwise race of fetch, Ack and Nack, the checker
being a third thread; two consumers where a message must pass to another one. Stamps
only need to be fresh: there is one per entry that can be remembered at a time (with
fewer, `AddToPEL` would wait). `MaxNacks`, `MaxTimeouts`, `MaxFaults` and
`MaxCrashes` bound environment events that otherwise repeat for ever; 1 of each puts
the event at every point of every interleaving, and two Redis errors reach the
requeue that fails after a failed ZADD. They are spread over two runs:
`redis_failures` has two consumers with two errors, or an error and a Nack
(`TwoEvents`), `redis_deadletter` whole batches with a stop, a lost reply and a
Nack; the theorems cover any number of all of them together. In the collector a work
queue of one slot and batches of two messages make it full, idle and closed with
items inside; one message is invalid. In the in-memory queue one buffer slot and one
worker slot make every wait happen. In the group delivery two ids and two requests
make distinct consumers, a collision under one id and an emptied group; two
goroutines and one channel slot make stale lists and full channels. Two streamers
let one hold the lock or return late while the other waits or streams; the theorems
cover any number. For the client two Subscribes of one topic overlap or follow each
other, one Unsubscribe falls between any of their steps, two messages make a batch
that is interrupted, and one failure loses a reply or lets a lease expire; the
theorems cover any number of topics and calls. In the data path the three files have
a padded name, another order of columns, a doubled and a missing column, rows that
are too short or lack a field; two workers race; two instants give two batches in
one or two milliseconds; one request lists, one gets, two query with bounds on and
off a date, one is refused; one failure or redelivery happens at any point. A
foreign message without a metric name makes the collector's refusal reachable. The
symmetric sets are used alike by the specifications; runs that check liveness use no
symmetry.

### Fairness

Weak fairness is assumed of goroutines (the Go scheduler runs what can run), of the
ticker and of time, of the consumer's loop, and of Kubernetes restarting a
container. It is not assumed of Nacks, publishes, cancels, failures or crashes, nor
that a caller's context ends. In the queue service time is fair for each entry: its
instant comes unless it was removed. `EventuallySettled` is checked with batches
larger than what the list holds. With max-retries 1 it holds without any assumption
on how fast consumers are, because a message that expires is dead-lettered; with
max-retries above 1 it fails (`redis_retries`). In the client, polling goroutines
run, their requests end by the HTTP client's timeout and handlers return (the
collector's does within five seconds); a call that was made goes on, but nobody is
bound to cancel a context or to give Shutdown a deadline, which is why the part of
`CallsReturn` about Shutdown asks for done contexts.

## Proofs

The theorems hold for all constants satisfying the named assumptions: `None` is
none of the values, sizes and bounds are naturals (positive where the code needs a
buffer), and the sets whose members are counted (handlers, connections, delivery
goroutines, workers) are finite. Nothing is assumed of the number of messages,
failures, crashes or restarts. Each proof has one lemma per group of actions and
one step per action.

`RedisQueueProofs`:

* `TypeCorrect`: `TypeOK` is not inductive alone, since the value a handler will
  push or remove is only well typed because of where the handler is; `ThreadInv`
  says so. `Base` adds that the service only leaves "up" by a counted stop.
* `NothingLostSilently`: `NoSilentLoss` is inductive relative to `Base`. The
  proof takes one message and follows it through every action: `Safe(m)`. The
  conjunct of `ThreadInv` that the entry picked by Ack or Nack belongs to the
  message in hand is what makes the ZREM steps go through.
* `DeadLetterUnreachable`: with `CountInv`, every entry in the PEL or in a scan
  has count 1. So for every max-retries above 1 the dead-letter queue stays empty,
  which is why `EventuallySettled` fails there (`redis_retries`).
* `Implements`, `Spec => ImplementsAtLeastOnce`: each action is a step or a stutter
  of `AtLeastOnce` under the mapping. Most move one message between places that all
  count as owed; the argument needs `Base` for what a goroutine holds, and `Known`,
  that whatever is held was published. `PromiseKept`: the abstract queue's
  `Promise`, inductive there, holds of the service.
* `RedeliveryMoves` (`CopiesBounded`) and `DeadLettersStayDead`: the number of
  copies alone is not inductive, because the checker requeues an entry of its scan
  whoever removed it since, and a Nack takes an entry it will push later.
  `Weight(m)` therefore also counts the entries of the scan, the handlers that
  carry `m` or go to Nack it, what the checker is about to push, and one copy that
  a draining service has to spare; no step raises it by more than it raises the
  budget of publishes, errors, stops and Nacks (`Light`). A dead letter has used up
  the whole budget of its message. The bound is per message and does not depend
  on the number of timeouts: redelivery moves, it does not copy.
* `AckedForGood`: `AckIsFinal`, without an assumption on the timeout. The invariant
  is `Sole`, which holds until the first Redis error and speaks of the messages in
  `Fine`, those not in `overdue`; the others may be anywhere twice (`redis_duplicate`
  shows one). A fine message is in one place (the list, one PEL entry, or one hand)
  and has at most one ticket, the right to settle it, which is in a consumer's batch,
  in an answer on its way, or with the handler that settles. A ticket means that its
  entry has not expired, or else the message would be overdue, so the checker is not
  working on it; the ZREM of an Ack then removes the only entry, and with the ticket
  used up nothing is left to bring the message back. A call given up or a crash may
  leave an entry without a ticket; that entry expires and is requeued.

`GroupDeliveryProofs`:

* `NoClosedChannelUsed`: `RegisteredOpen`. It is inductive with the types of the
  registry; the argument is that an entry refers to a request served under that
  very id, so a request's end removes the only entry that can refer to it.
* `DeliveryTypes`, with `Working`: what a goroutine holds at each point of its loop.
* `NoMessageSkipped` (`NoSilentLoss`): every branch of a turn (gone consumer, full
  channel, failed ZADD, failed requeue) leaves the message in the PEL or in the list,
  or records the drop and the failure it is blamed on.
* `NoDuplicateDelivery` (`DeliveredOnce`): with `KnownInv` (an unpublished message
  is nowhere) the four counts are followed through each action.

`CollectorProofs`:

* `CollectorTypes`, with what the poller and a busy worker hold. `ClosedAfterPolling`
  (`NoSendOnClosed`) with `CloseInv`.
* `AckedNotForgotten` (`AckedAccounted`): the verdict is reached before the Ack is
  sent, so the invariant is about it: what is going to be acknowledged is already
  accounted for (`VerdictInv`), and what is accounted for stays so.
* `CountersBalance` (`StatsBalance`): a worker is busy exactly between the two
  counters it moves.

`InMemoryQueueProofs`:

* `QueueTypes`: that the pool is never overdrawn and the WaitGroup never negative
  needs `CountInv`: wg is the dispatcher's share plus the handlers that have not yet
  called Done, the slots in use are the handlers that have not yet released theirs.
  It rests on `RouteInv`: a message is in one place of its way.
* `StopIsComplete` (`StopCompletes`): from `CountInv`, wg = 0 means that nothing
  runs, and it stays so (`Quiet`); `DrainInv` says that a dispatcher that is done
  left no early message in the channel.
* `CountersBalance` (`StatsBalance`) by counting what each step moves.

`QueueClientProofs`, for any topics, subscriptions, calls and messages:

* `ClientTypes`: `TypeOK`, inductive with `TypeInv`.
* `SubscriptionsReachable` (`PollersInReach`, that is `Reachable` and
  `OneActivePoller`): with `TableInv`, that two Subscribes between check and store of
  a topic are known to overlap, that an overwritten entry comes from such a race, and
  that what an Unsubscribe took out of the table is cancelled once it is past its
  cancel. `ShutdownLeavesOnly` (`ShutdownLeavesKnown`) from it with `PollInv`, that a
  poller only exists after its Subscribe stored it, and that what Shutdown waited for
  has ended.
* `ForgottenWasHandled` (`AckedHandled`) with `AnswerInv`: who goes to acknowledge
  has a message its handler accepted.

`StreamerProofs`, for any number of streamers:

* `StreamerTypes`, `LockExcludes` (`OneStreamer` and `StreamerOwnsLock`; owning
  the lock within the TTL is the inductive part, exclusion follows),
  `LateReleaseHarmless` (the action property `ReleaseOwnOnly`) and `StopReleases`
  (`StoppedReleased`: an owner without a failure has the deferred release before it).

`PipelineProofs`, for any files of cells, workers, requests, batches and failures:

* The parser: `ColumnIndex` and `ColumnText` (a value comes from a column of that
  name, padded or doubled), `ReadRows` (every record is made from an accepted row),
  `ReadTypes`. That the `CHOOSE` of `InOrder` finds an enumeration is
  `ListTheorems!CanBeListed`.
* `PipelineTypes`, `StoredIsReachable` and `DocumentsUnique` from one invariant
  `Inv`: types and what each worker works on; a valid message has the time of its
  batch; a worker that stores telemetry has seen to the GPU; a worker
  about to insert a document that exists by now, or beside another one, is known to
  race.
* `DataIsFaithful` (`FaithfulToFile`) with `Origin`: a message is foreign, or made
  from one row of a file with the time of a batch that was read.
* `ListedIsServed` (`ListedHasTelemetry`) with `ListedInv`; `StoredOncePerDelivery`
  (`StoredPerDelivery`) with `CoveredInv`: the points stored and the workers about
  to store an equal one are together not more than the deliveries of messages that
  make it.

Induction over numbers works where the statement is put as a set: `ListTheorems!Least`
takes a least element from the library's `WFMin`, and `AllNat` concludes from it that
a set with 0 and successors contains `Nat`. The library's induction theorems with an
operator as parameter cannot be used with the installed provers.

Only model-checked: all liveness properties (fairness and `ENABLED` are out of the
prover's reach) and `AnswersExact`, an action property about sorted and limited query
results.

## Not modelled

* The client's SSE reader: deprecated, without a caller; the server's side of it is
  `GroupDelivery`.
* `BulkStore`, `Count`, `ExtendLock`, `ToGPU`, `GetUniqueKey`, `GetCompositeKey`:
  no caller outside tests.
* Stats, health, middleware and swagger: they read, log or serve constants.
* Configuration, time utilities and charts: they give values to what are constants
  here, and justify restarts.
* Several topics or groups of the queue service: they share nothing but the
  checker's loop. A second Start of the in-memory queue after Stop. Retries inside
  the Redis and MongoDB drivers. A CSV file that changes or fails while it is read.

## Plan

1. Core (done): queue service with polling and SSE delivery, collector, in-memory
   queue, streamers, with the first theorems.
2. Extensions (done): the abstract at-least-once queue and its refinement, the
   client's subscription table, the path of the data from file to answer.
3. Proofs (done but for one): every safety invariant the runs check is a theorem.
   Still open: the action property `AnswersExact`, which needs lemmas about sorting.
