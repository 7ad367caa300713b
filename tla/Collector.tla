----------------------------- MODULE Collector -----------------------------
(***************************************************************************)
(* One collector process (internal/collector/collector.go) on top of its   *)
(* HTTPQueueClient subscription (internal/mq/http_queue_client.go): the    *)
(* polling goroutine, handleMessage, the bounded work queue, the worker    *)
(* pool, the monitor goroutine, and Start with its shutdown.               *)
(*                                                                         *)
(* The queue service is external here: a message is available, leased to   *)
(* this collector, or acknowledged.                                        *)
(***************************************************************************)
EXTENDS Lists

CONSTANTS
    Msgs,           \* messages of the topic
    Bad,            \* messages whose payload does not unmarshal or validate
    Workers,        \* the goroutines of the pool (WorkerPoolSize)
    QueueSize,      \* capacity of workQueue (WorkQueueSize)
    Prefetch,       \* messages of one fetch
    None,           \* "no message"
    MaxRedeliveries,\* bound: leases that time out
    MaxFailures     \* bound: failed Acks, Nacks and repository calls

ASSUME BadAssumption == Bad \subseteq Msgs
ASSUME NoneAssumption == None \notin Msgs
ASSUME SizeAssumption == /\ QueueSize \in Nat \ {0} /\ Prefetch \in Nat \ {0}
                         /\ MaxRedeliveries \in Nat /\ MaxFailures \in Nat
ASSUME WorkersAssumption == IsFiniteSet(Workers)

VARIABLES
    avail,      \* messages the queue service can deliver
    leased,     \* messages in the PEL for this collector
    acked,      \* messages the queue service was told to forget
    poll,       \* polling goroutine: "off", "fetch", "handle", "settle", "done"
    batch,      \* messages of the fetched batch still to be handled
    cur,        \* the message handleMessage was called with
    verdict,    \* what handleMessage returned for cur: "ack" (nil) or "nack"
    workQueue,  \* the buffered channel
    wqClosed,   \* close(c.workQueue) happened
    wpc,        \* worker: "select", "parse", "store", "stopped"
    job,        \* worker: the message it processes
    monitor,    \* monitor goroutine: "wait", "drain", "closed" (workersDone)
    start,      \* Start: "init", "waiting", "unsub", "join", "returned", "exited"
    cancelled,  \* ctx.Done(): SIGTERM reached the process
    processed, errors, telemetryStored,  \* the collector's counters
    stored,     \* history: messages telemetryRepo.Store accepted
    failed,     \* history: messages given up with an error counted
    fullDrops,  \* history: how often the full work queue dropped one
    abandoned,  \* history: messages in workQueue or a worker at exit
    redeliveries, failures

remoteVars == <<avail, leased, acked>>
pollVars   == <<poll, batch, cur, verdict>>
poolVars   == <<workQueue, wqClosed, wpc, job>>
ctlVars    == <<monitor, start, cancelled>>
statVars   == <<processed, errors, telemetryStored>>
hisVars    == <<stored, failed, fullDrops, abandoned>>
budVars    == <<redeliveries, failures>>
vars == <<remoteVars, pollVars, poolVars, ctlVars, statVars, hisVars, budVars>>

Running == start # "exited"
Busy(w) == wpc[w] \in {"parse", "store"}

Init ==
    /\ avail = Msgs /\ leased = {} /\ acked = {}
    /\ poll = "off" /\ batch = {} /\ cur = None /\ verdict = "ack"
    /\ workQueue = <<>> /\ wqClosed = FALSE
    /\ wpc = [w \in Workers |-> "select"] /\ job = [w \in Workers |-> None]
    /\ monitor = "wait" /\ start = "init" /\ cancelled = FALSE
    /\ processed = 0 /\ errors = 0 /\ telemetryStored = 0
    /\ stored = {} /\ failed = {} /\ fullDrops = 0 /\ abandoned = {}
    /\ redeliveries = 0 /\ failures = 0

(* The send on the buffered channel does not block (mutant: one too many). *)
HasRoomTooMuch == Len(workQueue) <= QueueSize
HasRoom == Len(workQueue) < QueueSize

(* An Ack, a Nack or a repository call fails.                              *)
Fail == failures < MaxFailures /\ failures' = failures + 1

-----------------------------------------------------------------------------
(* HTTPQueueClient.handleBatchPolling.  The subscription context derives   *)
(* from Start's, so SIGTERM cancels it; it is looked at between batches,   *)
(* not between the messages of a batch.                                    *)

PollFetch ==
    /\ Running /\ poll = "fetch" /\ ~cancelled
    /\ \E S \in SUBSET avail :
         /\ S # {} /\ Cardinality(S) <= Prefetch
         /\ batch' = S /\ avail' = avail \ S /\ leased' = leased \cup S
    /\ poll' = "handle"
    /\ UNCHANGED <<acked, cur, verdict, poolVars, ctlVars, statVars, hisVars, budVars>>

PollExitMissing == FALSE   \* mutant: the loop does not look at ctx.Done
PollExit ==
    /\ Running /\ poll = "fetch" /\ cancelled
    /\ poll' = "done"
    /\ UNCHANGED <<remoteVars, batch, cur, verdict, poolVars, ctlVars, statVars, hisVars, budVars>>

(* handleMessage: a select over the channel send, 5 seconds and ctx.Done;  *)
(* when several are ready the choice is random.                            *)
HandleEnqueue(m) ==
    /\ Running /\ poll = "handle" /\ m \in batch /\ HasRoom
    /\ workQueue' = Append(workQueue, m)
    /\ cur' = m /\ verdict' = "ack" /\ poll' = "settle"
    /\ UNCHANGED <<remoteVars, batch, wqClosed, wpc, job, ctlVars, statVars, hisVars, budVars>>

(* "Work queue is full, drop message": nil is returned, so it is ACKed.    *)
HandleTimeout(m) ==
    /\ Running /\ poll = "handle" /\ m \in batch /\ Len(workQueue) = QueueSize
    /\ errors' = errors + 1 /\ failed' = failed \cup {m} /\ fullDrops' = fullDrops + 1
    /\ cur' = m /\ verdict' = "ack" /\ poll' = "settle"
    /\ UNCHANGED <<remoteVars, batch, poolVars, ctlVars, processed, telemetryStored,
                   stored, abandoned, budVars>>

(* ctx.Err() is returned, so the message is NACKed (mutant: nil is).       *)
HandleCancelledNil(m) ==
    /\ Running /\ poll = "handle" /\ m \in batch /\ cancelled
    /\ cur' = m /\ verdict' = "ack" /\ poll' = "settle"
    /\ UNCHANGED <<remoteVars, batch, poolVars, ctlVars, statVars, hisVars, budVars>>

HandleCancelled(m) ==
    /\ Running /\ poll = "handle" /\ m \in batch /\ cancelled
    /\ cur' = m /\ verdict' = "nack" /\ poll' = "settle"
    /\ UNCHANGED <<remoteVars, batch, poolVars, ctlVars, statVars, hisVars, budVars>>

(* Ack or Nack of cur; a failure, such as "message not found in PEL" after *)
(* a timeout, is only logged.  Then the next message of the batch, or the  *)
(* next fetch.                                                             *)
Settle ==
    /\ Running /\ poll = "settle"
    /\ \/ /\ verdict = "ack" /\ cur \in leased
          /\ leased' = leased \ {cur} /\ acked' = acked \cup {cur}
          /\ UNCHANGED <<avail, failures>>
       \/ /\ verdict = "nack" /\ cur \in leased
          /\ leased' = leased \ {cur} /\ avail' = avail \cup {cur}
          /\ UNCHANGED <<acked, failures>>
       \/ cur \notin leased /\ UNCHANGED <<remoteVars, failures>>
       \/ Fail /\ UNCHANGED remoteVars
    /\ batch' = batch \ {cur} /\ cur' = None
    /\ poll' = IF batch' = {} THEN "fetch" ELSE "handle"
    /\ UNCHANGED <<verdict, poolVars, ctlVars, statVars, hisVars, redeliveries>>

(* The visibility timeout of the queue service (external): a lease ends.   *)
Redeliver(m) ==
    /\ m \in leased /\ redeliveries < MaxRedeliveries
    /\ leased' = leased \ {m} /\ avail' = avail \cup {m}
    /\ redeliveries' = redeliveries + 1
    /\ UNCHANGED <<acked, pollVars, poolVars, ctlVars, statVars, hisVars, failures>>

-----------------------------------------------------------------------------
(* The worker pool.                                                        *)

(* Both cases of the worker's select may be ready after a cancel.          *)
WorkerTake(w) ==
    /\ Running /\ wpc[w] = "select" /\ workQueue # <<>>
    /\ job' = [job EXCEPT ![w] = Head(workQueue)]
    /\ workQueue' = Tail(workQueue)
    /\ wpc' = [wpc EXCEPT ![w] = "parse"]
    /\ processed' = processed + 1
    /\ UNCHANGED <<remoteVars, pollVars, wqClosed, ctlVars, errors, telemetryStored,
                   hisVars, budVars>>

MayStopIdle == cancelled \/ workQueue = <<>>   \* mutant: an empty queue ends the worker
MayStop == cancelled \/ (wqClosed /\ workQueue = <<>>)

WorkerStop(w) ==
    /\ Running /\ wpc[w] = "select" /\ MayStop
    /\ wpc' = [wpc EXCEPT ![w] = "stopped"]
    /\ UNCHANGED <<remoteVars, pollVars, workQueue, wqClosed, job, ctlVars, statVars,
                   hisVars, budVars>>

(* The end of processMessage, with the outcome counted.                    *)
Finish(w, ok) ==
    /\ wpc' = [wpc EXCEPT ![w] = "select"] /\ job' = [job EXCEPT ![w] = None]
    /\ IF ok THEN /\ telemetryStored' = telemetryStored + 1
                  /\ stored' = stored \cup {job[w]} /\ UNCHANGED <<errors, failed>>
             ELSE /\ errors' = errors + 1
                  /\ failed' = failed \cup {job[w]} /\ UNCHANGED <<telemetryStored, stored>>
    /\ UNCHANGED <<remoteVars, pollVars, workQueue, wqClosed, ctlVars, processed,
                   fullDrops, abandoned, redeliveries>>

(* json.Unmarshal or validateTelemetry fails (mutant: without return).     *)
WorkerRejectGoesOn(w) ==
    /\ Running /\ wpc[w] = "parse" /\ job[w] \in Bad
    /\ errors' = errors + 1 /\ failed' = failed \cup {job[w]}
    /\ wpc' = [wpc EXCEPT ![w] = "store"]
    /\ UNCHANGED <<remoteVars, pollVars, workQueue, wqClosed, job, ctlVars, processed,
                   telemetryStored, stored, fullDrops, abandoned, budVars>>

WorkerReject(w) ==
    /\ Running /\ wpc[w] = "parse" /\ job[w] \in Bad
    /\ Finish(w, FALSE) /\ UNCHANGED failures

(* gpuRepo.Store: its error is not fatal.                                  *)
WorkerStoreGPU(w) ==
    /\ Running /\ wpc[w] = "parse" /\ job[w] \notin Bad
    /\ wpc' = [wpc EXCEPT ![w] = "store"]
    /\ UNCHANGED <<remoteVars, pollVars, workQueue, wqClosed, job, ctlVars, statVars,
                   hisVars, budVars>>

WorkerStore(w) ==
    /\ Running /\ wpc[w] = "store"
    /\ \/ Finish(w, TRUE) /\ UNCHANGED failures
       \/ Finish(w, FALSE) /\ Fail

-----------------------------------------------------------------------------
(* Start, the monitor goroutine and main.                                  *)

(* The monitor waits for ctx.Done, then until the work queue looks empty.  *)
MonitorWake ==
    /\ Running /\ monitor = "wait" /\ cancelled
    /\ monitor' = "drain"
    /\ UNCHANGED <<remoteVars, pollVars, poolVars, start, cancelled, statVars, hisVars, budVars>>

MonitorClose ==
    /\ Running /\ monitor = "drain" /\ workQueue = <<>>
    /\ monitor' = "closed"
    /\ UNCHANGED <<remoteVars, pollVars, poolVars, start, cancelled, statVars, hisVars, budVars>>

Subscribe ==
    /\ start = "init"
    /\ start' = "waiting" /\ poll' = "fetch"
    /\ UNCHANGED <<remoteVars, batch, cur, verdict, poolVars, monitor, cancelled,
                   statVars, hisVars, budVars>>

(* SIGTERM: main cancels ctx and waits for Start.                          *)
Cancel ==
    /\ Running /\ ~cancelled
    /\ cancelled' = TRUE
    /\ UNCHANGED <<remoteVars, pollVars, poolVars, monitor, start, statVars, hisVars, budVars>>

Unsubscribe ==
    /\ start = "waiting" /\ cancelled
    /\ start' = "unsub"
    /\ UNCHANGED <<remoteVars, pollVars, poolVars, monitor, cancelled, statVars, hisVars, budVars>>

(* <-sub.doneChan (mutant: Unsubscribe returns after sub.cancel()).        *)
UnsubscribedEarly == cancelled
Unsubscribed == poll = "done"

(* Unsubscribe returns, then close(c.workQueue).                           *)
CloseQueue ==
    /\ start = "unsub" /\ Unsubscribed
    /\ start' = "join" /\ wqClosed' = TRUE
    /\ UNCHANGED <<remoteVars, pollVars, workQueue, wpc, job, monitor, cancelled,
                   statVars, hisVars, budVars>>

StartReturn ==
    /\ start = "join" /\ monitor = "closed"
    /\ start' = "returned"
    /\ UNCHANGED <<remoteVars, pollVars, poolVars, monitor, cancelled, statVars, hisVars, budVars>>

(* The process ends and its goroutines with it: main returns after Start,  *)
(* or the container is killed.                                             *)
Gone ==
    /\ start' = "exited"
    /\ abandoned' = {m \in Msgs : In(m, workQueue) \/ \E w \in Workers : Busy(w) /\ job[w] = m}
    /\ UNCHANGED <<remoteVars, pollVars, poolVars, monitor, cancelled, statVars,
                   stored, failed, fullDrops, budVars>>

Exit == start = "returned" /\ Gone
Kill == start \notin {"returned", "exited"} /\ Gone

Next ==
    \/ PollFetch \/ PollExit \/ Settle
    \/ \E m \in Msgs : HandleEnqueue(m) \/ HandleTimeout(m) \/ HandleCancelled(m) \/ Redeliver(m)
    \/ \E w \in Workers : \/ WorkerTake(w) \/ WorkerStop(w) \/ WorkerReject(w)
                          \/ WorkerStoreGPU(w) \/ WorkerStore(w)
    \/ MonitorWake \/ MonitorClose
    \/ Subscribe \/ Cancel \/ Unsubscribe \/ CloseQueue \/ StartReturn \/ Exit \/ Kill

Spec == Init /\ [][Next]_vars

(* The Go scheduler runs every goroutine that can run, and the process is  *)
(* not bound to be cancelled or killed.                                    *)
PollStep ==
    \/ PollFetch \/ PollExit \/ Settle
    \/ \E m \in Msgs : HandleEnqueue(m) \/ HandleTimeout(m) \/ HandleCancelled(m)
WorkerStep(w) == \/ WorkerTake(w) \/ WorkerStop(w) \/ WorkerReject(w)
                 \/ WorkerStoreGPU(w) \/ WorkerStore(w)

Fairness ==
    /\ WF_vars(PollStep)
    /\ \A w \in Workers : WF_vars(WorkerStep(w))
    /\ WF_vars(MonitorWake \/ MonitorClose)
    /\ WF_vars(Subscribe \/ Unsubscribe \/ CloseQueue \/ StartReturn)

FairSpec == Spec /\ Fairness

-----------------------------------------------------------------------------
(* Every variable has its type, and the channel never exceeds its capacity.*)
TypeOK ==
    /\ avail \in SUBSET Msgs /\ leased \in SUBSET Msgs /\ acked \in SUBSET Msgs
    /\ poll \in {"off", "fetch", "handle", "settle", "done"}
    /\ batch \in SUBSET Msgs /\ cur \in Msgs \cup {None} /\ verdict \in {"ack", "nack"}
    /\ workQueue \in Seq(Msgs) /\ Len(workQueue) <= QueueSize /\ wqClosed \in BOOLEAN
    /\ wpc \in [Workers -> {"select", "parse", "store", "stopped"}]
    /\ job \in [Workers -> Msgs \cup {None}]
    /\ monitor \in {"wait", "drain", "closed"}
    /\ start \in {"init", "waiting", "unsub", "join", "returned", "exited"}
    /\ cancelled \in BOOLEAN
    /\ processed \in Nat /\ errors \in Nat /\ telemetryStored \in Nat /\ fullDrops \in Nat
    /\ stored \in SUBSET Msgs /\ failed \in SUBSET Msgs /\ abandoned \in SUBSET Msgs
    /\ redeliveries \in 0..MaxRedeliveries /\ failures \in 0..MaxFailures

(* Nothing is sent on the closed work queue: Start closes it only after    *)
(* Unsubscribe has waited for the polling goroutine, whatever part of a    *)
(* batch that goroutine was in when ctx was cancelled.                     *)
NoSendOnClosed == wqClosed => poll = "done"

(* The counters Stats reports add up: every message a worker took is still *)
(* being processed or was counted once, as stored or as an error.          *)
StatsBalance ==
    errors + telemetryStored + Cardinality({w \in Workers : Busy(w)})
        = processed + fullDrops

(* An acknowledged message, which the queue service will not deliver       *)
(* again, was stored or counted as an error, or it waits in the work queue *)
(* or in a worker, or it was there when the process ended.                 *)
AckedAccounted ==
    \A m \in acked :
        \/ m \in stored \cup failed
        \/ In(m, workQueue)
        \/ \E w \in Workers : Busy(w) /\ job[w] = m
        \/ start = "exited" /\ m \in abandoned

(* Unsubscribe returns: after a cancel the polling goroutine ends, even in *)
(* the middle of a batch with a full work queue and no worker left.        *)
UnsubscribeReturns == cancelled ~> (poll = "done" \/ start = "exited")

(* While the collector is not told to stop, what it enqueued is processed. *)
EnqueuedIsProcessed ==
    \A m \in Msgs : In(m, workQueue) ~> (m \in stored \cup failed \/ cancelled \/ start = "exited")

(* "Wait for work queue to be processed" (collector.go): after a cancel    *)
(* Start returns.                                                          *)
ShutdownCompletes == cancelled ~> start \in {"returned", "exited"}

(* "Unprocessed messages automatically redelivered" (README.md): once the  *)
(* process has ended, the queue service still has every message that was   *)
(* neither stored nor given up with an error.                              *)
UnprocessedIsRedelivered ==
    start = "exited" => \A m \in Msgs : m \in avail \cup leased \cup stored \cup failed

=============================================================================
