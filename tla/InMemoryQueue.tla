---------------------------- MODULE InMemoryQueue ----------------------------
(***************************************************************************)
(* internal/mq/inmemory_queue.go, one topic: concurrent Publish calls, the *)
(* dispatcher goroutine, one goroutine per delivery under a worker-slot    *)
(* limit, Stop with its WaitGroup, and Close.  Start has returned before   *)
(* anything else is called ("Must be called before publishing", queue.go). *)
(***************************************************************************)
EXTENDS Lists

CONSTANTS
    Msgs,         \* the messages, each published by a goroutine of its own
    Handlers,     \* handlers that may subscribe to the topic
    BufferSize,   \* capacity of the messages channel
    MaxWorkers,   \* capacity of workerPool
    None

ASSUME NoneAssumption == None \notin Msgs
ASSUME SizeAssumption == BufferSize \in Nat \ {0} /\ MaxWorkers \in Nat \ {0}
ASSUME FiniteAssumption == IsFiniteSet(Msgs) /\ IsFiniteSet(Handlers)

Callers == {"stop", "close"}   \* the goroutine in Stop, the one in Close

VARIABLES
    messages,   \* the buffered channel
    chanClosed, \* close(q.messages) happened
    closed, running, cancelled,   \* the two flags; q.ctx is done
    subs,       \* subscribers[topic]
    pub,        \* Publish(m): "new", "select", "count", "ok", "error", "panic"
    early,      \* history: messages accepted before the cancel
    dpc,        \* dispatcher: "recv", "drain", "spawn", "acquire", "done"
    dback,      \* the loop dispatchMessage returns to: "recv" or "drain"
    dmsg,       \* the message being dispatched
    dtodo,      \* handlers of its slice not yet started
    dcur,       \* the handler that waits for a worker slot
    task,       \* executeHandler(h, m): "none", "run", "ret", "panicked",
                \*   "release", "releasePanic", "fin"
    wg,         \* the WaitGroup counter
    slots,      \* len(q.workerPool)
    totalPublished, totalDelivered, totalErrors,
    unrouted,   \* history: messages with no subscriber
    scall       \* Stop and Close: "idle", "wait", "store", "shut", "ret"

chanVars == <<messages, chanClosed>>
flagVars == <<closed, running, cancelled>>
pubVars  == <<pub, early>>
dispVars == <<dpc, dback, dmsg, dtodo, dcur>>
statVars == <<totalPublished, totalDelivered, totalErrors>>
vars == <<chanVars, flagVars, subs, pubVars, dispVars, task, wg, slots, statVars,
          unrouted, scall>>

Deliveries == Msgs \X Handlers
TaskStates == {"none", "run", "ret", "panicked", "release", "releasePanic", "fin"}

(* Start has run: the dispatcher is up and counted.                        *)
Init ==
    /\ messages = <<>> /\ chanClosed = FALSE
    /\ closed = FALSE /\ running = TRUE /\ cancelled = FALSE
    /\ subs = {}
    /\ pub = [m \in Msgs |-> "new"] /\ early = {}
    /\ dpc = "recv" /\ dback = "recv" /\ dmsg = None /\ dtodo = {} /\ dcur = None
    /\ task = [d \in Deliveries |-> "none"]
    /\ wg = 1 /\ slots = 0
    /\ totalPublished = 0 /\ totalDelivered = 0 /\ totalErrors = 0
    /\ unrouted = {}
    /\ scall = [c \in Callers |-> "idle"]

-----------------------------------------------------------------------------
(* Publish: two flag checks, a select, the counter.                        *)

PublishCheck(m) ==
    /\ pub[m] = "new"
    /\ pub' = [pub EXCEPT ![m] = IF closed \/ ~running THEN "error" ELSE "select"]
    /\ UNCHANGED <<chanVars, flagVars, subs, early, dispVars, task, wg, slots, statVars,
                   unrouted, scall>>

PublishSend(m) ==
    /\ pub[m] = "select" /\ ~chanClosed /\ Len(messages) < BufferSize
    /\ messages' = Append(messages, m)
    /\ pub' = [pub EXCEPT ![m] = "count"]
    /\ early' = IF cancelled THEN early ELSE early \cup {m}
    /\ UNCHANGED <<chanClosed, flagVars, subs, dispVars, task, wg, slots, statVars,
                   unrouted, scall>>

(* The caller's ctx, or q.ctx, is done.                                    *)
PublishGiveUpMissing(m) == FALSE   \* mutant: no ctx.Done case in the select
PublishGiveUp(m) ==
    /\ pub[m] = "select"
    /\ pub' = [pub EXCEPT ![m] = "error"]
    /\ UNCHANGED <<chanVars, flagVars, subs, early, dispVars, task, wg, slots,
                   statVars, unrouted, scall>>

(* A send on a closed channel is always ready, and panics.                 *)
PublishPanic(m) ==
    /\ pub[m] = "select" /\ chanClosed
    /\ pub' = [pub EXCEPT ![m] = "panic"]
    /\ UNCHANGED <<chanVars, flagVars, subs, early, dispVars, task, wg, slots,
                   statVars, unrouted, scall>>

PublishCount(m) ==
    /\ pub[m] = "count"
    /\ pub' = [pub EXCEPT ![m] = "ok"]
    /\ totalPublished' = totalPublished + 1
    /\ UNCHANGED <<chanVars, flagVars, subs, early, dispVars, task, wg, slots,
                   totalDelivered, totalErrors, unrouted, scall>>

(* Subscribe fails once the queue is closed; Unsubscribe removes all.      *)
Subscribe(h) ==
    /\ ~closed /\ h \notin subs
    /\ subs' = subs \cup {h}
    /\ UNCHANGED <<chanVars, flagVars, pubVars, dispVars, task, wg, slots, statVars,
                   unrouted, scall>>

Unsubscribe ==
    /\ subs # {}
    /\ subs' = {}
    /\ UNCHANGED <<chanVars, flagVars, pubVars, dispVars, task, wg, slots, statVars,
                   unrouted, scall>>

-----------------------------------------------------------------------------
(* processMessages, dispatchMessage, drainMessages.                        *)

Receive ==
    /\ dpc \in {"recv", "drain"} /\ messages # <<>>
    /\ messages' = Tail(messages)
    /\ IF subs = {}
       THEN unrouted' = unrouted \cup {Head(messages)} /\ UNCHANGED dispVars
       ELSE /\ dmsg' = Head(messages) /\ dtodo' = subs /\ dback' = dpc /\ dpc' = "spawn"
            /\ UNCHANGED <<dcur, unrouted>>
    /\ UNCHANGED <<chanClosed, flagVars, subs, pubVars, task, wg, slots, statVars, scall>>

(* wg.Add(1) before the wait for a worker slot.                            *)
Spawn(h) ==
    /\ dpc = "spawn" /\ h \in dtodo
    /\ wg' = wg + 1
    /\ dcur' = h /\ dtodo' = dtodo \ {h} /\ dpc' = "acquire"
    /\ UNCHANGED <<chanVars, flagVars, subs, pubVars, dback, dmsg, task, slots, statVars,
                   unrouted, scall>>

SlotFreeTooMany == slots <= MaxWorkers   \* mutant: one worker too many
SlotFree == slots < MaxWorkers

Acquire ==
    /\ dpc = "acquire" /\ SlotFree
    /\ slots' = slots + 1
    /\ task' = [task EXCEPT ![<<dmsg, dcur>>] = "run"]
    /\ dcur' = None
    /\ IF dtodo = {} THEN dpc' = dback /\ dmsg' = None
                     ELSE dpc' = "spawn" /\ UNCHANGED dmsg
    /\ UNCHANGED <<chanVars, flagVars, subs, pubVars, dback, dtodo, wg, statVars,
                   unrouted, scall>>

(* select chose q.ctx.Done().                                              *)
StartDrain ==
    /\ dpc = "recv" /\ cancelled
    /\ dpc' = "drain"
    /\ UNCHANGED <<chanVars, flagVars, subs, pubVars, dback, dmsg, dtodo, dcur, task, wg,
                   slots, statVars, unrouted, scall>>

DrainedAtOnce == TRUE   \* mutant: the dispatcher returns without draining
Drained == messages = <<>>

DispatcherDone ==
    /\ dpc = "drain" /\ Drained
    /\ dpc' = "done" /\ wg' = wg - 1
    /\ UNCHANGED <<chanVars, flagVars, subs, pubVars, dback, dmsg, dtodo, dcur, task,
                   slots, statVars, unrouted, scall>>

-----------------------------------------------------------------------------
(* executeHandler: the handler, then the deferred function.                *)

HandlerReturns(d) ==
    /\ task[d] = "run"
    /\ task' = [task EXCEPT ![d] = "ret"]
    /\ \/ totalDelivered' = totalDelivered + 1 /\ UNCHANGED totalErrors
       \/ totalErrors' = totalErrors + 1 /\ UNCHANGED totalDelivered
    /\ UNCHANGED <<chanVars, flagVars, subs, pubVars, dispVars, wg, slots, totalPublished,
                   unrouted, scall>>

HandlerPanics(d) ==
    /\ task[d] = "run"
    /\ task' = [task EXCEPT ![d] = "panicked"]
    /\ UNCHANGED <<chanVars, flagVars, subs, pubVars, dispVars, wg, slots, statVars,
                   unrouted, scall>>

(* The deferred function runs after a return and after a panic.            *)
DeferRunsOnReturn(d) == task[d] = "ret"   \* mutant: wg.Done is not deferred
DeferRuns(d) == task[d] \in {"ret", "panicked"}

WgDone(d) ==
    /\ DeferRuns(d)
    /\ task' = [task EXCEPT ![d] = IF @ = "ret" THEN "release" ELSE "releasePanic"]
    /\ wg' = wg - 1
    /\ UNCHANGED <<chanVars, flagVars, subs, pubVars, dispVars, slots, statVars,
                   unrouted, scall>>

(* The errors a recovered panic adds.                                      *)
PanicErrorsIgnored(d) == 0   \* mutant
PanicErrors(d) == IF task[d] = "releasePanic" THEN 1 ELSE 0

(* The worker slot is given back, then a recovered panic is counted.       *)
Release(d) ==
    /\ task[d] \in {"release", "releasePanic"}
    /\ task' = [task EXCEPT ![d] = "fin"]
    /\ slots' = slots - 1
    /\ totalErrors' = totalErrors + PanicErrors(d)
    /\ UNCHANGED <<chanVars, flagVars, subs, pubVars, dispVars, wg, totalPublished,
                   totalDelivered, unrouted, scall>>

-----------------------------------------------------------------------------
(* Stop, and Close, which stops first.  The parent ctx may end on its own. *)

ParentCancelled ==
    /\ ~cancelled /\ cancelled' = TRUE
    /\ UNCHANGED <<chanVars, closed, running, subs, pubVars, dispVars, task, wg, slots,
                   statVars, unrouted, scall>>

(* What follows Stop: Stop returns, Close goes on to close the channel.    *)
AfterStop(c) == IF c = "stop" THEN "ret" ELSE "shut"

ClosedBy(c) == closed \/ c = "close"

StopBegin(c) ==
    /\ scall[c] = "idle"
    /\ closed' = ClosedBy(c)
    /\ IF running THEN cancelled' = TRUE /\ scall' = [scall EXCEPT ![c] = "wait"]
                  ELSE UNCHANGED cancelled /\ scall' = [scall EXCEPT ![c] = AfterStop(c)]
    /\ UNCHANGED <<chanVars, running, subs, pubVars, dispVars, task, wg, slots, statVars,
                   unrouted>>

WaitReturnsAtOnce == TRUE   \* mutant: Stop does not wait
WaitReturns == wg = 0

StopWait(c) ==
    /\ scall[c] = "wait" /\ WaitReturns
    /\ scall' = [scall EXCEPT ![c] = "store"]
    /\ UNCHANGED <<chanVars, flagVars, subs, pubVars, dispVars, task, wg, slots, statVars,
                   unrouted>>

StopStore(c) ==
    /\ scall[c] = "store"
    /\ running' = FALSE
    /\ scall' = [scall EXCEPT ![c] = AfterStop(c)]
    /\ UNCHANGED <<chanVars, closed, cancelled, subs, pubVars, dispVars, task, wg, slots,
                   statVars, unrouted>>

CloseChannel ==
    /\ scall["close"] = "shut"
    /\ chanClosed' = TRUE
    /\ scall' = [scall EXCEPT !["close"] = "ret"]
    /\ UNCHANGED <<messages, flagVars, subs, pubVars, dispVars, task, wg, slots, statVars,
                   unrouted>>

PublishNext(m) == \/ PublishCheck(m) \/ PublishSend(m) \/ PublishGiveUp(m)
                  \/ PublishPanic(m) \/ PublishCount(m)
DispatcherNext == Receive \/ (\E h \in dtodo : Spawn(h)) \/ Acquire \/ StartDrain \/ DispatcherDone
TaskNext(d)    == HandlerReturns(d) \/ HandlerPanics(d) \/ WgDone(d) \/ Release(d)
StopNext(c)    == StopBegin(c) \/ StopWait(c) \/ StopStore(c)

Next ==
    \/ \E m \in Msgs : PublishNext(m)
    \/ (\E h \in Handlers : Subscribe(h)) \/ Unsubscribe
    \/ DispatcherNext
    \/ \E d \in Deliveries : TaskNext(d)
    \/ (\E c \in Callers : StopNext(c)) \/ CloseChannel \/ ParentCancelled

Spec == Init /\ [][Next]_vars

(* The scheduler runs runnable goroutines and handlers terminate; nobody   *)
(* is bound to call Stop, and callers' contexts need not end.              *)
Fairness ==
    /\ \A m \in Msgs : /\ WF_vars(PublishSend(m) \/ PublishCount(m))
                       /\ WF_vars(cancelled /\ (PublishSend(m) \/ PublishGiveUp(m)))
    /\ WF_vars(DispatcherNext)
    /\ \A d \in Deliveries : WF_vars(TaskNext(d))
    /\ \A c \in Callers : WF_vars(StopWait(c) \/ StopStore(c))
    /\ WF_vars(CloseChannel)

FairSpec == Spec /\ Fairness

-----------------------------------------------------------------------------
(* Every variable has its type; the channel and the worker pool stay       *)
(* within their capacities and the WaitGroup counter is never negative.    *)
TypeOK ==
    /\ messages \in Seq(Msgs) /\ Len(messages) <= BufferSize /\ chanClosed \in BOOLEAN
    /\ closed \in BOOLEAN /\ running \in BOOLEAN /\ cancelled \in BOOLEAN
    /\ subs \in SUBSET Handlers
    /\ pub \in [Msgs -> {"new", "select", "count", "ok", "error", "panic"}]
    /\ early \in SUBSET Msgs
    /\ dpc \in {"recv", "drain", "spawn", "acquire", "done"} /\ dback \in {"recv", "drain"}
    /\ dmsg \in Msgs \cup {None} /\ dtodo \in SUBSET Handlers
    /\ dcur \in Handlers \cup {None}
    /\ task \in [Deliveries -> TaskStates]
    /\ wg \in Nat /\ slots \in 0..MaxWorkers
    /\ totalPublished \in Nat /\ totalDelivered \in Nat /\ totalErrors \in Nat
    /\ unrouted \in SUBSET Msgs
    /\ scall \in [Callers -> {"idle", "wait", "store", "shut", "ret"}]

(* "Waits for in-flight messages to complete" (queue.go): once wg.Wait has *)
(* returned, no handler is running and none will be started.               *)
StopWaits ==
    (\E c \in Callers : scall[c] \in {"store", "shut", "ret"}) =>
        /\ dpc = "done"
        /\ \A d \in Deliveries : task[d] \notin {"run", "ret", "panicked"}

(* A message accepted before the shutdown began is handled by the time     *)
(* Stop or Close returns: it reached its handlers or it had none.          *)
StopDrains ==
    (\E c \in Callers : scall[c] = "ret") =>
        \A m \in early : \/ m \in unrouted
                         \/ \E h \in Handlers : task[<<m, h>>] # "none"

(* Both: Stop leaves nothing running and nothing undone.                   *)
StopCompletes == StopWaits /\ StopDrains

(* The counters of Stats add up with what is still under way.              *)
StatsBalance ==
    /\ totalPublished + Cardinality({m \in Msgs : pub[m] = "count"})
         = Len(messages) + Cardinality(unrouted) + (IF dmsg = None THEN 0 ELSE 1)
           + Cardinality({m \in Msgs : m # dmsg /\ \E h \in Handlers : task[<<m, h>>] # "none"})
    /\ totalDelivered + totalErrors
         = Cardinality({d \in Deliveries : task[d] \in {"ret", "release", "fin"}})

(* Stop and Close return, and no deadlock between the dispatcher, which    *)
(* waits for worker slots, and the handlers keeps them waiting.            *)
StopReturns == \A c \in Callers : scall[c] # "idle" ~> scall[c] = "ret"

(* A blocked Publish ends: there is room again or the queue shuts down.    *)
PublishEnds == \A m \in Msgs : pub[m] = "select" ~> pub[m] \in {"ok", "error", "panic"}

(* A message accepted while the queue ran is served, also if only the      *)
(* parent context ends and nobody ever calls Stop or Close: it had no      *)
(* subscriber, or a handler of it has run to its end.  One that the select *)
(* of Publish sends although q.ctx is done may find the dispatcher gone.   *)
AcceptedIsServed ==
    \A m \in Msgs : m \in early ~>
        m \in unrouted \/ \E h \in Handlers : task[<<m, h>>] = "fin"

(* Nobody waits for ever, in Stop, in Close or in Publish.                 *)
CallsReturn == StopReturns /\ PublishEnds

=============================================================================
