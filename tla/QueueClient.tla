---------------------------- MODULE QueueClient ----------------------------
(***************************************************************************)
(* The subscription table of one HTTPQueueClient                           *)
(* (internal/mq/http_queue_client.go): concurrent calls of Subscribe,      *)
(* Unsubscribe and Shutdown (Stop and Close are Shutdown without a         *)
(* deadline), and the polling goroutine each subscription starts.          *)
(*                                                                         *)
(* A subscription's context derives from the context the caller gave to    *)
(* Subscribe; Ack and Nack use the client's own, c.ctx.  The queue service *)
(* is external: a message is available, leased or acknowledged.            *)
(***************************************************************************)
EXTENDS Naturals, FiniteSets

CONSTANTS
    Topics,
    Subs,           \* the calls of Subscribe; each may create one subscription
    Unsubs,         \* the calls of Unsubscribe
    Msgs,           \* messages in the queue service
    TopicOf,        \* the topic of each
    Prefetch,       \* messages of one fetch (prefetchCount)
    None,           \* "no subscription", "no topic", "no message"
    MaxFailures     \* bound: Acks and Nacks that fail, leases that time out

ASSUME NoneAssumption == None \notin Subs /\ None \notin Topics /\ None \notin Msgs
ASSUME TopicAssumption == TopicOf \in [Msgs -> Topics]
ASSUME SizeAssumption == Prefetch \in Nat \ {0} /\ MaxFailures \in Nat

VARIABLES
    table,      \* c.subscriptions: per topic the subscription, or None
    subPc,      \* Subscribe: "new", "checked", "refused", "subscribed"
    topic,      \* Subscribe: its topic argument
    cancelled,  \* subscriptions whose sub.cancel() was called
    parentDone, \* the caller's context is done
    closed,     \* c.cancel() was called: c.ctx is done
    poll,       \* handleBatchPolling: "off", "top", "fetch", "handle", "ack", "nack", "done"
    batch,      \* messages of its batch still to be handled
    cur,        \* the message its handler returned from
    unsPc,      \* Unsubscribe: "new", "cancel", "wait", "nil", "error"
    target,     \* Unsubscribe: the subscription it took from the table
    shut,       \* Shutdown: "new", "snapshot", "wait", "nil", "error"
    waitFor,    \* Shutdown: its copy of the table
    leased, acked,  \* messages in the PEL; messages the service was told to forget
    handled,    \* history: messages a handler accepted
    raced,      \* history: subscriptions whose Subscribe overlapped one of the same topic
    tardy,      \* history: subscriptions stored after Shutdown copied the table
    failures

subVars  == <<table, subPc, topic, raced, tardy>>
ctxVars  == <<cancelled, parentDone, closed>>
pollVars == <<poll, batch, cur>>
unsVars  == <<unsPc, target>>
shutVars == <<shut, waitFor>>
msgVars  == <<leased, acked, handled, failures>>
vars     == <<subVars, ctxVars, pollVars, unsVars, shutVars, msgVars>>

CtxDone(s) == s \in cancelled \/ parentDone
Available(t) == {m \in Msgs : TopicOf[m] = t} \ (leased \cup acked)
Fail == failures < MaxFailures /\ failures' = failures + 1

Init ==
    /\ table = [t \in Topics |-> None]
    /\ subPc = [s \in Subs |-> "new"] /\ topic = [s \in Subs |-> None]
    /\ cancelled = {} /\ parentDone = FALSE /\ closed = FALSE
    /\ poll = [s \in Subs |-> "off"] /\ batch = [s \in Subs |-> {}]
    /\ cur = [s \in Subs |-> None]
    /\ unsPc = [u \in Unsubs |-> "new"] /\ target = [u \in Unsubs |-> None]
    /\ shut = "new" /\ waitFor = {}
    /\ leased = {} /\ acked = {} /\ handled = {} /\ raced = {} /\ tardy = {}
    /\ failures = 0

-----------------------------------------------------------------------------
(* Subscribe looks into the table under one lock and stores under another. *)

CheckSkipped(t) == TRUE   \* mutant: the existing subscription is not looked up
Free(t) == table[t] = None

Overlapping(t) == {r \in Subs : subPc[r] = "checked" /\ topic[r] = t}

SubscribeCheck(s, t) ==
    /\ subPc[s] = "new" /\ Free(t)
    /\ subPc' = [subPc EXCEPT ![s] = "checked"]
    /\ topic' = [topic EXCEPT ![s] = t]
    /\ raced' = IF Overlapping(t) = {} THEN raced
                ELSE raced \cup Overlapping(t) \cup {s}
    /\ UNCHANGED <<table, tardy, ctxVars, pollVars, unsVars, shutVars, msgVars>>

SubscribeRefused(s, t) ==
    /\ subPc[s] = "new" /\ table[t] # None
    /\ subPc' = [subPc EXCEPT ![s] = "refused"]
    /\ UNCHANGED <<table, topic, raced, tardy, ctxVars, pollVars, unsVars, shutVars, msgVars>>

SubscribeStore(s) ==
    /\ subPc[s] = "checked"
    /\ subPc' = [subPc EXCEPT ![s] = "subscribed"]
    /\ table' = [table EXCEPT ![topic[s]] = s]
    /\ poll' = [poll EXCEPT ![s] = "top"]
    /\ tardy' = IF shut \in {"new", "snapshot"} THEN tardy ELSE tardy \cup {s}
    /\ UNCHANGED <<topic, raced, ctxVars, batch, cur, unsVars, shutVars, msgVars>>

-----------------------------------------------------------------------------
(* handleBatchPolling.  Its context is looked at before each fetch only.   *)

PollUnchecked(s) ==   \* mutant: ctx.Done() is not looked at
    /\ poll[s] = "top"
    /\ poll' = [poll EXCEPT ![s] = "fetch"]
    /\ UNCHANGED <<subVars, ctxVars, batch, cur, unsVars, shutVars, msgVars>>

PollTop(s) ==
    /\ poll[s] = "top"
    /\ poll' = [poll EXCEPT ![s] = IF CtxDone(s) THEN "done" ELSE "fetch"]
    /\ UNCHANGED <<subVars, ctxVars, batch, cur, unsVars, shutVars, msgVars>>

PollFetch(s) ==
    /\ poll[s] = "fetch"
    /\ \E S \in SUBSET Available(topic[s]) :
         /\ S # {} /\ Cardinality(S) <= Prefetch
         /\ leased' = leased \cup S
         /\ batch' = [batch EXCEPT ![s] = S]
    /\ poll' = [poll EXCEPT ![s] = "handle"]
    /\ UNCHANGED <<subVars, ctxVars, cur, unsVars, shutVars, acked, handled, failures>>

(* An empty batch, an error, or a cancelled context: nothing was fetched,  *)
(* or the answer was lost and the messages stay leased.                    *)
PollNothing(s) ==
    /\ poll[s] = "fetch"
    /\ \/ UNCHANGED <<leased, failures>>
       \/ /\ Fail
          /\ \E S \in SUBSET Available(topic[s]) :
               Cardinality(S) <= Prefetch /\ leased' = leased \cup S
    /\ poll' = [poll EXCEPT ![s] = "top"]
    /\ UNCHANGED <<subVars, ctxVars, batch, cur, unsVars, shutVars, acked, handled>>

(* The handler is called and returns nil, or an error.                     *)
HandleMessage(s, m, answer) ==
    /\ poll[s] = "handle" /\ m \in batch[s] /\ answer \in {"ack", "nack"}
    /\ cur' = [cur EXCEPT ![s] = m]
    /\ handled' = IF answer = "ack" THEN handled \cup {m} ELSE handled
    /\ poll' = [poll EXCEPT ![s] = answer]
    /\ UNCHANGED <<subVars, ctxVars, batch, unsVars, shutVars, leased, acked, failures>>

(* Ack of cur after nil, Nack after an error, over c.ctx; a failure, or    *)
(* a message the service no longer has in its PEL, is only logged.         *)
AckAlways(s) ==   \* mutant: an error of the handler is ACKed like a success
    /\ leased' = leased \ {cur[s]} /\ acked' = acked \cup {cur[s]}
    /\ UNCHANGED failures

AckOrNack(s) ==
    /\ leased' = leased \ {cur[s]}
    /\ acked' = IF poll[s] = "ack" THEN acked \cup {cur[s]} ELSE acked
    /\ UNCHANGED failures

Settle(s) ==
    /\ poll[s] \in {"ack", "nack"}
    /\ \/ ~closed /\ cur[s] \in leased /\ AckOrNack(s)
       \/ (closed \/ cur[s] \notin leased) /\ UNCHANGED <<leased, acked, failures>>
       \/ Fail /\ UNCHANGED <<leased, acked>>
    /\ batch' = [batch EXCEPT ![s] = @ \ {cur[s]}]
    /\ cur' = [cur EXCEPT ![s] = None]
    /\ poll' = [poll EXCEPT ![s] = IF batch[s] \ {cur[s]} = {} THEN "top" ELSE "handle"]
    /\ UNCHANGED <<subVars, ctxVars, unsVars, shutVars, handled>>

(* The visibility timeout of the queue service.                            *)
Redeliver(m) ==
    /\ m \in leased /\ Fail
    /\ leased' = leased \ {m}
    /\ UNCHANGED <<subVars, ctxVars, pollVars, unsVars, shutVars, acked, handled>>

-----------------------------------------------------------------------------
(* Unsubscribe: look up and delete under the lock, cancel, wait.           *)

UnsubscribeTake(u, t) ==
    /\ unsPc[u] = "new" /\ table[t] # None
    /\ target' = [target EXCEPT ![u] = table[t]]
    /\ table' = [table EXCEPT ![t] = None]
    /\ unsPc' = [unsPc EXCEPT ![u] = "cancel"]
    /\ UNCHANGED <<subPc, topic, raced, tardy, ctxVars, pollVars, shutVars, msgVars>>

UnsubscribeError(u, t) ==
    /\ unsPc[u] = "new" /\ table[t] = None
    /\ unsPc' = [unsPc EXCEPT ![u] = "error"]
    /\ UNCHANGED <<target, subVars, ctxVars, pollVars, shutVars, msgVars>>

CancelForgotten(s) == UNCHANGED cancelled   \* mutant: sub.cancel() is not called
CancelSub(s) == cancelled' = cancelled \cup {s}

UnsubscribeCancel(u) ==
    /\ unsPc[u] = "cancel"
    /\ CancelSub(target[u])
    /\ unsPc' = [unsPc EXCEPT ![u] = "wait"]
    /\ UNCHANGED <<target, subVars, parentDone, closed, pollVars, shutVars, msgVars>>

(* <-sub.doneChan, in Unsubscribe and in Shutdown (mutant: nobody waits).  *)
DoneAtOnce(s) == TRUE
DoneChanClosed(s) == poll[s] = "done"

UnsubscribeReturn(u) ==
    /\ unsPc[u] = "wait" /\ DoneChanClosed(target[u])
    /\ unsPc' = [unsPc EXCEPT ![u] = "nil"]
    /\ UNCHANGED <<target, subVars, ctxVars, pollVars, shutVars, msgVars>>

-----------------------------------------------------------------------------
(* Shutdown: cancel c.ctx, copy the table, wait for each subscription.     *)

ShutdownCancel ==
    /\ shut = "new"
    /\ closed' = TRUE /\ shut' = "snapshot"
    /\ UNCHANGED <<waitFor, subVars, cancelled, parentDone, pollVars, unsVars, msgVars>>

TableCopy == {table[t] : t \in Topics} \ {None}

ShutdownSnapshot ==
    /\ shut = "snapshot"
    /\ waitFor' = TableCopy /\ shut' = "wait"
    /\ UNCHANGED <<subVars, ctxVars, pollVars, unsVars, msgVars>>

ShutdownReturn ==
    /\ shut = "wait" /\ \A s \in waitFor : DoneChanClosed(s)
    /\ shut' = "nil"
    /\ UNCHANGED <<waitFor, subVars, ctxVars, pollVars, unsVars, msgVars>>

(* The context given to Shutdown ends first.                               *)
ShutdownDeadline ==
    /\ shut = "wait" /\ waitFor # {}
    /\ shut' = "error"
    /\ UNCHANGED <<waitFor, subVars, ctxVars, pollVars, unsVars, msgVars>>

(* The context the callers gave to Subscribe is cancelled.                 *)
ParentCancel ==
    /\ ~parentDone /\ parentDone' = TRUE
    /\ UNCHANGED <<cancelled, closed, subVars, pollVars, unsVars, shutVars, msgVars>>

SubscribeNext(s) == \/ \E t \in Topics : SubscribeCheck(s, t) \/ SubscribeRefused(s, t)
                    \/ SubscribeStore(s)
PollNext(s) == \/ PollTop(s) \/ PollFetch(s) \/ PollNothing(s) \/ Settle(s)
               \/ \E m \in Msgs, a \in {"ack", "nack"} : HandleMessage(s, m, a)
UnsubscribeNext(u) == \/ \E t \in Topics : UnsubscribeTake(u, t) \/ UnsubscribeError(u, t)
                      \/ UnsubscribeCancel(u) \/ UnsubscribeReturn(u)
ShutdownNext == ShutdownCancel \/ ShutdownSnapshot \/ ShutdownReturn \/ ShutdownDeadline

Next ==
    \/ \E s \in Subs : SubscribeNext(s) \/ PollNext(s)
    \/ \E u \in Unsubs : UnsubscribeNext(u)
    \/ ShutdownNext \/ ParentCancel
    \/ \E m \in Msgs : Redeliver(m)

Spec == Init /\ [][Next]_vars

(* A call that was made goes on, a polling goroutine runs, its requests    *)
(* end (httpClient.Timeout) and its handler returns.  Nobody is bound to   *)
(* make a call, to cancel, or to give Shutdown a deadline.                 *)
Fairness ==
    /\ \A s \in Subs : WF_vars(PollNext(s))
    /\ \A u \in Unsubs : WF_vars(UnsubscribeCancel(u) \/ UnsubscribeReturn(u))
    /\ WF_vars(ShutdownSnapshot \/ ShutdownReturn)

FairSpec == Spec /\ Fairness

-----------------------------------------------------------------------------
(* Every variable has its type.                                            *)
TypeOK ==
    /\ table \in [Topics -> Subs \cup {None}]
    /\ subPc \in [Subs -> {"new", "checked", "refused", "subscribed"}]
    /\ topic \in [Subs -> Topics \cup {None}]
    /\ cancelled \in SUBSET Subs /\ parentDone \in BOOLEAN /\ closed \in BOOLEAN
    /\ poll \in [Subs -> {"off", "top", "fetch", "handle", "ack", "nack", "done"}]
    /\ batch \in [Subs -> SUBSET Msgs] /\ cur \in [Subs -> Msgs \cup {None}]
    /\ unsPc \in [Unsubs -> {"new", "cancel", "wait", "nil", "error"}]
    /\ target \in [Unsubs -> Subs \cup {None}]
    /\ shut \in {"new", "snapshot", "wait", "nil", "error"} /\ waitFor \in SUBSET Subs
    /\ leased \in SUBSET Msgs /\ acked \in SUBSET Msgs /\ handled \in SUBSET Msgs
    /\ raced \in SUBSET Subs /\ tardy \in SUBSET Subs /\ failures \in 0..MaxFailures

Taken(s) == \E u \in Unsubs : target[u] = s

(* No poller is out of reach: a subscription is in the table, or an        *)
(* Unsubscribe has taken it, unless its Subscribe overlapped another one   *)
(* of the same topic; then the later store hides the earlier poller, which *)
(* only the caller's context can stop.                                     *)
Reachable ==
    \A s \in Subs : subPc[s] = "subscribed" =>
        table[topic[s]] = s \/ Taken(s) \/ s \in raced

(* One topic has one active poller: two subscriptions of a topic run with  *)
(* live contexts only when their Subscribes overlapped, or while an        *)
(* Unsubscribe is between its delete and its cancel.                       *)
OneActivePoller ==
    \A r, s \in Subs :
        /\ r # s /\ subPc[r] = "subscribed" /\ subPc[s] = "subscribed"
        /\ topic[r] = topic[s] /\ ~CtxDone(r) /\ ~CtxDone(s)
        => \/ {r, s} \cap raced # {}
           \/ \E u \in Unsubs : unsPc[u] = "cancel" /\ target[u] \in {r, s}

(* Both: every poller can be stopped through the table, and is alone.      *)
PollersInReach == Reachable /\ OneActivePoller

(* "Shutdown closes all subscriptions" (http_queue_client.go), with three  *)
(* exceptions: when it has returned nil, a poller that still runs was      *)
(* taken from the table by an Unsubscribe that has not returned, was       *)
(* stored after Shutdown copied the table, or its Subscribe overlapped     *)
(* another one of the topic.                                               *)
ShutdownLeavesKnown ==
    shut = "nil" => \A s \in Subs : poll[s] \notin {"off", "done"} =>
        \/ \E u \in Unsubs : target[u] = s /\ unsPc[u] \in {"cancel", "wait"}
        \/ s \in tardy \cup raced

(* The service is told to forget a message only after some handler         *)
(* accepted it, across redeliveries, two pollers of one topic and lost     *)
(* answers.                                                                *)
AckedHandled == acked \subseteq handled

(* An Unsubscribe that found its subscription returns: the cancelled       *)
(* context ends the poller after the batch it is in.                       *)
UnsubscribeEnds == \A u \in Unsubs : unsPc[u] = "wait" ~> unsPc[u] = "nil"

(* Shutdown returns once the contexts of the pollers it waits for are      *)
(* done.  (It does not cancel them itself: without a deadline it waits     *)
(* until the callers of Subscribe do.)                                     *)
ShutdownReturns ==
    (shut = "wait" /\ \A s \in waitFor : CtxDone(s)) ~> shut \in {"nil", "error"}

(* Nobody waits for ever for a poller whose context is done.               *)
CallsReturn == UnsubscribeEnds /\ ShutdownReturns

=============================================================================
