--------------------------- MODULE GroupDelivery ---------------------------
(***************************************************************************)
(* Delivery by server-sent events (queueservice/redis_queue.go,            *)
(* http_server.go), one topic and one consumer group: handleSubscribe with *)
(* RegisterConsumer and UnregisterConsumer, the group's delivery           *)
(* goroutines, and Close.  The PEL is a set of messages here; timeout, Ack *)
(* and Nack are one step each (RedisQueue has their steps).                *)
(***************************************************************************)
EXTENDS Lists

CONSTANTS
    Msgs,        \* messages of the topic
    Ids,         \* consumer ids
    Conns,       \* SSE requests; a request owns the channel it registered
    Deliverers,  \* bound: delivery goroutines alive at a time
    ChanSize,    \* capacity of EventsCh
    BatchSize,   \* turns before the consumer list is read again
    None,
    MaxReturns,  \* bound: visibility timeouts and Nacks
    MaxFaults    \* bound: Redis commands that return an error

ASSUME NoneAssumption == None \notin Msgs /\ None \notin Conns /\ None \notin Ids
ASSUME FiniteAssumption == IsFiniteSet(Conns) /\ IsFiniteSet(Deliverers)
ASSUME SizeAssumption == /\ ChanSize \in Nat \ {0} /\ BatchSize \in Nat \ {0}
                         /\ MaxReturns \in Nat /\ MaxFaults \in Nat

VARIABLES
    queue, pel,   \* in Redis: the topic's list, the messages with an entry
    consumers,    \* group.Consumers: for an id the request whose channel it is
    chan,         \* EventsCh of a request
    chanClosed,   \* close(consumer.EventsCh) happened
    connId,       \* the id of a request being served, or None
    dpc,          \* goroutine: "off", "top", "pop", "zadd", "requeue", "deliver"
    ids,          \* its copy of the consumer ids, the next one to serve first
    turn,         \* turns of its batch
    hand,         \* the message it popped
    svc,          \* "up", "draining", "closing" (q.ctx is done), "closed"
    atClient,     \* messages a client read and will settle
    published, acked, dropped,   \* history
    returns, faults

redisVars == <<queue, pel>>
groupVars == <<consumers, chan, chanClosed, connId>>
delVars   == <<dpc, ids, turn, hand>>
hisVars   == <<published, acked, dropped>>
vars == <<redisVars, groupVars, delVars, svc, atClient, hisVars, returns, faults>>

Serving(n) == connId[n] # None
Registered == {i \in Ids : consumers[i] # None}
Connected  == svc \in {"up", "draining"}

Init ==
    /\ queue = <<>> /\ pel = {}
    /\ consumers = [i \in Ids |-> None]
    /\ chan = [n \in Conns |-> <<>>] /\ chanClosed = [n \in Conns |-> FALSE]
    /\ connId = [n \in Conns |-> None]
    /\ dpc = [d \in Deliverers |-> "off"] /\ ids = [d \in Deliverers |-> <<>>]
    /\ turn = [d \in Deliverers |-> 0] /\ hand = [d \in Deliverers |-> None]
    /\ svc = "up" /\ atClient = {}
    /\ published = {} /\ acked = {} /\ dropped = {}
    /\ returns = 0 /\ faults = 0

(* A command fails: q.ctx is done, or Redis does not answer.               *)
RedisError == \/ svc = "closing" /\ UNCHANGED faults
              \/ Connected /\ faults < MaxFaults /\ faults' = faults + 1

(* requeueMessage: RPUSH, the end BRPOP takes from.                        *)
RequeueDropped(m) == queue' = queue   \* mutant: the RPUSH is forgotten
RequeueMessage(m) == queue' = <<m>> \o queue

Publish(m) ==
    /\ svc = "up" /\ m \notin published
    /\ queue' = Append(queue, m) /\ published' = published \cup {m}
    /\ UNCHANGED <<pel, groupVars, delVars, svc, atClient, acked, dropped, returns, faults>>

-----------------------------------------------------------------------------
(* handleSubscribe.                                                        *)

(* RegisterConsumer starts a goroutine: len(group.Consumers) == 1.         *)
NeedsGoroutineLate(i) == Cardinality(Registered \cup {i}) = 2   \* mutant: off by one
NeedsGoroutine(i) == Cardinality(Registered \cup {i}) = 1

(* A client may come back under an id whose old request is still served:   *)
(* the new channel takes the place of the old one.                         *)
Register(n, i) ==
    /\ svc = "up" /\ ~Serving(n)
    /\ connId' = [connId EXCEPT ![n] = i]
    /\ consumers' = [consumers EXCEPT ![i] = n]
    /\ chan' = [chan EXCEPT ![n] = <<>>]
    /\ chanClosed' = [chanClosed EXCEPT ![n] = FALSE]
    /\ IF NeedsGoroutine(i)
       THEN \E d \in Deliverers : dpc[d] = "off" /\ dpc' = [dpc EXCEPT ![d] = "top"]
       ELSE UNCHANGED dpc
    /\ UNCHANGED <<redisVars, ids, turn, hand, svc, atClient, hisVars, returns, faults>>

(* UnregisterConsumer: by id, so whichever channel is registered now.      *)
CloseKeepsEntry(i) ==   \* mutant: without the delete
    /\ chanClosed' = [n \in Conns |-> chanClosed[n] \/ n = consumers[i]]
    /\ UNCHANGED consumers
UnregisterConsumer(i) ==
    /\ chanClosed' = [n \in Conns |-> chanClosed[n] \/ n = consumers[i]]
    /\ consumers' = [consumers EXCEPT ![i] = None]

(* The request ends, because its client went away or its channel was       *)
(* closed and is empty; the deferred UnregisterConsumer runs.              *)
EndRequest(n) ==
    /\ UnregisterConsumer(connId[n])
    /\ connId' = [connId EXCEPT ![n] = None] /\ chan' = [chan EXCEPT ![n] = <<>>]
    /\ UNCHANGED <<redisVars, delVars, svc, atClient, hisVars, returns, faults>>

ClientGone(n)    == svc # "closed" /\ Serving(n) /\ EndRequest(n)
ChannelClosed(n) == /\ svc # "closed" /\ Serving(n)
                    /\ chanClosed[n] /\ chan[n] = <<>> /\ EndRequest(n)

(* A message is written to the stream; nobody may be reading it any more.  *)
SendEvent(n) ==
    /\ svc # "closed" /\ Serving(n) /\ chan[n] # <<>>
    /\ chan' = [chan EXCEPT ![n] = Tail(@)]
    /\ atClient' \in {atClient, atClient \cup {Head(chan[n])}}
    /\ UNCHANGED <<redisVars, consumers, chanClosed, connId, delVars, svc, hisVars,
                   returns, faults>>

-----------------------------------------------------------------------------
(* deliverMessagesToGroup.                                                 *)

ContextIgnored == FALSE   \* mutant: ctx.Done is not looked at
ContextDone == svc = "closing"

Stop(d) ==
    /\ dpc[d] = "top" /\ svc # "closed" /\ ContextDone
    /\ dpc' = [dpc EXCEPT ![d] = "off"]
    /\ UNCHANGED <<redisVars, groupVars, ids, turn, hand, svc, atClient, hisVars, returns, faults>>

(* The ids come in map order, that is in any order, so where the running   *)
(* index of the round-robin stands in them makes no difference.            *)
ReadGroup(d) ==
    /\ dpc[d] = "top" /\ Connected /\ Registered # {}
    /\ \E p \in [1..Cardinality(Registered) -> Registered] :
         /\ \A i \in Registered : In(i, p)
         /\ ids' = [ids EXCEPT ![d] = p]
    /\ dpc' = [dpc EXCEPT ![d] = "pop"]
    /\ UNCHANGED <<redisVars, groupVars, turn, hand, svc, atClient, hisVars, returns, faults>>

(* Back to the top of the loop, without the batch's consumer ids.          *)
EndBatch(d) ==
    /\ dpc' = [dpc EXCEPT ![d] = "top"]
    /\ ids' = [ids EXCEPT ![d] = <<>>] /\ turn' = [turn EXCEPT ![d] = 0]

(* What BRPOP leaves in the list.                                          *)
AfterPeek == queue   \* mutant: the message is read but not removed
AfterPop  == Tail(queue)

PopMessage(d) ==
    /\ dpc[d] = "pop" /\ Connected /\ queue # <<>>
    /\ hand' = [hand EXCEPT ![d] = Head(queue)]
    /\ queue' = AfterPop
    /\ dpc' = [dpc EXCEPT ![d] = "zadd"]
    /\ UNCHANGED <<pel, groupVars, ids, turn, svc, atClient, hisVars, returns, faults>>

(* No message, or an error: the batch ends.  A lost reply loses what BRPOP *)
(* took.                                                                   *)
PopFails(d) ==
    /\ dpc[d] = "pop"
    /\ \/ Connected /\ queue = <<>> /\ UNCHANGED <<queue, dropped, faults>>
       \/ RedisError /\ UNCHANGED <<queue, dropped>>
       \/ /\ Connected /\ queue # <<>> /\ RedisError
          /\ queue' = Tail(queue) /\ dropped' = dropped \cup {Head(queue)}
    /\ EndBatch(d)
    /\ UNCHANGED <<pel, groupVars, hand, svc, atClient, published, acked, returns>>

(* addToPEL.                                                               *)
ZAdd(m) == pel' = pel \cup {m}

AddToPEL(d) ==
    /\ dpc[d] = "zadd" /\ Connected
    /\ ZAdd(hand[d])
    /\ dpc' = [dpc EXCEPT ![d] = "deliver"]
    /\ UNCHANGED <<queue, groupVars, ids, turn, hand, svc, atClient, hisVars, returns, faults>>

AddToPELError(d) ==
    /\ dpc[d] = "zadd" /\ RedisError
    /\ pel' \in {pel, pel \cup {hand[d]}}
    /\ dpc' = [dpc EXCEPT ![d] = "requeue"]
    /\ UNCHANGED <<queue, groupVars, ids, turn, hand, svc, atClient, hisVars, returns>>

(* The end of a turn: the round-robin has moved on by one consumer.        *)
NextTurn(d) ==
    /\ IF turn[d] + 1 < BatchSize
       THEN /\ turn' = [turn EXCEPT ![d] = @ + 1]
            /\ dpc' = [dpc EXCEPT ![d] = "pop"]
            /\ ids' = [ids EXCEPT ![d] = Append(Tail(@), Head(@))]
       ELSE EndBatch(d)
    /\ hand' = [hand EXCEPT ![d] = None]

Requeue(d) ==
    /\ dpc[d] = "requeue"
    /\ \/ Connected /\ RequeueMessage(hand[d]) /\ UNCHANGED <<dropped, faults>>
       \/ RedisError /\ dropped' = dropped \cup {hand[d]} /\ UNCHANGED queue
    /\ NextTurn(d)
    /\ UNCHANGED <<pel, groupVars, svc, atClient, published, acked, returns>>

(* deliverToConsumer: a consumer that is gone or whose channel is full     *)
(* misses the message.                                                     *)
ReachesOneMore(i) == consumers[i] # None /\ Len(chan[consumers[i]]) <= ChanSize   \* mutant
Reaches(i) == consumers[i] # None /\ Len(chan[consumers[i]]) < ChanSize

Deliver(d) ==
    /\ dpc[d] = "deliver" /\ svc # "closed"
    /\ LET i == Head(ids[d]) IN
         IF Reaches(i)
         THEN chan' = [chan EXCEPT ![consumers[i]] = Append(@, hand[d])]
         ELSE UNCHANGED chan
    /\ NextTurn(d)
    /\ UNCHANGED <<redisVars, consumers, chanClosed, connId, svc, atClient, hisVars,
                   returns, faults>>

-----------------------------------------------------------------------------
(* The client and the visibility timeout (external here).                  *)

Settle(m) ==
    /\ svc = "up" /\ m \in atClient
    /\ atClient' = atClient \ {m} /\ pel' = pel \ {m}
    /\ acked' = IF m \in pel THEN acked \cup {m} ELSE acked
    /\ UNCHANGED <<queue, groupVars, delVars, svc, published, dropped, returns, faults>>

(* A Nack, or the checker after the timeout, puts a pending message back.  *)
GiveBack(m) ==
    /\ Connected /\ m \in pel /\ returns < MaxReturns
    /\ pel' = pel \ {m} /\ RequeueMessage(m)
    /\ returns' = returns + 1
    /\ UNCHANGED <<groupVars, delVars, svc, atClient, hisVars, faults>>

(* SIGTERM: no new request; Shutdown waits for the streams to end, then    *)
(* Close cancels q.ctx and waits for the goroutines.                       *)
Drain ==
    /\ svc = "up" /\ svc' = "draining"
    /\ UNCHANGED <<redisVars, groupVars, delVars, atClient, hisVars, returns, faults>>

Close ==
    /\ svc = "draining" /\ \A n \in Conns : ~Serving(n)
    /\ svc' = "closing"
    /\ UNCHANGED <<redisVars, groupVars, delVars, atClient, hisVars, returns, faults>>

CloseReturns ==
    /\ svc = "closing" /\ \A d \in Deliverers : dpc[d] = "off"
    /\ svc' = "closed"
    /\ UNCHANGED <<redisVars, groupVars, delVars, atClient, hisVars, returns, faults>>

(* Streams that do not end within 30 seconds make main call os.Exit(1).    *)
Abort ==
    /\ svc = "draining" /\ \E n \in Conns : Serving(n)
    /\ svc' = "closed"
    /\ dropped' = dropped \cup {hand[d] : d \in {e \in Deliverers : dpc[e] \in {"zadd", "requeue"}}}
    /\ dpc' = [d \in Deliverers |-> "off"] /\ hand' = [d \in Deliverers |-> None]
    /\ ids' = [d \in Deliverers |-> <<>>] /\ turn' = [d \in Deliverers |-> 0]
    /\ UNCHANGED <<redisVars, groupVars, atClient, published, acked, returns, faults>>

RequestNext(n) == (\E i \in Ids : Register(n, i)) \/ ClientGone(n) \/ ChannelClosed(n) \/ SendEvent(n)

DelivererNext(d) ==
    \/ Stop(d) \/ ReadGroup(d) \/ PopMessage(d) \/ PopFails(d) \/ AddToPEL(d)
    \/ AddToPELError(d) \/ Requeue(d) \/ Deliver(d)

Next ==
    \/ \E m \in Msgs : Publish(m) \/ Settle(m) \/ GiveBack(m)
    \/ \E n \in Conns : RequestNext(n)
    \/ \E d \in Deliverers : DelivererNext(d)
    \/ Drain \/ Close \/ CloseReturns \/ Abort

Spec == Init /\ [][Next]_vars

(* Goroutines run; wg.Wait returns; a closed channel is noticed.           *)
Fairness ==
    /\ \A d \in Deliverers : WF_vars(DelivererNext(d))
    /\ \A n \in Conns : WF_vars(ChannelClosed(n) \/ SendEvent(n))
    /\ WF_vars(CloseReturns)

FairSpec == Spec /\ Fairness

-----------------------------------------------------------------------------
(* Every variable has its type.                                            *)
TypeOK ==
    /\ queue \in Seq(Msgs) /\ pel \in SUBSET Msgs
    /\ consumers \in [Ids -> Conns \cup {None}]
    /\ chan \in [Conns -> Seq(Msgs)] /\ \A n \in Conns : Len(chan[n]) <= ChanSize
    /\ chanClosed \in [Conns -> BOOLEAN]
    /\ connId \in [Conns -> Ids \cup {None}]
    /\ dpc \in [Deliverers -> {"off", "top", "pop", "zadd", "requeue", "deliver"}]
    /\ ids \in [Deliverers -> Seq(Ids)]
    /\ turn \in [Deliverers -> 0..BatchSize]
    /\ hand \in [Deliverers -> Msgs \cup {None}]
    /\ svc \in {"up", "draining", "closing", "closed"}
    /\ atClient \in SUBSET Msgs
    /\ published \in SUBSET Msgs /\ acked \in SUBSET Msgs /\ dropped \in SUBSET Msgs
    /\ returns \in 0..MaxReturns /\ faults \in 0..MaxFaults

(* A registered channel is the open channel of a request that is being     *)
(* served under that id, so no delivery sends on, and no unregistration    *)
(* closes, a closed channel, also when a client came back under its id     *)
(* before its old request ended.                                           *)
RegisteredOpen ==
    \A i \in Ids : consumers[i] # None =>
        connId[consumers[i]] = i /\ ~chanClosed[consumers[i]]

Held(m) == \E d \in Deliverers : dpc[d] \in {"zadd", "requeue"} /\ hand[d] = m

(* A message that found its consumer gone or its channel full is still     *)
(* pending: a published message is in Redis, with a goroutine, or settled, *)
(* unless a Redis error or an aborted shutdown dropped it.                 *)
NoSilentLoss ==
    \A m \in published :
        \/ In(m, queue) \/ m \in pel \/ Held(m) \/ m \in acked
        \/ m \in dropped /\ (faults > 0 \/ svc \in {"closing", "closed"})

InChannels(m) ==
    {p \in Conns \X (1..ChanSize) : p[2] <= Len(chan[p[1]]) /\ chan[p[1]][p[2]] = m}

(* "prevents duplicate consumption" (RegisterConsumer): however many       *)
(* delivery goroutines registrations have started, a message is in the     *)
(* list, with one of them or on its way to one consumer; only a timeout,   *)
(* a Nack or a Redis error adds a further copy.                            *)
DeliveredOnce ==
    \A m \in Msgs :
        Occurrences(m, queue) + Cardinality({d \in Deliverers : hand[d] = m})
        + Cardinality(InChannels(m)) + (IF m \in atClient THEN 1 ELSE 0)
            <= 1 + returns + faults

(* A waiting message is taken while some consumer is registered, however   *)
(* often the group was emptied and filled again.                           *)
DeliveryGoesOn ==
    \A m \in Msgs : In(m, queue) ~> (~In(m, queue) \/ Registered = {} \/ svc # "up")

(* Close does not wait for ever for the delivery goroutines.               *)
CloseEnds == svc = "closing" ~> svc = "closed"

=============================================================================
