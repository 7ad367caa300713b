----------------------------- MODULE RedisQueue -----------------------------
(***************************************************************************)
(* The queue service: RedisQueue (internal/queueservice/redis_queue.go)    *)
(* behind its HTTP handlers (http_server.go), for one topic and one        *)
(* consumer group, with the polling consumers at its interface.            *)
(*                                                                         *)
(* One Redis command is one atomic step: handlers, the visibility-timeout  *)
(* checker and crashes interleave between commands.  Redis itself keeps    *)
(* its data (queue, pel) across a crash of the service; everything else of *)
(* the service is memory.                                                  *)
(***************************************************************************)
EXTENDS Lists

CONSTANTS
    Msgs,            \* the messages producers publish, told apart by Message.ID
    Consumers,       \* collectors that poll with FetchBatch
    Handlers,        \* net/http goroutines that serve fetch, ack and nack
    Stamps,          \* VisibleAt instants; two live entries never share one
    None,            \* "no message", "no entry", "no call"
    Prefetch,        \* messages asked for by one fetch
    MaxRetries,      \* RedisQueue.maxRetries
    MaxNacks,        \* bound: Nacks sent by consumers
    MaxTimeouts,     \* bound: calls given up by the consumer
    MaxFaults,       \* bound: Redis commands that return an error
    MaxCrashes       \* bound: stops of the service and of consumers

ASSUME NoneAssumption == /\ None \notin Msgs /\ None \notin Handlers
                         /\ None \notin [msg : Msgs, stamp : Stamps, count : Nat]
ASSUME FiniteAssumption == IsFiniteSet(Handlers)
ASSUME PrefetchAssumption == Prefetch \in Nat \ {0}
ASSUME RetriesAssumption == MaxRetries \in Nat
ASSUME BoundAssumption == /\ MaxNacks \in Nat /\ MaxTimeouts \in Nat
                          /\ MaxFaults \in Nat /\ MaxCrashes \in Nat

VARIABLES
    queue,      \* Redis list queue:<topic>; Head is the right end, popped next
    pel,        \* Redis sorted set pel:<topic>:<group>
    expired,    \* stamps whose instant has passed
    dlq,        \* deadLetterQueue, in memory
    svc,        \* "up", "draining" (server.Shutdown), "closing" (q.cancel), "down"
    pc,         \* per handler: the next command it will issue
    hand,       \* per handler: the message popped, or the one to settle
    ent,        \* per handler: the entry Ack or Nack picked from its ZRANGE
    got,        \* per handler: FetchBatch's messages slice
    tries,      \* per handler: FetchBatch's loop counter i
    chkPc,      \* checkExpiredMessages: "idle", "scan" or "push"
    chkSnap,    \* entries of its ZRANGEBYSCORE not yet looked at
    chkMsg,     \* the message between its ZREM and its RPUSH
    call,       \* per consumer: the handler whose answer it waits for
    inbox,      \* per consumer: the rest of the batch it was given
    published,  \* history: messages an LPUSH put in Redis
    acked,      \* history: messages whose Ack reached its ZREM
    dropped,    \* history: messages of which a stop or a Redis error dropped a copy
    overdue,    \* history: messages that expired while somebody could still settle them
    nacks, timeouts, faults, crashes   \* how much of each bound is used

redisVars == <<queue, pel, expired>>
svcVars   == <<dlq, svc>>
hdlVars   == <<pc, hand, ent, got, tries>>
chkVars   == <<chkPc, chkSnap, chkMsg>>
cliVars   == <<call, inbox>>
hisVars   == <<published, acked, dropped, overdue>>
budVars   == <<nacks, timeouts, faults, crashes>>
vars      == <<redisVars, svcVars, hdlVars, chkVars, cliVars, hisVars, budVars>>

(* PendingEntry; its ConsumerID is written and never read again.           *)
Entries == [msg : Msgs, stamp : Stamps, count : Nat]

PCs == {"idle", "pop", "zadd", "requeue", "reply", "panic",
        "ackRange", "ackRem", "nackRange", "nackRem", "nackPush"}

-----------------------------------------------------------------------------
(* Where a message can be.                                                 *)
Queued(m)  == In(m, queue)
Pending(m) == \E e \in pel : e.msg = m
Holds(h, m) == pc[h] \in {"zadd", "requeue", "nackPush"} /\ hand[h] = m
InHand(m)  == \/ \E h \in Handlers : Holds(h, m)
              \/ chkPc = "push" /\ chkMsg = m
DeadLettered(m) == In(m, dlq)
Live(m)    == Queued(m) \/ Pending(m) \/ InHand(m)

(* A call or a batch that can still end in an Ack or a Nack of m.          *)
MaySettle(m) ==
    \/ \E c \in Consumers : In(m, inbox[c])
    \/ \E h \in Handlers :
         \/ pc[h] \in {"ackRange", "ackRem", "nackRange", "nackRem"} /\ hand[h] = m
         \/ In(m, got[h])

(* Stamps some live or remembered entry carries: VisibleAt has nanosecond  *)
(* resolution, so a new entry never equals one a thread still remembers.   *)
UsedStamps == {e.stamp : e \in pel} \cup {e.stamp : e \in chkSnap}
              \cup {ent[h].stamp : h \in {g \in Handlers : ent[g] # None}}

Init ==
    /\ queue = <<>> /\ pel = {} /\ expired = {}
    /\ dlq = <<>> /\ svc = "up"
    /\ pc = [h \in Handlers |-> "idle"]
    /\ hand = [h \in Handlers |-> None]
    /\ ent = [h \in Handlers |-> None]
    /\ got = [h \in Handlers |-> <<>>]
    /\ tries = [h \in Handlers |-> 0]
    /\ chkPc = "idle" /\ chkSnap = {} /\ chkMsg = None
    /\ call = [c \in Consumers |-> None]
    /\ inbox = [c \in Consumers |-> <<>>]
    /\ published = {} /\ acked = {} /\ dropped = {} /\ overdue = {}
    /\ nacks = 0 /\ timeouts = 0 /\ faults = 0 /\ crashes = 0

-----------------------------------------------------------------------------
(* Redis commands (external), as effects on queue and pel.  LPUSH and RPOP *)
(* work on opposite ends of the list; RPUSH puts back on the RPOP end.     *)
LPush(m) == queue' = Append(queue, m)
RPush(m) == queue' = <<m>> \o queue
ZAdd(e)  == pel' = pel \cup {e} /\ expired' = expired \ {e.stamp}
ZRem(e)  == pel' = pel \ {e} /\ expired' = expired \ {e.stamp}

(* q.ctx is alive and Redis answers: a command can succeed.                *)
Connected == svc \in {"up", "draining"}

(* A command returns an error: q.ctx was cancelled by Close, or Redis or   *)
(* the network failed, at most MaxFaults times.  A command whose reply is  *)
(* lost may have taken effect; that case is written out where the caller   *)
(* then does something else than after a success.                          *)
RedisError == \/ svc = "closing" /\ UNCHANGED faults
              \/ Connected /\ faults < MaxFaults /\ faults' = faults + 1

(* requeueMessage: the message goes back to the end it was popped from.    *)
RequeueDropped(m) == queue' = queue   \* mutant: the RPUSH is forgotten
RequeueMessage(m) == RPush(m)

(* The PendingEntry addToPEL writes: every delivery starts at count 1.     *)
NewEntry(m, s) == [msg |-> m, stamp |-> s, count |-> 1]

(* The handler function returns; its goroutine is free again.              *)
Return(h) ==
    /\ pc' = [pc EXCEPT ![h] = "idle"]
    /\ hand' = [hand EXCEPT ![h] = None]
    /\ ent' = [ent EXCEPT ![h] = None]
    /\ got' = [got EXCEPT ![h] = <<>>]
    /\ tries' = [tries EXCEPT ![h] = 0]

(* The consumer that still waits for h, if any, gets its answer.           *)
Answer(h) == call' = [c \in Consumers |-> IF call[c] = h THEN None ELSE call[c]]

(* Publish: LPUSH.  An error without effect leaves m unpublished.          *)
Publish(m) ==
    /\ Connected /\ m \notin published
    /\ LPush(m)
    /\ published' = published \cup {m}
    /\ UNCHANGED <<pel, expired, svcVars, hdlVars, chkVars, cliVars, acked, dropped, overdue,
                   budVars>>

-----------------------------------------------------------------------------
(* The polling consumer: one call at a time, the batch settled in order.   *)

StartFetch(c, h) ==
    /\ svc = "up" /\ call[c] = None /\ inbox[c] = <<>> /\ pc[h] = "idle"
    /\ pc' = [pc EXCEPT ![h] = "pop"]
    /\ call' = [call EXCEPT ![c] = h]
    /\ UNCHANGED <<redisVars, svcVars, hand, ent, got, tries, chkVars, inbox, hisVars, budVars>>

Settle(c, h, first) ==
    /\ svc = "up" /\ call[c] = None /\ inbox[c] # <<>> /\ pc[h] = "idle"
    /\ pc' = [pc EXCEPT ![h] = first]
    /\ hand' = [hand EXCEPT ![h] = Head(inbox[c])]
    /\ inbox' = [inbox EXCEPT ![c] = Tail(inbox[c])]
    /\ call' = [call EXCEPT ![c] = h]
    /\ UNCHANGED <<redisVars, svcVars, ent, got, tries, chkVars, hisVars, timeouts, faults, crashes>>

StartAck(c, h)  == Settle(c, h, "ackRange") /\ UNCHANGED nacks
StartNack(c, h) == Settle(c, h, "nackRange") /\ nacks < MaxNacks /\ nacks' = nacks + 1

(* The service is not there: the Ack or Nack fails, the client logs it and *)
(* goes on with the next message of the batch.                             *)
SettleRefused(c) ==
    /\ svc # "up" /\ call[c] = None /\ inbox[c] # <<>>
    /\ inbox' = [inbox EXCEPT ![c] = Tail(inbox[c])]
    /\ UNCHANGED <<redisVars, svcVars, hdlVars, chkVars, call, hisVars, budVars>>

(* The client's timeout or the server's WriteTimeout ends the call; the    *)
(* handler goes on, its answer reaches nobody.                             *)
CallTimesOut(c) ==
    /\ call[c] # None /\ timeouts < MaxTimeouts
    /\ call' = [call EXCEPT ![c] = None]
    /\ timeouts' = timeouts + 1
    /\ UNCHANGED <<redisVars, svcVars, hdlVars, chkVars, inbox, hisVars, nacks, faults, crashes>>

(* The collector process dies and comes back with nothing.                 *)
ConsumerCrash(c) ==
    /\ crashes < MaxCrashes /\ (call[c] # None \/ inbox[c] # <<>>)
    /\ call' = [call EXCEPT ![c] = None]
    /\ inbox' = [inbox EXCEPT ![c] = <<>>]
    /\ crashes' = crashes + 1
    /\ UNCHANGED <<redisVars, svcVars, hdlVars, chkVars, hisVars, nacks, timeouts, faults>>

-----------------------------------------------------------------------------
(* FetchBatch: popMessage, addToPEL, until count turns of the loop.        *)

PopMessage(h) ==
    /\ Connected /\ pc[h] = "pop" /\ queue # <<>>
    /\ hand' = [hand EXCEPT ![h] = Head(queue)]
    /\ queue' = Tail(queue)
    /\ pc' = [pc EXCEPT ![h] = "zadd"]
    /\ UNCHANGED <<pel, expired, svcVars, ent, got, tries, chkVars, cliVars, hisVars, budVars>>

(* BRPOP times out: popMessage returns (nil, nil), addToPEL reads          *)
(* msg.Topic of a nil message.                                             *)
PopEmpty(h) ==
    /\ Connected /\ pc[h] = "pop" /\ queue = <<>>
    /\ pc' = [pc EXCEPT ![h] = "panic"]
    /\ UNCHANGED <<redisVars, svcVars, hand, ent, got, tries, chkVars, cliVars, hisVars, budVars>>

(* net/http (external) recovers the panic and aborts the connection.       *)
PanicRecovered(h) ==
    /\ pc[h] = "panic"
    /\ Return(h) /\ Answer(h)
    /\ UNCHANGED <<redisVars, svcVars, chkVars, inbox, hisVars, budVars>>

(* BRPOP fails: the loop ends, what was fetched is returned.  The reply    *)
(* may be what was lost: then the message is gone from Redis as well.      *)
PopError(h) ==
    /\ pc[h] = "pop" /\ RedisError
    /\ pc' = [pc EXCEPT ![h] = "reply"]
    /\ \/ UNCHANGED <<queue, dropped>>
       \/ /\ Connected /\ queue # <<>>
          /\ queue' = Tail(queue) /\ dropped' = dropped \cup {Head(queue)}
    /\ UNCHANGED <<pel, expired, svcVars, hand, ent, got, tries, chkVars, cliVars,
                   published, acked, overdue, nacks, timeouts, crashes>>

(* The end of one turn of the loop.                                        *)
NextTurn(h) ==
    /\ tries' = [tries EXCEPT ![h] = @ + 1]
    /\ pc' = [pc EXCEPT ![h] = IF tries[h] + 1 < Prefetch THEN "pop" ELSE "reply"]
    /\ hand' = [hand EXCEPT ![h] = None]

AddToPEL(h) ==
    /\ Connected /\ pc[h] = "zadd"
    /\ \E s \in Stamps \ UsedStamps : ZAdd(NewEntry(hand[h], s))
    /\ got' = [got EXCEPT ![h] = Append(@, hand[h])]
    /\ NextTurn(h)
    /\ UNCHANGED <<queue, svcVars, ent, chkVars, cliVars, hisVars, budVars>>

(* ZADD fails, with or without effect; the message will be requeued.       *)
AddToPELError(h) ==
    /\ pc[h] = "zadd" /\ RedisError
    /\ pc' = [pc EXCEPT ![h] = "requeue"]
    /\ \/ UNCHANGED <<pel, expired>>
       \/ \E s \in Stamps \ UsedStamps : ZAdd(NewEntry(hand[h], s))
    /\ UNCHANGED <<queue, svcVars, hand, ent, got, tries, chkVars, cliVars, hisVars,
                   nacks, timeouts, crashes>>

RequeueFetched(h) ==
    /\ Connected /\ pc[h] = "requeue"
    /\ RequeueMessage(hand[h])
    /\ NextTurn(h)
    /\ UNCHANGED <<pel, expired, svcVars, ent, got, chkVars, cliVars, hisVars, budVars>>

(* _ = q.requeueMessage(msg): the error is ignored.                        *)
RequeueFetchedError(h) ==
    /\ pc[h] = "requeue" /\ RedisError
    /\ dropped' = dropped \cup {hand[h]}
    /\ NextTurn(h)
    /\ UNCHANGED <<redisVars, svcVars, ent, got, chkVars, cliVars, published, acked, overdue,
                   nacks, timeouts, crashes>>

(* handleFetch encodes the batch; a consumer that gave up never sees it.   *)
FetchReply(h) ==
    /\ pc[h] = "reply"
    /\ inbox' = [c \in Consumers |-> IF call[c] = h THEN got[h] ELSE inbox[c]]
    /\ Return(h) /\ Answer(h)
    /\ UNCHANGED <<redisVars, svcVars, chkVars, hisVars, budVars>>

-----------------------------------------------------------------------------
(* Ack and Nack: ZRANGE, then ZREM of a matching entry, then RPUSH.        *)
(* Entries of one second are ordered by their JSON, so which of several    *)
(* deliveries of a message comes first is left open.                       *)

MatchingAny(h) == pel   \* mutant: the message id is not compared
Matching(h) == {e \in pel : e.msg = hand[h]}

ZRange(h, from, to) ==
    /\ Connected /\ pc[h] = from
    /\ \E e \in Matching(h) : ent' = [ent EXCEPT ![h] = e]
    /\ pc' = [pc EXCEPT ![h] = to]
    /\ UNCHANGED <<redisVars, svcVars, hand, got, tries, chkVars, cliVars, hisVars, budVars>>

AckRange(h)  == ZRange(h, "ackRange", "ackRem")
NackRange(h) == ZRange(h, "nackRange", "nackRem")

(* "message not found in PEL"                                              *)
NotFound(h) ==
    /\ Connected /\ pc[h] \in {"ackRange", "nackRange"} /\ Matching(h) = {}
    /\ Return(h) /\ Answer(h)
    /\ UNCHANGED <<redisVars, svcVars, chkVars, inbox, hisVars, budVars>>

(* ZREM's count is not looked at: Ack succeeds if the entry is long gone.  *)
AckRem(h) ==
    /\ Connected /\ pc[h] = "ackRem"
    /\ ZRem(ent[h])
    /\ acked' = acked \cup {hand[h]}
    /\ Return(h) /\ Answer(h)
    /\ UNCHANGED <<queue, svcVars, chkVars, inbox, published, dropped, overdue, budVars>>

NackRem(h) ==
    /\ Connected /\ pc[h] = "nackRem"
    /\ ZRem(ent[h])
    /\ pc' = [pc EXCEPT ![h] = "nackPush"]
    /\ ent' = [ent EXCEPT ![h] = None]
    /\ UNCHANGED <<queue, svcVars, hand, got, tries, chkVars, cliVars, hisVars, budVars>>

NackPush(h) ==
    /\ Connected /\ pc[h] = "nackPush"
    /\ RequeueMessage(hand[h])
    /\ Return(h) /\ Answer(h)
    /\ UNCHANGED <<pel, expired, svcVars, chkVars, inbox, hisVars, budVars>>

(* A Redis error inside Ack or Nack is answered with a 500.  A Nack whose  *)
(* ZREM took effect never gets to its RPUSH.                               *)
SettleError(h) ==
    /\ RedisError
    /\ \/ /\ pc[h] \in {"ackRange", "ackRem", "nackRange", "nackRem"}
          /\ UNCHANGED <<pel, expired, dropped>>
       \/ /\ pc[h] = "nackRem" /\ Connected
          /\ ZRem(ent[h]) /\ dropped' = dropped \cup {hand[h]}
       \/ /\ pc[h] = "nackPush"
          /\ dropped' = dropped \cup {hand[h]} /\ UNCHANGED <<pel, expired>>
    /\ Return(h) /\ Answer(h)
    /\ UNCHANGED <<queue, svcVars, chkVars, inbox, published, acked, overdue,
                   nacks, timeouts, crashes>>

-----------------------------------------------------------------------------
(* visibilityTimeoutChecker and checkExpiredMessages.                      *)

(* Time passes the VisibleAt of an entry.                                  *)
Expire(e) ==
    /\ e \in pel /\ e.stamp \notin expired
    /\ expired' = expired \cup {e.stamp}
    /\ overdue' = overdue \cup {m \in {e.msg} : MaySettle(m)}
    /\ UNCHANGED <<queue, pel, svcVars, hdlVars, chkVars, cliVars, published, acked,
                   dropped, budVars>>

CheckerScan ==
    /\ Connected /\ chkPc = "idle"
    /\ chkSnap' = {e \in pel : e.stamp \in expired}
    /\ chkSnap' # {}
    /\ chkPc' = "scan"
    /\ UNCHANGED <<redisVars, svcVars, hdlVars, chkMsg, cliVars, hisVars, budVars>>

(* The result of the checker's ZREM is ignored: it may fail, and it may    *)
(* find that an Ack or a Nack removed the entry since the scan.            *)
CheckerZRemForgotten(e) == UNCHANGED <<pel, expired, faults>>   \* mutant
CheckerZRem(e) == \/ Connected /\ ZRem(e) /\ UNCHANGED faults
                  \/ RedisError /\ UNCHANGED <<pel, expired>>

(* moveToDeadLetterQueue, then the ZREM.  The slice is memory that only    *)
(* GetStats reads, so nobody sees it grow before the command is issued,    *)
(* and a stop in between loses it as a stop before it does.                *)
CheckerDeadLetter(e) ==
    /\ chkPc = "scan" /\ e \in chkSnap /\ e.count >= MaxRetries
    /\ dlq' = Append(dlq, e.msg)
    /\ CheckerZRem(e)
    /\ chkSnap' = chkSnap \ {e}
    /\ UNCHANGED <<queue, svc, hdlVars, chkPc, chkMsg, cliVars, hisVars, nacks, timeouts, crashes>>

(* entry.DeliveryCount++ changes a copy that is then thrown away.          *)
CheckerRemove(e) ==
    /\ chkPc = "scan" /\ e \in chkSnap /\ e.count < MaxRetries
    /\ CheckerZRem(e)
    /\ chkSnap' = chkSnap \ {e} /\ chkMsg' = e.msg /\ chkPc' = "push"
    /\ UNCHANGED <<queue, svcVars, hdlVars, cliVars, hisVars, nacks, timeouts, crashes>>

CheckerRequeue ==
    /\ Connected /\ chkPc = "push"
    /\ RequeueMessage(chkMsg)
    /\ chkMsg' = None /\ chkPc' = "scan"
    /\ UNCHANGED <<pel, expired, svcVars, hdlVars, chkSnap, cliVars, hisVars, budVars>>

(* "Failed to requeue expired message" is logged and nothing else.         *)
CheckerRequeueError ==
    /\ chkPc = "push" /\ RedisError
    /\ dropped' = dropped \cup {chkMsg}
    /\ chkMsg' = None /\ chkPc' = "scan"
    /\ UNCHANGED <<redisVars, svcVars, hdlVars, chkSnap, cliVars, published, acked, overdue,
                   nacks, timeouts, crashes>>

CheckerDone ==
    /\ chkPc = "scan" /\ chkSnap = {}
    /\ chkPc' = "idle"
    /\ UNCHANGED <<redisVars, svcVars, hdlVars, chkSnap, chkMsg, cliVars, hisVars, budVars>>

-----------------------------------------------------------------------------
(* The process: SIGTERM drains the HTTP server, then Close cancels q.ctx   *)
(* and waits for the checker; a crash is os.Exit, a kill or a lost node.   *)

Shutdown ==
    /\ svc = "up" /\ crashes < MaxCrashes
    /\ svc' = "draining" /\ crashes' = crashes + 1
    /\ UNCHANGED <<redisVars, dlq, hdlVars, chkVars, cliVars, hisVars, nacks, timeouts, faults>>

Close ==
    /\ svc = "draining" /\ \A h \in Handlers : pc[h] = "idle"
    /\ svc' = "closing"
    /\ UNCHANGED <<redisVars, dlq, hdlVars, chkVars, cliVars, hisVars, budVars>>

(* Everything in memory goes: messages in hand and the dead letters.       *)
ProcessGone ==
    /\ svc' = "down" /\ dlq' = <<>>
    /\ dropped' = dropped \cup {m \in Msgs : InHand(m) \/ DeadLettered(m)}
    /\ pc' = [h \in Handlers |-> "idle"]
    /\ hand' = [h \in Handlers |-> None]
    /\ ent' = [h \in Handlers |-> None]
    /\ got' = [h \in Handlers |-> <<>>]
    /\ tries' = [h \in Handlers |-> 0]
    /\ chkPc' = "idle" /\ chkSnap' = {} /\ chkMsg' = None
    /\ call' = [c \in Consumers |-> None]
    /\ UNCHANGED <<redisVars, inbox, published, acked, overdue, nacks, timeouts, faults>>

Exit  == svc = "closing" /\ chkPc = "idle" /\ ProcessGone /\ UNCHANGED crashes
Crash == svc # "down" /\ crashes < MaxCrashes /\ ProcessGone /\ crashes' = crashes + 1

Restart ==
    /\ svc = "down" /\ svc' = "up"
    /\ UNCHANGED <<redisVars, dlq, hdlVars, chkVars, cliVars, hisVars, budVars>>

-----------------------------------------------------------------------------
ConsumerNext == \E c \in Consumers :
    \/ \E h \in Handlers : StartFetch(c, h) \/ StartAck(c, h) \/ StartNack(c, h)
    \/ SettleRefused(c) \/ CallTimesOut(c) \/ ConsumerCrash(c)

HandlerNext == \E h \in Handlers :
    \/ PopMessage(h) \/ PopEmpty(h) \/ PanicRecovered(h) \/ PopError(h)
    \/ AddToPEL(h) \/ AddToPELError(h) \/ RequeueFetched(h) \/ RequeueFetchedError(h)
    \/ FetchReply(h)
    \/ AckRange(h) \/ NackRange(h) \/ NotFound(h)
    \/ AckRem(h) \/ NackRem(h) \/ NackPush(h) \/ SettleError(h)

CheckerNext ==
    \/ CheckerScan \/ CheckerRequeue \/ CheckerRequeueError \/ CheckerDone
    \/ \E e \in chkSnap : CheckerDeadLetter(e) \/ CheckerRemove(e)

ProcessNext == Shutdown \/ Close \/ Exit \/ Crash \/ Restart

Next ==
    \/ \E m \in Msgs : Publish(m)
    \/ ConsumerNext \/ HandlerNext \/ CheckerNext \/ ProcessNext
    \/ \E e \in pel : Expire(e)

Spec == Init /\ [][Next]_vars

(* What the runtime guarantees: every goroutine and consumer loop that can *)
(* take a step takes one, the ticker ticks, time passes, and Kubernetes    *)
(* restarts the service.  Failures, Nacks and publishes need never happen. *)
HandlerStep(h) ==
    \/ PopMessage(h) \/ PopEmpty(h) \/ PanicRecovered(h) \/ AddToPEL(h)
    \/ RequeueFetched(h) \/ FetchReply(h) \/ AckRange(h) \/ NackRange(h)
    \/ NotFound(h) \/ AckRem(h) \/ NackRem(h) \/ NackPush(h)

ConsumerStep(c) ==
    \/ \E h \in Handlers : StartFetch(c, h) \/ StartAck(c, h)
    \/ SettleRefused(c)

Fairness ==
    /\ \A h \in Handlers : WF_vars(HandlerStep(h))
    /\ \A c \in Consumers : WF_vars(ConsumerStep(c))
    /\ WF_vars(CheckerNext)
    /\ \A s \in Stamps : WF_vars(\E e \in pel : e.stamp = s /\ Expire(e))
    /\ WF_vars(Close \/ Exit \/ Restart)

FairSpec == Spec /\ Fairness

-----------------------------------------------------------------------------
(* Every variable of the service, of Redis and of its clients has its type.*)
TypeOK ==
    /\ queue \in Seq(Msgs) /\ pel \in SUBSET Entries /\ expired \in SUBSET Stamps
    /\ dlq \in Seq(Msgs) /\ svc \in {"up", "draining", "closing", "down"}
    /\ pc \in [Handlers -> PCs]
    /\ hand \in [Handlers -> Msgs \cup {None}]
    /\ ent \in [Handlers -> Entries \cup {None}]
    /\ got \in [Handlers -> Seq(Msgs)]
    /\ tries \in [Handlers -> 0..Prefetch]
    /\ chkPc \in {"idle", "scan", "push"}
    /\ chkSnap \in SUBSET Entries /\ chkMsg \in Msgs \cup {None}
    /\ call \in [Consumers -> Handlers \cup {None}]
    /\ inbox \in [Consumers -> Seq(Msgs)]
    /\ published \in SUBSET Msgs /\ acked \in SUBSET Msgs /\ dropped \in SUBSET Msgs
    /\ overdue \in SUBSET Msgs
    /\ nacks \in 0..MaxNacks /\ timeouts \in 0..MaxTimeouts
    /\ faults \in 0..MaxFaults /\ crashes \in 0..MaxCrashes

(* A thread works on the message it took up: the entry Ack or Nack picked  *)
(* from its ZRANGE is one of the message it was asked to settle, whatever  *)
(* happened to the PEL since; a popped or removed message stays in hand    *)
(* until it is back in Redis; the fetch loop stays within its count.       *)
ThreadInv ==
    /\ \A h \in Handlers :
        /\ pc[h] \in {"zadd", "requeue", "ackRange", "ackRem",
                      "nackRange", "nackRem", "nackPush"} => hand[h] \in Msgs
        /\ pc[h] \in {"ackRem", "nackRem"} =>
               ent[h] \in Entries /\ ent[h].msg = hand[h]
        /\ pc[h] \in {"pop", "zadd", "requeue"} => tries[h] < Prefetch
        /\ pc[h] = "idle" => tries[h] = 0
    /\ chkPc = "push" => chkMsg \in Msgs

(* No message is lost silently: a published message is still in the list,  *)
(* in the PEL or in the hands of a running thread, or it was dead-lettered *)
(* or acknowledged, or one of the failures the code has no answer to (a    *)
(* stop between BRPOP and ZADD or between ZREM and RPUSH, an error of      *)
(* those commands, the loss of the in-memory DLQ) dropped a copy of it.    *)
NoSilentLoss ==
    \A m \in published :
        \/ Live(m) \/ DeadLettered(m) \/ m \in acked
        \/ m \in dropped /\ faults + crashes > 0

(* The copies of m that can still be delivered.                            *)
Copies(m) ==
    Occurrences(m, queue)
    + Cardinality({e \in pel : e.msg = m})
    + Cardinality({h \in Handlers : Holds(h, m)})
    + (IF chkPc = "push" /\ chkMsg = m THEN 1 ELSE 0)

(* Redelivery moves a message, it does not multiply it: timeouts, stale    *)
(* scans and late Acks alone leave at most one copy of a message to        *)
(* deliver.  A further copy takes a Redis error, a stop of the service, or *)
(* a Nack that races with the timeout checker, and each of these adds at   *)
(* most one.                                                               *)
CopiesBounded == \A m \in Msgs : Copies(m) <= 1 + faults + crashes + nacks

(* A dead-lettered message is not delivered again, even if it was taken    *)
(* from a stale scan; only a Nack between scan and ZREM, a failed ZREM or  *)
(* a stop leaves it in both places.                                        *)
DeadLetterIsFinal ==
    nacks + faults + crashes = 0 => \A m \in Msgs : DeadLettered(m) => ~Live(m)

(* An acknowledged message does not come back, whatever is nacked, given   *)
(* up, stopped and restarted, with two exceptions: a Redis error left a    *)
(* second copy, or the visibility timeout of this very message ran out     *)
(* while somebody could still settle it, so that Ack and checker raced.    *)
AckIsFinal == faults = 0 => \A m \in acked \ overdue : ~Live(m)

(* "Failed messages moved to DLQ after max retries" (README.md): a message *)
(* cannot stay for ever what it is, fetched, expired and requeued; it ends *)
(* acknowledged, in the dead-letter queue, or lost to a counted failure.   *)
(* Batches of several messages are fetched from a list that has fewer, and *)
(* an answer, a stop or a Nack may come in between.                        *)
EventuallySettled ==
    \A m \in Msgs : m \in published ~> (m \in acked \cup dropped \/ DeadLettered(m))

-----------------------------------------------------------------------------
(* The list, the PEL and the hands of the threads are what the abstract    *)
(* queue owes; everything else of the service is hidden.                   *)
Queue == INSTANCE AtLeastOnce WITH
    owed     <- {m \in Msgs : Live(m)},
    dead     <- {m \in Msgs : DeadLettered(m)},
    lost     <- dropped,
    failures <- faults + crashes

(* The service implements the at-least-once queue: whatever commands of    *)
(* handlers, checker and crashes interleave, a message stops being owed    *)
(* only by an Ack, by dead-lettering or by a counted failure that drops    *)
(* it, and nothing is put back that was never published.                   *)
ImplementsAtLeastOnce == Queue!Spec

-----------------------------------------------------------------------------
(* What documents and comments of the repository say, and the code breaks. *)

(* Collectors process messages "in parallel without duplication"           *)
(* (README.md): a message that one of them acknowledged is not delivered   *)
(* again, although the checker saw it expired before.                      *)
NoDuplication == \A m \in acked : ~Live(m)

=============================================================================
