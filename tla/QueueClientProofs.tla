------------------------- MODULE QueueClientProofs -------------------------
(***************************************************************************)
(* Proofs about QueueClient, for any number of topics, messages and        *)
(* concurrent calls.                                                       *)
(***************************************************************************)
EXTENDS QueueClient, TLAPS

(* What of TypeOK the table's argument needs.                              *)
Types ==
    /\ table \in [Topics -> Subs \cup {None}]
    /\ subPc \in [Subs -> {"new", "checked", "refused", "subscribed"}]
    /\ topic \in [Subs -> Topics \cup {None}]
    /\ unsPc \in [Unsubs -> {"new", "cancel", "wait", "nil", "error"}]
    /\ target \in [Unsubs -> Subs \cup {None}]
    /\ cancelled \in SUBSET Subs /\ raced \in SUBSET Subs
    /\ \A s \in Subs : subPc[s] \in {"checked", "subscribed"} => topic[s] \in Topics

(* Two Subscribes of a topic between their check and their store are both  *)
(* known to overlap.                                                       *)
OverlapKnown ==
    \A r, s \in Subs :
        r # s /\ subPc[r] = "checked" /\ subPc[s] = "checked" /\ topic[r] = topic[s]
            => r \in raced

(* What such a Subscribe is about to overwrite overlapped it.              *)
OverwrittenRaced ==
    \A s \in Subs : subPc[s] = "checked" /\ table[topic[s]] # None
                        => table[topic[s]] \in raced

(* An Unsubscribe takes at most one subscription, and then cancels it.     *)
TakenCancelled ==
    \A u \in Unsubs : /\ unsPc[u] = "new" => target[u] = None
                      /\ unsPc[u] = "cancel" => target[u] # None
                      /\ target[u] # None => unsPc[u] = "cancel" \/ target[u] \in cancelled

TableInv == Types /\ OverlapKnown /\ OverwrittenRaced /\ TakenCancelled /\ Reachable

USE DEF subVars, ctxVars, pollVars, unsVars, shutVars, msgVars

LEMMA TableInit == Init => TableInv
BY DEF Init, TableInv, Types, OverlapKnown, OverwrittenRaced, TakenCancelled, Reachable

(* Everything but Subscribe and Unsubscribe leaves the table alone.        *)
LEMMA TableUntouched ==
    ASSUME TableInv, UNCHANGED <<table, subPc, topic, raced, unsPc, target, cancelled>>
    PROVE  TableInv'
BY DEF TableInv, Types, OverlapKnown, OverwrittenRaced, TakenCancelled, Reachable, Taken

(* A Subscribe that found the topic free.                                  *)
LEMMA CheckStep ==
    ASSUME TableInv, NEW s \in Subs, NEW t \in Topics, SubscribeCheck(s, t)
    PROVE  TableInv'
<1> USE DEF SubscribeCheck, Free
<1>1. Types' BY DEF TableInv, Types, Overlapping
<1>2. OverlapKnown'
  <2> SUFFICES ASSUME NEW p \in Subs, NEW q \in Subs, p # q,
                      subPc'[p] = "checked", subPc'[q] = "checked", topic'[p] = topic'[q]
               PROVE  p \in raced'
    BY DEF OverlapKnown
  <2>1. CASE p = s BY <2>1 DEF TableInv, Types, Overlapping
  <2>2. CASE q = s BY <2>2 DEF TableInv, Types, Overlapping
  <2>3. CASE p # s /\ q # s BY <2>3 DEF TableInv, Types, OverlapKnown
  <2> QED BY <2>1, <2>2, <2>3
<1>3. OverwrittenRaced' BY DEF TableInv, Types, OverwrittenRaced
<1>4. TakenCancelled' BY DEF TableInv, TakenCancelled
<1>5. Reachable' BY DEF TableInv, Types, Reachable, Taken
<1> QED BY <1>1, <1>2, <1>3, <1>4, <1>5 DEF TableInv

(* A Subscribe that enters its subscription, perhaps over another one.     *)
LEMMA StoreStep ==
    ASSUME TableInv, NEW s \in Subs, SubscribeStore(s)
    PROVE  TableInv'
<1> USE DEF SubscribeStore
<1>1. Types' BY DEF TableInv, Types
<1>2. OverlapKnown' BY DEF TableInv, Types, OverlapKnown
<1>3. OverwrittenRaced'
  <2> SUFFICES ASSUME NEW q \in Subs, subPc'[q] = "checked", table'[topic'[q]] # None
               PROVE  table'[topic'[q]] \in raced'
    BY DEF OverwrittenRaced
  <2>1. q # s /\ subPc[q] = "checked" BY DEF TableInv, Types
  <2>2. CASE topic[q] = topic[s]
    BY <2>1, <2>2, NoneAssumption DEF TableInv, Types, OverlapKnown
  <2>3. CASE topic[q] # topic[s]
    BY <2>1, <2>3 DEF TableInv, Types, OverwrittenRaced
  <2> QED BY <2>2, <2>3
<1>4. TakenCancelled' BY DEF TableInv, TakenCancelled
<1>5. Reachable'
  <2> SUFFICES ASSUME NEW q \in Subs, subPc'[q] = "subscribed"
               PROVE  table'[topic'[q]] = q \/ Taken(q)' \/ q \in raced'
    BY DEF Reachable
  <2>1. CASE q = s BY <2>1 DEF TableInv, Types
  <2>2. CASE q # s /\ table[topic[q]] = q /\ topic[q] = topic[s]
    BY <2>2, NoneAssumption DEF TableInv, Types, OverwrittenRaced
  <2>3. CASE q # s /\ ~(table[topic[q]] = q /\ topic[q] = topic[s])
    BY <2>3 DEF TableInv, Types, Reachable, Taken
  <2> QED BY <2>1, <2>2, <2>3
<1> QED BY <1>1, <1>2, <1>3, <1>4, <1>5 DEF TableInv

(* An Unsubscribe that takes a subscription out of the table.              *)
LEMMA TakeStep ==
    ASSUME TableInv, NEW u \in Unsubs, NEW t \in Topics, UnsubscribeTake(u, t)
    PROVE  TableInv'
<1> USE DEF UnsubscribeTake
<1>1. Types' BY DEF TableInv, Types
<1>2. OverlapKnown' BY DEF TableInv, OverlapKnown
<1>3. OverwrittenRaced' BY DEF TableInv, Types, OverwrittenRaced
<1>4. TakenCancelled' BY DEF TableInv, Types, TakenCancelled
<1>5. Reachable'
  <2> SUFFICES ASSUME NEW q \in Subs, subPc'[q] = "subscribed"
               PROVE  table'[topic'[q]] = q \/ Taken(q)' \/ q \in raced'
    BY DEF Reachable
  <2>1. CASE table[topic[q]] = q
    BY <2>1 DEF TableInv, Types, Taken
  <2>2. CASE Taken(q)
    <3>1. PICK v \in Unsubs : target[v] = q BY <2>2 DEF Taken
    <3>2. v # u BY <3>1, NoneAssumption DEF TableInv, TakenCancelled
    <3> QED BY <3>1, <3>2 DEF TableInv, Types, Taken
  <2>3. CASE q \in raced BY <2>3
  <2> QED BY <2>1, <2>2, <2>3 DEF TableInv, Reachable
<1> QED BY <1>1, <1>2, <1>3, <1>4, <1>5 DEF TableInv

(* The other steps of Subscribe and Unsubscribe.                           *)
LEMMA RefusedStep ==
    ASSUME TableInv, NEW s \in Subs, NEW t \in Topics, SubscribeRefused(s, t)
    PROVE  TableInv'
BY DEF SubscribeRefused, TableInv, Types, OverlapKnown, OverwrittenRaced, TakenCancelled,
       Reachable, Taken

LEMMA UnsubscribeStep ==
    ASSUME TableInv, NEW u \in Unsubs,
           UnsubscribeCancel(u) \/ UnsubscribeReturn(u) \/ \E t \in Topics : UnsubscribeError(u, t)
    PROVE  TableInv'
<1>1. CASE UnsubscribeCancel(u)
  <2> USE <1>1 DEF UnsubscribeCancel, CancelSub
  <2>1. target[u] \in Subs BY DEF TableInv, Types, TakenCancelled
  <2>2. Types' /\ TakenCancelled' BY <2>1 DEF TableInv, Types, TakenCancelled
  <2> QED BY <2>2 DEF TableInv, OverlapKnown, OverwrittenRaced, Reachable, Taken
<1>2. CASE UnsubscribeReturn(u)
  BY <1>2 DEF UnsubscribeReturn, TableInv, Types, OverlapKnown, OverwrittenRaced,
              TakenCancelled, Reachable, Taken
<1>3. CASE \E t \in Topics : UnsubscribeError(u, t)
  BY <1>3 DEF UnsubscribeError, TableInv, Types, OverlapKnown, OverwrittenRaced,
              TakenCancelled, Reachable, Taken
<1> QED BY <1>1, <1>2, <1>3

LEMMA TableStep == TableInv /\ [Next]_vars => TableInv'
<1> SUFFICES ASSUME TableInv, [Next]_vars PROVE TableInv'
  OBVIOUS
<1>1. CASE \E s \in Subs : SubscribeNext(s)
  BY <1>1, CheckStep, StoreStep, RefusedStep DEF SubscribeNext
<1>2. CASE \E s \in Subs : PollNext(s)
  BY <1>2, TableUntouched DEF PollNext, PollTop, PollFetch, PollNothing, Settle, HandleMessage
<1>3. CASE \E u \in Unsubs : UnsubscribeNext(u)
  BY <1>3, TakeStep, UnsubscribeStep DEF UnsubscribeNext
<1>4. CASE ShutdownNext \/ ParentCancel \/ \E m \in Msgs : Redeliver(m)
  BY <1>4, TableUntouched DEF ShutdownNext, ShutdownCancel, ShutdownSnapshot, ShutdownReturn,
     ShutdownDeadline, ParentCancel, Redeliver
<1>5. CASE UNCHANGED vars BY <1>5, TableUntouched DEF vars
<1> QED BY <1>1, <1>2, <1>3, <1>4, <1>5 DEF Next

(* Two live pollers of a topic: one of them is out of the table, so it was *)
(* taken and not yet cancelled, or overlapped.                             *)
LEMMA TableGivesOnePoller == TableInv => OneActivePoller
<1> SUFFICES ASSUME TableInv, NEW r \in Subs, NEW s \in Subs, r # s,
                    subPc[r] = "subscribed", subPc[s] = "subscribed", topic[r] = topic[s],
                    ~CtxDone(r), ~CtxDone(s), {r, s} \cap raced = {}
             PROVE  \E u \in Unsubs : unsPc[u] = "cancel" /\ target[u] \in {r, s}
  BY DEF OneActivePoller
<1>1. PICK q \in {r, s} : Taken(q)
  BY DEF TableInv, Reachable
<1>2. PICK u \in Unsubs : target[u] = q
  BY <1>1 DEF Taken
<1>3. q \notin cancelled /\ q # None
  BY NoneAssumption DEF CtxDone
<1> QED BY <1>2, <1>3 DEF TableInv, TakenCancelled

(* No poller gets out of reach of Unsubscribe, and no topic has two live   *)
(* pollers, except by the overlap of two Subscribes (the check and the     *)
(* store are under two locks) or between Unsubscribe's delete and cancel.  *)
THEOREM SubscriptionsReachable == Spec => []PollersInReach
<1>1. TableInv => PollersInReach
  BY TableGivesOnePoller DEF TableInv, PollersInReach
<1> QED BY <1>1, TableInit, TableStep, PTL DEF Spec

-----------------------------------------------------------------------------
(* A goroutine that was waited for has ended and does not come back; what  *)
(* Shutdown does not wait for is taken by an Unsubscribe, late or hidden.  *)
WaitedDone ==
    /\ \A u \in Unsubs : unsPc[u] = "nil" => poll[target[u]] = "done"
    /\ shut = "nil" => \A s \in waitFor : poll[s] = "done"

Copied ==
    shut \in {"wait", "nil"} =>
        \A s \in Subs : subPc[s] = "subscribed" =>
            s \in waitFor \/ Taken(s) \/ s \in tardy \cup raced

PollInv ==
    /\ poll \in [Subs -> {"off", "top", "fetch", "handle", "ack", "nack", "done"}]
    /\ waitFor \in SUBSET Subs /\ tardy \in SUBSET Subs
    /\ \A s \in Subs : subPc[s] # "subscribed" => poll[s] = "off"
    /\ \A u \in Unsubs : /\ unsPc[u] \in {"cancel", "wait", "nil"} => target[u] \in Subs
                         /\ target[u] # None => unsPc[u] \in {"cancel", "wait", "nil"}
    /\ WaitedDone /\ Copied

LEMMA PollInit == Init => PollInv
BY DEF Init, PollInv, WaitedDone, Copied

LEMMA PollStays ==
    ASSUME PollInv, UNCHANGED <<subPc, unsPc, target, waitFor, shut, raced, tardy>>,
           poll' \in [Subs -> {"off", "top", "fetch", "handle", "ack", "nack", "done"}],
           \A s \in Subs : poll[s] \in {"off", "done"} => poll'[s] = poll[s]
    PROVE  PollInv'
BY DEF PollInv, WaitedDone, Copied, Taken

LEMMA PollSubscribe ==
    ASSUME TableInv, PollInv, NEW s \in Subs, SubscribeNext(s)
    PROVE  PollInv'
<1> USE DEF PollInv, TableInv, Types
<1>1. CASE \E t \in Topics : SubscribeCheck(s, t) \/ SubscribeRefused(s, t)
  <2>1. /\ UNCHANGED <<unsPc, target, waitFor, shut, poll, tardy>> /\ raced \subseteq raced'
        /\ subPc[s] = "new" /\ subPc'[s] \in {"checked", "refused"}
        /\ \A q \in Subs : q # s => subPc'[q] = subPc[q]
    BY <1>1 DEF SubscribeCheck, SubscribeRefused
  <2>2. WaitedDone' /\ Copied'
    BY <2>1 DEF WaitedDone, Copied, Taken
  <2> QED BY <2>1, <2>2
<1>2. CASE SubscribeStore(s)
  <2>1. /\ UNCHANGED <<unsPc, target, waitFor, shut, raced>>
        /\ subPc[s] = "checked" /\ subPc'[s] = "subscribed"
        /\ \A q \in Subs : q # s => subPc'[q] = subPc[q] /\ poll'[q] = poll[q]
        /\ poll' \in [Subs -> {"off", "top", "fetch", "handle", "ack", "nack", "done"}]
        /\ tardy' \in SUBSET Subs /\ tardy \subseteq tardy'
        /\ shut \in {"wait", "nil"} => s \in tardy'
    BY <1>2 DEF SubscribeStore
  <2>2. WaitedDone'
    BY <2>1 DEF WaitedDone
  <2>3. Copied'
    BY <2>1 DEF Copied, Taken
  <2> QED BY <2>1, <2>2, <2>3
<1> QED BY <1>1, <1>2 DEF SubscribeNext

(* What Unsubscribe takes stays taken.                                     *)
LEMMA PollUnsubscribe ==
    ASSUME TableInv, PollInv, NEW u \in Unsubs, UnsubscribeNext(u)
    PROVE  PollInv'
<1> USE DEF PollInv, TableInv, Types
<1>1. /\ UNCHANGED <<subPc, poll, waitFor, shut, raced, tardy>>
      /\ \A v \in Unsubs : v # u => unsPc'[v] = unsPc[v] /\ target'[v] = target[v]
      /\ target[u] # None => target'[u] = target[u]
  BY NoneAssumption DEF UnsubscribeNext, UnsubscribeTake, UnsubscribeError, UnsubscribeCancel,
     UnsubscribeReturn, TakenCancelled
<1>2. /\ unsPc'[u] \in {"cancel", "wait", "nil"} => target'[u] \in Subs
      /\ target'[u] # None => unsPc'[u] \in {"cancel", "wait", "nil"}
      /\ unsPc'[u] = "nil" => poll[target'[u]] = "done"
  BY DEF UnsubscribeNext, UnsubscribeTake, UnsubscribeError, UnsubscribeCancel,
     UnsubscribeReturn, DoneChanClosed, TakenCancelled
<1>3. \A q \in Subs : Taken(q) => Taken(q)'
  BY <1>1, NoneAssumption DEF Taken
<1>4. WaitedDone' /\ Copied'
  BY <1>1, <1>2, <1>3 DEF WaitedDone, Copied
<1> QED BY <1>1, <1>2, <1>4

(* The copy of the table has what nobody has taken or hidden.              *)
LEMMA PollShutdown ==
    ASSUME TableInv, PollInv, ShutdownNext
    PROVE  PollInv'
<1> USE DEF PollInv
<1>1. CASE ShutdownSnapshot
  <2>1. /\ UNCHANGED <<subPc, topic, table, poll, unsPc, target, raced, tardy>>
        /\ shut' = "wait" /\ waitFor' = TableCopy
    BY <1>1 DEF ShutdownSnapshot
  <2>2. TableCopy \subseteq Subs
    BY DEF TableCopy, TableInv, Types
  <2>3. Copied'
    <3> SUFFICES ASSUME NEW s \in Subs, subPc[s] = "subscribed", ~Taken(s), s \notin raced
                 PROVE  s \in TableCopy
      BY <2>1 DEF Copied, Taken
    <3> QED BY NoneAssumption DEF TableInv, Types, Reachable, TableCopy
  <2> QED BY <2>1, <2>2, <2>3 DEF WaitedDone
<1>2. CASE ShutdownCancel \/ ShutdownReturn \/ ShutdownDeadline
  BY <1>2 DEF ShutdownCancel, ShutdownReturn, ShutdownDeadline, DoneChanClosed, WaitedDone,
              Copied, Taken
<1> QED BY <1>1, <1>2 DEF ShutdownNext

LEMMA PollStep == TableInv /\ PollInv /\ [Next]_vars => PollInv'
<1> SUFFICES ASSUME TableInv, PollInv, [Next]_vars PROVE PollInv'
  OBVIOUS
<1>1. ASSUME NEW s \in Subs, PollNext(s) PROVE PollInv'
  BY <1>1, PollStays DEF PollNext, PollTop, PollFetch, PollNothing, Settle, HandleMessage, PollInv
<1>2. CASE ParentCancel \/ (\E m \in Msgs : Redeliver(m)) \/ UNCHANGED vars
  BY <1>2, PollStays DEF ParentCancel, Redeliver, vars, PollInv
<1> QED BY <1>1, <1>2, PollSubscribe, PollUnsubscribe, PollShutdown DEF Next

(* For any number of topics and concurrent calls: a poller that survives   *)
(* a Shutdown that returned nil was taken by an Unsubscribe that still     *)
(* waits for it, was stored behind Shutdown's back, or was hidden by an    *)
(* overlapping Subscribe.                                                  *)
THEOREM ShutdownLeavesOnly == Spec => []ShutdownLeavesKnown
<1>1. TableInv /\ PollInv => ShutdownLeavesKnown
  <2> SUFFICES ASSUME TableInv, PollInv, shut = "nil", NEW s \in Subs,
                      poll[s] \notin {"off", "done"}, s \notin tardy \cup raced
               PROVE  \E u \in Unsubs : target[u] = s /\ unsPc[u] \in {"cancel", "wait"}
    BY DEF ShutdownLeavesKnown
  <2>1. subPc[s] = "subscribed" /\ s \notin waitFor
    BY DEF PollInv, WaitedDone
  <2>2. PICK u \in Unsubs : target[u] = s
    BY <2>1 DEF PollInv, Copied, Taken
  <2>3. unsPc[u] # "nil"
    BY <2>2 DEF PollInv, WaitedDone
  <2> QED BY <2>2, <2>3, NoneAssumption DEF PollInv
<1> QED BY <1>1, TableInit, TableStep, PollInit, PollStep, PTL DEF Spec

-----------------------------------------------------------------------------
(* Types.  A poller that acknowledges has a message in hand, an            *)
(* Unsubscribe that goes on has a subscription.                            *)
TypeInv ==
    /\ TypeOK
    /\ \A s \in Subs : /\ subPc[s] = "checked" => topic[s] \in Topics
                      /\ poll[s] \in {"ack", "nack"} => cur[s] \in Msgs
    /\ \A u \in Unsubs : unsPc[u] \in {"cancel", "wait", "nil"} => target[u] \in Subs

LEMMA TypeInit == Init => TypeInv
<1> SUFFICES ASSUME Init PROVE TypeInv
  OBVIOUS
<1>1. failures \in 0..MaxFailures
  BY SizeAssumption DEF Init
<1> QED BY <1>1 DEF Init, TypeInv, TypeOK

LEMMA FailType == ASSUME failures \in 0..MaxFailures, Fail PROVE failures' \in 0..MaxFailures
BY SizeAssumption DEF Fail

LEMMA TypeSubscribe == ASSUME TypeInv, NEW s \in Subs, SubscribeNext(s) PROVE TypeInv'
<1>1. CASE \E t \in Topics : SubscribeCheck(s, t)
  BY <1>1 DEF SubscribeCheck, TypeInv, TypeOK, Overlapping
<1>2. CASE \E t \in Topics : SubscribeRefused(s, t)
  BY <1>2 DEF SubscribeRefused, TypeInv, TypeOK
<1>3. CASE SubscribeStore(s)
  BY <1>3 DEF SubscribeStore, TypeInv, TypeOK
<1> QED BY <1>1, <1>2, <1>3 DEF SubscribeNext

LEMMA TypePoll == ASSUME TypeInv, NEW s \in Subs, PollNext(s) PROVE TypeInv'
<1>1. CASE PollTop(s)
  BY <1>1 DEF PollTop, TypeInv, TypeOK
<1>2. CASE PollFetch(s)
  BY <1>2 DEF PollFetch, TypeInv, TypeOK, Available
<1>3. CASE PollNothing(s)
  BY <1>3, FailType DEF PollNothing, TypeInv, TypeOK, Available
<1>4. CASE Settle(s)
  BY <1>4, FailType DEF Settle, AckOrNack, TypeInv, TypeOK
<1>5. CASE \E m \in Msgs, a \in {"ack", "nack"} : HandleMessage(s, m, a)
  BY <1>5 DEF HandleMessage, TypeInv, TypeOK
<1> QED BY <1>1, <1>2, <1>3, <1>4, <1>5 DEF PollNext

LEMMA TypeUnsubscribe == ASSUME TypeInv, NEW u \in Unsubs, UnsubscribeNext(u) PROVE TypeInv'
<1>1. CASE \E t \in Topics : UnsubscribeTake(u, t)
  BY <1>1 DEF UnsubscribeTake, TypeInv, TypeOK
<1>2. CASE \E t \in Topics : UnsubscribeError(u, t)
  BY <1>2 DEF UnsubscribeError, TypeInv, TypeOK
<1>3. CASE UnsubscribeCancel(u)
  BY <1>3 DEF UnsubscribeCancel, CancelSub, TypeInv, TypeOK
<1>4. CASE UnsubscribeReturn(u)
  BY <1>4 DEF UnsubscribeReturn, TypeInv, TypeOK
<1> QED BY <1>1, <1>2, <1>3, <1>4 DEF UnsubscribeNext

LEMMA TypeStep == TypeInv /\ [Next]_vars => TypeInv'
<1> SUFFICES ASSUME TypeInv, [Next]_vars PROVE TypeInv'
  OBVIOUS
<1>1. CASE \E s \in Subs : SubscribeNext(s) \/ PollNext(s)
  BY <1>1, TypeSubscribe, TypePoll
<1>2. CASE \E u \in Unsubs : UnsubscribeNext(u)
  BY <1>2, TypeUnsubscribe
<1>3. CASE ShutdownNext
  <2>1. CASE ShutdownSnapshot
    <3>1. TableCopy \subseteq Subs
      BY DEF TableCopy, TypeInv, TypeOK
    <3> QED BY <2>1, <3>1 DEF ShutdownSnapshot, TypeInv, TypeOK
  <2>2. CASE ShutdownCancel \/ ShutdownReturn \/ ShutdownDeadline
    BY <2>2 DEF ShutdownCancel, ShutdownReturn, ShutdownDeadline, TypeInv, TypeOK
  <2> QED BY <1>3, <2>1, <2>2 DEF ShutdownNext
<1>4. CASE ParentCancel
  BY <1>4 DEF ParentCancel, TypeInv, TypeOK
<1>5. CASE \E m \in Msgs : Redeliver(m)
  BY <1>5, FailType DEF Redeliver, TypeInv, TypeOK
<1>6. CASE UNCHANGED vars
  BY <1>6 DEF vars, TypeInv, TypeOK
<1> QED BY <1>1, <1>2, <1>3, <1>4, <1>5, <1>6 DEF Next

(* The client's variables keep their types in every behaviour.             *)
THEOREM ClientTypes == Spec => []TypeOK
<1>1. TypeInv => TypeOK BY DEF TypeInv
<1> QED BY <1>1, TypeInit, TypeStep, PTL DEF Spec

-----------------------------------------------------------------------------
(* A poller that goes to acknowledge has a message its handler accepted;   *)
(* with it AckedHandled is inductive, relative to the types.               *)
AnswerInv ==
    /\ AckedHandled
    /\ \A s \in Subs : poll[s] = "ack" => cur[s] \in handled

LEMMA AnswerInit == Init => AnswerInv
BY DEF Init, AnswerInv, AckedHandled

LEMMA AnswerStays ==
    ASSUME AnswerInv, UNCHANGED <<acked, handled, cur>>,
           \A s \in Subs : poll'[s] = "ack" => poll[s] = "ack"
    PROVE  AnswerInv'
BY DEF AnswerInv, AckedHandled

LEMMA AnswerPoll == ASSUME TypeInv, AnswerInv, NEW s \in Subs, PollNext(s) PROVE AnswerInv'
<1>1. CASE PollTop(s) \/ PollFetch(s) \/ PollNothing(s)
  BY <1>1, AnswerStays DEF PollTop, PollFetch, PollNothing, TypeInv, TypeOK
<1>2. CASE Settle(s)
  <2>1. \A r \in Subs : poll'[r] = "ack" => r # s /\ poll[r] = "ack" /\ cur'[r] = cur[r]
    BY <1>2 DEF Settle, TypeInv, TypeOK
  <2>2. acked' = acked \/ (poll[s] = "ack" /\ acked' = acked \cup {cur[s]})
    BY <1>2 DEF Settle, AckOrNack
  <2>3. UNCHANGED handled
    BY <1>2 DEF Settle
  <2> QED BY <2>1, <2>2, <2>3 DEF AnswerInv, AckedHandled
<1>3. CASE \E m \in Msgs, a \in {"ack", "nack"} : HandleMessage(s, m, a)
  <2>1. PICK m \in Msgs, a \in {"ack", "nack"} : HandleMessage(s, m, a)
    BY <1>3
  <2>2. handled \subseteq handled' /\ (a = "ack" => m \in handled') /\ UNCHANGED acked
    BY <2>1 DEF HandleMessage
  <2>3. /\ poll'[s] = a /\ cur'[s] = m
        /\ \A r \in Subs \ {s} : poll'[r] = poll[r] /\ cur'[r] = cur[r]
    BY <2>1 DEF HandleMessage, TypeInv, TypeOK
  <2> QED BY <2>2, <2>3 DEF AnswerInv, AckedHandled
<1> QED BY <1>1, <1>2, <1>3 DEF PollNext

LEMMA AnswerStep == TypeInv /\ AnswerInv /\ [Next]_vars => AnswerInv'
<1> SUFFICES ASSUME TypeInv, AnswerInv, [Next]_vars PROVE AnswerInv'
  OBVIOUS
<1>1. CASE \E s \in Subs : SubscribeNext(s)
  BY <1>1, AnswerStays DEF SubscribeNext, SubscribeCheck, SubscribeRefused, SubscribeStore,
     TypeInv, TypeOK
<1>2. CASE \E s \in Subs : PollNext(s)
  BY <1>2, AnswerPoll
<1>3. CASE \E u \in Unsubs : UnsubscribeNext(u)
  BY <1>3, AnswerStays DEF UnsubscribeNext, UnsubscribeTake, UnsubscribeError,
     UnsubscribeCancel, UnsubscribeReturn
<1>4. CASE ShutdownNext \/ ParentCancel \/ \E m \in Msgs : Redeliver(m)
  BY <1>4, AnswerStays DEF ShutdownNext, ShutdownCancel, ShutdownSnapshot, ShutdownReturn,
     ShutdownDeadline, ParentCancel, Redeliver
<1>5. CASE UNCHANGED vars
  BY <1>5, AnswerStays DEF vars
<1> QED BY <1>1, <1>2, <1>3, <1>4, <1>5 DEF Next

(* The service is told to forget only what some handler accepted, whatever *)
(* redeliveries, overlapping pollers and lost answers do.                  *)
THEOREM ForgottenWasHandled == Spec => []AckedHandled
<1>1. AnswerInv => AckedHandled BY DEF AnswerInv
<1> QED BY <1>1, TypeInit, TypeStep, AnswerInit, AnswerStep, PTL DEF Spec

=============================================================================
