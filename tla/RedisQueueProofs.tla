-------------------------- MODULE RedisQueueProofs --------------------------
(***************************************************************************)
(* Proofs about the queue service, for every number of messages,           *)
(* consumers, handlers and failures: types, no silent loss, the            *)
(* unreachable dead-letter queue, that it is an at-least-once queue, how   *)
(* many copies of a message there can be, and that an Ack is final.        *)
(***************************************************************************)
EXTENDS RedisQueue, ListTheorems

(* The types and what the threads remember are preserved together: hand,   *)
(* ent and tries are only well typed because of where the threads are.     *)
(* Only a counted stop takes the service out of "up".                      *)
StopCounted == svc # "up" => crashes > 0
Base == TypeOK /\ ThreadInv /\ StopCounted

(* The service starts well typed, with idle threads.                       *)
LEMMA InitBase == Init => Base
  BY NoneAssumption, PrefetchAssumption, BoundAssumption
     DEF Init, Base, TypeOK, ThreadInv, StopCounted, PCs

(* The calls and failures of the polling consumers preserve Base.          *)
LEMMA ConsumerBase == Base /\ ConsumerNext => Base'
<1> SUFFICES ASSUME Base, ConsumerNext PROVE Base'
  OBVIOUS
<1> PICK c \in Consumers :
      \/ \E h \in Handlers : StartFetch(c, h) \/ StartAck(c, h) \/ StartNack(c, h)
      \/ SettleRefused(c) \/ CallTimesOut(c) \/ ConsumerCrash(c)
  BY DEF ConsumerNext
<1> USE DEF Base, TypeOK, ThreadInv, StopCounted, PCs, redisVars, svcVars, hdlVars, chkVars,
            cliVars, hisVars, budVars
<1>1. ASSUME NEW h \in Handlers, StartFetch(c, h) PROVE Base'
  BY <1>1, PrefetchAssumption DEF StartFetch
<1>2. ASSUME NEW h \in Handlers, StartAck(c, h) PROVE Base'
  BY <1>2 DEF StartAck, Settle
<1>3. ASSUME NEW h \in Handlers, StartNack(c, h) PROVE Base'
  <2>1. nacks' \in 0..MaxNacks
    BY <1>3, BoundAssumption DEF StartNack
  <2>2. pc' \in [Handlers -> PCs] /\ hand' \in [Handlers -> Msgs \cup {None}]
    BY <1>3 DEF StartNack, Settle
  <2>3. call' \in [Consumers -> Handlers \cup {None}] /\ inbox' \in [Consumers -> Seq(Msgs)]
    BY <1>3 DEF StartNack, Settle
  <2>4. TypeOK'
    BY <1>3, <2>1, <2>2, <2>3 DEF StartNack, Settle
  <2>5. ThreadInv' /\ StopCounted'
    BY <1>3 DEF StartNack, Settle
  <2> QED BY <2>4, <2>5
<1>4. CASE SettleRefused(c)
  BY <1>4 DEF SettleRefused
<1>5. CASE CallTimesOut(c)
  BY <1>5, BoundAssumption DEF CallTimesOut
<1>6. CASE ConsumerCrash(c)
  BY <1>6, BoundAssumption DEF ConsumerCrash
<1> QED BY <1>1, <1>2, <1>3, <1>4, <1>5, <1>6

(* Every Redis command of FetchBatch, Ack and Nack preserves Base.         *)
LEMMA HandlerBase == Base /\ HandlerNext => Base'
<1> SUFFICES ASSUME Base, HandlerNext PROVE Base'
  OBVIOUS
<1> PICK h \in Handlers :
      \/ PopMessage(h) \/ PopEmpty(h) \/ PanicRecovered(h) \/ PopError(h)
      \/ AddToPEL(h) \/ AddToPELError(h) \/ RequeueFetched(h) \/ RequeueFetchedError(h)
      \/ FetchReply(h)
      \/ AckRange(h) \/ NackRange(h) \/ NotFound(h)
      \/ AckRem(h) \/ NackRem(h) \/ NackPush(h) \/ SettleError(h)
  BY DEF HandlerNext
<1> USE DEF Base, TypeOK, ThreadInv, StopCounted, PCs, redisVars, svcVars, hdlVars, chkVars,
            cliVars, hisVars, budVars
<1>1. CASE PopMessage(h)
  BY <1>1 DEF PopMessage
<1>2. CASE PopEmpty(h)
  BY <1>2 DEF PopEmpty
<1>3. CASE PanicRecovered(h)
  BY <1>3, PrefetchAssumption DEF PanicRecovered, Return, Answer
<1>4. CASE PopError(h)
  <2>1. faults' \in 0..MaxFaults
    BY <1>4, BoundAssumption DEF PopError, RedisError
  <2>2. queue' \in Seq(Msgs) /\ dropped' \in SUBSET Msgs
    <3>1. CASE UNCHANGED <<queue, dropped>>
      BY <3>1
    <3>2. CASE queue # <<>> /\ queue' = Tail(queue) /\ dropped' = dropped \cup {Head(queue)}
      <4>1. Head(queue) \in Msgs /\ Tail(queue) \in Seq(Msgs)
        BY <3>2, PopType
      <4> QED BY <3>2, <4>1
    <3> QED BY <1>4, <3>1, <3>2 DEF PopError
  <2>3. /\ pc[h] = "pop" /\ pc' = [pc EXCEPT ![h] = "reply"]
        /\ UNCHANGED <<pel, expired, svcVars, hand, ent, got, tries, chkVars, cliVars,
                       published, acked, overdue, nacks, timeouts, crashes>>
    BY <1>4 DEF PopError
  <2>4. TypeOK'
    BY <2>1, <2>2, <2>3
  <2>5. ThreadInv' /\ StopCounted'
    BY <2>3
  <2> QED BY <2>4, <2>5
<1>5. CASE AddToPEL(h)
  BY <1>5, PrefetchAssumption DEF AddToPEL, NextTurn, ZAdd, NewEntry, Entries
<1>6. CASE AddToPELError(h)
  BY <1>6, BoundAssumption DEF AddToPELError, RedisError, ZAdd, NewEntry, Entries
<1>7. CASE RequeueFetched(h)
  BY <1>7, PrefetchAssumption, FrontType DEF RequeueFetched, NextTurn, RequeueMessage, RPush
<1>8. CASE RequeueFetchedError(h)
  BY <1>8, PrefetchAssumption, BoundAssumption DEF RequeueFetchedError, RedisError, NextTurn
<1>9. CASE FetchReply(h)
  BY <1>9, PrefetchAssumption DEF FetchReply, Return, Answer
<1>10. CASE AckRange(h) \/ NackRange(h)
  BY <1>10 DEF AckRange, NackRange, ZRange, Matching
<1>11. CASE NotFound(h)
  BY <1>11, PrefetchAssumption DEF NotFound, Return, Answer
<1>12. CASE AckRem(h)
  BY <1>12, PrefetchAssumption DEF AckRem, ZRem, Return, Answer
<1>13. CASE NackRem(h)
  BY <1>13 DEF NackRem, ZRem
<1>14. CASE NackPush(h)
  BY <1>14, PrefetchAssumption, FrontType DEF NackPush, RequeueMessage, RPush, Return, Answer
<1>15. CASE SettleError(h)
  BY <1>15, PrefetchAssumption, BoundAssumption
     DEF SettleError, RedisError, ZRem, Return, Answer
<1> QED BY <1>1, <1>2, <1>3, <1>4, <1>5, <1>6, <1>7, <1>8, <1>9, <1>10, <1>11,
           <1>12, <1>13, <1>14, <1>15

(* Every step of checkExpiredMessages preserves Base.                      *)
LEMMA CheckerBase == Base /\ CheckerNext => Base'
<1> SUFFICES ASSUME Base, CheckerNext PROVE Base'
  OBVIOUS
<1> USE DEF Base, TypeOK, ThreadInv, StopCounted, PCs, redisVars, svcVars, hdlVars, chkVars,
            cliVars, hisVars, budVars
<1>1. CASE CheckerScan
  BY <1>1 DEF CheckerScan
<1>2. CASE CheckerRequeue
  BY <1>2, FrontType DEF CheckerRequeue, RequeueMessage, RPush
<1>3. CASE CheckerRequeueError
  BY <1>3, BoundAssumption DEF CheckerRequeueError, RedisError
<1>4. CASE CheckerDone
  BY <1>4 DEF CheckerDone
<1>5. ASSUME NEW e \in chkSnap, CheckerDeadLetter(e) PROVE Base'
  BY <1>5, BoundAssumption DEF CheckerDeadLetter, CheckerZRem, RedisError, ZRem, Entries
<1>6. ASSUME NEW e \in chkSnap, CheckerRemove(e) PROVE Base'
  BY <1>6, BoundAssumption DEF CheckerRemove, CheckerZRem, RedisError, ZRem, Entries
<1> QED BY <1>1, <1>2, <1>3, <1>4, <1>5, <1>6 DEF CheckerNext

(* Shutdown, Close, a crash and a restart preserve Base.                   *)
LEMMA ProcessBase == Base /\ ProcessNext => Base'
<1> SUFFICES ASSUME Base, ProcessNext PROVE Base'
  OBVIOUS
<1> USE DEF Base, TypeOK, ThreadInv, StopCounted, PCs, redisVars, svcVars, hdlVars, chkVars,
            cliVars, hisVars, budVars
<1>1. CASE Shutdown
  BY <1>1, BoundAssumption DEF Shutdown
<1>2. CASE Close \/ Restart
  BY <1>2 DEF Close, Restart
<1>3. CASE Exit \/ Crash
  <2>1. crashes' \in 0..MaxCrashes
    BY <1>3, BoundAssumption DEF Exit, Crash
  <2>2. /\ pc' = [h \in Handlers |-> "idle"] /\ hand' = [h \in Handlers |-> None]
        /\ ent' = [h \in Handlers |-> None] /\ got' = [h \in Handlers |-> <<>>]
        /\ tries' = [h \in Handlers |-> 0] /\ call' = [c \in Consumers |-> None]
        /\ svc' = "down" /\ dlq' = <<>> /\ dropped' \in SUBSET Msgs
        /\ chkPc' = "idle" /\ chkSnap' = {} /\ chkMsg' = None
        /\ UNCHANGED <<redisVars, inbox, published, acked, overdue, nacks, timeouts,
                       faults>>
    BY <1>3 DEF Exit, Crash, ProcessGone
  <2>3. TypeOK'
    BY <2>1, <2>2, PrefetchAssumption
  <2>4. ThreadInv'
    BY <2>2
  <2>5. StopCounted'
    BY <1>3, BoundAssumption DEF Exit, Crash
  <2> QED BY <2>3, <2>4, <2>5
<1> QED BY <1>1, <1>2, <1>3 DEF ProcessNext

(* Base is inductive.                                                      *)
LEMMA StepBase == Base /\ [Next]_vars => Base'
<1> SUFFICES ASSUME Base, [Next]_vars PROVE Base'
  OBVIOUS
<1> USE DEF redisVars, svcVars, hdlVars, chkVars, cliVars, hisVars, budVars
<1>1. ASSUME NEW m \in Msgs, Publish(m) PROVE Base'
  BY <1>1 DEF Publish, LPush, Base, TypeOK, ThreadInv, StopCounted, PCs
<1>2. ASSUME NEW e \in pel, Expire(e) PROVE Base'
  BY <1>2 DEF Expire, Base, TypeOK, ThreadInv, StopCounted, PCs, Entries
<1>3. CASE UNCHANGED vars
  BY <1>3 DEF vars, Base, TypeOK, ThreadInv, StopCounted, PCs
<1> QED BY <1>1, <1>2, <1>3, ConsumerBase, HandlerBase, CheckerBase, ProcessBase DEF Next

(* Type correctness, with the thread invariant it needs to be inductive.   *)
THEOREM TypeCorrect == Spec => [](TypeOK /\ ThreadInv)
<1>1. Spec => []Base
  BY InitBase, StepBase, PTL DEF Spec
<1> QED BY <1>1, PTL DEF Base

-----------------------------------------------------------------------------
(* NoSilentLoss for one message.                                           *)
Safe(m) == \/ Queued(m) \/ Pending(m) \/ InHand(m)
           \/ DeadLettered(m) \/ m \in acked
           \/ m \in dropped /\ faults + crashes > 0

(* Consumers move no message of the service.                               *)
LEMMA ConsumerSafe ==
  ASSUME Base, ConsumerNext, NEW m \in Msgs, Safe(m)
  PROVE  Safe(m)'
<1> PICK c \in Consumers :
      \/ \E h \in Handlers : StartFetch(c, h) \/ StartAck(c, h) \/ StartNack(c, h)
      \/ SettleRefused(c) \/ CallTimesOut(c) \/ ConsumerCrash(c)
  BY DEF ConsumerNext
<1> USE DEF redisVars, svcVars, hdlVars, chkVars, cliVars, hisVars, budVars
<1>1. /\ UNCHANGED <<queue, pel, dlq, chkPc, chkMsg, acked, dropped, faults>>
      /\ crashes' \in {crashes, crashes + 1}
  BY DEF StartFetch, StartAck, StartNack, Settle, SettleRefused, CallTimesOut, ConsumerCrash
<1>2. \A g \in Handlers : Holds(g, m) => Holds(g, m)'
  BY DEF Holds, Base, TypeOK, StartFetch, StartAck, StartNack, Settle, SettleRefused,
         CallTimesOut, ConsumerCrash
<1>3. faults \in Nat /\ crashes \in Nat
  BY BoundAssumption DEF Base, TypeOK
<1>4. InHand(m) => InHand(m)'
  BY <1>1, <1>2 DEF InHand, Holds
<1>5. (Queued(m) => Queued(m)') /\ (Pending(m) => Pending(m)')
      /\ (DeadLettered(m) => DeadLettered(m)')
  BY <1>1 DEF Queued, Pending, DeadLettered
<1>6. m \in dropped /\ faults + crashes > 0 => m \in dropped' /\ faults' + crashes' > 0
  <2>1. dropped' = dropped /\ faults' = faults
    BY <1>1
  <2>2. CASE crashes' = crashes
    BY <2>1, <2>2
  <2>3. CASE crashes' = crashes + 1
    BY <1>3, <2>1, <2>3
  <2> QED BY <1>1, <2>2, <2>3
<1> QED BY <1>1, <1>4, <1>5, <1>6 DEF Safe

(* A handler step hands every message on: to the list, the PEL, its own    *)
(* hand or the record of acknowledged or dropped messages.                 *)
LEMMA HandlerSafe ==
  ASSUME Base, HandlerNext, NEW m \in Msgs, Safe(m)
  PROVE  Safe(m)'
<1> PICK h \in Handlers :
      \/ PopMessage(h) \/ PopEmpty(h) \/ PanicRecovered(h) \/ PopError(h)
      \/ AddToPEL(h) \/ AddToPELError(h) \/ RequeueFetched(h) \/ RequeueFetchedError(h)
      \/ FetchReply(h)
      \/ AckRange(h) \/ NackRange(h) \/ NotFound(h)
      \/ AckRem(h) \/ NackRem(h) \/ NackPush(h) \/ SettleError(h)
  BY DEF HandlerNext
<1> USE DEF redisVars, svcVars, hdlVars, chkVars, cliVars, hisVars, budVars
<1>t. /\ queue \in Seq(Msgs) /\ faults \in Nat /\ crashes \in Nat
      /\ pc \in [Handlers -> PCs] /\ hand \in [Handlers -> Msgs \cup {None}]
      /\ ThreadInv /\ StopCounted
  BY BoundAssumption DEF Base, TypeOK
<1> USE DEF Safe, Queued, Pending, InHand, DeadLettered, Holds, StopCounted
<1>1. CASE PopMessage(h)
  BY <1>1, <1>t, InPop DEF PopMessage
<1>2. CASE PopEmpty(h) \/ PanicRecovered(h) \/ FetchReply(h) \/ NotFound(h)
           \/ AckRange(h) \/ NackRange(h)
  BY <1>2, <1>t DEF PopEmpty, PanicRecovered, FetchReply, NotFound, AckRange,
                    NackRange, ZRange, Return
<1>3. CASE PopError(h)
  <2>1. Queued(m) => Queued(m)' \/ (m \in dropped' /\ faults' > 0)
    <3>1. CASE UNCHANGED queue
      BY <3>1
    <3>2. CASE /\ Connected /\ queue # <<>> /\ queue' = Tail(queue)
               /\ dropped' = dropped \cup {Head(queue)}
      <4>1. In(m, queue) => In(m, Tail(queue)) \/ m = Head(queue)
        BY <1>t, <3>2, InPop
      <4>2. faults' = faults + 1
        BY <1>3, <3>2 DEF PopError, RedisError, Connected
      <4> QED BY <1>t, <3>2, <4>1, <4>2
    <3> QED BY <1>3, <3>1, <3>2 DEF PopError
  <2> QED BY <1>3, <1>t, <2>1 DEF PopError, RedisError
<1>4. CASE AddToPEL(h)
  <2>1. PICK s \in Stamps : pel' = pel \cup {[msg |-> hand[h], stamp |-> s, count |-> 1]}
    BY <1>4 DEF AddToPEL, ZAdd, NewEntry
  <2>2. Pending(m) \/ m = hand[h] => Pending(m)'
    <3> DEFINE e == [msg |-> hand[h], stamp |-> s, count |-> 1]
    <3>1. e.msg = hand[h]
      OBVIOUS
    <3> HIDE DEF e
    <3>2. pel' = pel \cup {e}
      BY <2>1 DEF e
    <3> QED BY <3>1, <3>2
  <2>3. \A g \in Handlers : g # h => pc'[g] = pc[g] /\ hand'[g] = hand[g]
    BY <1>4, <1>t DEF AddToPEL, NextTurn
  <2> QED BY <1>4, <1>t, <2>2, <2>3 DEF AddToPEL
<1>5. CASE AddToPELError(h)
  BY <1>5, <1>t DEF AddToPELError, RedisError, ZAdd, NewEntry
<1>6. CASE RequeueFetched(h)
  <2>1. hand[h] \in Msgs /\ queue' = <<hand[h]>> \o queue
    BY <1>6, <1>t DEF RequeueFetched, RequeueMessage, RPush, ThreadInv
  <2>2. Queued(m)' <=> Queued(m) \/ m = hand[h]
    BY <2>1, <1>t, InFront
  <2> QED BY <1>6, <1>t, <2>2 DEF RequeueFetched, NextTurn
<1>7. CASE RequeueFetchedError(h)
  BY <1>7, <1>t DEF RequeueFetchedError, RedisError, NextTurn
<1>8. CASE AckRem(h)
  BY <1>8, <1>t DEF AckRem, ZRem, Return, ThreadInv
<1>9. CASE NackRem(h)
  BY <1>9, <1>t DEF NackRem, ZRem, ThreadInv
<1>10. CASE NackPush(h)
  <2>1. hand[h] \in Msgs /\ queue' = <<hand[h]>> \o queue
    BY <1>10, <1>t DEF NackPush, RequeueMessage, RPush, ThreadInv
  <2>2. Queued(m)' <=> Queued(m) \/ m = hand[h]
    BY <2>1, <1>t, InFront
  <2> QED BY <1>10, <1>t, <2>2 DEF NackPush, Return
<1>11. CASE SettleError(h)
  BY <1>11, <1>t DEF SettleError, RedisError, Connected, ZRem, Return, ThreadInv
<1> QED BY <1>1, <1>2, <1>3, <1>4, <1>5, <1>6, <1>7, <1>8, <1>9, <1>10, <1>11

(* The checker moves a message to its hand, the list, the dead letters or  *)
(* the record of dropped ones.                                             *)
LEMMA CheckerSafe ==
  ASSUME Base, CheckerNext, NEW m \in Msgs, Safe(m)
  PROVE  Safe(m)'
<1> USE DEF redisVars, svcVars, hdlVars, chkVars, cliVars, hisVars, budVars
<1>t. /\ queue \in Seq(Msgs) /\ dlq \in Seq(Msgs) /\ faults \in Nat /\ crashes \in Nat
      /\ chkSnap \in SUBSET Entries /\ ThreadInv /\ StopCounted
  BY BoundAssumption DEF Base, TypeOK
<1> USE DEF Safe, Queued, Pending, InHand, DeadLettered, Holds, StopCounted
<1>1. CASE CheckerScan \/ CheckerDone
  BY <1>1, <1>t DEF CheckerScan, CheckerDone
<1>2. CASE CheckerRequeue
  <2>1. chkMsg \in Msgs /\ queue' = <<chkMsg>> \o queue
    BY <1>2, <1>t DEF CheckerRequeue, RequeueMessage, RPush, ThreadInv
  <2>2. Queued(m)' <=> Queued(m) \/ m = chkMsg
    BY <2>1, <1>t, InFront
  <2> QED BY <1>2, <1>t, <2>2 DEF CheckerRequeue
<1>3. CASE CheckerRequeueError
  BY <1>3, <1>t DEF CheckerRequeueError, RedisError
<1>4. ASSUME NEW e \in chkSnap, CheckerDeadLetter(e) PROVE Safe(m)'
  <2>1. e.msg \in Msgs /\ dlq' = Append(dlq, e.msg)
    BY <1>4, <1>t DEF CheckerDeadLetter, Entries
  <2>2. DeadLettered(m)' <=> DeadLettered(m) \/ m = e.msg
    BY <2>1, <1>t, InAppend
  <2> QED BY <1>4, <1>t, <2>2 DEF CheckerDeadLetter, CheckerZRem, RedisError, ZRem
<1>5. ASSUME NEW e \in chkSnap, CheckerRemove(e) PROVE Safe(m)'
  BY <1>5, <1>t DEF CheckerRemove, CheckerZRem, RedisError, ZRem
<1> QED BY <1>1, <1>2, <1>3, <1>4, <1>5 DEF CheckerNext

(* A stop drops what the threads and the dead-letter queue hold, counted.  *)
LEMMA ProcessSafe ==
  ASSUME Base, ProcessNext, NEW m \in Msgs, Safe(m)
  PROVE  Safe(m)'
<1> USE DEF redisVars, svcVars, hdlVars, chkVars, cliVars, hisVars, budVars
<1>t. faults \in Nat /\ crashes \in Nat /\ StopCounted
  BY BoundAssumption DEF Base, TypeOK
<1> USE DEF Safe, Queued, Pending, InHand, DeadLettered, Holds, StopCounted
<1>1. CASE Shutdown \/ Close \/ Restart
  BY <1>1, <1>t DEF Shutdown, Close, Restart
<1>2. CASE Crash
  BY <1>2, <1>t DEF Crash, ProcessGone
<1>3. CASE Exit
  BY <1>3, <1>t DEF Exit, ProcessGone
<1> QED BY <1>1, <1>2, <1>3 DEF ProcessNext

(* Every step keeps every published message accounted for.                 *)
LEMMA StepSafe == Base /\ NoSilentLoss /\ [Next]_vars => NoSilentLoss'
<1> SUFFICES ASSUME Base, NoSilentLoss, [Next]_vars, NEW m \in published' PROVE Safe(m)'
  BY DEF NoSilentLoss, Safe, Live
<1> USE DEF redisVars, svcVars, hdlVars, chkVars, cliVars, hisVars, budVars
<1>1. ASSUME NEW x \in Msgs, Publish(x) PROVE Safe(m)'
  <2>1. queue \in Seq(Msgs) /\ queue' = Append(queue, x)
    BY <1>1 DEF Base, TypeOK, Publish, LPush
  <2>2. Queued(m)' <=> Queued(m) \/ m = x
    BY <2>1, InAppend DEF Queued
  <2>3. m \in published \/ m = x
    BY <1>1 DEF Publish
  <2>4. m \in published => Safe(m)
    BY DEF NoSilentLoss, Safe, Live
  <2> QED BY <1>1, <2>2, <2>3, <2>4
          DEF Publish, Safe, Queued, Pending, InHand, Holds, DeadLettered
<1>2. CASE ConsumerNext \/ HandlerNext \/ CheckerNext \/ ProcessNext
  <2>1. published' = published
    BY <1>2 DEF ConsumerNext, StartFetch, StartAck, StartNack, Settle, SettleRefused,
       CallTimesOut, ConsumerCrash, HandlerNext, PopMessage, PopEmpty, PanicRecovered,
       PopError, AddToPEL, AddToPELError, RequeueFetched, RequeueFetchedError, FetchReply,
       AckRange, NackRange, ZRange, NotFound, AckRem, NackRem, NackPush, SettleError,
       CheckerNext, CheckerScan, CheckerRequeue, CheckerRequeueError, CheckerDone,
       CheckerDeadLetter, CheckerRemove, ProcessNext, Shutdown, Close, Exit, Crash,
       ProcessGone, Restart
  <2>2. m \in Msgs /\ Safe(m)
    BY <2>1 DEF NoSilentLoss, Safe, Live, Base, TypeOK
  <2> QED BY <1>2, <2>2, ConsumerSafe, HandlerSafe, CheckerSafe, ProcessSafe
<1>3. ASSUME NEW e \in pel, Expire(e) PROVE Safe(m)'
  BY <1>3 DEF Expire, NoSilentLoss, Safe, Live, Queued, Pending, InHand, Holds, DeadLettered
<1>4. CASE UNCHANGED vars
  BY <1>4 DEF vars, NoSilentLoss, Safe, Live, Queued, Pending, InHand, Holds, DeadLettered
<1> QED BY <1>1, <1>2, <1>3, <1>4 DEF Next

(* No message is lost silently, for any number of messages, consumers,     *)
(* handlers, timeouts and failures.                                        *)
THEOREM NothingLostSilently == Spec => []NoSilentLoss
<1>1. Init => NoSilentLoss
  BY DEF Init, NoSilentLoss
<1> QED BY <1>1, InitBase, StepBase, StepSafe, PTL DEF Spec

-----------------------------------------------------------------------------
(* DeliveryCount is 1 in every entry anybody looks at.                     *)
CountInv == /\ \A e \in pel \cup chkSnap : e.count = 1
            /\ MaxRetries > 1 => dlq = <<>>

(* CountInv is inductive: an entry is written with DeliveryCount 1 and is  *)
(* never rewritten.                                                        *)
LEMMA StepCount == Base /\ CountInv /\ [Next]_vars => CountInv'
<1> SUFFICES ASSUME Base, CountInv, [Next]_vars PROVE CountInv'
  OBVIOUS
<1> USE DEF redisVars, svcVars, hdlVars, chkVars, cliVars, hisVars, budVars
<1>1. CASE HandlerNext
  <2>1. PICK h \in Handlers :
      \/ PopMessage(h) \/ PopEmpty(h) \/ PanicRecovered(h) \/ PopError(h)
      \/ AddToPEL(h) \/ AddToPELError(h) \/ RequeueFetched(h) \/ RequeueFetchedError(h)
      \/ FetchReply(h)
      \/ AckRange(h) \/ NackRange(h) \/ NotFound(h)
      \/ AckRem(h) \/ NackRem(h) \/ NackPush(h) \/ SettleError(h)
    BY <1>1 DEF HandlerNext
  <2>2. UNCHANGED <<dlq, chkSnap>>
    BY <2>1 DEF PopMessage, PopEmpty, PanicRecovered, PopError, AddToPEL, AddToPELError,
       RequeueFetched, RequeueFetchedError, FetchReply, AckRange, NackRange, ZRange,
       NotFound, AckRem, NackRem, NackPush, SettleError
  <2>3. \A e \in pel' : e \in pel \/ e.count = 1
    BY <2>1 DEF PopMessage, PopEmpty, PanicRecovered, PopError, AddToPEL, AddToPELError,
       RequeueFetched, RequeueFetchedError, FetchReply, AckRange, NackRange, ZRange,
       NotFound, AckRem, NackRem, NackPush, SettleError, ZAdd, NewEntry, ZRem
  <2> QED BY <2>2, <2>3 DEF CountInv
<1>2. CASE CheckerNext
  <2>1. ASSUME NEW e \in chkSnap, CheckerDeadLetter(e) PROVE CountInv'
    <3>1. e.count = 1 /\ ~(MaxRetries > 1)
      BY <2>1, RetriesAssumption DEF CheckerDeadLetter, CountInv
    <3> QED BY <2>1, <3>1 DEF CheckerDeadLetter, CheckerZRem, ZRem, CountInv
  <2>2. ASSUME NEW e \in chkSnap, CheckerRemove(e) PROVE CountInv'
    BY <2>2 DEF CheckerRemove, CheckerZRem, ZRem, CountInv
  <2>3. CASE CheckerScan \/ CheckerRequeue \/ CheckerRequeueError \/ CheckerDone
    BY <2>3 DEF CheckerScan, CheckerRequeue, CheckerRequeueError, CheckerDone, CountInv
  <2> QED BY <1>2, <2>1, <2>2, <2>3 DEF CheckerNext
<1>3. CASE ConsumerNext
  BY <1>3 DEF ConsumerNext, StartFetch, StartAck, StartNack, Settle, SettleRefused,
              CallTimesOut, ConsumerCrash, CountInv
<1>4. CASE ProcessNext
  BY <1>4 DEF ProcessNext, Shutdown, Close, Exit, Crash, ProcessGone, Restart, CountInv
<1>5. CASE \E m \in Msgs : Publish(m)
  BY <1>5 DEF Publish, CountInv
<1>6. CASE \E e \in pel : Expire(e)
  BY <1>6 DEF Expire, CountInv
<1>7. CASE UNCHANGED vars
  BY <1>7 DEF vars, CountInv
<1> QED BY <1>1, <1>2, <1>3, <1>4, <1>5, <1>6, <1>7 DEF Next

(* No entry's delivery count reaches a max-retries above 1.                *)
DlqUnreachable == MaxRetries > 1 => dlq = <<>>

(* Why EventuallySettled fails on the deployed configuration: for every    *)
(* max-retries above 1 no message ever reaches the dead-letter queue,      *)
(* however often it times out, against "moved to DLQ after max retries".   *)
THEOREM DeadLetterUnreachable == Spec => []DlqUnreachable
<1>1. Init => CountInv
  BY DEF Init, CountInv
<1>2. CountInv => DlqUnreachable
  BY DEF CountInv, DlqUnreachable
<1> QED BY <1>1, <1>2, InitBase, StepBase, StepCount, PTL DEF Spec

-----------------------------------------------------------------------------
(* The queue service implements the at-least-once queue.                   *)

(* Whatever the service or a consumer holds was published.                 *)
Known ==
    /\ queue \in Seq(published) /\ dlq \in Seq(published)
    /\ \A e \in pel \cup chkSnap : e.msg \in published
    /\ \A h \in Handlers : /\ hand[h] \in published \cup {None}
                           /\ got[h] \in Seq(published)
    /\ \A c \in Consumers : inbox[c] \in Seq(published)
    /\ chkMsg \in published \cup {None}
    /\ acked \subseteq published /\ dropped \subseteq published

(* Publishing keeps what was known known, and adds one message.            *)
LEMMA PublishKnown ==
  ASSUME Base, Known, NEW m \in Msgs, Publish(m)
  PROVE  Known'
<1> USE DEF redisVars, svcVars, hdlVars, chkVars, cliVars, hisVars, budVars
<1>1. published \subseteq published' /\ m \in published'
  BY DEF Publish
<1>2. queue \in Seq(published') /\ dlq \in Seq(published')
  BY <1>1, ListOf DEF Known
<1>3. queue' \in Seq(published')
  BY <1>1, <1>2 DEF Publish, LPush
<1>4. \A h \in Handlers : got[h] \in Seq(published')
  BY <1>1, ListOf DEF Known
<1>5. \A c \in Consumers : inbox[c] \in Seq(published')
  BY <1>1, ListOf DEF Known
<1>6. UNCHANGED <<dlq, pel, chkSnap, hand, got, inbox, chkMsg, acked, dropped>>
  BY DEF Publish
<1> QED BY <1>1, <1>2, <1>3, <1>4, <1>5, <1>6 DEF Known

(* The consumers hand on what they were given.                             *)
LEMMA ConsumerKnown == Base /\ Known /\ ConsumerNext => Known'
<1> SUFFICES ASSUME Base, Known, ConsumerNext PROVE Known'
  OBVIOUS
<1> PICK c \in Consumers :
      \/ \E h \in Handlers : StartFetch(c, h) \/ StartAck(c, h) \/ StartNack(c, h)
      \/ SettleRefused(c) \/ CallTimesOut(c) \/ ConsumerCrash(c)
  BY DEF ConsumerNext
<1> USE DEF redisVars, svcVars, hdlVars, chkVars, cliVars, hisVars, budVars
<1>t. inbox \in [Consumers -> Seq(Msgs)] /\ hand \in [Handlers -> Msgs \cup {None}]
  BY DEF Base, TypeOK
<1>1. UNCHANGED <<published, queue, dlq, pel, chkSnap, got, chkMsg, acked, dropped>>
  BY DEF StartFetch, StartAck, StartNack, Settle, SettleRefused, CallTimesOut, ConsumerCrash
<1>2. ASSUME NEW h \in Handlers, StartFetch(c, h) PROVE Known'
  BY <1>2, <1>1 DEF StartFetch, Known
<1>3. ASSUME NEW h \in Handlers, StartAck(c, h) \/ StartNack(c, h) PROVE Known'
  <2>1. Head(inbox[c]) \in published /\ Tail(inbox[c]) \in Seq(published)
    BY <1>3, PopType DEF Known, StartAck, StartNack, Settle
  <2> QED BY <1>1, <1>3, <1>t, <2>1 DEF StartAck, StartNack, Settle, Known
<1>4. CASE SettleRefused(c)
  <2>1. Tail(inbox[c]) \in Seq(published)
    BY <1>4, PopType DEF Known, SettleRefused
  <2> QED BY <1>1, <1>4, <1>t, <2>1 DEF SettleRefused, Known
<1>5. CASE CallTimesOut(c) \/ ConsumerCrash(c)
  <2>1. \A d \in Consumers : inbox'[d] \in {inbox[d], <<>>}
    BY <1>5, <1>t DEF CallTimesOut, ConsumerCrash
  <2>2. \A d \in Consumers : inbox'[d] \in Seq(published)
    BY <2>1, EmptyList DEF Known
  <2>3. UNCHANGED hand
    BY <1>5 DEF CallTimesOut, ConsumerCrash
  <2> QED BY <1>1, <2>2, <2>3 DEF Known
<1> QED BY <1>2, <1>3, <1>4, <1>5

(* A handler only moves messages it was given or took from Redis.          *)
LEMMA HandlerKnown == Base /\ Known /\ HandlerNext => Known'
<1> SUFFICES ASSUME Base, Known, HandlerNext PROVE Known'
  OBVIOUS
<1> PICK h \in Handlers :
      \/ PopMessage(h) \/ PopEmpty(h) \/ PanicRecovered(h) \/ PopError(h)
      \/ AddToPEL(h) \/ AddToPELError(h) \/ RequeueFetched(h) \/ RequeueFetchedError(h)
      \/ FetchReply(h)
      \/ AckRange(h) \/ NackRange(h) \/ NotFound(h)
      \/ AckRem(h) \/ NackRem(h) \/ NackPush(h) \/ SettleError(h)
  BY DEF HandlerNext
<1> USE DEF redisVars, svcVars, hdlVars, chkVars, cliVars, hisVars, budVars
<1>t. /\ hand \in [Handlers -> Msgs \cup {None}] /\ got \in [Handlers -> Seq(Msgs)]
      /\ inbox \in [Consumers -> Seq(Msgs)] /\ ThreadInv
  BY DEF Base, TypeOK
<1>1. CASE PopMessage(h)
  <2>1. Head(queue) \in published /\ Tail(queue) \in Seq(published)
    BY <1>1, PopType DEF Known, PopMessage
  <2> QED BY <1>1, <1>t, <2>1 DEF PopMessage, Known
<1>2. CASE PopEmpty(h) \/ AckRange(h) \/ NackRange(h)
  BY <1>2 DEF PopEmpty, AckRange, NackRange, ZRange, Known
<1>3. CASE PanicRecovered(h) \/ NotFound(h)
  <2>1. \A g \in Handlers : hand'[g] \in {hand[g], None} /\ got'[g] \in {got[g], <<>>}
    BY <1>3, <1>t DEF PanicRecovered, NotFound, Return
  <2>2. \A g \in Handlers : hand'[g] \in published \cup {None} /\ got'[g] \in Seq(published)
    BY <2>1, EmptyList DEF Known
  <2>3. UNCHANGED <<published, queue, dlq, pel, chkSnap, inbox, chkMsg, acked, dropped>>
    BY <1>3 DEF PanicRecovered, NotFound
  <2> QED BY <2>2, <2>3 DEF Known
<1>4. CASE PopError(h)
  <2>1. /\ UNCHANGED <<published, dlq, pel, chkSnap, hand, got, inbox, chkMsg, acked>>
        /\ \/ UNCHANGED <<queue, dropped>>
           \/ queue # <<>> /\ queue' = Tail(queue) /\ dropped' = dropped \cup {Head(queue)}
    BY <1>4 DEF PopError
  <2>2. queue # <<>> => Head(queue) \in published /\ Tail(queue) \in Seq(published)
    BY PopType DEF Known
  <2> QED BY <2>1, <2>2 DEF Known
<1>5. CASE AddToPEL(h)
  <2>1. hand[h] \in published
    BY <1>5, <1>t, NoneAssumption DEF AddToPEL, ThreadInv, Known
  <2>2. Append(got[h], hand[h]) \in Seq(published)
    BY <2>1 DEF Known
  <2>3. \A e \in pel' : e.msg \in published
    BY <1>5, <2>1 DEF AddToPEL, ZAdd, NewEntry, Known
  <2>4. \A g \in Handlers : got'[g] \in Seq(published) /\ hand'[g] \in published \cup {None}
    BY <1>5, <1>t, <2>2 DEF AddToPEL, NextTurn, Known
  <2>5. UNCHANGED <<published, queue, dlq, chkSnap, inbox, chkMsg, acked, dropped>>
    BY <1>5 DEF AddToPEL
  <2> QED BY <2>3, <2>4, <2>5 DEF Known
<1>6. CASE AddToPELError(h)
  <2>1. hand[h] \in published
    BY <1>6, <1>t, NoneAssumption DEF AddToPELError, ThreadInv, Known
  <2>2. \A e \in pel' : e.msg \in published
    BY <1>6, <2>1 DEF AddToPELError, ZAdd, NewEntry, Known
  <2> QED BY <1>6, <2>2 DEF AddToPELError, Known
<1>7. CASE RequeueFetched(h)
  <2>1. hand[h] \in published
    BY <1>7, <1>t, NoneAssumption DEF RequeueFetched, ThreadInv, Known
  <2>2. queue' \in Seq(published)
    BY <1>7, <2>1, FrontType DEF RequeueFetched, RequeueMessage, RPush, Known
  <2> QED BY <1>7, <1>t, <2>2 DEF RequeueFetched, NextTurn, Known
<1>8. CASE RequeueFetchedError(h)
  <2>1. hand[h] \in published
    BY <1>8, <1>t, NoneAssumption DEF RequeueFetchedError, ThreadInv, Known
  <2> QED BY <1>8, <1>t, <2>1 DEF RequeueFetchedError, NextTurn, Known
<1>9. CASE FetchReply(h)
  <2>1. \A c \in Consumers : inbox'[c] \in Seq(published)
    BY <1>9, <1>t DEF FetchReply, Known
  <2> QED BY <1>9, <1>t, <2>1 DEF FetchReply, Return, Known
<1>10. CASE AckRem(h)
  <2>1. hand[h] \in published
    BY <1>10, <1>t, NoneAssumption DEF AckRem, ThreadInv, Known
  <2> QED BY <1>10, <1>t, <2>1 DEF AckRem, ZRem, Return, Known
<1>11. CASE NackRem(h)
  BY <1>11, <1>t DEF NackRem, ZRem, Known
<1>12. CASE NackPush(h)
  <2>1. hand[h] \in published
    BY <1>12, <1>t, NoneAssumption DEF NackPush, ThreadInv, Known
  <2>2. queue' \in Seq(published)
    BY <1>12, <2>1, FrontType DEF NackPush, RequeueMessage, RPush, Known
  <2> QED BY <1>12, <1>t, <2>2 DEF NackPush, Return, Known
<1>13. CASE SettleError(h)
  <2>1. hand[h] \in published
    BY <1>13, <1>t, NoneAssumption DEF SettleError, ThreadInv, Known
  <2> QED BY <1>13, <1>t, <2>1 DEF SettleError, ZRem, Return, Known
<1> QED BY <1>1, <1>2, <1>3, <1>4, <1>5, <1>6, <1>7, <1>8, <1>9, <1>10, <1>11, <1>12, <1>13

(* So does the checker, and a stop only forgets.                           *)
LEMMA OtherKnown == Base /\ Known /\ (CheckerNext \/ ProcessNext) => Known'
<1> SUFFICES ASSUME Base, Known, CheckerNext \/ ProcessNext PROVE Known'
  OBVIOUS
<1> USE DEF redisVars, svcVars, hdlVars, chkVars, cliVars, hisVars, budVars
<1>t. dlq \in Seq(Msgs) /\ ThreadInv /\ published \in SUBSET Msgs
  BY DEF Base, TypeOK
<1>1. CASE CheckerScan \/ CheckerDone
  BY <1>1 DEF CheckerScan, CheckerDone, Known
<1>2. CASE CheckerRequeue
  <2>1. chkMsg \in published
    BY <1>2, <1>t, NoneAssumption DEF CheckerRequeue, ThreadInv, Known
  <2>2. queue' \in Seq(published)
    BY <1>2, <2>1, FrontType DEF CheckerRequeue, RequeueMessage, RPush, Known
  <2> QED BY <1>2, <2>2 DEF CheckerRequeue, Known
<1>3. CASE CheckerRequeueError
  BY <1>3, <1>t, NoneAssumption DEF CheckerRequeueError, ThreadInv, Known
<1>4. ASSUME NEW e \in chkSnap, CheckerDeadLetter(e) PROVE Known'
  <2>1. e.msg \in published
    BY <1>4 DEF Known
  <2>2. dlq' \in Seq(published)
    BY <1>4, <2>1 DEF CheckerDeadLetter, Known
  <2> QED BY <1>4, <2>2 DEF CheckerDeadLetter, CheckerZRem, ZRem, Known
<1>5. ASSUME NEW e \in chkSnap, CheckerRemove(e) PROVE Known'
  BY <1>5 DEF CheckerRemove, CheckerZRem, ZRem, Known
<1>6. CASE Shutdown \/ Close \/ Restart
  BY <1>6 DEF Shutdown, Close, Restart, Known
<1>7. CASE Exit \/ Crash
  <2>1. \A m \in Msgs : InHand(m) \/ DeadLettered(m) => m \in published
    BY <1>t, ListOf, NoneAssumption DEF Known, InHand, Holds, DeadLettered
  <2>2. /\ dropped' = dropped \cup {m \in Msgs : InHand(m) \/ DeadLettered(m)}
        /\ dlq' = <<>> /\ chkSnap' = {} /\ chkMsg' = None
        /\ \A h \in Handlers : hand'[h] = None /\ got'[h] = <<>>
        /\ UNCHANGED <<published, queue, pel, inbox, acked>>
    BY <1>7 DEF Exit, Crash, ProcessGone
  <2> QED BY <2>1, <2>2, EmptyList DEF Known
<1> QED BY <1>1, <1>2, <1>3, <1>4, <1>5, <1>6, <1>7 DEF CheckerNext, ProcessNext

(* Known is inductive, together with Base.                                 *)
LEMMA StepKnown == Base /\ Known /\ [Next]_vars => Known'
<1> SUFFICES ASSUME Base, Known, [Next]_vars PROVE Known'
  OBVIOUS
<1> USE DEF redisVars, svcVars, hdlVars, chkVars, cliVars, hisVars, budVars
<1>1. CASE \E m \in Msgs : Publish(m)
  BY <1>1, PublishKnown
<1>2. CASE \E e \in pel : Expire(e)
  BY <1>2 DEF Expire, Known
<1>3. CASE UNCHANGED vars
  BY <1>3 DEF vars, Known
<1> QED BY <1>1, <1>2, <1>3, ConsumerKnown, HandlerKnown, OtherKnown DEF Next

-----------------------------------------------------------------------------
(* The step simulation.  First, what a step of the service has to do to    *)
(* each message for the abstract queue to stutter or to fail.              *)
Kept == \A m \in Msgs : Live(m)' <=> Live(m)
DeadKept == \A m \in Msgs : DeadLettered(m)' <=> DeadLettered(m)

(* The abstract queue stutters when every message stays where it was.      *)
LEMMA Stutter ==
  ASSUME Kept, DeadKept, UNCHANGED <<published, acked, dropped, faults, crashes>>
  PROVE  UNCHANGED Queue!vars
<1>1. {m \in Msgs : Live(m)}' = {m \in Msgs : Live(m)}
  BY DEF Kept
<1>2. {m \in Msgs : DeadLettered(m)}' = {m \in Msgs : DeadLettered(m)}
  BY DEF DeadKept
<1> QED BY <1>1, <1>2 DEF Queue!vars

(* A failed command or a stop that drops the messages S.                   *)
LEMMA FailStep ==
  ASSUME Base, NEW S \in SUBSET published, dropped' = dropped \cup S,
         faults' + crashes' \in {faults + crashes, faults + crashes + 1},
         faults' + crashes' > 0,
         \A m \in Msgs : /\ Live(m)' => Live(m)
                         /\ Live(m) => Live(m)' \/ m \in S
                         /\ DeadLettered(m)' => DeadLettered(m)
                         /\ DeadLettered(m) => DeadLettered(m)' \/ m \in S,
         UNCHANGED <<published, acked>>
  PROVE  Queue!Next
<1>1. /\ {m \in Msgs : Live(m)}' \subseteq {m \in Msgs : Live(m)}
      /\ {m \in Msgs : Live(m)} \subseteq {m \in Msgs : Live(m)}' \cup S
  OBVIOUS
<1>2. /\ {m \in Msgs : DeadLettered(m)}' \subseteq {m \in Msgs : DeadLettered(m)}
      /\ {m \in Msgs : DeadLettered(m)} \subseteq {m \in Msgs : DeadLettered(m)}' \cup S
  OBVIOUS
<1>3. Queue!Fail(S)
  BY <1>1, <1>2 DEF Queue!Fail, Queue!MaybeFailing
<1> QED BY <1>3 DEF Queue!Next

(* A failure that loses nothing.                                           *)
LEMMA FailNothing ==
  ASSUME Base, Kept, DeadKept, UNCHANGED <<published, acked, dropped>>,
         faults' + crashes' \in {faults + crashes, faults + crashes + 1},
         faults' + crashes' > 0
  PROVE  Queue!Next
<1>1. {} \in SUBSET published /\ dropped' = dropped \cup {}
  OBVIOUS
<1>2. \A m \in Msgs : /\ Live(m)' => Live(m)
                      /\ Live(m) => Live(m)' \/ m \in {}
                      /\ DeadLettered(m)' => DeadLettered(m)
                      /\ DeadLettered(m) => DeadLettered(m)' \/ m \in {}
  BY DEF Kept, DeadKept
<1> HIDE DEF Kept, DeadKept
<1> QED BY <1>1, <1>2, FailStep

(* A Redis error is a failure, or follows one: Close comes after SIGTERM.  *)
LEMMA ErrorCounted ==
  ASSUME Base, RedisError, UNCHANGED crashes
  PROVE  /\ faults' + crashes' \in {faults + crashes, faults + crashes + 1}
         /\ faults' + crashes' > 0
<1>1. faults \in Nat /\ crashes \in Nat
  BY BoundAssumption DEF Base, TypeOK
<1>2. CASE svc = "closing" /\ UNCHANGED faults
  BY <1>1, <1>2 DEF Base, StopCounted
<1>3. CASE faults' = faults + 1
  BY <1>1, <1>3
<1> QED BY <1>2, <1>3 DEF RedisError

(* Consumers move nothing; a crashed one is a failure that loses nothing.  *)
LEMMA ConsumerSim == Base /\ ConsumerNext => [Queue!Next]_(Queue!vars)
<1> SUFFICES ASSUME Base, ConsumerNext PROVE [Queue!Next]_(Queue!vars)
  OBVIOUS
<1> PICK c \in Consumers :
      \/ \E h \in Handlers : StartFetch(c, h) \/ StartAck(c, h) \/ StartNack(c, h)
      \/ SettleRefused(c) \/ CallTimesOut(c) \/ ConsumerCrash(c)
  BY DEF ConsumerNext
<1> USE DEF redisVars, svcVars, hdlVars, chkVars, cliVars, hisVars, budVars
<1>1. UNCHANGED <<published, queue, pel, dlq, chkPc, chkMsg, acked, dropped, faults>>
  BY DEF StartFetch, StartAck, StartNack, Settle, SettleRefused, CallTimesOut, ConsumerCrash
<1>2. \A m \in Msgs, g \in Handlers : Holds(g, m)' <=> Holds(g, m)
  BY DEF Holds, Base, TypeOK, StartFetch, StartAck, StartNack, Settle, SettleRefused,
         CallTimesOut, ConsumerCrash
<1>3. Kept /\ DeadKept
  BY <1>1, <1>2 DEF Kept, DeadKept, Live, Queued, Pending, InHand, DeadLettered, Holds
<1>4. CASE UNCHANGED crashes
  BY <1>1, <1>3, <1>4, Stutter
<1>5. CASE crashes' = crashes + 1
  <2>1. faults \in Nat /\ crashes \in Nat
    BY BoundAssumption DEF Base, TypeOK
  <2>2. faults' + crashes' = faults + crashes + 1 /\ faults' + crashes' > 0
    BY <1>1, <1>5, <2>1
  <2> QED BY <1>1, <1>3, <2>2, FailNothing
<1> QED BY <1>4, <1>5 DEF StartFetch, StartAck, StartNack, Settle, SettleRefused,
           CallTimesOut, ConsumerCrash

(* A handler's Ack acknowledges, its Nack redelivers, its errors fail, and *)
(* all its other commands only move a message between list, hand and PEL.  *)
LEMMA HandlerSim == Base /\ Known /\ HandlerNext => [Queue!Next]_(Queue!vars)
<1> SUFFICES ASSUME Base, Known, HandlerNext PROVE [Queue!Next]_(Queue!vars)
  OBVIOUS
<1> PICK h \in Handlers :
      \/ PopMessage(h) \/ PopEmpty(h) \/ PanicRecovered(h) \/ PopError(h)
      \/ AddToPEL(h) \/ AddToPELError(h) \/ RequeueFetched(h) \/ RequeueFetchedError(h)
      \/ FetchReply(h)
      \/ AckRange(h) \/ NackRange(h) \/ NotFound(h)
      \/ AckRem(h) \/ NackRem(h) \/ NackPush(h) \/ SettleError(h)
  BY DEF HandlerNext
<1> USE DEF redisVars, svcVars, hdlVars, chkVars, cliVars, hisVars, budVars
<1>t. /\ queue \in Seq(Msgs) /\ pc \in [Handlers -> PCs]
      /\ hand \in [Handlers -> Msgs \cup {None}] /\ published \in SUBSET Msgs /\ ThreadInv
  BY DEF Base, TypeOK
<1>d. DeadKept
  BY DEF DeadKept, DeadLettered, PopMessage, PopEmpty, PanicRecovered, PopError, AddToPEL,
     AddToPELError, RequeueFetched, RequeueFetchedError, FetchReply, AckRange, NackRange,
     ZRange, NotFound, AckRem, NackRem, NackPush, SettleError
<1>k. hand[h] \in Msgs => hand[h] \in published
  BY NoneAssumption DEF Known
<1> USE DEF Live, Queued, Pending, InHand, Holds
<1>1. CASE PopMessage(h)
  <2>1. \A m \in Msgs : In(m, queue) <=> In(m, Tail(queue)) \/ m = Head(queue)
    BY <1>1, <1>t, InPop, InPopOnly DEF PopMessage
  <2>2. Kept
    BY <1>1, <1>t, <2>1 DEF PopMessage, Kept
  <2> QED BY <1>1, <1>d, <2>2, Stutter DEF PopMessage
<1>2. CASE PopEmpty(h) \/ PanicRecovered(h) \/ FetchReply(h) \/ NotFound(h)
           \/ AckRange(h) \/ NackRange(h)
  <2>1. Kept
    BY <1>2, <1>t DEF PopEmpty, PanicRecovered, FetchReply, NotFound, AckRange,
                      NackRange, ZRange, Return, Kept
  <2>2. UNCHANGED <<published, acked, dropped, faults, crashes>>
    BY <1>2 DEF PopEmpty, PanicRecovered, FetchReply, NotFound, AckRange, NackRange, ZRange
  <2> QED BY <1>d, <2>1, <2>2, Stutter
<1>3. CASE PopError(h)
  <2>0. UNCHANGED <<published, acked, crashes>> /\ RedisError
    BY <1>3 DEF PopError
  <2>1. CASE UNCHANGED <<queue, dropped>>
    <3>1. Kept
      BY <1>3, <1>t, <2>1 DEF PopError, Kept
    <3> QED BY <1>d, <2>0, <2>1, <3>1, ErrorCounted, FailNothing
  <2>2. CASE queue # <<>> /\ queue' = Tail(queue) /\ dropped' = dropped \cup {Head(queue)}
    <3>1. \A m \in Msgs : In(m, queue) <=> In(m, Tail(queue)) \/ m = Head(queue)
      BY <1>t, <2>2, InPop, InPopOnly
    <3>2. \A m \in Msgs : /\ Live(m)' => Live(m)
                          /\ Live(m) => Live(m)' \/ m \in {Head(queue)}
      BY <1>3, <1>t, <2>2, <3>1 DEF PopError
    <3>3. {Head(queue)} \in SUBSET published
      BY <2>2, PopType DEF Known
    <3> HIDE DEF Live
    <3> QED BY <1>d, <2>0, <2>2, <3>2, <3>3, ErrorCounted, FailStep DEF DeadKept
  <2> QED BY <1>3, <2>1, <2>2 DEF PopError
<1>4. CASE AddToPEL(h)
  <2>1. PICK e : e.msg = hand[h] /\ pel' = pel \cup {e}
    BY <1>4 DEF AddToPEL, ZAdd, NewEntry
  <2>2. /\ \A g \in Handlers : g # h => pc'[g] = pc[g] /\ hand'[g] = hand[g]
        /\ pc[h] = "zadd" /\ pc'[h] \in {"pop", "reply"}
    BY <1>4, <1>t DEF AddToPEL, NextTurn
  <2>3. Kept
    BY <1>4, <1>t, <2>1, <2>2 DEF AddToPEL, Kept
  <2> QED BY <1>4, <1>d, <2>3, Stutter DEF AddToPEL
<1>5. CASE AddToPELError(h)
  <2>1. pel' = pel \/ \E e : e.msg = hand[h] /\ pel' = pel \cup {e}
    BY <1>5 DEF AddToPELError, ZAdd, NewEntry
  <2>2. Kept
    BY <1>5, <1>t, <2>1 DEF AddToPELError, Kept
  <2> QED BY <1>5, <1>d, <2>2, ErrorCounted, FailNothing DEF AddToPELError
<1>6. CASE RequeueFetched(h) \/ NackPush(h)
  <2>1. hand[h] \in Msgs /\ queue' = <<hand[h]>> \o queue
    BY <1>6, <1>t DEF RequeueFetched, NackPush, RequeueMessage, RPush, ThreadInv
  <2>2. \A m \in Msgs : Queued(m)' <=> Queued(m) \/ m = hand[h]
    BY <2>1, <1>t, InFront
  <2>3. Kept
    BY <1>6, <1>t, <2>2 DEF RequeueFetched, NackPush, NextTurn, Return, Kept
  <2> QED BY <1>6, <1>d, <2>3, Stutter DEF RequeueFetched, NackPush
<1>7. CASE RequeueFetchedError(h)
  <2>1. hand[h] \in Msgs /\ {hand[h]} \in SUBSET published
    BY <1>7, <1>t, <1>k DEF RequeueFetchedError, ThreadInv
  <2>2. \A m \in Msgs : /\ Live(m)' => Live(m)
                        /\ Live(m) => Live(m)' \/ m \in {hand[h]}
    BY <1>7, <1>t DEF RequeueFetchedError, NextTurn
  <2>3. dropped' = dropped \cup {hand[h]} /\ UNCHANGED <<published, acked, crashes>> /\ RedisError
    BY <1>7 DEF RequeueFetchedError
  <2> HIDE DEF Live
  <2> QED BY <1>d, <2>1, <2>2, <2>3, ErrorCounted, FailStep DEF DeadKept
<1>8. CASE AckRem(h)
  <2>1. hand[h] \in Msgs /\ hand[h] \in published /\ ent[h].msg = hand[h]
    BY <1>8, <1>t, <1>k DEF AckRem, ThreadInv
  <2>2. \A m \in Msgs : /\ Live(m)' => Live(m)
                        /\ Live(m) => Live(m)' \/ m = hand[h]
    BY <1>8, <1>t, <2>1 DEF AckRem, ZRem, Return
  <2> HIDE DEF Live
  <2>3. \/ {m \in Msgs : Live(m)}' = {m \in Msgs : Live(m)}
        \/ {m \in Msgs : Live(m)}' = {m \in Msgs : Live(m)} \ {hand[h]}
    BY <2>2
  <2>4. {m \in Msgs : DeadLettered(m)}' = {m \in Msgs : DeadLettered(m)}
    BY <1>d DEF DeadKept
  <2>5. Queue!Ack(hand[h])
    BY <1>8, <2>1, <2>3, <2>4 DEF Queue!Ack, AckRem
  <2> QED BY <2>1, <2>5 DEF Queue!Next
<1>9. CASE NackRem(h)
  <2>1. hand[h] \in Msgs /\ hand[h] \in published /\ ent[h].msg = hand[h]
    BY <1>9, <1>t, <1>k DEF NackRem, ThreadInv
  <2>2. \A m \in Msgs : Live(m)' <=> Live(m) \/ m = hand[h]
    BY <1>9, <1>t, <2>1 DEF NackRem, ZRem
  <2> HIDE DEF Live
  <2>3. {m \in Msgs : Live(m)}' = {m \in Msgs : Live(m)} \cup {hand[h]}
    BY <2>1, <2>2
  <2>4. {m \in Msgs : DeadLettered(m)}' = {m \in Msgs : DeadLettered(m)}
    BY <1>d DEF DeadKept
  <2>5. Queue!Redeliver(hand[h])
    BY <1>9, <2>1, <2>3, <2>4 DEF Queue!Redeliver, Queue!MaybeFailing, NackRem
  <2> QED BY <2>1, <2>5 DEF Queue!Next
<1>10. CASE SettleError(h)
  <2>0. UNCHANGED <<published, acked, crashes>> /\ RedisError
    BY <1>10 DEF SettleError
  <2>1. hand[h] \in Msgs /\ {hand[h]} \in SUBSET published
    BY <1>10, <1>t, <1>k DEF SettleError, ThreadInv
  <2>2. CASE dropped' = dropped \cup {hand[h]}
    <3>1. \A m \in Msgs : /\ Live(m)' => Live(m)
                          /\ Live(m) => Live(m)' \/ m \in {hand[h]}
      BY <1>10, <1>t DEF SettleError, ZRem, Return, ThreadInv
    <3> HIDE DEF Live
    <3> QED BY <1>d, <2>0, <2>1, <2>2, <3>1, ErrorCounted, FailStep DEF DeadKept
  <2>3. CASE /\ pc[h] \in {"ackRange", "ackRem", "nackRange", "nackRem"}
             /\ UNCHANGED <<pel, expired, dropped>>
    <3>1. Kept
      BY <1>10, <1>t, <2>3 DEF SettleError, Return, Kept
    <3> QED BY <1>d, <2>0, <2>3, <3>1, ErrorCounted, FailNothing
  <2> QED BY <1>10, <2>2, <2>3 DEF SettleError
<1> QED BY <1>1, <1>2, <1>3, <1>4, <1>5, <1>6, <1>7, <1>8, <1>9, <1>10

(* The checker dead-letters or redelivers, from a scan that may be stale.  *)
LEMMA CheckerSim == Base /\ Known /\ CheckerNext => [Queue!Next]_(Queue!vars)
<1> SUFFICES ASSUME Base, Known, CheckerNext PROVE [Queue!Next]_(Queue!vars)
  OBVIOUS
<1> USE DEF redisVars, svcVars, hdlVars, chkVars, cliVars, hisVars, budVars
<1>t. /\ queue \in Seq(Msgs) /\ dlq \in Seq(Msgs) /\ chkSnap \in SUBSET Entries
      /\ published \in SUBSET Msgs /\ ThreadInv /\ faults \in Nat /\ crashes \in Nat
  BY BoundAssumption DEF Base, TypeOK
<1>k. chkMsg \in Msgs => {chkMsg} \in SUBSET published
  BY NoneAssumption DEF Known
<1> USE DEF Live, Queued, Pending, InHand, Holds
<1>1. CASE CheckerScan \/ CheckerDone
  <2>1. Kept /\ DeadKept
    BY <1>1 DEF CheckerScan, CheckerDone, Kept, DeadKept, DeadLettered
  <2> QED BY <1>1, <2>1, Stutter DEF CheckerScan, CheckerDone
<1>2. CASE CheckerRequeue
  <2>1. chkMsg \in Msgs /\ queue' = <<chkMsg>> \o queue
    BY <1>2, <1>t DEF CheckerRequeue, RequeueMessage, RPush, ThreadInv
  <2>2. \A m \in Msgs : Queued(m)' <=> Queued(m) \/ m = chkMsg
    BY <2>1, <1>t, InFront
  <2>3. Kept /\ DeadKept
    BY <1>2, <2>2 DEF CheckerRequeue, Kept, DeadKept, DeadLettered
  <2> QED BY <1>2, <2>3, Stutter DEF CheckerRequeue
<1>3. CASE CheckerRequeueError
  <2>1. chkMsg \in Msgs /\ {chkMsg} \in SUBSET published
    BY <1>3, <1>t, <1>k DEF CheckerRequeueError, ThreadInv
  <2>2. \A m \in Msgs : /\ Live(m)' => Live(m)
                        /\ Live(m) => Live(m)' \/ m \in {chkMsg}
                        /\ DeadLettered(m)' <=> DeadLettered(m)
    BY <1>3 DEF CheckerRequeueError, DeadLettered
  <2>3. dropped' = dropped \cup {chkMsg} /\ UNCHANGED <<published, acked, crashes>> /\ RedisError
    BY <1>3 DEF CheckerRequeueError
  <2> HIDE DEF Live
  <2> QED BY <2>1, <2>2, <2>3, ErrorCounted, FailStep
<1>4. ASSUME NEW e \in chkSnap, CheckerDeadLetter(e) PROVE Queue!Next
  <2>1. e.msg \in Msgs /\ e.msg \in published /\ dlq' = Append(dlq, e.msg)
    BY <1>4, <1>t DEF CheckerDeadLetter, Entries, Known
  <2>2. \A m \in Msgs : DeadLettered(m)' <=> DeadLettered(m) \/ m = e.msg
    BY <2>1, <1>t, InAppend DEF DeadLettered
  <2>3. \A m \in Msgs : /\ Live(m)' => Live(m)
                        /\ Live(m) => Live(m)' \/ m = e.msg
    BY <1>4 DEF CheckerDeadLetter, CheckerZRem, ZRem
  <2>4. faults' + crashes' \in {faults + crashes, faults + crashes + 1}
    BY <1>4, <1>t DEF CheckerDeadLetter, CheckerZRem, RedisError
  <2> HIDE DEF Live
  <2>5. \/ {m \in Msgs : Live(m)}' = {m \in Msgs : Live(m)}
        \/ {m \in Msgs : Live(m)}' = {m \in Msgs : Live(m)} \ {e.msg}
    BY <2>3
  <2>6. {m \in Msgs : DeadLettered(m)}' = {m \in Msgs : DeadLettered(m)} \cup {e.msg}
    BY <2>1, <2>2
  <2>7. Queue!DeadLetter(e.msg)
    BY <1>4, <2>1, <2>4, <2>5, <2>6 DEF Queue!DeadLetter, Queue!MaybeFailing, CheckerDeadLetter
  <2> QED BY <2>1, <2>7 DEF Queue!Next
<1>5. ASSUME NEW e \in chkSnap, CheckerRemove(e) PROVE Queue!Next
  <2>1. e.msg \in Msgs /\ e.msg \in published
    BY <1>5, <1>t DEF Entries, Known
  <2>2. \A m \in Msgs : Live(m)' <=> Live(m) \/ m = e.msg
    BY <1>5, <1>t DEF CheckerRemove, CheckerZRem, ZRem
  <2>3. \A m \in Msgs : DeadLettered(m)' <=> DeadLettered(m)
    BY <1>5 DEF CheckerRemove, DeadLettered
  <2>4. faults' + crashes' \in {faults + crashes, faults + crashes + 1}
    BY <1>5, <1>t DEF CheckerRemove, CheckerZRem, RedisError
  <2> HIDE DEF Live
  <2>5. {m \in Msgs : Live(m)}' = {m \in Msgs : Live(m)} \cup {e.msg}
    BY <2>1, <2>2
  <2>6. {m \in Msgs : DeadLettered(m)}' = {m \in Msgs : DeadLettered(m)}
    BY <2>3
  <2>7. Queue!Redeliver(e.msg)
    BY <1>5, <2>1, <2>4, <2>5, <2>6 DEF Queue!Redeliver, Queue!MaybeFailing, CheckerRemove
  <2> QED BY <2>1, <2>7 DEF Queue!Next
<1> QED BY <1>1, <1>2, <1>3, <1>4, <1>5 DEF CheckerNext

(* A stop is a failure that takes what was only in memory.                 *)
LEMMA ProcessSim == Base /\ Known /\ ProcessNext => [Queue!Next]_(Queue!vars)
<1> SUFFICES ASSUME Base, Known, ProcessNext PROVE [Queue!Next]_(Queue!vars)
  OBVIOUS
<1> USE DEF redisVars, svcVars, hdlVars, chkVars, cliVars, hisVars, budVars
<1>t. published \in SUBSET Msgs /\ faults \in Nat /\ crashes \in Nat /\ StopCounted
  BY BoundAssumption DEF Base, TypeOK
<1>1. CASE Shutdown \/ Close \/ Restart
  <2>1. Kept /\ DeadKept
    BY <1>1 DEF Shutdown, Close, Restart, Kept, DeadKept, Live, Queued, Pending, InHand,
                Holds, DeadLettered
  <2>2. UNCHANGED <<published, acked, dropped, faults>>
    BY <1>1 DEF Shutdown, Close, Restart
  <2>3. CASE Shutdown
    <3>1. faults' + crashes' = faults + crashes + 1 /\ faults' + crashes' > 0
      BY <1>t, <2>2, <2>3 DEF Shutdown
    <3> QED BY <2>1, <2>2, <3>1, FailNothing
  <2>4. CASE Close \/ Restart
    BY <2>1, <2>2, <2>4, Stutter DEF Close, Restart
  <2> QED BY <1>1, <2>3, <2>4
<1>2. CASE Exit \/ Crash
  <2> DEFINE S == {m \in Msgs : InHand(m) \/ DeadLettered(m)}
  <2>1. \A m \in Msgs : InHand(m) \/ DeadLettered(m) => m \in published
    BY <1>t, ListOf, NoneAssumption DEF Known, InHand, Holds, DeadLettered
  <2>2. ProcessGone
    BY <1>2 DEF Exit, Crash
  <2>3. \A m \in Msgs : ~DeadLettered(m)'
    BY <2>2 DEF ProcessGone, DeadLettered, In
  <2>4. \A m \in Msgs : /\ Live(m)' => Live(m)
                        /\ Live(m) => Live(m)' \/ InHand(m)
    BY <2>2 DEF ProcessGone, Live, Queued, Pending, InHand, Holds
  <2>5. \A m \in Msgs : /\ Live(m)' => Live(m)
                        /\ Live(m) => Live(m)' \/ m \in S
                        /\ DeadLettered(m)' => DeadLettered(m)
                        /\ DeadLettered(m) => DeadLettered(m)' \/ m \in S
    BY <2>3, <2>4
  <2>6. S \in SUBSET published
    BY <2>1
  <2>7. dropped' = dropped \cup S /\ UNCHANGED <<published, acked>>
    BY <2>2 DEF ProcessGone
  <2>8. faults' + crashes' \in {faults + crashes, faults + crashes + 1} /\ faults' + crashes' > 0
    <3>1. faults' = faults
      BY <2>2 DEF ProcessGone
    <3>2. CASE Exit
      BY <1>t, <3>1, <3>2 DEF Exit, StopCounted
    <3>3. CASE Crash
      BY <1>t, <3>1, <3>3 DEF Crash
    <3> QED BY <1>2, <3>2, <3>3
  <2> HIDE DEF S
  <2> QED BY <2>5, <2>6, <2>7, <2>8, FailStep
<1> QED BY <1>1, <1>2 DEF ProcessNext

(* Every step of the service is a step of the at-least-once queue or       *)
(* invisible to it.                                                        *)
LEMMA StepSim == Base /\ Known /\ [Next]_vars => [Queue!Next]_(Queue!vars)
<1> SUFFICES ASSUME Base, Known, [Next]_vars PROVE [Queue!Next]_(Queue!vars)
  OBVIOUS
<1> USE DEF redisVars, svcVars, hdlVars, chkVars, cliVars, hisVars, budVars
<1>1. ASSUME NEW x \in Msgs, Publish(x) PROVE Queue!Next
  <2>1. queue \in Seq(Msgs) /\ queue' = Append(queue, x)
    BY <1>1 DEF Base, TypeOK, Publish, LPush
  <2>2. \A m \in Msgs : Queued(m)' <=> Queued(m) \/ m = x
    BY <2>1, InAppend DEF Queued
  <2>3. \A m \in Msgs : /\ Live(m)' <=> Live(m) \/ m = x
                        /\ DeadLettered(m)' <=> DeadLettered(m)
    BY <1>1, <2>2 DEF Publish, Live, Pending, InHand, Holds, DeadLettered
  <2>4. {m \in Msgs : Live(m)}' = {m \in Msgs : Live(m)} \cup {x}
    BY <2>3
  <2>5. {m \in Msgs : DeadLettered(m)}' = {m \in Msgs : DeadLettered(m)}
    BY <2>3
  <2>6. Queue!Publish(x)
    BY <1>1, <2>4, <2>5 DEF Queue!Publish, Publish
  <2> QED BY <2>6 DEF Queue!Next
<1>2. ASSUME NEW e \in pel, Expire(e) PROVE UNCHANGED Queue!vars
  <2>1. Kept /\ DeadKept
    BY <1>2 DEF Expire, Kept, DeadKept, Live, Queued, Pending, InHand, Holds, DeadLettered
  <2> QED BY <1>2, <2>1, Stutter DEF Expire
<1>3. CASE UNCHANGED vars
  <2>1. Kept /\ DeadKept
    BY <1>3 DEF vars, Kept, DeadKept, Live, Queued, Pending, InHand, Holds, DeadLettered
  <2> QED BY <1>3, <2>1, Stutter DEF vars
<1> QED BY <1>1, <1>2, <1>3, ConsumerSim, HandlerSim, CheckerSim, ProcessSim DEF Next

(* RedisQueue implements AtLeastOnce, for any number of messages,          *)
(* consumers, handlers, timeouts and failures.                             *)
THEOREM Implements == Spec => ImplementsAtLeastOnce
<1>1. Init => Known
  BY EmptyList DEF Init, Known
<1>2. Init => Queue!Init
  <2> SUFFICES ASSUME Init PROVE Queue!Init
    OBVIOUS
  <2>1. {m \in Msgs : Live(m)} = {} /\ {m \in Msgs : DeadLettered(m)} = {}
    BY DEF Init, Live, Queued, Pending, InHand, Holds, DeadLettered, In
  <2> QED BY <2>1 DEF Init, Queue!Init
<1> QED BY <1>1, <1>2, InitBase, StepBase, StepKnown, StepSim, PTL
        DEF Spec, ImplementsAtLeastOnce, Queue!Spec

(* The abstract queue keeps its promise.                                   *)
LEMMA PromiseStep == Queue!Promise /\ [Queue!Next]_(Queue!vars) => (Queue!Promise)'
<1> SUFFICES ASSUME Queue!Promise, [Queue!Next]_(Queue!vars) PROVE (Queue!Promise)'
  OBVIOUS
<1> USE DEF Queue!Promise, Queue!MaybeFailing
<1>1. ASSUME NEW m \in Msgs, Queue!Publish(m) \/ Queue!Ack(m) PROVE (Queue!Promise)'
  BY <1>1 DEF Queue!Publish, Queue!Ack
<1>2. ASSUME NEW m \in Msgs, Queue!DeadLetter(m) \/ Queue!Redeliver(m) PROVE (Queue!Promise)'
  BY <1>2 DEF Queue!DeadLetter, Queue!Redeliver
<1>3. ASSUME NEW S \in SUBSET published, Queue!Fail(S) PROVE (Queue!Promise)'
  BY <1>3 DEF Queue!Fail
<1>4. CASE UNCHANGED Queue!vars
  BY <1>4 DEF Queue!vars
<1> QED BY <1>1, <1>2, <1>3, <1>4 DEF Queue!Next

(* No message is ever given up without an Ack, a dead letter or a counted  *)
(* failure of the service: Redis, the handlers and the checker together    *)
(* keep what the abstract queue promises.                                  *)
THEOREM PromiseKept == Spec => []Queue!Promise
<1>1. Queue!Init => Queue!Promise
  BY DEF Queue!Init, Queue!Promise
<1> QED BY <1>1, PromiseStep, Implements, PTL DEF ImplementsAtLeastOnce, Queue!Spec

-----------------------------------------------------------------------------
(* How many copies of a message there can be.  A message weighs what is in *)
(* the list; the entries the PEL or the checker's scan has, as the checker *)
(* requeues a scanned entry whoever removed it since; the handlers that    *)
(* hold it or are about to take it for a Nack; and what the checker and    *)
(* the DLQ have of it.  A service that drains has one copy to spare, for   *)
(* the ZREM that fails while it closes.                                    *)
Entered(m) == {e \in pel \cup chkSnap : e.msg = m}

Carriers(m) ==
    {h \in Handlers : /\ pc[h] \in {"zadd", "requeue", "nackRange", "nackRem", "nackPush"}
                      /\ hand[h] = m}

Pushing(m) == IF chkPc = "push" /\ chkMsg = m THEN 1 ELSE 0

Elsewhere(m) ==
    IF svc = "closing" THEN 1
    ELSE (IF svc = "draining" THEN 1 ELSE 0) + Pushing(m) + Occurrences(m, dlq)

Weight(m) == Occurrences(m, queue) + Cardinality(Entered(m)) + Cardinality(Carriers(m))
             + Elsewhere(m)

Budget(m) == (IF m \in published THEN 1 ELSE 0) + faults + crashes + nacks

Light(m) == Weight(m) <= Budget(m)

(* A service that closes serves nobody; what Redis returns is finite.      *)
ServedInv ==
    /\ svc \in {"closing", "down"} => \A h \in Handlers : pc[h] = "idle"
    /\ IsFiniteSet(pel) /\ IsFiniteSet(chkSnap)

(* What is weighed can be counted.                                         *)
Counted ==
    \A m \in Msgs :
        /\ Occurrences(m, queue) \in Nat /\ Elsewhere(m) \in Nat /\ Budget(m) \in Nat
        /\ IsFiniteSet(Entered(m)) /\ IsFiniteSet(Carriers(m))

(* Everything weighed is finite.                                           *)
LEMMA CountedOK == Base /\ ServedInv => Counted
<1> SUFFICES ASSUME Base, ServedInv, NEW m \in Msgs
             PROVE  /\ Occurrences(m, queue) \in Nat /\ Elsewhere(m) \in Nat
                    /\ Budget(m) \in Nat
                    /\ IsFiniteSet(Entered(m)) /\ IsFiniteSet(Carriers(m))
  BY DEF Counted
<1>1. Occurrences(m, queue) \in Nat /\ Occurrences(m, dlq) \in Nat
  BY OccurrencesType DEF Base, TypeOK
<1>2. Pushing(m) \in Nat
  BY DEF Pushing
<1>3. Elsewhere(m) \in Nat
  BY <1>1, <1>2 DEF Elsewhere
<1>4. faults \in Nat /\ crashes \in Nat /\ nacks \in Nat
  BY BoundAssumption DEF Base, TypeOK
<1>5. Budget(m) \in Nat
  BY <1>4 DEF Budget
<1>6. IsFiniteSet(pel \cup chkSnap)
  BY FS_Union DEF ServedInv
<1>7. IsFiniteSet(Entered(m)) /\ IsFiniteSet(Carriers(m))
  BY <1>6, FiniteAssumption, FS_Subset DEF Entered, Carriers
<1> QED BY <1>1, <1>3, <1>5, <1>7

(* ServedInv is inductive.                                                 *)
LEMMA StepServed == Base /\ ServedInv /\ [Next]_vars => ServedInv'
<1> SUFFICES ASSUME Base, ServedInv, [Next]_vars PROVE ServedInv'
  OBVIOUS
<1> USE DEF redisVars, svcVars, hdlVars, chkVars, cliVars, hisVars, budVars
<1>1. IsFiniteSet(pel')
  <2>1. (\E x : pel' = pel \cup {x}) \/ pel' \subseteq pel
    BY DEF Next, Publish, ConsumerNext, StartFetch, StartAck, StartNack, Settle,
       SettleRefused, CallTimesOut, ConsumerCrash, HandlerNext, PopMessage, PopEmpty,
       PanicRecovered, PopError, AddToPEL, AddToPELError, RequeueFetched,
       RequeueFetchedError, FetchReply, AckRange, NackRange, ZRange, NotFound, AckRem,
       NackRem, NackPush, SettleError, ZAdd, ZRem, CheckerNext, CheckerScan,
       CheckerRequeue, CheckerRequeueError, CheckerDone, CheckerDeadLetter, CheckerRemove,
       CheckerZRem, ProcessNext, Shutdown, Close, Exit, Crash, ProcessGone, Restart,
       Expire, vars
  <2> QED BY <2>1, FS_AddElement, FS_Subset DEF ServedInv
<1>2. IsFiniteSet(chkSnap')
  <2>1. chkSnap' \subseteq pel \/ chkSnap' \subseteq chkSnap
    BY DEF Next, Publish, ConsumerNext, StartFetch, StartAck, StartNack, Settle,
       SettleRefused, CallTimesOut, ConsumerCrash, HandlerNext, PopMessage, PopEmpty,
       PanicRecovered, PopError, AddToPEL, AddToPELError, RequeueFetched,
       RequeueFetchedError, FetchReply, AckRange, NackRange, ZRange, NotFound, AckRem,
       NackRem, NackPush, SettleError, CheckerNext, CheckerScan,
       CheckerRequeue, CheckerRequeueError, CheckerDone, CheckerDeadLetter, CheckerRemove,
       ProcessNext, Shutdown, Close, Exit, Crash, ProcessGone, Restart, Expire, vars
  <2> QED BY <2>1, FS_Subset DEF ServedInv
<1>3. ASSUME svc' \in {"closing", "down"}, NEW h \in Handlers PROVE pc'[h] = "idle"
  <2>1. CASE ProcessNext
    BY <1>3, <2>1 DEF ProcessNext, Shutdown, Close, Exit, Crash, ProcessGone, Restart, ServedInv
  <2>2. CASE ~ProcessNext
    <3>1. UNCHANGED svc
      BY <2>2 DEF Next, Publish, ConsumerNext, StartFetch, StartAck, StartNack, Settle,
         SettleRefused, CallTimesOut, ConsumerCrash, HandlerNext, PopMessage, PopEmpty,
         PanicRecovered, PopError, AddToPEL, AddToPELError, RequeueFetched,
         RequeueFetchedError, FetchReply, AckRange, NackRange, ZRange, NotFound, AckRem,
         NackRem, NackPush, SettleError, CheckerNext, CheckerScan, CheckerRequeue,
         CheckerRequeueError, CheckerDone, CheckerDeadLetter, CheckerRemove, Expire, vars
    <3>2. \A g \in Handlers : pc[g] = "idle"
      BY <1>3, <3>1 DEF ServedInv
    <3>3. ~HandlerNext
      BY <3>2 DEF HandlerNext, PopMessage, PopEmpty, PanicRecovered, PopError, AddToPEL,
         AddToPELError, RequeueFetched, RequeueFetchedError, FetchReply, AckRange, NackRange,
         ZRange, NotFound, AckRem, NackRem, NackPush, SettleError
    <3>4. UNCHANGED pc
      BY <1>3, <2>2, <3>1, <3>3 DEF Next, Publish, ConsumerNext, StartFetch, StartAck,
         StartNack, Settle, SettleRefused, CallTimesOut, ConsumerCrash, CheckerNext,
         CheckerScan, CheckerRequeue, CheckerRequeueError, CheckerDone, CheckerDeadLetter,
         CheckerRemove, Expire, vars
    <3> QED BY <3>2, <3>4
  <2> QED BY <2>1, <2>2
<1> QED BY <1>1, <1>2, <1>3 DEF ServedInv

(* The weights before and after a step, as numbers.                        *)
LEMMA Before ==
  ASSUME Counted, NEW m \in Msgs, Light(m)
  PROVE  \E q, e, c, z, b \in Nat :
           /\ q = Occurrences(m, queue) /\ e = Cardinality(Entered(m))
           /\ c = Cardinality(Carriers(m)) /\ z = Elsewhere(m) /\ b = Budget(m)
           /\ q + e + c + z <= b
  BY FS_CardinalityType DEF Counted, Light, Weight

LEMMA After ==
  ASSUME Counted', NEW m \in Msgs
  PROVE  \E q, e, c, z, b \in Nat :
           /\ q = Occurrences(m, queue)' /\ e = Cardinality(Entered(m)')
           /\ c = Cardinality(Carriers(m)') /\ z = Elsewhere(m)' /\ b = Budget(m)'
           /\ q + e + c + z <= b => Light(m)'
<1>1. IsFiniteSet(Entered(m)') /\ IsFiniteSet(Carriers(m)')
  BY DEF Counted
<1>2. Cardinality(Entered(m)') \in Nat /\ Cardinality(Carriers(m)') \in Nat
  BY <1>1, FS_CardinalityType
<1>3. Occurrences(m, queue)' \in Nat /\ Elsewhere(m)' \in Nat /\ Budget(m)' \in Nat
  BY DEF Counted
<1>4. Occurrences(m, queue)' + Cardinality(Entered(m)') + Cardinality(Carriers(m)')
        + Elsewhere(m)' <= Budget(m)' => Light(m)'
  BY DEF Light, Weight
<1> QED BY <1>2, <1>3, <1>4

(* The weight moves with a handler's commands; only a ZADD that took       *)
(* effect and reports an error adds some, and that is a counted fault.     *)
LEMMA HandlerLight ==
  ASSUME Base, ServedInv, Counted, Counted', NEW m \in Msgs, Light(m), HandlerNext
  PROVE  Light(m)'
<1> USE DEF redisVars, svcVars, hdlVars, chkVars, cliVars, hisVars, budVars
<1> PICK h \in Handlers :
      \/ PopMessage(h) \/ PopEmpty(h) \/ PanicRecovered(h) \/ PopError(h)
      \/ AddToPEL(h) \/ AddToPELError(h) \/ RequeueFetched(h) \/ RequeueFetchedError(h)
      \/ FetchReply(h)
      \/ AckRange(h) \/ NackRange(h) \/ NotFound(h)
      \/ AckRem(h) \/ NackRem(h) \/ NackPush(h) \/ SettleError(h)
  BY DEF HandlerNext
<1>t. /\ queue \in Seq(Msgs) /\ pc \in [Handlers -> PCs]
      /\ hand \in [Handlers -> Msgs \cup {None}] /\ faults \in Nat
  BY BoundAssumption DEF Base, TypeOK
<1>0. PICK q, e, c, z, b \in Nat :
        /\ q = Occurrences(m, queue) /\ e = Cardinality(Entered(m))
        /\ c = Cardinality(Carriers(m)) /\ z = Elsewhere(m) /\ b = Budget(m)
        /\ q + e + c + z <= b
  BY Before
<1>1. PICK qq, ee, cc, zz, bb \in Nat :
        /\ qq = Occurrences(m, queue)' /\ ee = Cardinality(Entered(m)')
        /\ cc = Cardinality(Carriers(m)') /\ zz = Elsewhere(m)' /\ bb = Budget(m)'
        /\ qq + ee + cc + zz <= bb => Light(m)'
  BY After
<1>2. UNCHANGED <<svc, dlq, chkPc, chkMsg, chkSnap, published, crashes, nacks>>
  BY DEF PopMessage, PopEmpty, PanicRecovered, PopError, AddToPEL, AddToPELError,
     RequeueFetched, RequeueFetchedError, FetchReply, AckRange, NackRange, ZRange, NotFound,
     AckRem, NackRem, NackPush, SettleError
<1>3. zz = z
  BY <1>0, <1>1, <1>2 DEF Elsewhere, Pushing
<1>4. faults' = faults \/ faults' = faults + 1
  BY DEF PopMessage, PopEmpty, PanicRecovered, PopError, AddToPEL, AddToPELError,
     RequeueFetched, RequeueFetchedError, FetchReply, AckRange, NackRange, ZRange, NotFound,
     AckRem, NackRem, NackPush, SettleError, RedisError
<1>5. /\ faults' = faults => bb = b
      /\ faults' = faults + 1 => bb = b + 1
  <2>1. PICK p \in Nat, f \in Nat, k \in Nat, n \in Nat :
          /\ p = (IF m \in published THEN 1 ELSE 0) /\ f = faults /\ k = crashes /\ n = nacks
    BY BoundAssumption DEF Base, TypeOK
  <2>2. b = p + f + k + n /\ bb = p + faults' + k + n
    BY <1>0, <1>1, <1>2, <2>1 DEF Budget
  <2> QED BY <2>1, <2>2
<1>6. b <= bb
  BY <1>4, <1>5
<1>7. svc \notin {"closing", "down"}
  BY DEF ServedInv, PopMessage, PopEmpty, PanicRecovered, PopError, AddToPEL, AddToPELError,
     RequeueFetched, RequeueFetchedError, FetchReply, AckRange, NackRange, ZRange, NotFound,
     AckRem, NackRem, NackPush, SettleError
<1>8. CASE PopMessage(h)
  <2>1. /\ queue # <<>> /\ queue' = Tail(queue) /\ UNCHANGED pel
        /\ pc[h] = "pop" /\ pc'[h] = "zadd" /\ hand'[h] = Head(queue)
        /\ \A g \in Handlers \ {h} : pc'[g] = pc[g] /\ hand'[g] = hand[g]
    BY <1>8, <1>t DEF PopMessage
  <2>2. ee = e
    BY <1>0, <1>1, <1>2, <2>1 DEF Entered
  <2>3. q = qq + (IF m = Head(queue) THEN 1 ELSE 0)
    BY <1>0, <1>1, <1>t, <2>1, OccurrencesPop
  <2>4. CASE m = Head(queue)
    <3>1. Carriers(m)' \subseteq Carriers(m) \cup {h}
      BY <2>1 DEF Carriers
    <3>2. cc <= c + 1
      BY <1>0, <1>1, <3>1, OneMore DEF Counted
    <3>3. qq + ee + cc + zz <= bb
      BY <1>0, <1>1, <1>3, <1>6, <2>2, <2>3, <2>4, <3>2
    <3> QED BY <1>1, <3>3
  <2>5. CASE m # Head(queue)
    <3>1. Carriers(m)' \subseteq Carriers(m)
      BY <2>1, <2>5 DEF Carriers
    <3>2. cc <= c
      BY <1>0, <1>1, <3>1, Fewer DEF Counted
    <3>3. qq + ee + cc + zz <= bb
      BY <1>0, <1>1, <1>3, <1>6, <2>2, <2>3, <2>5, <3>2
    <3> QED BY <1>1, <3>3
  <2> QED BY <2>4, <2>5
<1>9. CASE AddToPEL(h) \/ AddToPELError(h)
  <2>1. /\ UNCHANGED queue /\ pc[h] = "zadd" /\ hand[h] \in Msgs
        /\ \/ pel' = pel
           \/ \E s \in Stamps : pel' = pel \cup {NewEntry(hand[h], s)}
    BY <1>9 DEF AddToPEL, AddToPELError, ZAdd, Base, ThreadInv
  <2>2. qq = q
    BY <1>0, <1>1, <2>1
  <2>3. CASE m = hand[h]
    <3>1. \E x : Entered(m)' \subseteq Entered(m) \cup {x}
      BY <1>2, <2>1 DEF Entered
    <3>2. ee <= e + 1
      BY <1>0, <1>1, <3>1, OneMore DEF Counted
    <3>3. CASE AddToPEL(h)
      <4>1. /\ pc'[h] \in {"pop", "reply"}
            /\ \A g \in Handlers \ {h} : pc'[g] = pc[g] /\ hand'[g] = hand[g]
        BY <1>t, <3>3 DEF AddToPEL, NextTurn
      <4>2. h \in Carriers(m) /\ Carriers(m)' \subseteq Carriers(m) \ {h}
        BY <2>1, <2>3, <4>1 DEF Carriers
      <4>3. cc + 1 <= c
        BY <1>0, <1>1, <4>2, OneLess DEF Counted
      <4>4. qq + ee + cc + zz <= bb
        BY <1>0, <1>1, <1>3, <1>6, <2>2, <3>2, <4>3
      <4> QED BY <1>1, <4>4
    <3>4. CASE AddToPELError(h)
      <4>1. Carriers(m)' \subseteq Carriers(m)
        BY <1>t, <3>4 DEF AddToPELError, Carriers
      <4>2. cc <= c
        BY <1>0, <1>1, <4>1, Fewer DEF Counted
      <4>3. faults' = faults + 1
        <5>1. RedisError
          BY <3>4 DEF AddToPELError
        <5> QED BY <1>7, <5>1 DEF RedisError
      <4>4. qq + ee + cc + zz <= bb
        BY <1>0, <1>1, <1>3, <1>5, <2>2, <3>2, <4>2, <4>3
      <4> QED BY <1>1, <4>4
    <3> QED BY <1>9, <3>3, <3>4
  <2>4. CASE m # hand[h]
    <3>1. Entered(m)' \subseteq Entered(m)
      BY <1>2, <2>1, <2>4 DEF Entered, NewEntry
    <3>2. \A g \in Handlers \ {h} : pc'[g] = pc[g] /\ hand'[g] = hand[g]
      BY <1>9, <1>t DEF AddToPEL, AddToPELError, NextTurn
    <3>3. hand'[h] # m
      BY <1>9, <1>t, <2>4, NoneAssumption DEF AddToPEL, AddToPELError, NextTurn
    <3>4. Carriers(m)' \subseteq Carriers(m)
      BY <3>2, <3>3 DEF Carriers
    <3>5. ee <= e /\ cc <= c
      BY <1>0, <1>1, <3>1, <3>4, Fewer DEF Counted
    <3>6. qq + ee + cc + zz <= bb
      BY <1>0, <1>1, <1>3, <1>6, <2>2, <3>5
    <3> QED BY <1>1, <3>6
  <2> QED BY <2>3, <2>4
<1>10. CASE RequeueFetched(h) \/ NackPush(h)
  <2>1. /\ UNCHANGED pel /\ queue' = <<hand[h]>> \o queue /\ hand[h] \in Msgs
        /\ pc[h] \in {"requeue", "nackPush"} /\ pc'[h] \in {"pop", "reply", "idle"}
        /\ \A g \in Handlers \ {h} : pc'[g] = pc[g] /\ hand'[g] = hand[g]
    BY <1>10, <1>t DEF RequeueFetched, NackPush, NextTurn, Return, RequeueMessage, RPush,
       Base, ThreadInv
  <2>2. ee = e
    BY <1>0, <1>1, <1>2, <2>1 DEF Entered
  <2>3. qq = q + (IF m = hand[h] THEN 1 ELSE 0)
    <3>1. Occurrences(m, queue') = Occurrences(m, queue) + (IF m = hand[h] THEN 1 ELSE 0)
      BY <1>t, <2>1, OccurrencesFront
    <3> QED BY <1>0, <1>1, <3>1
  <2>4. CASE m = hand[h]
    <3>1. h \in Carriers(m) /\ Carriers(m)' \subseteq Carriers(m) \ {h}
      BY <2>1, <2>4 DEF Carriers
    <3>2. cc + 1 <= c
      BY <1>0, <1>1, <3>1, OneLess DEF Counted
    <3>3. qq + ee + cc + zz <= bb
      BY <1>0, <1>1, <1>3, <1>6, <2>2, <2>3, <2>4, <3>2
    <3> QED BY <1>1, <3>3
  <2>5. CASE m # hand[h]
    <3>1. Carriers(m)' \subseteq Carriers(m)
      BY <2>1 DEF Carriers
    <3>2. cc <= c
      BY <1>0, <1>1, <3>1, Fewer DEF Counted
    <3>3. qq + ee + cc + zz <= bb
      BY <1>0, <1>1, <1>3, <1>6, <2>2, <2>3, <2>5, <3>2
    <3> QED BY <1>1, <3>3
  <2> QED BY <2>4, <2>5
<1>11. CASE PopEmpty(h) \/ PanicRecovered(h) \/ PopError(h) \/ RequeueFetchedError(h)
            \/ FetchReply(h) \/ AckRange(h) \/ NackRange(h) \/ NotFound(h)
            \/ AckRem(h) \/ NackRem(h) \/ SettleError(h)
  <2>1. pel' \subseteq pel /\ (queue' = queue \/ (queue # <<>> /\ queue' = Tail(queue)))
    BY <1>11 DEF PopEmpty, PanicRecovered, PopError, RequeueFetchedError, FetchReply,
       AckRange, NackRange, ZRange, NotFound, AckRem, NackRem, SettleError, ZRem
  <2>2. Entered(m)' \subseteq Entered(m)
    BY <1>2, <2>1 DEF Entered
  <2>3. /\ \A g \in Handlers \ {h} : pc'[g] = pc[g] /\ hand'[g] = hand[g]
        /\ \/ pc'[h] \in {"idle", "panic", "pop", "reply", "ackRem"}
           \/ pc[h] = "nackRange" /\ pc'[h] = "nackRem" /\ hand'[h] = hand[h]
           \/ pc[h] = "nackRem" /\ pc'[h] = "nackPush" /\ hand'[h] = hand[h]
    BY <1>11, <1>t DEF PopEmpty, PanicRecovered, PopError, RequeueFetchedError, FetchReply,
       AckRange, NackRange, ZRange, NotFound, AckRem, NackRem, SettleError, Return, NextTurn
  <2>4. Carriers(m)' \subseteq Carriers(m)
    BY <2>3 DEF Carriers
  <2>5. qq <= q
    <3>1. CASE queue' = queue
      BY <1>0, <1>1, <3>1
    <3>2. CASE queue # <<>> /\ queue' = Tail(queue)
      <4>1. q = qq + (IF m = Head(queue) THEN 1 ELSE 0)
        BY <1>0, <1>1, <1>t, <3>2, OccurrencesPop
      <4> QED BY <4>1
    <3> QED BY <2>1, <3>1, <3>2
  <2>6. ee <= e /\ cc <= c
    BY <1>0, <1>1, <2>2, <2>4, Fewer DEF Counted
  <2>7. qq + ee + cc + zz <= bb
    BY <1>0, <1>1, <1>3, <1>6, <2>5, <2>6
  <2> QED BY <1>1, <2>7
<1> QED BY <1>8, <1>9, <1>10, <1>11

(* A publish adds one copy, and the message to what was published.         *)
LEMMA PublishLight ==
  ASSUME Base, Counted, Counted', NEW m \in Msgs, Light(m),
         NEW n \in Msgs, Publish(n)
  PROVE  Light(m)'
<1> USE DEF redisVars, svcVars, hdlVars, chkVars, cliVars, hisVars, budVars
<1>0. PICK q, e, c, z, b \in Nat :
        /\ q = Occurrences(m, queue) /\ e = Cardinality(Entered(m))
        /\ c = Cardinality(Carriers(m)) /\ z = Elsewhere(m) /\ b = Budget(m)
        /\ q + e + c + z <= b
  BY Before
<1>1. PICK qq, ee, cc, zz, bb \in Nat :
        /\ qq = Occurrences(m, queue)' /\ ee = Cardinality(Entered(m)')
        /\ cc = Cardinality(Carriers(m)') /\ zz = Elsewhere(m)' /\ bb = Budget(m)'
        /\ qq + ee + cc + zz <= bb => Light(m)'
  BY After
<1>2. /\ queue' = Append(queue, n) /\ published' = published \cup {n} /\ n \notin published
      /\ UNCHANGED <<pel, chkSnap, pc, hand, svc, chkPc, chkMsg, dlq, faults, crashes, nacks>>
  BY DEF Publish, LPush
<1>3. ee = e /\ cc = c /\ zz = z
  BY <1>0, <1>1, <1>2 DEF Entered, Carriers, Elsewhere, Pushing
<1>4. qq = q + (IF m = n THEN 1 ELSE 0)
  <2>1. queue \in Seq(Msgs)
    BY DEF Base, TypeOK
  <2>2. Occurrences(m, Append(queue, n)) = Occurrences(m, queue) + (IF m = n THEN 1 ELSE 0)
    BY <2>1, OccurrencesAppend
  <2>3. Occurrences(m, queue)' = Occurrences(m, Append(queue, n))
    BY <1>2
  <2> QED BY <1>0, <1>1, <2>2, <2>3
<1>5. bb = b + (IF m = n THEN 1 ELSE 0)
  <2>1. PICK f \in Nat, k \in Nat, l \in Nat : f = faults /\ k = crashes /\ l = nacks
    BY BoundAssumption DEF Base, TypeOK
  <2>2. b = (IF m \in published THEN 1 ELSE 0) + f + k + l
    BY <1>0, <2>1 DEF Budget
  <2>3. bb = (IF m \in published \cup {n} THEN 1 ELSE 0) + f + k + l
    BY <1>1, <1>2, <2>1 DEF Budget
  <2>4. CASE m = n
    BY <1>2, <2>1, <2>2, <2>3, <2>4
  <2>5. CASE m # n
    BY <1>2, <2>1, <2>2, <2>3, <2>5
  <2> QED BY <2>4, <2>5
<1>6. qq + ee + cc + zz <= bb
  BY <1>0, <1>1, <1>3, <1>4, <1>5
<1> QED BY <1>1, <1>6

(* A Nack that starts carries the message, and is counted; other steps of  *)
(* a consumer carry nothing.                                               *)
LEMMA ConsumerLight ==
  ASSUME Base, Counted, Counted', NEW m \in Msgs, Light(m), ConsumerNext
  PROVE  Light(m)'
<1> USE DEF redisVars, svcVars, hdlVars, chkVars, cliVars, hisVars, budVars
<1>0. PICK q, e, c, z, b \in Nat :
        /\ q = Occurrences(m, queue) /\ e = Cardinality(Entered(m))
        /\ c = Cardinality(Carriers(m)) /\ z = Elsewhere(m) /\ b = Budget(m)
        /\ q + e + c + z <= b
  BY Before
<1>1. PICK qq, ee, cc, zz, bb \in Nat :
        /\ qq = Occurrences(m, queue)' /\ ee = Cardinality(Entered(m)')
        /\ cc = Cardinality(Carriers(m)') /\ zz = Elsewhere(m)' /\ bb = Budget(m)'
        /\ qq + ee + cc + zz <= bb => Light(m)'
  BY After
<1>t. pc \in [Handlers -> PCs] /\ hand \in [Handlers -> Msgs \cup {None}]
  BY DEF Base, TypeOK
<1>2. UNCHANGED <<queue, pel, chkSnap, svc, chkPc, chkMsg, dlq, published, faults>>
  BY DEF ConsumerNext, StartFetch, StartAck, StartNack, Settle, SettleRefused,
     CallTimesOut, ConsumerCrash
<1>3. qq = q /\ ee = e /\ zz = z
  BY <1>0, <1>1, <1>2 DEF Entered, Elsewhere, Pushing
<1>4. PICK p \in Nat, f \in Nat, k \in Nat, l \in Nat :
        /\ p = (IF m \in published THEN 1 ELSE 0) /\ f = faults /\ k = crashes /\ l = nacks
  BY BoundAssumption DEF Base, TypeOK
<1>5. b = p + f + k + l /\ bb = p + f + crashes' + nacks'
  BY <1>0, <1>1, <1>2, <1>4 DEF Budget
<1>6. CASE \E d \in Consumers, h \in Handlers : StartNack(d, h)
  <2>1. PICK h \in Handlers :
          /\ nacks' = nacks + 1 /\ crashes' = crashes
          /\ \A g \in Handlers \ {h} : pc'[g] = pc[g] /\ hand'[g] = hand[g]
    <3>1. PICK d \in Consumers, h \in Handlers : StartNack(d, h)
      BY <1>6
    <3>2. nacks' = nacks + 1 /\ crashes' = crashes
      BY <3>1 DEF StartNack, Settle
    <3>3. \A g \in Handlers \ {h} : pc'[g] = pc[g] /\ hand'[g] = hand[g]
      BY <1>t, <3>1 DEF StartNack, Settle
    <3> QED BY <3>2, <3>3
  <2>2. Carriers(m)' \subseteq Carriers(m) \cup {h}
    BY <2>1 DEF Carriers
  <2>3. cc <= c + 1
    BY <1>0, <1>1, <2>2, OneMore DEF Counted
  <2>4. bb = b + 1
    BY <1>4, <1>5, <2>1
  <2>5. qq + ee + cc + zz <= bb
    BY <1>0, <1>1, <1>3, <2>3, <2>4
  <2> QED BY <1>1, <2>5
<1>7. CASE ~\E d \in Consumers, h \in Handlers : StartNack(d, h)
  <2>1. nacks' = nacks /\ (crashes' = crashes \/ crashes' = crashes + 1)
    BY <1>7 DEF ConsumerNext, StartFetch, StartAck, Settle, SettleRefused,
       CallTimesOut, ConsumerCrash
  <2>2. b <= bb
    BY <1>4, <1>5, <2>1
  <2>3. \/ UNCHANGED <<pc, hand>>
        \/ \E h \in Handlers :
             /\ pc'[h] \in {"pop", "ackRange"}
             /\ \A g \in Handlers \ {h} : pc'[g] = pc[g] /\ hand'[g] = hand[g]
    BY <1>7, <1>t DEF ConsumerNext, StartFetch, StartAck, Settle, SettleRefused,
       CallTimesOut, ConsumerCrash
  <2>4. Carriers(m)' \subseteq Carriers(m)
    BY <2>3 DEF Carriers
  <2>5. cc <= c
    BY <1>0, <1>1, <2>4, Fewer DEF Counted
  <2>6. qq + ee + cc + zz <= bb
    BY <1>0, <1>1, <1>3, <2>2, <2>5
  <2> QED BY <1>1, <2>6
<1> QED BY <1>6, <1>7

(* The checker moves a scanned entry to its own hands or to the DLQ and    *)
(* from there to the list.  A ZREM of its that fails leaves the entry      *)
(* behind: a counted fault, or the spare copy of a service that closes.    *)
LEMMA CheckerLight ==
  ASSUME Base, Counted, Counted', NEW m \in Msgs, Light(m), CheckerNext
  PROVE  Light(m)'
<1> USE DEF redisVars, svcVars, hdlVars, chkVars, cliVars, hisVars, budVars
<1>0. PICK q, e, c, z, b \in Nat :
        /\ q = Occurrences(m, queue) /\ e = Cardinality(Entered(m))
        /\ c = Cardinality(Carriers(m)) /\ z = Elsewhere(m) /\ b = Budget(m)
        /\ q + e + c + z <= b
  BY Before
<1>1. PICK qq, ee, cc, zz, bb \in Nat :
        /\ qq = Occurrences(m, queue)' /\ ee = Cardinality(Entered(m)')
        /\ cc = Cardinality(Carriers(m)') /\ zz = Elsewhere(m)' /\ bb = Budget(m)'
        /\ qq + ee + cc + zz <= bb => Light(m)'
  BY After
<1>t. /\ queue \in Seq(Msgs) /\ dlq \in Seq(Msgs) /\ faults \in Nat
      /\ svc \in {"up", "draining", "closing", "down"} /\ chkSnap \in SUBSET Entries
  BY BoundAssumption DEF Base, TypeOK
<1>d. PICK d \in Nat : d = Occurrences(m, dlq)
  BY <1>t, OccurrencesType
<1>2. UNCHANGED <<pc, hand, svc, published, crashes, nacks>>
  BY DEF CheckerNext, CheckerScan, CheckerRequeue, CheckerRequeueError, CheckerDone,
     CheckerDeadLetter, CheckerRemove
<1>3. cc = c
  BY <1>0, <1>1, <1>2 DEF Carriers
<1>4. faults' = faults \/ faults' = faults + 1
  BY DEF CheckerNext, CheckerScan, CheckerRequeue, CheckerRequeueError, CheckerDone,
     CheckerDeadLetter, CheckerRemove, CheckerZRem, RedisError
<1>5. /\ faults' = faults => bb = b
      /\ faults' = faults + 1 => bb = b + 1
  <2>1. PICK p \in Nat, f \in Nat, k \in Nat, n \in Nat :
          /\ p = (IF m \in published THEN 1 ELSE 0) /\ f = faults /\ k = crashes /\ n = nacks
    BY BoundAssumption DEF Base, TypeOK
  <2>2. b = p + f + k + n /\ bb = p + faults' + k + n
    BY <1>0, <1>1, <1>2, <2>1 DEF Budget
  <2> QED BY <2>1, <2>2
<1>6. b <= bb
  BY <1>4, <1>5
<1>7. CASE CheckerScan \/ CheckerDone \/ CheckerRequeueError
  <2>1. UNCHANGED <<queue, pel, dlq>> /\ chkSnap' \subseteq pel \cup chkSnap /\ chkPc' # "push"
    BY <1>7 DEF CheckerScan, CheckerDone, CheckerRequeueError
  <2>2. Entered(m)' \subseteq Entered(m)
    BY <2>1 DEF Entered
  <2>3. ee <= e
    BY <1>0, <1>1, <2>2, Fewer DEF Counted
  <2>4. Pushing(m)' = 0 /\ Pushing(m) \in {0, 1}
    BY <2>1 DEF Pushing
  <2>5. zz <= z
    BY <1>0, <1>1, <1>2, <1>d, <2>1, <2>4 DEF Elsewhere
  <2>6. qq + ee + cc + zz <= bb
    BY <1>0, <1>1, <1>3, <1>6, <2>1, <2>3, <2>5
  <2> QED BY <1>1, <2>6
<1>8. CASE CheckerRequeue
  <2>1. /\ queue' = <<chkMsg>> \o queue /\ UNCHANGED <<pel, chkSnap, dlq>>
        /\ chkMsg \in Msgs /\ chkPc = "push" /\ chkPc' = "scan"
        /\ svc \in {"up", "draining"}
    BY <1>8 DEF CheckerRequeue, RequeueMessage, RPush, Connected, Base, ThreadInv
  <2>2. ee = e
    BY <1>0, <1>1, <2>1 DEF Entered
  <2>3. Occurrences(m, <<chkMsg>> \o queue)
          = Occurrences(m, queue) + (IF m = chkMsg THEN 1 ELSE 0)
    BY <1>t, <2>1, OccurrencesFront
  <2>4. Occurrences(m, queue)' = Occurrences(m, <<chkMsg>> \o queue)
    BY <2>1
  <2>5. qq = q + (IF m = chkMsg THEN 1 ELSE 0)
    BY <1>0, <1>1, <2>3, <2>4
  <2>6. Pushing(m) = (IF m = chkMsg THEN 1 ELSE 0) /\ Pushing(m)' = 0
    BY <2>1 DEF Pushing
  <2>7. z = zz + (IF m = chkMsg THEN 1 ELSE 0)
    <3>1. z = (IF svc = "draining" THEN 1 ELSE 0) + (IF m = chkMsg THEN 1 ELSE 0) + d
      BY <1>0, <1>d, <2>1, <2>6 DEF Elsewhere
    <3>2. zz = (IF svc = "draining" THEN 1 ELSE 0) + 0 + d
      BY <1>1, <1>2, <1>d, <2>1, <2>6 DEF Elsewhere
    <3> QED BY <1>d, <3>1, <3>2
  <2>8. qq + ee + cc + zz <= bb
    BY <1>0, <1>1, <1>3, <1>6, <2>2, <2>5, <2>7
  <2> QED BY <1>1, <2>8
<1>9. ASSUME NEW x \in chkSnap, CheckerDeadLetter(x) \/ CheckerRemove(x) PROVE Light(m)'
  <2>1. /\ UNCHANGED queue /\ chkPc = "scan" /\ chkSnap' = chkSnap \ {x} /\ CheckerZRem(x)
        /\ x.msg \in Msgs
    BY <1>9, <1>t DEF CheckerDeadLetter, CheckerRemove, Entries
  <2>2. pel' \subseteq pel
    BY <2>1 DEF CheckerZRem, ZRem
  <2>3. Entered(m)' \subseteq Entered(m)
    BY <2>1, <2>2 DEF Entered
  <2>4. ee <= e
    BY <1>0, <1>1, <2>3, Fewer DEF Counted
  <2>5. Occurrences(m, dlq)' + Pushing(m)' = d + (IF m = x.msg THEN 1 ELSE 0) /\ Pushing(m) = 0
    <3>1. Pushing(m) = 0
      BY <2>1 DEF Pushing
    <3>2. CASE CheckerDeadLetter(x)
      <4>1. dlq' = Append(dlq, x.msg) /\ chkPc' = "scan"
        BY <2>1, <3>2 DEF CheckerDeadLetter
      <4>2. Occurrences(m, Append(dlq, x.msg)) = Occurrences(m, dlq) + (IF m = x.msg THEN 1 ELSE 0)
        BY <1>t, <2>1, OccurrencesAppend
      <4>3. Occurrences(m, dlq)' = d + (IF m = x.msg THEN 1 ELSE 0)
        BY <1>d, <4>1, <4>2
      <4>4. Pushing(m)' = 0
        BY <4>1 DEF Pushing
      <4> QED BY <3>1, <4>3, <4>4
    <3>3. CASE CheckerRemove(x)
      <4>1. dlq' = dlq /\ chkPc' = "push" /\ chkMsg' = x.msg
        BY <3>3 DEF CheckerRemove
      <4>2. Pushing(m)' = (IF m = x.msg THEN 1 ELSE 0)
        BY <4>1 DEF Pushing
      <4> QED BY <1>d, <3>1, <4>1, <4>2
    <3> QED BY <1>9, <3>2, <3>3
  <2>6. CASE svc = "closing"
    <3>1. zz = z
      BY <1>0, <1>1, <1>2, <2>6 DEF Elsewhere
    <3>2. qq + ee + cc + zz <= bb
      BY <1>0, <1>1, <1>3, <1>6, <2>1, <2>4, <3>1
    <3> QED BY <1>1, <3>2
  <2>7. CASE svc # "closing"
    <3>1. zz = z + (IF m = x.msg THEN 1 ELSE 0)
      <4>1. PICK o \in Nat, g \in Nat : o = Occurrences(m, dlq)' /\ g = Pushing(m)'
        <5>1. (dlq \in Seq(Msgs))'
          BY <1>9, <1>t, <2>1 DEF CheckerDeadLetter, CheckerRemove
        <5>2. Occurrences(m, dlq') \in Nat
          BY <5>1, OccurrencesType
        <5> QED BY <5>2 DEF Pushing
      <4>2. z = (IF svc = "draining" THEN 1 ELSE 0) + 0 + d
        BY <1>0, <1>d, <2>5, <2>7 DEF Elsewhere
      <4>3. zz = (IF svc = "draining" THEN 1 ELSE 0) + g + o
        BY <1>1, <1>2, <2>7, <4>1 DEF Elsewhere
      <4> QED BY <1>d, <2>5, <4>1, <4>2, <4>3
    <3>2. CASE m # x.msg
      <4>1. qq + ee + cc + zz <= bb
        BY <1>0, <1>1, <1>3, <1>6, <2>1, <2>4, <3>1, <3>2
      <4> QED BY <1>1, <4>1
    <3>3. CASE m = x.msg /\ pel' = pel \ {x}
      <4>1. x \in Entered(m) /\ Entered(m)' \subseteq Entered(m) \ {x}
        BY <2>1, <3>3 DEF Entered
      <4>2. ee + 1 <= e
        BY <1>0, <1>1, <4>1, OneLess DEF Counted
      <4>3. qq + ee + cc + zz <= bb
        BY <1>0, <1>1, <1>3, <1>6, <2>1, <3>1, <3>3, <4>2
      <4> QED BY <1>1, <4>3
    <3>4. CASE m = x.msg /\ faults' = faults + 1
      <4>1. qq + ee + cc + zz <= bb
        BY <1>0, <1>1, <1>3, <1>5, <2>1, <2>4, <3>1, <3>4
      <4> QED BY <1>1, <4>1
    <3>5. pel' = pel \ {x} \/ faults' = faults + 1
      BY <2>1, <2>7 DEF CheckerZRem, ZRem, RedisError
    <3> QED BY <3>2, <3>3, <3>4, <3>5
  <2> QED BY <2>6, <2>7
<1> QED BY <1>7, <1>8, <1>9 DEF CheckerNext

(* A stop of the service makes room for one copy; what was in memory goes. *)
LEMMA ProcessLight ==
  ASSUME Base, Counted, Counted', NEW m \in Msgs, Light(m), ProcessNext
  PROVE  Light(m)'
<1> USE DEF redisVars, svcVars, hdlVars, chkVars, cliVars, hisVars, budVars
<1>0. PICK q, e, c, z, b \in Nat :
        /\ q = Occurrences(m, queue) /\ e = Cardinality(Entered(m))
        /\ c = Cardinality(Carriers(m)) /\ z = Elsewhere(m) /\ b = Budget(m)
        /\ q + e + c + z <= b
  BY Before
<1>1. PICK qq, ee, cc, zz, bb \in Nat :
        /\ qq = Occurrences(m, queue)' /\ ee = Cardinality(Entered(m)')
        /\ cc = Cardinality(Carriers(m)') /\ zz = Elsewhere(m)' /\ bb = Budget(m)'
        /\ qq + ee + cc + zz <= bb => Light(m)'
  BY After
<1>t. dlq \in Seq(Msgs)
  BY DEF Base, TypeOK
<1>d. PICK d \in Nat : d = Occurrences(m, dlq)
  BY <1>t, OccurrencesType
<1>g. PICK g \in Nat : g = Pushing(m)
  BY DEF Pushing
<1>2. /\ UNCHANGED <<queue, pel, published, faults, nacks>>
      /\ crashes' = crashes \/ crashes' = crashes + 1
  BY DEF ProcessNext, Shutdown, Close, Exit, Crash, ProcessGone, Restart
<1>3. /\ crashes' = crashes => bb = b
      /\ crashes' = crashes + 1 => bb = b + 1
  <2>1. PICK p \in Nat, f \in Nat, k \in Nat, n \in Nat :
          /\ p = (IF m \in published THEN 1 ELSE 0) /\ f = faults /\ k = crashes /\ n = nacks
    BY BoundAssumption DEF Base, TypeOK
  <2>2. b = p + f + k + n /\ bb = p + f + crashes' + n
    BY <1>0, <1>1, <1>2, <2>1 DEF Budget
  <2> QED BY <2>1, <2>2
<1>4. CASE Shutdown
  <2>1. /\ svc = "up" /\ svc' = "draining" /\ crashes' = crashes + 1
        /\ UNCHANGED <<chkSnap, pc, hand, chkPc, chkMsg, dlq>>
    BY <1>4 DEF Shutdown
  <2>2. ee = e /\ cc = c
    BY <1>0, <1>1, <1>2, <2>1 DEF Entered, Carriers
  <2>3. z = 0 + g + d
    BY <1>0, <1>d, <1>g, <2>1 DEF Elsewhere
  <2>4. zz = 1 + g + d
    BY <1>1, <1>d, <1>g, <2>1 DEF Elsewhere, Pushing
  <2>5. qq + ee + cc + zz <= bb
    BY <1>0, <1>1, <1>2, <1>3, <1>d, <1>g, <2>1, <2>2, <2>3, <2>4
  <2> QED BY <1>1, <2>5
<1>5. CASE Close
  <2>1. /\ svc = "draining" /\ svc' = "closing" /\ crashes' = crashes
        /\ UNCHANGED <<chkSnap, pc, hand>>
    BY <1>5 DEF Close
  <2>2. ee = e /\ cc = c
    BY <1>0, <1>1, <1>2, <2>1 DEF Entered, Carriers
  <2>3. z = 1 + g + d
    BY <1>0, <1>d, <1>g, <2>1 DEF Elsewhere
  <2>4. zz = 1
    BY <1>1, <2>1 DEF Elsewhere
  <2>5. qq + ee + cc + zz <= bb
    BY <1>0, <1>1, <1>2, <1>3, <1>d, <1>g, <2>1, <2>2, <2>3, <2>4
  <2> QED BY <1>1, <2>5
<1>6. CASE Exit \/ Crash
  <2>1. /\ svc' = "down" /\ dlq' = <<>> /\ chkSnap' = {} /\ chkPc' = "idle"
        /\ pc' = [h \in Handlers |-> "idle"]
    BY <1>6 DEF Exit, Crash, ProcessGone
  <2>2. Entered(m)' \subseteq Entered(m) /\ Carriers(m)' \subseteq Carriers(m)
    BY <1>2, <2>1 DEF Entered, Carriers
  <2>3. ee <= e /\ cc <= c
    BY <1>0, <1>1, <2>2, Fewer DEF Counted
  <2>4. Occurrences(m, dlq)' = 0
    <3>1. <<>> \in Seq(Msgs) /\ ~In(m, <<>>)
      BY DEF In
    <3>2. Occurrences(m, <<>>) = 0
      BY <3>1, NoOccurrence
    <3> QED BY <2>1, <3>2
  <2>5. zz = 0
    BY <1>1, <2>1, <2>4 DEF Elsewhere, Pushing
  <2>6. qq + ee + cc + zz <= bb
    BY <1>0, <1>1, <1>2, <1>3, <2>3, <2>5
  <2> QED BY <1>1, <2>6
<1>7. CASE Restart
  <2>1. /\ svc = "down" /\ svc' = "up" /\ crashes' = crashes
        /\ UNCHANGED <<chkSnap, pc, hand, chkPc, chkMsg, dlq>>
    BY <1>7 DEF Restart
  <2>2. ee = e /\ cc = c
    BY <1>0, <1>1, <1>2, <2>1 DEF Entered, Carriers
  <2>3. zz = z
    BY <1>0, <1>1, <2>1 DEF Elsewhere, Pushing
  <2>4. qq + ee + cc + zz <= bb
    BY <1>0, <1>1, <1>2, <1>3, <2>1, <2>2, <2>3
  <2> QED BY <1>1, <2>4
<1> QED BY <1>4, <1>5, <1>6, <1>7 DEF ProcessNext

(* No step makes a message too heavy.                                      *)
LEMMA StepLight ==
  ASSUME Base, ServedInv, Counted, Counted', \A m \in Msgs : Light(m), [Next]_vars
  PROVE  \A m \in Msgs : Light(m)'
<1> TAKE m \in Msgs
<1>0. Light(m)
  OBVIOUS
<1>1. ASSUME NEW n \in Msgs, Publish(n) PROVE Light(m)'
  BY <1>0, <1>1, PublishLight
<1>2. CASE ConsumerNext
  BY <1>0, <1>2, ConsumerLight
<1>3. CASE HandlerNext
  BY <1>0, <1>3, HandlerLight
<1>4. CASE CheckerNext
  BY <1>0, <1>4, CheckerLight
<1>5. CASE ProcessNext
  BY <1>0, <1>5, ProcessLight
<1>6. ASSUME (\E x \in pel : Expire(x)) \/ UNCHANGED vars PROVE Light(m)'
  <2>1. UNCHANGED <<queue, pel, chkSnap, pc, hand, svc, chkPc, chkMsg, dlq, published,
                    faults, crashes, nacks>>
    BY <1>6 DEF Expire, vars, redisVars, svcVars, hdlVars, chkVars, cliVars, hisVars, budVars
  <2> QED BY <1>0, <2>1 DEF Light, Weight, Entered, Carriers, Elsewhere, Pushing, Budget
<1> QED BY <1>1, <1>2, <1>3, <1>4, <1>5, <1>6 DEF Next

(* The service starts with no copy of anything.                            *)
LEMMA InitLight == Init => ServedInv /\ \A m \in Msgs : Light(m)
<1> SUFFICES ASSUME Init PROVE ServedInv /\ \A m \in Msgs : Light(m)
  OBVIOUS
<1>1. ServedInv
  BY FS_EmptySet DEF Init, ServedInv
<1>2. ASSUME NEW m \in Msgs PROVE Light(m)
  <2>1. <<>> \in Seq(Msgs) /\ ~In(m, <<>>)
    BY DEF In
  <2>2. Occurrences(m, queue) = 0 /\ Occurrences(m, dlq) = 0
    BY <2>1, NoOccurrence DEF Init
  <2>3. Entered(m) = {} /\ Carriers(m) = {} /\ Pushing(m) = 0
    BY DEF Init, Entered, Carriers, Pushing
  <2>4. Cardinality(Entered(m)) = 0 /\ Cardinality(Carriers(m)) = 0
    BY <2>3, FS_EmptySet
  <2>5. Elsewhere(m) = 0 /\ Budget(m) = 0
    BY <2>2, <2>3 DEF Init, Elsewhere, Budget
  <2> QED BY <2>2, <2>4, <2>5 DEF Light, Weight
<1> QED BY <1>1, <1>2

(* Every message stays within its budget.                                  *)
LEMMA AlwaysLight == Spec => [](Base /\ ServedInv /\ Counted /\ \A m \in Msgs : Light(m))
<1> DEFINE L == \A m \in Msgs : Light(m)
<1>1. Base /\ ServedInv /\ Counted /\ Counted' /\ L /\ [Next]_vars => L'
  BY StepLight
<1>2. Init => ServedInv /\ L
  BY InitLight
<1> HIDE DEF L
<1>3. Spec => [](Base /\ ServedInv /\ Counted /\ L)
  BY <1>1, <1>2, InitBase, StepBase, StepServed, CountedOK, PTL DEF Spec
<1> QED BY <1>3 DEF L

(* What can still be delivered is part of what is weighed.                 *)
LEMMA CopiesWeighed ==
  ASSUME Base, Counted, NEW m \in Msgs, Light(m)
  PROVE  Copies(m) <= 1 + faults + crashes + nacks
<1>0. PICK q, e, c, z, b \in Nat :
        /\ q = Occurrences(m, queue) /\ e = Cardinality(Entered(m))
        /\ c = Cardinality(Carriers(m)) /\ z = Elsewhere(m) /\ b = Budget(m)
        /\ q + e + c + z <= b
  BY Before
<1> DEFINE P == {x \in pel : x.msg = m}
           H == {h \in Handlers : Holds(h, m)}
<1>1. P \subseteq Entered(m) /\ H \subseteq Carriers(m)
  BY DEF Entered, Carriers, Holds
<1>2. IsFiniteSet(P) /\ IsFiniteSet(H)
  BY <1>1, FS_Subset DEF Counted
<1>3. Cardinality(P) <= e /\ Cardinality(H) <= c
  BY <1>0, <1>1, Fewer DEF Counted
<1>4. PICK k \in Nat, j \in Nat : k = Cardinality(P) /\ j = Cardinality(H)
  BY <1>2, FS_CardinalityType
<1>5. PICK g \in Nat, d \in Nat : g = Pushing(m) /\ g <= 1 /\ d = Occurrences(m, dlq)
  <2>1. dlq \in Seq(Msgs)
    BY DEF Base, TypeOK
  <2>2. Occurrences(m, dlq) \in Nat
    BY <2>1, OccurrencesType
  <2> QED BY <2>2 DEF Pushing
<1>6. g <= z
  <2>1. CASE svc = "closing"
    BY <1>0, <1>5, <2>1 DEF Elsewhere
  <2>2. CASE svc # "closing"
    <3>1. z = (IF svc = "draining" THEN 1 ELSE 0) + g + d
      BY <1>0, <1>5, <2>2 DEF Elsewhere
    <3> QED BY <1>5, <3>1
  <2> QED BY <2>1, <2>2
<1>7. Copies(m) = q + k + j + g
  BY <1>0, <1>4, <1>5 DEF Copies, Pushing
<1>8. b <= 1 + faults + crashes + nacks
  <2>1. PICK f \in Nat, r \in Nat, n \in Nat : f = faults /\ r = crashes /\ n = nacks
    BY BoundAssumption DEF Base, TypeOK
  <2> QED BY <1>0, <2>1 DEF Budget
<1>9. q + k + j + g <= b
  BY <1>0, <1>3, <1>4, <1>5, <1>6
<1>10. faults \in Nat /\ crashes \in Nat /\ nacks \in Nat
  BY BoundAssumption DEF Base, TypeOK
<1> QED BY <1>0, <1>4, <1>5, <1>7, <1>8, <1>9, <1>10

(* Redelivery moves messages and does not multiply them: timeouts, stale   *)
(* scans and late Acks leave one copy; each Redis error, stop of the       *)
(* service or Nack adds at most one, for any number of them.               *)
THEOREM RedeliveryMoves == Spec => []CopiesBounded
<1>1. Base /\ Counted /\ (\A m \in Msgs : Light(m)) => CopiesBounded
  BY CopiesWeighed DEF CopiesBounded
<1> DEFINE L == \A m \in Msgs : Light(m)
<1>2. Base /\ Counted /\ L => CopiesBounded
  BY <1>1
<1>3. Spec => [](Base /\ ServedInv /\ Counted /\ L)
  BY AlwaysLight
<1> HIDE DEF L
<1> QED BY <1>2, <1>3, PTL

(* With nothing failing and nothing nacked, a dead-lettered message has    *)
(* spent its one copy.                                                     *)
LEMMA DeadIsSpent ==
  ASSUME Base, Counted, NEW m \in Msgs, Light(m), nacks + faults + crashes = 0,
         DeadLettered(m)
  PROVE  ~Live(m)
<1>0. PICK q, e, c, z, b \in Nat :
        /\ q = Occurrences(m, queue) /\ e = Cardinality(Entered(m))
        /\ c = Cardinality(Carriers(m)) /\ z = Elsewhere(m) /\ b = Budget(m)
        /\ q + e + c + z <= b
  BY Before
<1>1. PICK f \in Nat, r \in Nat, n \in Nat : f = faults /\ r = crashes /\ n = nacks
  BY BoundAssumption DEF Base, TypeOK
<1>2. f = 0 /\ r = 0 /\ n = 0
  BY <1>1
<1>3. svc = "up" /\ b <= 1
  <2>1. svc = "up"
    BY <1>1, <1>2 DEF Base, StopCounted
  <2>2. b = (IF m \in published THEN 1 ELSE 0) + f + r + n
    BY <1>0, <1>1 DEF Budget
  <2> QED BY <1>2, <2>1, <2>2
<1>4. PICK g \in Nat, d \in Nat : g = Pushing(m) /\ d = Occurrences(m, dlq)
  <2>1. dlq \in Seq(Msgs)
    BY DEF Base, TypeOK
  <2>2. Occurrences(m, dlq) \in Nat
    BY <2>1, OccurrencesType
  <2> QED BY <2>2 DEF Pushing
<1>5. d >= 1
  BY <1>4, SomeOccurrence DEF Base, TypeOK, DeadLettered
<1>6. z = 0 + g + d
  BY <1>0, <1>3, <1>4 DEF Elsewhere
<1>7. q = 0 /\ e = 0 /\ c = 0 /\ g = 0
  BY <1>0, <1>3, <1>4, <1>5, <1>6
<1>8. ~Queued(m)
  <2>1. SUFFICES ASSUME In(m, queue) PROVE FALSE
    BY DEF Queued
  <2>2. Occurrences(m, queue) >= 1
    BY <2>1, SomeOccurrence DEF Base, TypeOK
  <2> QED BY <1>0, <1>7, <2>2
<1>9. Entered(m) = {} /\ Carriers(m) = {}
  BY <1>0, <1>7, FS_EmptySet DEF Counted
<1>10. ~Pending(m)
  BY <1>9 DEF Entered, Pending
<1>11. ~InHand(m)
  BY <1>4, <1>7, <1>9 DEF InHand, Holds, Carriers, Pushing
<1> QED BY <1>8, <1>10, <1>11 DEF Live

(* A dead letter is final: without a Nack, a Redis error or a stop, no     *)
(* copy of a dead-lettered message is left to deliver, however stale the   *)
(* scan it was taken from.                                                 *)
THEOREM DeadLettersStayDead == Spec => []DeadLetterIsFinal
<1> DEFINE L == \A m \in Msgs : Light(m)
<1>1. Base /\ Counted /\ L => DeadLetterIsFinal
  BY DeadIsSpent DEF DeadLetterIsFinal
<1>2. Spec => [](Base /\ ServedInv /\ Counted /\ L)
  BY AlwaysLight
<1> HIDE DEF L
<1> QED BY <1>1, <1>2, PTL

-----------------------------------------------------------------------------
(* An acknowledged message does not come back, if no Redis command fails   *)
(* and its own entry did not expire while somebody could still settle it.  *)
(*                                                                         *)
(* Such a message is in one place: in the list, in one entry of the PEL,   *)
(* in the hand of one thread.  And there is one ticket for it at most, a   *)
(* right to settle it: with a consumer, in the answer to one, or with a    *)
(* handler that settles.  A ticket means that the entry has not expired.   *)
(* Nothing is said about the other messages, which may be anywhere twice.  *)

Fine == Msgs \ overdue

Settles(h, m) == pc[h] \in {"ackRange", "ackRem", "nackRange", "nackRem"} /\ hand[h] = m

Ticket(m) == \/ \E c \in Consumers : In(m, inbox[c])
             \/ \E h \in Handlers : Settles(h, m) \/ In(m, got[h])

(* With the checker; what it holds while q.ctx is gone gets no further.    *)
Requeued(m) == chkPc = "push" /\ chkMsg = m
Pushed(m)   == Requeued(m) /\ svc # "closing"

HeldBy(m) == \E h \in Handlers : Holds(h, m)

InOnePlace(m) ==
    /\ \A e, f \in pel : e.msg = m /\ f.msg = m => e = f
    /\ \A g, h \in Handlers : Holds(g, m) /\ Holds(h, m) => g = h
    /\ Queued(m) => ~Pending(m) /\ ~Pushed(m) /\ ~HeldBy(m)
    /\ Pending(m) => ~Pushed(m) /\ ~HeldBy(m)
    /\ Pushed(m) => ~HeldBy(m)

OneTicket(m) ==
    /\ \A c, d \in Consumers : In(m, inbox[c]) /\ In(m, inbox[d]) => c = d
    /\ \A g, h \in Handlers :
         /\ In(m, got[g]) /\ In(m, got[h]) => g = h
         /\ Settles(g, m) /\ Settles(h, m) => g = h
         /\ ~(In(m, got[g]) /\ Settles(h, m))
    /\ \A c \in Consumers, h \in Handlers :
         In(m, inbox[c]) => ~In(m, got[h]) /\ ~Settles(h, m)
    /\ Ticket(m) => /\ ~Queued(m) /\ ~Pushed(m) /\ ~HeldBy(m)
                    /\ \A e \in pel : e.msg = m => e.stamp \notin expired

Forgotten(m) == ~Queued(m) /\ ~Pending(m) /\ ~HeldBy(m) /\ ~Requeued(m) /\ ~Ticket(m)

One(m) == InOnePlace(m) /\ OneTicket(m) /\ (m \in acked => Forgotten(m))

(* No list has such a message twice; entries are told apart by their       *)
(* stamps, the ones threads remember too; what Ack and Nack picked and     *)
(* what the checker has still to look at is in the PEL; a handler has one  *)
(* caller.                                                                 *)
ListsOnce ==
    /\ NoRepeats(Fine, queue)
    /\ \A c \in Consumers : NoRepeats(Fine, inbox[c])
    /\ \A h \in Handlers : NoRepeats(Fine, got[h])
StampedOnce ==
    /\ \A e \in pel, f \in pel \cup chkSnap : e.stamp = f.stamp => e = f
    /\ \A e \in pel, h \in Handlers :
         ent[h] # None /\ ent[h].stamp = e.stamp => ent[h] = e
Picked == \A h \in Handlers :
            pc[h] \in {"ackRem", "nackRem"} /\ hand[h] \in Fine => ent[h] \in pel
Scanned == \A e \in chkSnap : e.msg \in Fine => e \in pel /\ e.stamp \in expired
Called == \A c, d \in Consumers :
            call[c] # None => pc[call[c]] # "idle" /\ (call[c] = call[d] => c = d)

Sole == /\ \A m \in Fine : One(m)
        /\ ListsOnce /\ StampedOnce /\ Picked /\ Scanned /\ Called

(* Threads only come to remember entries of the PEL.                       *)
LEMMA StampsKept ==
  ASSUME StampedOnce, \A e \in pel' : e \in pel,
         \A e \in chkSnap' : e \in chkSnap \/ e \in pel,
         \A h \in Handlers : ent'[h] = ent[h] \/ ent'[h] = None \/ ent'[h] \in pel
  PROVE  StampedOnce'
BY DEF StampedOnce

(* A message that gains no place and no ticket.                            *)
LEMMA Untouched ==
  ASSUME NEW n \in Msgs, One(n),
         Queued(n)' => Queued(n), Requeued(n)' => Requeued(n), Pushed(n)' => Pushed(n),
         \A h \in Handlers : /\ Holds(h, n)' => Holds(h, n)
                             /\ Settles(h, n)' => Settles(h, n)
                             /\ In(n, got'[h]) => In(n, got[h]),
         \A c \in Consumers : In(n, inbox'[c]) => In(n, inbox[c]),
         \A e \in pel' : e.msg = n =>
             e \in pel /\ (e.stamp \in expired' => e.stamp \in expired \/ ~Ticket(n)),
         n \in acked' => n \in acked
  PROVE  One(n)'
<1>1. HeldBy(n)' => HeldBy(n)
  BY DEF HeldBy
<1>2. Pending(n)' => Pending(n)
  BY DEF Pending
<1>3. Ticket(n)' => Ticket(n)
  BY DEF Ticket
<1>4. InOnePlace(n)'
  BY <1>1, <1>2 DEF One, InOnePlace
<1>5. OneTicket(n)'
  BY <1>1, <1>3 DEF One, OneTicket
<1> QED BY <1>1, <1>2, <1>3, <1>4, <1>5 DEF One, Forgotten

(* A Redis error that is not counted comes from q.ctx, when no handler is  *)
(* left.                                                                   *)
LEMMA ErrorCloses ==
  ASSUME Base, ServedInv, RedisError, faults = 0, faults' = 0
  PROVE  svc = "closing" /\ \A h \in Handlers : pc[h] = "idle"
<1>1. svc = "closing"
  BY DEF RedisError
<1> QED BY <1>1 DEF ServedInv

(* A handler that returns gives up what it has, and its caller with it.    *)
LEMMA ReturnGives ==
  ASSUME Base, Sole, NEW h \in Handlers, Return(h), UNCHANGED overdue
  PROVE  /\ \A g \in Handlers, n \in Msgs :
              /\ Holds(g, n)' <=> Holds(g, n) /\ g # h
              /\ Settles(g, n)' <=> Settles(g, n) /\ g # h
              /\ In(n, got'[g]) <=> In(n, got[g]) /\ g # h
         /\ \A g \in Handlers : NoRepeats(Fine, got'[g])
         /\ Answer(h) => Called'
         /\ (\A e \in pel : e \in pel' \/ \A g \in Handlers : g # h => ent[g] # e) => Picked'
         /\ (\A e \in pel' : e \in pel) /\ (\A e \in chkSnap' : e \in chkSnap) => StampedOnce'
<1> Fine' = Fine
  BY DEF Fine
<1>t. /\ pc \in [Handlers -> PCs] /\ hand \in [Handlers -> Msgs \cup {None}]
      /\ got \in [Handlers -> Seq(Msgs)] /\ ent \in [Handlers -> Entries \cup {None}]
      /\ call \in [Consumers -> Handlers \cup {None}]
  BY DEF Base, TypeOK
<1>1. /\ pc'[h] = "idle" /\ got'[h] = <<>> /\ ent'[h] = None
      /\ \A g \in Handlers : g # h => pc'[g] = pc[g] /\ hand'[g] = hand[g] /\ got'[g] = got[g]
                                      /\ ent'[g] = ent[g]
  BY <1>t DEF Return
<1>2. ASSUME NEW g \in Handlers, NEW n \in Msgs
      PROVE  /\ Holds(g, n)' <=> Holds(g, n) /\ g # h
             /\ Settles(g, n)' <=> Settles(g, n) /\ g # h
             /\ In(n, got'[g]) <=> In(n, got[g]) /\ g # h
  BY <1>1, NoRepeatsEmpty DEF Holds, Settles
<1>3. \A g \in Handlers : NoRepeats(Fine, got'[g])
  BY <1>1, NoRepeatsEmpty DEF Sole, ListsOnce
<1>4. ASSUME Answer(h) PROVE Called'
  <2>1. \A c \in Consumers : call'[c] = IF call[c] = h THEN None ELSE call[c]
    BY <1>4 DEF Answer
  <2>2. \A c \in Consumers : call'[c] # None =>
           call'[c] = call[c] /\ call[c] \in Handlers /\ call[c] # h
    BY <1>t, <2>1
  <2> QED BY <1>1, <2>2 DEF Sole, Called
<1>5. ASSUME \A e \in pel : e \in pel' \/ \A g \in Handlers : g # h => ent[g] # e
      PROVE  Picked'
  BY <1>1, <1>5 DEF Sole, Picked
<1>6. ASSUME \A e \in pel' : e \in pel, \A e \in chkSnap' : e \in chkSnap
      PROVE  StampedOnce'
  BY <1>1, <1>6, StampsKept DEF Sole
<1> QED BY <1>2, <1>3, <1>4, <1>5, <1>6

(* A consumer's call moves one ticket from its batch to a handler, or      *)
(* gives tickets up.                                                       *)
LEMMA ConsumerSole == Base /\ Sole /\ ConsumerNext => Sole'
<1> SUFFICES ASSUME Base, Sole, ConsumerNext PROVE Sole'
  OBVIOUS
<1> PICK c \in Consumers :
      \/ \E h \in Handlers : StartFetch(c, h) \/ StartAck(c, h) \/ StartNack(c, h)
      \/ SettleRefused(c) \/ CallTimesOut(c) \/ ConsumerCrash(c)
  BY DEF ConsumerNext
<1> USE DEF redisVars, svcVars, hdlVars, chkVars, cliVars, hisVars, budVars
<1> Fine' = Fine /\ \A n \in Fine : n \in Msgs
  BY DEF Fine, StartFetch, StartAck, StartNack, Settle, SettleRefused, CallTimesOut, ConsumerCrash
<1>t. /\ inbox \in [Consumers -> Seq(Msgs)] /\ pc \in [Handlers -> PCs]
      /\ hand \in [Handlers -> Msgs \cup {None}]
      /\ call \in [Consumers -> Handlers \cup {None}]
  BY DEF Base, TypeOK
<1>1. /\ UNCHANGED <<queue, pel, expired, svc, ent, got, chkPc, chkSnap, chkMsg, acked, overdue>>
      /\ StampedOnce' /\ Scanned'
  <2>1. UNCHANGED <<queue, pel, expired, svc, ent, got, chkPc, chkSnap, chkMsg, acked, overdue>>
    BY DEF StartFetch, StartAck, StartNack, Settle, SettleRefused, CallTimesOut, ConsumerCrash
  <2> QED BY <2>1 DEF Sole, StampedOnce, Scanned
<1>2. \A n \in Msgs : /\ Queued(n)' <=> Queued(n)
                      /\ Requeued(n)' <=> Requeued(n)
                      /\ Pushed(n)' <=> Pushed(n)
                      /\ Pending(n)' <=> Pending(n)
  BY <1>1 DEF Queued, Requeued, Pushed, Pending
<1>3. ASSUME NEW h \in Handlers, StartFetch(c, h) PROVE Sole'
  <2>1. /\ UNCHANGED <<hand, inbox>> /\ pc[h] = "idle" /\ pc'[h] = "pop"
        /\ \A g \in Handlers : g # h => pc'[g] = pc[g]
    BY <1>3, <1>t DEF StartFetch
  <2>2. \A g \in Handlers, n \in Msgs : (Holds(g, n)' => Holds(g, n)) /\ (Settles(g, n)' => Settles(g, n))
    BY <2>1 DEF Holds, Settles
  <2>3. ASSUME NEW n \in Fine PROVE One(n)'
    <3>1. One(n)
      BY DEF Sole
    <3> QED BY <1>1, <1>2, <2>1, <2>2, <3>1, Untouched
  <2>4. Picked'
    BY <1>1, <2>1 DEF Sole, Picked
  <2>5. Called'
    <3>1. \A d \in Consumers : call'[d] = IF d = c THEN h ELSE call[d]
      BY <1>3, <1>t DEF StartFetch
    <3>2. \A d \in Consumers : call[d] # None => call[d] \in Handlers /\ call[d] # h
      BY <1>t, <2>1 DEF Sole, Called
    <3> QED BY <2>1, <3>1, <3>2 DEF Sole, Called
  <2> QED BY <1>1, <2>1, <2>3, <2>4, <2>5 DEF Sole, ListsOnce
<1>4. ASSUME NEW h \in Handlers, StartAck(c, h) \/ StartNack(c, h) PROVE Sole'
  <2>1. PICK first \in {"ackRange", "nackRange"} : Settle(c, h, first)
    BY <1>4 DEF StartAck, StartNack
  <2>2. PICK x \in Msgs : x = Head(inbox[c])
    BY <1>t, <2>1, PopType DEF Settle
  <2>3. /\ inbox[c] # <<>> /\ inbox'[c] = Tail(inbox[c])
        /\ \A d \in Consumers : d # c => inbox'[d] = inbox[d]
        /\ pc[h] = "idle" /\ pc'[h] = first /\ hand'[h] = x
        /\ \A g \in Handlers : g # h => pc'[g] = pc[g] /\ hand'[g] = hand[g]
    BY <1>t, <2>1, <2>2 DEF Settle
  <2>4. /\ NoRepeats(Fine, inbox'[c]) /\ (x \in Fine => ~In(x, inbox'[c])) /\ In(x, inbox[c])
        /\ \A n : In(n, inbox'[c]) => In(n, inbox[c])
    BY <1>t, <2>2, <2>3, NoRepeatsPop, InPopOnly DEF Sole, ListsOnce
  <2>5. \A g \in Handlers, n \in Msgs :
           /\ Holds(g, n)' => Holds(g, n)
           /\ Settles(g, n)' => Settles(g, n) \/ (g = h /\ n = x)
    BY <2>3 DEF Holds, Settles
  <2>6. ASSUME NEW n \in Fine, n # x PROVE One(n)'
    <3>1. One(n)
      BY DEF Sole
    <3>2. \A d \in Consumers : In(n, inbox'[d]) => In(n, inbox[d])
      BY <2>3, <2>4
    <3> QED BY <1>1, <1>2, <2>5, <2>6, <3>1, <3>2, Untouched
  <2>7. ASSUME x \in Fine PROVE One(x)'
    <3>1. One(x)
      BY <2>7 DEF Sole
    <3>2. Ticket(x)
      BY <2>4 DEF Ticket
    <3>3. \A g \in Handlers : ~In(x, got'[g]) /\ (Settles(g, x)' => g = h)
      BY <1>1, <2>4, <2>5, <3>1 DEF One, OneTicket
    <3>4. \A d \in Consumers : ~In(x, inbox'[d])
      BY <2>3, <2>4, <2>7, <3>1 DEF One, OneTicket
    <3>5. HeldBy(x)' => HeldBy(x)
      BY <2>5 DEF HeldBy
    <3>6. InOnePlace(x)'
      BY <1>1, <1>2, <2>5, <3>1, <3>5 DEF One, InOnePlace
    <3>7. OneTicket(x)'
      BY <1>1, <1>2, <3>1, <3>2, <3>3, <3>4, <3>5 DEF One, OneTicket
    <3>8. x \notin acked'
      BY <1>1, <3>1, <3>2 DEF One, Forgotten
    <3> QED BY <3>6, <3>7, <3>8 DEF One
  <2>8. Picked'
    BY <1>1, <2>3 DEF Sole, Picked
  <2>9. Called'
    <3>1. \A d \in Consumers : call'[d] = IF d = c THEN h ELSE call[d]
      BY <1>t, <2>1 DEF Settle
    <3>2. \A d \in Consumers : call[d] # None => call[d] \in Handlers /\ call[d] # h
      BY <1>t, <2>3 DEF Sole, Called
    <3> QED BY <2>3, <3>1, <3>2 DEF Sole, Called
  <2> QED BY <1>1, <2>3, <2>4, <2>6, <2>7, <2>8, <2>9 DEF Sole, ListsOnce
<1>5. CASE SettleRefused(c) \/ CallTimesOut(c) \/ ConsumerCrash(c)
  <2>1. /\ UNCHANGED <<pc, hand>>
        /\ \A d \in Consumers : call'[d] = call[d] \/ call'[d] = None
    BY <1>5, <1>t DEF SettleRefused, CallTimesOut, ConsumerCrash
  <2>2. ASSUME NEW d \in Consumers
        PROVE  NoRepeats(Fine, inbox'[d]) /\ \A n : In(n, inbox'[d]) => In(n, inbox[d])
    <3>1. \/ inbox'[d] = inbox[d] \/ inbox'[d] = <<>>
          \/ inbox[d] # <<>> /\ inbox'[d] = Tail(inbox[d])
      BY <1>5, <1>t DEF SettleRefused, CallTimesOut, ConsumerCrash
    <3>2. CASE inbox'[d] = inbox[d]
      BY <3>2 DEF Sole, ListsOnce
    <3>3. CASE inbox'[d] = <<>>
      BY <3>3, NoRepeatsEmpty
    <3>4. CASE inbox[d] # <<>> /\ inbox'[d] = Tail(inbox[d])
      BY <1>t, <3>4, NoRepeatsPop, InPopOnly DEF Sole, ListsOnce
    <3> QED BY <3>1, <3>2, <3>3, <3>4
  <2>3. \A g \in Handlers, n \in Msgs : (Holds(g, n)' <=> Holds(g, n)) /\ (Settles(g, n)' <=> Settles(g, n))
    BY <2>1 DEF Holds, Settles
  <2>4. ASSUME NEW n \in Fine PROVE One(n)'
    <3>1. One(n)
      BY DEF Sole
    <3> QED BY <1>1, <1>2, <2>2, <2>3, <3>1, Untouched
  <2>5. Picked' /\ Called'
    BY <1>1, <2>1 DEF Sole, Picked, Called
  <2> QED BY <1>1, <2>2, <2>4, <2>5 DEF Sole, ListsOnce
<1> QED BY <1>3, <1>4, <1>5

(* A message that is held has no other place and no ticket.                *)
LEMMA HeldIsSole ==
  ASSUME NEW x \in Msgs, One(x), HeldBy(x)
  PROVE  ~Queued(x) /\ ~Pending(x) /\ ~Pushed(x) /\ ~Ticket(x) /\ x \notin acked
BY DEF One, InOnePlace, OneTicket, Forgotten

(* It goes back to the list.                                               *)
LEMMA BackToList ==
  ASSUME Base, Sole, NEW x \in Msgs,
         x \in Fine => ~Queued(x) /\ ~Pending(x) /\ ~Ticket(x) /\ x \notin acked,
         RequeueMessage(x), UNCHANGED <<pel, expired, inbox, acked, overdue>>,
         \A n \in Msgs : (Requeued(n)' => Requeued(n)) /\ (Pushed(n)' => Pushed(n)),
         \A g \in Handlers, n \in Msgs : /\ Holds(g, n)' => Holds(g, n)
                                         /\ Settles(g, n)' => Settles(g, n)
                                         /\ In(n, got'[g]) => In(n, got[g]),
         x \in Fine => ~Pushed(x)' /\ ~HeldBy(x)'
  PROVE  NoRepeats(Fine, queue') /\ \A n \in Fine : One(n)'
<1> Fine' = Fine /\ \A n \in Fine : n \in Msgs
  BY DEF Fine
<1>1. queue \in Seq(Msgs) /\ queue' = <<x>> \o queue /\ (x \in Fine => ~In(x, queue))
  BY DEF Base, TypeOK, RequeueMessage, RPush, Queued
<1>2. NoRepeats(Fine, queue')
  BY <1>1, NoRepeatsFront DEF Sole, ListsOnce
<1>3. \A n \in Msgs : Queued(n)' <=> Queued(n) \/ n = x
  BY <1>1, InFront DEF Queued
<1>4. ASSUME NEW n \in Fine, n # x PROVE One(n)'
  <2>1. One(n)
    BY DEF Sole
  <2> QED BY <1>3, <1>4, <2>1, Untouched
<1>5. ASSUME x \in Fine PROVE One(x)'
  <2>1. One(x)
    BY <1>5 DEF Sole
  <2>2. ~Pending(x)' /\ ~Ticket(x)'
    BY <1>5 DEF Pending, Ticket
  <2>3. InOnePlace(x)'
    BY <1>5, <2>1, <2>2 DEF One, InOnePlace
  <2>4. OneTicket(x)'
    BY <1>5, <2>1, <2>2 DEF One, OneTicket, Ticket
  <2> QED BY <1>5, <2>3, <2>4 DEF One
<1> QED BY <1>2, <1>4, <1>5

(* A fetch pops: from the list into a hand.                                *)
LEMMA PopSole == ASSUME Base, Sole, NEW h \in Handlers, PopMessage(h) PROVE Sole'
<1> USE DEF redisVars, svcVars, hdlVars, chkVars, cliVars, hisVars, budVars
<1> Fine' = Fine /\ \A n \in Fine : n \in Msgs
  BY DEF Fine, PopMessage
<1>t. /\ pc \in [Handlers -> PCs] /\ hand \in [Handlers -> Msgs \cup {None}]
      /\ queue \in Seq(Msgs) /\ call \in [Consumers -> Handlers \cup {None}]
  BY DEF Base, TypeOK
<1>1. PICK x \in Msgs : x = Head(queue)
  BY <1>t, PopType DEF PopMessage
<1>2. /\ queue # <<>> /\ queue' = Tail(queue)
      /\ UNCHANGED <<pel, expired, svc, ent, got, chkPc, chkSnap, chkMsg, call, inbox, acked, overdue>>
      /\ pc[h] = "pop" /\ pc'[h] = "zadd" /\ hand'[h] = x
      /\ \A g \in Handlers : g # h => pc'[g] = pc[g] /\ hand'[g] = hand[g]
  BY <1>t, <1>1 DEF PopMessage
<1>3. /\ NoRepeats(Fine, queue') /\ (x \in Fine => ~Queued(x)') /\ Queued(x)
      /\ \A n \in Msgs : Queued(n)' => Queued(n)
  BY <1>t, <1>1, <1>2, NoRepeatsPop, InPopOnly DEF Sole, ListsOnce, Queued
<1>4. \A n \in Msgs : /\ Requeued(n)' <=> Requeued(n)
                      /\ Pushed(n)' <=> Pushed(n)
                      /\ Pending(n)' <=> Pending(n)
  BY <1>2 DEF Requeued, Pushed, Pending
<1>5. \A g \in Handlers, n \in Msgs :
         /\ Holds(g, n)' => Holds(g, n) \/ (g = h /\ n = x)
         /\ Settles(g, n)' => Settles(g, n)
  BY <1>2 DEF Holds, Settles
<1>6. ASSUME NEW n \in Fine, n # x PROVE One(n)'
  <2>1. One(n)
    BY DEF Sole
  <2> QED BY <1>2, <1>3, <1>4, <1>5, <1>6, <2>1, Untouched
<1>7. ASSUME x \in Fine PROVE One(x)'
  <2>1. One(x)
    BY <1>7 DEF Sole
  <2>2. ~Pending(x) /\ ~Pushed(x) /\ ~HeldBy(x) /\ ~Ticket(x) /\ x \notin acked
    BY <1>3, <2>1 DEF One, InOnePlace, OneTicket, Forgotten
  <2>3. \A g \in Handlers : Holds(g, x)' => g = h
    BY <1>5, <2>2 DEF HeldBy
  <2>4. ~Ticket(x)'
    BY <1>2, <1>5, <2>2 DEF Ticket
  <2>5. InOnePlace(x)'
    BY <1>2, <1>3, <1>4, <1>7, <2>1, <2>2, <2>3 DEF One, InOnePlace
  <2>6. OneTicket(x)'
    BY <2>4 DEF OneTicket, Ticket
  <2> QED BY <1>2, <2>2, <2>5, <2>6 DEF One
<1>8. StampedOnce' /\ Picked' /\ Scanned' /\ Called'
  <2>1. StampedOnce' /\ Scanned'
    BY <1>2 DEF Sole, StampedOnce, Scanned
  <2>2. Picked' /\ Called'
    BY <1>t, <1>2 DEF Sole, Picked, Called
  <2> QED BY <2>1, <2>2
<1> QED BY <1>2, <1>3, <1>6, <1>7, <1>8 DEF Sole, ListsOnce

(* ZADD: from the hand to the PEL, with a ticket in the answer.            *)
LEMMA AddSole == ASSUME Base, Sole, NEW h \in Handlers, AddToPEL(h) PROVE Sole'
<1> USE DEF redisVars, svcVars, hdlVars, chkVars, cliVars, hisVars, budVars
<1> Fine' = Fine /\ \A n \in Fine : n \in Msgs
  BY DEF Fine, AddToPEL
<1>t. /\ pc \in [Handlers -> PCs] /\ hand \in [Handlers -> Msgs \cup {None}]
      /\ got \in [Handlers -> Seq(Msgs)] /\ call \in [Consumers -> Handlers \cup {None}]
      /\ ThreadInv
  BY DEF Base, TypeOK
<1>1. PICK x \in Msgs : x = hand[h]
  BY <1>t DEF AddToPEL, ThreadInv
<1>2. PICK s \in Stamps \ UsedStamps : ZAdd(NewEntry(x, s))
  BY <1>1 DEF AddToPEL
<1>3. PICK e : e = NewEntry(x, s)
  OBVIOUS
<1>4. /\ pel' = pel \cup {e} /\ expired' = expired \ {s} /\ e.msg = x /\ e.stamp = s
  BY <1>2, <1>3 DEF ZAdd, NewEntry
<1>5. /\ \A f \in pel \cup chkSnap : f.stamp # s
      /\ \A g \in Handlers : ent[g] # None => ent[g].stamp # s
  BY <1>2 DEF UsedStamps
<1>6. /\ UNCHANGED <<queue, svc, ent, chkPc, chkSnap, chkMsg, call, inbox, acked, overdue>>
      /\ pc[h] = "zadd" /\ pc'[h] \in {"pop", "reply"} /\ hand'[h] = None
      /\ got'[h] = Append(got[h], x)
      /\ \A g \in Handlers : g # h => /\ pc'[g] = pc[g] /\ hand'[g] = hand[g]
                                      /\ got'[g] = got[g]
  BY <1>t, <1>1 DEF AddToPEL, NextTurn
<1>7. \A n \in Msgs : /\ Queued(n)' <=> Queued(n)
                      /\ Requeued(n)' <=> Requeued(n)
                      /\ Pushed(n)' <=> Pushed(n)
  BY <1>6 DEF Queued, Requeued, Pushed
<1>8. \A g \in Handlers, n \in Msgs :
         /\ Holds(g, n)' => Holds(g, n) /\ g # h
         /\ Settles(g, n)' => Settles(g, n)
  BY <1>6 DEF Holds, Settles
<1>9. \A g \in Handlers, n \in Msgs : In(n, got'[g]) => In(n, got[g]) \/ (g = h /\ n = x)
  <2>1. \A n : In(n, Append(got[h], x)) => In(n, got[h]) \/ n = x
    BY <1>t, InAppend
  <2> QED BY <1>6, <2>1
<1>10. /\ x \in Fine => One(x)
       /\ Holds(h, x) /\ HeldBy(x)
  BY <1>1, <1>6 DEF Sole, Holds, HeldBy
<1>11. x \in Fine => /\ ~Queued(x) /\ ~Pending(x) /\ ~Pushed(x) /\ ~Ticket(x)
                     /\ x \notin acked
  BY <1>10, HeldIsSole
<1>12. ASSUME NEW n \in Fine, n # x PROVE One(n)'
  <2>1. One(n)
    BY DEF Sole
  <2>2. \A f \in pel' : f.msg = n => f \in pel /\ (f.stamp \in expired' => f.stamp \in expired)
    BY <1>4, <1>12
  <2>3. \A g \in Handlers : /\ Holds(g, n)' => Holds(g, n)
                            /\ Settles(g, n)' => Settles(g, n)
                            /\ In(n, got'[g]) => In(n, got[g])
    BY <1>8, <1>9, <1>12
  <2> QED BY <1>6, <1>7, <2>1, <2>2, <2>3, Untouched
<1>13. ASSUME x \in Fine PROVE One(x)'
  <2>1. \A f \in pel' : f.msg = x => f = e
    BY <1>4, <1>11, <1>13 DEF Pending
  <2>2. \A g \in Handlers : ~Holds(g, x)'
    BY <1>8, <1>10, <1>13 DEF One, InOnePlace
  <2>3. \A g \in Handlers : ~Settles(g, x)' /\ (In(x, got'[g]) => g = h)
    BY <1>8, <1>9, <1>11, <1>13 DEF Ticket
  <2>4. \A c \in Consumers : ~In(x, inbox'[c])
    BY <1>6, <1>11, <1>13 DEF Ticket
  <2>5. ~HeldBy(x)'
    BY <2>2 DEF HeldBy
  <2>6. InOnePlace(x)'
    BY <1>7, <1>11, <1>13, <2>1, <2>2, <2>5 DEF InOnePlace
  <2>7. \A f \in pel' : f.msg = x => f.stamp \notin expired'
    BY <1>4, <2>1
  <2>8. OneTicket(x)'
    BY <1>7, <1>11, <1>13, <2>3, <2>4, <2>5, <2>7 DEF OneTicket
  <2> QED BY <1>6, <1>11, <1>13, <2>6, <2>8 DEF One
<1>14. ListsOnce'
  <2>1. x \in Fine => ~In(x, got[h])
    BY <1>11 DEF Ticket
  <2>2. NoRepeats(Fine, got'[h])
    BY <1>t, <1>6, <2>1, NoRepeatsAppend DEF Sole, ListsOnce
  <2> QED BY <1>6, <2>2 DEF Sole, ListsOnce
<1>15. StampedOnce'
  BY <1>4, <1>5, <1>6 DEF Sole, StampedOnce
<1>16. Scanned'
  BY <1>4, <1>5, <1>6 DEF Sole, Scanned
<1>17. Picked'
  BY <1>4, <1>6 DEF Sole, Picked
<1>18. Called'
  BY <1>t, <1>6 DEF Sole, Called
<1> QED BY <1>12, <1>13, <1>14, <1>15, <1>16, <1>17, <1>18 DEF Sole

(* The answer: tickets go to the consumer that waits for it, or nowhere.   *)
LEMMA ReplySole == ASSUME Base, Sole, NEW h \in Handlers, FetchReply(h) PROVE Sole'
<1> USE DEF redisVars, svcVars, hdlVars, chkVars, cliVars, hisVars, budVars
<1> Fine' = Fine /\ \A n \in Fine : n \in Msgs
  BY DEF Fine, FetchReply
<1>t. inbox \in [Consumers -> Seq(Msgs)] /\ call \in [Consumers -> Handlers \cup {None}]
  BY DEF Base, TypeOK
<1>1. /\ UNCHANGED <<queue, pel, expired, svc, chkPc, chkSnap, chkMsg, acked, overdue>>
      /\ Return(h) /\ Answer(h)
      /\ \A c \in Consumers : inbox'[c] = IF call[c] = h THEN got[h] ELSE inbox[c]
  BY DEF FetchReply
<1>2. /\ \A g \in Handlers, n \in Msgs :
              /\ Holds(g, n)' <=> Holds(g, n) /\ g # h
              /\ Settles(g, n)' <=> Settles(g, n) /\ g # h
              /\ In(n, got'[g]) <=> In(n, got[g]) /\ g # h
      /\ (\A g \in Handlers : NoRepeats(Fine, got'[g])) /\ Called' /\ Picked' /\ StampedOnce'
  BY <1>1, ReturnGives
<1>3. \A n \in Msgs : /\ Queued(n)' <=> Queued(n)
                      /\ Requeued(n)' <=> Requeued(n)
                      /\ Pushed(n)' <=> Pushed(n)
                      /\ Pending(n)' <=> Pending(n)
  BY <1>1 DEF Queued, Requeued, Pushed, Pending
<1>4. ASSUME NEW n \in Fine PROVE One(n)'
  <2>1. One(n)
    BY DEF Sole
  <2>2. CASE ~In(n, got[h])
    <3>1. \A c \in Consumers : In(n, inbox'[c]) => In(n, inbox[c])
      BY <1>1, <2>2
    <3> QED BY <1>1, <1>2, <1>3, <2>1, <3>1, Untouched
  <2>3. CASE In(n, got[h])
    <3>1. Ticket(n)
      BY <2>3 DEF Ticket
    <3>2. \A g \in Handlers : ~In(n, got'[g]) /\ ~Settles(g, n)'
      BY <1>2, <2>1, <2>3 DEF One, OneTicket
    <3>3. \A c \in Consumers : In(n, inbox'[c]) => call[c] = h
      BY <1>1, <2>1, <2>3 DEF One, OneTicket
    <3>4. \A c, d \in Consumers : In(n, inbox'[c]) /\ In(n, inbox'[d]) => c = d
      <4>1. h # None
        BY NoneAssumption
      <4> QED BY <3>3, <4>1 DEF Sole, Called
    <3>5. HeldBy(n)' => HeldBy(n)
      BY <1>2 DEF HeldBy
    <3>6. InOnePlace(n)'
      BY <1>1, <1>2, <1>3, <2>1, <3>5 DEF One, InOnePlace
    <3>7. OneTicket(n)'
      BY <1>1, <1>3, <2>1, <3>1, <3>2, <3>4, <3>5 DEF One, OneTicket
    <3>8. n \notin acked'
      BY <1>1, <2>1, <3>1 DEF One, Forgotten
    <3> QED BY <3>6, <3>7, <3>8 DEF One
  <2> QED BY <2>2, <2>3
<1>5. ListsOnce'
  BY <1>1, <1>2 DEF Sole, ListsOnce
<1>6. Scanned'
  BY <1>1 DEF Sole, Scanned
<1> QED BY <1>2, <1>4, <1>5, <1>6 DEF Sole

(* ZREM of an Ack or a Nack: the ticket and the entry go, the only ones.   *)
LEMMA RemSole ==
  ASSUME Base, Sole, NEW h \in Handlers, AckRem(h) \/ NackRem(h)
  PROVE  Sole'
<1> USE DEF redisVars, svcVars, hdlVars, chkVars, cliVars, hisVars, budVars
<1> Fine' = Fine /\ \A n \in Fine : n \in Msgs
  BY DEF Fine, AckRem, NackRem
<1>t. /\ pc \in [Handlers -> PCs] /\ hand \in [Handlers -> Msgs \cup {None}]
      /\ got \in [Handlers -> Seq(Msgs)] /\ ent \in [Handlers -> Entries \cup {None}]
      /\ call \in [Consumers -> Handlers \cup {None}] /\ ThreadInv
  BY DEF Base, TypeOK
<1>1. PICK x \in Msgs : x = hand[h]
  BY <1>t DEF AckRem, NackRem, ThreadInv
<1>2. PICK e \in Entries : e = ent[h] /\ e.msg = x /\ (x \in Fine => e \in pel)
  BY <1>t, <1>1 DEF AckRem, NackRem, ThreadInv, Sole, Picked
<1>3. /\ UNCHANGED <<queue, svc, chkPc, chkSnap, chkMsg, inbox, overdue>>
      /\ pc[h] \in {"ackRem", "nackRem"}
      /\ pel' = pel \ {e} /\ expired' = expired \ {e.stamp}
  BY <1>2 DEF AckRem, NackRem, ZRem
<1>4. Settles(h, x) /\ Ticket(x) /\ (x \in Fine => One(x) /\ Pending(x))
  BY <1>1, <1>2, <1>3 DEF Sole, Settles, Ticket, Pending
<1>5. \A n \in Msgs : /\ Queued(n)' <=> Queued(n)
                      /\ Requeued(n)' <=> Requeued(n)
                      /\ Pushed(n)' <=> Pushed(n)
  BY <1>3 DEF Queued, Requeued, Pushed
<1>6. ASSUME x \in Fine
      PROVE  /\ ~Queued(x) /\ ~Pushed(x) /\ ~HeldBy(x)
             /\ e.stamp \notin expired /\ x \notin acked
             /\ \A g \in Handlers : ~In(x, got[g]) /\ (Settles(g, x) => g = h)
             /\ \A c \in Consumers : ~In(x, inbox[c])
             /\ \A f \in pel : f.msg = x => f = e
  BY <1>2, <1>4, <1>6 DEF One, InOnePlace, OneTicket, Forgotten
<1>7. \A f \in pel' : f \in pel /\ (f.stamp \in expired' => f.stamp \in expired)
  BY <1>3
<1>8. x \in Fine => ~Pending(x)'
  BY <1>3, <1>6 DEF Pending
<1>9. StampedOnce' /\ Scanned'
  <2>1. StampedOnce'
    <3>1. \A g \in Handlers : ent'[g] = ent[g] \/ ent'[g] = None
      BY <1>t DEF AckRem, NackRem, Return
    <3> QED BY <1>3, <1>7, <3>1, StampsKept DEF Sole
  <2>2. ASSUME NEW f \in chkSnap, f.msg \in Fine
        PROVE  f \in pel /\ f # e /\ f.stamp # e.stamp /\ f.stamp \in expired
    <3>1. f \in pel /\ f.stamp \in expired
      BY <2>2 DEF Sole, Scanned
    <3>2. CASE x \in Fine
      BY <1>6, <3>1, <3>2
    <3>3. CASE x \notin Fine
      <4>1. f # e
        BY <1>2, <2>2, <3>3
      <4>2. e # None
        BY <1>2, NoneAssumption DEF Entries
      <4> QED BY <1>2, <3>1, <4>1, <4>2 DEF Sole, StampedOnce
    <3> QED BY <3>2, <3>3
  <2> QED BY <1>3, <2>1, <2>2 DEF Scanned
<1>10. \A g \in Handlers : g # h /\ pc[g] \in {"ackRem", "nackRem"} /\ hand[g] \in Fine =>
          ent[g] # e
  <2>1. \A g \in Handlers :
           pc[g] \in {"ackRem", "nackRem"} /\ ent[g] = e => Settles(g, x) /\ hand[g] = x
    BY <1>t, <1>2 DEF ThreadInv, Settles
  <2> QED BY <1>6, <2>1
<1>11. ASSUME AckRem(h) PROVE Sole'
  <2>1. Return(h) /\ Answer(h) /\ acked' = acked \cup {x} /\ UNCHANGED overdue
    BY <1>1, <1>11 DEF AckRem
  <2>2. /\ \A g \in Handlers, n \in Msgs :
              /\ Holds(g, n)' <=> Holds(g, n) /\ g # h
              /\ Settles(g, n)' <=> Settles(g, n) /\ g # h
              /\ In(n, got'[g]) <=> In(n, got[g]) /\ g # h
        /\ (\A g \in Handlers : NoRepeats(Fine, got'[g])) /\ Called'
    BY <2>1, ReturnGives
  <2>3. Picked'
    <3>1. \A g \in Handlers : pc'[g] \in {"ackRem", "nackRem"} =>
             g # h /\ pc[g] = pc'[g] /\ ent'[g] = ent[g] /\ hand'[g] = hand[g]
      BY <1>t, <2>1 DEF Return
    <3> QED BY <1>3, <1>10, <3>1 DEF Sole, Picked
  <2>4. ASSUME NEW n \in Fine, n # x PROVE One(n)'
    <3>1. One(n)
      BY DEF Sole
    <3> QED BY <1>3, <1>5, <1>7, <2>1, <2>2, <2>4, <3>1, Untouched
  <2>5. ASSUME x \in Fine PROVE One(x)'
    <3>1. ~HeldBy(x)'
      BY <2>5, <1>6, <2>2 DEF HeldBy
    <3>2. ~Ticket(x)'
      BY <2>5, <1>3, <1>6, <2>2 DEF Ticket
    <3>3. ~Requeued(x)'
      <4>1. Requeued(x) => svc = "closing"
        BY <2>5, <1>6 DEF Pushed
      <4>2. svc # "closing"
        BY <1>11 DEF AckRem, Connected
      <4> QED BY <1>5, <4>1, <4>2
    <3>4. InOnePlace(x)'
      BY <2>5, <1>5, <1>6, <1>8, <3>1 DEF InOnePlace, HeldBy, Pending
    <3>5. OneTicket(x)'
      BY <3>2 DEF OneTicket, Ticket
    <3> QED BY <2>5, <1>5, <1>6, <1>8, <3>1, <3>2, <3>3, <3>4, <3>5 DEF One, Forgotten
  <2> QED BY <1>3, <1>9, <2>2, <2>3, <2>4, <2>5 DEF Sole, ListsOnce
<1>12. ASSUME NackRem(h) PROVE Sole'
  <2>1. /\ UNCHANGED <<hand, got, call, acked>> /\ pc'[h] = "nackPush"
        /\ \A g \in Handlers : g # h => pc'[g] = pc[g] /\ ent'[g] = ent[g]
    BY <1>t, <1>12 DEF NackRem
  <2>2. \A g \in Handlers, n \in Msgs :
              /\ Holds(g, n)' => Holds(g, n) \/ (g = h /\ n = x)
              /\ Settles(g, n)' => Settles(g, n) /\ g # h
    BY <1>1, <2>1 DEF Holds, Settles
  <2>3. Picked'
    BY <1>3, <1>10, <2>1 DEF Sole, Picked
  <2>4. ASSUME NEW n \in Fine, n # x PROVE One(n)'
    <3>1. One(n)
      BY DEF Sole
    <3> QED BY <1>3, <1>5, <1>7, <2>1, <2>2, <2>4, <3>1, Untouched
  <2>5. ASSUME x \in Fine PROVE One(x)'
    <3>1. \A g \in Handlers : Holds(g, x)' => g = h
      BY <2>5, <1>6, <2>2 DEF HeldBy
    <3>2. ~Ticket(x)'
      BY <2>5, <1>3, <1>6, <2>1, <2>2 DEF Ticket
    <3>3. InOnePlace(x)'
      BY <2>5, <1>5, <1>6, <1>8, <3>1 DEF InOnePlace, Pending
    <3>4. OneTicket(x)'
      BY <3>2 DEF OneTicket, Ticket
    <3> QED BY <2>5, <1>6, <2>1, <3>3, <3>4 DEF One
  <2>6. Called'
    BY <1>t, <1>3, <2>1 DEF Sole, Called
  <2> QED BY <1>3, <1>9, <2>1, <2>3, <2>4, <2>5, <2>6 DEF Sole, ListsOnce
<1> QED BY <1>11, <1>12

(* Every step of a handler.                                                *)
LEMMA HandlerSole ==
  ASSUME Base, ServedInv, Sole, faults = 0, faults' = 0, HandlerNext
  PROVE  Sole'
<1> PICK h \in Handlers :
      \/ PopMessage(h) \/ PopEmpty(h) \/ PanicRecovered(h) \/ PopError(h)
      \/ AddToPEL(h) \/ AddToPELError(h) \/ RequeueFetched(h) \/ RequeueFetchedError(h)
      \/ FetchReply(h)
      \/ AckRange(h) \/ NackRange(h) \/ NotFound(h)
      \/ AckRem(h) \/ NackRem(h) \/ NackPush(h) \/ SettleError(h)
  BY DEF HandlerNext
<1> USE DEF redisVars, svcVars, hdlVars, chkVars, cliVars, hisVars, budVars
<1> Fine' = Fine /\ \A n \in Fine : n \in Msgs
  BY DEF Fine, PopMessage, PopEmpty,
     PanicRecovered, PopError, AddToPEL, AddToPELError, RequeueFetched, RequeueFetchedError,
     FetchReply, AckRange, NackRange, ZRange, NotFound, AckRem, NackRem, NackPush, SettleError
<1>t. /\ pc \in [Handlers -> PCs] /\ hand \in [Handlers -> Msgs \cup {None}]
      /\ got \in [Handlers -> Seq(Msgs)] /\ ent \in [Handlers -> Entries \cup {None}]
      /\ call \in [Consumers -> Handlers \cup {None}] /\ ThreadInv
  BY DEF Base, TypeOK
<1>1. CASE PopError(h) \/ AddToPELError(h) \/ RequeueFetchedError(h) \/ SettleError(h)
  BY <1>1, ErrorCloses DEF PopError, AddToPELError, RequeueFetchedError, SettleError
<1>2. CASE PopEmpty(h) \/ AckRange(h) \/ NackRange(h)
  <2>1. /\ UNCHANGED <<queue, pel, expired, svc, chkPc, chkSnap, chkMsg, acked, overdue, hand,
                       got, inbox, call>>
        /\ \/ pc[h] = "pop" /\ pc'[h] = "panic" /\ ent'[h] = ent[h]
           \/ pc[h] = "ackRange" /\ pc'[h] = "ackRem" /\ ent'[h] \in pel
           \/ pc[h] = "nackRange" /\ pc'[h] = "nackRem" /\ ent'[h] \in pel
        /\ \A g \in Handlers : g # h => pc'[g] = pc[g] /\ ent'[g] = ent[g]
    BY <1>2, <1>t DEF PopEmpty, AckRange, NackRange, ZRange, Matching
  <2>2. \A g \in Handlers, n \in Msgs : (Holds(g, n)' => Holds(g, n)) /\ (Settles(g, n)' => Settles(g, n))
    BY <2>1 DEF Holds, Settles
  <2>3. ASSUME NEW n \in Fine PROVE One(n)'
    <3>1. One(n)
      BY DEF Sole
    <3>2. (Queued(n)' <=> Queued(n)) /\ (Requeued(n)' <=> Requeued(n)) /\ (Pushed(n)' <=> Pushed(n))
      BY <2>1 DEF Queued, Requeued, Pushed
    <3> QED BY <2>1, <2>2, <3>1, <3>2, Untouched
  <2>4. Picked' /\ Called'
    BY <1>t, <2>1 DEF Sole, Picked, Called
  <2>5. StampedOnce' /\ Scanned' /\ ListsOnce'
    <3>1. \A g \in Handlers : ent'[g] = ent[g] \/ ent'[g] \in pel
      BY <2>1
    <3>2. StampedOnce'
      BY <2>1, <3>1, StampsKept DEF Sole
    <3> QED BY <2>1, <3>2 DEF Sole, Scanned, ListsOnce
  <2> QED BY <2>3, <2>4, <2>5 DEF Sole
<1>3. CASE PanicRecovered(h) \/ NotFound(h)
  <2>1. /\ UNCHANGED <<queue, pel, expired, svc, chkPc, chkSnap, chkMsg, acked, inbox, overdue>>
        /\ Return(h) /\ Answer(h)
    BY <1>3 DEF PanicRecovered, NotFound
  <2>2. /\ \A g \in Handlers, n \in Msgs :
              /\ Holds(g, n)' <=> Holds(g, n) /\ g # h
              /\ Settles(g, n)' <=> Settles(g, n) /\ g # h
              /\ In(n, got'[g]) <=> In(n, got[g]) /\ g # h
        /\ (\A g \in Handlers : NoRepeats(Fine, got'[g])) /\ Called' /\ Picked' /\ StampedOnce'
    BY <2>1, ReturnGives
  <2>3. ASSUME NEW n \in Fine PROVE One(n)'
    <3>1. One(n)
      BY DEF Sole
    <3>2. (Queued(n)' <=> Queued(n)) /\ (Requeued(n)' <=> Requeued(n)) /\ (Pushed(n)' <=> Pushed(n))
      BY <2>1 DEF Queued, Requeued, Pushed
    <3> QED BY <2>1, <2>2, <3>1, <3>2, Untouched
  <2>4. StampedOnce' /\ Scanned' /\ ListsOnce'
    BY <2>1, <2>2 DEF Sole, Scanned, ListsOnce
  <2> QED BY <2>2, <2>3, <2>4 DEF Sole
<1>4. CASE RequeueFetched(h) \/ NackPush(h)
  <2>1. PICK x \in Msgs : x = hand[h]
    BY <1>4, <1>t DEF RequeueFetched, NackPush, ThreadInv
  <2>2. /\ UNCHANGED <<pel, expired, svc, chkPc, chkSnap, chkMsg, inbox, acked, overdue>>
        /\ RequeueMessage(x)
    BY <1>4, <2>1 DEF RequeueFetched, NackPush
  <2>3. Holds(h, x) /\ HeldBy(x) /\ (x \in Fine => One(x))
    BY <1>4, <2>1 DEF Sole, RequeueFetched, NackPush, Holds, HeldBy
  <2>4. x \in Fine => /\ ~Queued(x) /\ ~Pending(x) /\ ~Pushed(x) /\ ~Ticket(x)
                      /\ x \notin acked
    BY <2>3, HeldIsSole
  <2>5. \A n \in Msgs : (Requeued(n)' <=> Requeued(n)) /\ (Pushed(n)' <=> Pushed(n))
    BY <2>2 DEF Requeued, Pushed
  <2>6. /\ \A g \in Handlers, n \in Msgs :
              /\ Holds(g, n)' => Holds(g, n) /\ g # h
              /\ Settles(g, n)' => Settles(g, n)
              /\ In(n, got'[g]) => In(n, got[g])
        /\ (\A g \in Handlers : NoRepeats(Fine, got'[g])) /\ Called' /\ Picked' /\ StampedOnce'
    <3>1. CASE NackPush(h)
      <4>1. Return(h) /\ Answer(h)
        BY <3>1 DEF NackPush
      <4> QED BY <2>2, <4>1, ReturnGives
    <3>2. CASE RequeueFetched(h)
      <4>1. /\ UNCHANGED <<got, ent, call>> /\ pc'[h] \in {"pop", "reply"}
            /\ \A g \in Handlers : g # h => pc'[g] = pc[g] /\ hand'[g] = hand[g]
        BY <1>t, <3>2 DEF RequeueFetched, NextTurn
      <4>2. \A g \in Handlers, n \in Msgs :
              (Holds(g, n)' => Holds(g, n) /\ g # h) /\ (Settles(g, n)' => Settles(g, n))
        BY <4>1 DEF Holds, Settles
      <4>3. Called' /\ Picked' /\ StampedOnce'
        BY <1>t, <2>2, <4>1 DEF Sole, Called, Picked, StampedOnce
      <4> QED BY <4>1, <4>2, <4>3 DEF Sole, ListsOnce
    <3> QED BY <1>4, <3>1, <3>2
  <2>7. x \in Fine => ~HeldBy(x)'
    BY <2>3, <2>6 DEF HeldBy, One, InOnePlace
  <2>8. NoRepeats(Fine, queue') /\ \A n \in Fine : One(n)'
    BY <2>2, <2>4, <2>5, <2>6, <2>7, BackToList
  <2>9. StampedOnce' /\ Scanned' /\ ListsOnce'
    BY <2>2, <2>6, <2>8 DEF Sole, Scanned, ListsOnce
  <2> QED BY <2>6, <2>8, <2>9 DEF Sole
<1> QED BY <1>1, <1>2, <1>3, <1>4, PopSole, AddSole, ReplySole, RemSole

(* The checker only takes what has expired, so what nobody has a ticket    *)
(* for.  In a service that closes its commands fail and it gets no further.*)
LEMMA CheckerSole ==
  ASSUME Base, ServedInv, Sole, faults = 0, faults' = 0, CheckerNext
  PROVE  Sole'
<1> USE DEF redisVars, svcVars, hdlVars, chkVars, cliVars, hisVars, budVars
<1> Fine' = Fine /\ \A n \in Fine : n \in Msgs
  BY DEF Fine, CheckerNext, CheckerScan, CheckerRequeue, CheckerRequeueError,
     CheckerDone, CheckerDeadLetter, CheckerRemove
<1>t. ThreadInv /\ call \in [Consumers -> Handlers \cup {None}]
  BY DEF Base, TypeOK
<1>1. /\ UNCHANGED <<svc, pc, hand, ent, got, call, inbox, acked, overdue>>
      /\ Called'
      /\ \A g \in Handlers, n \in Msgs :
            (Holds(g, n)' <=> Holds(g, n)) /\ (Settles(g, n)' <=> Settles(g, n))
  <2>1. UNCHANGED <<svc, pc, hand, ent, got, call, inbox, acked, overdue>>
    BY DEF CheckerNext, CheckerScan, CheckerRequeue, CheckerRequeueError, CheckerDone,
       CheckerDeadLetter, CheckerRemove
  <2> QED BY <2>1 DEF Sole, Called, Holds, Settles
<1>2. CASE CheckerScan \/ CheckerDone \/ CheckerRequeueError
  <2>1. /\ UNCHANGED <<queue, pel, expired>> /\ chkPc' # "push"
        /\ \A e \in chkSnap' : e \in chkSnap \/ (e \in pel /\ e.stamp \in expired)
    BY <1>2 DEF CheckerScan, CheckerDone, CheckerRequeueError
  <2>2. ASSUME NEW n \in Fine PROVE One(n)'
    <3>1. One(n)
      BY DEF Sole
    <3>2. (Queued(n)' <=> Queued(n)) /\ ~Requeued(n)' /\ ~Pushed(n)'
      BY <2>1 DEF Queued, Requeued, Pushed
    <3> QED BY <1>1, <2>1, <3>1, <3>2, Untouched
  <2>3. Scanned'
    BY <2>1 DEF Sole, Scanned
  <2>4. StampedOnce' /\ Picked' /\ ListsOnce'
    <3>1. StampedOnce'
      BY <1>1, <2>1, StampsKept DEF Sole
    <3> QED BY <1>1, <2>1, <3>1 DEF Sole, Picked, ListsOnce
  <2> QED BY <1>1, <2>2, <2>3, <2>4 DEF Sole
<1>3. CASE CheckerRequeue
  <2>1. PICK x \in Msgs : x = chkMsg
    BY <1>3, <1>t DEF CheckerRequeue, ThreadInv
  <2>2. /\ UNCHANGED <<pel, expired, chkSnap>> /\ RequeueMessage(x) /\ chkPc' = "scan"
    BY <1>3, <2>1 DEF CheckerRequeue
  <2>3. Pushed(x) /\ Requeued(x) /\ (x \in Fine => One(x))
    BY <1>3, <2>1 DEF Sole, CheckerRequeue, Connected, Pushed, Requeued
  <2>4. x \in Fine => /\ ~Queued(x) /\ ~Pending(x) /\ ~Ticket(x) /\ ~HeldBy(x)
                      /\ x \notin acked
    BY <2>3 DEF One, InOnePlace, OneTicket, Forgotten
  <2>5. \A n \in Msgs : ~Requeued(n)' /\ ~Pushed(n)'
    BY <2>2 DEF Requeued, Pushed
  <2>6. x \in Fine => ~HeldBy(x)'
    BY <1>1, <2>4 DEF HeldBy
  <2>7. NoRepeats(Fine, queue') /\ \A n \in Fine : One(n)'
    BY <1>1, <2>2, <2>4, <2>5, <2>6, BackToList
  <2>8. StampedOnce' /\ Picked' /\ Scanned' /\ ListsOnce'
    BY <1>1, <2>2, <2>7 DEF Sole, StampedOnce, Picked, Scanned, ListsOnce
  <2> QED BY <1>1, <2>7, <2>8 DEF Sole
<1>4. ASSUME NEW e \in chkSnap, CheckerDeadLetter(e) \/ CheckerRemove(e) PROVE Sole'
  <2>1. PICK x \in Msgs : x = e.msg
    BY DEF Base, TypeOK, Entries
  <2>2. x \in Fine => e \in pel /\ e.stamp \in expired /\ One(x) /\ Pending(x)
    BY <2>1 DEF Sole, Scanned, Pending
  <2>3. x \in Fine => /\ ~Ticket(x) /\ ~Queued(x) /\ ~Pushed(x) /\ ~HeldBy(x)
                      /\ x \notin acked
    BY <2>1, <2>2 DEF One, InOnePlace, OneTicket, Forgotten
  <2>4. /\ UNCHANGED queue /\ chkSnap' = chkSnap \ {e}
        /\ \/ pel' = pel \ {e} /\ expired' = expired \ {e.stamp}
           \/ UNCHANGED <<pel, expired>> /\ RedisError
        /\ \/ UNCHANGED <<chkPc, chkMsg>> \/ chkMsg' = x
    BY <1>4, <2>1 DEF CheckerDeadLetter, CheckerRemove, CheckerZRem, ZRem
  <2>5. x \in Fine /\ pel' = pel => svc = "closing"
    BY <2>2, <2>4, ErrorCloses
  <2>6. \A f \in pel' : f \in pel /\ (f.stamp \in expired' => f.stamp \in expired)
    BY <2>4
  <2>7. \A n \in Msgs : /\ Queued(n)' <=> Queued(n)
                        /\ n # x /\ Requeued(n)' => Requeued(n)
                        /\ n # x /\ Pushed(n)' => Pushed(n)
    <3>1. \A n \in Msgs : n # x /\ Requeued(n)' => Requeued(n)
      BY <1>4, <2>1 DEF Requeued, CheckerDeadLetter, CheckerRemove
    <3> QED BY <1>1, <2>4, <3>1 DEF Queued, Pushed
  <2>8. ASSUME NEW n \in Fine, n # x PROVE One(n)'
    <3>1. One(n)
      BY DEF Sole
    <3> QED BY <1>1, <2>6, <2>7, <2>8, <3>1, Untouched
  <2>9. ASSUME x \in Fine PROVE One(x)'
    <3>1. ~Ticket(x)' /\ ~HeldBy(x)' /\ ~Queued(x)'
      BY <1>1, <2>3, <2>7, <2>9 DEF Ticket, HeldBy
    <3>2. Pending(x)' => ~Pushed(x)'
      <4>1. CASE pel' = pel
        BY <1>1, <2>5, <2>9, <4>1 DEF Pushed
      <4>2. CASE pel' = pel \ {e}
        BY <2>1, <2>2, <2>9, <4>2 DEF Pending, One, InOnePlace
      <4> QED BY <2>4, <4>1, <4>2
    <3>3. InOnePlace(x)'
      BY <2>2, <2>6, <2>9, <3>1, <3>2 DEF One, InOnePlace, HeldBy
    <3>4. OneTicket(x)'
      BY <3>1 DEF OneTicket, Ticket
    <3> QED BY <1>1, <2>3, <2>9, <3>3, <3>4 DEF One
  <2>10. StampedOnce' /\ ListsOnce'
    <3>1. StampedOnce'
      BY <1>1, <2>4, <2>6, StampsKept DEF Sole
    <3> QED BY <1>1, <2>4, <3>1 DEF Sole, ListsOnce
  <2>11. Scanned'
    <3>1. \A f \in chkSnap' : f.msg \in Fine =>
             f \in pel /\ f # e /\ f.stamp # e.stamp /\ f.stamp \in expired
      BY <2>4 DEF Sole, Scanned, StampedOnce
    <3> QED BY <2>4, <3>1 DEF Scanned
  <2>12. Picked'
    <3>1. ASSUME NEW g \in Handlers, pc[g] \in {"ackRem", "nackRem"}, hand[g] \in Fine
          PROVE  ent[g] # e
      <4>1. ent[g].msg = hand[g]
        BY <1>t, <3>1 DEF ThreadInv
      <4>2. x \in Fine => ~Settles(g, x)
        BY <2>3 DEF Ticket
      <4> QED BY <2>1, <3>1, <4>1, <4>2 DEF Settles
    <3> QED BY <1>1, <2>4, <3>1 DEF Sole, Picked
  <2> QED BY <1>1, <2>8, <2>9, <2>10, <2>11, <2>12 DEF Sole
<1> QED BY <1>2, <1>3, <1>4 DEF CheckerNext

(* A stop takes hands, tickets and the scan away; Redis keeps the rest.    *)
LEMMA ProcessSole == ASSUME Base, Sole, ProcessNext PROVE Sole'
<1> USE DEF redisVars, svcVars, hdlVars, chkVars, cliVars, hisVars, budVars
<1> Fine' = Fine /\ \A n \in Fine : n \in Msgs
  BY DEF Fine, ProcessNext, Shutdown, Close, Exit, Crash, ProcessGone, Restart
<1>1. CASE Shutdown \/ Close \/ Restart
  <2>1. /\ UNCHANGED <<queue, pel, expired, pc, hand, ent, got, chkPc, chkSnap, chkMsg,
                       call, inbox, acked, overdue>>
        /\ svc # "closing"
    BY <1>1 DEF Shutdown, Close, Restart
  <2>2. ASSUME NEW n \in Fine PROVE One(n)'
    <3>1. One(n)
      BY DEF Sole
    <3>2. /\ Queued(n)' <=> Queued(n)
          /\ Requeued(n)' <=> Requeued(n)
          /\ Pushed(n)' => Pushed(n)
          /\ \A g \in Handlers : /\ Holds(g, n)' <=> Holds(g, n)
                                 /\ Settles(g, n)' <=> Settles(g, n)
      BY <2>1 DEF Queued, Requeued, Pushed, Holds, Settles
    <3> QED BY <2>1, <3>1, <3>2, Untouched
  <2>3. ListsOnce' /\ StampedOnce' /\ Scanned'
    BY <2>1 DEF Sole, ListsOnce, StampedOnce, Scanned
  <2>4. Picked' /\ Called'
    BY <2>1 DEF Sole, Picked, Called
  <2> QED BY <2>2, <2>3, <2>4 DEF Sole
<1>2. CASE Exit \/ Crash
  <2>1. /\ UNCHANGED <<queue, pel, expired, inbox, acked, overdue>>
        /\ chkPc' = "idle" /\ chkSnap' = {}
        /\ \A g \in Handlers : pc'[g] = "idle" /\ got'[g] = <<>> /\ ent'[g] = None
        /\ \A c \in Consumers : call'[c] = None
    BY <1>2 DEF Exit, Crash, ProcessGone
  <2>2. ASSUME NEW n \in Fine PROVE One(n)'
    <3>1. One(n)
      BY DEF Sole
    <3>2. /\ Queued(n)' <=> Queued(n)
          /\ ~Requeued(n)' /\ ~Pushed(n)'
          /\ \A g \in Handlers : ~Holds(g, n)' /\ ~Settles(g, n)' /\ ~In(n, got'[g])
      BY <2>1, NoRepeatsEmpty DEF Queued, Requeued, Pushed, Holds, Settles
    <3> QED BY <2>1, <3>1, <3>2, Untouched
  <2>3. ListsOnce' /\ StampedOnce'
    BY <2>1, NoRepeatsEmpty DEF Sole, ListsOnce, StampedOnce
  <2>4. Picked' /\ Called' /\ Scanned'
    BY <2>1 DEF Picked, Called, Scanned
  <2> QED BY <2>2, <2>3, <2>4 DEF Sole
<1> QED BY <1>1, <1>2 DEF ProcessNext

(* What is published for the first time is nowhere yet.                    *)
LEMMA PublishSole ==
  ASSUME Base, Known, Sole, NEW x \in Msgs, Publish(x)
  PROVE  Sole'
<1> USE DEF redisVars, svcVars, hdlVars, chkVars, cliVars, hisVars, budVars
<1> Fine' = Fine /\ \A n \in Fine : n \in Msgs
  BY DEF Fine, Publish
<1>t. queue \in Seq(Msgs) /\ ThreadInv
  BY DEF Base, TypeOK
<1>1. /\ x \notin published /\ queue' = Append(queue, x)
      /\ UNCHANGED <<pel, expired, svc, pc, hand, ent, got, chkPc, chkSnap, chkMsg,
                     call, inbox, acked, overdue>>
  BY DEF Publish, LPush
<1>2. /\ ~Queued(x) /\ ~Pending(x) /\ x \notin acked
      /\ \A h \in Handlers : ~Holds(h, x) /\ ~Settles(h, x) /\ ~In(x, got[h])
      /\ \A c \in Consumers : ~In(x, inbox[c])
      /\ ~Pushed(x)
  <2>1. \A q \in Seq(published) : ~In(x, q)
    BY <1>1, ListOf
  <2>2. ~Queued(x) /\ ~Pending(x) /\ x \notin acked
    BY <1>1, <2>1 DEF Known, Queued, Pending
  <2>3. \A h \in Handlers : ~Holds(h, x) /\ ~Settles(h, x) /\ ~In(x, got[h])
    BY <1>1, <2>1, NoneAssumption DEF Known, Holds, Settles
  <2>4. (\A c \in Consumers : ~In(x, inbox[c])) /\ ~Pushed(x)
    BY <1>1, <2>1, NoneAssumption DEF Known, Pushed, Requeued
  <2> QED BY <2>2, <2>3, <2>4
<1>3. NoRepeats(Fine, queue') /\ \A n \in Msgs : Queued(n)' <=> Queued(n) \/ n = x
  BY <1>t, <1>1, <1>2, NoRepeatsAppend, InAppend DEF Sole, ListsOnce, Queued
<1>4. \A n \in Msgs : /\ Requeued(n)' <=> Requeued(n)
                      /\ Pushed(n)' <=> Pushed(n)
                      /\ \A g \in Handlers : /\ Holds(g, n)' <=> Holds(g, n)
                                             /\ Settles(g, n)' <=> Settles(g, n)
  BY <1>1 DEF Requeued, Pushed, Holds, Settles
<1>5. ASSUME NEW n \in Fine, n # x PROVE One(n)'
  <2>1. One(n)
    BY DEF Sole
  <2> QED BY <1>1, <1>3, <1>4, <1>5, <2>1, Untouched
<1>6. One(x)'
  <2>1. ~Ticket(x)' /\ ~HeldBy(x)' /\ ~Pending(x)' /\ ~Pushed(x)'
    BY <1>1, <1>2, <1>4 DEF Ticket, HeldBy, Pending
  <2>2. InOnePlace(x)'
    BY <2>1 DEF InOnePlace, HeldBy, Pending
  <2>3. OneTicket(x)'
    BY <2>1 DEF OneTicket, Ticket
  <2> QED BY <1>1, <1>2, <2>2, <2>3 DEF One
<1>7. ListsOnce' /\ StampedOnce' /\ Scanned'
  BY <1>1, <1>3 DEF Sole, ListsOnce, StampedOnce, Scanned
<1>8. Picked' /\ Called'
  BY <1>1 DEF Sole, Picked, Called
<1> QED BY <1>5, <1>6, <1>7, <1>8 DEF Sole

(* An entry expires: either nobody has a ticket, or the message is no      *)
(* longer one of those the invariant speaks of.                            *)
LEMMA ExpireSole ==
  ASSUME Sole, NEW e \in pel, Expire(e)
  PROVE  Sole'
<1> USE DEF redisVars, svcVars, hdlVars, chkVars, cliVars, hisVars, budVars
<1>1. /\ UNCHANGED <<queue, pel, svc, pc, hand, ent, got, chkPc, chkSnap, chkMsg,
                     call, inbox, acked>>
      /\ expired' = expired \cup {e.stamp}
      /\ overdue' = overdue \cup {m \in {e.msg} : MaySettle(m)}
  BY DEF Expire
<1>2. /\ \A n \in Fine' : n \in Fine /\ n \in Msgs
      /\ e.msg \in Fine' => ~Ticket(e.msg)
  BY <1>1 DEF Fine, MaySettle, Ticket, Settles
<1>3. ASSUME NEW n \in Fine' PROVE One(n)'
  <2>1. One(n)
    BY <1>2 DEF Sole
  <2>2. \A f \in pel : f.msg = n /\ f.stamp \in expired' => f.stamp \in expired \/ ~Ticket(n)
    BY <1>1, <1>2 DEF Sole, StampedOnce
  <2>3. /\ Queued(n)' <=> Queued(n)
        /\ Requeued(n)' <=> Requeued(n)
        /\ Pushed(n)' <=> Pushed(n)
        /\ \A g \in Handlers : /\ Holds(g, n)' <=> Holds(g, n)
                               /\ Settles(g, n)' <=> Settles(g, n)
    BY <1>1, <1>2 DEF Queued, Requeued, Pushed, Holds, Settles
  <2> QED BY <1>1, <1>2, <2>1, <2>2, <2>3, Untouched
<1>4. ListsOnce' /\ StampedOnce' /\ Scanned'
  <2>1. \A q : NoRepeats(Fine, q) => NoRepeats(Fine', q)
    BY <1>2 DEF NoRepeats
  <2> QED BY <1>1, <1>2, <2>1 DEF Sole, ListsOnce, StampedOnce, Scanned
<1>5. Picked' /\ Called'
  BY <1>1, <1>2 DEF Sole, Picked, Called
<1> QED BY <1>3, <1>4, <1>5 DEF Sole

(* Nothing is anywhere at the start.                                       *)
LEMMA InitSole == Init => Sole
<1> SUFFICES ASSUME Init PROVE Sole
  OBVIOUS
<1>1. /\ queue = <<>> /\ pel = {} /\ chkSnap = {} /\ chkPc = "idle" /\ acked = {} /\ \A n \in Fine : n \in Msgs
      /\ \A h \in Handlers : pc[h] = "idle" /\ got[h] = <<>> /\ ent[h] = None
      /\ \A c \in Consumers : call[c] = None /\ inbox[c] = <<>>
  BY DEF Init, Fine
<1>2. ASSUME NEW m \in Fine PROVE One(m)
  <2>1. /\ ~Queued(m) /\ ~Pending(m) /\ ~Pushed(m) /\ ~Ticket(m)
        /\ \A h \in Handlers : ~Holds(h, m)
    BY <1>1, NoRepeatsEmpty DEF Queued, Pending, Pushed, Requeued, Ticket, Holds, Settles
  <2>2. InOnePlace(m) /\ OneTicket(m)
    BY <1>1, <2>1 DEF InOnePlace, OneTicket, Ticket
  <2> QED BY <1>1, <2>2 DEF One
<1>3. ListsOnce /\ StampedOnce /\ Picked /\ Scanned /\ Called
  BY <1>1, NoRepeatsEmpty DEF ListsOnce, StampedOnce, Picked, Scanned, Called
<1> QED BY <1>2, <1>3 DEF Sole

SoleInv == faults = 0 => Sole

(* Errors are counted and never taken back, so Sole holds until the first. *)
LEMMA StepSole ==
  Base /\ ServedInv /\ Known /\ SoleInv /\ [Next]_vars => SoleInv'
<1> SUFFICES ASSUME Base, ServedInv, Known, SoleInv, [Next]_vars, faults' = 0 PROVE Sole'
  BY DEF SoleInv
<1> USE DEF redisVars, svcVars, hdlVars, chkVars, cliVars, hisVars, budVars
<1>1. faults = 0
  <2>1. faults \in Nat
    BY BoundAssumption DEF Base, TypeOK
  <2>2. UNCHANGED faults \/ faults' = faults + 1
    BY DEF Next, Publish, ConsumerNext, StartFetch, StartAck, StartNack, Settle,
       SettleRefused, CallTimesOut, ConsumerCrash, HandlerNext, PopMessage, PopEmpty,
       PanicRecovered, PopError, AddToPEL, AddToPELError, RequeueFetched,
       RequeueFetchedError, FetchReply, AckRange, NackRange, ZRange, NotFound, AckRem,
       NackRem, NackPush, SettleError, CheckerNext, CheckerScan, CheckerRequeue,
       CheckerRequeueError, CheckerDone, CheckerDeadLetter, CheckerRemove, CheckerZRem,
       ProcessNext, Shutdown, Close, Exit, Crash, ProcessGone, Restart, Expire, vars,
       RedisError
  <2> QED BY <2>1, <2>2
<1>2. Sole
  BY <1>1 DEF SoleInv
<1>3. CASE UNCHANGED vars
  <2>1. UNCHANGED <<queue, pel, expired, svc, pc, hand, ent, got, chkPc, chkSnap, chkMsg,
                    call, inbox, acked, overdue>>
    BY <1>3 DEF vars
  <2> Fine' = Fine /\ \A n \in Fine : n \in Msgs
    BY <2>1 DEF Fine
  <2>2. ASSUME NEW n \in Fine PROVE One(n)'
    <3>1. One(n)
      BY <1>2 DEF Sole
    <3>2. /\ Queued(n)' <=> Queued(n)
          /\ Requeued(n)' <=> Requeued(n)
          /\ Pushed(n)' <=> Pushed(n)
          /\ \A g \in Handlers : /\ Holds(g, n)' <=> Holds(g, n)
                                 /\ Settles(g, n)' <=> Settles(g, n)
      BY <2>1 DEF Queued, Requeued, Pushed, Holds, Settles
    <3> QED BY <2>1, <3>1, <3>2, Untouched
  <2>3. ListsOnce' /\ StampedOnce' /\ Scanned'
    BY <1>2, <2>1 DEF Sole, ListsOnce, StampedOnce, Scanned
  <2>4. Picked' /\ Called'
    BY <1>2, <2>1 DEF Sole, Picked, Called
  <2> QED BY <2>2, <2>3, <2>4 DEF Sole
<1> QED BY <1>1, <1>2, <1>3, PublishSole, ConsumerSole, HandlerSole, CheckerSole,
           ProcessSole, ExpireSole DEF Next

(* An acknowledged message is not delivered again, for every number of     *)
(* messages, consumers and handlers, and whatever is nacked, given up,     *)
(* stopped and restarted and whatever expires: the only exceptions are a   *)
(* Redis command that failed, and this very message having expired while   *)
(* a consumer, or a call nobody waits for any more, could still settle it. *)
THEOREM AckedForGood == Spec => []AckIsFinal
<1>1. Init => Base /\ ServedInv /\ Known /\ SoleInv
  <2>1. Init => Known
    BY EmptyList DEF Init, Known
  <2> QED BY <2>1, InitBase, InitLight, InitSole DEF SoleInv
<1>2. Base /\ ServedInv /\ Known /\ SoleInv /\ [Next]_vars
        => Base' /\ ServedInv' /\ Known' /\ SoleInv'
  BY StepBase, StepServed, StepKnown, StepSole
<1>3. Base /\ SoleInv => AckIsFinal
  <2> SUFFICES ASSUME Base, Sole, NEW m \in acked, m \notin overdue PROVE ~Live(m)
    BY DEF SoleInv, AckIsFinal
  <2>1. Forgotten(m)
    BY DEF Base, TypeOK, Sole, One, Fine
  <2> QED BY <2>1 DEF Forgotten, Live, InHand, HeldBy, Requeued
<1> QED BY <1>1, <1>2, <1>3, PTL DEF Spec

=============================================================================
