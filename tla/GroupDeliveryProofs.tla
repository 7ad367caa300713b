------------------------ MODULE GroupDeliveryProofs ------------------------
(***************************************************************************)
(* Proofs about the delivery goroutines of a group and its consumer        *)
(* registry, for any number of consumers, requests, delivery goroutines    *)
(* and messages.                                                           *)
(***************************************************************************)
EXTENDS GroupDelivery, ListTheorems

(* The part of TypeOK that is about the registry.                          *)
GroupType ==
    /\ consumers \in [Ids -> Conns \cup {None}]
    /\ chanClosed \in [Conns -> BOOLEAN]
    /\ connId \in [Conns -> Ids \cup {None}]

(* What a registry entry refers to; with its types, inductive.             *)
GroupInv == GroupType /\ RegisteredOpen

(* The registry starts empty.                                              *)
LEMMA InitGroup == Init => GroupInv
  BY DEF Init, GroupInv, GroupType, RegisteredOpen

(* Steps that leave the registry alone preserve what is said about it.     *)
LEMMA SameGroup ==
  ASSUME GroupInv, UNCHANGED <<consumers, chanClosed, connId>>
  PROVE  GroupInv'
  BY DEF GroupInv, GroupType, RegisteredOpen

(* A registration puts an open channel of its own in place: the request    *)
(* was not being served, so no other id refers to it.                      *)
LEMMA RegisterGroup ==
  ASSUME GroupInv, NEW n \in Conns, NEW i \in Ids, Register(n, i)
  PROVE  GroupInv'
<1>1. GroupType'
  BY DEF Register, GroupInv, GroupType
<1>2. ASSUME NEW j \in Ids, consumers'[j] # None
      PROVE  connId'[consumers'[j]] = j /\ ~chanClosed'[consumers'[j]]
  <2>1. CASE j = i
    BY <2>1 DEF Register, GroupInv, GroupType
  <2>2. CASE j # i
    <3>1. consumers'[j] = consumers[j] /\ consumers[j] \in Conns
      BY <1>2, <2>2 DEF Register, GroupInv, GroupType
    <3>2. connId[consumers[j]] = j /\ ~chanClosed[consumers[j]]
      BY <3>1, NoneAssumption DEF GroupInv, RegisteredOpen
    <3>3. consumers[j] # n
      BY <3>2, NoneAssumption DEF Register, Serving
    <3> QED BY <3>1, <3>2, <3>3 DEF Register, GroupInv, GroupType
  <2> QED BY <2>1, <2>2
<1> QED BY <1>1, <1>2 DEF GroupInv, RegisteredOpen

(* The end of a request removes the entry of its id, which is the only one *)
(* that may refer to this request, and closes no channel of another id.    *)
LEMMA EndGroup ==
  ASSUME GroupInv, NEW n \in Conns, Serving(n), EndRequest(n)
  PROVE  GroupInv'
<1>1. connId[n] \in Ids
  BY DEF GroupInv, GroupType, Serving
<1>2. GroupType'
  BY <1>1 DEF EndRequest, UnregisterConsumer, GroupInv, GroupType
<1>3. ASSUME NEW j \in Ids, consumers'[j] # None
      PROVE  connId'[consumers'[j]] = j /\ ~chanClosed'[consumers'[j]]
  <2>1. j # connId[n] /\ consumers'[j] = consumers[j] /\ consumers[j] \in Conns
    BY <1>1, <1>3 DEF EndRequest, UnregisterConsumer, GroupInv, GroupType
  <2>2. connId[consumers[j]] = j /\ ~chanClosed[consumers[j]]
    BY <2>1, NoneAssumption DEF GroupInv, RegisteredOpen
  <2>3. consumers[j] # n
    BY <2>1, <2>2
  <2>4. consumers[j] # consumers[connId[n]]
    <3> SUFFICES ASSUME consumers[j] = consumers[connId[n]] PROVE FALSE
      OBVIOUS
    <3>1. connId[consumers[connId[n]]] = connId[n]
      BY <1>1, <2>1, NoneAssumption DEF GroupInv, RegisteredOpen
    <3> QED BY <2>1, <2>2, <3>1
  <2> QED BY <2>1, <2>2, <2>3, <2>4 DEF EndRequest, UnregisterConsumer, GroupInv, GroupType
<1> QED BY <1>2, <1>3 DEF GroupInv, RegisteredOpen

(* GroupInv is inductive.                                                  *)
LEMMA StepGroup == GroupInv /\ [Next]_vars => GroupInv'
<1> SUFFICES ASSUME GroupInv, [Next]_vars PROVE GroupInv'
  OBVIOUS
<1>1. ASSUME NEW m \in Msgs, Publish(m) \/ Settle(m) \/ GiveBack(m) PROVE GroupInv'
  BY <1>1, SameGroup DEF Publish, Settle, GiveBack, groupVars
<1>2. ASSUME NEW n \in Conns, RequestNext(n) PROVE GroupInv'
  <2>1. CASE \E i \in Ids : Register(n, i)
    BY <2>1, RegisterGroup
  <2>2. CASE ClientGone(n) \/ ChannelClosed(n)
    BY <2>2, EndGroup DEF ClientGone, ChannelClosed
  <2>3. CASE SendEvent(n)
    BY <2>3, SameGroup DEF SendEvent
  <2> QED BY <1>2, <2>1, <2>2, <2>3 DEF RequestNext
<1>3. ASSUME NEW d \in Deliverers, DelivererNext(d) PROVE GroupInv'
  BY <1>3, SameGroup DEF DelivererNext, Stop, ReadGroup, PopMessage, PopFails, AddToPEL,
     AddToPELError, Requeue, Deliver, groupVars
<1>4. CASE Drain \/ Close \/ CloseReturns \/ Abort
  BY <1>4, SameGroup DEF Drain, Close, CloseReturns, Abort, groupVars
<1>5. CASE UNCHANGED vars
  BY <1>5, SameGroup DEF vars, groupVars
<1> QED BY <1>1, <1>2, <1>3, <1>4, <1>5 DEF Next

(* No delivery sends on a closed channel and no channel is closed twice,   *)
(* whatever registrations under the same id and late ends of requests do.  *)
THEOREM NoClosedChannelUsed == Spec => []RegisteredOpen
<1>1. GroupInv => RegisteredOpen
  BY DEF GroupInv
<1> QED BY <1>1, InitGroup, StepGroup, PTL DEF Spec

-----------------------------------------------------------------------------
(* What a goroutine holds at each point of its loop: consumer ids as long  *)
(* as a batch runs, a message from the pop to the end of the turn.         *)
Working ==
    \A d \in Deliverers :
        /\ dpc[d] \in {"zadd", "requeue", "deliver"} => hand[d] \in Msgs
        /\ dpc[d] \in {"pop", "zadd", "requeue", "deliver"} => ids[d] # <<>>
        /\ dpc[d] \in {"off", "top", "pop"} => hand[d] = None

(* The types; inductive with Working and with a registry that is finite.   *)
TypeInv == TypeOK /\ Working /\ IsFiniteSet(Registered)

(* Nothing is there and nobody works at the start.                         *)
LEMMA InitType == Init => TypeInv
<1> SUFFICES ASSUME Init PROVE TypeInv
  OBVIOUS
<1>1. TypeOK
  BY SizeAssumption, EmptyList DEF Init, TypeOK
<1>2. Working
  BY DEF Init, Working
<1>3. Registered = {}
  BY DEF Init, Registered
<1> QED BY <1>1, <1>2, <1>3, FS_EmptySet DEF TypeInv

(* Steps of the producer, of the client and of the timeout.                *)
LEMMA OutsideType ==
  ASSUME TypeInv, NEW m \in Msgs, Publish(m) \/ Settle(m) \/ GiveBack(m)
  PROVE  TypeInv'
<1>1. queue \in Seq(Msgs)
  BY DEF TypeInv, TypeOK
<1>2. Append(queue, m) \in Seq(Msgs) /\ <<m>> \o queue \in Seq(Msgs)
  BY <1>1, FrontType
<1>3. queue' \in Seq(Msgs)
  BY <1>1, <1>2 DEF Publish, Settle, GiveBack, RequeueMessage
<1>4. pel' \in SUBSET Msgs /\ atClient' \in SUBSET Msgs /\ published' \in SUBSET Msgs
      /\ acked' \in SUBSET Msgs /\ dropped' \in SUBSET Msgs
  <2>1. CASE Publish(m) \/ GiveBack(m)
    BY <2>1 DEF Publish, GiveBack, TypeInv, TypeOK, hisVars
  <2>2. CASE Settle(m)
    BY <2>2 DEF Settle, TypeInv, TypeOK
  <2> QED BY <2>1, <2>2
<1>5. returns' \in 0..MaxReturns /\ faults' \in 0..MaxFaults
  BY SizeAssumption DEF Publish, Settle, GiveBack, TypeInv, TypeOK
<1>6. UNCHANGED <<groupVars, delVars, svc>>
  BY DEF Publish, Settle, GiveBack
<1>7. TypeOK'
  BY <1>3, <1>4, <1>5, <1>6 DEF TypeInv, TypeOK, groupVars, delVars
<1>8. Working' /\ Registered' = Registered
  BY <1>6 DEF TypeInv, Working, Registered, groupVars, delVars
<1> QED BY <1>7, <1>8 DEF TypeInv

(* Registration and end of a request keep the registry finite.             *)
LEMMA RequestType ==
  ASSUME TypeInv, NEW n \in Conns, RequestNext(n)
  PROVE  TypeInv'
<1>1. ASSUME NEW i \in Ids, Register(n, i) PROVE TypeInv'
  <2>1. dpc' \in [Deliverers -> {"off", "top", "pop", "zadd", "requeue", "deliver"}]
    BY <1>1 DEF Register, TypeInv, TypeOK
  <2>2. chan' \in [Conns -> Seq(Msgs)] /\ \A k \in Conns : Len(chan'[k]) <= ChanSize
    BY <1>1, SizeAssumption, EmptyList DEF Register, TypeInv, TypeOK
  <2>3. /\ consumers' \in [Ids -> Conns \cup {None}]
        /\ chanClosed' \in [Conns -> BOOLEAN] /\ connId' \in [Conns -> Ids \cup {None}]
    BY <1>1 DEF Register, TypeInv, TypeOK
  <2>4. TypeOK'
    BY <1>1, <2>1, <2>2, <2>3 DEF Register, TypeInv, TypeOK, redisVars, hisVars
  <2>5. \A d \in Deliverers : dpc'[d] = dpc[d] \/ (dpc[d] = "off" /\ dpc'[d] = "top")
    BY <1>1 DEF Register, TypeInv, TypeOK
  <2>6. Working'
    BY <1>1, <2>5 DEF Register, TypeInv, Working
  <2>7. Registered' = Registered \cup {i}
    BY <1>1, NoneAssumption DEF Register, TypeInv, TypeOK, Registered
  <2>8. IsFiniteSet(Registered')
    BY <2>7, FS_AddElement DEF TypeInv
  <2> QED BY <2>4, <2>6, <2>8 DEF TypeInv
<1>2. CASE ClientGone(n) \/ ChannelClosed(n)
  <2>1. Serving(n) /\ EndRequest(n)
    BY <1>2 DEF ClientGone, ChannelClosed
  <2>2. connId[n] \in Ids
    BY <2>1 DEF Serving, TypeInv, TypeOK
  <2>3. chan' \in [Conns -> Seq(Msgs)] /\ \A k \in Conns : Len(chan'[k]) <= ChanSize
    BY <2>1, SizeAssumption, EmptyList DEF EndRequest, TypeInv, TypeOK
  <2>4. /\ consumers' \in [Ids -> Conns \cup {None}]
        /\ chanClosed' \in [Conns -> BOOLEAN] /\ connId' \in [Conns -> Ids \cup {None}]
    BY <2>1, <2>2 DEF EndRequest, UnregisterConsumer, TypeInv, TypeOK
  <2>5. TypeOK'
    BY <2>1, <2>3, <2>4 DEF EndRequest, TypeInv, TypeOK, redisVars, delVars, hisVars
  <2>6. Working'
    BY <2>1 DEF EndRequest, TypeInv, Working, delVars
  <2>7. Registered' \subseteq Registered
    BY <2>1, <2>2 DEF EndRequest, UnregisterConsumer, TypeInv, TypeOK, Registered
  <2>8. IsFiniteSet(Registered')
    BY <2>7, FS_Subset DEF TypeInv
  <2> QED BY <2>5, <2>6, <2>8 DEF TypeInv
<1>3. CASE SendEvent(n)
  <2>1. chan[n] \in Seq(Msgs) /\ chan[n] # <<>> /\ Len(chan[n]) <= ChanSize
    BY <1>3 DEF SendEvent, TypeInv, TypeOK
  <2>2. /\ Head(chan[n]) \in Msgs /\ Tail(chan[n]) \in Seq(Msgs)
        /\ Len(Tail(chan[n])) <= ChanSize
    BY <2>1, SizeAssumption
  <2>3. chan' \in [Conns -> Seq(Msgs)] /\ \A k \in Conns : Len(chan'[k]) <= ChanSize
    BY <1>3, <2>2 DEF SendEvent, TypeInv, TypeOK
  <2>4. atClient' \in SUBSET Msgs
    BY <1>3, <2>2 DEF SendEvent, TypeInv, TypeOK
  <2>5. TypeOK'
    BY <1>3, <2>3, <2>4 DEF SendEvent, TypeInv, TypeOK, redisVars, delVars, hisVars
  <2>6. Working' /\ Registered' = Registered
    BY <1>3 DEF SendEvent, TypeInv, Working, Registered, delVars
  <2> QED BY <2>5, <2>6 DEF TypeInv
<1> QED BY <1>1, <1>2, <1>3 DEF RequestNext

(* The end of a turn: the ids are rotated, or dropped with the batch.      *)
LEMMA TurnType ==
  ASSUME TypeInv, NEW d \in Deliverers, dpc[d] \in {"requeue", "deliver"}, NextTurn(d)
  PROVE  /\ dpc' \in [Deliverers -> {"off", "top", "pop", "zadd", "requeue", "deliver"}]
         /\ ids' \in [Deliverers -> Seq(Ids)] /\ turn' \in [Deliverers -> 0..BatchSize]
         /\ hand' \in [Deliverers -> Msgs \cup {None}]
         /\ Working'
<1>1. ids[d] \in Seq(Ids) /\ ids[d] # <<>> /\ turn[d] \in 0..BatchSize
  BY DEF TypeInv, TypeOK, Working
<1>2. PICK s \in Seq(Ids), i \in Ids : s = Tail(ids[d]) /\ i = Head(ids[d])
  BY <1>1, PopType
<1>3. PICK r \in Seq(Ids) : r = Append(s, i) /\ r # <<>>
  <2>1. Append(s, i) \in Seq(Ids)
    OBVIOUS
  <2>2. Append(s, i) # <<>>
    OBVIOUS
  <2> QED BY <2>1, <2>2
<1>4. hand' = [hand EXCEPT ![d] = None]
  BY DEF NextTurn
<1>5. \/ /\ turn' = [turn EXCEPT ![d] = @ + 1] /\ turn[d] + 1 < BatchSize
         /\ dpc' = [dpc EXCEPT ![d] = "pop"] /\ ids' = [ids EXCEPT ![d] = r]
      \/ /\ turn' = [turn EXCEPT ![d] = 0]
         /\ dpc' = [dpc EXCEPT ![d] = "top"] /\ ids' = [ids EXCEPT ![d] = <<>>]
  BY <1>2, <1>3 DEF NextTurn, EndBatch
<1>6. turn' \in [Deliverers -> 0..BatchSize]
  <2>1. turn \in [Deliverers -> 0..BatchSize]
    BY DEF TypeInv, TypeOK
  <2>2. 0 \in 0..BatchSize /\ (turn[d] + 1 < BatchSize => turn[d] + 1 \in 0..BatchSize)
    BY <1>1, SizeAssumption
  <2> QED BY <1>5, <2>1, <2>2
<1>7. ids' \in [Deliverers -> Seq(Ids)]
  <2>1. ids \in [Deliverers -> Seq(Ids)]
    BY DEF TypeInv, TypeOK
  <2> QED BY <1>5, <2>1, EmptyList
<1>8. /\ dpc' \in [Deliverers -> {"off", "top", "pop", "zadd", "requeue", "deliver"}]
      /\ hand' \in [Deliverers -> Msgs \cup {None}]
  BY <1>4, <1>5 DEF TypeInv, TypeOK
<1>9. Working'
  BY <1>3, <1>4, <1>5 DEF TypeInv, TypeOK, Working
<1> QED BY <1>6, <1>7, <1>8, <1>9

(* The steps of a delivery goroutine.                                      *)
LEMMA DelivererType ==
  ASSUME TypeInv, NEW d \in Deliverers, DelivererNext(d)
  PROVE  TypeInv'
<1>1. CASE Stop(d)
  <2>1. TypeOK'
    BY <1>1 DEF Stop, TypeInv, TypeOK, redisVars, groupVars, hisVars
  <2>2. Working' /\ Registered' = Registered
    BY <1>1 DEF Stop, TypeInv, TypeOK, Working, Registered, groupVars
  <2> QED BY <2>1, <2>2 DEF TypeInv
<1>2. CASE ReadGroup(d)
  <2>1. PICK p \in [1..Cardinality(Registered) -> Registered] :
          (\A i \in Registered : In(i, p)) /\ ids' = [ids EXCEPT ![d] = p]
    BY <1>2 DEF ReadGroup
  <2>2. Cardinality(Registered) \in Nat /\ Registered \subseteq Ids /\ Registered # {}
    BY <1>2, FS_CardinalityType DEF ReadGroup, TypeInv, Registered
  <2>3. p \in Seq(Ids)
    BY <2>2
  <2>4. p # <<>>
    BY <2>1, <2>2 DEF In
  <2>5. ids' \in [Deliverers -> Seq(Ids)]
    BY <2>1, <2>3 DEF TypeInv, TypeOK
  <2>6. TypeOK'
    BY <1>2, <2>5 DEF ReadGroup, TypeInv, TypeOK, redisVars, groupVars, hisVars
  <2>7. Working' /\ Registered' = Registered
    BY <1>2, <2>1, <2>4 DEF ReadGroup, TypeInv, TypeOK, Working, Registered, groupVars
  <2> QED BY <2>6, <2>7 DEF TypeInv
<1>3. CASE PopMessage(d)
  <2>1. Head(queue) \in Msgs /\ Tail(queue) \in Seq(Msgs)
    BY <1>3, PopType DEF PopMessage, TypeInv, TypeOK
  <2>2. TypeOK'
    BY <1>3, <2>1 DEF PopMessage, AfterPop, TypeInv, TypeOK, groupVars, hisVars
  <2>3. Working' /\ Registered' = Registered
    BY <1>3, <2>1 DEF PopMessage, TypeInv, TypeOK, Working, Registered, groupVars
  <2> QED BY <2>2, <2>3 DEF TypeInv
<1>4. CASE PopFails(d)
  <2>1. queue' \in Seq(Msgs) /\ dropped' \in SUBSET Msgs
    <3>1. CASE UNCHANGED <<queue, dropped>>
      BY <3>1 DEF TypeInv, TypeOK
    <3>2. CASE queue # <<>> /\ queue' = Tail(queue) /\ dropped' = dropped \cup {Head(queue)}
      BY <3>2, PopType DEF TypeInv, TypeOK
    <3> QED BY <1>4, <3>1, <3>2 DEF PopFails
  <2>2. faults' \in 0..MaxFaults
    BY <1>4, SizeAssumption DEF PopFails, RedisError, TypeInv, TypeOK
  <2>3. /\ dpc' = [dpc EXCEPT ![d] = "top"] /\ ids' = [ids EXCEPT ![d] = <<>>]
        /\ turn' = [turn EXCEPT ![d] = 0]
        /\ UNCHANGED <<pel, groupVars, hand, svc, atClient, published, acked, returns>>
    BY <1>4 DEF PopFails, EndBatch
  <2>4. TypeOK'
    BY <2>1, <2>2, <2>3, EmptyList, SizeAssumption DEF TypeInv, TypeOK, groupVars
  <2>5. dpc[d] = "pop"
    BY <1>4 DEF PopFails
  <2>6. Working' /\ Registered' = Registered
    BY <2>3, <2>5 DEF TypeInv, TypeOK, Working, Registered, groupVars
  <2> QED BY <2>4, <2>6 DEF TypeInv
<1>5. CASE AddToPEL(d) \/ AddToPELError(d)
  <2>1. hand[d] \in Msgs
    BY <1>5 DEF AddToPEL, AddToPELError, TypeInv, Working
  <2>2. pel' \in SUBSET Msgs
    BY <1>5, <2>1 DEF AddToPEL, AddToPELError, ZAdd, TypeInv, TypeOK
  <2>3. faults' \in 0..MaxFaults
    BY <1>5, SizeAssumption DEF AddToPEL, AddToPELError, RedisError, TypeInv, TypeOK
  <2>4. /\ \/ dpc' = [dpc EXCEPT ![d] = "deliver"]
           \/ dpc' = [dpc EXCEPT ![d] = "requeue"]
        /\ dpc[d] = "zadd"
        /\ UNCHANGED <<queue, groupVars, ids, turn, hand, svc, atClient, hisVars, returns>>
    BY <1>5 DEF AddToPEL, AddToPELError
  <2>5. TypeOK'
    BY <2>2, <2>3, <2>4 DEF TypeInv, TypeOK, groupVars, hisVars
  <2>6. Working' /\ Registered' = Registered
    BY <2>1, <2>4 DEF TypeInv, TypeOK, Working, Registered, groupVars
  <2> QED BY <2>5, <2>6 DEF TypeInv
<1>6. CASE Requeue(d)
  <2>1. dpc[d] = "requeue" /\ NextTurn(d) /\ hand[d] \in Msgs
    BY <1>6 DEF Requeue, TypeInv, Working
  <2>2. <<hand[d]>> \o queue \in Seq(Msgs)
    BY <2>1, FrontType DEF TypeInv, TypeOK
  <2>3. queue' \in Seq(Msgs) /\ dropped' \in SUBSET Msgs
    BY <1>6, <2>1, <2>2 DEF Requeue, RequeueMessage, TypeInv, TypeOK
  <2>4. faults' \in 0..MaxFaults
    BY <1>6, SizeAssumption DEF Requeue, RedisError, TypeInv, TypeOK
  <2>5. UNCHANGED <<pel, groupVars, svc, atClient, published, acked, returns>>
    BY <1>6 DEF Requeue
  <2>6. TypeOK' /\ Working'
    BY <2>1, <2>3, <2>4, <2>5, TurnType DEF TypeInv, TypeOK, groupVars
  <2>7. Registered' = Registered
    BY <2>5 DEF Registered, groupVars
  <2> QED BY <2>6, <2>7 DEF TypeInv
<1>7. CASE Deliver(d)
  <2>1. dpc[d] = "deliver" /\ NextTurn(d) /\ hand[d] \in Msgs
    BY <1>7 DEF Deliver, TypeInv, Working
  <2>2. UNCHANGED <<redisVars, consumers, chanClosed, connId, svc, atClient, hisVars,
                    returns, faults>>
    BY <1>7 DEF Deliver
  <2>3. ids[d] \in Seq(Ids) /\ ids[d] # <<>>
    BY <2>1 DEF TypeInv, TypeOK, Working
  <2>4. PICK i \in Ids : i = Head(ids[d])
    BY <2>3
  <2>5. chan' \in [Conns -> Seq(Msgs)] /\ \A k \in Conns : Len(chan'[k]) <= ChanSize
    <3>1. CASE Reaches(i)
      <4>1. PICK n \in Conns : n = consumers[i] /\ Len(chan[n]) < ChanSize
        BY <3>1 DEF Reaches, TypeInv, TypeOK
      <4>2. chan' = [chan EXCEPT ![n] = Append(chan[n], hand[d])]
        BY <1>7, <2>4, <3>1, <4>1 DEF Deliver
      <4>3. chan[n] \in Seq(Msgs)
        BY DEF TypeInv, TypeOK
      <4>4. /\ Append(chan[n], hand[d]) \in Seq(Msgs)
            /\ Len(Append(chan[n], hand[d])) <= ChanSize
        BY <2>1, <4>1, <4>3, SizeAssumption
      <4> QED BY <4>2, <4>4 DEF TypeInv, TypeOK
    <3>2. CASE ~Reaches(i)
      BY <1>7, <2>4, <3>2 DEF Deliver, TypeInv, TypeOK
    <3> QED BY <3>1, <3>2
  <2>6. TypeOK' /\ Working'
    BY <2>1, <2>2, <2>5, TurnType DEF TypeInv, TypeOK, redisVars, hisVars
  <2>7. Registered' = Registered
    BY <2>2 DEF Registered
  <2> QED BY <2>6, <2>7 DEF TypeInv
<1> QED BY <1>1, <1>2, <1>3, <1>4, <1>5, <1>6, <1>7 DEF DelivererNext

(* TypeInv is inductive.                                                   *)
LEMMA StepType == TypeInv /\ [Next]_vars => TypeInv'
<1> SUFFICES ASSUME TypeInv, [Next]_vars PROVE TypeInv'
  OBVIOUS
<1>1. CASE Drain \/ Close \/ CloseReturns
  <2>1. TypeOK'
    BY <1>1 DEF Drain, Close, CloseReturns, TypeInv, TypeOK, redisVars, groupVars, delVars, hisVars
  <2>2. Working' /\ Registered' = Registered
    BY <1>1 DEF Drain, Close, CloseReturns, TypeInv, Working, Registered, groupVars, delVars
  <2> QED BY <2>1, <2>2 DEF TypeInv
<1>2. CASE Abort
  <2>1. \A d \in Deliverers : dpc[d] \in {"zadd", "requeue"} => hand[d] \in Msgs
    BY DEF TypeInv, Working
  <2>2. dropped' \in SUBSET Msgs
    BY <1>2, <2>1 DEF Abort, TypeInv, TypeOK
  <2>3. TypeOK'
    BY <1>2, <2>2, EmptyList, SizeAssumption DEF Abort, TypeInv, TypeOK, redisVars, groupVars
  <2>4. Working' /\ Registered' = Registered
    BY <1>2 DEF Abort, TypeInv, Working, Registered, groupVars
  <2> QED BY <2>3, <2>4 DEF TypeInv
<1>3. CASE UNCHANGED vars
  <2>1. TypeOK'
    BY <1>3 DEF vars, TypeInv, TypeOK, redisVars, groupVars, delVars, hisVars
  <2>2. Working' /\ Registered' = Registered
    BY <1>3 DEF vars, TypeInv, Working, Registered, groupVars, delVars
  <2> QED BY <2>1, <2>2 DEF TypeInv
<1> QED BY <1>1, <1>2, <1>3, OutsideType, RequestType, DelivererType DEF Next

(* Every variable keeps its type; in particular no channel holds more than *)
(* its capacity and a goroutine that delivers has an id to deliver to.     *)
THEOREM DeliveryTypes == Spec => []TypeOK
<1>1. TypeInv => TypeOK
  BY DEF TypeInv
<1> QED BY <1>1, InitType, StepType, PTL DEF Spec

-----------------------------------------------------------------------------
(* Where a published message is, if it is not settled or dropped.          *)
Kept(m) ==
    \/ In(m, queue) \/ m \in pel \/ Held(m) \/ m \in acked
    \/ m \in dropped /\ (faults > 0 \/ svc \in {"closing", "closed"})

(* A drop stays on record, and so does the failure it is blamed on.        *)
LEMMA BlameStays ==
  ASSUME TypeInv, [Next]_vars, NEW m \in dropped, faults > 0 \/ svc \in {"closing", "closed"}
  PROVE  Kept(m)'
<1>1. dropped \subseteq dropped'
  BY DEF Next, Publish, Settle, GiveBack, RequestNext, Register, ClientGone, ChannelClosed,
     EndRequest, SendEvent, DelivererNext, Stop, ReadGroup, PopMessage, PopFails, AddToPEL,
     AddToPELError, Requeue, Deliver, Drain, Close, CloseReturns, Abort, vars, hisVars
<1>2. faults \in Nat /\ faults' \in {faults, faults + 1}
  BY DEF Next, Publish, Settle, GiveBack, RequestNext, Register, ClientGone, ChannelClosed,
     EndRequest, SendEvent, DelivererNext, Stop, ReadGroup, PopMessage, PopFails, AddToPEL,
     AddToPELError, Requeue, Deliver, Drain, Close, CloseReturns, Abort, vars, RedisError,
     TypeInv, TypeOK
<1>3. svc \in {"closing", "closed"} => svc' \in {"closing", "closed"}
  BY DEF Next, Publish, Settle, GiveBack, RequestNext, Register, ClientGone, ChannelClosed,
     EndRequest, SendEvent, DelivererNext, Stop, ReadGroup, PopMessage, PopFails, AddToPEL,
     AddToPELError, Requeue, Deliver, Drain, Close, CloseReturns, Abort, vars
<1>4. faults > 0 => faults' > 0
  BY <1>2
<1> QED BY <1>1, <1>3, <1>4 DEF Kept

(* A step of a goroutine moves the message it works on and no other.       *)
LEMMA DelivererKeeps ==
  ASSUME TypeInv, NEW d \in Deliverers, DelivererNext(d), NEW m \in Msgs,
         In(m, queue) \/ m \in pel \/ Held(m) \/ m \in acked
  PROVE  Kept(m)'
<1>1. queue \in Seq(Msgs) /\ faults \in Nat
  BY DEF TypeInv, TypeOK
<1>2. CASE Stop(d) \/ ReadGroup(d) \/ Deliver(d)
  <2>1. UNCHANGED <<queue, pel, acked>>
    BY <1>2 DEF Stop, ReadGroup, Deliver, redisVars, hisVars
  <2>2. ASSUME NEW e \in Deliverers, dpc[e] \in {"zadd", "requeue"}
        PROVE  dpc'[e] = dpc[e] /\ hand'[e] = hand[e]
    BY <1>2, <2>2 DEF Stop, ReadGroup, Deliver, NextTurn, EndBatch, TypeInv, TypeOK
  <2> QED BY <2>1, <2>2 DEF Kept, Held
<1>3. CASE PopMessage(d)
  <2>1. In(m, queue) => In(m, queue') \/ m = Head(queue)
    BY <1>1, <1>3, InPop DEF PopMessage, AfterPop
  <2>2. UNCHANGED <<pel, acked>> /\ hand'[d] = Head(queue) /\ dpc'[d] = "zadd"
    BY <1>3 DEF PopMessage, TypeInv, TypeOK, hisVars
  <2>3. ASSUME NEW e \in Deliverers, dpc[e] \in {"zadd", "requeue"}
        PROVE  dpc'[e] = dpc[e] /\ hand'[e] = hand[e]
    BY <1>3, <2>3 DEF PopMessage, TypeInv, TypeOK
  <2> QED BY <2>1, <2>2, <2>3 DEF Kept, Held
<1>4. CASE PopFails(d)
  <2>1. UNCHANGED <<pel, acked, hand>>
    BY <1>4 DEF PopFails
  <2>2. ASSUME NEW e \in Deliverers, dpc[e] \in {"zadd", "requeue"}
        PROVE  dpc'[e] = dpc[e]
    BY <1>4, <2>2 DEF PopFails, EndBatch, TypeInv, TypeOK
  <2>3. CASE UNCHANGED queue
    BY <2>1, <2>2, <2>3 DEF Kept, Held
  <2>4. CASE Connected /\ queue # <<>> /\ RedisError
             /\ queue' = Tail(queue) /\ dropped' = dropped \cup {Head(queue)}
    <3>1. In(m, queue) => In(m, queue') \/ m = Head(queue)
      BY <1>1, <2>4, InPop
    <3>2. faults' > 0
      BY <1>1, <2>4 DEF Connected, RedisError
    <3> QED BY <2>1, <2>2, <2>4, <3>1, <3>2 DEF Kept, Held
  <2> QED BY <1>4, <2>3, <2>4 DEF PopFails
<1>5. CASE AddToPEL(d) \/ AddToPELError(d)
  <2>1. UNCHANGED <<queue, acked, hand>> /\ pel \subseteq pel'
    BY <1>5 DEF AddToPEL, AddToPELError, ZAdd, hisVars
  <2>2. ASSUME NEW e \in Deliverers, dpc[e] \in {"zadd", "requeue"}
        PROVE  dpc'[e] \in {"zadd", "requeue"} \/ (e = d /\ hand[d] \in pel')
    BY <1>5, <2>2 DEF AddToPEL, AddToPELError, ZAdd, TypeInv, TypeOK
  <2> QED BY <2>1, <2>2 DEF Kept, Held
<1>6. CASE Requeue(d)
  <2>1. hand[d] \in Msgs /\ dpc[d] = "requeue"
    BY <1>6 DEF Requeue, TypeInv, Working
  <2>2. UNCHANGED <<pel, acked, svc>>
    BY <1>6 DEF Requeue
  <2>3. ASSUME NEW e \in Deliverers, dpc[e] \in {"zadd", "requeue"}, e # d
        PROVE  dpc'[e] = dpc[e] /\ hand'[e] = hand[e]
    BY <1>6, <2>3 DEF Requeue, NextTurn, EndBatch, TypeInv, TypeOK
  <2>4. CASE RequeueMessage(hand[d])
    <3>1. In(m, queue') <=> In(m, queue) \/ m = hand[d]
      BY <1>1, <2>1, <2>4, InFront DEF RequeueMessage
    <3> QED BY <2>2, <2>3, <3>1 DEF Kept, Held
  <2>5. CASE RedisError /\ dropped' = dropped \cup {hand[d]} /\ UNCHANGED queue
    <3>1. faults' > 0 \/ svc' = "closing"
      BY <1>1, <2>2, <2>5 DEF RedisError
    <3> QED BY <2>2, <2>3, <2>5, <3>1 DEF Kept, Held
  <2> QED BY <1>6, <2>4, <2>5 DEF Requeue
<1> QED BY <1>2, <1>3, <1>4, <1>5, <1>6 DEF DelivererNext

(* NoSilentLoss is inductive relative to TypeInv.                          *)
LEMMA StepKept == TypeInv /\ NoSilentLoss /\ [Next]_vars => NoSilentLoss'
<1> SUFFICES ASSUME TypeInv, NoSilentLoss, [Next]_vars, NEW m \in published' PROVE Kept(m)'
  BY DEF NoSilentLoss, Kept
<1>1. queue \in Seq(Msgs)
  BY DEF TypeInv, TypeOK
<1>2. ASSUME NEW k \in Msgs, Publish(k), m = k PROVE Kept(m)'
  <2>1. In(m, queue')
    BY <1>1, <1>2, InAppend DEF Publish
  <2> QED BY <2>1 DEF Kept
<1>3. m \in published \/ \E k \in Msgs : Publish(k) /\ m = k
  BY DEF Next, Publish, Settle, GiveBack, RequestNext, Register, ClientGone, ChannelClosed,
     EndRequest, SendEvent, DelivererNext, Stop, ReadGroup, PopMessage, PopFails, AddToPEL,
     AddToPELError, Requeue, Deliver, Drain, Close, CloseReturns, Abort, vars, hisVars
<1>4. CASE m \in published /\ m \in dropped /\ (faults > 0 \/ svc \in {"closing", "closed"})
  BY <1>4, BlameStays
<1>5. CASE m \in published /\ (In(m, queue) \/ m \in pel \/ Held(m) \/ m \in acked)
  <2>0. m \in Msgs
    BY <1>5 DEF TypeInv, TypeOK
  <2>1. ASSUME NEW k \in Msgs, Publish(k) PROVE Kept(m)'
    <3>1. In(m, queue) => In(m, queue')
      BY <1>1, <2>1, InAppend DEF Publish
    <3> QED BY <1>5, <2>1, <3>1 DEF Publish, Kept, Held, delVars
  <2>2. ASSUME NEW k \in Msgs, Settle(k) PROVE Kept(m)'
    <3>1. acked \subseteq acked' /\ (m \in pel => m \in pel' \/ m \in acked')
      BY <2>2 DEF Settle
    <3> QED BY <1>5, <2>2, <3>1 DEF Settle, Kept, Held, delVars
  <2>3. ASSUME NEW k \in Msgs, GiveBack(k) PROVE Kept(m)'
    <3>1. In(m, queue') <=> In(m, queue) \/ m = k
      BY <1>1, <2>3, InFront DEF GiveBack, RequeueMessage
    <3>2. m \in pel => m \in pel' \/ m = k
      BY <2>3 DEF GiveBack
    <3> QED BY <1>5, <2>3, <3>1, <3>2 DEF GiveBack, Kept, Held, delVars, hisVars
  <2>4. ASSUME NEW n \in Conns, RequestNext(n) PROVE Kept(m)'
    <3>1. UNCHANGED <<queue, pel, hand, acked>>
      BY <2>4 DEF RequestNext, Register, ClientGone, ChannelClosed, EndRequest, SendEvent,
         redisVars, delVars, hisVars
    <3>2. ASSUME NEW e \in Deliverers, dpc[e] \in {"zadd", "requeue"} PROVE dpc'[e] = dpc[e]
      BY <2>4, <3>2 DEF RequestNext, Register, ClientGone, ChannelClosed, EndRequest,
         SendEvent, delVars, TypeInv, TypeOK
    <3> QED BY <1>5, <3>1, <3>2 DEF Kept, Held
  <2>5. CASE \E d \in Deliverers : DelivererNext(d)
    BY <1>5, <2>0, <2>5, DelivererKeeps
  <2>6. CASE Drain \/ Close \/ CloseReturns \/ UNCHANGED vars
    BY <1>5, <2>6 DEF Drain, Close, CloseReturns, vars, redisVars, delVars, hisVars, Kept, Held
  <2>7. CASE Abort
    <3>1. UNCHANGED <<queue, pel, acked>> /\ svc' = "closed"
      BY <2>7 DEF Abort, redisVars
    <3>2. Held(m) => m \in dropped'
      BY <2>7 DEF Abort, Held
    <3> QED BY <1>5, <3>1, <3>2 DEF Kept
  <2> QED BY <2>1, <2>2, <2>3, <2>4, <2>5, <2>6, <2>7 DEF Next
<1> QED BY <1>2, <1>3, <1>4, <1>5 DEF NoSilentLoss

(* A message that found its consumer gone or its channel full is still     *)
(* pending, and no interleaving of pops, requeues, timeouts and            *)
(* settlements loses one without a counted failure.                        *)
THEOREM NoMessageSkipped == Spec => []NoSilentLoss
<1>1. Init => NoSilentLoss
  BY DEF Init, NoSilentLoss
<1> QED BY <1>1, InitType, StepType, StepKept, PTL DEF Spec

-----------------------------------------------------------------------------
(* A message nobody published is nowhere.                                  *)
Unknown(m) ==
    /\ ~In(m, queue) /\ m \notin pel /\ m \notin atClient
    /\ \A d \in Deliverers : hand[d] # m
    /\ \A n \in Conns : ~In(m, chan[n])

KnownInv == \A m \in Msgs \ published : Unknown(m)

(* The goroutines that hold a message.                                     *)
HeldBy(m) == {d \in Deliverers : hand[d] = m}

(* The copies DeliveredOnce counts.                                        *)
Copies(m) ==
    Occurrences(m, queue) + Cardinality(HeldBy(m)) + Cardinality(InChannels(m))
    + (IF m \in atClient THEN 1 ELSE 0)

(* All that is counted is finite.                                          *)
LEMMA CountType ==
  ASSUME TypeInv, NEW m
  PROVE  /\ Occurrences(m, queue) \in Nat
         /\ IsFiniteSet(HeldBy(m)) /\ Cardinality(HeldBy(m)) \in Nat
         /\ IsFiniteSet(InChannels(m)) /\ Cardinality(InChannels(m)) \in Nat
<1>1. Occurrences(m, queue) \in Nat
  BY OccurrencesType DEF TypeInv, TypeOK
<1>2. IsFiniteSet(HeldBy(m))
  BY FiniteAssumption, FS_Subset DEF HeldBy
<1>3. IsFiniteSet(1..ChanSize)
  BY SizeAssumption, FS_Interval
<1>4. IsFiniteSet(Conns \X (1..ChanSize))
  BY <1>3, FiniteAssumption, FS_Product
<1>5. IsFiniteSet(InChannels(m))
  BY <1>4, FS_Subset DEF InChannels
<1> QED BY <1>1, <1>2, <1>5, FS_CardinalityType

(* A send on a channel with room adds a copy of what is sent.              *)
LEMMA ChannelSend ==
  ASSUME TypeInv, NEW m, NEW n \in Conns, NEW x \in Msgs, Len(chan[n]) < ChanSize,
         chan' = [chan EXCEPT ![n] = Append(chan[n], x)]
  PROVE  Cardinality(InChannels(m)') = Cardinality(InChannels(m)) + (IF m = x THEN 1 ELSE 0)
<1> DEFINE c == chan[n]
           p == <<n, Len(c) + 1>>
<1>1. chan \in [Conns -> Seq(Msgs)] /\ c \in Seq(Msgs)
  BY DEF TypeInv, TypeOK
<1>2. /\ Len(c) \in Nat /\ Len(Append(c, x)) = Len(c) + 1 /\ Append(c, x)[Len(c) + 1] = x
      /\ \A k \in 1..Len(c) : Append(c, x)[k] = c[k]
  BY <1>1
<1>3. chan'[n] = Append(c, x) /\ \A k \in Conns \ {n} : chan'[k] = chan[k]
  BY <1>1
<1>4. p \in Conns \X (1..ChanSize) /\ p \notin InChannels(m)
  BY <1>2, SizeAssumption DEF InChannels
<1>5. ASSUME NEW k \in Conns, NEW j \in 1..ChanSize, <<k, j>> # p
      PROVE  (j <= Len(chan'[k]) /\ chan'[k][j] = m) <=> (j <= Len(chan[k]) /\ chan[k][j] = m)
  <2>1. CASE k # n
    BY <1>3, <2>1
  <2>2. CASE k = n
    <3>1. j # Len(c) + 1
      BY <1>5, <2>2
    <3>2. j <= Len(c) + 1 <=> j <= Len(c)
      BY <1>2, <3>1
    <3> QED BY <1>2, <1>3, <2>2, <3>2
  <2> QED BY <2>1, <2>2
<1>6. chan'[n][Len(c) + 1] = x /\ Len(c) + 1 <= Len(chan'[n])
  BY <1>2, <1>3
<1>7. CASE m = x
  <2>1. InChannels(m)' = InChannels(m) \cup {p}
    BY <1>4, <1>5, <1>6, <1>7 DEF InChannels
  <2>2. Cardinality(InChannels(m)') = Cardinality(InChannels(m)) + 1
    BY <1>4, <2>1, CountType, FS_AddElement
  <2> QED BY <1>7, <2>2
<1>8. CASE m # x
  <2>1. InChannels(m)' = InChannels(m)
    BY <1>4, <1>5, <1>6, <1>8 DEF InChannels
  <2>2. Cardinality(InChannels(m)') = Cardinality(InChannels(m))
    BY <2>1
  <2> QED BY <1>8, <2>2, CountType
<1> QED BY <1>7, <1>8

(* A receive takes the copy at the head away.                              *)
LEMMA ChannelReceive ==
  ASSUME TypeInv, NEW m, NEW n \in Conns, chan[n] # <<>>,
         chan' = [chan EXCEPT ![n] = Tail(chan[n])]
  PROVE  /\ IsFiniteSet(InChannels(m)')
         /\ Cardinality(InChannels(m)') + (IF m = Head(chan[n]) THEN 1 ELSE 0)
               <= Cardinality(InChannels(m))
<1> DEFINE c == chan[n]
           p == <<n, 1>>
           S == InChannels(m)'
           T == InChannels(m) \ {p}
           f == [a \in S |-> IF a[1] = n THEN <<n, a[2] + 1>> ELSE a]
<1>1. chan \in [Conns -> Seq(Msgs)] /\ c \in Seq(Msgs) /\ c # <<>> /\ Len(c) <= ChanSize
  BY DEF TypeInv, TypeOK
<1>2. /\ Len(c) \in Nat /\ Len(c) > 0 /\ Len(Tail(c)) = Len(c) - 1 /\ Head(c) = c[1]
      /\ \A k \in 1..Len(c) - 1 : Tail(c)[k] = c[k + 1]
  BY <1>1
<1>3. chan'[n] = Tail(c) /\ \A k \in Conns \ {n} : chan'[k] = chan[k]
  BY <1>1
<1>4. \A a \in S : /\ a[1] \in Conns /\ a[2] \in 1..ChanSize /\ a = <<a[1], a[2]>>
                   /\ a \in Conns \X (1..ChanSize)
                   /\ a[2] <= Len(chan'[a[1]]) /\ chan'[a[1]][a[2]] = m
  BY DEF InChannels
<1>5. ASSUME NEW a \in S, a[1] = n PROVE <<n, a[2] + 1>> \in T
  <2>0. a[2] \in 1..ChanSize /\ a[2] <= Len(Tail(c)) /\ Tail(c)[a[2]] = m
    BY <1>3, <1>4, <1>5
  <2>1. a[2] \in 1..Len(c) - 1 /\ c[a[2] + 1] = m
    BY <1>2, <2>0, SizeAssumption
  <2>2. a[2] + 1 \in 1..ChanSize /\ a[2] + 1 <= Len(c) /\ a[2] + 1 # 1
    BY <1>1, <1>2, <2>1, SizeAssumption
  <2> QED BY <2>1, <2>2 DEF InChannels
<1>6. ASSUME NEW a \in S, a[1] # n PROVE a \in T
  <2>1. chan'[a[1]] = chan[a[1]]
    BY <1>3, <1>4, <1>6
  <2>2. a \in Conns \X (1..ChanSize) /\ a[2] <= Len(chan[a[1]]) /\ chan[a[1]][a[2]] = m
    <3> HIDE DEF S
    <3> QED BY <1>4, <2>1
  <2> QED BY <1>6, <2>2 DEF InChannels
<1>7. f \in [S -> T]
  BY <1>5, <1>6
<1>8. ASSUME NEW a \in S, NEW b \in S, f[a] = f[b] PROVE a = b
  <2>1. a[2] \in Int /\ b[2] \in Int /\ a = <<a[1], a[2]>> /\ b = <<b[1], b[2]>>
    BY <1>4, SizeAssumption
  <2>2. CASE a[1] = n /\ b[1] = n
    <3>1. <<n, a[2] + 1>> = <<n, b[2] + 1>>
      BY <1>8, <2>2
    <3>2. a[2] = b[2]
      BY <2>1, <3>1
    <3> QED BY <2>1, <2>2, <3>2
  <2>3. CASE a[1] # n /\ b[1] # n
    BY <1>8, <2>3
  <2>4. CASE a[1] # n /\ b[1] = n
    <3>1. a = <<n, b[2] + 1>>
      BY <1>8, <2>4
    <3> QED BY <2>4, <3>1
  <2>5. CASE a[1] = n /\ b[1] # n
    <3>1. b = <<n, a[2] + 1>>
      BY <1>8, <2>5
    <3> QED BY <2>5, <3>1
  <2> QED BY <2>2, <2>3, <2>4, <2>5
<1>9. f \in Injection(S, T)
  BY <1>7, <1>8 DEF Injection, IsInjective
<1>10. IsFiniteSet(InChannels(m)) /\ Cardinality(InChannels(m)) \in Nat
  BY CountType
<1>11. IsFiniteSet(T)
  BY <1>10, FS_Subset
<1> HIDE DEF S, T, f
<1>12. IsFiniteSet(S) /\ Cardinality(S) <= Cardinality(T)
  BY <1>9, <1>11, FS_Injection
<1>13. Cardinality(S) \in Nat /\ Cardinality(T) \in Nat
  BY <1>11, <1>12, FS_CardinalityType
<1>14. CASE m = Head(c)
  <2>1. p \in InChannels(m)
    BY <1>1, <1>2, <1>14, SizeAssumption DEF InChannels
  <2>2. Cardinality(T) = Cardinality(InChannels(m)) - 1
    BY <1>10, <2>1, FS_RemoveElement DEF T
  <2>3. Cardinality(S) + 1 <= Cardinality(InChannels(m))
    BY <1>10, <1>12, <1>13, <2>2
  <2> QED BY <1>12, <1>14, <2>3 DEF S
<1>15. CASE m # Head(c)
  <2>1. Cardinality(T) <= Cardinality(InChannels(m))
    BY <1>10, FS_Subset DEF T
  <2>2. Cardinality(S) + 0 <= Cardinality(InChannels(m))
    BY <1>10, <1>12, <1>13, <2>1
  <2> QED BY <1>12, <1>15, <2>2 DEF S
<1> QED BY <1>14, <1>15

(* A channel that is made anew or thrown away holds nothing.               *)
LEMMA ChannelEmptied ==
  ASSUME TypeInv, NEW m, NEW n \in Conns, chan' = [chan EXCEPT ![n] = <<>>]
  PROVE  /\ IsFiniteSet(InChannels(m)')
         /\ Cardinality(InChannels(m)') <= Cardinality(InChannels(m))
<1>1. chan'[n] = <<>> /\ \A k \in Conns \ {n} : chan'[k] = chan[k]
  BY DEF TypeInv, TypeOK
<1>2. ASSUME NEW a \in InChannels(m)' PROVE a \in InChannels(m)
  <2>1. a \in Conns \X (1..ChanSize) /\ a[2] <= Len(chan'[a[1]]) /\ chan'[a[1]][a[2]] = m
    BY DEF InChannels
  <2>2. a[1] # n
    BY <1>1, <2>1, SizeAssumption
  <2> QED BY <1>1, <2>1, <2>2 DEF InChannels
<1> QED BY <1>2, CountType, FS_Subset

(* What a goroutine takes up it did not hold, and it held what it puts     *)
(* down.                                                                   *)
LEMMA HandTakes ==
  ASSUME TypeInv, NEW m \in Msgs, NEW d \in Deliverers, hand[d] = None, NEW x,
         hand' = [hand EXCEPT ![d] = x]
  PROVE  Cardinality(HeldBy(m)') = Cardinality(HeldBy(m)) + (IF m = x THEN 1 ELSE 0)
<1>1. hand'[d] = x /\ \A e \in Deliverers \ {d} : hand'[e] = hand[e]
  BY DEF TypeInv, TypeOK
<1>2. d \notin HeldBy(m)
  BY NoneAssumption DEF HeldBy
<1>3. CASE m = x
  <2>1. HeldBy(m)' = HeldBy(m) \cup {d}
    BY <1>1, <1>3 DEF HeldBy
  <2>2. Cardinality(HeldBy(m)') = Cardinality(HeldBy(m)) + 1
    BY <1>2, <2>1, CountType, FS_AddElement
  <2> QED BY <1>3, <2>2
<1>4. CASE m # x
  <2>1. HeldBy(m)' = HeldBy(m)
    BY <1>1, <1>2, <1>4 DEF HeldBy
  <2>2. Cardinality(HeldBy(m)') = Cardinality(HeldBy(m))
    BY <2>1
  <2> QED BY <1>4, <2>2, CountType
<1> QED BY <1>3, <1>4

LEMMA HandGives ==
  ASSUME TypeInv, NEW m \in Msgs, NEW d \in Deliverers, hand' = [hand EXCEPT ![d] = None]
  PROVE  /\ Cardinality(HeldBy(m)') \in Nat
         /\ Cardinality(HeldBy(m)') + (IF m = hand[d] THEN 1 ELSE 0) = Cardinality(HeldBy(m))
<1>1. hand'[d] = None /\ \A e \in Deliverers \ {d} : hand'[e] = hand[e]
  BY DEF TypeInv, TypeOK
<1>2. HeldBy(m)' = HeldBy(m) \ {d}
  BY <1>1, NoneAssumption DEF HeldBy
<1>3. IsFiniteSet(HeldBy(m)) /\ Cardinality(HeldBy(m)) \in Nat
  BY CountType
<1>4. IsFiniteSet(HeldBy(m)')
  BY <1>2, <1>3, FS_Subset
<1>5. Cardinality(HeldBy(m)') \in Nat
  BY <1>4, FS_CardinalityType
<1>6. CASE m = hand[d]
  <2>1. d \in HeldBy(m)
    BY <1>6 DEF HeldBy
  <2>2. Cardinality(HeldBy(m)') = Cardinality(HeldBy(m)) - 1
    BY <1>2, <1>3, <2>1, FS_RemoveElement
  <2> QED BY <1>3, <1>5, <1>6, <2>2
<1>7. CASE m # hand[d]
  <2>1. HeldBy(m)' = HeldBy(m)
    BY <1>2, <1>7 DEF HeldBy
  <2>2. Cardinality(HeldBy(m)') = Cardinality(HeldBy(m))
    BY <2>1
  <2> QED BY <1>3, <1>5, <1>7, <2>2
<1> QED BY <1>6, <1>7

(* KnownInv is inductive relative to TypeInv: every step moves messages    *)
(* that are somewhere already.                                             *)
LEMMA StepKnown == TypeInv /\ KnownInv /\ [Next]_vars => KnownInv'
<1> SUFFICES ASSUME TypeInv, KnownInv, [Next]_vars, NEW m \in Msgs, m \notin published'
             PROVE  Unknown(m)'
  BY DEF KnownInv
<1>1. queue \in Seq(Msgs) /\ chan \in [Conns -> Seq(Msgs)]
  BY DEF TypeInv, TypeOK
<1>2. m \notin published
  BY DEF Next, Publish, Settle, GiveBack, RequestNext, Register, ClientGone, ChannelClosed,
     EndRequest, SendEvent, DelivererNext, Stop, ReadGroup, PopMessage, PopFails, AddToPEL,
     AddToPELError, Requeue, Deliver, Drain, Close, CloseReturns, Abort, vars, hisVars
<1>3. Unknown(m)
  BY <1>2 DEF KnownInv
<1>4. ASSUME NEW k \in Msgs, Publish(k) PROVE Unknown(m)'
  <2>1. m # k
    BY <1>4 DEF Publish
  <2>2. ~In(m, queue')
    BY <1>1, <1>3, <1>4, <2>1, InAppend DEF Publish, Unknown
  <2> QED BY <1>3, <1>4, <2>2 DEF Publish, Unknown, delVars, groupVars
<1>5. ASSUME NEW k \in Msgs, Settle(k) PROVE Unknown(m)'
  BY <1>3, <1>5 DEF Settle, Unknown, delVars, groupVars
<1>6. ASSUME NEW k \in Msgs, GiveBack(k) PROVE Unknown(m)'
  <2>1. m # k
    BY <1>3, <1>6 DEF GiveBack, Unknown
  <2>2. ~In(m, queue')
    BY <1>1, <1>3, <1>6, <2>1, InFront DEF GiveBack, RequeueMessage, Unknown
  <2> QED BY <1>3, <1>6, <2>2 DEF GiveBack, Unknown, delVars, groupVars
<1>7. ASSUME NEW n \in Conns, RequestNext(n) PROVE Unknown(m)'
  <2>1. UNCHANGED <<queue, pel, hand>>
    BY <1>7 DEF RequestNext, Register, ClientGone, ChannelClosed, EndRequest, SendEvent,
       redisVars, delVars
  <2>2. CASE chan' = [chan EXCEPT ![n] = <<>>] /\ UNCHANGED atClient
    <3>1. ~In(m, <<>>)
      BY DEF In
    <3>2. \A k \in Conns : chan'[k] = <<>> \/ chan'[k] = chan[k]
      BY <1>1, <2>2
    <3> QED BY <1>3, <2>1, <2>2, <3>1, <3>2 DEF Unknown
  <2>3. CASE SendEvent(n)
    <3>1. chan[n] \in Seq(Msgs) /\ chan[n] # <<>> /\ ~In(m, chan[n])
      BY <1>1, <1>3, <2>3 DEF SendEvent, Unknown
    <3>2. ~In(m, Tail(chan[n])) /\ m # Head(chan[n])
      BY <3>1, InPopOnly
    <3>3. \A k \in Conns : chan'[k] = Tail(chan[n]) \/ chan'[k] = chan[k]
      BY <1>1, <2>3 DEF SendEvent
    <3>4. m \notin atClient'
      BY <1>3, <2>3, <3>2 DEF SendEvent, Unknown
    <3> QED BY <1>3, <2>1, <3>2, <3>3, <3>4 DEF Unknown
  <2> QED BY <1>7, <2>2, <2>3 DEF RequestNext, Register, ClientGone, ChannelClosed, EndRequest
<1>8. ASSUME NEW d \in Deliverers, DelivererNext(d) PROVE Unknown(m)'
  <2>1. UNCHANGED atClient
    BY <1>8 DEF DelivererNext, Stop, ReadGroup, PopMessage, PopFails, AddToPEL,
       AddToPELError, Requeue, Deliver
  <2>2. CASE Stop(d) \/ ReadGroup(d)
    BY <1>3, <2>2 DEF Stop, ReadGroup, redisVars, groupVars, Unknown
  <2>3. CASE PopMessage(d) \/ PopFails(d)
    <3>1. queue # <<>> => ~In(m, Tail(queue)) /\ m # Head(queue)
      BY <1>1, <1>3, InPopOnly DEF Unknown
    <3>2. ~In(m, queue')
      BY <1>3, <2>3, <3>1 DEF PopMessage, AfterPop, PopFails, Unknown
    <3>3. \A e \in Deliverers : hand'[e] # m
      BY <1>3, <2>3, <3>1 DEF PopMessage, PopFails, TypeInv, TypeOK, Unknown
    <3>4. UNCHANGED <<pel, chan>>
      BY <2>3 DEF PopMessage, PopFails, groupVars
    <3> QED BY <1>3, <2>1, <3>2, <3>3, <3>4 DEF Unknown
  <2>4. CASE AddToPEL(d) \/ AddToPELError(d)
    <3>1. m \notin pel'
      BY <1>3, <2>4 DEF AddToPEL, AddToPELError, ZAdd, Unknown
    <3> QED BY <1>3, <2>1, <2>4, <3>1 DEF AddToPEL, AddToPELError, groupVars, Unknown
  <2>5. CASE Requeue(d) \/ Deliver(d)
    <3>1. hand[d] \in Msgs /\ hand[d] # m
      BY <1>3, <2>5 DEF Requeue, Deliver, TypeInv, Working, Unknown
    <3>2. ~In(m, <<hand[d]>> \o queue)
      BY <1>1, <1>3, <3>1, InFront DEF Unknown
    <3>3. ~In(m, queue')
      BY <1>3, <2>5, <3>2 DEF Requeue, RequeueMessage, Deliver, redisVars, Unknown
    <3>4. hand' = [hand EXCEPT ![d] = None]
      BY <2>5 DEF Requeue, Deliver, NextTurn
    <3>5. \A e \in Deliverers : hand'[e] # m
      BY <1>3, <3>4, NoneAssumption DEF TypeInv, TypeOK, Unknown
    <3>6. UNCHANGED pel
      BY <2>5 DEF Requeue, Deliver, redisVars
    <3>7. ASSUME NEW n \in Conns PROVE ~In(m, chan'[n])
      <4>1. chan'[n] = chan[n] \/ chan'[n] = Append(chan[n], hand[d])
        BY <1>1, <2>5 DEF Requeue, Deliver, groupVars
      <4>2. ~In(m, Append(chan[n], hand[d]))
        BY <1>1, <1>3, <3>1, InAppend DEF Unknown
      <4> QED BY <1>3, <4>1, <4>2 DEF Unknown
    <3> QED BY <1>3, <2>1, <3>3, <3>5, <3>6, <3>7 DEF Unknown
  <2> QED BY <1>8, <2>2, <2>3, <2>4, <2>5 DEF DelivererNext
<1>9. CASE Drain \/ Close \/ CloseReturns \/ UNCHANGED vars
  BY <1>3, <1>9 DEF Drain, Close, CloseReturns, vars, redisVars, groupVars, delVars, Unknown
<1>10. CASE Abort
  BY <1>3, <1>10, NoneAssumption DEF Abort, redisVars, groupVars, Unknown
<1> QED BY <1>4, <1>5, <1>6, <1>7, <1>8, <1>9, <1>10 DEF Next

(* DeliveredOnce for one message.                                          *)
Once(m) == Copies(m) <= 1 + returns + faults

(* Nothing of an unpublished message is counted.                           *)
LEMMA UnknownCount ==
  ASSUME TypeInv, NEW m \in Msgs, Unknown(m)
  PROVE  Occurrences(m, queue) = 0 /\ HeldBy(m) = {} /\ InChannels(m) = {}
<1>1. Occurrences(m, queue) = 0
  BY NoOccurrence DEF TypeInv, TypeOK, Unknown
<1>2. HeldBy(m) = {}
  BY DEF HeldBy, Unknown
<1>3. ASSUME NEW a \in InChannels(m) PROVE FALSE
  <2>1. /\ a[1] \in Conns /\ a[2] \in 1..ChanSize
        /\ a[2] <= Len(chan[a[1]]) /\ chan[a[1]][a[2]] = m
    BY DEF InChannels
  <2>2. chan[a[1]] \in Seq(Msgs)
    BY <2>1 DEF TypeInv, TypeOK
  <2>3. a[2] \in 1..Len(chan[a[1]])
    BY <2>1, <2>2, SizeAssumption
  <2>4. In(m, chan[a[1]])
    BY <2>1, <2>3 DEF In
  <2> QED BY <2>1, <2>4 DEF Unknown
<1> QED BY <1>1, <1>2, <1>3

(* The counts and the budgets as numbers.                                  *)
LEMMA CountNames ==
  ASSUME TypeInv, NEW m \in Msgs
  PROVE  \E q \in Nat, h \in Nat, c \in Nat, r \in Nat, f \in Nat :
           /\ q = Occurrences(m, queue) /\ h = Cardinality(HeldBy(m))
           /\ c = Cardinality(InChannels(m)) /\ r = returns /\ f = faults
<1>1. returns \in Nat /\ faults \in Nat
  BY SizeAssumption DEF TypeInv, TypeOK
<1>2. /\ Occurrences(m, queue) \in Nat /\ Cardinality(HeldBy(m)) \in Nat
      /\ Cardinality(InChannels(m)) \in Nat
  BY CountType
<1> QED BY <1>1, <1>2

(* A publication makes the first copy, a Nack or a timeout one more.       *)
LEMMA OutsideOnce ==
  ASSUME TypeInv, KnownInv, NEW k \in Msgs, Publish(k) \/ Settle(k) \/ GiveBack(k),
         NEW m \in Msgs, Once(m)
  PROVE  Once(m)'
<1>1. PICK q \in Nat, h \in Nat, c \in Nat, r \in Nat, f \in Nat :
        /\ q = Occurrences(m, queue) /\ h = Cardinality(HeldBy(m))
        /\ c = Cardinality(InChannels(m)) /\ r = returns /\ f = faults
  BY CountNames
<1>2. HeldBy(m)' = HeldBy(m) /\ InChannels(m)' = InChannels(m) /\ faults' = faults
  BY DEF Publish, Settle, GiveBack, HeldBy, InChannels, delVars, groupVars
<1>3. q + h + c + (IF m \in atClient THEN 1 ELSE 0) <= 1 + r + f
  BY <1>1 DEF Once, Copies
<1>4. CASE Publish(k)
  <2>1. UNCHANGED <<atClient, returns>> /\ queue' = Append(queue, k) /\ k \notin published
    BY <1>4 DEF Publish
  <2>2. Occurrences(m, queue') = q + (IF m = k THEN 1 ELSE 0)
    BY <1>1, <2>1, OccurrencesAppend DEF TypeInv, TypeOK
  <2>3. CASE m = k
    <3>1. Unknown(m)
      BY <2>1, <2>3 DEF KnownInv
    <3>2. q = 0 /\ h = 0 /\ c = 0 /\ m \notin atClient
      BY <1>1, <3>1, UnknownCount, FS_EmptySet DEF Unknown
    <3>3. Copies(m)' = 1 + 0 + 0 + 0
      BY <1>1, <1>2, <2>1, <2>2, <2>3, <3>2 DEF Copies
    <3> QED BY <1>1, <1>2, <2>1, <3>3 DEF Once
  <2>4. CASE m # k
    <3>1. Copies(m)' = q + h + c + (IF m \in atClient THEN 1 ELSE 0)
      BY <1>1, <1>2, <2>1, <2>2, <2>4 DEF Copies
    <3> QED BY <1>1, <1>2, <1>3, <2>1, <3>1 DEF Once
  <2> QED BY <2>3, <2>4
<1>5. CASE Settle(k)
  <2>1. UNCHANGED <<queue, returns>> /\ (m \in atClient' => m \in atClient)
    BY <1>5 DEF Settle
  <2>2. Copies(m)' = q + h + c + (IF m \in atClient' THEN 1 ELSE 0)
    BY <1>1, <1>2, <2>1 DEF Copies
  <2>3. q + h + c + (IF m \in atClient' THEN 1 ELSE 0) <= 1 + r + f
    BY <1>3, <2>1
  <2> QED BY <1>1, <1>2, <2>1, <2>2, <2>3 DEF Once
<1>6. CASE GiveBack(k)
  <2>1. UNCHANGED atClient /\ queue' = <<k>> \o queue /\ returns' = r + 1
    BY <1>1, <1>6 DEF GiveBack, RequeueMessage
  <2>2. Occurrences(m, queue') = q + (IF m = k THEN 1 ELSE 0)
    BY <1>1, <2>1, OccurrencesFront DEF TypeInv, TypeOK
  <2>3. Copies(m)' = q + (IF m = k THEN 1 ELSE 0) + h + c + (IF m \in atClient THEN 1 ELSE 0)
    BY <1>1, <1>2, <2>1, <2>2 DEF Copies
  <2>4. q + (IF m = k THEN 1 ELSE 0) + h + c + (IF m \in atClient THEN 1 ELSE 0)
          <= 1 + (r + 1) + f
    BY <1>3
  <2> QED BY <1>1, <1>2, <2>1, <2>3, <2>4 DEF Once
<1> QED BY <1>4, <1>5, <1>6

(* A request hands a copy to its client, or throws its channel away.       *)
LEMMA RequestOnce ==
  ASSUME TypeInv, NEW n \in Conns, RequestNext(n), NEW m \in Msgs, Once(m)
  PROVE  Once(m)'
<1>1. PICK q \in Nat, h \in Nat, c \in Nat, r \in Nat, f \in Nat :
        /\ q = Occurrences(m, queue) /\ h = Cardinality(HeldBy(m))
        /\ c = Cardinality(InChannels(m)) /\ r = returns /\ f = faults
  BY CountNames
<1>2. q + h + c + (IF m \in atClient THEN 1 ELSE 0) <= 1 + r + f
  BY <1>1 DEF Once, Copies
<1>3. UNCHANGED <<queue, hand, returns, faults>>
  BY DEF RequestNext, Register, ClientGone, ChannelClosed, EndRequest, SendEvent,
     redisVars, delVars
<1>4. HeldBy(m)' = HeldBy(m)
  BY <1>3 DEF HeldBy
<1>5. CASE chan' = [chan EXCEPT ![n] = <<>>] /\ UNCHANGED atClient
  <2>2. IsFiniteSet(InChannels(m)') /\ Cardinality(InChannels(m)') <= c
    BY <1>1, <1>5, ChannelEmptied
  <2>3. PICK b \in Nat : b = Cardinality(InChannels(m)')
    BY <2>2, FS_CardinalityType
  <2>4. Copies(m)' = q + h + b + (IF m \in atClient THEN 1 ELSE 0)
    BY <1>1, <1>3, <1>4, <1>5, <2>3 DEF Copies
  <2>5. q + h + b + (IF m \in atClient THEN 1 ELSE 0) <= 1 + r + f
    BY <1>2, <2>2, <2>3
  <2> QED BY <1>1, <1>3, <2>4, <2>5 DEF Once
<1>6. CASE SendEvent(n)
  <2>1. chan' = [chan EXCEPT ![n] = Tail(chan[n])] /\ chan[n] # <<>>
    BY <1>6 DEF SendEvent
  <2>2. /\ IsFiniteSet(InChannels(m)')
        /\ Cardinality(InChannels(m)') + (IF m = Head(chan[n]) THEN 1 ELSE 0) <= c
    BY <1>1, <2>1, ChannelReceive
  <2>3. PICK b \in Nat : b = Cardinality(InChannels(m)')
    BY <2>2, FS_CardinalityType
  <2>4. m \in atClient' => m \in atClient \/ m = Head(chan[n])
    BY <1>6 DEF SendEvent
  <2>5. Copies(m)' = q + h + b + (IF m \in atClient' THEN 1 ELSE 0)
    BY <1>1, <1>3, <1>4, <2>3 DEF Copies
  <2>6. b + (IF m = Head(chan[n]) THEN 1 ELSE 0) <= c
    BY <2>2, <2>3
  <2>7. q + h + b + (IF m \in atClient' THEN 1 ELSE 0) <= 1 + r + f
    BY <1>2, <2>4, <2>6
  <2> QED BY <1>1, <1>3, <2>5, <2>7 DEF Once
<1> QED BY <1>5, <1>6 DEF RequestNext, Register, ClientGone, ChannelClosed, EndRequest

(* A goroutine moves a copy from the list to its hand, back, or to one     *)
(* channel.                                                                *)
LEMMA DelivererOnce ==
  ASSUME TypeInv, NEW d \in Deliverers, DelivererNext(d), NEW m \in Msgs, Once(m)
  PROVE  Once(m)'
<1>1. PICK q \in Nat, h \in Nat, c \in Nat, r \in Nat, f \in Nat :
        /\ q = Occurrences(m, queue) /\ h = Cardinality(HeldBy(m))
        /\ c = Cardinality(InChannels(m)) /\ r = returns /\ f = faults
  BY CountNames
<1>2. PICK a \in Nat : a = (IF m \in atClient THEN 1 ELSE 0)
  OBVIOUS
<1>3. q + h + c + a <= 1 + r + f
  BY <1>1, <1>2 DEF Once, Copies
<1>4. UNCHANGED <<atClient, returns>>
  BY DEF DelivererNext, Stop, ReadGroup, PopMessage, PopFails, AddToPEL, AddToPELError,
     Requeue, Deliver
<1>5. faults' = f \/ faults' = f + 1
  BY <1>1 DEF DelivererNext, Stop, ReadGroup, PopMessage, PopFails, AddToPEL, AddToPELError,
     Requeue, Deliver, RedisError
<1>6. ASSUME NEW x \in Nat, NEW y \in Nat, NEW z \in Nat, x + y + z <= q + h + c,
             x = Occurrences(m, queue'), y = Cardinality(HeldBy(m)'),
             z = Cardinality(InChannels(m)')
      PROVE  Once(m)'
  <2>1. Copies(m)' = x + y + z + a
    BY <1>2, <1>4, <1>6 DEF Copies
  <2>2. x + y + z + a <= 1 + r + faults'
    BY <1>3, <1>5, <1>6
  <2> QED BY <1>1, <1>4, <2>1, <2>2 DEF Once
<1>7. CASE Stop(d) \/ ReadGroup(d) \/ AddToPEL(d) \/ AddToPELError(d)
  <2>1. UNCHANGED <<queue, hand, chan>>
    BY <1>7 DEF Stop, ReadGroup, AddToPEL, AddToPELError, redisVars, groupVars
  <2>2. HeldBy(m)' = HeldBy(m) /\ InChannels(m)' = InChannels(m)
    BY <2>1 DEF HeldBy, InChannels
  <2> QED BY <1>1, <1>6, <2>1, <2>2
<1>8. CASE PopMessage(d)
  <2>1. /\ queue # <<>> /\ queue' = Tail(queue) /\ hand[d] = None
        /\ hand' = [hand EXCEPT ![d] = Head(queue)] /\ UNCHANGED chan
    BY <1>8 DEF PopMessage, AfterPop, TypeInv, Working, groupVars
  <2>2. InChannels(m)' = InChannels(m)
    BY <2>1 DEF InChannels
  <2>3. PICK x \in Nat : x = Occurrences(m, Tail(queue))
    BY <2>1, PopType, OccurrencesType DEF TypeInv, TypeOK
  <2>4. q = x + (IF m = Head(queue) THEN 1 ELSE 0)
    BY <1>1, <2>1, <2>3, OccurrencesPop DEF TypeInv, TypeOK
  <2>5. Cardinality(HeldBy(m)') = h + (IF m = Head(queue) THEN 1 ELSE 0)
    BY <1>1, <2>1, HandTakes
  <2>6. PICK y \in Nat : y = h + (IF m = Head(queue) THEN 1 ELSE 0)
    OBVIOUS
  <2>7. x + y + c <= q + h + c
    BY <2>4, <2>6
  <2> QED BY <1>1, <1>6, <2>1, <2>2, <2>3, <2>5, <2>6, <2>7
<1>9. CASE PopFails(d)
  <2>1. UNCHANGED <<hand, chan>> /\ (queue' = queue \/ (queue # <<>> /\ queue' = Tail(queue)))
    BY <1>9 DEF PopFails, groupVars
  <2>2. HeldBy(m)' = HeldBy(m) /\ InChannels(m)' = InChannels(m)
    BY <2>1 DEF HeldBy, InChannels
  <2>3. CASE queue' = queue
    BY <1>1, <1>6, <2>2, <2>3
  <2>4. CASE queue # <<>> /\ queue' = Tail(queue)
    <3>1. PICK x \in Nat : x = Occurrences(m, Tail(queue))
      BY <2>4, PopType, OccurrencesType DEF TypeInv, TypeOK
    <3>2. q = x + (IF m = Head(queue) THEN 1 ELSE 0)
      BY <1>1, <2>4, <3>1, OccurrencesPop DEF TypeInv, TypeOK
    <3>3. x + h + c <= q + h + c
      BY <3>2
    <3> QED BY <1>1, <1>6, <2>2, <2>4, <3>1, <3>3
  <2> QED BY <2>1, <2>3, <2>4
<1>10. CASE Requeue(d) \/ Deliver(d)
  <2>1. hand' = [hand EXCEPT ![d] = None] /\ hand[d] \in Msgs
    BY <1>10 DEF Requeue, Deliver, NextTurn, TypeInv, Working
  <2>2. PICK y \in Nat : y = Cardinality(HeldBy(m)')
                         /\ y + (IF m = hand[d] THEN 1 ELSE 0) = h
    BY <1>1, <2>1, HandGives
  <2>3. CASE Requeue(d)
    <3>1. UNCHANGED chan /\ (queue' = queue \/ queue' = <<hand[d]>> \o queue)
      BY <2>3 DEF Requeue, RequeueMessage, groupVars
    <3>2. InChannels(m)' = InChannels(m)
      BY <3>1 DEF InChannels
    <3>3. Occurrences(m, <<hand[d]>> \o queue) = q + (IF m = hand[d] THEN 1 ELSE 0)
      BY <1>1, <2>1, OccurrencesFront DEF TypeInv, TypeOK
    <3>4. PICK x \in Nat : x = Occurrences(m, queue') /\ x <= q + (IF m = hand[d] THEN 1 ELSE 0)
      <4>1. Occurrences(m, queue') \in {q, q + (IF m = hand[d] THEN 1 ELSE 0)}
        BY <1>1, <3>1, <3>3
      <4>2. \A x \in {q, q + (IF m = hand[d] THEN 1 ELSE 0)} :
              x \in Nat /\ x <= q + (IF m = hand[d] THEN 1 ELSE 0)
        OBVIOUS
      <4> QED BY <4>1, <4>2
    <3>5. x + y + c <= q + h + c
      BY <2>2, <3>4
    <3> QED BY <1>1, <1>6, <2>2, <3>2, <3>4, <3>5
  <2>4. CASE Deliver(d)
    <3>1. UNCHANGED queue
      BY <2>4 DEF Deliver, redisVars
    <3>2. PICK i \in Ids : i = Head(ids[d])
      <4>1. ids[d] \in Seq(Ids) /\ ids[d] # <<>>
        BY <2>4 DEF Deliver, TypeInv, TypeOK, Working
      <4> QED BY <4>1
    <3>3. CASE Reaches(i)
      <4>1. PICK n \in Conns : n = consumers[i] /\ Len(chan[n]) < ChanSize
        BY <3>3 DEF Reaches, TypeInv, TypeOK
      <4>2. chan' = [chan EXCEPT ![n] = Append(chan[n], hand[d])]
        BY <2>4, <3>2, <3>3, <4>1 DEF Deliver
      <4>3. Cardinality(InChannels(m)') = c + (IF m = hand[d] THEN 1 ELSE 0)
        BY <1>1, <2>1, <4>1, <4>2, ChannelSend
      <4>4. PICK z \in Nat : z = c + (IF m = hand[d] THEN 1 ELSE 0)
        OBVIOUS
      <4>5. q + y + z <= q + h + c
        BY <2>2, <4>4
      <4> QED BY <1>1, <1>6, <2>2, <3>1, <4>3, <4>4, <4>5
    <3>4. CASE ~Reaches(i)
      <4>1. InChannels(m)' = InChannels(m)
        BY <2>4, <3>2, <3>4 DEF Deliver, InChannels
      <4>2. q + y + c <= q + h + c
        BY <2>2
      <4> QED BY <1>1, <1>6, <2>2, <3>1, <4>1, <4>2
    <3> QED BY <3>3, <3>4
  <2> QED BY <1>10, <2>3, <2>4
<1> QED BY <1>7, <1>8, <1>9, <1>10 DEF DelivererNext

(* DeliveredOnce is inductive relative to TypeInv and KnownInv.            *)
LEMMA StepOnce == TypeInv /\ KnownInv /\ DeliveredOnce /\ [Next]_vars => DeliveredOnce'
<1> SUFFICES ASSUME TypeInv, KnownInv, DeliveredOnce, [Next]_vars, NEW m \in Msgs
             PROVE  Once(m)'
  BY DEF DeliveredOnce, Once, Copies, HeldBy
<1>1. Once(m)
  BY DEF DeliveredOnce, Once, Copies, HeldBy
<1>2. CASE Drain \/ Close \/ CloseReturns \/ UNCHANGED vars
  <2>1. UNCHANGED <<queue, hand, chan, atClient, returns, faults>>
    BY <1>2 DEF Drain, Close, CloseReturns, vars, redisVars, groupVars, delVars
  <2> QED BY <1>1, <2>1 DEF Once, Copies, HeldBy, InChannels
<1>3. CASE Abort
  <2>1. UNCHANGED <<queue, chan, atClient, returns, faults>> /\ HeldBy(m)' = {}
    BY <1>3, NoneAssumption DEF Abort, redisVars, groupVars, HeldBy
  <2>2. InChannels(m)' = InChannels(m)
    BY <2>1 DEF InChannels
  <2>3. PICK q \in Nat, h \in Nat, c \in Nat, r \in Nat, f \in Nat :
          /\ q = Occurrences(m, queue) /\ h = Cardinality(HeldBy(m))
          /\ c = Cardinality(InChannels(m)) /\ r = returns /\ f = faults
    BY CountNames
  <2>4. q + h + c + (IF m \in atClient THEN 1 ELSE 0) <= 1 + r + f
    BY <1>1, <2>3 DEF Once, Copies
  <2>5. Copies(m)' = q + 0 + c + (IF m \in atClient THEN 1 ELSE 0)
    BY <2>1, <2>2, <2>3, FS_EmptySet DEF Copies
  <2>6. q + 0 + c + (IF m \in atClient THEN 1 ELSE 0) <= 1 + r + f
    BY <2>4
  <2> QED BY <2>1, <2>3, <2>5, <2>6 DEF Once
<1> QED BY <1>1, <1>2, <1>3, OutsideOnce, RequestOnce, DelivererOnce DEF Next

(* However many delivery goroutines registrations have started, a message  *)
(* has one copy, plus one for each timeout, Nack or Redis error.           *)
THEOREM NoDuplicateDelivery == Spec => []DeliveredOnce
<1>1. Init => KnownInv
  BY NoneAssumption DEF Init, KnownInv, Unknown, In
<1>2. Init => DeliveredOnce
  <2> SUFFICES ASSUME Init, NEW m \in Msgs PROVE Once(m)
    BY DEF DeliveredOnce, Once, Copies, HeldBy
  <2>1. TypeInv /\ Unknown(m)
    BY <1>1, InitType DEF KnownInv, Init
  <2>2. Copies(m) = 0 + 0 + 0 + 0
    BY <2>1, UnknownCount, FS_EmptySet DEF Copies, Unknown
  <2> QED BY <2>2 DEF Once, Init
<1> QED BY <1>1, <1>2, InitType, StepType, StepKnown, StepOnce, PTL DEF Spec

=============================================================================
