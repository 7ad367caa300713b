------------------------ MODULE InMemoryQueueProofs ------------------------
(***************************************************************************)
(* Proofs about the in-memory queue, for any numbers of messages and       *)
(* handlers and any sizes of the buffer and the worker pool.               *)
(***************************************************************************)
EXTENDS InMemoryQueue, ListTheorems

(* TypeOK without the two counters whose range needs an argument.          *)
Types ==
    /\ messages \in Seq(Msgs) /\ Len(messages) <= BufferSize /\ chanClosed \in BOOLEAN
    /\ closed \in BOOLEAN /\ running \in BOOLEAN /\ cancelled \in BOOLEAN
    /\ subs \in SUBSET Handlers
    /\ pub \in [Msgs -> {"new", "select", "count", "ok", "error", "panic"}]
    /\ early \in SUBSET Msgs
    /\ dpc \in {"recv", "drain", "spawn", "acquire", "done"} /\ dback \in {"recv", "drain"}
    /\ dmsg \in Msgs \cup {None} /\ dtodo \in SUBSET Handlers
    /\ dcur \in Handlers \cup {None}
    /\ task \in [Deliveries -> TaskStates]
    /\ totalPublished \in Nat /\ totalDelivered \in Nat /\ totalErrors \in Nat
    /\ unrouted \in SUBSET Msgs
    /\ scall \in [Callers -> {"idle", "wait", "store", "shut", "ret"}]

(* What the dispatcher holds: a message, and handlers not yet started.     *)
Holding ==
    /\ dpc \in {"spawn", "acquire"} =>
         dmsg \in Msgs /\ \A h \in dtodo : task[<<dmsg, h>>] = "none"
    /\ dpc \in {"recv", "drain", "done"} => dmsg = None
    /\ dpc = "acquire" =>
         dcur \in Handlers /\ dcur \notin dtodo /\ task[<<dmsg, dcur>>] = "none"

HasTask(m) == \E h \in Handlers : task[<<m, h>>] # "none"

(* A message is sent once, so it is in one place of the channel, and what  *)
(* is still in the channel was not dispatched before.                      *)
Distinct == NoRepeats(Msgs, messages)
Sent     == \A m \in Msgs : In(m, messages) \/ dmsg = m \/ m \in unrouted \/ HasTask(m)
                                => pub[m] \in {"count", "ok"}
NotYet   == \A m \in Msgs : In(m, messages) => dmsg # m /\ m \notin unrouted /\ ~HasTask(m)

RouteInv == Types /\ Holding /\ Distinct /\ Sent /\ NotYet

USE DEF chanVars, flagVars, pubVars, dispVars, statVars

-----------------------------------------------------------------------------
(* Where messages are.                                                     *)

LEMMA InitRoute == Init => RouteInv
<1> SUFFICES ASSUME Init PROVE RouteInv
  OBVIOUS
<1>1. messages \in Seq(Msgs) /\ Len(messages) = 0
  BY EmptyList DEF Init
<1>2. Types
  <2>1. chanClosed \in BOOLEAN /\ closed \in BOOLEAN /\ running \in BOOLEAN /\ cancelled \in BOOLEAN
    BY Zenon DEF Init
  <2>2. task \in [Deliveries -> TaskStates]
    BY DEF Init, TaskStates
  <2>3. scall \in [Callers -> {"idle", "wait", "store", "shut", "ret"}]
    BY DEF Init
  <2>4. Len(messages) <= BufferSize
    BY <1>1, SizeAssumption
  <2> QED BY <1>1, <2>1, <2>2, <2>3, <2>4 DEF Init, Types
<1>3. \A m \in Msgs : ~In(m, messages) /\ ~HasTask(m)
  <2>1. \A d \in Deliveries : task[d] = "none"
    BY DEF Init
  <2>2. \A m \in Msgs, h \in Handlers : <<m, h>> \in Deliveries
    BY DEF Deliveries
  <2>3. \A m \in Msgs : ~HasTask(m)
    BY <2>1, <2>2 DEF HasTask
  <2>4. \A m \in Msgs : ~In(m, messages)
    BY <1>1 DEF In
  <2> QED BY <2>3, <2>4
<1> QED BY <1>1, <1>2, <1>3, NoneAssumption DEF Init, RouteInv, Holding, Distinct, NoRepeats, Sent, NotYet

(* Steps that move no message.                                             *)
LEMMA SameRoute ==
  ASSUME RouteInv, Types', UNCHANGED <<messages, pub, dispVars, task, unrouted>>
  PROVE  RouteInv'
  BY DEF RouteInv, Holding, Distinct, Sent, NotYet, HasTask, In

LEMMA PublishRoute == ASSUME RouteInv, NEW m \in Msgs, PublishNext(m) PROVE RouteInv'
<1>1. CASE PublishSend(m)
  <2>1. messages' \in Seq(Msgs) /\ Len(messages') <= BufferSize
    BY <1>1, SizeAssumption DEF PublishSend, RouteInv, Types
  <2>2. Types'
    BY <1>1, <2>1 DEF PublishSend, RouteInv, Types
  <2>3. ~In(m, messages) /\ dmsg # m /\ m \notin unrouted /\ ~HasTask(m)
    BY <1>1 DEF PublishSend, RouteInv, Sent
  <2>4. Distinct'
    BY <1>1, <2>3, NoRepeatsAppend DEF PublishSend, RouteInv, Types, Distinct
  <2>5. \A n \in Msgs : In(n, messages') <=> In(n, messages) \/ n = m
    BY <1>1, InAppend DEF PublishSend, RouteInv, Types
  <2>6. \A n \in Msgs : HasTask(n)' <=> HasTask(n)
    BY <1>1 DEF PublishSend, HasTask
  <2>7. UNCHANGED <<dpc, dmsg, dtodo, dcur, task, unrouted>>
    BY <1>1 DEF PublishSend
  <2>8. \A n \in Msgs : pub'[n] = IF n = m THEN "count" ELSE pub[n]
    BY <1>1 DEF PublishSend, RouteInv, Types
  <2>9. Sent' /\ NotYet'
    BY <2>3, <2>5, <2>6, <2>7, <2>8 DEF RouteInv, Sent, NotYet
  <2> QED BY <2>2, <2>4, <2>7, <2>9 DEF RouteInv, Holding
<1>2. CASE PublishCheck(m) \/ PublishGiveUp(m) \/ PublishPanic(m) \/ PublishCount(m)
  <2>1. UNCHANGED <<messages, dpc, dback, dmsg, dtodo, dcur, task, unrouted>>
    BY <1>2 DEF PublishCheck, PublishGiveUp, PublishPanic, PublishCount
  <2>2. \A n \in Msgs : pub[n] \in {"count", "ok"} => pub'[n] \in {"count", "ok"}
    BY <1>2 DEF PublishCheck, PublishGiveUp, PublishPanic, PublishCount, RouteInv, Types
  <2>3. Types'
    BY <1>2 DEF PublishCheck, PublishGiveUp, PublishPanic, PublishCount, RouteInv, Types
  <2> QED BY <2>1, <2>2, <2>3 DEF RouteInv, Holding, Distinct, Sent, NotYet, HasTask, In
<1> QED BY <1>1, <1>2 DEF PublishNext

LEMMA ReceiveRoute == ASSUME RouteInv, Receive PROVE RouteInv'
<1>1. /\ messages \in Seq(Msgs) /\ messages # <<>> /\ messages' = Tail(messages)
      /\ dpc \in {"recv", "drain"} /\ dmsg = None /\ Len(messages) <= BufferSize
  BY DEF Receive, RouteInv, Types, Holding
<1> DEFINE m == Head(messages)
<1>2. m \in Msgs /\ messages' \in Seq(Msgs) /\ Len(messages') <= BufferSize
  BY <1>1, SizeAssumption
<1>3. In(m, messages) /\ \A n \in Msgs : In(n, messages') => In(n, messages)
  BY <1>1, InPopOnly
<1>4. Distinct' /\ ~In(m, messages')
  BY <1>1, NoRepeatsPop DEF RouteInv, Distinct
<1>5. pub[m] \in {"count", "ok"} /\ m \notin unrouted /\ ~HasTask(m)
  BY <1>2, <1>3 DEF RouteInv, Sent, NotYet
<1>6. UNCHANGED <<pub, task>> /\ \A n \in Msgs : HasTask(n)' <=> HasTask(n)
  BY DEF Receive, HasTask
<1> HIDE DEF m
<1>7. CASE subs = {}
  <2>1. unrouted' = unrouted \cup {m} /\ UNCHANGED dispVars
    BY <1>7 DEF Receive, m
  <2>2. Types'
    BY <1>2, <2>1 DEF Receive, RouteInv, Types
  <2>3. Sent' /\ NotYet'
    BY <1>2, <1>3, <1>4, <1>5, <1>6, <2>1 DEF RouteInv, Sent, NotYet
  <2> QED BY <1>4, <1>6, <2>1, <2>2, <2>3 DEF RouteInv, Holding
<1>8. CASE subs # {}
  <2>1. /\ dmsg' = m /\ dtodo' = subs /\ dback' = dpc /\ dpc' = "spawn"
        /\ UNCHANGED <<dcur, unrouted>>
    BY <1>8 DEF Receive, m
  <2>2. Types'
    BY <1>1, <1>2, <2>1 DEF Receive, RouteInv, Types
  <2>3. Sent' /\ NotYet'
    BY <1>1, <1>2, <1>3, <1>4, <1>5, <1>6, <2>1, NoneAssumption DEF RouteInv, Sent, NotYet
  <2>4. \A h \in Handlers : task[<<m, h>>] = "none"
    BY <1>5 DEF HasTask
  <2>5. Holding'
    BY <1>2, <1>6, <2>1, <2>2, <2>4 DEF Holding, Types
  <2> QED BY <1>4, <2>2, <2>3, <2>5 DEF RouteInv
<1> QED BY <1>7, <1>8

LEMMA AcquireRoute == ASSUME RouteInv, Acquire PROVE RouteInv'
<1>1. /\ dmsg \in Msgs /\ dcur \in Handlers /\ dcur \notin dtodo /\ <<dmsg, dcur>> \in Deliveries
      /\ \A h \in dtodo : task[<<dmsg, h>>] = "none"
  BY DEF Acquire, RouteInv, Holding, Deliveries
<1>2. /\ task' \in [Deliveries -> TaskStates]
      /\ \A d \in Deliveries : task'[d] = IF d = <<dmsg, dcur>> THEN "run" ELSE task[d]
  BY <1>1 DEF Acquire, RouteInv, Types, TaskStates
<1>3. dback \in {"recv", "drain"} /\ UNCHANGED <<messages, pub, unrouted, dback, dtodo>>
  BY DEF Acquire, RouteInv, Types
<1>4. \A n \in Msgs : HasTask(n)' => HasTask(n) \/ n = dmsg
  <2> SUFFICES ASSUME NEW n \in Msgs, NEW h \in Handlers, task'[<<n, h>>] # "none", n # dmsg
               PROVE  task[<<n, h>>] # "none"
    BY DEF HasTask
  <2>1. <<n, h>> \in Deliveries /\ <<n, h>> # <<dmsg, dcur>>
    BY DEF Deliveries
  <2> QED BY <1>2, <2>1
<1>5. dmsg' = dmsg \/ dmsg' = None
  BY DEF Acquire
<1>6. Types'
  BY <1>2, <1>3 DEF Acquire, RouteInv, Types
<1>7. \A n \in Msgs : In(n, messages') <=> In(n, messages)
  BY <1>3 DEF In
<1>8. Sent' /\ NotYet'
  BY <1>1, <1>3, <1>4, <1>5, <1>7, NoneAssumption DEF RouteInv, Sent, NotYet
<1>9. Holding'
  <2>1. CASE dtodo = {}
    BY <1>3, <2>1 DEF Acquire, Holding
  <2>2. CASE dtodo # {}
    <3>1. \A h \in dtodo : <<dmsg, h>> \in Deliveries /\ <<dmsg, h>> # <<dmsg, dcur>>
      BY <1>1 DEF Deliveries, RouteInv, Types
    <3>2. \A h \in dtodo : task'[<<dmsg, h>>] = "none"
      BY <1>1, <1>2, <3>1
    <3> QED BY <1>1, <1>3, <2>2, <3>2 DEF Acquire, Holding
  <2> QED BY <2>1, <2>2
<1> QED BY <1>3, <1>6, <1>8, <1>9 DEF RouteInv, Distinct

LEMMA DispatcherRoute == ASSUME RouteInv, DispatcherNext PROVE RouteInv'
<1>1. ASSUME NEW h \in dtodo, Spawn(h) PROVE RouteInv'
  <2>1. Types'
    BY <1>1 DEF Spawn, RouteInv, Types
  <2>2. Holding'
    BY <1>1 DEF Spawn, RouteInv, Types, Holding
  <2> QED BY <1>1, <2>1, <2>2 DEF Spawn, RouteInv, Distinct, Sent, NotYet, HasTask, In
<1>2. CASE StartDrain \/ DispatcherDone
  <2>1. Types' /\ Holding'
    BY <1>2 DEF StartDrain, DispatcherDone, RouteInv, Types, Holding
  <2> QED BY <1>2, <2>1 DEF StartDrain, DispatcherDone, RouteInv, Distinct, Sent, NotYet, HasTask, In
<1> QED BY <1>1, <1>2, ReceiveRoute, AcquireRoute DEF DispatcherNext

(* A handler that was started has a task for good.                         *)
LEMMA TaskSteps ==
  ASSUME Types, NEW d \in Deliveries, TaskNext(d)
  PROVE  /\ task' \in [Deliveries -> TaskStates]
         /\ \A e \in Deliveries : task'[e] # "none" <=> task[e] # "none"
  BY DEF Types, TaskNext, HandlerReturns, HandlerPanics, WgDone, DeferRuns, Release, TaskStates

LEMMA TaskRoute == ASSUME RouteInv, NEW d \in Deliveries, TaskNext(d) PROVE RouteInv'
<1>1. /\ task' \in [Deliveries -> TaskStates]
      /\ \A e \in Deliveries : task'[e] # "none" <=> task[e] # "none"
  BY TaskSteps DEF RouteInv
<1>2. totalDelivered' \in Nat /\ totalErrors' \in Nat
  BY DEF TaskNext, HandlerReturns, HandlerPanics, WgDone, Release, PanicErrors, RouteInv, Types
<1>3. UNCHANGED <<chanVars, flagVars, subs, pubVars, dispVars, totalPublished, unrouted, scall>>
  BY DEF TaskNext, HandlerReturns, HandlerPanics, WgDone, Release
<1>4. Types'
  BY <1>1, <1>2, <1>3 DEF RouteInv, Types
<1>5. \A m \in Msgs, h \in Handlers : task'[<<m, h>>] # "none" <=> task[<<m, h>>] # "none"
  BY <1>1 DEF Deliveries
<1>6. \A m \in Msgs : HasTask(m)' <=> HasTask(m)
  BY <1>5 DEF HasTask
<1>7. Holding'
  BY <1>3, <1>5 DEF RouteInv, Types, Holding
<1>8. Sent' /\ NotYet' /\ Distinct'
  BY <1>3, <1>6 DEF RouteInv, Sent, NotYet, Distinct, In
<1> QED BY <1>4, <1>7, <1>8 DEF RouteInv

LEMMA StepRoute == RouteInv /\ [Next]_vars => RouteInv'
<1> SUFFICES ASSUME RouteInv, [Next]_vars PROVE RouteInv'
  OBVIOUS
<1>1. ASSUME (\E h \in Handlers : Subscribe(h)) \/ Unsubscribe PROVE RouteInv'
  <2>1. Types'
    BY <1>1 DEF Subscribe, Unsubscribe, RouteInv, Types
  <2> QED BY <1>1, <2>1, SameRoute DEF Subscribe, Unsubscribe
<1>2. ASSUME NEW c \in Callers, StopNext(c) PROVE RouteInv'
  <2>1. scall' \in [Callers -> {"idle", "wait", "store", "shut", "ret"}]
    BY <1>2 DEF StopNext, StopBegin, StopWait, StopStore, AfterStop, RouteInv, Types
  <2>2. closed' \in BOOLEAN /\ running' \in BOOLEAN /\ cancelled' \in BOOLEAN
    BY <1>2 DEF StopNext, StopBegin, StopWait, StopStore, ClosedBy, RouteInv, Types
  <2>3. UNCHANGED <<chanVars, subs, pubVars, dispVars, task, statVars, unrouted>>
    BY <1>2 DEF StopNext, StopBegin, StopWait, StopStore
  <2>4. Types'
    BY <2>1, <2>2, <2>3 DEF RouteInv, Types
  <2> QED BY <2>3, <2>4, SameRoute
<1>3. CASE CloseChannel
  <2>1. Types'
    BY <1>3 DEF CloseChannel, RouteInv, Types, Callers
  <2> QED BY <1>3, <2>1, SameRoute DEF CloseChannel
<1>4. CASE ParentCancelled
  <2>1. Types'
    BY <1>4 DEF ParentCancelled, RouteInv, Types
  <2> QED BY <1>4, <2>1, SameRoute DEF ParentCancelled
<1>5. CASE UNCHANGED vars
  <2>1. Types'
    BY <1>5 DEF vars, RouteInv, Types
  <2> QED BY <1>5, <2>1, SameRoute DEF vars
<1> QED BY <1>1, <1>2, <1>3, <1>4, <1>5, PublishRoute, DispatcherRoute, TaskRoute DEF Next

-----------------------------------------------------------------------------
(* The WaitGroup and the worker pool.                                      *)

(* Handlers that wg still counts, and those that have a worker slot.       *)
Active  == {d \in Deliveries : task[d] \in {"run", "ret", "panicked"}}
Slotted == {d \in Deliveries : task[d] \in {"run", "ret", "panicked", "release", "releasePanic"}}

DispatcherShare == (IF dpc = "done" THEN 0 ELSE 1) + (IF dpc = "acquire" THEN 1 ELSE 0)

WgInv   == wg = DispatcherShare + Cardinality(Active)
SlotInv == slots = Cardinality(Slotted) /\ slots <= MaxWorkers

LEMMA DeliveriesFinite == IsFiniteSet(Deliveries)
  BY FiniteAssumption, FS_Product DEF Deliveries

LEMMA TasksFinite ==
  /\ IsFiniteSet(Active) /\ Cardinality(Active) \in Nat
  /\ IsFiniteSet(Slotted) /\ Cardinality(Slotted) \in Nat
<1>1. Active \in SUBSET Deliveries /\ Slotted \in SUBSET Deliveries
  BY DEF Active, Slotted
<1> QED BY <1>1, DeliveriesFinite, FS_Subset, FS_CardinalityType

(* A handler starts: one more in both.                                     *)
LEMMA AcquireCounts ==
  ASSUME RouteInv, Acquire
  PROVE  /\ Cardinality(Active') = Cardinality(Active) + 1
         /\ Cardinality(Slotted') = Cardinality(Slotted) + 1
<1> DEFINE x == <<dmsg, dcur>>
<1>1. x \in Deliveries /\ task[x] = "none"
  BY DEF Acquire, RouteInv, Holding, Deliveries
<1>2. \A d \in Deliveries : task'[d] = IF d = x THEN "run" ELSE task[d]
  BY <1>1 DEF Acquire, RouteInv, Types
<1> HIDE DEF x
<1>3. Active' = Active \cup {x} /\ x \notin Active
  BY <1>1, <1>2 DEF Active
<1>4. Slotted' = Slotted \cup {x} /\ x \notin Slotted
  BY <1>1, <1>2 DEF Slotted
<1> QED BY <1>3, <1>4, TasksFinite, FS_AddElement

(* What the steps of a handler do to both.                                 *)
LEMMA TaskCounts ==
  ASSUME Types, NEW d \in Deliveries, TaskNext(d)
  PROVE  \/ UNCHANGED <<wg, slots>> /\ Active' = Active /\ Slotted' = Slotted
         \/ /\ WgDone(d) /\ Slotted' = Slotted
            /\ Cardinality(Active) > 0 /\ Cardinality(Active') = Cardinality(Active) - 1
         \/ /\ Release(d) /\ Active' = Active
            /\ Cardinality(Slotted) > 0 /\ Cardinality(Slotted') = Cardinality(Slotted) - 1
<1>1. CASE HandlerReturns(d) \/ HandlerPanics(d)
  BY <1>1 DEF HandlerReturns, HandlerPanics, Types, Active, Slotted
<1>2. CASE WgDone(d)
  <2>1. Active' = Active \ {d} /\ d \in Active /\ Slotted' = Slotted
    BY <1>2 DEF WgDone, DeferRuns, Types, Active, Slotted
  <2>2. Cardinality(Active') = Cardinality(Active) - 1 /\ Cardinality(Active) # 0
    BY <2>1, TasksFinite, FS_RemoveElement, FS_EmptySet
  <2> QED BY <1>2, <2>1, <2>2, TasksFinite
<1>3. CASE Release(d)
  <2>1. Slotted' = Slotted \ {d} /\ d \in Slotted /\ Active' = Active
    BY <1>3 DEF Release, Types, Active, Slotted
  <2>2. Cardinality(Slotted') = Cardinality(Slotted) - 1 /\ Cardinality(Slotted) # 0
    BY <2>1, TasksFinite, FS_RemoveElement, FS_EmptySet
  <2> QED BY <1>3, <2>1, <2>2, TasksFinite
<1> QED BY <1>1, <1>2, <1>3 DEF TaskNext

(* All other steps but the dispatcher's leave counters and tasks alone.    *)
LEMMA OtherSteps ==
  ASSUME [Next]_vars, ~DispatcherNext, \A d \in Deliveries : ~TaskNext(d)
  PROVE  UNCHANGED <<dispVars, task, wg, slots, unrouted>>
<1>1. ASSUME NEW m \in Msgs, PublishNext(m) PROVE UNCHANGED <<dispVars, task, wg, slots, unrouted>>
  BY <1>1 DEF PublishNext, PublishCheck, PublishSend, PublishGiveUp, PublishPanic, PublishCount
<1>2. ASSUME NEW c \in Callers, StopNext(c) PROVE UNCHANGED <<dispVars, task, wg, slots, unrouted>>
  BY <1>2 DEF StopNext, StopBegin, StopWait, StopStore
<1>3. CASE \/ \E h \in Handlers : Subscribe(h)
           \/ Unsubscribe \/ CloseChannel \/ ParentCancelled \/ UNCHANGED vars
  BY <1>3 DEF Subscribe, Unsubscribe, CloseChannel, ParentCancelled, vars
<1> QED BY <1>1, <1>2, <1>3 DEF Next

LEMMA StepWg == RouteInv /\ WgInv /\ [Next]_vars => WgInv'
<1> SUFFICES ASSUME RouteInv, WgInv, [Next]_vars PROVE WgInv'
  OBVIOUS
<1>1. CASE Acquire
  <2>1. UNCHANGED wg /\ dpc = "acquire" /\ dpc' \in {"recv", "drain", "spawn"}
    BY <1>1 DEF Acquire, RouteInv, Types
  <2> QED BY <1>1, <2>1, AcquireCounts, TasksFinite DEF WgInv, DispatcherShare
<1>2. CASE Receive \/ StartDrain \/ DispatcherDone \/ \E h \in dtodo : Spawn(h)
  <2>1. Active' = Active
    BY <1>2 DEF Receive, StartDrain, DispatcherDone, Spawn, Active
  <2>2. CASE Receive \/ StartDrain
    <3>1. UNCHANGED wg /\ dpc \notin {"acquire", "done"} /\ dpc' \notin {"acquire", "done"}
      BY <2>2 DEF Receive, StartDrain
    <3> QED BY <2>1, <3>1, TasksFinite DEF WgInv, DispatcherShare
  <2>3. CASE DispatcherDone
    BY <2>1, <2>3, TasksFinite DEF DispatcherDone, WgInv, DispatcherShare
  <2>4. ASSUME NEW h \in dtodo, Spawn(h) PROVE WgInv'
    BY <2>1, <2>4, TasksFinite DEF Spawn, WgInv, DispatcherShare
  <2> QED BY <1>2, <2>2, <2>3, <2>4
<1>3. ASSUME NEW d \in Deliveries, TaskNext(d) PROVE WgInv'
  <2>1. UNCHANGED dpc
    BY <1>3 DEF TaskNext, HandlerReturns, HandlerPanics, WgDone, Release
  <2>2. CASE UNCHANGED wg /\ Active' = Active
    BY <2>1, <2>2 DEF WgInv, DispatcherShare
  <2>3. CASE wg' = wg - 1 /\ Cardinality(Active') = Cardinality(Active) - 1
    BY <2>1, <2>3, TasksFinite DEF WgInv, DispatcherShare
  <2> QED BY <1>3, <2>2, <2>3, TaskCounts DEF RouteInv, WgDone, Release
<1>4. CASE UNCHANGED <<dispVars, task, wg>>
  BY <1>4 DEF WgInv, DispatcherShare, Active
<1> QED BY <1>1, <1>2, <1>3, <1>4, OtherSteps DEF DispatcherNext

LEMMA StepSlots == RouteInv /\ SlotInv /\ [Next]_vars => SlotInv'
<1> SUFFICES ASSUME RouteInv, SlotInv, [Next]_vars PROVE SlotInv'
  OBVIOUS
<1>1. CASE Acquire
  <2>1. slots' = slots + 1 /\ slots < MaxWorkers
    BY <1>1 DEF Acquire, SlotFree
  <2> QED BY <1>1, <2>1, AcquireCounts, TasksFinite, SizeAssumption DEF SlotInv
<1>2. CASE Receive \/ StartDrain \/ DispatcherDone \/ \E h \in dtodo : Spawn(h)
  BY <1>2 DEF Receive, StartDrain, DispatcherDone, Spawn, Slotted, SlotInv
<1>3. ASSUME NEW d \in Deliveries, TaskNext(d) PROVE SlotInv'
  <2>1. CASE UNCHANGED slots /\ Slotted' = Slotted
    BY <2>1 DEF SlotInv
  <2>2. CASE slots' = slots - 1 /\ Cardinality(Slotted') = Cardinality(Slotted) - 1
    BY <2>2, TasksFinite, SizeAssumption DEF SlotInv
  <2> QED BY <1>3, <2>1, <2>2, TaskCounts DEF RouteInv, WgDone, Release
<1>4. CASE UNCHANGED <<dispVars, task, slots>>
  BY <1>4 DEF SlotInv, Slotted
<1> QED BY <1>1, <1>2, <1>3, <1>4, OtherSteps DEF DispatcherNext

CountInv == RouteInv /\ WgInv /\ SlotInv

LEMMA InitCounts == Init => CountInv
<1> SUFFICES ASSUME Init PROVE CountInv
  OBVIOUS
<1>1. Active = {} /\ Slotted = {}
  BY DEF Init, Active, Slotted
<1>2. WgInv /\ SlotInv
  BY <1>1, FS_EmptySet, SizeAssumption DEF Init, WgInv, SlotInv, DispatcherShare
<1> QED BY <1>2, InitRoute DEF CountInv

LEMMA StepCounts == CountInv /\ [Next]_vars => CountInv'
  BY StepRoute, StepWg, StepSlots DEF CountInv

(* The queue's variables keep their types: the channel and the pool stay   *)
(* within their capacities and wg.Done is never called once too often.     *)
THEOREM QueueTypes == Spec => []TypeOK
<1>1. CountInv => TypeOK
  <2> SUFFICES ASSUME CountInv PROVE TypeOK
    OBVIOUS
  <2>1. wg \in Nat
    BY TasksFinite DEF CountInv, WgInv, DispatcherShare
  <2>2. slots \in 0..MaxWorkers
    BY TasksFinite, SizeAssumption DEF CountInv, SlotInv
  <2> QED BY <2>1, <2>2 DEF CountInv, RouteInv, Types, TypeOK
<1> QED BY <1>1, InitCounts, StepCounts, PTL DEF Spec

-----------------------------------------------------------------------------
(* Stop and Close.                                                         *)

(* Once some caller's wg.Wait has returned, and ever after, nothing runs.  *)
Past  == ~running \/ \E c \in Callers : scall[c] \in {"store", "shut", "ret"}
Quiet == Past => dpc = "done" /\ Active = {}

(* An early message is somewhere, and none is left behind by a dispatcher  *)
(* that has drained the channel, which it only does after the cancel.      *)
Found(m) == In(m, messages) \/ dmsg = m \/ m \in unrouted \/ HasTask(m)
DrainInv ==
    /\ \A m \in early : Found(m)
    /\ dpc \in {"drain", "done"} \/ dback = "drain" => cancelled
    /\ dpc = "done" => \A m \in early : ~In(m, messages)

LEMMA WaitOver == ASSUME WgInv, wg = 0, Types PROVE dpc = "done" /\ Active = {}
<1>1. dpc = "done" /\ Cardinality(Active) = 0
  BY TasksFinite DEF WgInv, DispatcherShare
<1> QED BY <1>1, TasksFinite, FS_EmptySet

(* Nothing but wg.Wait gets a caller past the wait, and a queue at rest    *)
(* stays at rest.                                                          *)
LEMMA StepQuiet == CountInv /\ Quiet /\ [Next]_vars => Quiet'
<1> SUFFICES ASSUME CountInv, Quiet, [Next]_vars, Past' PROVE dpc' = "done" /\ Active' = {}
  BY DEF Quiet
<1>1. ASSUME Past PROVE dpc' = "done" /\ Active' = {}
  <2>1. dpc = "done" /\ Active = {}
    BY <1>1 DEF Quiet
  <2>2. ~DispatcherNext
    BY <2>1 DEF DispatcherNext, Receive, Spawn, Acquire, StartDrain, DispatcherDone
  <2>3. CASE \A d \in Deliveries : ~TaskNext(d)
    BY <2>1, <2>2, <2>3, OtherSteps DEF Active
  <2>4. ASSUME NEW d \in Deliveries, TaskNext(d) PROVE dpc' = "done" /\ Active' = {}
    <3>1. UNCHANGED dpc
      BY <2>4 DEF TaskNext, HandlerReturns, HandlerPanics, WgDone, Release
    <3>2. ~WgDone(d)
      BY <2>1 DEF WgDone, DeferRuns, Active
    <3>3. Active' = Active
      BY <2>4, <3>2, TaskCounts DEF CountInv, RouteInv
    <3> QED BY <2>1, <3>1, <3>3
  <2> QED BY <2>3, <2>4
<1>2. ASSUME NEW c \in Callers, StopNext(c), ~Past PROVE dpc' = "done" /\ Active' = {}
  <2>1. running /\ scall[c] \notin {"store", "shut", "ret"}
    BY <1>2 DEF Past
  <2>2. ~StopStore(c)
    BY <2>1 DEF StopStore
  <2>3. ~StopBegin(c)
    <3> SUFFICES ASSUME StopBegin(c) PROVE ~Past'
      OBVIOUS
    <3>1. running' /\ scall' = [scall EXCEPT ![c] = "wait"]
      BY <2>1 DEF StopBegin
    <3>2. \A b \in Callers : scall'[b] \in {scall[b], "wait"}
      BY <3>1 DEF CountInv, RouteInv, Types
    <3> QED BY <1>2, <3>1, <3>2 DEF Past
  <2>4. StopWait(c)
    BY <1>2, <2>2, <2>3 DEF StopNext
  <2>5. wg = 0 /\ UNCHANGED <<dpc, task>>
    BY <2>4 DEF StopWait, WaitReturns
  <2> QED BY <2>5, WaitOver DEF CountInv, RouteInv, Active
<1>3. ASSUME ~Past, \A c \in Callers : ~StopNext(c) PROVE FALSE
  <2>1. ~CloseChannel
    BY <1>3 DEF CloseChannel, Past, Callers
  <2>2. UNCHANGED <<running, scall>>
    <3>1. ASSUME NEW m \in Msgs, PublishNext(m) PROVE UNCHANGED <<running, scall>>
      BY <3>1 DEF PublishNext, PublishCheck, PublishSend, PublishGiveUp, PublishPanic, PublishCount
    <3>2. ASSUME NEW d \in Deliveries, TaskNext(d) PROVE UNCHANGED <<running, scall>>
      BY <3>2 DEF TaskNext, HandlerReturns, HandlerPanics, WgDone, Release
    <3>3. CASE DispatcherNext
      BY <3>3 DEF DispatcherNext, Receive, Spawn, Acquire, StartDrain, DispatcherDone
    <3>4. CASE \/ \E h \in Handlers : Subscribe(h)
               \/ Unsubscribe \/ ParentCancelled \/ UNCHANGED vars
      BY <3>4 DEF Subscribe, Unsubscribe, ParentCancelled, vars
    <3> QED BY <1>3, <2>1, <3>1, <3>2, <3>3, <3>4 DEF Next
  <2> QED BY <1>3, <2>2 DEF Past
<1> QED BY <1>1, <1>2, <1>3

(* Steps other than a send that move no message.                           *)
LEMMA SameDrain ==
  ASSUME DrainInv, UNCHANGED <<early, messages, dpc, dback, dmsg, unrouted>>,
         cancelled => cancelled', \A m \in early : HasTask(m) => HasTask(m)'
  PROVE  DrainInv'
  BY DEF DrainInv, Found, In

LEMMA SendDrain == ASSUME RouteInv, DrainInv, NEW m \in Msgs, PublishSend(m) PROVE DrainInv'
<1>1. \A n \in Msgs : In(n, messages') <=> In(n, messages) \/ n = m
  BY InAppend DEF PublishSend, RouteInv, Types
<1>2. early \in SUBSET Msgs /\ m \notin early
  BY DEF PublishSend, RouteInv, Types, Sent, DrainInv, Found
<1>3. \A n \in Msgs : HasTask(n)' <=> HasTask(n)
  BY DEF PublishSend, HasTask
<1>4. UNCHANGED <<dpc, dback, dmsg, unrouted, cancelled>>
  BY DEF PublishSend
<1>5. CASE cancelled
  <2>1. early' = early
    BY <1>5 DEF PublishSend
  <2> QED BY <1>1, <1>2, <1>3, <1>4, <2>1 DEF DrainInv, Found
<1>6. CASE ~cancelled
  <2>1. early' = early \cup {m}
    BY <1>6 DEF PublishSend
  <2> QED BY <1>1, <1>2, <1>3, <1>4, <1>6, <2>1 DEF DrainInv, Found
<1> QED BY <1>5, <1>6

LEMMA DispatcherDrain == ASSUME RouteInv, DrainInv, DispatcherNext PROVE DrainInv'
<1>1. early \in SUBSET Msgs /\ UNCHANGED <<early, cancelled>>
  BY DEF RouteInv, Types, DispatcherNext, Receive, Spawn, Acquire, StartDrain, DispatcherDone
<1>2. CASE Receive
  <2>1. \A m \in Msgs : In(m, messages) => In(m, messages') \/ m = Head(messages)
    BY <1>2, InPop DEF Receive, RouteInv, Types
  <2>2. UNCHANGED task /\ dmsg = None /\ dpc \in {"recv", "drain"}
    BY <1>2 DEF Receive, RouteInv, Holding
  <2>3. \A m \in Msgs : HasTask(m)' <=> HasTask(m)
    BY <2>2 DEF HasTask
  <2>4. \/ unrouted' = unrouted \cup {Head(messages)} /\ UNCHANGED <<dpc, dback, dmsg>>
        \/ dmsg' = Head(messages) /\ dback' = dpc /\ dpc' = "spawn" /\ UNCHANGED unrouted
    BY <1>2 DEF Receive
  <2> QED BY <1>1, <2>1, <2>2, <2>3, <2>4, NoneAssumption DEF DrainInv, Found
<1>3. CASE Acquire
  <2>1. <<dmsg, dcur>> \in Deliveries /\ dcur \in Handlers /\ dmsg \in Msgs
    BY <1>3 DEF Acquire, RouteInv, Holding, Deliveries
  <2>2. \A d \in Deliveries : task'[d] = IF d = <<dmsg, dcur>> THEN "run" ELSE task[d]
    BY <1>3, <2>1 DEF Acquire, RouteInv, Types
  <2>3. \A m \in Msgs : HasTask(m) \/ m = dmsg => HasTask(m)'
    <3>1. ASSUME NEW m \in Msgs, NEW h \in Handlers, task[<<m, h>>] # "none" PROVE HasTask(m)'
      <4>1. <<m, h>> \in Deliveries
        BY DEF Deliveries
      <4> QED BY <2>2, <3>1, <4>1 DEF HasTask
    <3>2. task'[<<dmsg, dcur>>] # "none"
      BY <2>1, <2>2
    <3> QED BY <2>1, <3>1, <3>2 DEF HasTask
  <2>4. UNCHANGED <<messages, unrouted, dback>> /\ dpc' \in {dback, "spawn"}
    BY <1>3 DEF Acquire
  <2>5. dback \in {"recv", "drain"}
    BY DEF RouteInv, Types
  <2> QED BY <1>1, <2>3, <2>4, <2>5 DEF DrainInv, Found
<1>4. ASSUME NEW h \in dtodo, Spawn(h) PROVE DrainInv'
  BY <1>1, <1>4 DEF Spawn, DrainInv, Found, HasTask
<1>5. CASE StartDrain
  BY <1>1, <1>5 DEF StartDrain, DrainInv, Found, HasTask
<1>6. CASE DispatcherDone
  <2>1. \A m : ~In(m, messages)
    BY <1>6 DEF DispatcherDone, Drained, In
  <2> QED BY <1>1, <1>6, <2>1 DEF DispatcherDone, DrainInv, Found, HasTask
<1> QED BY <1>2, <1>3, <1>4, <1>5, <1>6 DEF DispatcherNext

LEMMA StepDrain == RouteInv /\ DrainInv /\ [Next]_vars => DrainInv'
<1> SUFFICES ASSUME RouteInv, DrainInv, [Next]_vars PROVE DrainInv'
  OBVIOUS
<1>1. early \in SUBSET Msgs
  BY DEF RouteInv, Types
<1>2. ASSUME NEW m \in Msgs, PublishNext(m) PROVE DrainInv'
  <2>1. CASE PublishCheck(m) \/ PublishGiveUp(m) \/ PublishPanic(m) \/ PublishCount(m)
    BY <2>1, SameDrain DEF PublishCheck, PublishGiveUp, PublishPanic, PublishCount, HasTask
  <2> QED BY <1>2, <2>1, SendDrain DEF PublishNext
<1>3. ASSUME NEW d \in Deliveries, TaskNext(d) PROVE DrainInv'
  <2>1. \A e \in Deliveries : task'[e] # "none" <=> task[e] # "none"
    BY <1>3, TaskSteps DEF RouteInv
  <2>2. \A m \in Msgs, h \in Handlers : task[<<m, h>>] # "none" => task'[<<m, h>>] # "none"
    BY <2>1 DEF Deliveries
  <2>3. \A m \in early : HasTask(m) => HasTask(m)'
    BY <1>1, <2>2 DEF HasTask
  <2>4. UNCHANGED <<early, messages, dpc, dback, dmsg, unrouted, cancelled>>
    BY <1>3 DEF TaskNext, HandlerReturns, HandlerPanics, WgDone, Release
  <2> QED BY <2>3, <2>4, SameDrain
<1>4. ASSUME NEW c \in Callers, StopNext(c) PROVE DrainInv'
  <2>1. UNCHANGED <<early, messages, dpc, dback, dmsg, unrouted, task>>
    BY <1>4 DEF StopNext, StopBegin, StopWait, StopStore
  <2>2. cancelled => cancelled'
    BY <1>4 DEF StopNext, StopBegin, StopWait, StopStore
  <2> QED BY <2>1, <2>2, SameDrain DEF HasTask
<1>5. CASE \/ \E h \in Handlers : Subscribe(h)
           \/ Unsubscribe \/ CloseChannel \/ ParentCancelled \/ UNCHANGED vars
  <2>1. UNCHANGED <<early, messages, dpc, dback, dmsg, unrouted, task>>
    BY <1>5 DEF Subscribe, Unsubscribe, CloseChannel, ParentCancelled, vars
  <2>2. cancelled => cancelled'
    BY <1>5 DEF Subscribe, Unsubscribe, CloseChannel, ParentCancelled, vars
  <2> QED BY <2>1, <2>2, SameDrain DEF HasTask
<1> QED BY <1>2, <1>3, <1>4, <1>5, DispatcherDrain DEF Next

(* Stop and Close report the end of all handlers and of all messages that  *)
(* were accepted before the shutdown, however the two calls, the cancel,   *)
(* the dispatcher and late publishers interleave.                          *)
THEOREM StopIsComplete == Spec => []StopCompletes
<1> DEFINE I == CountInv /\ Quiet /\ DrainInv
<1>1. Init => I
  <2> SUFFICES ASSUME Init PROVE I
    OBVIOUS
  <2>1. Quiet
    BY DEF Init, Quiet, Past
  <2>2. DrainInv
    BY DEF Init, DrainInv
  <2> QED BY <2>1, <2>2, InitCounts
<1>2. I /\ [Next]_vars => I'
  BY StepCounts, StepQuiet, StepDrain DEF CountInv
<1>3. I => StopCompletes
  <2> SUFFICES ASSUME I PROVE StopCompletes
    OBVIOUS
  <2>1. StopWaits
    BY DEF StopWaits, Quiet, Past, Active
  <2>2. StopDrains
    <3> SUFFICES ASSUME NEW c \in Callers, scall[c] = "ret", NEW m \in early
                 PROVE  m \in unrouted \/ HasTask(m)
      BY DEF StopDrains, HasTask
    <3>1. dpc = "done"
      BY DEF Quiet, Past
    <3>2. dmsg # m
      BY <3>1, NoneAssumption DEF CountInv, RouteInv, Types, Holding
    <3> QED BY <3>1, <3>2 DEF DrainInv, Found
  <2> QED BY <2>1, <2>2 DEF StopCompletes
<1> QED BY <1>1, <1>2, <1>3, PTL DEF Spec

-----------------------------------------------------------------------------
(* The counters of Stats.                                                  *)

Counting == {m \in Msgs : pub[m] = "count"}                      \* sent, not yet counted
Over     == {m \in Msgs : m # dmsg /\ HasTask(m)}                \* dispatched
Counted  == {d \in Deliveries : task[d] \in {"ret", "release", "fin"}}
InHand   == IF dmsg = None THEN 0 ELSE 1

PublishBalance ==
    totalPublished + Cardinality(Counting)
        = Len(messages) + Cardinality(unrouted) + InHand + Cardinality(Over)
DeliverBalance == totalDelivered + totalErrors = Cardinality(Counted)

LEMMA CountsFinite ==
  ASSUME Types
  PROVE  /\ IsFiniteSet(Counting) /\ Cardinality(Counting) \in Nat
         /\ IsFiniteSet(Over) /\ Cardinality(Over) \in Nat
         /\ IsFiniteSet(unrouted) /\ Cardinality(unrouted) \in Nat
         /\ IsFiniteSet(Counted) /\ Cardinality(Counted) \in Nat
         /\ totalPublished \in Nat /\ Len(messages) \in Nat /\ InHand \in {0, 1}
<1>1. /\ Counting \in SUBSET Msgs /\ Over \in SUBSET Msgs /\ unrouted \in SUBSET Msgs
      /\ Counted \in SUBSET Deliveries
  BY DEF Counting, Over, Counted, Types
<1>2. totalPublished \in Nat /\ Len(messages) \in Nat /\ InHand \in {0, 1}
  BY DEF Types, InHand
<1> QED BY <1>1, <1>2, FiniteAssumption, DeliveriesFinite, FS_Subset, FS_CardinalityType

LEMMA SamePublished ==
  ASSUME PublishBalance, UNCHANGED <<messages, pub, dmsg, unrouted, totalPublished>>,
         \A m \in Msgs : HasTask(m)' <=> HasTask(m)
  PROVE  PublishBalance'
<1>1. Counting' = Counting /\ Over' = Over
  BY DEF Counting, Over
<1> QED BY <1>1 DEF PublishBalance, InHand

(* A send is one more in the channel and one more to be counted, and the   *)
(* count moves it on.                                                      *)
LEMMA PublisherBalance ==
  ASSUME RouteInv, PublishBalance, NEW m \in Msgs, PublishNext(m)
  PROVE  PublishBalance'
<1>1. UNCHANGED <<dmsg, unrouted, task>>
  BY DEF PublishNext, PublishCheck, PublishSend, PublishGiveUp, PublishPanic, PublishCount
<1>2. Over' = Over /\ InHand' = InHand
  BY <1>1 DEF Over, HasTask, InHand
<1>3. CASE PublishSend(m)
  <2>1. Counting' = Counting \cup {m} /\ m \notin Counting
    BY <1>3 DEF PublishSend, RouteInv, Types, Counting
  <2>2. Cardinality(Counting') = Cardinality(Counting) + 1
    BY <2>1, CountsFinite, FS_AddElement DEF RouteInv
  <2>3. Len(messages') = Len(messages) + 1 /\ UNCHANGED totalPublished
    BY <1>3 DEF PublishSend, RouteInv, Types
  <2> QED BY <1>1, <1>2, <2>2, <2>3, CountsFinite DEF PublishBalance, RouteInv
<1>4. CASE PublishCount(m)
  <2>1. Counting' = Counting \ {m} /\ m \in Counting
    BY <1>4 DEF PublishCount, RouteInv, Types, Counting
  <2>2. Cardinality(Counting') = Cardinality(Counting) - 1
    BY <2>1, CountsFinite, FS_RemoveElement DEF RouteInv
  <2>3. UNCHANGED messages /\ totalPublished' = totalPublished + 1
    BY <1>4 DEF PublishCount
  <2> QED BY <1>1, <1>2, <2>2, <2>3, CountsFinite DEF PublishBalance, RouteInv
<1>5. CASE PublishCheck(m) \/ PublishGiveUp(m) \/ PublishPanic(m)
  <2>1. Counting' = Counting
    BY <1>5 DEF PublishCheck, PublishGiveUp, PublishPanic, RouteInv, Types, Counting
  <2>2. UNCHANGED <<messages, totalPublished>>
    BY <1>5 DEF PublishCheck, PublishGiveUp, PublishPanic
  <2> QED BY <1>1, <1>2, <2>1, <2>2 DEF PublishBalance
<1> QED BY <1>3, <1>4, <1>5 DEF PublishNext

(* The dispatcher takes a message, and puts it down as unrouted or, when   *)
(* its last handler is started, as dispatched.                             *)
LEMMA DispatcherBalance ==
  ASSUME RouteInv, PublishBalance, DispatcherNext
  PROVE  PublishBalance'
<1>1. Counting' = Counting /\ UNCHANGED totalPublished
  BY DEF DispatcherNext, Receive, Spawn, Acquire, StartDrain, DispatcherDone, Counting
<1>2. CASE Receive
  <2>1. /\ messages \in Seq(Msgs) /\ messages # <<>> /\ Len(messages') = Len(messages) - 1
        /\ Head(messages) \in Msgs /\ dmsg = None /\ UNCHANGED task
    BY <1>2 DEF Receive, RouteInv, Types, Holding
  <2>2. Head(messages) \notin unrouted /\ ~HasTask(Head(messages))
    BY <2>1, InPopOnly DEF RouteInv, NotYet
  <2>3. CASE subs = {}
    <3>1. unrouted' = unrouted \cup {Head(messages)} /\ UNCHANGED dmsg
      BY <1>2, <2>3 DEF Receive
    <3>2. Cardinality(unrouted') = Cardinality(unrouted) + 1
      BY <2>2, <3>1, CountsFinite, FS_AddElement DEF RouteInv
    <3>3. Over' = Over /\ InHand' = InHand
      BY <2>1, <3>1 DEF Over, HasTask, InHand
    <3> QED BY <1>1, <2>1, <3>2, <3>3, CountsFinite DEF PublishBalance, RouteInv
  <2>4. CASE subs # {}
    <3>1. dmsg' = Head(messages) /\ UNCHANGED unrouted
      BY <1>2, <2>4 DEF Receive
    <3>2. InHand = 0 /\ InHand' = 1
      BY <2>1, <3>1, NoneAssumption DEF InHand
    <3>3. Over' = Over
      BY <2>1, <2>2, <3>1, NoneAssumption DEF Over, HasTask
    <3> QED BY <1>1, <2>1, <3>1, <3>2, <3>3, CountsFinite DEF PublishBalance, RouteInv
  <2> QED BY <2>3, <2>4
<1>3. CASE Acquire
  <2>1. <<dmsg, dcur>> \in Deliveries /\ dcur \in Handlers /\ dmsg \in Msgs
    BY <1>3 DEF Acquire, RouteInv, Holding, Deliveries
  <2>2. \A d \in Deliveries : task'[d] = IF d = <<dmsg, dcur>> THEN "run" ELSE task[d]
    BY <1>3, <2>1 DEF Acquire, RouteInv, Types
  <2>3. \A m \in Msgs, h \in Handlers :
            task'[<<m, h>>] = IF m = dmsg /\ h = dcur THEN "run" ELSE task[<<m, h>>]
    BY <2>2 DEF Deliveries
  <2>4. \A m \in Msgs : HasTask(m)' <=> HasTask(m) \/ m = dmsg
    BY <2>1, <2>3 DEF HasTask
  <2>5. UNCHANGED <<messages, unrouted>> /\ InHand = 1
    BY <1>3, <2>1, NoneAssumption DEF Acquire, InHand
  <2>6. CASE dtodo = {}
    <3>1. dmsg' = None
      BY <1>3, <2>6 DEF Acquire
    <3>2. Over' = Over \cup {dmsg} /\ dmsg \notin Over /\ InHand' = 0
      BY <2>1, <2>4, <3>1, NoneAssumption DEF Over, InHand
    <3>3. Cardinality(Over') = Cardinality(Over) + 1
      BY <3>2, CountsFinite, FS_AddElement DEF RouteInv
    <3> QED BY <1>1, <2>5, <3>2, <3>3, CountsFinite DEF PublishBalance, RouteInv
  <2>7. CASE dtodo # {}
    <3>1. UNCHANGED dmsg
      BY <1>3, <2>7 DEF Acquire
    <3>2. Over' = Over /\ InHand' = InHand
      BY <2>4, <3>1 DEF Over, InHand
    <3> QED BY <1>1, <2>5, <3>2 DEF PublishBalance
  <2> QED BY <2>6, <2>7
<1>4. CASE StartDrain \/ DispatcherDone \/ \E h \in dtodo : Spawn(h)
  BY <1>4, SamePublished DEF StartDrain, DispatcherDone, Spawn, HasTask
<1> QED BY <1>2, <1>3, <1>4 DEF DispatcherNext

LEMMA StepPublished == RouteInv /\ PublishBalance /\ [Next]_vars => PublishBalance'
<1> SUFFICES ASSUME RouteInv, PublishBalance, [Next]_vars PROVE PublishBalance'
  OBVIOUS
<1>1. ASSUME NEW d \in Deliveries, TaskNext(d) PROVE PublishBalance'
  <2>1. \A e \in Deliveries : task'[e] # "none" <=> task[e] # "none"
    BY <1>1, TaskSteps DEF RouteInv
  <2>2. \A m \in Msgs, h \in Handlers : task'[<<m, h>>] # "none" <=> task[<<m, h>>] # "none"
    BY <2>1 DEF Deliveries
  <2>3. \A m \in Msgs : HasTask(m)' <=> HasTask(m)
    BY <2>2 DEF HasTask
  <2>4. UNCHANGED <<messages, pub, dmsg, unrouted, totalPublished>>
    BY <1>1 DEF TaskNext, HandlerReturns, HandlerPanics, WgDone, Release
  <2> QED BY <2>3, <2>4, SamePublished
<1>2. CASE \/ \E c \in Callers : StopNext(c)
           \/ \E h \in Handlers : Subscribe(h)
           \/ Unsubscribe \/ CloseChannel \/ ParentCancelled \/ UNCHANGED vars
  <2>1. UNCHANGED <<messages, pub, dmsg, unrouted, totalPublished, task>>
    BY <1>2 DEF StopNext, StopBegin, StopWait, StopStore, Subscribe, Unsubscribe,
       CloseChannel, ParentCancelled, vars
  <2> QED BY <2>1, SamePublished DEF HasTask
<1> QED BY <1>1, <1>2, PublisherBalance, DispatcherBalance DEF Next

(* A handler is counted when it returns, or when its panic is recovered.   *)
LEMMA StepDelivered == RouteInv /\ DeliverBalance /\ [Next]_vars => DeliverBalance'
<1> SUFFICES ASSUME RouteInv, DeliverBalance, [Next]_vars PROVE DeliverBalance'
  OBVIOUS
<1>1. totalDelivered \in Nat /\ totalErrors \in Nat
  BY DEF RouteInv, Types
<1>2. ASSUME NEW d \in Deliveries, TaskNext(d) PROVE DeliverBalance'
  <2>1. ASSUME Counted' = Counted \cup {d}, d \notin Counted,
               totalDelivered' + totalErrors' = totalDelivered + totalErrors + 1
        PROVE  DeliverBalance'
    <3>1. Cardinality(Counted') = Cardinality(Counted) + 1
      BY <2>1, CountsFinite, FS_AddElement DEF RouteInv
    <3> QED BY <2>1, <3>1 DEF DeliverBalance
  <2>2. ASSUME Counted' = Counted, UNCHANGED <<totalDelivered, totalErrors>>
        PROVE  DeliverBalance'
    BY <2>2 DEF DeliverBalance
  <2>3. CASE HandlerReturns(d)
    <3>1. Counted' = Counted \cup {d} /\ d \notin Counted
      BY <2>3 DEF HandlerReturns, RouteInv, Types, Counted
    <3>2. totalDelivered' + totalErrors' = totalDelivered + totalErrors + 1
      BY <1>1, <2>3 DEF HandlerReturns
    <3> QED BY <2>1, <3>1, <3>2
  <2>4. CASE HandlerPanics(d) \/ WgDone(d)
    <3>1. Counted' = Counted
      BY <2>4 DEF HandlerPanics, WgDone, DeferRuns, RouteInv, Types, Counted
    <3> QED BY <2>2, <2>4, <3>1 DEF HandlerPanics, WgDone
  <2>5. CASE Release(d) /\ task[d] = "releasePanic"
    <3>1. Counted' = Counted \cup {d} /\ d \notin Counted
      BY <2>5 DEF Release, RouteInv, Types, Counted
    <3>2. totalDelivered' + totalErrors' = totalDelivered + totalErrors + 1
      BY <1>1, <2>5 DEF Release, PanicErrors
    <3> QED BY <2>1, <3>1, <3>2
  <2>6. CASE Release(d) /\ task[d] = "release"
    <3>1. Counted' = Counted
      BY <2>6 DEF Release, RouteInv, Types, Counted
    <3>2. UNCHANGED <<totalDelivered, totalErrors>>
      BY <1>1, <2>6 DEF Release, PanicErrors
    <3> QED BY <2>2, <3>1, <3>2
  <2> QED BY <1>2, <2>3, <2>4, <2>5, <2>6 DEF TaskNext, Release
<1>3. CASE DispatcherNext
  <2>1. UNCHANGED <<totalDelivered, totalErrors>>
    BY <1>3 DEF DispatcherNext, Receive, Spawn, Acquire, StartDrain, DispatcherDone
  <2>2. Counted' = Counted
    <3>1. CASE Acquire
      <4>1. <<dmsg, dcur>> \in Deliveries /\ task[<<dmsg, dcur>>] = "none"
        BY <3>1 DEF Acquire, RouteInv, Holding, Deliveries
      <4>2. \A d \in Deliveries : task'[d] = IF d = <<dmsg, dcur>> THEN "run" ELSE task[d]
        BY <3>1, <4>1 DEF Acquire, RouteInv, Types
      <4> QED BY <4>1, <4>2 DEF Counted
    <3>2. CASE ~Acquire
      BY <1>3, <3>2 DEF DispatcherNext, Receive, Spawn, StartDrain, DispatcherDone, Counted
    <3> QED BY <3>1, <3>2
  <2> QED BY <2>1, <2>2 DEF DeliverBalance
<1>4. CASE \/ \E m \in Msgs : PublishNext(m)
           \/ \E c \in Callers : StopNext(c)
           \/ \E h \in Handlers : Subscribe(h)
           \/ Unsubscribe \/ CloseChannel \/ ParentCancelled \/ UNCHANGED vars
  <2>1. UNCHANGED <<totalDelivered, totalErrors, task>>
    BY <1>4 DEF PublishNext, PublishCheck, PublishSend, PublishGiveUp, PublishPanic, PublishCount,
       StopNext, StopBegin, StopWait, StopStore, Subscribe, Unsubscribe, CloseChannel,
       ParentCancelled, vars
  <2> QED BY <2>1 DEF DeliverBalance, Counted
<1> QED BY <1>2, <1>3, <1>4 DEF Next

(* Stats never miscounts, with any number of publishers, handlers, panics  *)
(* and shutdowns under way.                                                *)
THEOREM CountersBalance == Spec => []StatsBalance
<1> DEFINE I == RouteInv /\ PublishBalance /\ DeliverBalance
<1>1. Init => I
  <2> SUFFICES ASSUME Init PROVE I
    OBVIOUS
  <2>1. RouteInv
    BY InitRoute
  <2>2. Counting = {} /\ Over = {} /\ Counted = {} /\ unrouted = {} /\ InHand = 0 /\ Len(messages) = 0
    <3>1. \A d \in Deliveries : task[d] = "none"
      BY DEF Init
    <3>2. \A m \in Msgs, h \in Handlers : task[<<m, h>>] = "none"
      BY <3>1 DEF Deliveries
    <3>3. Counting = {} /\ unrouted = {} /\ InHand = 0 /\ Len(messages) = 0
      BY DEF Init, Counting, InHand
    <3>4. Over = {}
      BY <3>2 DEF Over, HasTask
    <3>5. Counted = {}
      BY <3>1 DEF Counted
    <3> QED BY <3>3, <3>4, <3>5
  <2> QED BY <2>1, <2>2, FS_EmptySet DEF Init, PublishBalance, DeliverBalance
<1>2. I /\ [Next]_vars => I'
  BY StepRoute, StepPublished, StepDelivered
<1>3. I => StatsBalance
  BY DEF PublishBalance, DeliverBalance, StatsBalance, Counting, Over, HasTask, Counted, InHand
<1> QED BY <1>1, <1>2, <1>3, PTL DEF Spec

=============================================================================
