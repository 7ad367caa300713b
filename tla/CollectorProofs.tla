-------------------------- MODULE CollectorProofs --------------------------
(***************************************************************************)
(* Proofs about one collector process, for any number of messages and      *)
(* workers, any sizes of its work queue and batches, and any failures.     *)
(***************************************************************************)
EXTENDS Collector, ListTheorems

(* What the goroutines hold: a busy worker has a message, and so has the   *)
(* polling goroutine between handleMessage and the Ack or Nack.            *)
JobHeld  == \A w \in Workers : Busy(w) => job[w] \in Msgs
CurHeld  == poll = "settle" => cur \in Msgs

TypeInv == TypeOK /\ JobHeld /\ CurHeld

(* Start closes the work queue after it subscribed, and only once the      *)
(* polling goroutine has ended, which then never sends again.              *)
CloseInv == NoSendOnClosed /\ (start = "init" => ~wqClosed)

(* Where a message is that the queue service was told to forget.           *)
Accounted(m) ==
    \/ m \in stored \cup failed
    \/ In(m, workQueue)
    \/ \E w \in Workers : Busy(w) /\ job[w] = m
    \/ start = "exited" /\ m \in abandoned

(* The verdict "ack" is only given to a message that is accounted for.     *)
VerdictInv == poll = "settle" /\ verdict = "ack" => Accounted(cur)

USE DEF remoteVars, pollVars, poolVars, ctlVars, statVars, hisVars, budVars

-----------------------------------------------------------------------------
(* Types.                                                                  *)

LEMMA InitTypes == Init => TypeInv
<1> SUFFICES ASSUME Init PROVE TypeInv
  OBVIOUS
<1>1. redeliveries \in 0..MaxRedeliveries /\ failures \in 0..MaxFailures
  BY SizeAssumption DEF Init
<1>2. workQueue \in Seq(Msgs) /\ Len(workQueue) <= QueueSize
  BY SizeAssumption, EmptyList DEF Init
<1> QED BY <1>1, <1>2 DEF Init, TypeInv, TypeOK, JobHeld, CurHeld, Busy

LEMMA FailType == ASSUME failures \in 0..MaxFailures, Fail PROVE failures' \in 0..MaxFailures
  BY SizeAssumption DEF Fail

(* The end of processMessage.                                              *)
LEMMA FinishTypes ==
  ASSUME TypeInv, NEW w \in Workers, Busy(w), NEW ok \in BOOLEAN, Finish(w, ok),
         failures' \in 0..MaxFailures, UNCHANGED start
  PROVE  TypeInv'
<1>1. job[w] \in Msgs
  BY DEF TypeInv, JobHeld
<1>2. JobHeld' /\ CurHeld'
  BY DEF Finish, TypeInv, TypeOK, JobHeld, CurHeld, Busy
<1>3. CASE ok
  BY <1>1, <1>2, <1>3 DEF Finish, TypeInv, TypeOK
<1>4. CASE ~ok
  BY <1>1, <1>2, <1>4 DEF Finish, TypeInv, TypeOK
<1> QED BY <1>3, <1>4

(* The polling goroutine, and the queue service's timeout.                 *)
LEMMA PollTypes ==
  ASSUME TypeInv, PollFetch \/ PollExit \/ Settle
                  \/ \E m \in Msgs : \/ HandleEnqueue(m) \/ HandleTimeout(m)
                                     \/ HandleCancelled(m) \/ Redeliver(m)
  PROVE  TypeInv'
<1>1. CASE PollFetch
  BY <1>1 DEF PollFetch, TypeInv, TypeOK, JobHeld, CurHeld, Busy
<1>2. CASE PollExit
  BY <1>2 DEF PollExit, TypeInv, TypeOK, JobHeld, CurHeld, Busy
<1>3. CASE Settle
  <2>1. cur \in Msgs /\ failures' \in 0..MaxFailures
    BY <1>3, FailType DEF Settle, TypeInv, TypeOK, CurHeld
  <2>2. avail' \in SUBSET Msgs /\ leased' \in SUBSET Msgs /\ acked' \in SUBSET Msgs
    BY <1>3, <2>1 DEF Settle, TypeInv, TypeOK
  <2> QED BY <1>3, <2>1, <2>2 DEF Settle, TypeInv, TypeOK, JobHeld, CurHeld, Busy
<1>4. ASSUME NEW m \in Msgs, HandleEnqueue(m) PROVE TypeInv'
  <2>1. workQueue' \in Seq(Msgs) /\ Len(workQueue') <= QueueSize
    BY <1>4, SizeAssumption DEF HandleEnqueue, HasRoom, TypeInv, TypeOK
  <2> QED BY <1>4, <2>1 DEF HandleEnqueue, TypeInv, TypeOK, JobHeld, CurHeld, Busy
<1>5. ASSUME NEW m \in Msgs, HandleTimeout(m) PROVE TypeInv'
  BY <1>5 DEF HandleTimeout, TypeInv, TypeOK, JobHeld, CurHeld, Busy
<1>6. ASSUME NEW m \in Msgs, HandleCancelled(m) PROVE TypeInv'
  BY <1>6 DEF HandleCancelled, TypeInv, TypeOK, JobHeld, CurHeld, Busy
<1>7. ASSUME NEW m \in Msgs, Redeliver(m) PROVE TypeInv'
  BY <1>7, SizeAssumption DEF Redeliver, TypeInv, TypeOK, JobHeld, CurHeld, Busy
<1> QED BY <1>1, <1>2, <1>3, <1>4, <1>5, <1>6, <1>7

LEMMA WorkerTypes == ASSUME TypeInv, NEW w \in Workers, WorkerStep(w) PROVE TypeInv'
<1>1. CASE WorkerTake(w)
  <2>1. Head(workQueue) \in Msgs /\ Tail(workQueue) \in Seq(Msgs)
        /\ Len(Tail(workQueue)) <= QueueSize
    BY <1>1, SizeAssumption DEF WorkerTake, TypeInv, TypeOK
  <2> QED BY <1>1, <2>1 DEF WorkerTake, TypeInv, TypeOK, JobHeld, CurHeld, Busy
<1>2. CASE WorkerStop(w)
  BY <1>2 DEF WorkerStop, TypeInv, TypeOK, JobHeld, CurHeld, Busy
<1>3. CASE WorkerStoreGPU(w)
  BY <1>3 DEF WorkerStoreGPU, TypeInv, TypeOK, JobHeld, CurHeld, Busy
<1>4. CASE WorkerReject(w)
  <2>1. Busy(w) /\ Finish(w, FALSE) /\ failures' \in 0..MaxFailures /\ UNCHANGED start
    BY <1>4 DEF WorkerReject, Busy, Finish, TypeInv, TypeOK
  <2> QED BY <2>1, FinishTypes
<1>5. CASE WorkerStore(w)
  <2>1. Busy(w) /\ failures' \in 0..MaxFailures /\ UNCHANGED start
    BY <1>5, FailType DEF WorkerStore, Busy, Finish, TypeInv, TypeOK
  <2>2. \E ok \in BOOLEAN : Finish(w, ok)
    BY <1>5 DEF WorkerStore
  <2> QED BY <2>1, <2>2, FinishTypes
<1> QED BY <1>1, <1>2, <1>3, <1>4, <1>5 DEF WorkerStep

(* Start, the monitor and the end of the process.                          *)
ControlNext ==
    \/ MonitorWake \/ MonitorClose \/ Subscribe \/ Cancel \/ Unsubscribe
    \/ CloseQueue \/ StartReturn \/ Exit \/ Kill

LEMMA ControlTypes == ASSUME TypeInv, ControlNext PROVE TypeInv'
<1> USE DEF TypeInv, TypeOK, JobHeld, CurHeld, Busy
<1>1. CASE MonitorWake \/ MonitorClose
  BY <1>1 DEF MonitorWake, MonitorClose
<1>2. CASE Subscribe \/ Unsubscribe
  BY <1>2 DEF Subscribe, Unsubscribe
<1>3. CASE Cancel
  BY <1>3 DEF Cancel
<1>4. CASE CloseQueue \/ StartReturn
  BY <1>4 DEF CloseQueue, StartReturn
<1>5. CASE Exit \/ Kill
  BY <1>5 DEF Exit, Kill, Gone
<1> QED BY <1>1, <1>2, <1>3, <1>4, <1>5 DEF ControlNext

(* The steps of the process by goroutine.                                  *)
LEMMA StepsOf ==
  ASSUME [Next]_vars
  PROVE  \/ PollFetch \/ PollExit \/ Settle
            \/ \E m \in Msgs : \/ HandleEnqueue(m) \/ HandleTimeout(m)
                               \/ HandleCancelled(m) \/ Redeliver(m)
         \/ \E w \in Workers : WorkerStep(w)
         \/ ControlNext
         \/ UNCHANGED vars
  BY DEF Next, WorkerStep, ControlNext

LEMMA StepTypes == TypeInv /\ [Next]_vars => TypeInv'
<1> SUFFICES ASSUME TypeInv, [Next]_vars PROVE TypeInv'
  OBVIOUS
<1>1. CASE UNCHANGED vars
  BY <1>1 DEF vars, TypeInv, TypeOK, JobHeld, CurHeld, Busy
<1> QED BY <1>1, StepsOf, PollTypes, WorkerTypes, ControlTypes

(* The collector's variables keep their types and the work queue never     *)
(* exceeds its capacity.                                                   *)
THEOREM CollectorTypes == Spec => []TypeOK
<1>1. TypeInv => TypeOK
  BY DEF TypeInv
<1> QED BY <1>1, InitTypes, StepTypes, PTL DEF Spec

-----------------------------------------------------------------------------
(* The closed channel.                                                     *)

(* A finished poller stays finished unless Start only now subscribes, and  *)
(* nobody but Start closes the channel.                                    *)
LEMMA StepClose == CloseInv /\ [Next]_vars => CloseInv'
<1> SUFFICES ASSUME CloseInv, [Next]_vars PROVE CloseInv'
  OBVIOUS
<1> USE DEF CloseInv, NoSendOnClosed
<1>1. CASE \/ PollFetch \/ PollExit \/ Settle
           \/ \E m \in Msgs : \/ HandleEnqueue(m) \/ HandleTimeout(m)
                              \/ HandleCancelled(m) \/ Redeliver(m)
  BY <1>1 DEF PollFetch, PollExit, Settle, HandleEnqueue, HandleTimeout, HandleCancelled, Redeliver
<1>2. ASSUME NEW w \in Workers, WorkerStep(w) PROVE CloseInv'
  BY <1>2 DEF WorkerStep, WorkerTake, WorkerStop, WorkerReject, WorkerStoreGPU, WorkerStore, Finish
<1>3. CASE ControlNext
  BY <1>3 DEF ControlNext, MonitorWake, MonitorClose, Subscribe, Cancel, Unsubscribe,
     CloseQueue, Unsubscribed, StartReturn, Exit, Kill, Gone
<1>4. CASE UNCHANGED vars
  BY <1>4 DEF vars
<1> QED BY <1>1, <1>2, <1>3, <1>4, StepsOf

(* Start never closes the work queue under the polling goroutine: no send  *)
(* on a closed channel, wherever in a batch the cancel arrived.            *)
THEOREM ClosedAfterPolling == Spec => []NoSendOnClosed
<1>1. Init => CloseInv
  BY DEF Init, CloseInv, NoSendOnClosed
<1>2. CloseInv => NoSendOnClosed
  BY DEF CloseInv
<1> QED BY <1>1, <1>2, StepClose, PTL DEF Spec

-----------------------------------------------------------------------------
(* Acknowledged messages.  No step makes an accounted message disappear:   *)
(* it goes from the channel to a worker and from there to a counter, or    *)
(* the end of the process puts it down as abandoned.                       *)

LEMMA TakeKeeps ==
  ASSUME TypeInv, NEW w \in Workers, WorkerTake(w), NEW m \in Msgs, Accounted(m)
  PROVE  Accounted(m)'
<1> USE DEF Accounted
<1>1. workQueue \in Seq(Msgs) /\ workQueue # <<>> /\ workQueue' = Tail(workQueue)
  BY DEF WorkerTake, TypeInv, TypeOK
<1>2. CASE In(m, workQueue)
  <2>1. In(m, workQueue') \/ m = Head(workQueue)
    BY <1>1, <1>2, InPop
  <2>2. Busy(w)' /\ job'[w] = Head(workQueue)
    BY DEF WorkerTake, TypeInv, TypeOK, Busy
  <2> QED BY <2>1, <2>2
<1>3. ASSUME NEW v \in Workers, Busy(v), job[v] = m PROVE Accounted(m)'
  <2>1. v # w
    BY <1>3 DEF WorkerTake, Busy
  <2>2. Busy(v)' /\ job'[v] = m
    BY <1>3, <2>1 DEF WorkerTake, TypeInv, TypeOK, Busy
  <2> QED BY <2>2
<1>4. CASE m \in stored \cup failed \/ (start = "exited" /\ m \in abandoned)
  BY <1>4 DEF WorkerTake, Running
<1> QED BY <1>2, <1>3, <1>4

LEMMA FinishKeeps ==
  ASSUME TypeInv, NEW w \in Workers, NEW ok \in BOOLEAN, Running, Finish(w, ok),
         NEW m \in Msgs, Accounted(m)
  PROVE  Accounted(m)'
<1> USE DEF Accounted
<1>1. stored \cup failed \cup {job[w]} \subseteq stored' \cup failed'
  BY DEF Finish
<1>2. ASSUME NEW v \in Workers, Busy(v), job[v] = m PROVE Accounted(m)'
  <2>1. CASE v = w
    BY <1>1, <1>2, <2>1
  <2>2. CASE v # w
    <3>1. Busy(v)' /\ job'[v] = m
      BY <1>2, <2>2 DEF Finish, TypeInv, TypeOK, Busy
    <3> QED BY <3>1
  <2> QED BY <2>1, <2>2
<1>3. CASE m \in stored \cup failed \/ In(m, workQueue)
  BY <1>1, <1>3 DEF Finish
<1> QED BY <1>2, <1>3 DEF Running

LEMMA AccountedKept ==
  ASSUME TypeInv, [Next]_vars, NEW m \in Msgs, Accounted(m)
  PROVE  Accounted(m)'
<1>1. CASE \/ PollFetch \/ PollExit \/ Settle
           \/ \E n \in Msgs : HandleCancelled(n) \/ Redeliver(n)
  BY <1>1 DEF PollFetch, PollExit, Settle, HandleCancelled, Redeliver, Accounted, Busy
<1>2. ASSUME NEW n \in Msgs, HandleEnqueue(n) PROVE Accounted(m)'
  <2>1. In(m, workQueue) => In(m, workQueue')
    BY <1>2, InAppend DEF HandleEnqueue, TypeInv, TypeOK
  <2> QED BY <1>2, <2>1 DEF HandleEnqueue, Accounted, Busy
<1>3. ASSUME NEW n \in Msgs, HandleTimeout(n) PROVE Accounted(m)'
  BY <1>3 DEF HandleTimeout, Accounted, Busy
<1>4. ASSUME NEW w \in Workers, WorkerStep(w) PROVE Accounted(m)'
  <2>1. CASE WorkerTake(w)
    BY <2>1, TakeKeeps
  <2>2. CASE WorkerStop(w) \/ WorkerStoreGPU(w)
    <3>1. \A v \in Workers : Busy(v) => Busy(v)' /\ job'[v] = job[v]
      BY <2>2 DEF WorkerStop, WorkerStoreGPU, TypeInv, TypeOK, Busy
    <3> QED BY <2>2, <3>1 DEF WorkerStop, WorkerStoreGPU, Accounted
  <2>3. CASE WorkerReject(w) \/ WorkerStore(w)
    <3>1. Running /\ \E ok \in BOOLEAN : Finish(w, ok)
      BY <2>3 DEF WorkerReject, WorkerStore
    <3> QED BY <3>1, FinishKeeps
  <2> QED BY <1>4, <2>1, <2>2, <2>3 DEF WorkerStep
<1>5. CASE MonitorWake \/ MonitorClose \/ Subscribe \/ Cancel \/ Unsubscribe \/ CloseQueue \/ StartReturn
  BY <1>5 DEF MonitorWake, MonitorClose, Subscribe, Cancel, Unsubscribe, CloseQueue,
     StartReturn, Accounted, Busy
<1>6. CASE Exit \/ Kill
  BY <1>6 DEF Exit, Kill, Gone, Accounted, Busy
<1>7. CASE UNCHANGED vars
  BY <1>7 DEF vars, Accounted, Busy
<1> QED BY <1>1, <1>2, <1>3, <1>4, <1>5, <1>6, <1>7, StepsOf DEF ControlNext

(* handleMessage returns nil only for a message it enqueued or counted.    *)
LEMMA StepVerdict == TypeInv /\ VerdictInv /\ [Next]_vars => VerdictInv'
<1> SUFFICES ASSUME TypeInv, VerdictInv, [Next]_vars, poll' = "settle", verdict' = "ack"
             PROVE  Accounted(cur)'
  BY DEF VerdictInv, Accounted
<1>1. ASSUME UNCHANGED <<poll, cur, verdict>> PROVE Accounted(cur)'
  <2>1. cur \in Msgs /\ Accounted(cur) /\ cur' = cur
    BY <1>1 DEF VerdictInv, TypeInv, CurHeld
  <2>2. PICK m \in Msgs : m = cur
    BY <2>1
  <2>3. Accounted(m)'
    BY <2>1, <2>2, AccountedKept
  <2> QED BY <2>1, <2>2, <2>3 DEF Accounted
<1>2. CASE PollFetch \/ PollExit \/ Settle \/ \E n \in Msgs : HandleCancelled(n)
  BY <1>2 DEF PollFetch, PollExit, Settle, HandleCancelled
<1>3. ASSUME NEW n \in Msgs, HandleEnqueue(n) PROVE Accounted(cur)'
  <2>1. In(n, workQueue') /\ cur' = n
    BY <1>3, InAppend DEF HandleEnqueue, TypeInv, TypeOK
  <2> QED BY <2>1 DEF Accounted
<1>4. ASSUME NEW n \in Msgs, HandleTimeout(n) PROVE Accounted(cur)'
  BY <1>4 DEF HandleTimeout, Accounted
<1>5. ASSUME NEW n \in Msgs, Redeliver(n) PROVE Accounted(cur)'
  BY <1>1, <1>5 DEF Redeliver
<1>6. ASSUME NEW w \in Workers, WorkerStep(w) PROVE Accounted(cur)'
  BY <1>1, <1>6 DEF WorkerStep, WorkerTake, WorkerStop, WorkerReject, WorkerStoreGPU,
     WorkerStore, Finish
<1>7. CASE ControlNext
  BY <1>1, <1>7 DEF ControlNext, MonitorWake, MonitorClose, Subscribe, Cancel, Unsubscribe,
     CloseQueue, StartReturn, Exit, Kill, Gone
<1>8. CASE UNCHANGED vars
  BY <1>1, <1>8 DEF vars
<1> QED BY <1>2, <1>3, <1>4, <1>5, <1>6, <1>7, <1>8, StepsOf

(* Only Settle acknowledges, and only after the verdict "ack".             *)
LEMMA AckedGrows ==
  ASSUME [Next]_vars, NEW m \in acked'
  PROVE  m \in acked \/ (Settle /\ poll = "settle" /\ verdict = "ack" /\ m = cur)
<1>1. CASE Settle
  BY <1>1 DEF Settle
<1>2. CASE PollFetch \/ PollExit \/ \E n \in Msgs : \/ HandleEnqueue(n) \/ HandleTimeout(n)
                                                   \/ HandleCancelled(n) \/ Redeliver(n)
  BY <1>2 DEF PollFetch, PollExit, HandleEnqueue, HandleTimeout, HandleCancelled, Redeliver
<1>3. ASSUME NEW w \in Workers, WorkerStep(w) PROVE m \in acked
  BY <1>3 DEF WorkerStep, WorkerTake, WorkerStop, WorkerReject, WorkerStoreGPU, WorkerStore, Finish
<1>4. CASE ControlNext
  BY <1>4 DEF ControlNext, MonitorWake, MonitorClose, Subscribe, Cancel, Unsubscribe,
     CloseQueue, StartReturn, Exit, Kill, Gone
<1>5. CASE UNCHANGED vars
  BY <1>5 DEF vars
<1> QED BY <1>1, <1>2, <1>3, <1>4, <1>5, StepsOf

(* No acknowledged message disappears while the process lives: it was      *)
(* stored or counted as an error, or it is in the channel or a worker, and *)
(* what is there when the process ends is what the early Ack costs.        *)
THEOREM AckedNotForgotten == Spec => []AckedAccounted
<1> DEFINE I == TypeInv /\ VerdictInv /\ AckedAccounted
<1>1. Init => I
  BY InitTypes DEF Init, VerdictInv, AckedAccounted
<1>2. I /\ [Next]_vars => I'
  <2> SUFFICES ASSUME TypeInv, VerdictInv, AckedAccounted, [Next]_vars PROVE I'
    OBVIOUS
  <2>1. TypeInv' /\ VerdictInv'
    BY StepTypes, StepVerdict
  <2>2. ASSUME NEW m \in acked' PROVE Accounted(m)'
    <3>1. m \in Msgs /\ Accounted(m)
      BY <2>2, AckedGrows DEF AckedAccounted, Accounted, VerdictInv, TypeInv, TypeOK, CurHeld
    <3> QED BY <3>1, AccountedKept
  <2> QED BY <2>1, <2>2 DEF AckedAccounted, Accounted
<1>3. I => AckedAccounted
  OBVIOUS
<1> QED BY <1>1, <1>2, <1>3, PTL DEF Spec

-----------------------------------------------------------------------------
(* The counters.                                                           *)

BusySet == {w \in Workers : Busy(w)}

LEMMA BusyFinite == IsFiniteSet(BusySet) /\ Cardinality(BusySet) \in Nat
<1>1. BusySet \in SUBSET Workers
  BY DEF BusySet
<1> QED BY <1>1, WorkersAssumption, FS_Subset, FS_CardinalityType

(* Counters and busy workers change together, or not at all.               *)
Balanced == errors + telemetryStored + Cardinality(BusySet) = processed + fullDrops

LEMMA SameBusy ==
  ASSUME UNCHANGED wpc \/ \A w \in Workers : Busy(w)' <=> Busy(w)
  PROVE  BusySet' = BusySet
  BY DEF BusySet, Busy

LEMMA TakeBalance ==
  ASSUME TypeInv, Balanced, NEW w \in Workers, WorkerTake(w)
  PROVE  Balanced'
<1>1. BusySet' = BusySet \cup {w} /\ w \notin BusySet
  BY DEF WorkerTake, TypeInv, TypeOK, BusySet, Busy
<1>2. Cardinality(BusySet') = Cardinality(BusySet) + 1
  BY <1>1, BusyFinite, FS_AddElement
<1> QED BY <1>2, BusyFinite DEF Balanced, WorkerTake, TypeInv, TypeOK

LEMMA FinishBalance ==
  ASSUME TypeInv, Balanced, NEW w \in Workers, Busy(w), NEW ok \in BOOLEAN, Finish(w, ok)
  PROVE  Balanced'
<1>1. BusySet' = BusySet \ {w} /\ w \in BusySet
  BY DEF Finish, TypeInv, TypeOK, BusySet, Busy
<1>2. Cardinality(BusySet') = Cardinality(BusySet) - 1
  BY <1>1, BusyFinite, FS_RemoveElement
<1>3. errors' + telemetryStored' = errors + telemetryStored + 1
  BY DEF Finish, TypeInv, TypeOK
<1>4. UNCHANGED <<processed, fullDrops>> /\ errors' \in Nat /\ telemetryStored' \in Nat
  BY DEF Finish, TypeInv, TypeOK
<1>5. errors \in Nat /\ telemetryStored \in Nat /\ processed \in Nat /\ fullDrops \in Nat
  BY DEF TypeInv, TypeOK
<1>6. errors' + telemetryStored' + Cardinality(BusySet')
        = errors + telemetryStored + Cardinality(BusySet)
  <2>1. PICK a \in Nat, b \in Nat, c \in Nat, d \in Nat :
          a = errors /\ b = telemetryStored /\ c = errors' /\ d = telemetryStored'
    BY <1>4, <1>5
  <2>2. PICK k \in Nat : k = Cardinality(BusySet) /\ Cardinality(BusySet') = k - 1
    BY <1>2, BusyFinite
  <2>3. c + d = a + b + 1
    BY <1>3, <2>1
  <2>4. c + d + (k - 1) = a + b + k
    BY <2>3
  <2> QED BY <2>1, <2>2, <2>4
<1> QED BY <1>4, <1>6 DEF Balanced

LEMMA StepBalance == TypeInv /\ Balanced /\ [Next]_vars => Balanced'
<1> SUFFICES ASSUME TypeInv, Balanced, [Next]_vars PROVE Balanced'
  OBVIOUS
<1>1. CASE \/ PollFetch \/ PollExit \/ Settle \/ ControlNext \/ UNCHANGED vars
           \/ \E m \in Msgs : HandleEnqueue(m) \/ HandleCancelled(m) \/ Redeliver(m)
  <2>1. UNCHANGED <<wpc, errors, telemetryStored, processed, fullDrops>>
    BY <1>1 DEF PollFetch, PollExit, Settle, HandleEnqueue, HandleCancelled, Redeliver,
       ControlNext, MonitorWake, MonitorClose, Subscribe, Cancel, Unsubscribe, CloseQueue,
       StartReturn, Exit, Kill, Gone, vars
  <2> QED BY <2>1, SameBusy DEF Balanced
<1>2. ASSUME NEW m \in Msgs, HandleTimeout(m) PROVE Balanced'
  <2>1. UNCHANGED wpc
    BY <1>2 DEF HandleTimeout
  <2>2. BusySet' = BusySet
    BY <2>1, SameBusy
  <2> QED BY <1>2, <2>2, BusyFinite DEF HandleTimeout, Balanced, TypeInv, TypeOK
<1>3. ASSUME NEW w \in Workers, WorkerStep(w) PROVE Balanced'
  <2>1. CASE WorkerTake(w)
    BY <2>1, TakeBalance
  <2>2. CASE WorkerStop(w) \/ WorkerStoreGPU(w)
    <3>1. \A v \in Workers : Busy(v)' <=> Busy(v)
      BY <2>2 DEF WorkerStop, WorkerStoreGPU, TypeInv, TypeOK, Busy
    <3>2. UNCHANGED <<errors, telemetryStored, processed, fullDrops>>
      BY <2>2 DEF WorkerStop, WorkerStoreGPU
    <3> QED BY <3>1, <3>2, SameBusy DEF Balanced
  <2>3. CASE WorkerReject(w) \/ WorkerStore(w)
    <3>1. Busy(w) /\ \E ok \in BOOLEAN : Finish(w, ok)
      BY <2>3 DEF WorkerReject, WorkerStore, Busy
    <3> QED BY <3>1, FinishBalance
  <2> QED BY <1>3, <2>1, <2>2, <2>3 DEF WorkerStep
<1> QED BY <1>1, <1>2, <1>3, StepsOf

(* Stats never miscounts: whatever workers, rejections, failed stores and  *)
(* full queues interleave, every message taken up is counted exactly once. *)
THEOREM CountersBalance == Spec => []StatsBalance
<1>1. Init => Balanced
  <2> SUFFICES ASSUME Init PROVE Balanced
    OBVIOUS
  <2>1. BusySet = {}
    BY DEF Init, BusySet, Busy
  <2> QED BY <2>1, FS_EmptySet DEF Init, Balanced
<1>2. Balanced <=> StatsBalance
  BY DEF Balanced, BusySet, StatsBalance
<1> QED BY <1>1, <1>2, InitTypes, StepTypes, StepBalance, PTL DEF Spec

=============================================================================
