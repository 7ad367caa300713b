--------------------------- MODULE StreamerProofs ---------------------------
(***************************************************************************)
(* Proofs about the streamers' lock, for every number of streamers,        *)
(* records, crashes and failing Redis commands.                            *)
(***************************************************************************)
EXTENDS Streamer, TLAPS

(* Streamers start well typed and outside a batch.                         *)
LEMMA InitType == Init => TypeOK
  BY RecordAssumption, BoundAssumption DEF Init, TypeOK, PCs

(* Every step of a streamer preserves the types.                           *)
LEMMA StreamerType == ASSUME TypeOK, NEW s \in Streamers, StreamerStep(s) PROVE TypeOK'
<1> USE DEF TypeOK, PCs, Goto, Fault, CompareAndDelete, SetNX
<1>1. CASE LoopTop(s) \/ Acquire(s) \/ AcquireCancelled(s)
  BY <1>1 DEF LoopTop, Acquire, AcquireCancelled
<1>2. CASE AcquireError(s)
  BY <1>2, BoundAssumption DEF AcquireError
<1>3. CASE ReadFile(s) \/ ReadFileError(s) \/ BatchDone(s)
  BY <1>3 DEF ReadFile, ReadFileError, BatchDone
<1>4. CASE PublishRecord(s)
  BY <1>4, RecordAssumption DEF PublishRecord, MoreRecords
<1>5. CASE Release(s) \/ ErrorRelease(s) \/ Return(s)
  <2>1. faults' \in 0..MaxFaults
    BY <1>5, BoundAssumption DEF Release, ErrorRelease, Return
  <2>2. lock' \in Streamers \cup {None} /\ tainted' \in SUBSET Streamers
    BY <1>5 DEF Release, ErrorRelease, Return
  <2>3. pc' \in [Streamers -> PCs]
    BY <1>5 DEF Release, ErrorRelease, Return
  <2> QED BY <1>5, <2>1, <2>2, <2>3 DEF Release, ErrorRelease, Return
<1> QED BY <1>1, <1>2, <1>3, <1>4, <1>5 DEF StreamerStep

(* TypeOK is inductive.                                                    *)
LEMMA StepType == TypeOK /\ [Next]_vars => TypeOK'
<1> SUFFICES ASSUME TypeOK, [Next]_vars PROVE TypeOK'
  OBVIOUS
<1>1. ASSUME NEW s \in Streamers, Cancel(s) \/ Crash(s) \/ Restart(s) PROVE TypeOK'
  <2>1. CASE Cancel(s)
    BY <2>1 DEF TypeOK, Cancel
  <2>2. CASE Crash(s)
    BY <2>2, RecordAssumption, BoundAssumption DEF TypeOK, PCs, Goto, Crash
  <2>3. CASE Restart(s)
    BY <2>3 DEF TypeOK, PCs, Goto, Restart
  <2> QED BY <1>1, <2>1, <2>2, <2>3
<1>2. CASE LockExpires
  BY <1>2 DEF LockExpires, TypeOK
<1>3. CASE UNCHANGED vars
  BY <1>3 DEF vars, TypeOK
<1> QED BY <1>1, <1>2, <1>3, StreamerType DEF Next

(* Type correctness of the streamers and their lock.                       *)
THEOREM StreamerTypes == Spec => []TypeOK
  BY InitType, StepType, PTL DEF Spec

-----------------------------------------------------------------------------
(* StreamerOwnsLock is inductive: the lock of a streaming instance is      *)
(* neither given away by SET NX nor deleted by a release of another one.   *)
LEMMA StepLock == TypeOK /\ StreamerOwnsLock /\ [Next]_vars => StreamerOwnsLock'
<1> SUFFICES ASSUME TypeOK, StreamerOwnsLock, [Next]_vars,
                    NEW t \in Streamers, Streaming(t)', t \notin overran'
             PROVE  lock' = t
  BY DEF StreamerOwnsLock
<1> USE DEF Streaming, StreamerOwnsLock, Goto, TypeOK
<1>1. ASSUME NEW s \in Streamers, StreamerStep(s) PROVE lock' = t
  <2>1. CASE LoopTop(s) \/ AcquireCancelled(s) \/ ReadFile(s) \/ ReadFileError(s)
             \/ PublishRecord(s) \/ BatchDone(s)
    BY <2>1 DEF LoopTop, AcquireCancelled, ReadFile, ReadFileError, PublishRecord, BatchDone
  <2>2. CASE Acquire(s)
    BY <2>2, StreamerAssumption DEF Acquire, SetNX
  <2>3. CASE AcquireError(s)
    BY <2>3, StreamerAssumption DEF AcquireError
  <2>4. CASE Release(s) \/ ErrorRelease(s) \/ Return(s)
    <3>1. s # t /\ Streaming(t)
      BY <2>4 DEF Release, ErrorRelease, Return
    <3> QED BY <2>4, <3>1 DEF Release, ErrorRelease, Return, CompareAndDelete
  <2> QED BY <1>1, <2>1, <2>2, <2>3, <2>4 DEF StreamerStep
<1>2. ASSUME NEW s \in Streamers, Cancel(s) \/ Crash(s) \/ Restart(s) PROVE lock' = t
  BY <1>2 DEF Cancel, Crash, Restart
<1>3. CASE LockExpires
  BY <1>3 DEF LockExpires, InBatch
<1>4. CASE UNCHANGED vars
  BY <1>4 DEF vars
<1> QED BY <1>1, <1>2, <1>3, <1>4 DEF Next

(* Within the TTL whoever streams owns the lock, and so two instances      *)
(* stream at once only after one overran it, whatever crashes and Redis    *)
(* errors happen.                                                          *)
THEOREM LockExcludes == Spec => [](OneStreamer /\ StreamerOwnsLock)
<1>1. Init => StreamerOwnsLock
  BY DEF Init, StreamerOwnsLock, Streaming
<1>2. StreamerOwnsLock => OneStreamer
  BY DEF StreamerOwnsLock, OneStreamer
<1> QED BY <1>1, <1>2, InitType, StepType, StepLock, PTL DEF Spec

-----------------------------------------------------------------------------
(* The step form of ReleaseOwnOnly.                                        *)
OwnStep == \A s \in Streamers : lock = s /\ lock' # s => LockExpires \/ pc'[s] # pc[s]

(* A step that takes the lock from s is its expiry or a release by s.      *)
LEMMA StepOwn == TypeOK /\ [Next]_vars => [OwnStep]_vars
<1> SUFFICES ASSUME TypeOK, Next, NEW s \in Streamers, lock = s, lock' # s
             PROVE  LockExpires \/ pc'[s] # pc[s]
  BY DEF OwnStep
<1>1. ASSUME NEW t \in Streamers, StreamerStep(t) PROVE pc'[s] # pc[s]
  <2>1. Release(t) \/ ErrorRelease(t) \/ Return(t)
    BY <1>1, StreamerAssumption
       DEF StreamerStep, LoopTop, Acquire, SetNX, AcquireError, AcquireCancelled, ReadFile,
           ReadFileError, PublishRecord, BatchDone
  <2>2. t = s
    BY <2>1 DEF Release, ErrorRelease, Return, CompareAndDelete
  <2> QED BY <2>1, <2>2 DEF Release, ErrorRelease, Return, Goto, TypeOK
<1>2. ASSUME NEW t \in Streamers, Cancel(t) \/ Crash(t) \/ Restart(t) PROVE FALSE
  BY <1>2 DEF Cancel, Crash, Restart
<1> QED BY <1>1, <1>2 DEF Next

(* A lock goes away by a step of its owner or by its TTL, even when a      *)
(* batch overran the TTL and its owner releases late.                      *)
THEOREM LateReleaseHarmless == Spec => ReleaseOwnOnly
<1>1. Spec => [][OwnStep]_vars
  BY InitType, StepType, StepOwn, PTL DEF Spec
<1> QED BY <1>1 DEF ReleaseOwnOnly, OwnStep

-----------------------------------------------------------------------------
(* A streamer no failure hit holds the lock only while a deferred release  *)
(* is registered; a restart, which forgets that, follows a crash.          *)
DeferInv ==
    \A s \in Streamers :
        /\ pc[s] = "crashed" => s \in tainted
        /\ s \notin tainted /\ lock = s => deferred[s] /\ pc[s] # "stopped"

(* DeferInv is inductive relative to the types.                            *)
LEMMA StepDefer == TypeOK /\ DeferInv /\ [Next]_vars => DeferInv'
<1> SUFFICES ASSUME TypeOK, DeferInv, [Next]_vars, NEW t \in Streamers
             PROVE  /\ pc'[t] = "crashed" => t \in tainted'
                    /\ t \notin tainted' /\ lock' = t => deferred'[t] /\ pc'[t] # "stopped"
  BY DEF DeferInv
<1> USE DEF DeferInv, Goto, TypeOK
<1>1. ASSUME NEW s \in Streamers, StreamerStep(s)
      PROVE  /\ pc'[t] = "crashed" => t \in tainted'
             /\ t \notin tainted' /\ lock' = t => deferred'[t] /\ pc'[t] # "stopped"
  <2>1. CASE LoopTop(s) \/ AcquireCancelled(s) \/ ReadFile(s) \/ ReadFileError(s)
             \/ PublishRecord(s) \/ BatchDone(s)
    BY <2>1 DEF LoopTop, AcquireCancelled, ReadFile, ReadFileError, PublishRecord, BatchDone
  <2>2. CASE Acquire(s)
    BY <2>2, StreamerAssumption DEF Acquire, SetNX
  <2>3. CASE AcquireError(s)
    BY <2>3, StreamerAssumption DEF AcquireError, Fault
  <2>4. CASE Release(s) \/ ErrorRelease(s)
    BY <2>4, StreamerAssumption DEF Release, ErrorRelease, CompareAndDelete, Fault
  <2>5. CASE Return(s)
    BY <2>5, StreamerAssumption DEF Return, ReleaseDeferred, CompareAndDelete, Fault
  <2> QED BY <1>1, <2>1, <2>2, <2>3, <2>4, <2>5 DEF StreamerStep
<1>2. ASSUME NEW s \in Streamers, Cancel(s) \/ Crash(s) \/ Restart(s)
      PROVE  /\ pc'[t] = "crashed" => t \in tainted'
             /\ t \notin tainted' /\ lock' = t => deferred'[t] /\ pc'[t] # "stopped"
  BY <1>2 DEF Cancel, Crash, Restart
<1>3. CASE LockExpires
  BY <1>3, StreamerAssumption DEF LockExpires
<1>4. CASE UNCHANGED vars
  BY <1>4 DEF vars
<1> QED BY <1>1, <1>2, <1>3, <1>4 DEF Next

(* A streamer that stops by itself leaves no lock behind, also when the    *)
(* release after its batch came too late for its context.                  *)
THEOREM StopReleases == Spec => []StoppedReleased
<1>1. Init => DeferInv
  BY StreamerAssumption DEF Init, DeferInv
<1>2. DeferInv => StoppedReleased
  BY DEF DeferInv, StoppedReleased
<1> QED BY <1>1, <1>2, InitType, StepType, StepDefer, PTL DEF Spec

=============================================================================
