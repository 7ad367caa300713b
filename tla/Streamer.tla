------------------------------ MODULE Streamer ------------------------------
(***************************************************************************)
(* The streamers (internal/streamer/streamer.go) and the Redis lock they   *)
(* share (batch_lock.go): Start's loop, AcquireLock, streamFile,           *)
(* ReleaseLock and the deferred releases, with the lock's TTL, shutdown,   *)
(* crash and restart, and failing Redis commands.  What a record says does *)
(* not matter to the lock; a batch is the number of records left.          *)
(***************************************************************************)
EXTENDS Integers, FiniteSets

CONSTANTS
    Streamers,     \* instances; the instance id is the lock value
    Records,       \* rows of the CSV file
    LoopMode,      \* config.LoopMode
    None,          \* the lock key does not exist
    MaxFaults,     \* bound: Redis commands that return an error
    MaxCrashes     \* bound: crashes of a streamer

ASSUME StreamerAssumption == None \notin Streamers
ASSUME RecordAssumption == Records \in Nat
ASSUME ModeAssumption == LoopMode \in BOOLEAN
ASSUME BoundAssumption == MaxFaults \in Nat /\ MaxCrashes \in Nat

VARIABLES
    lock,       \* value of streamer:csv:lock, or None
    pc,         \* where Start is
    left,       \* records of the batch still to publish
    deferred,   \* Start has registered a deferred ReleaseLock
    cancelled,  \* the process got SIGTERM
    tainted,    \* history: a crash or a failed command hit this streamer
    overran,    \* history: the TTL ended during the streamer's batch
    faults, crashes

vars == <<lock, pc, left, deferred, cancelled, tainted, overran, faults, crashes>>

PCs == {"loop", "acquire", "open", "publish", "release",
        "fileError", "ctxError", "return", "stopped", "crashed"}

(* Between AcquireLock and ReleaseLock: reading and publishing a batch.    *)
Streaming(s) == pc[s] \in {"open", "publish"}

(* The same, with the releases that follow streamFile.                     *)
InBatch(s) == pc[s] \in {"open", "publish", "release", "fileError", "ctxError"}

Init ==
    /\ lock = None
    /\ pc = [s \in Streamers |-> "loop"]
    /\ left = [s \in Streamers |-> 0]
    /\ deferred = [s \in Streamers |-> FALSE]
    /\ cancelled = [s \in Streamers |-> FALSE]
    /\ tainted = {} /\ overran = {}
    /\ faults = 0 /\ crashes = 0

Goto(s, where) == pc' = [pc EXCEPT ![s] = where]

Fault(s) == /\ faults < MaxFaults /\ faults' = faults + 1
            /\ tainted' = tainted \cup {s}

(* The Lua script of ReleaseLock: delete the key if it holds our id.       *)
DeleteAlways(s) == lock' = None   \* mutant: a plain DEL
CompareAndDelete(s) == lock' = IF lock = s THEN None ELSE lock

(* Top of the loop: ctx.Done or the next batch.                            *)
LoopTop(s) ==
    /\ pc[s] = "loop"
    /\ Goto(s, IF cancelled[s] THEN "return" ELSE "acquire")
    /\ UNCHANGED <<lock, left, deferred, cancelled, tainted, overran, faults, crashes>>

(* SET NX succeeds (mutant: a plain SET).                                  *)
SetAlways(s) == lock' = s
SetNX(s) == lock = None /\ lock' = s

(* AcquireLock: SET NX with a TTL; while the key exists, wait and retry.   *)
Acquire(s) ==
    /\ pc[s] = "acquire" /\ ~cancelled[s] /\ SetNX(s)
    /\ deferred' = [deferred EXCEPT ![s] = TRUE]
    /\ overran' = overran \ {s}
    /\ Goto(s, "open")
    /\ UNCHANGED <<left, cancelled, tainted, faults, crashes>>

(* SETNX returns an error, perhaps after it took effect; it is retried.    *)
AcquireError(s) ==
    /\ pc[s] = "acquire" /\ ~cancelled[s] /\ Fault(s)
    /\ lock' \in {lock, IF lock = None THEN s ELSE lock}
    /\ UNCHANGED <<pc, left, deferred, cancelled, overran, crashes>>

AcquireNotCancelled(s) == FALSE   \* mutant: AcquireLock ignores ctx.Done
AcquireCancelled(s) ==
    /\ pc[s] = "acquire" /\ cancelled[s]
    /\ Goto(s, "return")
    /\ UNCHANGED <<lock, left, deferred, cancelled, tainted, overran, faults, crashes>>

(* streamFile reads the whole file; rows that do not parse are skipped.    *)
ReadFile(s) ==
    /\ pc[s] = "open"
    /\ \E n \in 0..Records : left' = [left EXCEPT ![s] = n]
    /\ Goto(s, "publish")
    /\ UNCHANGED <<lock, deferred, cancelled, tainted, overran, faults, crashes>>

(* The file cannot be opened or has no valid header.                       *)
ReadFileError(s) ==
    /\ pc[s] = "open"
    /\ Goto(s, "fileError")
    /\ UNCHANGED <<lock, left, deferred, cancelled, tainted, overran, faults, crashes>>

(* The range over the records goes on.                                     *)
MoreRecords(s) == left[s] > 0

(* processRecord; a record whose publish fails is counted and skipped.     *)
PublishRecord(s) ==
    /\ pc[s] = "publish" /\ MoreRecords(s)
    /\ IF cancelled[s]
       THEN Goto(s, "ctxError") /\ left' = [left EXCEPT ![s] = 0]
       ELSE left' = [left EXCEPT ![s] = @ - 1] /\ UNCHANGED pc
    /\ UNCHANGED <<lock, deferred, cancelled, tainted, overran, faults, crashes>>

BatchDone(s) ==
    /\ pc[s] = "publish" /\ left[s] = 0
    /\ Goto(s, "release")
    /\ UNCHANGED <<lock, left, deferred, cancelled, tainted, overran, faults, crashes>>

(* After a good batch: ReleaseLock(ctx), which fails once ctx is done.     *)
Release(s) ==
    /\ pc[s] = "release"
    /\ \/ ~cancelled[s] /\ CompareAndDelete(s) /\ UNCHANGED <<tainted, faults>>
       \/ cancelled[s] /\ UNCHANGED <<lock, tainted, faults>>
       \/ Fault(s) /\ UNCHANGED lock
    /\ Goto(s, IF LoopMode THEN "loop" ELSE "return")
    /\ UNCHANGED <<left, deferred, cancelled, overran, crashes>>

(* After a failed batch: ReleaseLock(context.Background()).  A cancelled   *)
(* batch and, outside loop mode, a bad file end Start.                     *)
ErrorRelease(s) ==
    /\ pc[s] \in {"fileError", "ctxError"}
    /\ \/ CompareAndDelete(s) /\ UNCHANGED <<tainted, faults>>
       \/ Fault(s) /\ UNCHANGED lock
    /\ Goto(s, IF pc[s] = "fileError" /\ LoopMode THEN "loop" ELSE "return")
    /\ UNCHANGED <<left, deferred, cancelled, overran, crashes>>

NothingDeferred(s) == FALSE   \* mutant: Start returns without a deferred release
ReleaseDeferred(s) == deferred[s]

(* Start returns: the deferred releases run with context.Background().     *)
Return(s) ==
    /\ pc[s] = "return"
    /\ \/ ReleaseDeferred(s) /\ CompareAndDelete(s) /\ UNCHANGED <<tainted, faults>>
       \/ ~ReleaseDeferred(s) /\ UNCHANGED <<lock, tainted, faults>>
       \/ ReleaseDeferred(s) /\ Fault(s) /\ UNCHANGED lock
    /\ Goto(s, "stopped")
    /\ UNCHANGED <<left, deferred, cancelled, overran, crashes>>

-----------------------------------------------------------------------------
(* The environment.                                                        *)

Cancel(s) ==
    /\ pc[s] \notin {"stopped", "crashed"} /\ ~cancelled[s]
    /\ cancelled' = [cancelled EXCEPT ![s] = TRUE]
    /\ UNCHANGED <<lock, pc, left, deferred, tainted, overran, faults, crashes>>

Crash(s) ==
    /\ pc[s] \notin {"stopped", "crashed"} /\ crashes < MaxCrashes
    /\ crashes' = crashes + 1 /\ tainted' = tainted \cup {s}
    /\ Goto(s, "crashed") /\ left' = [left EXCEPT ![s] = 0]
    /\ UNCHANGED <<lock, deferred, cancelled, overran, faults>>

(* The container restarts in its pod, so with the same instance id.        *)
Restart(s) ==
    /\ pc[s] = "crashed"
    /\ Goto(s, "loop")
    /\ deferred' = [deferred EXCEPT ![s] = FALSE]
    /\ cancelled' = [cancelled EXCEPT ![s] = FALSE]
    /\ UNCHANGED <<lock, left, tainted, overran, faults, crashes>>

(* Redis deletes the key when its TTL is over, whether or not the batch    *)
(* is: ExtendLock has no caller.                                           *)
LockExpires ==
    /\ lock # None
    /\ overran' = IF InBatch(lock) THEN overran \cup {lock} ELSE overran
    /\ lock' = None
    /\ UNCHANGED <<pc, left, deferred, cancelled, tainted, faults, crashes>>

StreamerStep(s) ==
    \/ LoopTop(s) \/ Acquire(s) \/ AcquireError(s) \/ AcquireCancelled(s)
    \/ ReadFile(s) \/ ReadFileError(s) \/ PublishRecord(s) \/ BatchDone(s)
    \/ Release(s) \/ ErrorRelease(s) \/ Return(s)

Next ==
    \/ \E s \in Streamers : StreamerStep(s) \/ Cancel(s) \/ Crash(s) \/ Restart(s)
    \/ LockExpires

Spec == Init /\ [][Next]_vars

(* Running streamers go on, crashed containers restart, TTLs run out.      *)
Fairness ==
    /\ \A s \in Streamers : WF_vars(StreamerStep(s) \/ Restart(s))
    /\ WF_vars(LockExpires)

FairSpec == Spec /\ Fairness

-----------------------------------------------------------------------------
(* Every variable has its type.                                            *)
TypeOK ==
    /\ lock \in Streamers \cup {None}
    /\ pc \in [Streamers -> PCs]
    /\ left \in [Streamers -> 0..Records]
    /\ deferred \in [Streamers -> BOOLEAN]
    /\ cancelled \in [Streamers -> BOOLEAN]
    /\ tainted \in SUBSET Streamers /\ overran \in SUBSET Streamers
    /\ faults \in 0..MaxFaults /\ crashes \in 0..MaxCrashes

(* "Ensures only one streamer instance reads and publishes a CSV batch at  *)
(* a time" (batch_lock.go): two stream only if one of them had taken       *)
(* longer than the lock's TTL over its batch.                              *)
OneStreamer ==
    \A s, t \in Streamers :
        Streaming(s) /\ Streaming(t) /\ s # t => s \in overran \/ t \in overran

(* Whoever streams within the TTL owns the lock: no release, expiry or     *)
(* retried SETNX of another streamer, or of an earlier life of this one,   *)
(* took it.                                                                *)
StreamerOwnsLock ==
    \A s \in Streamers : Streaming(s) /\ s \notin overran => lock = s

(* A lock goes away by a step of its owner or by its TTL: the late release *)
(* of a streamer that overran its TTL leaves the next owner's lock alone.  *)
ReleaseOwnOnly ==
    [][\A s \in Streamers :
          lock = s /\ lock' # s => LockExpires \/ pc'[s] # pc[s]]_vars

(* A streamer that stops by itself leaves no lock behind, even when ctx    *)
(* was cancelled before the release that follows a batch; only a crash or  *)
(* a failed Redis command makes the others wait for the TTL.               *)
StoppedReleased ==
    \A s \in Streamers : pc[s] = "stopped" /\ s \notin tainted => lock # s

(* A cancelled streamer stops, wherever it was, also while it waits for    *)
(* a lock that another one keeps; a crash makes it start afresh.           *)
CancelStops == \A s \in Streamers : cancelled[s] ~> (pc[s] = "stopped" \/ ~cancelled[s])

=============================================================================
