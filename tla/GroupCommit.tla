----------------------------- MODULE GroupCommit -----------------------------
(* Group commit (src/commit.rs) together with everything that calls it: the  *)
(* critical section of `Engine::append` with its rotation, the `do_fsync`    *)
(* closure, merge's forced rotation and `Engine::sync`.                      *)
(*                                                                           *)
(* Two mutexes matter.  `active` (the ActiveFile) is the variable            *)
(* `active_lock`, held across several steps.  The coordinator's own state    *)
(* mutex is held for one step at a time, so a step is its critical section;  *)
(* the condition variable is the set of threads at pc "waiting".             *)
(*                                                                           *)
(* An entry is the number of the write, in the order the entries land in     *)
(* the data files; `log` says in which file.  `durable` is the medium: what  *)
(* a completed fsync has put on disk.  An fsync is taken to persist only     *)
(* what it must, the entries of its file that were there when the handle was *)
(* made; a failed one persists nothing it can be held to.                    *)
(* An append that fails hands out no generation and no position, so it       *)
(* leaves every variable below unchanged and needs no action.                *)
EXTENDS Integers, Sequences, FiniteSets

CONSTANTS Threads,      \* threads of the program that own a handle
          NoThread,     \* what `active_lock` holds when it is free
          SyncOnPut,    \* Options::should_sync_on_put
          MaxFileSize,  \* Options::max_file_size, in entries
          MaxWrites,    \* bound: writes issued in a behaviour
          MaxFiles      \* bound: file ids handed out in a behaviour

ASSUME GroupCommitAssumption ==
    /\ NoThread \notin Threads
    /\ SyncOnPut \in BOOLEAN
    /\ MaxFileSize \in Nat \ {0}
    /\ MaxWrites \in Nat
    /\ MaxFiles \in Nat

VARIABLES
    active_lock,             \* holder of Mutex<ActiveFile>, or NoThread
    active_id,               \* ActiveFile::file_id of the current active file
    active_len,              \* ActiveFile::len, in entries
    next_file_id,            \* Engine::next_file_id
    log,                     \* log[i]: id of the file the i-th entry was appended to
    durable,                 \* entries on the medium
    pending_writes,          \* State::pending_writes
    max_durable_generation,  \* State::max_durable_generation
    is_syncing,              \* State::is_syncing
    pc,                      \* pc[t]: where t is between two of its critical sections
    wrote,                   \* wrote[t]: the entry t appended, 0 when t runs a merge
    target_gen,              \* target_gen[t]: `target_generation` of t's commit
    covers_up_to,            \* covers_up_to[t]: the leader's local variable
    fd,                      \* fd[t]: the leader's cloned handle, file and length at cloning
    highest_output_id,       \* highest_output_id[t]: of t's merge
    outcome                  \* outcome[i]: what the caller of the i-th write was told

lockVars  == <<active_lock, active_id, active_len, next_file_id>>
stateVars == <<pending_writes, max_durable_generation, is_syncing>>
localVars == <<wrote, target_gen, covers_up_to, fd, highest_output_id>>
vars == <<lockVars, log, durable, stateVars, pc, localVars, outcome>>

InAppendLock == {"record", "rotate", "mark", "create"}
InCommit     == {"commit", "waiting", "handle", "fsync", "synced", "failed"}
Leading      == {"handle", "fsync", "synced", "failed"}
PCs          == InAppendLock \cup InCommit \cup {"idle", "merge"}

Entries   == 1..Len(log)
EntriesIn(f) == {i \in Entries : log[i] = f}

Init ==
    /\ active_lock = NoThread
    /\ active_id = 0
    /\ active_len = 0
    /\ next_file_id = 1
    /\ log = <<>>
    /\ durable = {}
    /\ pending_writes = 0
    /\ max_durable_generation = 0
    /\ is_syncing = FALSE
    /\ pc = [t \in Threads |-> "idle"]
    /\ wrote = [t \in Threads |-> 0]
    /\ target_gen = [t \in Threads |-> 0]
    /\ covers_up_to = [t \in Threads |-> 0]
    /\ fd = [t \in Threads |-> [file |-> 0, upto |-> 0]]
    /\ highest_output_id = [t \in Threads |-> 0]
    /\ outcome = <<>>

-----------------------------------------------------------------------------
(* The pieces the steps share.                                              *)

\* Mutant of NotifyAll: nobody is woken.
NotifyNobody == pc

\* Condvar::notify_all: every waiter goes back to the head of the commit loop.
NotifyAll == [u \in Threads |-> IF pc[u] = "waiting" THEN "commit" ELSE pc[u]]

\* The caller of the i-th write gets its answer; a merge (i = 0) answers no write.
Answered(i, a) == IF i = 0 THEN outcome ELSE [outcome EXCEPT ![i] = a]

\* Mutant of LeaveAppend: the commit is skipped.
LeaveWithoutCommit(t, pcs) ==
    /\ pc' = [pcs EXCEPT ![t] = "idle"]
    /\ outcome' = Answered(wrote[t], "ok")

\* t leaves `append`'s block with the entry in place: on to commit, or back to the caller.
LeaveAppend(t, pcs) ==
    IF wrote[t] # 0 /\ SyncOnPut
    THEN /\ pc' = [pcs EXCEPT ![t] = "commit"]
         /\ UNCHANGED outcome
    ELSE /\ pc' = [pcs EXCEPT ![t] = "idle"]
         /\ outcome' = Answered(wrote[t], "ok")

\* A `?` inside the block: the guard is dropped and the error goes to the caller.
FailInLock(t) ==
    /\ active_lock' = NoThread
    /\ pc' = [pc EXCEPT ![t] = "idle"]
    /\ outcome' = Answered(wrote[t], "err")

MustRotate == active_len >= MaxFileSize

\* Mutant of AfterSync: flushed, not fsynced.
AfterFlushOnly(f) == durable

\* ActiveFile::sync: flush, then fsync.
AfterSync(f) == durable \cup EntriesIn(f)

\* Mutant of NewGeneration: the counter is read before it is incremented.
GenerationBefore == pending_writes

\* What record_pending returns.
NewGeneration == pending_writes + 1

-----------------------------------------------------------------------------
(* Engine::append.                                                           *)

\* Lock `active` and append one entry, flushed to the OS.
Append_(t) ==
    /\ pc[t] = "idle"
    /\ active_lock = NoThread
    /\ Len(log) < MaxWrites
    /\ active_lock' = t
    /\ log' = Append(log, active_id)
    /\ outcome' = Append(outcome, "pending")
    /\ active_len' = active_len + 1
    /\ wrote' = [wrote EXCEPT ![t] = Len(log) + 1]
    /\ pc' = [pc EXCEPT ![t] = "record"]
    /\ UNCHANGED <<active_id, next_file_id, durable, stateVars,
                   target_gen, covers_up_to, fd, highest_output_id>>

\* GroupCommit::record_pending, then rotate or release the lock.
RecordPending(t) ==
    /\ pc[t] = "record"
    /\ pending_writes' = pending_writes + 1
    /\ target_gen' = [target_gen EXCEPT ![t] = NewGeneration]
    /\ IF MustRotate
       THEN /\ pc' = [pc EXCEPT ![t] = "rotate"]
            /\ UNCHANGED <<active_lock, outcome>>
       ELSE /\ active_lock' = NoThread
            /\ LeaveAppend(t, pc)
    /\ UNCHANGED <<active_id, active_len, next_file_id, log, durable,
                   max_durable_generation, is_syncing, wrote, covers_up_to, fd,
                   highest_output_id>>

\* active.sync(): flush and fsync the outgoing file, under the lock.
RotateSync(t) ==
    /\ pc[t] = "rotate"
    /\ \/ /\ durable' = AfterSync(active_id)
          /\ pc' = [pc EXCEPT ![t] = "mark"]
          /\ UNCHANGED <<active_lock, outcome>>
       \/ FailInLock(t) /\ UNCHANGED durable
    /\ UNCHANGED <<active_id, active_len, next_file_id, log, stateVars, localVars>>

\* GroupCommit::mark_all_durable.
MarkAllDurable(t) ==
    /\ pc[t] = "mark"
    /\ max_durable_generation' = pending_writes
    /\ pc' = [NotifyAll EXCEPT ![t] = "create"]
    /\ UNCHANGED <<lockVars, log, durable, pending_writes, is_syncing, localVars, outcome>>

\* next_file_id.fetch_add, then ActiveFile::create, which may fail after the id is spent.
CreateActive(t) ==
    /\ pc[t] = "create"
    /\ next_file_id' = next_file_id + 1
    /\ \/ /\ active_id' = next_file_id
          /\ active_len' = 0
          /\ active_lock' = NoThread
          /\ LeaveAppend(t, pc)
       \/ FailInLock(t) /\ UNCHANGED <<active_id, active_len>>
    /\ UNCHANGED <<log, durable, stateVars, localVars>>

-----------------------------------------------------------------------------
(* GroupCommit::commit.                                                      *)

\* Mutant of IsCovered: off by one.
IsAlmostCovered(t) == max_durable_generation + 1 >= target_gen[t]

\* The check at the head of the loop.
IsCovered(t) == max_durable_generation >= target_gen[t]

\* The target is already durable: Ok.
CommitReturns(t) ==
    /\ pc[t] = "commit"
    /\ IsCovered(t)
    /\ pc' = [pc EXCEPT ![t] = "idle"]
    /\ outcome' = Answered(wrote[t], "ok")
    /\ UNCHANGED <<lockVars, log, durable, stateVars, localVars>>

\* Mutant of MayLead: a second fsync may start.
MayAlwaysLead == TRUE

MayLead == ~is_syncing

\* Mutant of CoversUpTo: the leader covers one generation at a time.
CoversNextOnly == max_durable_generation + 1

\* What the leader's fsync will cover, read before the state lock is released.
CoversUpTo == pending_writes

\* Nobody is syncing: t becomes the leader.
Lead(t) ==
    /\ pc[t] = "commit"
    /\ ~IsCovered(t)
    /\ MayLead
    /\ is_syncing' = TRUE
    /\ covers_up_to' = [covers_up_to EXCEPT ![t] = CoversUpTo]
    /\ pc' = [pc EXCEPT ![t] = "handle"]
    /\ UNCHANGED <<lockVars, log, durable, pending_writes, max_durable_generation,
                   wrote, target_gen, fd, highest_output_id, outcome>>

\* Somebody is: wait on the condition variable.
CommitWaits(t) ==
    /\ pc[t] = "commit"
    /\ ~IsCovered(t)
    /\ is_syncing
    /\ pc' = [pc EXCEPT ![t] = "waiting"]
    /\ UNCHANGED <<lockVars, log, durable, stateVars, localVars, outcome>>

\* Condvar::wait may return without a notification.
SpuriousWakeup(t) ==
    /\ pc[t] = "waiting"
    /\ pc' = [pc EXCEPT ![t] = "commit"]
    /\ UNCHANGED <<lockVars, log, durable, stateVars, localVars, outcome>>

\* do_fsync, first half: lock `active`, clone its descriptor, unlock.
SyncHandle(t) ==
    /\ pc[t] = "handle"
    /\ active_lock = NoThread
    /\ \/ /\ fd' = [fd EXCEPT ![t] = [file |-> active_id, upto |-> Len(log)]]
          /\ pc' = [pc EXCEPT ![t] = "fsync"]
       \/ /\ pc' = [pc EXCEPT ![t] = "failed"]
          /\ UNCHANGED fd
    /\ UNCHANGED <<lockVars, log, durable, stateVars, wrote, target_gen, covers_up_to,
                   highest_output_id, outcome>>

\* do_fsync, second half: sync_data on the clone, no lock held.
SyncData(t) ==
    /\ pc[t] = "fsync"
    /\ \/ /\ durable' = durable \cup {i \in EntriesIn(fd[t].file) : i <= fd[t].upto}
          /\ pc' = [pc EXCEPT ![t] = "synced"]
       \/ /\ pc' = [pc EXCEPT ![t] = "failed"]
          /\ UNCHANGED durable
    /\ UNCHANGED <<lockVars, log, stateVars, localVars, outcome>>

\* Mutants of DurableAfterFsync: the counter is read after the fsync instead of before it;
\* the maximum is forgotten; a number of writes is published instead of a generation.
PendingAfterFsync(t) == pending_writes
CoversAfterFsync(t)  == covers_up_to[t]
CountAfterFsync(t)   == covers_up_to[t] - max_durable_generation

\* What a successful leader publishes.
DurableAfterFsync(t) ==
    IF covers_up_to[t] > max_durable_generation
    THEN covers_up_to[t] ELSE max_durable_generation

\* The leader relocks the state, publishes, wakes everyone and loops or fails.
Publish(t) ==
    /\ is_syncing' = FALSE
    /\ \/ /\ pc[t] = "synced"
          /\ max_durable_generation' = DurableAfterFsync(t)
          /\ pc' = [NotifyAll EXCEPT ![t] = "commit"]
          /\ UNCHANGED outcome
       \/ /\ pc[t] = "failed"
          /\ pc' = [NotifyAll EXCEPT ![t] = "idle"]
          /\ outcome' = Answered(wrote[t], "err")
          /\ UNCHANGED max_durable_generation
    /\ UNCHANGED <<lockVars, log, durable, pending_writes, localVars>>

-----------------------------------------------------------------------------
(* Merge's use of the active file, and Engine::sync.                         *)

\* A merge claims its output id from the shared counter.
MergeOpensOutput(t) ==
    /\ pc[t] = "idle"
    /\ next_file_id < MaxFiles
    /\ highest_output_id' = [highest_output_id EXCEPT ![t] = next_file_id]
    /\ next_file_id' = next_file_id + 1
    /\ wrote' = [wrote EXCEPT ![t] = 0]
    /\ pc' = [pc EXCEPT ![t] = "merge"]
    /\ UNCHANGED <<active_lock, active_id, active_len, log, durable, stateVars,
                   target_gen, covers_up_to, fd, outcome>>

\* restore_active_file: rotate unless the active file already moved past the output.
RestoreActiveFile(t) ==
    /\ pc[t] = "merge"
    /\ active_lock = NoThread
    /\ IF active_id <= highest_output_id[t]
       THEN /\ active_lock' = t
            /\ pc' = [pc EXCEPT ![t] = "rotate"]
       ELSE /\ pc' = [pc EXCEPT ![t] = "idle"]
            /\ UNCHANGED active_lock
    /\ UNCHANGED <<active_id, active_len, next_file_id, log, durable, stateVars,
                   localVars, outcome>>

\* Engine::sync: fsync under the lock, the coordinator is not told.
Sync(t) ==
    /\ pc[t] = "idle"
    /\ active_lock = NoThread
    /\ durable' = AfterSync(active_id)
    /\ UNCHANGED <<lockVars, log, stateVars, pc, localVars, outcome>>

-----------------------------------------------------------------------------
\* The steps a running thread takes of its own accord.
Step(t) ==
    \/ RecordPending(t) \/ RotateSync(t) \/ MarkAllDurable(t) \/ CreateActive(t)
    \/ CommitReturns(t) \/ Lead(t) \/ CommitWaits(t)
    \/ SyncHandle(t) \/ SyncData(t) \/ Publish(t)
    \/ RestoreActiveFile(t)

Next == \E t \in Threads :
    \/ Append_(t) \/ MergeOpensOutput(t) \/ Sync(t)
    \/ SpuriousWakeup(t)
    \/ Step(t)

Spec == Init /\ [][Next]_vars

\* A thread inside a call keeps running; when it calls is the caller's business, and
\* a wakeup that nobody sent is never counted on.
FairSpec == Spec /\ \A t \in Threads : WF_vars(Step(t))

-----------------------------------------------------------------------------
(* Properties.                                                               *)

\* Every variable keeps its type (the State of commit.rs, the locals of `append` and
\* `commit`, the handle of `do_fsync`).
TypeOK ==
    /\ active_lock \in Threads \cup {NoThread}
    /\ active_id \in Nat /\ active_len \in Nat /\ next_file_id \in Nat
    /\ log \in Seq(Nat)
    /\ durable \subseteq Entries
    /\ pending_writes \in Nat
    /\ max_durable_generation \in Nat
    /\ is_syncing \in BOOLEAN
    /\ pc \in [Threads -> PCs]
    /\ wrote \in [Threads -> Nat]
    /\ target_gen \in [Threads -> Nat]
    /\ covers_up_to \in [Threads -> Nat]
    /\ fd \in [Threads -> [file : Nat, upto : Nat]]
    /\ highest_output_id \in [Threads -> Nat]
    /\ outcome \in Seq({"pending", "ok", "err"})
    /\ Len(outcome) = Len(log)

\* With should_sync_on_put, a put or delete that returned Ok is on the medium, whichever
\* thread's fsync put it there (commit.rs, `commit` returns Ok only past its target).
AckedIsDurable ==
    SyncOnPut => \A i \in Entries : outcome[i] = "ok" => i \in durable

\* max_durable_generation never runs ahead of the medium: neither a leader whose file was
\* rotated away under it, nor a rotation during another thread's fsync, marks too much.
MarkedIsDurable ==
    /\ max_durable_generation <= pending_writes
    /\ 1..max_durable_generation \subseteq durable

\* A file that is no longer active is completely on the medium, so that a power loss can
\* only cut the tail of the newest file (`append` syncs before it rotates).
RotatedIsDurable == \A i \in Entries : log[i] # active_id => i \in durable

\* Generations are handed out in append order: the generation a writer waits for is the
\* number of the entry it appended (record_pending under the active lock).
GenerationIsAppendOrder ==
    \A t \in Threads :
        wrote[t] # 0 /\ pc[t] \in (InAppendLock \cup InCommit) \ {"record"}
            => target_gen[t] = wrote[t]

\* One fsync at a time: is_syncing is raised exactly while one thread leads.
OneLeader ==
    /\ \A t, u \in Threads : pc[t] \in Leading /\ pc[u] \in Leading => t = u
    /\ is_syncing <=> \E t \in Threads : pc[t] \in Leading

\* Nobody sleeps without a leader that will wake it: between the check of is_syncing and
\* the wait no notification can be missed, and every way out of leading notifies.
NoLostWakeup == \A t \in Threads : pc[t] = "waiting" => is_syncing

\* A leader that publishes never takes back what a rotation published meanwhile (the
\* `max` at the end of `commit`).
DurableNeverRegresses == [][max_durable_generation' >= max_durable_generation]_vars

\* A put pays for at most one successful fsync: once its own succeeded, its target is
\* covered and it does not lead or wait again.
LeaderIsCovered ==
    [][\A t \in Threads : pc[t] = "synced" /\ pc'[t] = "commit"
           => max_durable_generation' >= target_gen[t]]_vars

\* Every put, delete and merge returns, with fsyncs that may fail each time: a failed
\* leader reports its error and one of its waiters takes over.
EveryCallReturns == \A t \in Threads : pc[t] # "idle" ~> pc[t] = "idle"

\* Writes, fsyncs and answers are those of the abstract durable log.
Abstract == INSTANCE DurableLog
ImplementsDurableLog == Abstract!Spec

\* What commit.rs 18-21 says: a thread that finds a fsync in flight is covered by it.
InFlightCoversWaiter ==
    \A t, u \in Threads : pc[t] = "waiting" /\ pc[u] \in Leading
        => target_gen[t] <= covers_up_to[u]
=============================================================================
