-------------------------- MODULE GroupCommitProofs --------------------------
(* Proofs about GroupCommit, for every number of threads, every file size    *)
(* and every bound.  The inductive invariant IInv says, besides the checked  *)
(* properties, who holds the append lock, how far record_pending lags behind *)
(* the log, and what a leader's cloned handle still covers when the file     *)
(* behind it has been rotated away.                                          *)
EXTENDS GroupCommit, TLAPS, SequenceTheorems

-----------------------------------------------------------------------------
(* The inductive invariant.                                                  *)

\* The thread inside `append`'s block (or merge's restore) is the one holding `active`.
LockInv == \A t \in Threads : pc[t] \in InAppendLock <=> active_lock = t

\* record_pending lags one entry behind the log exactly while a thread is between its
\* append and its record_pending.
PendingInv ==
    /\ pending_writes <= Len(log)
    /\ \A t \in Threads : pc[t] = "record" => wrote[t] = pending_writes + 1
                                              /\ wrote[t] = Len(log)
    /\ (\A t \in Threads : pc[t] # "record") => pending_writes = Len(log)

\* A thread's entry exists and its target was handed out; a merge has no entry and never
\* commits.
LocalInv ==
    /\ \A t \in Threads : wrote[t] <= Len(log)
    /\ \A t \in Threads : target_gen[t] <= pending_writes
    /\ \A t \in Threads : pc[t] \in InCommit \cup {"record"} => wrote[t] # 0
    /\ \A t \in Threads : pc[t] = "merge" => wrote[t] = 0

\* Between the outgoing file's fsync and the new file, everything is on the medium.
SyncedInv == \A t \in Threads : pc[t] \in {"mark", "create"} => Entries \subseteq durable

\* A leader covers its own target, and its handle covers what it will publish: an entry
\* up to covers_up_to is durable already or in the file the handle was cloned from.
LeaderCovers(t) ==
    /\ target_gen[t] <= covers_up_to[t]
    /\ covers_up_to[t] <= pending_writes
    /\ pc[t] = "fsync" =>
          \A i \in 1..covers_up_to[t] :
              i \in durable \/ (log[i] = fd[t].file /\ i <= fd[t].upto)
    /\ pc[t] = "synced" => 1..covers_up_to[t] \subseteq durable

LeaderInv == \A t \in Threads : pc[t] \in Leading => LeaderCovers(t)

\* The order of the generations and of the answers.
OrderInv == GenerationIsAppendOrder /\ LocalInv /\ PendingInv

\* What is on the medium.
MediumInv == MarkedIsDurable /\ RotatedIsDurable /\ SyncedInv /\ LeaderInv

\* Who leads and who waits.
WaitInv == OneLeader /\ NoLostWakeup

IInv == TypeOK /\ LockInv /\ OrderInv /\ MediumInv /\ WaitInv /\ AckedIsDurable

\* A write whose call is under way is unanswered, and is one thread's.
InCall(t) == pc[t] \in InAppendLock \cup InCommit /\ wrote[t] # 0

UnansweredInv ==
    /\ \A t \in Threads : InCall(t) => outcome[wrote[t]] = "pending"
    /\ \A t, u \in Threads : InCall(t) /\ InCall(u) /\ wrote[t] = wrote[u] => t = u

-----------------------------------------------------------------------------
(* Type correctness.                                                         *)

\* Answering a write keeps the list of answers and changes that one answer only.
LEMMA AnsweredSeq ==
    ASSUME NEW A, outcome \in Seq(A), NEW i \in Nat, NEW a \in A
    PROVE  /\ Answered(i, a) \in Seq(A)
           /\ Len(Answered(i, a)) = Len(outcome)
           /\ \A j \in 1..Len(outcome) :
                 Answered(i, a)[j] = IF j = i THEN a ELSE outcome[j]
<1>1. CASE i \in 1..Len(outcome)
  <2>1. Answered(i, a) = [outcome EXCEPT ![i] = a]
    BY <1>1 DEF Answered
  <2>2. QED
    BY <1>1, <2>1, ExceptSeq
<1>2. CASE i \notin 1..Len(outcome)
  <2>1. Answered(i, a) = outcome
    BY <1>2 DEF Answered
  <2>2. QED
    BY <1>2, <2>1
<1>3. QED
  BY <1>1, <1>2

\* NotifyAll keeps the type of pc, and moves waiting threads only.
LEMMA NotifyAllMoves ==
    ASSUME pc \in [Threads -> PCs]
    PROVE  /\ NotifyAll \in [Threads -> PCs]
           /\ \A t \in Threads :
                 /\ pc[t] = "waiting" => NotifyAll[t] = "commit"
                 /\ pc[t] # "waiting" => NotifyAll[t] = pc[t]
BY DEF NotifyAll, PCs, InCommit

\* At first.
LEMMA TypeInit == Init => TypeOK
<1> SUFFICES ASSUME Init PROVE TypeOK
  OBVIOUS
<1>1. log \in Seq(Nat) /\ outcome \in Seq({"pending", "ok", "err"}) /\ Len(outcome) = Len(log)
  BY EmptySeq DEF Init
<1>2. fd \in [Threads -> [file : Nat, upto : Nat]]
  BY DEF Init
<1>3. QED
  BY <1>1, <1>2 DEF Init, TypeOK, PCs

\* Through a step.
LEMMA TypeStep == TypeOK /\ [Next]_vars => TypeOK'
<1> USE GroupCommitAssumption
<1> SUFFICES ASSUME TypeOK, [Next]_vars PROVE TypeOK'
  OBVIOUS
<1>a. /\ outcome \in Seq({"pending", "ok", "err"})
      /\ \A t \in Threads, a \in {"ok", "err"} :
            /\ Answered(wrote[t], a) \in Seq({"pending", "ok", "err"})
            /\ Len(Answered(wrote[t], a)) = Len(outcome)
  <2>1. outcome \in Seq({"pending", "ok", "err"})
    BY DEF TypeOK
  <2>2. \A t \in Threads : wrote[t] \in Nat
    BY DEF TypeOK
  <2>3. QED
    BY <2>1, <2>2, AnsweredSeq
<1>b. NotifyAll \in [Threads -> PCs]
  BY NotifyAllMoves DEF TypeOK
<1>1. ASSUME NEW t \in Threads, Append_(t) PROVE TypeOK'
  <2>1. log' \in Seq(Nat) /\ Len(log') = Len(log) + 1
    BY <1>1, AppendProperties DEF TypeOK, Append_
  <2>2. outcome' \in Seq({"pending", "ok", "err"}) /\ Len(outcome') = Len(outcome) + 1
    BY <1>1, AppendProperties DEF TypeOK, Append_
  <2>3. Entries \subseteq Entries'
    BY <2>1 DEF Entries, TypeOK
  <2>4. wrote' \in [Threads -> Nat] /\ pc' \in [Threads -> PCs]
    BY <1>1 DEF TypeOK, Append_, PCs, InAppendLock
  <2>5. QED
    BY <1>1, <2>1, <2>2, <2>3, <2>4 DEF TypeOK, Append_, stateVars
<1>2. ASSUME NEW t \in Threads, RecordPending(t) PROVE TypeOK'
  <2>1. pc' \in [Threads -> PCs] /\ active_lock' \in Threads \cup {NoThread}
    BY <1>2 DEF TypeOK, RecordPending, LeaveAppend, PCs, InAppendLock, InCommit
  <2>2. outcome' \in Seq({"pending", "ok", "err"}) /\ Len(outcome') = Len(outcome)
    BY <1>2, <1>a DEF TypeOK, RecordPending, LeaveAppend
  <2>3. pending_writes' \in Nat /\ target_gen' \in [Threads -> Nat]
    BY <1>2 DEF TypeOK, RecordPending, NewGeneration
  <2>4. QED
    BY <1>2, <2>1, <2>2, <2>3 DEF TypeOK, RecordPending, Entries
<1>3. ASSUME NEW t \in Threads, RotateSync(t) PROVE TypeOK'
  <2>1. durable' \subseteq Entries'
    BY <1>3 DEF TypeOK, RotateSync, AfterSync, EntriesIn, Entries
  <2>2. pc' \in [Threads -> PCs] /\ active_lock' \in Threads \cup {NoThread}
    BY <1>3 DEF TypeOK, RotateSync, FailInLock, PCs, InAppendLock
  <2>3. outcome' \in Seq({"pending", "ok", "err"}) /\ Len(outcome') = Len(outcome)
    BY <1>3, <1>a DEF TypeOK, RotateSync, FailInLock
  <2>4. QED
    BY <1>3, <2>1, <2>2, <2>3 DEF TypeOK, RotateSync, stateVars, localVars
<1>4. ASSUME NEW t \in Threads, MarkAllDurable(t) PROVE TypeOK'
  BY <1>4, <1>b DEF TypeOK, MarkAllDurable, Entries, PCs, InAppendLock, lockVars, localVars
<1>5. ASSUME NEW t \in Threads, CreateActive(t) PROVE TypeOK'
  <2>1. pc' \in [Threads -> PCs] /\ active_lock' \in Threads \cup {NoThread}
    BY <1>5 DEF TypeOK, CreateActive, FailInLock, LeaveAppend, PCs, InCommit
  <2>2. outcome' \in Seq({"pending", "ok", "err"}) /\ Len(outcome') = Len(outcome)
    BY <1>5, <1>a DEF TypeOK, CreateActive, FailInLock, LeaveAppend
  <2>3. active_id' \in Nat /\ active_len' \in Nat /\ next_file_id' \in Nat
    BY <1>5 DEF TypeOK, CreateActive
  <2>4. QED
    BY <1>5, <2>1, <2>2, <2>3 DEF TypeOK, CreateActive, Entries, stateVars, localVars
<1>6. ASSUME NEW t \in Threads, CommitReturns(t) PROVE TypeOK'
  BY <1>6, <1>a DEF TypeOK, CommitReturns, Entries, PCs, lockVars, stateVars, localVars
<1>7. ASSUME NEW t \in Threads, Lead(t) PROVE TypeOK'
  BY <1>7 DEF TypeOK, Lead, CoversUpTo, Entries, PCs, InCommit, lockVars
<1>8. ASSUME NEW t \in Threads, CommitWaits(t) PROVE TypeOK'
  BY <1>8 DEF TypeOK, CommitWaits, Entries, PCs, InCommit, lockVars, stateVars, localVars
<1>9. ASSUME NEW t \in Threads, SpuriousWakeup(t) PROVE TypeOK'
  BY <1>9 DEF TypeOK, SpuriousWakeup, Entries, PCs, InCommit, lockVars, stateVars, localVars
<1>10. ASSUME NEW t \in Threads, SyncHandle(t) PROVE TypeOK'
  <2>1. [file |-> active_id, upto |-> Len(log)] \in [file : Nat, upto : Nat]
    BY LenProperties DEF TypeOK
  <2>2. fd' \in [Threads -> [file : Nat, upto : Nat]]
    BY <1>10, <2>1 DEF TypeOK, SyncHandle
  <2>3. pc' \in [Threads -> PCs]
    BY <1>10 DEF TypeOK, SyncHandle, PCs, InCommit
  <2>4. QED
    BY <1>10, <2>2, <2>3 DEF TypeOK, SyncHandle, Entries, lockVars, stateVars
<1>11. ASSUME NEW t \in Threads, SyncData(t) PROVE TypeOK'
  BY <1>11 DEF TypeOK, SyncData, Entries, EntriesIn, PCs, InCommit, lockVars, stateVars,
               localVars
<1>12. ASSUME NEW t \in Threads, Publish(t) PROVE TypeOK'
  <2>1. pc' \in [Threads -> PCs]
    BY <1>12, <1>b DEF TypeOK, Publish, PCs, InCommit
  <2>2. outcome' \in Seq({"pending", "ok", "err"}) /\ Len(outcome') = Len(outcome)
    BY <1>12, <1>a DEF TypeOK, Publish
  <2>3. max_durable_generation' \in Nat
    BY <1>12 DEF TypeOK, Publish, DurableAfterFsync
  <2>4. QED
    BY <1>12, <2>1, <2>2, <2>3 DEF TypeOK, Publish, Entries, lockVars, localVars
<1>13. ASSUME NEW t \in Threads, MergeOpensOutput(t) PROVE TypeOK'
  BY <1>13 DEF TypeOK, MergeOpensOutput, Entries, PCs, stateVars
<1>14. ASSUME NEW t \in Threads, RestoreActiveFile(t) PROVE TypeOK'
  BY <1>14 DEF TypeOK, RestoreActiveFile, Entries, PCs, InAppendLock, stateVars, localVars
<1>15. ASSUME NEW t \in Threads, Sync(t) PROVE TypeOK'
  BY <1>15 DEF TypeOK, Sync, AfterSync, EntriesIn, Entries, lockVars, stateVars, localVars
<1>16. CASE UNCHANGED vars
  BY <1>16 DEF TypeOK, Entries, vars, lockVars, stateVars, localVars
<1>17. QED
  BY <1>1, <1>2, <1>3, <1>4, <1>5, <1>6, <1>7, <1>8, <1>9, <1>10, <1>11, <1>12, <1>13,
     <1>14, <1>15, <1>16 DEF Next, Step

\* The variables of commit.rs and of `append` keep their types in every behaviour.
THEOREM TypeCorrect == Spec => []TypeOK
BY TypeInit, TypeStep, PTL DEF Spec

-----------------------------------------------------------------------------
(* The append lock.                                                          *)

\* Steps outside the append lock leave it, and who is in its block, alone.
LEMMA LockKept ==
    ASSUME LockInv, active_lock' = active_lock,
           \A u \in Threads : pc'[u] \in InAppendLock <=> pc[u] \in InAppendLock
    PROVE  LockInv'
BY DEF LockInv

\* Through a step.
LEMMA LockStep == TypeOK /\ LockInv /\ [Next]_vars => LockInv'
<1> USE GroupCommitAssumption
<1> SUFFICES ASSUME TypeOK, LockInv, [Next]_vars PROVE LockInv'
  OBVIOUS
<1>a. pc \in [Threads -> PCs] /\ NoThread \notin Threads
  BY DEF TypeOK
<1>b. NotifyAll \in [Threads -> PCs]
      /\ \A u \in Threads : NotifyAll[u] \in InAppendLock <=> pc[u] \in InAppendLock
  BY <1>a, NotifyAllMoves DEF InAppendLock
<1>1. ASSUME NEW t \in Threads, Append_(t) PROVE LockInv'
  BY <1>1, <1>a DEF LockInv, Append_, InAppendLock
<1>2. ASSUME NEW t \in Threads, RecordPending(t) PROVE LockInv'
  BY <1>2, <1>a DEF LockInv, RecordPending, LeaveAppend, InAppendLock
<1>3. ASSUME NEW t \in Threads, RotateSync(t) PROVE LockInv'
  BY <1>3, <1>a DEF LockInv, RotateSync, FailInLock, InAppendLock
<1>4. ASSUME NEW t \in Threads, MarkAllDurable(t) PROVE LockInv'
  BY <1>4, <1>a, <1>b, LockKept DEF MarkAllDurable, InAppendLock, lockVars
<1>5. ASSUME NEW t \in Threads, CreateActive(t) PROVE LockInv'
  BY <1>5, <1>a DEF LockInv, CreateActive, LeaveAppend, FailInLock, InAppendLock
<1>6. ASSUME NEW t \in Threads, CommitReturns(t) \/ Lead(t) \/ CommitWaits(t) \/ SpuriousWakeup(t)
      PROVE  LockInv'
  BY <1>6, <1>a, LockKept
     DEF CommitReturns, Lead, CommitWaits, SpuriousWakeup, InAppendLock, lockVars
<1>7. ASSUME NEW t \in Threads, SyncHandle(t) \/ SyncData(t) PROVE LockInv'
  BY <1>7, <1>a, LockKept DEF SyncHandle, SyncData, InAppendLock, lockVars
<1>8. ASSUME NEW t \in Threads, Publish(t) PROVE LockInv'
  BY <1>8, <1>a, <1>b, LockKept DEF Publish, InAppendLock, lockVars
<1>9. ASSUME NEW t \in Threads, MergeOpensOutput(t) \/ Sync(t) PROVE LockInv'
  BY <1>9, <1>a, LockKept DEF MergeOpensOutput, Sync, InAppendLock, lockVars
<1>10. ASSUME NEW t \in Threads, RestoreActiveFile(t) PROVE LockInv'
  BY <1>10, <1>a DEF LockInv, RestoreActiveFile, InAppendLock
<1>11. CASE UNCHANGED vars
  BY <1>11 DEF LockInv, vars, lockVars
<1>12. QED
  BY <1>1, <1>2, <1>3, <1>4, <1>5, <1>6, <1>7, <1>8, <1>9, <1>10, <1>11 DEF Next, Step

-----------------------------------------------------------------------------
(* Generations follow the log.                                               *)

\* A step that appends nothing and hands out no generation keeps the order, when it
\* takes no thread into or out of "record" and only writers into `commit`.
LEMMA OrderKept ==
    ASSUME OrderInv,
           UNCHANGED <<wrote, target_gen, pending_writes, log>>,
           \A u \in Threads :
               /\ pc'[u] = "record" <=> pc[u] = "record"
               /\ pc'[u] \in InAppendLock \cup InCommit /\ wrote[u] # 0
                      => pc[u] \in InAppendLock \cup InCommit
               /\ pc'[u] \in InCommit => wrote[u] # 0
               /\ pc'[u] = "merge" => pc[u] = "merge"
    PROVE  OrderInv'
<1>1. GenerationIsAppendOrder'
  BY DEF OrderInv, GenerationIsAppendOrder
<1>2. LocalInv'
  BY DEF OrderInv, LocalInv
<1>3. PendingInv'
  BY DEF OrderInv, PendingInv
<1>4. QED
  BY <1>1, <1>2, <1>3 DEF OrderInv

\* Through a step.
LEMMA OrderStep == TypeOK /\ LockInv /\ OrderInv /\ [Next]_vars => OrderInv'
<1> USE GroupCommitAssumption
<1> SUFFICES ASSUME TypeOK, LockInv, OrderInv, [Next]_vars PROVE OrderInv'
  OBVIOUS
<1>a. /\ pc \in [Threads -> PCs] /\ wrote \in [Threads -> Nat]
      /\ target_gen \in [Threads -> Nat] /\ pending_writes \in Nat /\ log \in Seq(Nat)
  BY DEF TypeOK
<1>b. /\ NotifyAll \in [Threads -> PCs]
      /\ \A u \in Threads :
            /\ NotifyAll[u] = "record" <=> pc[u] = "record"
            /\ NotifyAll[u] = "merge" <=> pc[u] = "merge"
            /\ NotifyAll[u] \in InCommit <=> pc[u] \in InCommit
            /\ NotifyAll[u] \in InAppendLock <=> pc[u] \in InAppendLock
  BY <1>a, NotifyAllMoves DEF InAppendLock, InCommit
<1>c. \A u \in Threads : pc[u] \in InCommit => wrote[u] # 0
  BY DEF OrderInv, LocalInv
<1>1. ASSUME NEW t \in Threads, Append_(t) PROVE OrderInv'
  <2>1. Len(log') = Len(log) + 1 /\ Len(log) \in Nat
    BY <1>1, <1>a, AppendProperties, LenProperties DEF Append_, TypeOK
  <2>2. \A u \in Threads : pc[u] # "record"
    BY <1>1 DEF LockInv, Append_, InAppendLock
  <2>3. pending_writes' = Len(log)
    BY <1>1, <2>2 DEF OrderInv, PendingInv, Append_, stateVars
  <2>4. PendingInv'
    BY <1>1, <1>a, <2>1, <2>2, <2>3 DEF PendingInv, Append_
  <2>5. LocalInv'
    BY <1>1, <1>a, <2>1 DEF OrderInv, LocalInv, Append_, InCommit, stateVars
  <2>6. GenerationIsAppendOrder'
    BY <1>1, <1>a DEF OrderInv, GenerationIsAppendOrder, Append_
  <2>7. QED
    BY <2>4, <2>5, <2>6 DEF OrderInv
<1>2. ASSUME NEW t \in Threads, RecordPending(t) PROVE OrderInv'
  <2>1. wrote[t] = pending_writes + 1 /\ wrote[t] = Len(log) /\ wrote[t] # 0
    BY <1>2, <1>a DEF OrderInv, PendingInv, LocalInv, RecordPending
  <2>2. \A u \in Threads : u # t => pc[u] # "record"
    BY <1>2, <1>a DEF LockInv, RecordPending, InAppendLock
  <2>3. /\ pc'[t] \in {"rotate", "commit", "idle"}
        /\ \A u \in Threads : u # t => pc'[u] = pc[u]
    BY <1>2, <1>a DEF RecordPending, LeaveAppend
  <2>4. /\ target_gen' = [target_gen EXCEPT ![t] = wrote[t]]
        /\ pending_writes' = wrote[t] /\ wrote' = wrote /\ log' = log
    BY <1>2, <2>1 DEF RecordPending, NewGeneration
  <2>5. PendingInv'
    BY <2>1, <2>2, <2>3, <2>4, <1>a DEF PendingInv
  <2>6. LocalInv'
    <3>1. \A u \in Threads : wrote'[u] <= Len(log')
      BY <2>4 DEF OrderInv, LocalInv
    <3>2. \A u \in Threads : target_gen'[u] <= pending_writes'
      BY <2>1, <2>4, <1>a DEF OrderInv, LocalInv
    <3>3. \A u \in Threads : /\ pc'[u] \in InCommit \cup {"record"} => wrote'[u] # 0
                             /\ pc'[u] = "merge" => wrote'[u] = 0
      BY <2>1, <2>3, <2>4 DEF OrderInv, LocalInv
    <3>4. QED
      BY <3>1, <3>2, <3>3 DEF LocalInv
  <2>7. GenerationIsAppendOrder'
    BY <2>3, <2>4, <1>a DEF OrderInv, GenerationIsAppendOrder
  <2>8. QED
    BY <2>5, <2>6, <2>7 DEF OrderInv
<1>3. ASSUME NEW t \in Threads, RotateSync(t) PROVE OrderInv'
  BY <1>3, <1>a, <1>c, OrderKept
     DEF RotateSync, FailInLock, stateVars, localVars, InAppendLock, InCommit
<1>4. ASSUME NEW t \in Threads, MarkAllDurable(t) PROVE OrderInv'
  BY <1>4, <1>a, <1>b, <1>c, OrderKept DEF MarkAllDurable, localVars, InAppendLock, InCommit
<1>5. ASSUME NEW t \in Threads, CreateActive(t) PROVE OrderInv'
  BY <1>5, <1>a, <1>c, OrderKept
     DEF CreateActive, LeaveAppend, FailInLock, stateVars, localVars, InAppendLock, InCommit
<1>6. ASSUME NEW t \in Threads, CommitReturns(t) \/ CommitWaits(t) \/ SpuriousWakeup(t)
      PROVE  OrderInv'
  BY <1>6, <1>a, <1>c, OrderKept
     DEF CommitReturns, CommitWaits, SpuriousWakeup, stateVars, localVars, InAppendLock, InCommit
<1>7. ASSUME NEW t \in Threads, Lead(t) \/ SyncHandle(t) PROVE OrderInv'
  BY <1>7, <1>a, <1>c, OrderKept DEF Lead, SyncHandle, stateVars, InAppendLock, InCommit
<1>8. ASSUME NEW t \in Threads, SyncData(t) PROVE OrderInv'
  BY <1>8, <1>a, <1>c, OrderKept DEF SyncData, stateVars, localVars, InAppendLock, InCommit
<1>9. ASSUME NEW t \in Threads, Publish(t) PROVE OrderInv'
  BY <1>9, <1>a, <1>b, <1>c, OrderKept DEF Publish, lockVars, localVars, InAppendLock, InCommit
<1>10. ASSUME NEW t \in Threads, MergeOpensOutput(t) PROVE OrderInv'
  <2>1. PendingInv'
    BY <1>10, <1>a DEF OrderInv, PendingInv, MergeOpensOutput, stateVars
  <2>2. LocalInv'
    BY <1>10, <1>a, LenProperties DEF OrderInv, LocalInv, MergeOpensOutput, stateVars, InCommit
  <2>3. GenerationIsAppendOrder'
    BY <1>10, <1>a DEF OrderInv, GenerationIsAppendOrder, MergeOpensOutput, InAppendLock, InCommit
  <2>4. QED
    BY <2>1, <2>2, <2>3 DEF OrderInv
<1>11. ASSUME NEW t \in Threads, RestoreActiveFile(t) PROVE OrderInv'
  <2>1. wrote[t] = 0
    BY <1>11 DEF OrderInv, LocalInv, RestoreActiveFile
  <2>2. QED
    BY <1>11, <2>1, <1>a, <1>c, OrderKept
       DEF RestoreActiveFile, stateVars, localVars, InAppendLock, InCommit
<1>12. ASSUME NEW t \in Threads, Sync(t) PROVE OrderInv'
  BY <1>12, <1>a, <1>c, OrderKept DEF Sync, stateVars, localVars
<1>13. CASE UNCHANGED vars
  BY <1>13, <1>c, OrderKept DEF vars, stateVars, localVars
<1>14. QED
  BY <1>1, <1>2, <1>3, <1>4, <1>5, <1>6, <1>7, <1>8, <1>9, <1>10, <1>11, <1>12, <1>13
     DEF Next, Step

-----------------------------------------------------------------------------
(* Leader and waiters.                                                       *)

\* Through a step.
LEMMA WaitStep == TypeOK /\ WaitInv /\ [Next]_vars => WaitInv'
<1> SUFFICES ASSUME TypeOK, WaitInv, [Next]_vars PROVE WaitInv'
  OBVIOUS
<1> USE DEF WaitInv, OneLeader, NoLostWakeup, Leading
<1>a. pc \in [Threads -> PCs] /\ is_syncing \in BOOLEAN
  BY DEF TypeOK
<1>b. /\ NotifyAll \in [Threads -> PCs]
      /\ \A u \in Threads : /\ NotifyAll[u] # "waiting"
                            /\ NotifyAll[u] \in Leading <=> pc[u] \in Leading
  BY <1>a, NotifyAllMoves
<1>1. ASSUME NEW t \in Threads,
             Append_(t) \/ RecordPending(t) \/ RotateSync(t) \/ CreateActive(t)
      PROVE  WaitInv'
  BY <1>1, <1>a DEF Append_, RecordPending, RotateSync, CreateActive, LeaveAppend, FailInLock,
                    stateVars
<1>2. ASSUME NEW t \in Threads, MarkAllDurable(t) PROVE WaitInv'
  BY <1>2, <1>a, <1>b DEF MarkAllDurable
<1>3. ASSUME NEW t \in Threads, CommitReturns(t) \/ CommitWaits(t) \/ SpuriousWakeup(t)
      PROVE  WaitInv'
  BY <1>3, <1>a DEF CommitReturns, CommitWaits, SpuriousWakeup, stateVars
<1>4. ASSUME NEW t \in Threads, Lead(t) PROVE WaitInv'
  BY <1>4, <1>a DEF Lead, MayLead
<1>5. ASSUME NEW t \in Threads, SyncHandle(t) \/ SyncData(t) PROVE WaitInv'
  BY <1>5, <1>a DEF SyncHandle, SyncData, stateVars
<1>6. ASSUME NEW t \in Threads, Publish(t) PROVE WaitInv'
  BY <1>6, <1>a, <1>b DEF Publish
<1>7. ASSUME NEW t \in Threads, MergeOpensOutput(t) \/ RestoreActiveFile(t) \/ Sync(t)
      PROVE  WaitInv'
  BY <1>7, <1>a DEF MergeOpensOutput, RestoreActiveFile, Sync, stateVars
<1>8. CASE UNCHANGED vars
  BY <1>8 DEF vars, stateVars
<1>9. QED
  BY <1>1, <1>2, <1>3, <1>4, <1>5, <1>6, <1>7, <1>8 DEF Next, Step

-----------------------------------------------------------------------------
(* The medium.                                                               *)

\* A step that appends to no file, changes no active file and publishes nothing keeps what
\* is said of the medium, when it starts no leader and no rotation.
LEMMA MediumKept ==
    ASSUME MediumInv, TypeOK,
           UNCHANGED <<log, active_id, max_durable_generation, covers_up_to, fd>>,
           pending_writes' \in Nat, pending_writes <= pending_writes',
           durable \subseteq durable',
           \A u \in Threads :
               /\ pc'[u] \in {"mark", "create"} => pc[u] \in {"mark", "create"}
               /\ pc'[u] \in Leading => /\ pc[u] \in Leading
                                        /\ pc'[u] = pc[u] \/ pc'[u] = "failed"
                                        /\ target_gen'[u] = target_gen[u]
    PROVE  MediumInv'
<1>1. MarkedIsDurable'
  BY DEF MediumInv, MarkedIsDurable, TypeOK
<1>2. RotatedIsDurable'
  BY DEF MediumInv, RotatedIsDurable, Entries
<1>3. SyncedInv'
  BY DEF MediumInv, SyncedInv, Entries
<1>4. LeaderInv'
  <2> SUFFICES ASSUME NEW u \in Threads, pc'[u] \in Leading
               PROVE  LeaderCovers(u)'
    BY DEF LeaderInv, Leading
  <2>1. LeaderCovers(u)
    BY DEF MediumInv, LeaderInv
  <2>2. QED
    BY <2>1 DEF LeaderCovers, TypeOK
<1>5. QED
  BY <1>1, <1>2, <1>3, <1>4 DEF MediumInv

\* Through a step.
LEMMA MediumStep ==
    TypeOK /\ TypeOK' /\ LockInv /\ OrderInv /\ MediumInv /\ [Next]_vars => MediumInv'
<1> USE GroupCommitAssumption
<1> SUFFICES ASSUME TypeOK, TypeOK', LockInv, OrderInv, MediumInv, [Next]_vars
             PROVE  MediumInv'
  OBVIOUS
<1>a. /\ pc \in [Threads -> PCs] /\ pending_writes \in Nat /\ pending_writes' \in Nat
      /\ max_durable_generation \in Nat /\ log \in Seq(Nat) /\ Len(log) \in Nat
      /\ target_gen \in [Threads -> Nat] /\ covers_up_to \in [Threads -> Nat]
      /\ fd \in [Threads -> [file : Nat, upto : Nat]]
      /\ durable \subseteq 1..Len(log) /\ pending_writes <= Len(log)
  BY LenProperties DEF TypeOK, Entries, OrderInv, PendingInv
<1>b. NotifyAll \in [Threads -> PCs]
      /\ \A u \in Threads : /\ NotifyAll[u] \in Leading => NotifyAll[u] = pc[u]
                            /\ NotifyAll[u] \in {"mark", "create"} => NotifyAll[u] = pc[u]
  BY <1>a, NotifyAllMoves DEF Leading
<1>1. ASSUME NEW t \in Threads, Append_(t) PROVE MediumInv'
  <2>1. /\ log' = Append(log, active_id) /\ Len(log') = Len(log) + 1
        /\ \A i \in 1..Len(log) : log'[i] = log[i]
        /\ log'[Len(log) + 1] = active_id
    BY <1>1, <1>a, AppendProperties DEF Append_, TypeOK
  <2>2. MarkedIsDurable'
    BY <1>1 DEF MediumInv, MarkedIsDurable, Append_, stateVars
  <2>3. RotatedIsDurable'
    BY <1>1, <1>a, <2>1 DEF MediumInv, RotatedIsDurable, Entries, Append_
  <2>4. SyncedInv'
    BY <1>1, <1>a DEF LockInv, SyncedInv, Append_, InAppendLock
  <2>5. LeaderInv'
    <3> SUFFICES ASSUME NEW u \in Threads, pc'[u] \in Leading
                 PROVE  LeaderCovers(u)'
      BY DEF LeaderInv, Leading
    <3>1. u # t /\ pc'[u] = pc[u]
      BY <1>1, <1>a DEF Append_, Leading
    <3>2. LeaderCovers(u)
      BY <3>1 DEF MediumInv, LeaderInv
    <3>3. \A i \in 1..covers_up_to[u] : i \in 1..Len(log)
      BY <3>2, <1>a DEF LeaderCovers
    <3>4. QED
      BY <1>1, <2>1, <3>1, <3>2, <3>3 DEF LeaderCovers, Append_, stateVars
  <2>6. QED
    BY <2>2, <2>3, <2>4, <2>5 DEF MediumInv
<1>2. ASSUME NEW t \in Threads, RecordPending(t) PROVE MediumInv'
  BY <1>2, <1>a, MediumKept DEF RecordPending, LeaveAppend, Leading
<1>3. ASSUME NEW t \in Threads, RotateSync(t) PROVE MediumInv'
  <2>1. CASE UNCHANGED durable /\ FailInLock(t)
    BY <1>3, <2>1, <1>a, MediumKept DEF RotateSync, FailInLock, stateVars, localVars, Leading
  <2>2. CASE durable' = AfterSync(active_id) /\ pc' = [pc EXCEPT ![t] = "mark"]
    <3>1. Entries' \subseteq durable' /\ durable \subseteq durable'
      BY <1>3, <2>2 DEF RotateSync, AfterSync, EntriesIn, Entries, MediumInv, RotatedIsDurable
    <3>2. MarkedIsDurable' /\ RotatedIsDurable' /\ SyncedInv'
      BY <1>3, <3>1 DEF RotateSync, stateVars, MediumInv, MarkedIsDurable, RotatedIsDurable,
                        SyncedInv, Entries
    <3>3. LeaderInv'
      BY <1>3, <1>a, <2>2, <3>1
         DEF RotateSync, stateVars, localVars, MediumInv, LeaderInv, LeaderCovers, Leading
    <3>4. QED
      BY <3>2, <3>3 DEF MediumInv
  <2>3. QED
    BY <1>3, <2>1, <2>2 DEF RotateSync
<1>4. ASSUME NEW t \in Threads, MarkAllDurable(t) PROVE MediumInv'
  <2>1. /\ Entries \subseteq durable /\ max_durable_generation' = pending_writes
        /\ UNCHANGED <<active_id, log, durable, pending_writes, covers_up_to, fd, target_gen>>
    BY <1>4 DEF MarkAllDurable, MediumInv, SyncedInv, lockVars, localVars
  <2>2. \A u \in Threads : pc'[u] \in Leading => pc'[u] = pc[u]
    BY <1>4, <1>a, <1>b DEF MarkAllDurable, Leading
  <2>3. MarkedIsDurable'
    <3>1. \A i \in 1..pending_writes : i \in 1..Len(log)
      BY <1>a
    <3>2. 1..pending_writes \subseteq durable
      BY <2>1, <3>1 DEF Entries
    <3>3. QED
      BY <1>a, <2>1, <3>2 DEF MarkedIsDurable
  <2>4. RotatedIsDurable' /\ SyncedInv'
    BY <2>1 DEF RotatedIsDurable, SyncedInv, Entries
  <2>5. LeaderInv'
    BY <2>1, <2>2 DEF MediumInv, LeaderInv, LeaderCovers
  <2>6. QED
    BY <2>3, <2>4, <2>5 DEF MediumInv
<1>5. ASSUME NEW t \in Threads, CreateActive(t) PROVE MediumInv'
  <2>1. /\ Entries \subseteq durable
        /\ UNCHANGED <<log, durable, pending_writes, max_durable_generation, covers_up_to,
                       fd, target_gen>>
    BY <1>5 DEF CreateActive, MediumInv, SyncedInv, stateVars, localVars
  <2>2. \A u \in Threads : pc'[u] \in Leading => pc'[u] = pc[u]
    BY <1>5, <1>a DEF CreateActive, LeaveAppend, FailInLock, Leading
  <2>3. MarkedIsDurable' /\ RotatedIsDurable' /\ SyncedInv'
    BY <2>1 DEF MediumInv, MarkedIsDurable, RotatedIsDurable, SyncedInv, Entries
  <2>4. LeaderInv'
    BY <2>1, <2>2 DEF MediumInv, LeaderInv, LeaderCovers
  <2>5. QED
    BY <2>3, <2>4 DEF MediumInv
<1>6. ASSUME NEW t \in Threads, CommitReturns(t) \/ CommitWaits(t) \/ SpuriousWakeup(t)
      PROVE  MediumInv'
  BY <1>6, <1>a, MediumKept
     DEF CommitReturns, CommitWaits, SpuriousWakeup, lockVars, stateVars, localVars, Leading
<1>7. ASSUME NEW t \in Threads, Lead(t) PROVE MediumInv'
  <2>1. MarkedIsDurable' /\ RotatedIsDurable'
    BY <1>7 DEF Lead, MediumInv, MarkedIsDurable, RotatedIsDurable, Entries, lockVars
  <2>2. SyncedInv'
    BY <1>7, <1>a DEF Lead, MediumInv, SyncedInv, Entries
  <2>3. LeaderInv'
    <3>1. LeaderCovers(t)'
      BY <1>7, <1>a DEF Lead, CoversUpTo, LeaderCovers, OrderInv, LocalInv
    <3>2. ASSUME NEW u \in Threads, u # t, pc'[u] \in Leading PROVE LeaderCovers(u)'
      BY <1>7, <1>a, <3>2 DEF Lead, LeaderCovers, MediumInv, LeaderInv
    <3>3. QED
      BY <3>1, <3>2 DEF LeaderInv, Leading
  <2>4. QED
    BY <2>1, <2>2, <2>3 DEF MediumInv
<1>8. ASSUME NEW t \in Threads, SyncHandle(t) PROVE MediumInv'
  <2>1. CASE pc' = [pc EXCEPT ![t] = "failed"] /\ UNCHANGED fd
    BY <1>8, <2>1, <1>a, MediumKept DEF SyncHandle, lockVars, stateVars, Leading
  <2>2. CASE /\ fd' = [fd EXCEPT ![t] = [file |-> active_id, upto |-> Len(log)]]
             /\ pc' = [pc EXCEPT ![t] = "fsync"]
    <3>1. MarkedIsDurable' /\ RotatedIsDurable' /\ SyncedInv'
      BY <1>8, <1>a, <2>2 DEF SyncHandle, MediumInv, MarkedIsDurable, RotatedIsDurable,
                              SyncedInv, Entries, lockVars, stateVars
    <3>2. LeaderCovers(t)'
      <4>1. LeaderCovers(t)
        BY <1>8 DEF SyncHandle, MediumInv, LeaderInv, Leading
      <4>2. \A i \in 1..covers_up_to[t] : i \in Entries
        BY <1>a, <4>1 DEF LeaderCovers, Entries
      <4>3. \A i \in 1..covers_up_to[t] : i \in durable \/ (log[i] = active_id /\ i <= Len(log))
        BY <1>a, <4>2 DEF MediumInv, RotatedIsDurable, Entries
      <4>4. QED
        BY <1>8, <1>a, <2>2, <4>1, <4>3 DEF SyncHandle, LeaderCovers, stateVars
    <3>3. ASSUME NEW u \in Threads, u # t, pc'[u] \in Leading PROVE LeaderCovers(u)'
      BY <1>8, <1>a, <2>2, <3>3 DEF SyncHandle, LeaderCovers, MediumInv, LeaderInv, stateVars
    <3>4. QED
      BY <3>1, <3>2, <3>3 DEF MediumInv, LeaderInv, Leading
  <2>3. QED
    BY <1>8, <2>1, <2>2 DEF SyncHandle
<1>9. ASSUME NEW t \in Threads, SyncData(t) PROVE MediumInv'
  <2>1. CASE pc' = [pc EXCEPT ![t] = "failed"] /\ UNCHANGED durable
    BY <1>9, <2>1, <1>a, MediumKept DEF SyncData, lockVars, stateVars, localVars, Leading
  <2>2. CASE /\ durable' = durable \cup {i \in EntriesIn(fd[t].file) : i <= fd[t].upto}
             /\ pc' = [pc EXCEPT ![t] = "synced"]
    <3>1. MarkedIsDurable' /\ RotatedIsDurable' /\ SyncedInv'
      BY <1>9, <1>a, <2>2 DEF SyncData, MediumInv, MarkedIsDurable, RotatedIsDurable,
                              SyncedInv, Entries, lockVars, stateVars
    <3>2. LeaderCovers(t)'
      <4>1. LeaderCovers(t) /\ pc[t] = "fsync"
        BY <1>9 DEF SyncData, MediumInv, LeaderInv, Leading
      <4>2. \A i \in 1..covers_up_to[t] : i \in Entries
        BY <1>a, <4>1 DEF LeaderCovers, Entries
      <4>3. 1..covers_up_to[t] \subseteq durable'
        BY <2>2, <4>1, <4>2 DEF LeaderCovers, EntriesIn
      <4>4. QED
        BY <1>9, <1>a, <2>2, <4>1, <4>3 DEF SyncData, LeaderCovers, stateVars, localVars
    <3>3. ASSUME NEW u \in Threads, u # t, pc'[u] \in Leading PROVE LeaderCovers(u)'
      BY <1>9, <1>a, <2>2, <3>3
         DEF SyncData, LeaderCovers, MediumInv, LeaderInv, stateVars, localVars
    <3>4. QED
      BY <3>1, <3>2, <3>3 DEF MediumInv, LeaderInv, Leading
  <2>3. QED
    BY <1>9, <2>1, <2>2 DEF SyncData
<1>10. ASSUME NEW t \in Threads, Publish(t) PROVE MediumInv'
  <2>1. CASE pc[t] = "failed"
    <3>1. /\ pc' = [NotifyAll EXCEPT ![t] = "idle"]
          /\ UNCHANGED <<log, active_id, durable, pending_writes, max_durable_generation,
                         covers_up_to, fd, target_gen>>
      BY <1>10, <2>1 DEF Publish, lockVars, localVars
    <3>2. \A u \in Threads : /\ pc'[u] \in Leading => pc'[u] = pc[u]
                             /\ pc'[u] \in {"mark", "create"} => pc'[u] = pc[u]
      BY <3>1, <1>a, <1>b DEF Leading
    <3>3. QED
      BY <3>1, <3>2, <1>a, MediumKept
  <2>2. CASE pc[t] = "synced"
    <3>1. LeaderCovers(t)
      BY <2>2 DEF MediumInv, LeaderInv, Leading
    <3>2. \A u \in Threads : /\ pc'[u] \in Leading => pc'[u] = pc[u]
                             /\ pc'[u] \in {"mark", "create"} => pc'[u] = pc[u]
      BY <1>10, <1>a, <1>b, <2>2 DEF Publish, Leading
    <3>3. MarkedIsDurable'
      BY <1>10, <1>a, <2>2, <3>1
         DEF Publish, DurableAfterFsync, MediumInv, MarkedIsDurable, LeaderCovers
    <3>4. RotatedIsDurable' /\ SyncedInv'
      BY <1>10, <3>2 DEF Publish, MediumInv, RotatedIsDurable, SyncedInv, Entries, lockVars
    <3>5. LeaderInv'
      BY <1>10, <3>2 DEF Publish, MediumInv, LeaderInv, LeaderCovers, localVars
    <3>6. QED
      BY <3>3, <3>4, <3>5 DEF MediumInv
  <2>3. QED
    BY <1>10, <2>1, <2>2 DEF Publish
<1>11. ASSUME NEW t \in Threads, MergeOpensOutput(t) \/ RestoreActiveFile(t) PROVE MediumInv'
  BY <1>11, <1>a, MediumKept
     DEF MergeOpensOutput, RestoreActiveFile, stateVars, localVars, Leading
<1>12. ASSUME NEW t \in Threads, Sync(t) PROVE MediumInv'
  BY <1>12, <1>a, MediumKept DEF Sync, AfterSync, lockVars, stateVars, localVars, Leading
<1>13. CASE UNCHANGED vars
  BY <1>13, <1>a, MediumKept DEF vars, lockVars, stateVars, localVars, Leading
<1>14. QED
  BY <1>1, <1>2, <1>3, <1>4, <1>5, <1>6, <1>7, <1>8, <1>9, <1>10, <1>11, <1>12, <1>13
     DEF Next, Step

-----------------------------------------------------------------------------
(* Answers.                                                                  *)

\* The step with which t's call returns a to its caller.
Returns(t, a) ==
    /\ outcome' = Answered(wrote[t], a)
    /\ wrote[t] # 0 => InCall(t)
    /\ a = "ok" /\ SyncOnPut /\ wrote[t] # 0 => wrote[t] \in durable
    /\ pc'[t] = "idle"
    /\ UNCHANGED <<log, durable>>

\* A step that answers nobody and only adds to the medium.
OnlyPersists ==
    /\ UNCHANGED <<log, outcome>>
    /\ durable \subseteq durable' /\ durable' \subseteq Entries

\* No call begins, and no call's entry changes.
CallsKept == \A u \in Threads : InCall(u)' => InCall(u) /\ wrote'[u] = wrote[u]

\* A step that appends nothing answers at most one call, and "ok" only to a durable write.
LEMMA StepAnswers ==
    ASSUME TypeOK, TypeOK', OrderInv, MediumInv, NEW t \in Threads,
           MergeOpensOutput(t) \/ Sync(t) \/ SpuriousWakeup(t) \/ Step(t)
    PROVE  (OnlyPersists \/ \E a \in {"ok", "err"} : Returns(t, a)) /\ CallsKept
<1>a. /\ pc \in [Threads -> PCs] /\ wrote \in [Threads -> Nat]
      /\ durable \subseteq Entries /\ durable' \subseteq Entries'
  BY DEF TypeOK
<1>b. /\ NotifyAll \in [Threads -> PCs]
      /\ \A u \in Threads : NotifyAll[u] \in InAppendLock \cup InCommit
                                => pc[u] \in InAppendLock \cup InCommit
  BY <1>a, NotifyAllMoves DEF InAppendLock, InCommit
<1>1. CASE RecordPending(t)
  <2>1. CallsKept
    BY <1>1, <1>a DEF RecordPending, LeaveAppend, CallsKept, InCall, InAppendLock, InCommit
  <2>2. CASE UNCHANGED outcome
    BY <1>1, <1>a, <2>1, <2>2 DEF RecordPending, OnlyPersists
  <2>3. CASE outcome' # outcome
    BY <1>1, <1>a, <2>1, <2>3 DEF RecordPending, LeaveAppend, Returns, InCall, InAppendLock,
                                  Answered
  <2>4. QED
    BY <2>2, <2>3
<1>2. CASE RotateSync(t)
  <2>1. CallsKept
    BY <1>2, <1>a DEF RotateSync, FailInLock, CallsKept, InCall, InAppendLock, localVars
  <2>2. CASE FailInLock(t) /\ UNCHANGED durable
    BY <1>2, <1>a, <2>1, <2>2 DEF RotateSync, FailInLock, Returns, InCall, InAppendLock
  <2>3. CASE durable' = AfterSync(active_id) /\ UNCHANGED outcome
    BY <1>2, <1>a, <2>1, <2>3 DEF RotateSync, OnlyPersists, AfterSync, EntriesIn, Entries
  <2>4. QED
    BY <1>2, <2>2, <2>3 DEF RotateSync
<1>3. CASE MarkAllDurable(t)
  BY <1>3, <1>a, <1>b
     DEF MarkAllDurable, OnlyPersists, CallsKept, InCall, InAppendLock, localVars
<1>4. CASE CreateActive(t)
  <2>1. CallsKept
    BY <1>4, <1>a DEF CreateActive, LeaveAppend, FailInLock, CallsKept, InCall, InAppendLock,
                      InCommit, localVars
  <2>2. CASE UNCHANGED outcome
    BY <1>4, <1>a, <2>1, <2>2 DEF CreateActive, OnlyPersists
  <2>3. CASE outcome' # outcome
    BY <1>4, <1>a, <2>1, <2>3 DEF CreateActive, LeaveAppend, FailInLock, Returns, InCall,
                                  InAppendLock, Answered
  <2>4. QED
    BY <2>2, <2>3
<1>5. CASE CommitReturns(t)
  <2>1. CallsKept
    BY <1>5, <1>a DEF CommitReturns, CallsKept, InCall, InAppendLock, InCommit, localVars
  <2>2. InCall(t) /\ target_gen[t] = wrote[t] /\ wrote[t] <= max_durable_generation
    BY <1>5, <1>a DEF CommitReturns, IsCovered, OrderInv, LocalInv, GenerationIsAppendOrder,
                      InCall, InCommit, InAppendLock
  <2>3. wrote[t] \in 1..max_durable_generation
    BY <1>a, <2>2 DEF InCall, TypeOK
  <2>4. wrote[t] \in durable
    BY <2>3 DEF MediumInv, MarkedIsDurable
  <2>5. Returns(t, "ok")
    BY <1>5, <1>a, <2>2, <2>4 DEF CommitReturns, Returns, lockVars
  <2>6. QED
    BY <2>1, <2>5
<1>6. CASE Lead(t) \/ CommitWaits(t) \/ SpuriousWakeup(t)
  BY <1>6, <1>a DEF Lead, CommitWaits, SpuriousWakeup, OnlyPersists, CallsKept, InCall,
                    InCommit, lockVars, localVars
<1>7. CASE SyncHandle(t)
  BY <1>7, <1>a DEF SyncHandle, OnlyPersists, CallsKept, InCall, InCommit, lockVars
<1>8. CASE SyncData(t)
  BY <1>8, <1>a DEF SyncData, OnlyPersists, CallsKept, InCall, InCommit, EntriesIn, Entries,
                    lockVars, localVars
<1>9. CASE Publish(t)
  <2>1. CallsKept
    BY <1>9, <1>a, <1>b DEF Publish, CallsKept, InCall, InCommit, InAppendLock, localVars
  <2>2. CASE pc[t] = "synced"
    BY <1>9, <1>a, <2>1, <2>2 DEF Publish, OnlyPersists, lockVars
  <2>3. CASE pc[t] = "failed"
    <3>1. InCall(t)
      BY <2>3 DEF OrderInv, LocalInv, InCall, InCommit
    <3>2. Returns(t, "err")
      BY <1>9, <1>a, <1>b, <2>3, <3>1 DEF Publish, Returns, lockVars
    <3>3. QED
      BY <2>1, <3>2
  <2>4. QED
    BY <1>9, <2>2, <2>3 DEF Publish
<1>10. CASE MergeOpensOutput(t)
  BY <1>10, <1>a DEF MergeOpensOutput, OnlyPersists, CallsKept, InCall, InAppendLock, InCommit
<1>11. CASE RestoreActiveFile(t)
  <2>1. wrote[t] = 0
    BY <1>11 DEF OrderInv, LocalInv, RestoreActiveFile
  <2>2. QED
    BY <1>11, <1>a, <2>1
       DEF RestoreActiveFile, OnlyPersists, CallsKept, InCall, localVars
<1>12. CASE Sync(t)
  BY <1>12, <1>a DEF Sync, AfterSync, EntriesIn, Entries, OnlyPersists, CallsKept, InCall,
                     localVars
<1>13. QED
  BY <1>1, <1>2, <1>3, <1>4, <1>5, <1>6, <1>7, <1>8, <1>9, <1>10, <1>11, <1>12 DEF Step

\* What a step does to the answers: an append, a return or neither.
LEMMA StepKinds ==
    ASSUME TypeOK, TypeOK', OrderInv, MediumInv, [Next]_vars
    PROVE  \/ \E t \in Threads : Append_(t)
           \/ OnlyPersists /\ CallsKept
           \/ CallsKept /\ \E t \in Threads, a \in {"ok", "err"} : Returns(t, a)
<1>1. CASE UNCHANGED vars
  BY <1>1 DEF vars, localVars, OnlyPersists, CallsKept, InCall, TypeOK
<1>2. CASE Next
  BY <1>2, StepAnswers DEF Next
<1>3. QED
  BY <1>1, <1>2

\* An append issues one write and touches nobody else's.
LEMMA AppendIssues ==
    ASSUME TypeOK, LocalInv, NEW t \in Threads, Append_(t)
    PROVE  /\ outcome' = Append(outcome, "pending") /\ UNCHANGED durable
           /\ Len(outcome') = Len(outcome) + 1 /\ Entries' = 1..Len(outcome')
           /\ \A i \in Entries : outcome'[i] = outcome[i]
           /\ outcome'[Len(outcome) + 1] = "pending"
           /\ wrote'[t] = Len(outcome) + 1
           /\ \A u \in Threads : u # t => /\ wrote'[u] = wrote[u] /\ wrote[u] <= Len(outcome)
                                          /\ pc'[u] = pc[u]
<1>1. /\ outcome \in Seq({"pending", "ok", "err"}) /\ Len(outcome) = Len(log)
      /\ log \in Seq(Nat) /\ Len(log') = Len(log) + 1
  BY AppendProperties DEF TypeOK, Append_
<1>2. /\ Len(outcome') = Len(outcome) + 1
      /\ \A i \in 1..Len(outcome) : outcome'[i] = outcome[i]
      /\ outcome'[Len(outcome) + 1] = "pending"
  BY <1>1, AppendProperties DEF Append_
<1>3. QED
  BY <1>1, <1>2 DEF Append_, TypeOK, LocalInv, Entries

\* Through a step.
LEMMA AckedStep ==
    /\ TypeOK /\ TypeOK' /\ OrderInv /\ MediumInv /\ AckedIsDurable
    /\ [Next]_vars
    => AckedIsDurable'
<1> SUFFICES ASSUME TypeOK, TypeOK', OrderInv, MediumInv, AckedIsDurable, [Next]_vars, SyncOnPut,
                    NEW i \in Entries', outcome'[i] = "ok"
             PROVE  i \in durable'
  BY DEF AckedIsDurable
<1>1. ASSUME NEW t \in Threads, Append_(t) PROVE i \in durable'
  <2>1. i \in Entries \/ i = Len(outcome) + 1
    <3>1. Len(outcome) \in Nat /\ Entries = 1..Len(outcome)
      BY LenProperties DEF TypeOK, Entries
    <3>2. Entries' = 1..(Len(outcome) + 1)
      BY <1>1, AppendIssues DEF OrderInv
    <3>3. QED
      BY <3>1, <3>2
  <2>2. i \in Entries /\ outcome[i] = "ok"
    BY <1>1, <2>1, AppendIssues DEF OrderInv
  <2>3. QED
    BY <1>1, <2>2, AppendIssues DEF OrderInv, AckedIsDurable
<1>2. CASE OnlyPersists
  BY <1>2 DEF OnlyPersists, AckedIsDurable, Entries
<1>3. ASSUME NEW t \in Threads, NEW a \in {"ok", "err"}, Returns(t, a) PROVE i \in durable'
  <2>1. i \in Entries /\ durable' = durable /\ i # 0
    BY <1>3 DEF Returns, Entries, TypeOK
  <2>2. outcome \in Seq({"pending", "ok", "err"}) /\ wrote[t] \in Nat /\ i \in 1..Len(outcome)
    BY <2>1 DEF TypeOK, Entries
  <2>3. outcome'[i] = IF i = wrote[t] THEN a ELSE outcome[i]
    BY <1>3, <2>2, AnsweredSeq DEF Returns
  <2>4. QED
    BY <1>3, <2>1, <2>3 DEF Returns, AckedIsDurable
<1>4. QED
  BY <1>1, <1>2, <1>3, StepKinds

-----------------------------------------------------------------------------
(* The invariant, and what it implies.                                       *)

\* The whole invariant, at first.
LEMMA InvInit == Init => IInv
<1> USE GroupCommitAssumption
<1> SUFFICES ASSUME Init PROVE IInv
  OBVIOUS
<1>1. TypeOK
  BY TypeInit
<1>2. LockInv
  BY DEF Init, LockInv, InAppendLock
<1>3. Len(log) = 0
  BY DEF Init
<1>4. OrderInv
  BY <1>3 DEF Init, OrderInv, GenerationIsAppendOrder, LocalInv, PendingInv, InAppendLock, InCommit
<1>5. MediumInv
  BY <1>3 DEF Init, MediumInv, MarkedIsDurable, RotatedIsDurable, SyncedInv, LeaderInv, Leading,
             Entries
<1>6. WaitInv
  BY DEF Init, WaitInv, OneLeader, NoLostWakeup, Leading
<1>7. AckedIsDurable
  BY <1>3 DEF Init, AckedIsDurable, Entries
<1>8. QED
  BY <1>1, <1>2, <1>4, <1>5, <1>6, <1>7 DEF IInv

\* The whole invariant, through a step.
LEMMA InvStep == IInv /\ [Next]_vars => IInv'
BY TypeStep, LockStep, OrderStep, MediumStep, WaitStep, AckedStep DEF IInv

\* The whole invariant, always.
LEMMA Invariance == Spec => []IInv
BY InvInit, InvStep, PTL DEF Spec

\* Group commit's promise: with should_sync_on_put, a put or delete that returned Ok is on
\* the medium (`append` returns only after `commit`, `commit` only past its target).
THEOREM AckedAlwaysDurable == Spec => []AckedIsDurable
<1>1. IInv => AckedIsDurable
  BY DEF IInv
<1>2. QED
  BY <1>1, Invariance, PTL

\* Neither a leader nor a rotation ever marks a generation durable that is not.
THEOREM MarkedAlwaysDurable == Spec => []MarkedIsDurable
<1>1. IInv => MarkedIsDurable
  BY DEF IInv, MediumInv
<1>2. QED
  BY <1>1, Invariance, PTL

\* Only the newest file can have a tail that a power loss cuts (`append` rotates after sync).
THEOREM RotatedAlwaysDurable == Spec => []RotatedIsDurable
<1>1. IInv => RotatedIsDurable
  BY DEF IInv, MediumInv
<1>2. QED
  BY <1>1, Invariance, PTL

\* A writer waits for the generation of its own entry (record_pending under the append lock).
THEOREM GenerationsFollowAppends == Spec => []GenerationIsAppendOrder
<1>1. IInv => GenerationIsAppendOrder
  BY DEF IInv, OrderInv
<1>2. QED
  BY <1>1, Invariance, PTL

\* `is_syncing` lets at most one caller of `commit` fsync at a time.
THEOREM AtMostOneLeader == Spec => []OneLeader
<1>1. IInv => OneLeader
  BY DEF IInv, WaitInv
<1>2. QED
  BY <1>1, Invariance, PTL

\* At most one fsync of the coordinator is in flight, and no thread waits without one.
THEOREM WaitersHaveALeader == Spec => [](OneLeader /\ NoLostWakeup)
<1>1. IInv => OneLeader /\ NoLostWakeup
  BY DEF IInv, WaitInv
<1>2. QED
  BY <1>1, Invariance, PTL

-----------------------------------------------------------------------------
(* What a step may never do.                                                 *)

\* What is marked durable stays marked (`max` in `commit`, and pending_writes never being
\* behind what is marked in `mark_all_durable`).
THEOREM NeverRegresses == Spec => DurableNeverRegresses
<1>1. IInv /\ [Next]_vars => [max_durable_generation' >= max_durable_generation]_vars
  <2> SUFFICES ASSUME IInv, Next PROVE max_durable_generation' >= max_durable_generation
    OBVIOUS
  <2>1. max_durable_generation \in Nat /\ max_durable_generation <= pending_writes
        /\ pending_writes \in Nat /\ covers_up_to \in [Threads -> Nat]
    BY DEF IInv, TypeOK, MediumInv, MarkedIsDurable
  <2>2. ASSUME NEW t \in Threads, MarkAllDurable(t) \/ Publish(t)
        PROVE  max_durable_generation' >= max_durable_generation
    BY <2>1, <2>2 DEF MarkAllDurable, Publish, DurableAfterFsync
  <2>3. ASSUME NEW t \in Threads,
               \/ Append_(t) \/ RecordPending(t) \/ RotateSync(t) \/ CreateActive(t)
               \/ CommitReturns(t) \/ Lead(t) \/ CommitWaits(t) \/ SpuriousWakeup(t)
               \/ SyncHandle(t) \/ SyncData(t)
               \/ MergeOpensOutput(t) \/ RestoreActiveFile(t) \/ Sync(t)
        PROVE  max_durable_generation' = max_durable_generation
    BY <2>3 DEF Append_, RecordPending, RotateSync, CreateActive, CommitReturns, Lead, CommitWaits,
                SpuriousWakeup, SyncHandle, SyncData, MergeOpensOutput, RestoreActiveFile, Sync,
                stateVars
  <2>4. QED
    BY <2>1, <2>2, <2>3 DEF Next, Step
<1>2. QED
  BY <1>1, Invariance, PTL DEF Spec, DurableNeverRegresses

\* A leader whose own fsync succeeded is covered by it: it never leads twice for one write.
THEOREM LeaderAlwaysCovered == Spec => LeaderIsCovered
<1>1. IInv /\ [Next]_vars
      => [\A t \in Threads : pc[t] = "synced" /\ pc'[t] = "commit"
             => max_durable_generation' >= target_gen[t]]_vars
  <2> SUFFICES ASSUME IInv, Next, NEW t \in Threads, pc[t] = "synced", pc'[t] = "commit"
               PROVE  max_durable_generation' >= target_gen[t]
    OBVIOUS
  <2>1. LeaderCovers(t) /\ pc \in [Threads -> PCs] /\ max_durable_generation \in Nat
        /\ covers_up_to \in [Threads -> Nat] /\ target_gen \in [Threads -> Nat]
    BY DEF IInv, TypeOK, MediumInv, LeaderInv, Leading
  <2>2. \A u \in Threads : NotifyAll[u] # pc[u] => pc[u] = "waiting"
    BY NotifyAllMoves DEF IInv, TypeOK
  <2>3. PICK u \in Threads : Append_(u) \/ MergeOpensOutput(u) \/ Sync(u) \/ SpuriousWakeup(u)
                            \/ Step(u)
    BY DEF Next
  <2>4. CASE Publish(u) /\ u = t
    BY <2>1, <2>4 DEF Publish, DurableAfterFsync, LeaderCovers
  <2>5. CASE Publish(u) /\ u # t
    BY <2>1, <2>2, <2>5, NotifyAllMoves DEF Publish
  <2>6. CASE MarkAllDurable(u)
    BY <2>1, <2>2, <2>6, NotifyAllMoves DEF MarkAllDurable
  <2>7. CASE ~Publish(u) /\ ~MarkAllDurable(u)
    BY <2>1, <2>3, <2>7
       DEF Step, Append_, RecordPending, RotateSync, CreateActive, LeaveAppend, FailInLock,
           CommitReturns, Lead, CommitWaits, SpuriousWakeup, SyncHandle, SyncData,
           MergeOpensOutput, RestoreActiveFile, Sync
  <2>8. QED
    BY <2>4, <2>5, <2>6, <2>7
<1>2. QED
  BY <1>1, Invariance, PTL DEF Spec, LeaderIsCovered

-----------------------------------------------------------------------------
(* GroupCommit implements DurableLog.  A step maps to Issue (an append), to  *)
(* Persist (an fsync, or a step that concerns neither answers nor medium) or *)
(* to Answer; that an answer is the write's first one needs UnansweredInv.   *)

\* At first.
LEMMA UnansweredInit == Init => UnansweredInv
BY DEF Init, UnansweredInv, InCall, InAppendLock, InCommit

\* Through a step.
LEMMA UnansweredStep == IInv /\ IInv' /\ UnansweredInv /\ [Next]_vars => UnansweredInv'
<1> SUFFICES ASSUME IInv, IInv', UnansweredInv, [Next]_vars PROVE UnansweredInv'
  OBVIOUS
<1>a. /\ wrote \in [Threads -> Nat] /\ outcome \in Seq({"pending", "ok", "err"})
      /\ Len(outcome) \in Nat
      /\ \A u \in Threads : InCall(u) => wrote[u] \in 1..Len(outcome)
  <2>1. wrote \in [Threads -> Nat] /\ outcome \in Seq({"pending", "ok", "err"})
    BY DEF IInv, TypeOK
  <2>2. Len(outcome) \in Nat /\ \A u \in Threads : wrote[u] <= Len(outcome)
    BY <2>1, LenProperties DEF IInv, TypeOK, OrderInv, LocalInv
  <2>3. QED
    BY <2>1, <2>2 DEF InCall
<1>1. ASSUME NEW t \in Threads, Append_(t) PROVE UnansweredInv'
  <2>1. /\ \A i \in 1..Len(outcome) : outcome'[i] = outcome[i]
        /\ outcome'[wrote'[t]] = "pending" /\ wrote'[t] = Len(outcome) + 1
        /\ \A u \in Threads : u # t => wrote'[u] = wrote[u] /\ pc'[u] = pc[u]
    BY <1>1, AppendIssues DEF IInv, OrderInv, TypeOK, Entries
  <2>2. \A u \in Threads : u # t /\ InCall(u)' => InCall(u)
    BY <2>1 DEF InCall
  <2>3. \A u \in Threads : u # t /\ InCall(u)' => wrote'[u] \in 1..Len(outcome)
                                                 /\ wrote'[u] = wrote[u]
    BY <1>a, <2>1, <2>2
  <2>4. \A u \in Threads : InCall(u)' => outcome'[wrote'[u]] = "pending"
    BY <2>1, <2>2, <2>3 DEF UnansweredInv
  <2>5. ASSUME NEW u \in Threads, NEW v \in Threads, InCall(u)', InCall(v)',
               wrote'[u] = wrote'[v]
        PROVE  u = v
    BY <1>a, <2>1, <2>2, <2>3, <2>5 DEF UnansweredInv
  <2>6. QED
    BY <2>4, <2>5 DEF UnansweredInv
<1>2. CASE OnlyPersists /\ CallsKept
  BY <1>2 DEF OnlyPersists, CallsKept, UnansweredInv
<1>3. ASSUME NEW t \in Threads, NEW a \in {"ok", "err"}, Returns(t, a), CallsKept
      PROVE  UnansweredInv'
  <2>1. ~InCall(t)'
    BY <1>3 DEF Returns, InCall, InAppendLock, InCommit
  <2>2. \A j \in 1..Len(outcome) : j # wrote[t] => outcome'[j] = outcome[j]
    <3>1. /\ outcome \in Seq({"pending", "ok", "err"})
          /\ wrote[t] \in Nat /\ a \in {"pending", "ok", "err"}
      BY <1>a, <1>3
    <3>2. ASSUME NEW j \in 1..Len(outcome), j # wrote[t] PROVE outcome'[j] = outcome[j]
      BY <1>3, <3>1, <3>2, LenProperties DEF Returns, Answered
    <3>3. QED
      BY <3>2
  <2>3. ASSUME NEW u \in Threads, InCall(u)' PROVE outcome'[wrote'[u]] = "pending"
    <3>1. InCall(u) /\ wrote'[u] = wrote[u] /\ u # t /\ wrote[u] # 0
      BY <1>3, <2>1, <2>3 DEF CallsKept, InCall
    <3>2. wrote[u] # wrote[t]
      BY <1>3, <3>1 DEF Returns, UnansweredInv
    <3>3. QED
      BY <1>a, <2>2, <3>1, <3>2 DEF UnansweredInv
  <2>4. QED
    BY <1>3, <2>3 DEF CallsKept, UnansweredInv
<1>4. QED
  BY <1>1, <1>2, <1>3, StepKinds DEF IInv

\* Every step is a step of DurableLog, or none.
LEMMA RefinementStep ==
    IInv /\ IInv' /\ UnansweredInv /\ [Next]_vars => [Abstract!Next]_<<outcome, durable>>
<1> SUFFICES ASSUME IInv, IInv', UnansweredInv, [Next]_vars
             PROVE  [Abstract!Next]_<<outcome, durable>>
  OBVIOUS
<1>a. outcome \in Seq({"pending", "ok", "err"}) /\ Entries = 1..Len(outcome)
  BY DEF IInv, TypeOK, Entries
<1>1. ASSUME NEW t \in Threads, Append_(t) PROVE Abstract!Issue
  BY <1>1, AppendIssues DEF IInv, OrderInv, Abstract!Issue
<1>2. CASE OnlyPersists
  <2>1. durable' \in SUBSET (1..Len(outcome)) /\ durable' = durable \cup durable'
    BY <1>2, <1>a DEF OnlyPersists
  <2>2. QED
    BY <1>2, <2>1 DEF OnlyPersists, Abstract!Persist, Abstract!Next
<1>3. ASSUME NEW t \in Threads, NEW a \in {"ok", "err"}, Returns(t, a)
      PROVE  [Abstract!Next]_<<outcome, durable>>
  <2>1. CASE wrote[t] = 0
    BY <1>3, <2>1 DEF Returns, Answered
  <2>2. CASE wrote[t] # 0
    <3>1. wrote[t] \in 1..Len(outcome) /\ outcome[wrote[t]] = "pending"
      BY <1>3, <2>2, <1>a DEF Returns, UnansweredInv, IInv, OrderInv, LocalInv, TypeOK, Entries
    <3>2. Abstract!Answer(wrote[t], a)
      BY <1>3, <2>2, <3>1 DEF Returns, Answered, Abstract!Answer
    <3>3. QED
      BY <3>1, <3>2 DEF Abstract!Next, Abstract!Answers
  <2>3. QED
    BY <2>1, <2>2
<1>4. QED
  BY <1>1, <1>2, <1>3, StepKinds DEF IInv, Abstract!Next

\* Locks, generations, leaders and rotations implement the abstract durable log: every
\* write is answered once, and with should_sync_on_put "ok" only when it is persistent.
THEOREM Refinement == Spec => ImplementsDurableLog
<1>1. Init => Abstract!Init
  BY DEF Init, Abstract!Init
<1>2. Spec => []UnansweredInv
  BY UnansweredInit, UnansweredStep, Invariance, PTL DEF Spec
<1>3. QED
  BY <1>1, <1>2, RefinementStep, Invariance, PTL DEF Spec, ImplementsDurableLog, Abstract!Spec
=============================================================================
