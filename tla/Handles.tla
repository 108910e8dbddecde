-------------------------------- MODULE Handles --------------------------------
(* The handles of one directory and the processes that hold them: read-write *)
(* sessions, one after another under the directory lock (src/lock.rs), and   *)
(* read-only handles beside them, which take no lock (Engine::open and close *)
(* in src/engine.rs, the commands of src/bin/kv.rs).  `open` is cut into its *)
(* steps: the lock, the listing of the directory, the recovery of one file   *)
(* after another, the creation of the active file.  Inside a session the     *)
(* calls are those of Store and Merge.  A process may be killed anywhere, or *)
(* leave its handle to be dropped where a `?` returns.                       *)
EXTENDS Merge

CONSTANTS Sessions,  \* the read-write handles, each opened at most once
          Viewers    \* the read-only handles, each opened at most once

ASSUME HandlesAssumption == Sessions \cap Viewers = {} /\ None \notin Sessions \cup Viewers

VARIABLES
    lock,    \* the session that holds .bitcask.lock
    step,    \* step[h]: where h is in `open`; "open" after it, "closed" at the end
    left,    \* left[h]: the files `recover` has not come to
    found,   \* found[h]: the keydir it has so far
    next_id, \* next_id[h]: one above the largest id `discover` found
    during,  \* during[v]: the writes there were at the first and at the last step of v's open
    cached,  \* cached[h]: the files a viewer has a cached handle of
    clean    \* every session so far ended with `close`

handleVars == <<lock, step, left, found, next_id, during, cached, clean>>
hVars      == <<allVars, handleVars>>
Handles    == Sessions \cup Viewers

\* Mutant of OpenOrder: the lock is taken when it is needed, to create the active file.
LockedLate(h) == IF h \in Sessions THEN <<"discover", "recover", "lock", "create", "open">>
                                   ELSE <<"discover", "recover", "open">>

\* The steps of Engine::open.
OpenOrder(h) == IF h \in Sessions THEN <<"lock", "discover", "recover", "create", "open">>
                                  ELSE <<"discover", "recover", "open">>

HInit ==
    /\ history = <<>>
    /\ files = [f \in {} |-> EmptyFile] /\ linked = {} /\ active_id = 0 /\ next_file_id = 0
    /\ keydir = EmptyKeydir /\ readers = {}
    /\ pc = [t \in Threads |-> "idle"]
    /\ arg = [t \in Threads |-> NoArg]
    /\ held = [t \in Threads |-> {}]
    /\ promise = [k \in Keys |-> [ver |-> 0, tomb |-> TRUE]]
    /\ faults = 0 /\ crashes = 0
    /\ merging = [t \in Threads |-> NoMerge] /\ at_risk = {}
    /\ lock = None
    /\ step = [h \in Handles |-> OpenOrder(h)[1]]
    /\ left = [h \in Handles |-> {}]
    /\ found = [h \in Handles |-> EmptyKeydir]
    /\ next_id = [h \in Handles |-> 0]
    /\ during = [v \in Viewers |-> [from |-> 0, to |-> 0]]
    /\ cached = [h \in Handles |-> {}]
    /\ clean = TRUE

-----------------------------------------------------------------------------
(* open.                                                                     *)

StepAfter(h, s) ==
    LET order == OpenOrder(h) IN order[1 + CHOOSE i \in DOMAIN order : order[i] = s]

Advance(h) == step' = [step EXCEPT ![h] = StepAfter(h, @)]

\* DirLock::acquire: try_lock_exclusive does not wait.
AcquireLock(h) ==
    /\ step[h] = "lock"
    /\ IF lock = None
       THEN lock' = h /\ Advance(h)
       ELSE step' = [step EXCEPT ![h] = "closed"] /\ UNCHANGED lock
    /\ UNCHANGED <<allVars, left, found, next_id, during, cached, clean>>

\* DataFileSet::discover.
Discover(h) ==
    /\ step[h] = "discover"
    /\ left' = [left EXCEPT ![h] = linked]
    /\ next_id' = [next_id EXCEPT ![h] = IF linked = {} THEN 0 ELSE Max(linked) + 1]
    /\ Advance(h)
    /\ during' = IF h \in Viewers THEN [during EXCEPT ![h].from = Len(history)] ELSE during
    /\ UNCHANGED <<allVars, lock, found, cached, clean>>

\* One turn of the loop in `recover`.  What another process has in a buffer is not there,
\* or has spilled by now.  A file that is gone ends `open` with an error.
RecoverNext(h) ==
    LET f == Min(left[h]) IN
    /\ step[h] = "recover" /\ left[h] # {}
    /\ IF f \in linked
       THEN \E n \in files[f].flushed..Len(files[f].entries) :
                LET data == [entries |-> [i \in 1..n |-> history[files[f].entries[i]]],
                             bad |-> {}, hint |-> None]
                IN  /\ found' = [found EXCEPT ![h] = RecoverFile(@, f, data)]
                    /\ left' = [left EXCEPT ![h] = @ \ {f}]
                    /\ files' = [files EXCEPT ![f].flushed = n]
                    /\ UNCHANGED <<step, lock>>
       ELSE /\ step' = [step EXCEPT ![h] = "closed"]
            /\ lock' = IF lock = h THEN None ELSE lock
            /\ UNCHANGED <<files, left, found>>
    /\ UNCHANGED <<history, linked, active_id, next_file_id, memVars, promise, faults, crashes,
                   mergeVars, next_id, during, cached, clean>>

Recovered(h) ==
    /\ step[h] = "recover" /\ left[h] = {}
    /\ Advance(h)
    /\ during' = IF h \in Viewers THEN [during EXCEPT ![h].to = Len(history)] ELSE during
    /\ UNCHANGED <<allVars, lock, left, found, next_id, cached, clean>>

\* ActiveFile::create and the handle: the session begins.
CreateAndServe(h) ==
    /\ step[h] = "create"
    /\ files' = WithFile(files, next_id[h])
    /\ linked' = linked \cup {next_id[h]}
    /\ active_id' = next_id[h]
    /\ next_file_id' = next_id[h] + 1
    /\ keydir' = found[h]
    /\ found' = [found EXCEPT ![h] = EmptyKeydir]
    /\ readers' = {}
    /\ Advance(h)
    /\ UNCHANGED <<history, pc, arg, held, promise, faults, crashes, mergeVars, lock, left, next_id,
                   during, cached, clean>>

-----------------------------------------------------------------------------
(* The end of a session.                                                     *)

InSession == lock # None /\ step[lock] = "open"

Resting == \A t \in Threads : pc[t] = "idle"

\* The process has no memory of the session, and its lock is free.
Ended ==
    /\ step' = [step EXCEPT ![lock] = "closed"]
    /\ lock' = None
    /\ keydir' = EmptyKeydir
    /\ readers' = {}
    /\ left' = [left EXCEPT ![lock] = {}]
    /\ found' = [found EXCEPT ![lock] = EmptyKeydir]
    /\ UNCHANGED <<next_id, during, cached>>

\* Mutant of FilesAtClose: close is a drop.
FilesAsTheyAre(fs, f) == fs

\* close syncs the active file; the lock goes with the handle.
FilesAtClose(fs, f) == WithSync(fs, f)

Close ==
    /\ InSession /\ Resting
    /\ files' = FilesAtClose(files, active_id)
    /\ Ended
    /\ UNCHANGED <<history, linked, active_id, next_file_id, pc, arg, held, promise, faults,
                   crashes, mergeVars, clean>>

\* A `?` between open and close, or a failing fsync in close: the handle is dropped.
Drop ==
    /\ InSession /\ Resting
    /\ "drop" \in Crashes /\ crashes < MaxCrashes /\ crashes' = crashes + 1
    /\ Ended
    /\ clean' = FALSE
    /\ UNCHANGED <<diskVars, pc, arg, held, promise, faults, mergeVars>>

\* The process is killed, in a call or in `open`: the OS keeps what it had, and the lock
\* is released with the descriptor.
Kill ==
    /\ lock # None /\ "kill" \in Crashes /\ crashes < MaxCrashes
    /\ crashes' = crashes + 1
    /\ \E n \in KeptAfter("kill") :
          files' = [f \in DOMAIN files |->
                       IF f \notin linked THEN files[f]
                       ELSE [entries |-> SubSeq(files[f].entries, 1, n[f]),
                             flushed |-> n[f], synced |-> files[f].synced]]
    /\ Ended
    /\ clean' = FALSE
    /\ pc' = [t \in Threads |-> "idle"]
    /\ arg' = [t \in Threads |-> NoArg]
    /\ held' = [t \in Threads |-> {}]
    /\ merging' = [t \in Threads |-> NoMerge] /\ at_risk' = {}
    /\ UNCHANGED <<history, linked, active_id, next_file_id, promise, faults>>

-----------------------------------------------------------------------------
(* Inside.                                                                   *)

\* A call of the session.
SessionStep ==
    /\ InSession
    /\ \/ \E t \in Threads, k \in Keys : (Put(t, k) \/ DeleteCheck(t, k)) /\ UNCHANGED mergeVars
       \/ \E t \in Threads : (DeleteAppend(t) \/ UpdateKeydir(t)) /\ UNCHANGED mergeVars
       \/ \E t \in Threads : MergeStep(t)
    /\ UNCHANGED handleVars

\* get on a read-only handle: the keydir never changes, a file is opened when first read
\* and then kept open.  A file that is gone is an error and changes nothing.
View(h, k) ==
    /\ h \in Viewers /\ step[h] = "open"
    /\ found[h][k] # None
    /\ found[h][k].file_id \in linked \ cached[h]
    /\ cached' = [cached EXCEPT ![h] = @ \cup {found[h][k].file_id}]
    /\ UNCHANGED <<allVars, lock, step, left, found, next_id, during, clean>>

HNext ==
    \/ \E h \in Handles :
          AcquireLock(h) \/ Discover(h) \/ RecoverNext(h) \/ Recovered(h)
          \/ CreateAndServe(h)
    \/ \E h \in Handles, k \in Keys : View(h, k)
    \/ SessionStep \/ Close \/ Drop \/ Kill

HSpec == HInit /\ [][HNext]_hVars

-----------------------------------------------------------------------------
(* Properties.                                                               *)

\* The number of the last write of k among the first n; 0 if it deletes k or there is none.
LastOf(k, n) ==
    LET W == {i \in 1..n : history[i].key = k}
    IN  IF W = {} \/ history[Max(W)].tomb THEN 0 ELSE Max(W)

\* A session that is open sees, for every key, the last write of all sessions before it and
\* of its own, whether they closed, were dropped or were killed in a put or in a merge
\* (bin/kv.rs 41-45: an add followed by a get does find the key).
SessionSeesAll ==
    InSession /\ Resting =>
        \A k \in Keys : Visible(k) = LastOf(k, Len(history))

\* A read-only handle opened beside a session that puts, deletes and merges in one thread
\* shows the store as it was at one moment between the beginning and the end of its `open`,
\* unless `open` failed: a merge that is half done neither hides a key nor brings one back.
SnapshotIsConsistent ==
    \A h \in Viewers : step[h] = "open" =>
        \E n \in during[h].from..during[h].to :
            \A k \in Keys : VersionAt(found[h][k]) = LastOf(k, n)

\* When no session is open and every one was closed, a power loss takes nothing: all that
\* they wrote, copied by merges or not, is recovered.
ClosedIsDurable ==
    lock = None /\ clean =>
        \A n \in KeptAfter("power"), k \in Keys : RecoveredVersion(n, k) = LastOf(k, Len(history))

-----------------------------------------------------------------------------
(* What the documentation says and some interleaving refutes.                *)

\* lock.rs 5-6, engine.rs 201-203: read-only opens can coexist with the single writer.
ViewerCanRead ==
    \A h \in Viewers : step[h] = "open" =>
        \A k \in Keys : found[h][k] # None => found[h][k].file_id \in linked \cup cached[h]

\* api.rs 133-135: close is equivalent to dropping the handle, but for the error.
DroppedIsDurable ==
    lock = None =>
        \A n \in KeptAfter("power"), k \in Keys : RecoveredVersion(n, k) = LastOf(k, Len(history))
=============================================================================
