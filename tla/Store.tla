-------------------------------- MODULE Store --------------------------------
(* The engine (src/engine.rs): put, delete, get, fold and sync on the keydir *)
(* and the data files, the crash of the process or of the machine, and the   *)
(* reopening that recovers from it.  Module Merge adds compaction.           *)
(*                                                                           *)
(* A call is cut where another thread may get in: between its critical       *)
(* sections on the active file, on the keydir and on the cache of read       *)
(* handles.  Appending, with the rotation it may trigger, is one section     *)
(* under the active lock; the group commit that follows it is abstracted to  *)
(* its effect, which module GroupCommit establishes: everything up to the    *)
(* caller's entry is on the medium.                                          *)
(*                                                                           *)
(* `history` lists the writes in the order they were appended.  An entry in  *)
(* a file is the number of its write: a copy made by merge has the same      *)
(* number.  A file keeps its entries after it is unlinked, for the handles   *)
(* that are still open on it.                                                *)
EXTENDS Recovery

CONSTANTS
    Threads,                    \* the callers
    Writers, Readers, Syncers,  \* those that put and delete, get and fold, call sync
    MayOverlap,   \* <<t, u>> \in MayOverlap: u may start a call while t is inside one
    SyncOnPut,    \* Options::should_sync_on_put
    MaxFileSize,  \* Options::max_file_size, in entries
    Faults,       \* the I/O errors that happen, of {"write", "remove", "merge"}
    MaxWrites,    \* bound: writes in a behaviour
    MaxFaults,    \* bound: I/O errors in a behaviour
    Crashes,      \* the crashes that happen, of {"kill", "power"}
    MaxCrashes    \* bound: crashes in a behaviour

ASSUME StoreAssumption ==
    /\ Writers \cup Readers \cup Syncers \subseteq Threads
    /\ MayOverlap \subseteq Threads \X Threads
    /\ SyncOnPut \in BOOLEAN
    /\ MaxFileSize \in Nat \ {0}
    /\ MaxWrites \in Nat /\ MaxFaults \in Nat /\ MaxCrashes \in Nat

VARIABLES
    history,       \* every write ever appended, with its key and whether it deletes
    files,         \* files[f]: entries written, how many reached the OS, how many the medium
    linked,        \* the ids whose data file is in the directory
    active_id,     \* the active file
    next_file_id,  \* Engine::next_file_id
    keydir,        \* SharedKeydir
    readers,       \* DataFileSet::readers: the ids with a cached handle
    pc,            \* pc[t]: "idle", or where t is in its call
    arg,           \* arg[t]: the write t is performing
    held,          \* held[t]: the keydir entries t took and has not read yet
    promise,       \* promise[k]: the write of k the program was told is durable
    faults, crashes

diskVars == <<history, files, linked, active_id, next_file_id>>
memVars  == <<keydir, readers, pc, arg, held>>
vars     == <<diskVars, memVars, promise, faults, crashes>>

EmptyFile == [entries |-> <<>>, flushed |-> 0, synced |-> 0]
NoArg     == [key |-> None, ver |-> 0, loc |-> None]

-----------------------------------------------------------------------------
(* Files.                                                                    *)

\* ActiveFile::append: in the file and flushed to the OS before it returns.
WithEntry(fs, f, v) ==
    [fs EXCEPT ![f] = [entries |-> Append(@.entries, v),
                       flushed |-> Len(@.entries) + 1,
                       synced  |-> @.synced]]

\* Mutants of WithSync: the fsync is forgotten; the flush before it is.
WithFlushOnly(fs, f) ==
    [fs EXCEPT ![f] = [entries |-> @.entries,
                       flushed |-> Len(@.entries),
                       synced  |-> @.synced]]
WithSyncUnflushed(fs, f) ==
    [fs EXCEPT ![f] = [entries |-> @.entries,
                       flushed |-> @.flushed,
                       synced  |-> Len(@.entries)]]

\* ActiveFile::sync.
WithSync(fs, f) ==
    [fs EXCEPT ![f] = [entries |-> @.entries,
                       flushed |-> Len(@.entries),
                       synced  |-> Len(@.entries)]]

\* ActiveFile::create on an id nobody has used.
WithFile(fs, f) == [g \in DOMAIN fs \cup {f} |-> IF g \in DOMAIN fs THEN fs[g] ELSE EmptyFile]

Full(fs, f) == Len(fs[f].entries) >= MaxFileSize

\* Mutant of RotateActive: the new id is not taken from the shared counter.
RotateToNextId(fs) ==
    /\ files' = WithFile(WithSync(fs, active_id), active_id + 1)
    /\ linked' = linked \cup {active_id + 1}
    /\ active_id' = active_id + 1
    /\ UNCHANGED next_file_id

\* Rotation: sync the outgoing file, then a fresh one takes its place.
RotateActive(fs) ==
    /\ files' = WithFile(WithSync(fs, active_id), next_file_id)
    /\ linked' = linked \cup {next_file_id}
    /\ active_id' = next_file_id
    /\ next_file_id' = next_file_id + 1

\* The write a location holds; 0 for none.
VersionAt(loc) == IF loc = None THEN 0 ELSE files[loc.file_id].entries[loc.value_pos]

Visible(k) == VersionAt(keydir[k])

\* The directory as `open` would find it if each file kept n[f] entries.
Disk(n) == [f \in DOMAIN n |->
               [entries |-> [i \in 1..n[f] |-> history[files[f].entries[i]]], bad |-> {},
                hint |-> None]]

\* What a crash may leave: at least what the OS has (kill) or what the medium has (power),
\* at most what was written.
KeptAfter(kind) ==
    LET floor(f) == IF kind = "kill" THEN files[f].flushed ELSE files[f].synced
        all(f)   == Len(files[f].entries)
        cut      == {f \in linked : floor(f) < all(f)}
        sizes    == UNION {floor(f)..all(f) : f \in cut}
        cuts     == {c \in [cut -> sizes] : \A f \in cut : c[f] \in floor(f)..all(f)}
    IN  {[f \in linked |-> IF f \in cut THEN c[f] ELSE all(f)] : c \in cuts}

\* The write of k that a reopening finds.
RecoveredVersion(n, k) == VersionAt(Recover(Disk(n))[k])

-----------------------------------------------------------------------------
Init ==
    /\ history = <<>>
    /\ files = [f \in {0} |-> EmptyFile]
    /\ linked = {0}
    /\ active_id = 0
    /\ next_file_id = 1
    /\ keydir = EmptyKeydir
    /\ readers = {}
    /\ pc = [t \in Threads |-> "idle"]
    /\ arg = [t \in Threads |-> NoArg]
    /\ held = [t \in Threads |-> {}]
    /\ promise = [k \in Keys |-> [ver |-> 0, tomb |-> TRUE]]
    /\ faults = 0 /\ crashes = 0

\* The callers decide which calls overlap; the engine's own locks order the rest.
MayStart(t) ==
    /\ pc[t] = "idle"
    /\ \A u \in Threads : pc[u] # "idle" => <<u, t>> \in MayOverlap

Fault(kind) == kind \in Faults /\ faults < MaxFaults /\ faults' = faults + 1

Return(t) == /\ pc' = [pc EXCEPT ![t] = "idle"]
             /\ arg' = [arg EXCEPT ![t] = NoArg]

-----------------------------------------------------------------------------
(* put and delete.                                                           *)

\* The rotation fails, at its fsync or at the creation of the next file, whose id is spent.
RotationFails(fs) ==
    /\ Fault("write")
    /\ \/ files' = fs /\ UNCHANGED next_file_id
       \/ files' = WithSync(fs, active_id) /\ next_file_id' = next_file_id + 1
    /\ UNCHANGED <<linked, active_id>>

\* Engine::append up to the release of the active lock.  When the rotation fails the
\* caller gets an error, with its entry in the file.
AppendEntry(t, k, tomb) ==
    LET v   == Len(history) + 1
        fs  == WithEntry(files, active_id, v)
        loc == [file_id |-> active_id, value_pos |-> Len(fs[active_id].entries)]
    IN  /\ Len(history) < MaxWrites
        /\ history' = Append(history, [key |-> k, tomb |-> tomb])
        /\ \/ /\ IF Full(fs, active_id)
                 THEN RotateActive(fs)
                 ELSE files' = fs /\ UNCHANGED <<linked, active_id, next_file_id>>
              /\ pc' = [pc EXCEPT ![t] = IF SyncOnPut THEN "sync" ELSE "update"]
              /\ arg' = [arg EXCEPT ![t] = [key |-> k, ver |-> v, loc |-> loc]]
              /\ UNCHANGED faults
           \/ Full(fs, active_id) /\ RotationFails(fs) /\ Return(t)
        /\ UNCHANGED <<keydir, readers, held, promise, crashes>>

Put(t, k) == t \in Writers /\ MayStart(t) /\ AppendEntry(t, k, FALSE)

\* Engine::delete: only a key that is in the keydir gets a tombstone.
DeleteCheck(t, k) ==
    /\ t \in Writers /\ MayStart(t)
    /\ Len(history) < MaxWrites
    /\ keydir[k] # None
    /\ pc' = [pc EXCEPT ![t] = "delete"]
    /\ arg' = [arg EXCEPT ![t].key = k]
    /\ UNCHANGED <<diskVars, keydir, readers, held, promise, faults, crashes>>

DeleteAppend(t) == pc[t] = "delete" /\ AppendEntry(t, arg[t].key, TRUE)

\* group_commit.commit, by what it guarantees.  Its error leaves the entry in the file.
SyncWrite(t) ==
    LET f == arg[t].loc.file_id
        p == arg[t].loc.value_pos
    IN  /\ pc[t] = "sync"
        /\ \/ /\ files' = [files EXCEPT ![f].synced = IF p > @ THEN p ELSE @]
              /\ pc' = [pc EXCEPT ![t] = "update"]
              /\ UNCHANGED <<arg, faults>>
           \/ Fault("write") /\ Return(t) /\ UNCHANGED files
        /\ UNCHANGED <<history, linked, active_id, next_file_id, keydir, readers, held,
                       promise, crashes>>

\* What put and delete leave in the keydir for their write.
KeydirEntry(w) == IF history[w.ver].tomb THEN None ELSE w.loc

\* keydir.insert or keydir.remove, in its own critical section, and Ok to the caller.
UpdateKeydir(t) ==
    LET w == arg[t] IN
    /\ pc[t] = "update"
    /\ keydir' = [keydir EXCEPT ![w.key] = KeydirEntry(w)]
    /\ promise' = IF SyncOnPut
                  THEN [promise EXCEPT ![w.key] = [ver |-> w.ver, tomb |-> history[w.ver].tomb]]
                  ELSE promise
    /\ Return(t)
    /\ UNCHANGED <<diskVars, readers, held, faults, crashes>>

-----------------------------------------------------------------------------
(* get, fold and sync.                                                       *)

\* get takes one key's entry, fold a snapshot of them all, under the keydir's read lock.
TakeEntries(t, K) ==
    LET found == {<<k, keydir[k]>> : k \in {j \in K : keydir[j] # None}} IN
    /\ t \in Readers /\ MayStart(t)
    /\ found # {}
    /\ held' = [held EXCEPT ![t] = found]
    /\ pc' = [pc EXCEPT ![t] = "read"]
    /\ UNCHANGED <<diskVars, keydir, readers, arg, promise, faults, crashes>>

CanOpen(f) == f \in readers \/ f \in linked

\* DataFileSet::read_at for one of them: a cached handle, or open and cache one.  A file
\* that is gone is an error that ends the call.
ReadValue(t, r) ==
    LET f == r[2].file_id
        left == IF CanOpen(f) THEN held[t] \ {r} ELSE {}
    IN  /\ pc[t] = "read" /\ r \in held[t]
        /\ readers' = IF CanOpen(f) THEN readers \cup {f} ELSE readers
        /\ held' = [held EXCEPT ![t] = left]
        /\ pc' = [pc EXCEPT ![t] = IF left = {} THEN "idle" ELSE "read"]
        /\ UNCHANGED <<diskVars, keydir, arg, promise, faults, crashes>>

\* Engine::sync: from here on the program counts on everything it can see.
Sync(t) ==
    /\ t \in Syncers /\ MayStart(t)
    /\ files' = WithSync(files, active_id)
    /\ promise' = [k \in Keys |-> IF keydir[k] = None
                                  THEN [ver |-> Len(history), tomb |-> TRUE]
                                  ELSE [ver |-> Visible(k), tomb |-> FALSE]]
    /\ UNCHANGED <<history, linked, active_id, next_file_id, memVars, faults, crashes>>

-----------------------------------------------------------------------------
(* Crash and open.                                                           *)

\* The process dies with every call in flight, or the machine loses power; then `open`
\* discovers, recovers and starts a fresh active file above every id it found.
CrashAndOpen(kind) ==
    \E n \in KeptAfter(kind) :
        LET next_id == Max(linked) + 1
            kept(f) == [entries |-> SubSeq(files[f].entries, 1, n[f]),
                        flushed |-> n[f],
                        synced  |-> IF kind = "kill" THEN files[f].synced ELSE n[f]]
        IN  /\ kind \in Crashes /\ crashes < MaxCrashes
            /\ crashes' = crashes + 1
            /\ files' = WithFile([f \in linked |-> kept(f)], next_id)
            /\ linked' = linked \cup {next_id}
            /\ active_id' = next_id
            /\ next_file_id' = next_id + 1
            /\ keydir' = Recover(Disk(n))
            /\ readers' = {}
            /\ pc' = [t \in Threads |-> "idle"]
            /\ arg' = [t \in Threads |-> NoArg]
            /\ held' = [t \in Threads |-> {}]
            /\ UNCHANGED <<history, promise, faults>>

-----------------------------------------------------------------------------
Snapshots  == {{k} : k \in Keys} \cup {Keys}
CrashKinds == {"kill", "power"}

Next ==
    \/ \E t \in Threads, k \in Keys : Put(t, k) \/ DeleteCheck(t, k)
    \/ \E t \in Threads : DeleteAppend(t) \/ SyncWrite(t) \/ UpdateKeydir(t) \/ Sync(t)
    \/ \E t \in Threads, K \in Snapshots : TakeEntries(t, K)
    \/ \E t \in Threads : \E r \in held[t] : ReadValue(t, r)
    \/ \E kind \in CrashKinds : CrashAndOpen(kind)

Spec == Init /\ [][Next]_vars
=============================================================================
