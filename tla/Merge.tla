-------------------------------- MODULE Merge --------------------------------
(* Compaction (src/merge), run by any thread of Mergers against the store of *)
(* module Store while other calls go on.  One step is one access to what it  *)
(* shares with them: the id counter, the keydir (one lookup per entry, one   *)
(* compare-and-swap per repoint), the directory (one removal), the cache of  *)
(* handles and the active file.  Input files are a set and are always taken  *)
(* in ascending order of id.  The hint file of an output holds what a scan   *)
(* of it would find and is guarded by its CRC; it is left to Recovery.       *)
EXTENDS Store

CONSTANTS Mergers,     \* the threads that call merge
          FlushBatch,  \* MERGE_FLUSH_BATCH_SIZE
          MaxFiles     \* bound: a merge starts only while next_file_id is below it

ASSUME MergeAssumption ==
    /\ Mergers \subseteq Threads
    /\ FlushBatch \in Nat \ {0}
    /\ MaxFiles \in Nat

VARIABLES
    merging,  \* merging[t]: the locals of t's merge
    at_risk   \* locations of puts caught, at some merge's start, before their keydir update

mergeVars == <<merging, at_risk>>
allVars   == <<vars, mergeVars>>

NoMerge == [inputs  |-> {},    \* input_ids
            rest    |-> {},    \* those of them still to read, then still to remove
            file    |-> 0,     \* the input being copied
            at      |-> 1,     \* its next entry
            upto    |-> 0,     \* its last entry
            out     |-> 0,     \* MergeOutputWriter::current_data
            since   |-> 0,     \* pending_since_flush
            queue   |-> <<>>,  \* PendingQueue
            highest |-> 0]     \* highest_output_id

MergePCs == {"open", "copy", "repoint", "repoint_last", "remove", "forget", "restore"}

MergeInit == Init /\ merging = [t \in Threads |-> NoMerge] /\ at_risk = {}

SetMerge(t, m) == merging' = [merging EXCEPT ![t] = m]
Goto(t, l)     == pc' = [pc EXCEPT ![t] = l]
EndMerge(t)    == Goto(t, "idle") /\ SetMerge(t, NoMerge)

-----------------------------------------------------------------------------
\* Mutant of InputIds: the active file is taken too.
InputIdsWithActive == {f \in linked : f <= active_id}

\* collect_input_ids: every data file below the active one.
InputIds == {f \in linked : f < active_id}

\* Puts past their append and short of their keydir update.
InFlight == {arg[u].loc : u \in {w \in Threads : pc[w] \in {"sync", "update"}}}

MergeStart(t) ==
    /\ t \in Mergers /\ MayStart(t)
    /\ next_file_id < MaxFiles
    /\ InputIds # {}
    /\ SetMerge(t, [NoMerge EXCEPT !.inputs = InputIds, !.rest = InputIds])
    /\ at_risk' = at_risk \cup InFlight
    /\ Goto(t, "open")
    /\ UNCHANGED <<diskVars, keydir, readers, arg, held, promise, faults, crashes>>

\* MergeOutputWriter::new: the first output file.
MergeOpen(t) ==
    /\ pc[t] = "open"
    /\ files' = WithFile(files, next_file_id)
    /\ linked' = linked \cup {next_file_id}
    /\ next_file_id' = next_file_id + 1
    /\ SetMerge(t, [merging[t] EXCEPT !.out = next_file_id, !.highest = next_file_id])
    /\ Goto(t, "copy")
    /\ UNCHANGED <<history, active_id, keydir, readers, arg, held, promise, faults, crashes,
                   at_risk>>

\* Mutant of FlushOutput: the batch is published unflushed.
FlushNothing(fs, out) == fs

\* ActiveFile::flush of the output.
FlushOutput(fs, out) == [fs EXCEPT ![out].flushed = Len(fs[out].entries)]

\* read_all_entries of the next input; a file that is gone ends the merge with an error,
\* and what the output's buffer holds is flushed as the writer is dropped.
MergeRead(t) ==
    LET m == merging[t]
        f == Min(m.rest)
    IN  /\ pc[t] = "copy" /\ m.at > m.upto /\ m.rest # {}
        /\ IF f \in linked
           THEN /\ SetMerge(t, [m EXCEPT !.rest = @ \ {f}, !.file = f, !.at = 1,
                                         !.upto = files[f].flushed])
                /\ UNCHANGED <<files, pc>>
           ELSE EndMerge(t) /\ files' = FlushOutput(files, m.out)
        /\ UNCHANGED <<history, linked, active_id, next_file_id, keydir, readers, arg, held,
                       promise, faults, crashes, at_risk>>

\* The entry a merge is at, and whether it is copied: no tombstone, and the keydir points
\* at exactly this place.
EntryAt(m) == files[m.file].entries[m.at]
IsLive(m)  == /\ ~history[EntryAt(m)].tomb
              /\ keydir[history[EntryAt(m)].key] = [file_id |-> m.file, value_pos |-> m.at]

\* rotate_or_flush of a full output, on the files after the entry was written to it.
RotateOutput(fs, out) == WithFile(WithSync(fs, out), next_file_id)

\* append_buffered: in the file's buffer, not yet with the OS.
WithBuffered(fs, f, v) == [fs EXCEPT ![f].entries = Append(@, v)]

\* Mutant of RaisedTo: the maximum is not carried over.
NeverRaised(highest, f) == highest

\* highest_output_id after the writer moved on to file f.
RaisedTo(highest, f) == IF f > highest THEN f ELSE highest

\* PendingQueue::queue.
Queued(queue, key, old, new) == Append(queue, [key |-> key, old |-> old, new |-> new])

\* One turn of the loop in copy_forward_live_file_entries.
MergeEntry(t) ==
    LET m   == merging[t]
        k   == history[EntryAt(m)].key
        old == [file_id |-> m.file, value_pos |-> m.at]
        fs  == WithBuffered(files, m.out, EntryAt(m))
        new == [file_id |-> m.out, value_pos |-> Len(fs[m.out].entries)]
        copied == [m EXCEPT !.at = @ + 1, !.since = @ + 1,
                            !.queue = Queued(@, k, old, new)]
    IN  /\ pc[t] = "copy" /\ m.at <= m.upto
        /\ \/ /\ ~IsLive(m)
              /\ SetMerge(t, [m EXCEPT !.at = @ + 1])
              /\ UNCHANGED <<files, linked, next_file_id, pc>>
           \/ /\ IsLive(m) /\ Full(fs, m.out)
              /\ files' = RotateOutput(fs, m.out)
              /\ linked' = linked \cup {next_file_id}
              /\ next_file_id' = next_file_id + 1
              /\ SetMerge(t, [copied EXCEPT !.out = next_file_id, !.since = 0,
                                            !.highest = RaisedTo(@, next_file_id)])
              /\ Goto(t, "repoint")
           \/ /\ IsLive(m)
              /\ ~Full(fs, m.out) /\ copied.since >= FlushBatch
              /\ files' = FlushOutput(fs, m.out)
              /\ SetMerge(t, [copied EXCEPT !.since = 0])
              /\ Goto(t, "repoint")
              /\ UNCHANGED <<linked, next_file_id>>
           \/ /\ IsLive(m)
              /\ ~Full(fs, m.out) /\ copied.since < FlushBatch
              /\ files' = fs
              /\ SetMerge(t, copied)
              /\ UNCHANGED <<linked, next_file_id, pc>>
        /\ UNCHANGED <<history, active_id, keydir, readers, arg, held, promise, faults, crashes,
                       at_risk>>

\* Mutant of Repointed: no comparison before the swap.
AlwaysRepointed(k, old, new) == [keydir EXCEPT ![k] = new]

\* cas_repoint.
Repointed(k, old, new) == [keydir EXCEPT ![k] = IF @ = old THEN new ELSE @]

\* apply_pending_repoints, one queued entry at a time; back to the loop, or on to removal.
MergeRepoint(t) ==
    LET m == merging[t]
        q == Head(m.queue)
    IN  /\ pc[t] \in {"repoint", "repoint_last"}
        /\ IF m.queue # <<>>
           THEN /\ keydir' = Repointed(q.key, q.old, q.new)
                /\ SetMerge(t, [m EXCEPT !.queue = Tail(@)])
                /\ UNCHANGED pc
           ELSE /\ Goto(t, IF pc[t] = "repoint" THEN "copy" ELSE "remove")
                /\ UNCHANGED <<keydir, merging>>
        /\ UNCHANGED <<diskVars, readers, arg, held, promise, faults, crashes, at_risk>>

\* MergeOutputWriter::finish: the last output is fsynced before anything is removed.
MergeFinish(t) ==
    LET m == merging[t] IN
    /\ pc[t] = "copy" /\ m.at > m.upto /\ m.rest = {}
    /\ files' = WithSync(files, m.out)
    /\ SetMerge(t, [m EXCEPT !.rest = m.inputs])
    /\ Goto(t, "repoint_last")
    /\ UNCHANGED <<history, linked, active_id, next_file_id, keydir, readers, arg, held,
                   promise, faults, crashes, at_risk>>

\* Mutant of NextToRemove: the newest first.
NewestToRemove(rest) == Max(rest)

\* The order in which remove_old_input_files takes the inputs.
NextToRemove(rest) == Min(rest)

\* fs::remove_file on the data file; its error is ignored.
MergeRemove(t) ==
    LET f == NextToRemove(merging[t].rest) IN
    /\ pc[t] = "remove"
    /\ \/ linked' = linked \ {f} /\ UNCHANGED faults
       \/ f \in linked /\ Fault("remove") /\ UNCHANGED linked
    /\ Goto(t, "forget")
    /\ UNCHANGED <<history, files, active_id, next_file_id, keydir, readers, arg, held,
                   promise, crashes, mergeVars>>

\* Mutant of WithoutHandle: the cache is left alone.
WithHandle(f) == readers

\* DataFileSet::forget.
WithoutHandle(f) == readers \ {f}

\* The handle of the removed file is dropped, then the next input or the last phase.
MergeForget(t) ==
    LET m == merging[t]
        f == NextToRemove(m.rest)
    IN  /\ pc[t] = "forget"
        /\ readers' = WithoutHandle(f)
        /\ SetMerge(t, [m EXCEPT !.rest = @ \ {f}])
        /\ Goto(t, IF m.rest = {f} THEN "restore" ELSE "remove")
        /\ UNCHANGED <<diskVars, keydir, arg, held, promise, faults, crashes, at_risk>>

\* Whether the output caught up with the active file.
MustRestore(m) == active_id <= m.highest

\* restore_active_file, under the active lock.
MergeRestore(t) ==
    /\ pc[t] = "restore"
    /\ IF MustRestore(merging[t])
       THEN RotateActive(files)
       ELSE UNCHANGED <<files, linked, active_id, next_file_id>>
    /\ EndMerge(t)
    /\ UNCHANGED <<history, keydir, readers, arg, held, promise, faults, crashes, at_risk>>

\* open_output fails on the data file, or on the hint file with the data file there.
OutputFails(fs) ==
    /\ next_file_id' = next_file_id + 1
    /\ \/ files' = fs /\ UNCHANGED linked
       \/ files' = WithFile(fs, next_file_id) /\ linked' = linked \cup {next_file_id}

\* A `?` in the copying: before or after an entry reached the buffer, which is flushed when
\* the writer is dropped; or past the fsync of a full or of the last output.
CopyFails(m) ==
    LET live == m.at <= m.upto /\ IsLive(m)
        fs   == IF live THEN WithBuffered(files, m.out, EntryAt(m)) ELSE files
        done == IF live THEN Full(fs, m.out) ELSE m.at > m.upto /\ m.rest = {}
    IN  \/ files' \in {FlushOutput(files, m.out), FlushOutput(fs, m.out)}
           /\ UNCHANGED <<linked, next_file_id>>
        \/ done /\ files' = WithSync(fs, m.out) /\ UNCHANGED <<linked, next_file_id>>
        \/ live /\ done /\ OutputFails(WithSync(fs, m.out))

\* Any `?` on the way: the outputs stay as they are, and whatever was not repointed or
\* restored is not.
MergeFails(t) ==
    LET m == merging[t] IN
    /\ \/ pc[t] = "open" /\ OutputFails(files)
       \/ pc[t] = "copy" /\ CopyFails(m)
       \/ /\ pc[t] = "restore" /\ MustRestore(m) /\ UNCHANGED linked
          /\ \/ UNCHANGED <<files, next_file_id>>
             \/ files' = WithSync(files, active_id) /\ next_file_id' = next_file_id + 1
    /\ Fault("merge")
    /\ EndMerge(t)
    /\ UNCHANGED <<history, active_id, keydir, readers, arg, held, promise, crashes, at_risk>>

MergeStep(t) ==
    \/ MergeStart(t) \/ MergeOpen(t) \/ MergeRead(t) \/ MergeEntry(t) \/ MergeRepoint(t)
    \/ MergeFinish(t) \/ MergeRemove(t) \/ MergeForget(t) \/ MergeRestore(t)
    \/ MergeFails(t)

\* Every call of the store leaves the merges alone; a crash takes them with it.
MergeNext ==
    \/ \E t \in Threads, k \in Keys : (Put(t, k) \/ DeleteCheck(t, k)) /\ UNCHANGED mergeVars
    \/ \E t \in Threads :
          /\ DeleteAppend(t) \/ SyncWrite(t) \/ UpdateKeydir(t) \/ Sync(t)
          /\ UNCHANGED mergeVars
    \/ \E t \in Threads, K \in Snapshots : TakeEntries(t, K) /\ UNCHANGED mergeVars
    \/ \E t \in Threads : \E r \in held[t] : ReadValue(t, r) /\ UNCHANGED mergeVars
    \/ \E kind \in CrashKinds :
          CrashAndOpen(kind) /\ merging' = [t \in Threads |-> NoMerge] /\ at_risk' = {}
    \/ \E t \in Threads : MergeStep(t)

MergeSpec == MergeInit /\ [][MergeNext]_allVars

-----------------------------------------------------------------------------
(* Properties.                                                               *)

\* Every variable keeps its type: locations point into files that were written, counts of
\* flushed and synced entries are ordered, a merge's files exist.
TypeOK ==
    /\ history \in Seq([key : Keys, tomb : BOOLEAN])
    /\ \A f \in DOMAIN files :
          /\ files[f].entries \in Seq(1..Len(history))
          /\ files[f].synced <= files[f].flushed
          /\ files[f].flushed <= Len(files[f].entries)
    /\ linked \subseteq DOMAIN files
    /\ active_id \in linked
    /\ next_file_id \in Nat
    /\ keydir \in [Keys -> Location \cup {None}]
    /\ readers \subseteq DOMAIN files
    /\ pc \in [Threads -> MergePCs \cup {"idle", "delete", "sync", "update", "read"}]
    /\ \A t \in Threads : pc[t] \in MergePCs => merging[t].inputs \subseteq DOMAIN files

MergeInFlight == \E t \in Threads : pc[t] \in MergePCs

Writing == {t \in Threads : pc[t] \in {"sync", "update"}}

\* A process killed now and reopened shows, for every key, what the handle showed; only a
\* key whose write is in flight may already show that write.  (recovery.rs against the
\* keydir that engine.rs and merge/mod.rs maintain.)
RecoverMatchesKeydir ==
    \A n \in KeptAfter("kill") : \A k \in Keys :
        LET found == RecoveredVersion(n, k) IN
        \/ found = Visible(k)
        \/ \E t \in Writing : arg[t].key = k /\ found = VersionAt(KeydirEntry(arg[t]))

\* A machine that loses power now still has, for every key, the write the program was told
\* is durable, by a synced put or delete or by `sync`, or a later one.
PromiseKept ==
    \A n \in KeptAfter("power") : \A k \in Keys :
        LET found   == RecoveredVersion(n, k)
            deleted == \E i \in promise[k].ver + 1..Len(history) :
                           history[i].key = k /\ history[i].tomb
        IN  IF found = 0 THEN promise[k].tomb \/ deleted
            ELSE IF promise[k].tomb THEN found > promise[k].ver
            ELSE found >= promise[k].ver

\* Outside a merge, and if no I/O error happened, the active file has the largest id in
\* the directory, so that recovery's ascending scan ends with the newest writes
\* (merge/mod.rs 21-24).
ActiveIsNewest == ~MergeInFlight /\ faults = 0 => active_id = Max(linked)

\* The keydir never points at bytes that are still in a merge's output buffer.
PublishedIsFlushed ==
    \A k \in Keys : keydir[k] # None =>
        keydir[k].value_pos <= files[keydir[k].file_id].flushed

\* The keydir points into the directory, or else at a put that some merge found between
\* its append and its keydir update.
DanglingWasInFlight ==
    \A k \in Keys : keydir[k] # None /\ keydir[k].file_id \notin linked => keydir[k] \in at_risk

\* Repointing moves keys, never values: a put that got in first is not overwritten by
\* the copy of what it replaced (cas_repoint).
RepointKeepsValues ==
    [][\A t \in Threads :
          pc[t] \in {"repoint", "repoint_last"} /\ merging'[t] # merging[t] /\ crashes' = crashes
              => \A k \in Keys : Visible(k)' = Visible(k)]_allVars

\* A cached handle does not outlive its file: only the file being removed this moment may
\* still have one (DataFileSet::forget after remove_file).
NoLeakedHandle ==
    readers \subseteq linked \cup {NextToRemove(merging[t].rest) :
                                      t \in {u \in Threads : pc[u] = "forget"}}

\* Nobody appends to a file that exists already, whoever creates it and whatever was removed
\* or left behind (one counter for rotation, merge and open).
NewFileIsFresh ==
    [][/\ active_id' # active_id => active_id' \notin DOMAIN files
       /\ \A t \in Threads : merging'[t].out \notin {0, merging[t].out}
                                => merging'[t].out \notin DOMAIN files]_allVars

\* Seen through the keydir the store is the abstract map, a merge is invisible, and a
\* crash loses nothing.
Map     == [k \in Keys |-> Visible(k)]
Pending == {<<arg[t].key, VersionAt(KeydirEntry(arg[t]))>> : t \in Writing}
Abstract == INSTANCE KvStore WITH map <- Map, writing <- Pending, Values <- 0..MaxWrites
ImplementsKvStore == Abstract!Spec

-----------------------------------------------------------------------------
(* What the documentation says and some interleaving refutes.                *)

\* api.rs 125-127: merge is safe beside put, get and delete; a key written concurrently
\* is never lost.
NothingDangles == \A k \in Keys : keydir[k] # None => keydir[k].file_id \in linked

\* merge/mod.rs 271-275: old inputs are removed when nothing in the keydir points at them.
RemovesOnlyUnreferenced ==
    \A t \in Threads : pc[t] = "remove" =>
        \A k \in Keys : keydir[k] # None => keydir[k].file_id # NextToRemove(merging[t].rest)

\* api.rs 125-126, for get: the entry it took can be read.
GetFindsItsFile ==
    \A t \in Threads : \A r \in held[t] : Cardinality(held[t]) = 1 => CanOpen(r[2].file_id)
=============================================================================
