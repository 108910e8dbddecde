------------------------------ MODULE ActiveFile ------------------------------
(* One data file while it is written (src/datafile.rs), cell by cell: by the *)
(* engine, which appends one entry and flushes it, or by a merge, which      *)
(* buffers several and writes a hint file beside them                        *)
(* (src/merge/output_writer.rs).  The calls come one at a time, under the    *)
(* active lock; only the fsync of a cloned handle runs beside them.          *)
(* std::io::BufWriter is modelled system call by system call: each may write *)
(* any part of what it is given and the next may fail.                       *)
EXTENDS Format, FiniteSets

CONSTANTS Entries,     \* what is appended: a key, a value, a tombstone flag and a timestamp
          Capacity,    \* of the BufWriter, in cells
          FaultKinds,  \* the calls that may fail, of {"flush", "direct", "fsync"}
          MaxEntries,  \* bound: appends
          MaxFaults    \* bound: failures

ASSUME ActiveFileAssumption ==
    /\ {Capacity, MaxEntries, MaxFaults} \subseteq Nat
    /\ \A e \in Entries : e.key \in Seq(ToSet(e.key)) /\ e.value \in Seq(ToSet(e.value))

VARIABLES
    user,      \* "engine" or "merge"
    file,      \* what the OS has
    buffer,    \* ActiveFile::writer's buffer
    offset,    \* ActiveFile::offset
    synced,    \* how many cells of the file are on the medium
    hint,      \* what was written to the hint file
    pc,        \* where the call in progress is, "idle" between calls, "closed" after the last
    op,        \* which call it is
    todo,      \* the encoded entry it has yet to hand to the buffer or to the file
    appended,  \* every entry that reached the buffer or the file, with the position returned
    published, \* those of them that the caller may point the keydir at
    fd,        \* None, or the offset when a handle was cloned for an fsync of its own
    acked,     \* the offset that a successful fsync was asked to cover
    faults

fileVars == <<file, buffer, offset, synced, hint>>
callVars == <<pc, op, todo>>
histVars == <<appended, published, fd, acked, faults>>
vars     == <<user, fileVars, callVars, histVars>>

None  == -1
Spare == Capacity - Len(buffer)

NoEntry == [cells |-> <<>>, entry |-> None]

Init ==
    /\ user \in {"engine", "merge"}
    /\ file = <<>> /\ buffer = <<>> /\ offset = 0 /\ synced = 0 /\ hint = <<>>
    /\ pc = "idle" /\ op = "none" /\ todo = NoEntry
    /\ appended = <<>> /\ published = {} /\ fd = None /\ acked = 0 /\ faults = 0

-----------------------------------------------------------------------------
(* The calls.                                                                *)

\* append, or append_buffered, of one pre-encoded entry.
StartWrite(e) ==
    /\ pc = "idle" /\ Len(appended) < MaxEntries
    /\ user = "merge" => ~e.tomb
    /\ op' = IF user = "engine" THEN "append" ELSE "append_buffered"
    /\ pc' = "write"
    /\ todo' = [cells |-> EncodeEntry(e), entry |-> e]
    /\ UNCHANGED <<user, fileVars, histVars>>

\* Mutant of FirstStep: the buffer is not flushed before the fsync.
FsyncFirst(call) == IF call = "sync" THEN "flushed" ELSE "flush"

\* flush_only, sync and sync_handle all flush the buffer first.
FirstStep(call) == "flush"

\* A second sync_handle comes only when the fsync of the first is over: one leader at a time.
StartFlush(call) ==
    /\ pc = "idle"
    /\ call \in IF user = "engine" THEN {"sync", "sync_handle"} ELSE {"sync", "flush_only"}
    /\ call = "sync_handle" => fd = None
    /\ op' = call
    /\ pc' = FirstStep(call)
    /\ UNCHANGED <<user, fileVars, todo, histVars>>

-----------------------------------------------------------------------------
(* write_unflushed.                                                          *)

\* Mutant of ValuePos: past the header only.
ValuePosAfterHeader(total, value_len) == offset + HeaderSize

\* Where the value of the entry being written starts.
ValuePos(total, value_len) == offset + (total - value_len)

OffsetAfter(total, value_len) == offset + total

\* write_all returned: the offset moves on, a merge adds its hint record, an append flushes.
Accepted ==
    LET e   == todo.entry
        len == Len(EncodeEntry(e))
        pos == ValuePos(len, Len(e.value))
    IN  /\ offset' = OffsetAfter(len, Len(e.value))
        /\ appended' = Append(appended, [entry |-> e, value_pos |-> pos])
        /\ hint' = IF user = "merge" THEN hint \o EncodeHint(e, pos) ELSE hint
        /\ todo' = NoEntry
        /\ pc' = IF op = "append" THEN "flush" ELSE "idle"

\* BufWriter::write_all, when the bytes fit in the buffer.
CopyToBuffer ==
    /\ pc = "write"
    /\ Len(todo.cells) <= Spare /\ Len(todo.cells) < Capacity
    /\ buffer' = buffer \o todo.cells
    /\ Accepted
    /\ UNCHANGED <<user, file, synced, op, published, fd, acked, faults>>

MustFlushFirst == pc = "write" /\ Len(todo.cells) > Spare /\ buffer # <<>>

\* Bytes as long as the buffer bypass it once it is empty.
Direct == pc = "write" /\ Len(EncodeEntry(todo.entry)) >= Capacity /\ buffer = <<>>

DirectWrite(n) ==
    /\ Direct /\ n \in 1..Len(todo.cells)
    /\ file' = file \o SubSeq(todo.cells, 1, n)
    /\ IF n = Len(todo.cells)
       THEN Accepted
       ELSE /\ todo' = [todo EXCEPT !.cells = SubSeq(@, n + 1, Len(@))]
            /\ UNCHANGED <<offset, appended, hint, pc>>
    /\ UNCHANGED <<user, buffer, synced, op, published, fd, acked, faults>>

\* BufWriter::flush_buf: one system call.
FlushSome(n) ==
    /\ pc \in {"flush", "drop"} \/ MustFlushFirst
    /\ n \in 1..Len(buffer)
    /\ file' = file \o SubSeq(buffer, 1, n)
    /\ buffer' = SubSeq(buffer, n + 1, Len(buffer))
    /\ UNCHANGED <<user, offset, synced, hint, callVars, histVars>>

-----------------------------------------------------------------------------
(* After the flush.                                                          *)

Return == pc' = "idle" /\ op' = "none"

\* An append vouches for its own entry, a merge for all of its output so far.
Published == published' = IF user = "engine" THEN published \cup {Len(appended)}
                                             ELSE DOMAIN appended

\* append and flush_only return.
FlushReturns ==
    /\ pc = "flush" /\ buffer = <<>> /\ op \in {"append", "flush_only"}
    /\ Return /\ Published
    /\ UNCHANGED <<user, fileVars, todo, appended, fd, acked, faults>>

\* sync goes on to its fsync.
SyncFlushed ==
    /\ pc = "flush" /\ buffer = <<>> /\ op = "sync"
    /\ pc' = "flushed"
    /\ UNCHANGED <<user, fileVars, op, todo, histVars>>

\* sync_handle hands out a clone of the descriptor.
HandleCloned ==
    /\ pc = "flush" /\ buffer = <<>> /\ op = "sync_handle"
    /\ fd' = offset
    /\ Return
    /\ UNCHANGED <<user, fileVars, todo, appended, published, acked, faults>>

\* sync_data of that clone, while other calls go on; or its failure.
SyncDataOfHandle ==
    /\ fd # None
    /\ fd' = None
    /\ \/ synced' = Len(file) /\ acked' = (IF fd > acked THEN fd ELSE acked) /\ UNCHANGED faults
       \/ "fsync" \in FaultKinds /\ faults < MaxFaults /\ faults' = faults + 1
          /\ UNCHANGED <<synced, acked>>
    /\ UNCHANGED <<user, file, buffer, offset, hint, callVars, appended, published>>

\* sync_data in sync.  The engine goes on with the file or replaces it; a merge closes the
\* output and its hint file with it (rotate, finish, close_current_hint_file).
SyncData ==
    /\ pc = "flushed" /\ op = "sync"
    /\ synced' = Len(file) /\ acked' = offset
    /\ IF user = "merge"
       THEN Published /\ hint' = Append(hint, Crc(hint)) /\ pc' = "closed"
       ELSE pc' \in {"idle", "closed"} /\ UNCHANGED <<published, hint>>
    /\ op' = "none"
    /\ UNCHANGED <<user, file, buffer, offset, todo, appended, fd, faults>>

\* A system call fails.  The buffer keeps what it has not written; what a direct write has
\* not written is lost.  An append whose flush failed returns an error although its entry
\* is in the buffer.  A merge ends, and dropping its writer tries to flush once more.
Fails(kind) ==
    /\ kind \in FaultKinds /\ faults < MaxFaults /\ faults' = faults + 1
    /\ \/ kind = "flush" /\ buffer # <<>> /\ (pc = "flush" \/ MustFlushFirst)
       \/ kind = "direct" /\ Direct
       \/ kind = "fsync" /\ pc = "flushed" /\ op = "sync"
    /\ pc' = IF user = "merge" THEN "drop" ELSE "idle"
    /\ op' = "none" /\ todo' = NoEntry
    /\ UNCHANGED <<user, fileVars, appended, published, fd, acked>>

\* BufWriter::drop: flushed, or given up.
Dropped ==
    /\ pc = "drop"
    /\ buffer = <<>> \/ "flush" \in FaultKinds
    /\ pc' = "closed"
    /\ UNCHANGED <<user, fileVars, op, todo, histVars>>

Next ==
    \/ \E e \in Entries : StartWrite(e)
    \/ \E call \in {"sync", "sync_handle", "flush_only"} : StartFlush(call)
    \/ CopyToBuffer \/ FlushReturns \/ SyncFlushed \/ HandleCloned \/ SyncDataOfHandle
    \/ SyncData \/ Dropped
    \/ \E n \in 1..Len(buffer) : FlushSome(n)
    \/ \E n \in 1..Len(todo.cells) : DirectWrite(n)
    \/ \E kind \in FaultKinds : Fails(kind)

Spec == Init /\ [][Next]_vars

-----------------------------------------------------------------------------
(* Properties.                                                               *)

\* Every variable keeps its type, and an fsync covers no more than there is.
TypeOK ==
    /\ user \in {"engine", "merge"}
    /\ Len(buffer) <= Capacity
    /\ offset \in Nat /\ synced \in 0..Len(file) /\ acked \in 0..offset
    /\ pc \in {"idle", "write", "flush", "flushed", "drop", "closed"}
    /\ op \in {"none", "append", "append_buffered", "flush_only", "sync", "sync_handle"}
    /\ appended \in Seq([entry : Entries, value_pos : Nat])
    /\ published \subseteq DOMAIN appended
    /\ fd \in Nat \cup {None} /\ faults \in 0..MaxFaults

\* append's returned position is always correct (datafile.rs 18-21): after failed flushes and
\* fsyncs too, a read of a published location finds exactly the value, through a handle that
\* sees only what the OS has.  (Not after a direct write that failed half way: ShortWrite.cfg.)
PublishedIsReadable ==
    \A i \in published :
        LET v == appended[i].entry.value
            p == appended[i].value_pos
        IN  p + Len(v) <= Len(file) /\ SubSeq(file, p + 1, p + Len(v)) = v

\* Between calls the tracked offset is where the next entry will go, which rotation and the
\* returned positions rest on.
OffsetIsLength == pc = "idle" => offset = Len(file) + Len(buffer)

\* What a scan should find of an image of the file: the entries that are whole in it.
Whole(image) ==
    LET end(i)   == appended[i].value_pos + Len(appended[i].entry.value)
        found(i) == [key |-> appended[i].entry.key, value |-> appended[i].entry.value,
                     tomb |-> appended[i].entry.tomb, tstamp |-> appended[i].entry.tstamp,
                     value_pos |-> appended[i].value_pos,
                     start |-> end(i) - Len(EncodeEntry(appended[i].entry))]
    IN  [i \in 1..Cardinality({j \in DOMAIN appended : end(j) <= Len(image)}) |-> found(i)]

\* Wherever the file ends, after a kill or a power loss in the middle of any write, the scan
\* finds the entries that are whole, in the order of their appends, with the locations that
\* append returned, and nothing else: no torn entry, none from inside a value, none twice.
ScanFindsWhole ==
    \A n \in 0..Len(file) : LET image == SubSeq(file, 1, n) IN Scan(image) = Whole(image)

\* An fsync that returned covers everything appended before it, left in the buffer by a
\* failed flush or not: none of it is lost with the power.
SyncCoversAppended == acked <= synced

\* What the writer keeps about the file is true of the file, whatever flush or fsync failed
\* before (ActiveFile's offset, and what sync answered for); a direct write that fails half
\* way is another matter, ShortWrite.cfg.
OffsetsAreRight == TypeOK /\ OffsetIsLength /\ SyncCoversAppended

\* The entry of a scan that contains cell p; 0 if none does.
EntryWith(found, p) ==
    LET hit == {i \in DOMAIN found : /\ found[i].start < p
                                     /\ p <= found[i].value_pos + Len(found[i].value)}
    IN  IF hit = {} THEN 0 ELSE CHOOSE i \in hit : TRUE

\* One cell rots in a file that was left at any point.  The entries before it are still
\* found; if it is not one of the two sizes of its entry, so are those after it, and the
\* entry itself is skipped (recovery.rs 83-85).
RotIsContained ==
    pc \in {"idle", "closed"} =>
        LET found == Scan(file) IN
        \A p \in DOMAIN file, n \in 0..Base - 1 :
            LET after == Scan([file EXCEPT ![p] = Number(n)])
                i     == EntryWith(found, p)
            IN  IF i = 0 THEN IsPrefix(found, after)
                ELSE /\ IsPrefix(SubSeq(found, 1, i - 1), after)
                     /\ p - found[i].start \notin {3, 4}
                            => after \in {found, RemoveAt(found, i)}

\* The first word of the first record, a timestamp of 0: it is the CRC of the nothing before it.
IsZeroStamp(cells) == cells = <<Number(0)>>

\* What a scan of a data file says, in the words of a hint file.
AsRecords(scanned) ==
    [i \in DOMAIN scanned |->
        [key |-> scanned[i].key, tomb |-> scanned[i].tomb, tstamp |-> scanned[i].tstamp,
         value_size |-> Len(scanned[i].value), value_pos |-> scanned[i].value_pos]]

\* Whatever prefix of a hint file a crash leaves beside whatever the data file then is, it is
\* rejected or it says what a scan of the data file says.  The one prefix of which that is
\* not so is the first word of a record whose timestamp is 0, see CutHintFails.
HintsNeverLie ==
    \A h \in 0..Len(hint), n \in synced..Len(file) :
        LET cut    == SubSeq(hint, 1, h)
            hinted == ScanHint(cut, n)
        IN  hinted.used => \/ IsZeroStamp(cut)
                           \/ hinted.records = AsRecords(Scan(SubSeq(file, 1, n)))

\* "an incomplete hint file simply fails `verify_hint_file` on the next recovery and falls
\* back to a full scan" (output_writer.rs 158-161): no prefix of a hint file is used while it
\* has no trailer.  It is refuted by a hint cut after four bytes of timestamp 0.
CutHintFails ==
    pc # "closed" => \A h \in 0..Len(hint) : ~VerifyHintFile(SubSeq(hint, 1, h))
=============================================================================
