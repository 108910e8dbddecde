----------------------------- MODULE MergeProofs -----------------------------
(* Proofs about Store and Merge, for any set of threads and any overlap of   *)
(* their calls, any faults and any crashes.  The last section, on the order  *)
(* of the ids and on what may dangle, assumes one merge at a time.           *)
EXTENDS Merge, RecoveryProofs, SequenceTheorems

-----------------------------------------------------------------------------
(* What the operations on files do.                                          *)

Write == [key : Keys, tomb : BOOLEAN]

\* Files whose entries are writes up to number n.
FileOf(n) == [entries : Seq(1..n), flushed : Nat, synced : Nat]

FilesOK(fs, n) ==
    /\ DOMAIN fs \subseteq Nat
    /\ \A f \in DOMAIN fs : /\ fs[f] \in FileOf(n)
                            /\ fs[f].synced <= fs[f].flushed
                            /\ fs[f].flushed <= Len(fs[f].entries)

\* Files only grow, as long as nothing crashes.
FileGrows(a, b) ==
    /\ a.flushed <= b.flushed
    /\ Len(a.entries) <= Len(b.entries)
    /\ \A i \in 1..Len(a.entries) : b.entries[i] = a.entries[i]

Grows(fs, gs) ==
    /\ DOMAIN fs \subseteq DOMAIN gs
    /\ \A f \in DOMAIN fs : FileGrows(fs[f], gs[f])

\* Files that stay as they are have grown by nothing.
LEMMA GrowsReflexive ==
    ASSUME NEW n, NEW fs, FilesOK(fs, n)
    PROVE  Grows(fs, fs)
BY DEF Grows, FileGrows, FilesOK, FileOf

\* Growth in two steps is growth.
LEMMA GrowsTransitive ==
    ASSUME NEW n \in Nat, NEW fs, NEW gs, NEW hs,
           FilesOK(fs, n), FilesOK(gs, n), FilesOK(hs, n), Grows(fs, gs), Grows(gs, hs)
    PROVE  Grows(fs, hs)
<1> SUFFICES ASSUME NEW f \in DOMAIN fs PROVE f \in DOMAIN hs /\ FileGrows(fs[f], hs[f])
  BY DEF Grows
<1>1. f \in DOMAIN gs /\ f \in DOMAIN hs
  BY DEF Grows
<1>2. FileGrows(fs[f], gs[f]) /\ FileGrows(gs[f], hs[f])
  BY <1>1 DEF Grows
<1>3. /\ fs[f].flushed \in Nat /\ gs[f].flushed \in Nat /\ hs[f].flushed \in Nat
      /\ Len(fs[f].entries) \in Nat /\ Len(gs[f].entries) \in Nat /\ Len(hs[f].entries) \in Nat
  BY <1>1 DEF FilesOK, FileOf
<1> QED
  BY <1>1, <1>2, <1>3 DEF FileGrows

\* Writes that were appended since do not matter.
LEMMA FilesOKUpTo ==
    ASSUME NEW n \in Nat, NEW m \in Nat, n <= m, NEW fs, FilesOK(fs, n)
    PROVE  FilesOK(fs, m)
<1> SUFFICES ASSUME NEW f \in DOMAIN fs PROVE fs[f] \in FileOf(m)
  BY DEF FilesOK
<1>1. fs[f] \in FileOf(n)
  BY DEF FilesOK
<1>2. fs[f].entries \in Seq(1..m)
  <2>1. 1..n \subseteq 1..m
    OBVIOUS
  <2>2. fs[f].entries \in Seq(1..n)
    BY <1>1 DEF FileOf
  <2> QED
    BY <2>1, <2>2
<1> QED
  BY <1>1, <1>2 DEF FileOf

\* A change of one file that keeps it well formed and only adds to it.
LEMMA OneFileGrows ==
    ASSUME NEW n \in Nat, NEW fs, FilesOK(fs, n), NEW f \in DOMAIN fs, NEW d \in FileOf(n),
           d.synced <= d.flushed, d.flushed <= Len(d.entries), FileGrows(fs[f], d),
           NEW gs, gs = [fs EXCEPT ![f] = d]
    PROVE  FilesOK(gs, n) /\ Grows(fs, gs) /\ DOMAIN gs = DOMAIN fs
<1>1. DOMAIN gs = DOMAIN fs /\ \A g \in DOMAIN fs : gs[g] = IF g = f THEN d ELSE fs[g]
  OBVIOUS
<1>2. Grows(fs, fs)
  BY GrowsReflexive
<1> QED
  BY <1>1, <1>2 DEF FilesOK, Grows

\* ActiveFile::append adds one entry and flushes it.
LEMMA WithEntryOK ==
    ASSUME NEW n \in Nat, NEW fs, FilesOK(fs, n), NEW f \in DOMAIN fs, NEW v \in 1..n
    PROVE  LET gs == WithEntry(fs, f, v) IN
           /\ FilesOK(gs, n) /\ Grows(fs, gs) /\ DOMAIN gs = DOMAIN fs
           /\ gs[f].entries = Append(fs[f].entries, v)
           /\ gs[f].flushed = Len(gs[f].entries)
           /\ Len(gs[f].entries) = Len(fs[f].entries) + 1
           /\ gs[f].entries[Len(gs[f].entries)] = v
           /\ \A g \in DOMAIN fs \ {f} : gs[g] = fs[g]
<1> DEFINE d == [entries |-> Append(fs[f].entries, v), flushed |-> Len(fs[f].entries) + 1,
                 synced |-> fs[f].synced]
           gs == WithEntry(fs, f, v)
<1>1. gs = [fs EXCEPT ![f] = d]
  BY DEF WithEntry
<1>2. /\ fs[f].entries \in Seq(1..n) /\ fs[f].flushed \in Nat /\ fs[f].synced \in Nat
      /\ Len(fs[f].entries) \in Nat
      /\ fs[f].synced <= fs[f].flushed /\ fs[f].flushed <= Len(fs[f].entries)
  BY DEF FilesOK, FileOf
<1>3. /\ d.entries \in Seq(1..n) /\ Len(d.entries) = Len(fs[f].entries) + 1
      /\ \A i \in 1..Len(fs[f].entries) : d.entries[i] = fs[f].entries[i]
      /\ d.entries[Len(d.entries)] = v
  BY <1>2
<1>4. d \in FileOf(n) /\ d.synced <= d.flushed /\ d.flushed <= Len(d.entries)
      /\ FileGrows(fs[f], d)
  BY <1>2, <1>3 DEF FileOf, FileGrows
<1>5. gs[f] = d /\ \A g \in DOMAIN fs \ {f} : gs[g] = fs[g]
  BY <1>1
<1>6. FilesOK(gs, n) /\ Grows(fs, gs) /\ DOMAIN gs = DOMAIN fs
  <2> HIDE DEF gs, d
  <2> QED
    BY <1>1, <1>4, OneFileGrows
<1> QED
  BY <1>3, <1>5, <1>6

\* append_buffered adds one entry.
LEMMA WithBufferedOK ==
    ASSUME NEW n \in Nat, NEW fs, FilesOK(fs, n), NEW f \in DOMAIN fs, NEW v \in 1..n
    PROVE  LET gs == WithBuffered(fs, f, v) IN
           /\ FilesOK(gs, n) /\ Grows(fs, gs) /\ DOMAIN gs = DOMAIN fs
           /\ gs[f].entries = Append(fs[f].entries, v)
           /\ Len(gs[f].entries) = Len(fs[f].entries) + 1
           /\ gs[f].entries[Len(gs[f].entries)] = v
           /\ \A g \in DOMAIN fs \ {f} : gs[g] = fs[g]
<1> DEFINE d == [fs[f] EXCEPT !.entries = Append(@, v)]
           gs == WithBuffered(fs, f, v)
<1>1. gs = [fs EXCEPT ![f] = d]
  BY DEF WithBuffered
<1>2. /\ fs[f] \in FileOf(n)
      /\ fs[f].entries \in Seq(1..n) /\ fs[f].flushed \in Nat /\ fs[f].synced \in Nat
      /\ Len(fs[f].entries) \in Nat
      /\ fs[f].synced <= fs[f].flushed /\ fs[f].flushed <= Len(fs[f].entries)
  BY DEF FilesOK, FileOf
<1>3. /\ d.entries = Append(fs[f].entries, v)
      /\ d.flushed = fs[f].flushed /\ d.synced = fs[f].synced
  BY <1>2 DEF FileOf
<1>4. /\ d.entries \in Seq(1..n) /\ Len(d.entries) = Len(fs[f].entries) + 1
      /\ \A i \in 1..Len(fs[f].entries) : d.entries[i] = fs[f].entries[i]
      /\ d.entries[Len(d.entries)] = v
  BY <1>2, <1>3
<1>5. d \in FileOf(n)
  BY <1>2, <1>4 DEF FileOf
<1>6. d.synced <= d.flushed /\ d.flushed <= Len(d.entries) /\ FileGrows(fs[f], d)
  BY <1>2, <1>3, <1>4 DEF FileGrows
<1>7. gs[f] = d /\ \A g \in DOMAIN fs \ {f} : gs[g] = fs[g]
  BY <1>1
<1>8. FilesOK(gs, n) /\ Grows(fs, gs) /\ DOMAIN gs = DOMAIN fs
  <2> HIDE DEF gs, d
  <2> QED
    BY <1>1, <1>5, <1>6, OneFileGrows
<1> QED
  BY <1>3, <1>4, <1>7, <1>8

\* ActiveFile::sync and flush_only change no entry.
LEMMA WithSyncOK ==
    ASSUME NEW n \in Nat, NEW fs, FilesOK(fs, n), NEW f \in DOMAIN fs
    PROVE  LET gs == WithSync(fs, f) IN
           /\ FilesOK(gs, n) /\ Grows(fs, gs) /\ DOMAIN gs = DOMAIN fs
           /\ \A g \in DOMAIN fs : gs[g].entries = fs[g].entries
           /\ gs[f].flushed = Len(gs[f].entries) /\ gs[f].synced = Len(gs[f].entries)
           /\ \A g \in DOMAIN fs \ {f} : gs[g] = fs[g]
<1> DEFINE d == [entries |-> fs[f].entries, flushed |-> Len(fs[f].entries),
                 synced |-> Len(fs[f].entries)]
           gs == WithSync(fs, f)
<1>1. gs = [fs EXCEPT ![f] = d]
  BY DEF WithSync
<1>2. /\ fs[f].entries \in Seq(1..n) /\ Len(fs[f].entries) \in Nat /\ fs[f].flushed \in Nat
      /\ fs[f].flushed <= Len(fs[f].entries)
  BY DEF FilesOK, FileOf
<1>3. d \in FileOf(n) /\ d.synced <= d.flushed /\ d.flushed <= Len(d.entries)
      /\ FileGrows(fs[f], d)
  BY <1>2 DEF FileOf, FileGrows
<1>4. gs[f] = d /\ \A g \in DOMAIN fs \ {f} : gs[g] = fs[g]
  BY <1>1
<1>5. FilesOK(gs, n) /\ Grows(fs, gs) /\ DOMAIN gs = DOMAIN fs
  <2> HIDE DEF gs, d
  <2> QED
    BY <1>1, <1>3, OneFileGrows
<1> QED
  BY <1>4, <1>5

\* A flush of an output (MergeOutputWriter::flush_pending) moves no entry.
LEMMA FlushOutputOK ==
    ASSUME NEW n \in Nat, NEW fs, FilesOK(fs, n), NEW f \in DOMAIN fs
    PROVE  LET gs == FlushOutput(fs, f) IN
           /\ FilesOK(gs, n) /\ Grows(fs, gs) /\ DOMAIN gs = DOMAIN fs
           /\ \A g \in DOMAIN fs : gs[g].entries = fs[g].entries
           /\ gs[f].flushed = Len(gs[f].entries)
           /\ \A g \in DOMAIN fs \ {f} : gs[g] = fs[g]
<1> DEFINE d == [fs[f] EXCEPT !.flushed = Len(fs[f].entries)]
           gs == FlushOutput(fs, f)
<1>1. gs = [fs EXCEPT ![f] = d]
  BY DEF FlushOutput
<1>2. /\ fs[f] \in FileOf(n)
      /\ fs[f].entries \in Seq(1..n) /\ Len(fs[f].entries) \in Nat
      /\ fs[f].flushed \in Nat /\ fs[f].synced \in Nat
      /\ fs[f].synced <= fs[f].flushed /\ fs[f].flushed <= Len(fs[f].entries)
  BY DEF FilesOK, FileOf
<1>3. /\ d.entries = fs[f].entries /\ d.flushed = Len(fs[f].entries) /\ d.synced = fs[f].synced
      /\ d \in FileOf(n)
  BY <1>2 DEF FileOf
<1>4. d.synced <= d.flushed /\ d.flushed <= Len(d.entries) /\ FileGrows(fs[f], d)
  BY <1>2, <1>3 DEF FileGrows
<1>5. gs[f] = d /\ \A g \in DOMAIN fs \ {f} : gs[g] = fs[g]
  BY <1>1
<1>6. FilesOK(gs, n) /\ Grows(fs, gs) /\ DOMAIN gs = DOMAIN fs
  <2> HIDE DEF gs, d
  <2> QED
    BY <1>1, <1>3, <1>4, OneFileGrows
<1> QED
  BY <1>3, <1>5, <1>6

Fresh(f, fs) == f \in Nat /\ f \notin DOMAIN fs

\* A new file leaves the others alone.
LEMMA WithFileOK ==
    ASSUME NEW n \in Nat, NEW fs, FilesOK(fs, n), NEW f, Fresh(f, fs),
           NEW gs, gs = WithFile(fs, f)
    PROVE  FilesOK(gs, n) /\ Grows(fs, gs) /\ DOMAIN gs = DOMAIN fs \cup {f}
<1>1. gs = [g \in DOMAIN fs \cup {f} |-> IF g \in DOMAIN fs THEN fs[g] ELSE EmptyFile]
  BY DEF WithFile
<1>2. /\ DOMAIN gs = DOMAIN fs \cup {f} /\ \A g \in DOMAIN fs : gs[g] = fs[g]
      /\ gs[f] = EmptyFile
  BY <1>1 DEF Fresh
<1>3. /\ EmptyFile \in FileOf(n) /\ EmptyFile.synced <= EmptyFile.flushed
      /\ EmptyFile.flushed <= Len(EmptyFile.entries)
  BY DEF EmptyFile, FileOf
<1>4. Grows(fs, fs)
  BY GrowsReflexive
<1>5. FilesOK(gs, n)
  BY <1>2, <1>3 DEF FilesOK, Fresh
<1>6. Grows(fs, gs)
  BY <1>2, <1>4 DEF Grows
<1> QED
  BY <1>2, <1>5, <1>6

\* A new file leaves the others alone.
LEMMA WithFileKeeps ==
    ASSUME NEW fs, NEW f, NEW gs, gs = WithFile(fs, f)
    PROVE  \A g \in DOMAIN fs : /\ gs[g].entries = fs[g].entries
                               /\ gs[g].flushed = fs[g].flushed
BY DEF WithFile

-----------------------------------------------------------------------------
(* The inductive invariant.                                                  *)

DiskInv ==
    /\ history \in Seq(Write)
    /\ FilesOK(files, Len(history))
    /\ IsFiniteSet(linked) /\ linked \subseteq DOMAIN files
    /\ active_id \in linked
    /\ next_file_id \in Nat
    /\ \A f \in DOMAIN files : f < next_file_id
    /\ \A f \in DOMAIN files \ linked : f < active_id

\* A place in a file; one that a reader of the file finds, too.
InFile(fs, loc) ==
    /\ loc \in Location
    /\ loc.file_id \in DOMAIN fs
    /\ loc.value_pos <= Len(fs[loc.file_id].entries)

OnOS(fs, loc) == InFile(fs, loc) /\ loc.value_pos <= fs[loc.file_id].flushed

EntryIn(fs, loc) == fs[loc.file_id].entries[loc.value_pos]

\* The keydir points at live entries of its keys, past no buffer.
KeydirInv ==
    /\ keydir \in Keydirs
    /\ \A k \in Keys : keydir[k] # None =>
          /\ OnOS(files, keydir[k])
          /\ history[EntryIn(files, keydir[k])] = [key |-> k, tomb |-> FALSE]

\* A write on its way to the keydir is in its file.
Arg == [key : Keys \cup {None}, ver : Nat, loc : Location \cup {None}]

WritePCs == {"sync", "update"}

PCs     == MergePCs \cup {"idle", "delete", "sync", "update", "read"}

WriteOK(fs, h, w) ==
    /\ OnOS(fs, w.loc)
    /\ w.ver \in 1..Len(h)
    /\ EntryIn(fs, w.loc) = w.ver
    /\ h[w.ver].key = w.key

ArgInv ==
    /\ pc \in [Threads -> PCs]
    /\ arg \in [Threads -> Arg]
    /\ \A t \in Threads : pc[t] = "delete" => arg[t].key \in Keys
    /\ \A t \in Threads : pc[t] \in WritePCs => WriteOK(files, history, arg[t])

\* A queued repoint leads from a place to a copy of what is there.
Repoint  == [key : Keys, old : Location, new : Location]
MergeRec == [inputs : SUBSET Nat, rest : SUBSET Nat, file : Nat, at : Nat \ {0}, upto : Nat,
             out : Nat, since : Nat, queue : Seq(Repoint), highest : Nat]

RepointPCs == {"repoint", "repoint_last"}
CopyPCs    == RepointPCs \cup {"copy"}

RepointOK(fs, h, q) ==
    /\ InFile(fs, q.old) /\ InFile(fs, q.new)
    /\ EntryIn(fs, q.new) = EntryIn(fs, q.old)
    /\ h[EntryIn(fs, q.new)] = [key |-> q.key, tomb |-> FALSE]

\* What a merge at l holds: inputs below the active file, an output that exists, and
\* repoints whose copies are flushed by the time they are applied.
InputsOK(m, l, fs, active) ==
    /\ IsFiniteSet(m.inputs) /\ m.inputs # {}
    /\ m.inputs \subseteq DOMAIN fs
    /\ \A f \in m.inputs : f < active
    /\ m.rest \subseteq m.inputs
    /\ l = "repoint_last" => m.rest = m.inputs
    /\ l \in {"remove", "forget"} => m.rest # {}

OutputOK(m, l, fs) ==
    /\ l \in CopyPCs => m.out \in DOMAIN fs
    /\ l = "open" => m.upto = 0
    /\ m.at <= m.upto => m.file \in m.inputs /\ m.upto <= Len(fs[m.file].entries)

QueueOK(m, l, fs, h) ==
    /\ l \notin CopyPCs => m.queue = <<>>
    /\ \A i \in DOMAIN m.queue :
          /\ RepointOK(fs, h, m.queue[i])
          /\ l \in RepointPCs => OnOS(fs, m.queue[i].new)
          /\ l = "copy" => m.queue[i].new.file_id = m.out

MergeOK(m, l, fs, h, active) ==
    /\ InputsOK(m, l, fs, active)
    /\ OutputOK(m, l, fs)
    /\ QueueOK(m, l, fs, h)

MergesInv ==
    /\ merging \in [Threads -> MergeRec]
    /\ \A t \in Threads :
          pc[t] \in MergePCs => MergeOK(merging[t], pc[t], files, history, active_id)

HandleInv == readers \subseteq DOMAIN files /\ NoLeakedHandle

IInv == DiskInv /\ KeydirInv /\ ArgInv /\ MergesInv /\ HandleInv

-----------------------------------------------------------------------------
(* What stays true while nothing crashes.                                    *)

\* Files and history only grow, and the active id does.
HistoryGrows ==
    /\ Len(history) <= Len(history')
    /\ \A i \in 1..Len(history) : history'[i] = history[i]

Advances ==
    /\ DiskInv'
    /\ Grows(files, files')
    /\ HistoryGrows
    /\ active_id <= active_id'

\* A place in a file that grows keeps its entry.
LEMMA PlacesGrow ==
    ASSUME NEW n \in Nat, NEW o \in Nat, NEW fs, NEW gs, FilesOK(fs, n), FilesOK(gs, o),
           Grows(fs, gs), NEW loc, InFile(fs, loc)
    PROVE  /\ InFile(gs, loc)
           /\ EntryIn(fs, loc) \in 1..n
           /\ EntryIn(gs, loc) = EntryIn(fs, loc)
           /\ OnOS(fs, loc) => OnOS(gs, loc)
<1> DEFINE f == loc.file_id
           i == loc.value_pos
<1>1. f \in Nat /\ i \in Nat /\ i >= 1 /\ f \in DOMAIN fs /\ f \in DOMAIN gs
  BY DEF InFile, Location, Grows
<1>2. /\ fs[f].entries \in Seq(1..n) /\ fs[f].flushed \in Nat /\ Len(fs[f].entries) \in Nat
  BY <1>1 DEF FilesOK, FileOf
<1>3. /\ gs[f].entries \in Seq(1..o) /\ gs[f].flushed \in Nat /\ Len(gs[f].entries) \in Nat
  BY <1>1 DEF FilesOK, FileOf
<1>4. FileGrows(fs[f], gs[f])
  BY <1>1 DEF Grows
<1>5. i \in 1..Len(fs[f].entries)
  BY <1>1, <1>2 DEF InFile
<1>6. fs[f].entries[i] \in 1..n /\ gs[f].entries[i] = fs[f].entries[i]
  <2>1. gs[f].entries[i] = fs[f].entries[i]
    BY <1>4, <1>5 DEF FileGrows
  <2>2. fs[f].entries[i] \in 1..n
    BY <1>2, <1>5, SMTT(20)
  <2> QED
    BY <2>1, <2>2
<1>7. i <= Len(gs[f].entries)
  BY <1>2, <1>3, <1>4, <1>5 DEF FileGrows
<1>8. i <= fs[f].flushed => i <= gs[f].flushed
  BY <1>1, <1>2, <1>3, <1>4 DEF FileGrows
<1> QED
  BY <1>1, <1>6, <1>7, <1>8 DEF InFile, OnOS, EntryIn

\* A step that only extends the disk leaves every place with its write.
LEMMA PlacesStay ==
    ASSUME DiskInv, Advances, NEW loc, InFile(files, loc)
    PROVE  /\ InFile(files', loc)
           /\ EntryIn(files, loc) \in 1..Len(history)
           /\ EntryIn(files', loc) = EntryIn(files, loc)
           /\ history'[EntryIn(files', loc)] = history[EntryIn(files, loc)]
           /\ OnOS(files, loc) => OnOS(files', loc)
<1>1. /\ Len(history) \in Nat /\ FilesOK(files, Len(history)) /\ Grows(files, files')
      /\ Len(history') \in Nat /\ FilesOK(files', Len(history'))
  BY DEF DiskInv, Advances
<1>2. /\ InFile(files', loc) /\ EntryIn(files, loc) \in 1..Len(history)
      /\ EntryIn(files', loc) = EntryIn(files, loc)
      /\ OnOS(files, loc) => OnOS(files', loc)
  BY <1>1, PlacesGrow
<1> QED
  BY <1>2 DEF Advances, HistoryGrows

\* So does it leave what the keydir says true,
LEMMA KeydirStays ==
    ASSUME DiskInv, KeydirInv, Advances, keydir' = keydir
    PROVE  KeydirInv'
<1> SUFFICES ASSUME NEW k \in Keys, keydir[k] # None
             PROVE  /\ OnOS(files', keydir[k])
                    /\ history'[EntryIn(files', keydir[k])] = [key |-> k, tomb |-> FALSE]
  BY DEF KeydirInv
<1> QED
  BY PlacesStay DEF KeydirInv, OnOS

\* and what a put in flight remembers,
LEMMA WriteStays ==
    ASSUME DiskInv, Advances, NEW w, WriteOK(files, history, w)
    PROVE  WriteOK(files', history', w)
<1>1. w.ver \in 1..Len(history')
  BY DEF WriteOK, Advances, HistoryGrows, DiskInv
<1> QED
  BY <1>1, PlacesStay DEF WriteOK, OnOS, Advances, HistoryGrows

\* and what a merge has queued.
LEMMA RepointStays ==
    ASSUME DiskInv, Advances, NEW q, RepointOK(files, history, q)
    PROVE  RepointOK(files', history', q) /\ (OnOS(files, q.new) => OnOS(files', q.new))
BY PlacesStay DEF RepointOK

\* Ids and lengths only go up.
LEMMA IdsAdvance ==
    ASSUME DiskInv, Advances
    PROVE  /\ active_id \in Nat /\ active_id' \in Nat /\ active_id <= active_id'
           /\ DOMAIN files \subseteq DOMAIN files'
           /\ \A f \in DOMAIN files : /\ Len(files[f].entries) \in Nat
                                      /\ Len(files'[f].entries) \in Nat
                                      /\ Len(files[f].entries) <= Len(files'[f].entries)
<1>1. DOMAIN files \subseteq DOMAIN files' /\ active_id <= active_id' /\ DiskInv'
  BY DEF Advances, Grows
<1>2. active_id \in Nat
  BY DEF DiskInv, FilesOK
<1>3. active_id' \in Nat
  BY <1>1 DEF DiskInv, FilesOK
<1>4. ASSUME NEW f \in DOMAIN files
      PROVE  /\ Len(files[f].entries) \in Nat /\ Len(files'[f].entries) \in Nat
             /\ Len(files[f].entries) <= Len(files'[f].entries)
  <2>1. Len(files[f].entries) \in Nat
    BY DEF DiskInv, FilesOK, FileOf
  <2>2. Len(files'[f].entries) \in Nat
    BY <1>1 DEF DiskInv, FilesOK, FileOf
  <2> QED
    BY <2>1, <2>2 DEF Advances, Grows, FileGrows
<1> QED
  BY <1>1, <1>2, <1>3, <1>4

\* A merge that did not move.
LEMMA MergeStays ==
    ASSUME DiskInv, Advances, NEW m \in MergeRec, NEW l,
           MergeOK(m, l, files, history, active_id)
    PROVE  MergeOK(m, l, files', history', active_id')
<1>1. InputsOK(m, l, files, active_id) /\ OutputOK(m, l, files) /\ QueueOK(m, l, files, history)
  BY DEF MergeOK
<1>2. InputsOK(m, l, files', active_id')
  <2>1. \A f \in m.inputs : f < active_id'
    BY <1>1, IdsAdvance DEF InputsOK, MergeRec
  <2> QED
    BY <1>1, <2>1, IdsAdvance DEF InputsOK
<1>3. OutputOK(m, l, files')
  <2>1. m.at <= m.upto => m.upto <= Len(files'[m.file].entries)
    BY <1>1, IdsAdvance DEF OutputOK, InputsOK, MergeRec
  <2> QED
    BY <1>1, <2>1, IdsAdvance DEF OutputOK
<1>4. QueueOK(m, l, files', history')
  BY <1>1, RepointStays DEF QueueOK
<1> QED
  BY <1>2, <1>3, <1>4 DEF MergeOK

\* A step of one thread leaves the others' writes and merges in order.
LEMMA OthersStay ==
    ASSUME DiskInv, ArgInv, MergesInv, Advances, NEW t \in Threads,
           pc' \in [Threads -> PCs], arg' \in [Threads -> Arg],
           merging' \in [Threads -> MergeRec],
           \A u \in Threads \ {t} :
              pc'[u] = pc[u] /\ arg'[u] = arg[u] /\ merging'[u] = merging[u],
           pc'[t] = "delete" => arg'[t].key \in Keys,
           pc'[t] \in WritePCs => WriteOK(files', history', arg'[t]),
           pc'[t] \in MergePCs =>
              MergeOK(merging'[t], pc'[t], files', history', active_id')
    PROVE  ArgInv' /\ MergesInv'
<1>1. ASSUME NEW u \in Threads, pc'[u] = "delete" PROVE arg'[u].key \in Keys
  BY <1>1 DEF ArgInv
<1>2. ASSUME NEW u \in Threads, pc'[u] \in WritePCs
      PROVE  WriteOK(files', history', arg'[u])
  <2>1. CASE u = t
    BY <1>2, <2>1
  <2>2. CASE u # t
    BY <1>2, <2>2, WriteStays DEF ArgInv
  <2> QED
    BY <2>1, <2>2
<1>3. ASSUME NEW u \in Threads, pc'[u] \in MergePCs
      PROVE  MergeOK(merging'[u], pc'[u], files', history', active_id')
  <2>1. CASE u = t
    BY <1>3, <2>1
  <2>2. CASE u # t
    <3>1. MergeOK(merging[u], pc[u], files, history, active_id) /\ merging[u] \in MergeRec
      BY <1>3, <2>2 DEF MergesInv
    <3>2. MergeOK(merging[u], pc[u], files', history', active_id')
      BY <3>1, MergeStays
    <3> QED
      BY <2>2, <3>2
  <2> QED
    BY <2>1, <2>2
<1> QED
  BY <1>1, <1>2, <1>3 DEF ArgInv, MergesInv

\* No handle is leaked where no file is removed and no merge stops forgetting one.
LEMMA HandlesStay ==
    ASSUME HandleInv, DOMAIN files \subseteq DOMAIN files', readers' \subseteq readers,
           linked \subseteq linked',
           \A u \in Threads : pc[u] = "forget" =>
              pc'[u] = "forget" /\ merging'[u].rest = merging[u].rest
    PROVE  HandleInv'
<1>1. readers' \subseteq DOMAIN files'
  BY DEF HandleInv
<1>2. NoLeakedHandle'
  <2> SUFFICES ASSUME NEW f \in readers', f \notin linked'
               PROVE  \E u \in Threads : pc'[u] = "forget" /\ f = NextToRemove(merging'[u].rest)
    BY DEF NoLeakedHandle
  <2>1. PICK u \in Threads : pc[u] = "forget" /\ f = NextToRemove(merging[u].rest)
    BY DEF HandleInv, NoLeakedHandle
  <2> QED
    BY <2>1
<1> QED
  BY <1>1, <1>2 DEF HandleInv

\* Nothing happened to the disk.
LEMMA DiskStays ==
    ASSUME DiskInv, UNCHANGED diskVars
    PROVE  Advances
<1>1. DiskInv'
  BY DEF DiskInv, diskVars
<1>2. active_id \in Nat /\ Len(history) \in Nat
  BY DEF DiskInv, FilesOK
<1>3. Grows(files, files')
  BY GrowsReflexive DEF DiskInv, diskVars
<1> QED
  BY <1>1, <1>2, <1>3 DEF Advances, HistoryGrows, diskVars

\* Files changed, none appeared.
LEMMA FilesAdvance ==
    ASSUME DiskInv, HistoryGrows, history' \in Seq(Write),
           FilesOK(files', Len(history')), Grows(files, files'),
           DOMAIN files' = DOMAIN files,
           UNCHANGED <<linked, active_id>>,
           next_file_id' \in Nat, next_file_id <= next_file_id'
    PROVE  Advances
<1>1. active_id \in Nat /\ Len(history) \in Nat
  BY DEF DiskInv, FilesOK
<1>2. \A f \in DOMAIN files : f < next_file_id'
  BY DEF DiskInv, FilesOK
<1>3. DiskInv'
  BY <1>2 DEF DiskInv
<1> QED
  BY <1>1, <1>3 DEF Advances

\* An output was flushed.
LEMMA FlushAdvances ==
    ASSUME DiskInv, NEW f \in DOMAIN files, files' = FlushOutput(files, f),
           UNCHANGED <<history, linked, active_id, next_file_id>>
    PROVE  Advances
<1>1. FilesOK(files, Len(history)) /\ Len(history) \in Nat
  BY DEF DiskInv
<1>2. FilesOK(files', Len(history)) /\ Grows(files, files') /\ DOMAIN files' = DOMAIN files
  BY <1>1, FlushOutputOK
<1>3. HistoryGrows /\ history' \in Seq(Write) /\ next_file_id' \in Nat
      /\ next_file_id <= next_file_id' /\ Len(history') = Len(history)
  BY <1>1 DEF HistoryGrows, DiskInv
<1> QED
  BY <1>2, <1>3, FilesAdvance

\* A file appeared under the next id, and may have become the active one.
LEMMA FileAppears ==
    ASSUME DiskInv, HistoryGrows, history' \in Seq(Write),
           FilesOK(files', Len(history')), Grows(files, files'),
           DOMAIN files' = DOMAIN files \cup {next_file_id},
           linked' = linked \cup {next_file_id}, next_file_id' = next_file_id + 1,
           active_id' \in {active_id, next_file_id}
    PROVE  Advances
<1>1. /\ active_id \in Nat /\ Len(history) \in Nat /\ next_file_id \in Nat
      /\ active_id < next_file_id /\ DOMAIN files \subseteq Nat
  BY DEF DiskInv, FilesOK
<1>2. active_id <= active_id' /\ active_id' \in linked'
  BY <1>1 DEF DiskInv
<1>3. \A f \in DOMAIN files' : f < next_file_id'
  BY <1>1 DEF DiskInv
<1>4. \A f \in DOMAIN files' \ linked' : f < active_id'
  BY <1>1 DEF DiskInv
<1>5. IsFiniteSet(linked') /\ linked' \subseteq DOMAIN files'
  BY FS_AddElement DEF DiskInv
<1>6. DiskInv'
  BY <1>1, <1>2, <1>3, <1>4, <1>5 DEF DiskInv
<1> QED
  BY <1>1, <1>2, <1>6 DEF Advances

\* Rotation syncs the outgoing file and adds an empty one.
LEMMA RotationOK ==
    ASSUME NEW n \in Nat, NEW fs, FilesOK(fs, n), NEW f \in DOMAIN fs,
           NEW g, Fresh(g, fs), NEW gs, gs = WithFile(WithSync(fs, f), g)
    PROVE  /\ FilesOK(gs, n) /\ Grows(fs, gs) /\ DOMAIN gs = DOMAIN fs \cup {g}
           /\ gs[f].flushed = Len(gs[f].entries)
<1> DEFINE ss == WithSync(fs, f)
<1>1. /\ FilesOK(ss, n) /\ Grows(fs, ss) /\ DOMAIN ss = DOMAIN fs
      /\ \A h \in DOMAIN fs : ss[h].entries = fs[h].entries
      /\ ss[f].flushed = Len(ss[f].entries)
  BY WithSyncOK
<1> HIDE DEF ss
<1>2. gs = WithFile(ss, g) /\ Fresh(g, ss) /\ FilesOK(ss, n)
  BY <1>1 DEF ss, Fresh
<1>3. FilesOK(gs, n) /\ Grows(ss, gs) /\ DOMAIN gs = DOMAIN ss \cup {g}
  BY <1>2, WithFileOK, Zenon
<1>4. \A h \in DOMAIN ss : gs[h].entries = ss[h].entries /\ gs[h].flushed = ss[h].flushed
  BY <1>1, <1>2, WithFileKeeps
<1>5. Grows(fs, gs)
  BY <1>1, <1>3, GrowsTransitive
<1> QED
  BY <1>1, <1>3, <1>4, <1>5

\* The new write's number and place.
NewWrite == Len(history) + 1
NewPlace == [file_id |-> active_id, value_pos |-> Len(files[active_id].entries) + 1]

\* What every outcome of an append leaves: the write in the active file, and perhaps a
\* rotation.
LEMMA AppendAdvances ==
    ASSUME DiskInv, StoreAssumption, NEW t \in Threads, NEW k \in Keys, NEW tomb \in BOOLEAN,
           AppendEntry(t, k, tomb)
    PROVE  /\ Advances
           /\ NewWrite \in 1..Len(history')
           /\ history'[NewWrite] = [key |-> k, tomb |-> tomb]
           /\ OnOS(files', NewPlace)
           /\ EntryIn(files', NewPlace) = NewWrite
<1> DEFINE v == NewWrite
           w == [key |-> k, tomb |-> tomb]
           fs == WithEntry(files, active_id, v)
<1>1. /\ history \in Seq(Write) /\ Len(history) \in Nat /\ FilesOK(files, Len(history))
      /\ active_id \in DOMAIN files /\ DOMAIN files \subseteq Nat /\ active_id \in Nat
      /\ next_file_id \in Nat /\ next_file_id \notin DOMAIN files
      /\ linked \subseteq DOMAIN files
  BY DEF DiskInv, FilesOK
<1>2. history' = Append(history, w) /\ w \in Write
  BY DEF AppendEntry, Write
<1>3. /\ history' \in Seq(Write) /\ Len(history') = v /\ v \in Nat /\ v \in 1..v
      /\ history'[v] = w
      /\ \A i \in 1..Len(history) : history'[i] = history[i]
      /\ Len(history) <= v
  BY <1>1, <1>2 DEF NewWrite
<1>4. HistoryGrows
  BY <1>1, <1>3 DEF HistoryGrows
<1>5. FilesOK(files, v)
  BY <1>1, <1>3, FilesOKUpTo
<1>6. /\ FilesOK(fs, v) /\ Grows(files, fs) /\ DOMAIN fs = DOMAIN files
      /\ fs[active_id].flushed = Len(fs[active_id].entries)
      /\ Len(fs[active_id].entries) = Len(files[active_id].entries) + 1
      /\ fs[active_id].entries[Len(fs[active_id].entries)] = v
  <2> HIDE DEF v
  <2> QED
    BY <1>1, <1>3, <1>5, WithEntryOK
<1>7. Len(files[active_id].entries) \in Nat
  BY <1>1 DEF FilesOK, FileOf
<1>8. \/ RotateActive(fs)
      \/ files' = fs /\ UNCHANGED <<linked, active_id, next_file_id>>
      \/ RotationFails(fs)
  BY DEF AppendEntry, NewWrite
<1> HIDE DEF fs, w, v
<1>9. /\ FilesOK(WithSync(fs, active_id), v) /\ Grows(fs, WithSync(fs, active_id))
      /\ DOMAIN WithSync(fs, active_id) = DOMAIN fs
  BY <1>1, <1>3, <1>6, WithSyncOK
<1>10. Grows(fs, fs)
  BY <1>6, GrowsReflexive
<1>11. FilesOK(files', v) /\ Grows(fs, files') /\ Advances
  <2>1. CASE RotateActive(fs)
    <3>1. /\ files' = WithFile(WithSync(fs, active_id), next_file_id)
          /\ linked' = linked \cup {next_file_id} /\ active_id' = next_file_id
          /\ next_file_id' = next_file_id + 1
      BY <2>1 DEF RotateActive
    <3>2. /\ FilesOK(files', v) /\ Grows(fs, files')
          /\ DOMAIN files' = DOMAIN files \cup {next_file_id}
      <4>1. v \in Nat /\ FilesOK(fs, v) /\ active_id \in DOMAIN fs /\ Fresh(next_file_id, fs)
        BY <1>1, <1>3, <1>6 DEF Fresh
      <4>2. files' = WithFile(WithSync(fs, active_id), next_file_id)
        BY <3>1
      <4>3. FilesOK(files', v) /\ Grows(fs, files') /\ DOMAIN files' = DOMAIN fs \cup {next_file_id}
        BY <4>1, <4>2, RotationOK
      <4> QED
        BY <1>6, <4>3
    <3>3. Grows(files, files')
      BY <1>3, <1>5, <1>6, <3>2, GrowsTransitive
    <3> QED
      BY <1>3, <1>4, <3>1, <3>2, <3>3, FileAppears
  <2>2. CASE files' = fs /\ UNCHANGED <<linked, active_id, next_file_id>>
    <3>1. /\ FilesOK(files', Len(history')) /\ Grows(files, files') /\ Grows(fs, files')
          /\ DOMAIN files' = DOMAIN files
      BY <1>3, <1>6, <1>10, <2>2
    <3>2. next_file_id' \in Nat /\ next_file_id <= next_file_id'
      BY <1>1, <2>2
    <3> QED
      BY <1>3, <1>4, <2>2, <3>1, <3>2, FilesAdvance
  <2>3. CASE RotationFails(fs)
    <3>1. /\ files' \in {fs, WithSync(fs, active_id)}
          /\ UNCHANGED <<linked, active_id>>
          /\ next_file_id' \in {next_file_id, next_file_id + 1}
      BY <2>3 DEF RotationFails
    <3>2. FilesOK(files', v) /\ Grows(fs, files') /\ DOMAIN files' = DOMAIN files
      BY <1>6, <1>9, <1>10, <3>1
    <3>3. Grows(files, files')
      BY <1>3, <1>5, <1>6, <3>2, GrowsTransitive
    <3>4. next_file_id' \in Nat /\ next_file_id <= next_file_id'
      BY <1>1, <3>1
    <3> QED
      BY <1>3, <1>4, <3>1, <3>2, <3>3, <3>4, FilesAdvance
  <2> QED
    BY <1>8, <2>1, <2>2, <2>3
<1>12. OnOS(files', NewPlace) /\ EntryIn(files', NewPlace) = v
  <2>1. FileGrows(fs[active_id], files'[active_id]) /\ active_id \in DOMAIN files'
    BY <1>1, <1>6, <1>11 DEF Grows
  <2>2. /\ Len(files'[active_id].entries) \in Nat /\ files'[active_id].flushed \in Nat
    BY <1>11, <2>1 DEF FilesOK, FileOf
  <2>3. NewPlace \in Location /\ NewPlace.file_id = active_id
        /\ NewPlace.value_pos = Len(fs[active_id].entries)
        /\ NewPlace.value_pos \in 1..Len(fs[active_id].entries)
    BY <1>1, <1>6, <1>7 DEF NewPlace, Location
  <2> QED
    BY <1>6, <2>1, <2>2, <2>3 DEF OnOS, InFile, EntryIn, FileGrows
<1> QED
  BY <1>3, <1>11, <1>12 DEF v, w

\* Putting and deleting append.
LEMMA AppendOK ==
    ASSUME IInv, StoreAssumption, NEW t \in Threads, NEW k \in Keys, NEW tomb \in BOOLEAN,
           pc[t] \in {"idle", "delete"}, AppendEntry(t, k, tomb), UNCHANGED mergeVars
    PROVE  IInv'
<1>1. /\ Advances /\ NewWrite \in 1..Len(history') /\ OnOS(files', NewPlace)
      /\ history'[NewWrite] = [key |-> k, tomb |-> tomb]
      /\ EntryIn(files', NewPlace) = NewWrite
  BY AppendAdvances DEF IInv
<1>2. DiskInv'
  BY <1>1 DEF Advances
<1>3. KeydirInv'
  BY <1>1, KeydirStays DEF IInv, AppendEntry
<1>4. \/ /\ pc' = [pc EXCEPT ![t] = IF SyncOnPut THEN "sync" ELSE "update"]
         /\ arg' = [arg EXCEPT ![t] = [key |-> k, ver |-> NewWrite, loc |-> NewPlace]]
      \/ Return(t)
  <2>1. Len(WithEntry(files, active_id, NewWrite)[active_id].entries)
           = Len(files[active_id].entries) + 1
    <3>1. active_id \in DOMAIN files /\ files[active_id].entries \in Seq(1..Len(history))
      BY DEF IInv, DiskInv, FilesOK, FileOf
    <3> QED
      BY <3>1 DEF WithEntry
  <2> QED
    BY <2>1 DEF AppendEntry, NewWrite, NewPlace
<1>5. ArgInv' /\ MergesInv'
  <2>1. pc \in [Threads -> PCs] /\ arg \in [Threads -> Arg]
        /\ merging \in [Threads -> MergeRec] /\ merging' = merging
    BY DEF IInv, ArgInv, MergesInv, mergeVars
  <2>2. CASE Return(t)
    <3>1. pc' \in [Threads -> PCs] /\ arg' \in [Threads -> Arg] /\ pc'[t] = "idle"
      BY <2>1, <2>2 DEF Return, NoArg, Arg, PCs
    <3>2. \A u \in Threads \ {t} : pc'[u] = pc[u] /\ arg'[u] = arg[u]
      BY <2>1, <2>2 DEF Return
    <3> QED
      BY <1>1, <2>1, <3>1, <3>2, OthersStay DEF IInv, WritePCs, MergePCs
  <2>3. CASE /\ pc' = [pc EXCEPT ![t] = IF SyncOnPut THEN "sync" ELSE "update"]
             /\ arg' = [arg EXCEPT ![t] = [key |-> k, ver |-> NewWrite, loc |-> NewPlace]]
    <3> DEFINE w == [key |-> k, ver |-> NewWrite, loc |-> NewPlace]
    <3>1. w \in Arg /\ WriteOK(files', history', w)
      <4>1. NewWrite \in Nat /\ NewPlace \in Location
        BY <1>1 DEF NewWrite, OnOS, InFile, IInv, DiskInv
      <4> QED
        BY <1>1, <4>1 DEF Arg, WriteOK
    <3>2. pc' \in [Threads -> PCs] /\ arg' \in [Threads -> Arg]
          /\ pc'[t] \in WritePCs /\ arg'[t] = w
      <4> HIDE DEF w
      <4> QED
        BY <2>1, <2>3, <3>1 DEF PCs, WritePCs, w
    <3>3. \A u \in Threads \ {t} : pc'[u] = pc[u] /\ arg'[u] = arg[u]
      BY <2>1, <2>3
    <3>4. pc'[t] # "delete" /\ pc'[t] \notin MergePCs
      BY <3>2 DEF WritePCs, MergePCs
    <3> HIDE DEF w
    <3> QED
      BY <1>1, <2>1, <3>1, <3>2, <3>3, <3>4, OthersStay DEF IInv
  <2> QED
    BY <1>4, <2>2, <2>3
<1>6. HandleInv'
  <2>1. linked \subseteq linked'
    BY DEF AppendEntry, RotateActive, RotationFails
  <2>2. \A u \in Threads : pc[u] = "forget" => pc'[u] = "forget"
    BY <1>4 DEF Return, IInv, ArgInv
  <2> QED
    BY <1>1, <2>1, <2>2, HandlesStay DEF IInv, AppendEntry, mergeVars, Advances, Grows
<1> QED
  BY <1>2, <1>3, <1>5, <1>6 DEF IInv

\* Engine::delete, its look at the keydir.
LEMMA DeleteCheckOK ==
    ASSUME IInv, NEW t \in Threads, NEW k \in Keys, DeleteCheck(t, k), UNCHANGED mergeVars
    PROVE  IInv'
<1>1. /\ UNCHANGED diskVars /\ UNCHANGED <<keydir, readers, merging>> /\ pc[t] = "idle"
      /\ pc' = [pc EXCEPT ![t] = "delete"] /\ arg' = [arg EXCEPT ![t].key = k]
  BY DEF DeleteCheck, MayStart, mergeVars
<1>2. Advances
  BY <1>1, DiskStays DEF IInv
<1>3. DiskInv' /\ KeydirInv'
  BY <1>1, <1>2, KeydirStays DEF IInv, Advances
<1>4. ArgInv' /\ MergesInv'
  <2>1. pc \in [Threads -> PCs] /\ arg \in [Threads -> Arg] /\ merging \in [Threads -> MergeRec]
    BY DEF IInv, ArgInv, MergesInv
  <2>2. arg[t] \in Arg /\ [arg[t] EXCEPT !.key = k] \in Arg
    BY <2>1 DEF Arg
  <2>3. arg' \in [Threads -> Arg] /\ arg'[t].key = k
    BY <1>1, <2>1, <2>2 DEF Arg
  <2>4. pc' \in [Threads -> PCs] /\ pc'[t] = "delete"
    BY <1>1, <2>1 DEF PCs
  <2>5. \A u \in Threads \ {t} : pc'[u] = pc[u] /\ arg'[u] = arg[u] /\ merging'[u] = merging[u]
    BY <1>1, <2>1
  <2>6. "delete" \notin WritePCs /\ "delete" \notin MergePCs
    BY DEF WritePCs, MergePCs
  <2> QED
    BY <1>1, <1>2, <2>1, <2>3, <2>4, <2>5, <2>6, OthersStay DEF IInv
<1>5. HandleInv'
  <2>1. \A u \in Threads : pc[u] = "forget" => pc'[u] = "forget"
    BY <1>1 DEF IInv, ArgInv
  <2> QED
    BY <1>1, <2>1, HandlesStay DEF IInv, diskVars
<1> QED
  BY <1>3, <1>4, <1>5 DEF IInv

\* The group commit syncs no less than the write.
LEMMA SyncWriteAdvances ==
    ASSUME DiskInv, NEW t \in Threads, OnOS(files, arg[t].loc), SyncWrite(t)
    PROVE  Advances
<1> DEFINE f == arg[t].loc.file_id
           p == arg[t].loc.value_pos
           n == Len(history)
<1>1. UNCHANGED <<history, linked, active_id, next_file_id>>
  BY DEF SyncWrite
<1>2. CASE files' = files
  BY <1>1, <1>2, DiskStays DEF diskVars
<1>3. CASE files' = [files EXCEPT ![f].synced = IF p > @ THEN p ELSE @]
  <2> DEFINE s == IF p > files[f].synced THEN p ELSE files[f].synced
             d == [files[f] EXCEPT !.synced = s]
  <2>1. /\ n \in Nat /\ FilesOK(files, n) /\ f \in DOMAIN files /\ p \in Nat
        /\ history \in Seq(Write) /\ next_file_id \in Nat
    BY DEF DiskInv, OnOS, InFile, Location
  <2>2. /\ files[f] \in FileOf(n) /\ files[f].flushed \in Nat /\ files[f].synced \in Nat
        /\ files[f].synced <= files[f].flushed /\ files[f].flushed <= Len(files[f].entries)
        /\ p <= files[f].flushed /\ Len(files[f].entries) \in Nat
    BY <2>1 DEF FilesOK, FileOf, OnOS
  <2>3. s \in Nat /\ s <= files[f].flushed
    BY <2>1, <2>2
  <2>4. files' = [files EXCEPT ![f] = d]
    BY <1>3
  <2> HIDE DEF s
  <2>5. d \in FileOf(n) /\ d.synced = s /\ d.flushed = files[f].flushed
        /\ d.entries = files[f].entries
    BY <2>2, <2>3 DEF FileOf
  <2> HIDE DEF d, f, n
  <2>6. d.synced <= d.flushed /\ d.flushed <= Len(d.entries) /\ FileGrows(files[f], d)
    BY <2>2, <2>3, <2>5 DEF FileGrows
  <2>7. FilesOK(files', n) /\ Grows(files, files') /\ DOMAIN files' = DOMAIN files
    BY <2>1, <2>4, <2>5, <2>6, OneFileGrows
  <2>8. HistoryGrows
    BY <1>1, <2>1 DEF HistoryGrows, n
  <2>9. history' \in Seq(Write) /\ FilesOK(files', Len(history')) /\ next_file_id <= next_file_id'
        /\ next_file_id' \in Nat
    BY <1>1, <2>1, <2>7 DEF n
  <2> QED
    BY <1>1, <2>7, <2>8, <2>9, FilesAdvance
<1> QED
  BY <1>2, <1>3 DEF SyncWrite

\* group_commit.commit of a put or delete.
LEMMA SyncWriteOK ==
    ASSUME IInv, NEW t \in Threads, SyncWrite(t), UNCHANGED mergeVars
    PROVE  IInv'
<1>1. /\ pc[t] = "sync" /\ UNCHANGED <<linked, keydir, readers, merging>>
      /\ WriteOK(files, history, arg[t])
  BY DEF SyncWrite, mergeVars, IInv, ArgInv, WritePCs
<1>2. Advances
  BY <1>1, SyncWriteAdvances DEF IInv, WriteOK
<1>3. DiskInv' /\ KeydirInv'
  BY <1>1, <1>2, KeydirStays DEF IInv, Advances
<1>4. \/ pc' = [pc EXCEPT ![t] = "update"] /\ arg' = arg
      \/ pc' = [pc EXCEPT ![t] = "idle"] /\ arg' = [arg EXCEPT ![t] = NoArg]
  BY DEF SyncWrite, Return
<1>5. ArgInv' /\ MergesInv'
  <2>1. pc \in [Threads -> PCs] /\ arg \in [Threads -> Arg] /\ merging \in [Threads -> MergeRec]
    BY DEF IInv, ArgInv, MergesInv
  <2>2. pc' \in [Threads -> PCs] /\ arg' \in [Threads -> Arg]
    <3>1. NoArg \in Arg /\ "idle" \in PCs /\ "update" \in PCs
      BY DEF NoArg, Arg, PCs
    <3> QED
      BY <1>4, <2>1, <3>1
  <2>3. \A u \in Threads \ {t} : pc'[u] = pc[u] /\ arg'[u] = arg[u] /\ merging'[u] = merging[u]
    BY <1>1, <1>4, <2>1
  <2>4. pc'[t] \in {"idle", "update"} /\ (pc'[t] = "update" => arg'[t] = arg[t])
    BY <1>4, <2>1
  <2>5. WriteOK(files', history', arg[t])
    BY <1>1, <1>2, WriteStays DEF IInv
  <2>6. pc'[t] # "delete" /\ pc'[t] \notin MergePCs
        /\ (pc'[t] \in WritePCs => WriteOK(files', history', arg'[t]))
    BY <2>4, <2>5 DEF WritePCs, MergePCs
  <2> QED
    BY <1>1, <1>2, <2>1, <2>2, <2>3, <2>6, OthersStay DEF IInv
<1>6. HandleInv'
  <2>1. \A u \in Threads : pc[u] = "forget" => pc'[u] = "forget"
    BY <1>1, <1>4 DEF IInv, ArgInv
  <2> QED
    BY <1>1, <1>2, <2>1, HandlesStay DEF IInv, Advances, Grows
<1> QED
  BY <1>3, <1>5, <1>6 DEF IInv

\* The keydir update at the end of put and delete.
LEMMA UpdateKeydirOK ==
    ASSUME IInv, NEW t \in Threads, UpdateKeydir(t), UNCHANGED mergeVars
    PROVE  IInv'
<1> DEFINE w == arg[t]
<1>1. /\ pc[t] = "update" /\ UNCHANGED diskVars /\ UNCHANGED <<readers, merging>>
      /\ keydir' = [keydir EXCEPT ![w.key] = KeydirEntry(w)]
      /\ pc' = [pc EXCEPT ![t] = "idle"] /\ arg' = [arg EXCEPT ![t] = NoArg]
  BY DEF UpdateKeydir, mergeVars, Return
<1>2. WriteOK(files, history, w)
  BY <1>1 DEF IInv, ArgInv, WritePCs
<1>3. Advances
  BY <1>1, DiskStays DEF IInv
<1>4. KeydirInv'
  <2>1. /\ history[w.ver] \in Write /\ history[w.ver].key = w.key
        /\ OnOS(files, w.loc) /\ w.loc \in Location /\ EntryIn(files, w.loc) = w.ver
    BY <1>2 DEF WriteOK, IInv, DiskInv, OnOS, InFile
  <2>2. keydir \in Keydirs /\ KeydirEntry(w) \in Location \cup {None} /\ w.key \in Keys
    BY <2>1 DEF KeydirEntry, Write, IInv, KeydirInv
  <2>3. KeydirEntry(w) # None =>
          KeydirEntry(w) = w.loc /\ history[w.ver] = [key |-> w.key, tomb |-> FALSE]
    BY <2>1 DEF KeydirEntry, Write
  <2> HIDE DEF w
  <2>4. keydir' \in Keydirs
    BY <1>1, <2>2 DEF Keydirs
  <2>5. ASSUME NEW k \in Keys, keydir'[k] # None
        PROVE  /\ OnOS(files, keydir'[k])
               /\ history[EntryIn(files, keydir'[k])] = [key |-> k, tomb |-> FALSE]
    <3>1. CASE k = w.key
      BY <1>1, <2>1, <2>2, <2>3, <2>5, <3>1 DEF Keydirs
    <3>2. CASE k # w.key
      BY <1>1, <2>2, <2>5, <3>2 DEF Keydirs, IInv, KeydirInv
    <3> QED
      BY <3>1, <3>2
  <2>6. files' = files /\ history' = history
    BY <1>1 DEF diskVars
  <2> QED
    BY <2>4, <2>5, <2>6 DEF KeydirInv
<1>5. ArgInv' /\ MergesInv'
  <2>1. pc \in [Threads -> PCs] /\ arg \in [Threads -> Arg] /\ merging \in [Threads -> MergeRec]
    BY DEF IInv, ArgInv, MergesInv
  <2>2. pc' \in [Threads -> PCs] /\ arg' \in [Threads -> Arg] /\ pc'[t] = "idle"
    BY <1>1, <2>1 DEF PCs, Arg, NoArg
  <2>3. \A u \in Threads \ {t} : pc'[u] = pc[u] /\ arg'[u] = arg[u] /\ merging'[u] = merging[u]
    BY <1>1, <2>1
  <2> QED
    BY <1>1, <1>3, <2>1, <2>2, <2>3, OthersStay DEF IInv, WritePCs, MergePCs
<1>6. HandleInv'
  <2>1. \A u \in Threads : pc[u] = "forget" => pc'[u] = "forget"
    BY <1>1 DEF IInv, ArgInv
  <2> QED
    BY <1>1, <2>1, HandlesStay DEF IInv, diskVars
<1> QED
  BY <1>3, <1>4, <1>5, <1>6 DEF IInv, Advances

\* Engine::sync.
LEMMA SyncOK ==
    ASSUME IInv, NEW t \in Threads, Sync(t), UNCHANGED mergeVars
    PROVE  IInv'
<1>1. /\ UNCHANGED <<history, linked, active_id, next_file_id>>
      /\ UNCHANGED <<keydir, readers, pc, arg, merging>>
      /\ files' = WithSync(files, active_id)
  BY DEF Sync, memVars, mergeVars
<1>2. /\ Len(history) \in Nat /\ FilesOK(files, Len(history)) /\ active_id \in DOMAIN files
      /\ history \in Seq(Write) /\ next_file_id \in Nat
  BY DEF IInv, DiskInv
<1>3. FilesOK(files', Len(history)) /\ Grows(files, files') /\ DOMAIN files' = DOMAIN files
  BY <1>1, <1>2, WithSyncOK
<1>4. Advances
  <2>1. HistoryGrows /\ history' \in Seq(Write) /\ FilesOK(files', Len(history'))
        /\ next_file_id' \in Nat /\ next_file_id <= next_file_id'
    BY <1>1, <1>2, <1>3 DEF HistoryGrows
  <2> QED
    BY <1>1, <1>3, <2>1, FilesAdvance DEF IInv
<1>5. DiskInv' /\ KeydirInv'
  BY <1>1, <1>4, KeydirStays DEF IInv, Advances
<1>6. ArgInv' /\ MergesInv'
  <2>1. pc \in [Threads -> PCs] /\ arg \in [Threads -> Arg] /\ merging \in [Threads -> MergeRec]
    BY DEF IInv, ArgInv, MergesInv
  <2>2. pc[t] = "idle" /\ pc'[t] = "idle"
    BY <1>1 DEF Sync, MayStart
  <2> QED
    BY <1>1, <1>4, <2>1, <2>2, OthersStay DEF IInv, WritePCs, MergePCs
<1>7. HandleInv'
  BY <1>1, <1>3, HandlesStay DEF IInv
<1> QED
  BY <1>5, <1>6, <1>7 DEF IInv

\* get and fold, taking entries of the keydir.
LEMMA TakeEntriesOK ==
    ASSUME IInv, NEW t \in Threads, NEW K, TakeEntries(t, K), UNCHANGED mergeVars
    PROVE  IInv'
<1>1. /\ UNCHANGED diskVars /\ UNCHANGED <<keydir, readers, arg, merging>>
      /\ pc[t] = "idle" /\ pc' = [pc EXCEPT ![t] = "read"]
  BY DEF TakeEntries, MayStart, mergeVars
<1>2. Advances
  BY <1>1, DiskStays DEF IInv
<1>3. DiskInv' /\ KeydirInv'
  BY <1>1, <1>2, KeydirStays DEF IInv, Advances
<1>4. ArgInv' /\ MergesInv'
  <2>1. pc \in [Threads -> PCs] /\ arg \in [Threads -> Arg] /\ merging \in [Threads -> MergeRec]
    BY DEF IInv, ArgInv, MergesInv
  <2>2. pc' \in [Threads -> PCs] /\ pc'[t] = "read"
    BY <1>1, <2>1 DEF PCs
  <2>3. \A u \in Threads \ {t} : pc'[u] = pc[u] /\ arg'[u] = arg[u] /\ merging'[u] = merging[u]
    BY <1>1, <2>1
  <2> QED
    BY <1>1, <1>2, <2>1, <2>2, <2>3, OthersStay DEF IInv, WritePCs, MergePCs
<1>5. HandleInv'
  <2>1. \A u \in Threads : pc[u] = "forget" => pc'[u] = "forget"
    BY <1>1 DEF IInv, ArgInv
  <2> QED
    BY <1>1, <2>1, HandlesStay DEF IInv, diskVars
<1> QED
  BY <1>3, <1>4, <1>5 DEF IInv

\* Only what is in the directory, or open already, gets a handle.
LEMMA ReadValueOK ==
    ASSUME IInv, NEW t \in Threads, NEW r, ReadValue(t, r), UNCHANGED mergeVars
    PROVE  IInv'
<1>1. /\ UNCHANGED diskVars /\ UNCHANGED <<keydir, arg, merging>> /\ pc[t] = "read"
      /\ \/ pc' = [pc EXCEPT ![t] = "idle"]
         \/ pc' = [pc EXCEPT ![t] = "read"]
      /\ readers' \subseteq readers \cup linked
  BY DEF ReadValue, mergeVars, CanOpen
<1>2. Advances
  BY <1>1, DiskStays DEF IInv
<1>3. DiskInv' /\ KeydirInv'
  BY <1>1, <1>2, KeydirStays DEF IInv, Advances
<1>4. ArgInv' /\ MergesInv'
  <2>1. pc \in [Threads -> PCs] /\ arg \in [Threads -> Arg] /\ merging \in [Threads -> MergeRec]
    BY DEF IInv, ArgInv, MergesInv
  <2>2. pc' \in [Threads -> PCs] /\ pc'[t] \in {"idle", "read"}
    BY <1>1, <2>1 DEF PCs
  <2>3. \A u \in Threads \ {t} : pc'[u] = pc[u] /\ arg'[u] = arg[u] /\ merging'[u] = merging[u]
    BY <1>1, <2>1
  <2> QED
    BY <1>1, <1>2, <2>1, <2>2, <2>3, OthersStay DEF IInv, WritePCs, MergePCs
<1>5. HandleInv'
  <2>1. \A u \in Threads : pc[u] = "forget" => pc'[u] = "forget"
    BY <1>1 DEF IInv, ArgInv
  <2>2. files' = files /\ linked' = linked
    BY <1>1 DEF diskVars
  <2>3. readers' \subseteq DOMAIN files'
    BY <1>1, <2>2 DEF IInv, HandleInv, DiskInv
  <2>4. ASSUME NEW f \in readers', f \notin linked'
        PROVE  \E u \in Threads : pc'[u] = "forget" /\ f = NextToRemove(merging'[u].rest)
    <3>1. PICK u \in Threads : pc[u] = "forget" /\ f = NextToRemove(merging[u].rest)
      BY <1>1, <2>2, <2>4 DEF IInv, HandleInv, NoLeakedHandle
    <3> QED
      BY <1>1, <2>1, <3>1
  <2> QED
    BY <2>3, <2>4 DEF HandleInv, NoLeakedHandle
<1> QED
  BY <1>3, <1>4, <1>5 DEF IInv

-----------------------------------------------------------------------------
(* The steps of a merge.                                                     *)

\* The locals before a merge are typed.
LEMMA NoMergeType == NoMerge \in MergeRec
<1>1. <<>> \in Seq(Repoint)
  OBVIOUS
<1> QED
  BY <1>1 DEF NoMerge, MergeRec

\* A step of a merge leaves the calls of the others in order.
LEMMA MergeMoves ==
    ASSUME IInv, Advances, NEW t \in Threads, NEW l \in PCs \ (WritePCs \cup {"delete"}),
           NEW m \in MergeRec, arg' = arg, pc' = [pc EXCEPT ![t] = l],
           merging' = [merging EXCEPT ![t] = m],
           l \in MergePCs => MergeOK(m, l, files', history', active_id')
    PROVE  ArgInv' /\ MergesInv'
<1>1. pc \in [Threads -> PCs] /\ arg \in [Threads -> Arg] /\ merging \in [Threads -> MergeRec]
  BY DEF IInv, ArgInv, MergesInv
<1>2. pc' \in [Threads -> PCs] /\ merging' \in [Threads -> MergeRec]
      /\ pc'[t] = l /\ merging'[t] = m
  BY <1>1
<1>3. \A u \in Threads \ {t} : pc'[u] = pc[u] /\ arg'[u] = arg[u] /\ merging'[u] = merging[u]
  BY <1>1
<1> QED
  BY <1>1, <1>2, <1>3, OthersStay DEF IInv

\* Every step but those that take a handle or a file away.
LEMMA MergeStepOK ==
    ASSUME IInv, Advances, NEW t \in Threads, NEW l \in PCs \ (WritePCs \cup {"delete"}),
           NEW m \in MergeRec, UNCHANGED <<arg, keydir, readers>>, pc[t] # "forget",
           pc' = [pc EXCEPT ![t] = l], merging' = [merging EXCEPT ![t] = m],
           linked \subseteq linked',
           l \in MergePCs => MergeOK(m, l, files', history', active_id')
    PROVE  IInv'
<1>1. DiskInv' /\ KeydirInv' /\ DOMAIN files \subseteq DOMAIN files'
  BY KeydirStays DEF IInv, Advances, Grows
<1>2. ArgInv' /\ MergesInv'
  BY MergeMoves
<1>3. HandleInv'
  <2>1. \A u \in Threads : pc[u] = "forget" =>
            pc'[u] = "forget" /\ merging'[u].rest = merging[u].rest
    BY DEF IInv, ArgInv, MergesInv
  <2> QED
    BY <1>1, <2>1, HandlesStay DEF IInv
<1> QED
  BY <1>1, <1>2, <1>3 DEF IInv

\* A merge that is over holds nothing.
LEMMA MergeEndsOK ==
    ASSUME IInv, Advances, NEW t \in Threads, EndMerge(t), UNCHANGED <<arg, keydir, readers>>,
           pc[t] # "forget", linked \subseteq linked'
    PROVE  IInv'
<1>1. "idle" \in PCs \ (WritePCs \cup {"delete"}) /\ "idle" \notin MergePCs
  BY DEF PCs, WritePCs, MergePCs
<1>2. pc' = [pc EXCEPT ![t] = "idle"] /\ merging' = [merging EXCEPT ![t] = NoMerge]
  BY DEF EndMerge, Goto, SetMerge
<1> QED
  BY <1>1, <1>2, MergeStepOK, NoMergeType

\* collect_input_ids.
LEMMA MergeStartOK ==
    ASSUME IInv, NEW t \in Threads, MergeStart(t)
    PROVE  IInv'
<1> DEFINE m == [NoMerge EXCEPT !.inputs = InputIds, !.rest = InputIds]
<1>1. /\ UNCHANGED diskVars /\ UNCHANGED <<keydir, readers, arg>> /\ pc[t] = "idle"
      /\ InputIds # {}
      /\ pc' = [pc EXCEPT ![t] = "open"] /\ merging' = [merging EXCEPT ![t] = m]
  BY DEF MergeStart, MayStart, SetMerge, Goto
<1>2. Advances /\ linked' = linked /\ files' = files /\ history' = history
      /\ active_id' = active_id
  BY <1>1, DiskStays DEF IInv, diskVars
<1>3. /\ InputIds \subseteq Nat /\ IsFiniteSet(InputIds) /\ InputIds \subseteq DOMAIN files
      /\ \A f \in InputIds : f < active_id
  BY FS_Subset DEF InputIds, IInv, DiskInv, FilesOK
<1>4. /\ m \in MergeRec /\ m.inputs = InputIds /\ m.rest = InputIds /\ m.queue = <<>>
      /\ m.at = 1 /\ m.upto = 0
  BY <1>3, NoMergeType DEF MergeRec, NoMerge
<1> HIDE DEF m
<1>5. MergeOK(m, "open", files, history, active_id)
  <2>1. InputsOK(m, "open", files, active_id)
    BY <1>1, <1>3, <1>4 DEF InputsOK
  <2>2. OutputOK(m, "open", files)
    BY <1>4 DEF OutputOK, CopyPCs, RepointPCs
  <2>3. QueueOK(m, "open", files, history)
    BY <1>4 DEF QueueOK
  <2> QED
    BY <2>1, <2>2, <2>3 DEF MergeOK
<1>6. "open" \in PCs \ (WritePCs \cup {"delete"})
  BY DEF PCs, MergePCs, WritePCs
<1> QED
  BY <1>1, <1>2, <1>4, <1>5, <1>6, MergeStepOK

\* What is known of a merge under way.
LEMMA MergeKnown ==
    ASSUME IInv, NEW t \in Threads, pc[t] \in MergePCs
    PROVE  /\ merging[t] \in MergeRec
           /\ InputsOK(merging[t], pc[t], files, active_id)
           /\ OutputOK(merging[t], pc[t], files)
           /\ QueueOK(merging[t], pc[t], files, history)
BY DEF IInv, MergesInv, MergeOK

\* MergeOutputWriter::new.
LEMMA MergeOpenOK ==
    ASSUME IInv, NEW t \in Threads, MergeOpen(t)
    PROVE  IInv'
<1> DEFINE o == merging[t]
           m == [o EXCEPT !.out = next_file_id, !.highest = next_file_id]
<1>1. /\ UNCHANGED <<history, active_id, keydir, readers, arg>> /\ pc[t] = "open"
      /\ files' = WithFile(files, next_file_id) /\ linked' = linked \cup {next_file_id}
      /\ next_file_id' = next_file_id + 1
      /\ pc' = [pc EXCEPT ![t] = "copy"] /\ merging' = [merging EXCEPT ![t] = m]
  BY DEF MergeOpen, SetMerge, Goto
<1>2. /\ o \in MergeRec /\ InputsOK(o, "open", files, active_id) /\ OutputOK(o, "open", files)
      /\ QueueOK(o, "open", files, history)
  BY <1>1, MergeKnown DEF MergePCs
<1>3. /\ Len(history) \in Nat /\ FilesOK(files, Len(history)) /\ Fresh(next_file_id, files)
      /\ history \in Seq(Write) /\ next_file_id \in Nat
  BY DEF IInv, DiskInv, FilesOK, Fresh
<1>4. /\ FilesOK(files', Len(history)) /\ Grows(files, files')
      /\ DOMAIN files' = DOMAIN files \cup {next_file_id}
  BY <1>1, <1>3, WithFileOK
<1>5. Advances
  <2>1. HistoryGrows /\ history' \in Seq(Write) /\ FilesOK(files', Len(history'))
    BY <1>1, <1>3, <1>4 DEF HistoryGrows
  <2> QED
    BY <1>1, <1>4, <2>1, FileAppears DEF IInv
<1>6. /\ m \in MergeRec /\ m.inputs = o.inputs /\ m.rest = o.rest /\ m.queue = <<>>
      /\ m.at = o.at /\ m.upto = 0 /\ m.out = next_file_id
  BY <1>2, <1>3 DEF MergeRec, QueueOK, OutputOK, CopyPCs, RepointPCs
<1> HIDE DEF o, m
<1>7. MergeOK(m, "copy", files', history', active_id')
  <2>1. m.at \in Nat /\ ~(m.at <= m.upto)
    BY <1>6 DEF MergeRec
  <2>2. InputsOK(m, "copy", files', active_id')
    BY <1>1, <1>2, <1>4, <1>6 DEF InputsOK
  <2>3. OutputOK(m, "copy", files')
    BY <1>4, <1>6, <2>1 DEF OutputOK
  <2>4. QueueOK(m, "copy", files', history')
    BY <1>6 DEF QueueOK, CopyPCs
  <2> QED
    BY <2>2, <2>3, <2>4 DEF MergeOK
<1>8. "copy" \in PCs \ (WritePCs \cup {"delete"})
  BY DEF PCs, MergePCs, WritePCs
<1> QED
  BY <1>1, <1>5, <1>6, <1>7, <1>8, MergeStepOK

\* read_all_entries of an input.
LEMMA MergeReadOK ==
    ASSUME IInv, NEW t \in Threads, MergeRead(t)
    PROVE  IInv'
<1> DEFINE o == merging[t]
           f == Min(o.rest)
           m == [o EXCEPT !.rest = o.rest \ {f}, !.file = f, !.at = 1,
                          !.upto = files[f].flushed]
<1>1. /\ UNCHANGED <<history, linked, active_id, next_file_id, keydir, readers, arg>>
      /\ pc[t] = "copy" /\ o.rest # {}
      /\ \/ f \in linked /\ files' = files /\ pc' = pc /\ merging' = [merging EXCEPT ![t] = m]
         \/ EndMerge(t) /\ files' = FlushOutput(files, o.out)
  BY DEF MergeRead, SetMerge
<1>2. o.out \in DOMAIN files
  BY <1>1, MergeKnown DEF OutputOK, CopyPCs, MergePCs
<1>3. CASE EndMerge(t) /\ files' = FlushOutput(files, o.out)
  <2> HIDE DEF o, f, m
  <2>1. Advances
    BY <1>1, <1>2, <1>3, FlushAdvances DEF IInv
  <2> QED
    BY <1>1, <1>3, <2>1, MergeEndsOK
<1>4. CASE f \in linked /\ files' = files /\ pc' = pc /\ merging' = [merging EXCEPT ![t] = m]
  <2>0. Advances
    BY <1>1, <1>4, DiskStays DEF IInv, diskVars
  <2>1. /\ o \in MergeRec /\ InputsOK(o, "copy", files, active_id)
        /\ OutputOK(o, "copy", files) /\ QueueOK(o, "copy", files, history)
    BY <1>1, MergeKnown DEF MergePCs
  <2>2. f \in o.rest /\ f \in o.inputs /\ f \in Nat
    BY <1>1, <2>1, MinIsLeast DEF MergeRec, InputsOK
  <2>3. files[f].flushed \in Nat /\ files[f].flushed <= Len(files[f].entries)
    BY <2>1, <2>2 DEF IInv, DiskInv, FilesOK, FileOf, InputsOK
  <2> HIDE DEF f
  <2>4. /\ m \in MergeRec /\ m.inputs = o.inputs /\ m.rest = o.rest \ {f}
        /\ m.queue = o.queue /\ m.file = f /\ m.upto = files[f].flushed /\ m.out = o.out
    <3>1. o.rest \ {f} \in SUBSET Nat /\ 1 \in Nat \ {0}
      BY <2>1 DEF MergeRec
    <3> QED
      BY <2>1, <2>2, <2>3, <3>1 DEF MergeRec
  <2> HIDE DEF o, m
  <2>5. InputsOK(m, "copy", files, active_id)
    BY <2>1, <2>4 DEF InputsOK
  <2>6. OutputOK(m, "copy", files)
    BY <2>1, <2>2, <2>3, <2>4 DEF OutputOK
  <2>7. QueueOK(m, "copy", files, history)
    BY <2>1, <2>4 DEF QueueOK
  <2>8. MergeOK(m, "copy", files', history', active_id')
    BY <1>1, <1>4, <2>5, <2>6, <2>7 DEF MergeOK
  <2>9. "copy" \in PCs \ (WritePCs \cup {"delete"})
    BY DEF PCs, MergePCs, WritePCs
  <2>10. pc' = [pc EXCEPT ![t] = "copy"]
    BY <1>1, <1>4 DEF IInv, ArgInv
  <2>11. /\ UNCHANGED <<arg, keydir, readers>> /\ linked \subseteq linked'
         /\ pc[t] # "forget" /\ m \in MergeRec /\ merging' = [merging EXCEPT ![t] = m]
    BY <1>1, <1>4, <2>4
  <2> QED
    BY <2>0, <2>8, <2>9, <2>10, <2>11, MergeStepOK
<1> QED
  BY <1>1, <1>3, <1>4

\* The place the copying is at, and the place of its copy.
OldPlace(m) == [file_id |-> m.file, value_pos |-> m.at]
CopyPlace(m) == [file_id |-> m.out, value_pos |-> Len(files[m.out].entries) + 1]
CopyOf(m) == [key |-> history[EntryAt(m)].key, old |-> OldPlace(m), new |-> CopyPlace(m)]

\* The entry a merge is at is in its input.
LEMMA EntryAtOK ==
    ASSUME IInv, NEW t \in Threads, pc[t] = "copy", merging[t].at <= merging[t].upto
    PROVE  /\ EntryAt(merging[t]) \in 1..Len(history)
           /\ history[EntryAt(merging[t])] \in Write
           /\ InFile(files, OldPlace(merging[t]))
           /\ EntryIn(files, OldPlace(merging[t])) = EntryAt(merging[t])
<1> DEFINE m == merging[t]
<1>1. m \in MergeRec /\ OutputOK(m, "copy", files) /\ InputsOK(m, "copy", files, active_id)
  BY MergeKnown DEF MergePCs
<1>2. m.file \in DOMAIN files /\ m.upto <= Len(files[m.file].entries)
      /\ m.at \in Nat /\ m.at >= 1 /\ m.upto \in Nat /\ m.file \in Nat
  BY <1>1 DEF OutputOK, InputsOK, MergeRec
<1>3. files[m.file].entries \in Seq(1..Len(history)) /\ Len(files[m.file].entries) \in Nat
  BY <1>2 DEF IInv, DiskInv, FilesOK, FileOf
<1>4. m.at \in 1..Len(files[m.file].entries)
  BY <1>2, <1>3
<1>5. EntryAt(m) \in 1..Len(history)
  BY <1>3, <1>4 DEF EntryAt
<1>6. history[EntryAt(m)] \in Write
  BY <1>5 DEF IInv, DiskInv
<1> QED
  BY <1>2, <1>4, <1>5, <1>6 DEF EntryAt, OldPlace, InFile, EntryIn, Location

\* Once a live entry is buffered its repoint leads from it to a copy.
LEMMA BufferedOK ==
    ASSUME IInv, NEW t \in Threads, pc[t] = "copy", merging[t].at <= merging[t].upto,
           IsLive(merging[t]),
           NEW fs, fs = WithBuffered(files, merging[t].out, EntryAt(merging[t]))
    PROVE  /\ FilesOK(fs, Len(history)) /\ Grows(files, fs) /\ DOMAIN fs = DOMAIN files
           /\ merging[t].out \in DOMAIN files
           /\ Len(fs[merging[t].out].entries) = Len(files[merging[t].out].entries) + 1
           /\ RepointOK(fs, history, CopyOf(merging[t]))
           /\ CopyOf(merging[t]) \in Repoint
<1> DEFINE m == merging[t]
           out == m.out
           e == EntryAt(m)
           n == Len(history)
<1>1. m \in MergeRec /\ OutputOK(m, "copy", files)
  BY MergeKnown DEF MergePCs
<1>2. out \in DOMAIN files /\ out \in Nat
  BY <1>1 DEF OutputOK, CopyPCs, MergeRec
<1>3. n \in Nat /\ FilesOK(files, n)
  BY DEF IInv, DiskInv
<1>4. /\ e \in 1..n /\ history[e] \in Write /\ InFile(files, OldPlace(m))
      /\ EntryIn(files, OldPlace(m)) = e
  BY EntryAtOK
<1>5. history[e] = [key |-> history[e].key, tomb |-> FALSE] /\ history[e].key \in Keys
  BY <1>4 DEF IsLive, Write
<1>6. Len(files[out].entries) \in Nat
  BY <1>2, <1>3 DEF FilesOK, FileOf
<1> HIDE DEF m, out, e, n
<1>7. fs = WithBuffered(files, out, e)
  BY DEF m, out, e
<1>8. /\ FilesOK(fs, n) /\ Grows(files, fs) /\ DOMAIN fs = DOMAIN files
      /\ Len(fs[out].entries) = Len(files[out].entries) + 1
      /\ fs[out].entries[Len(fs[out].entries)] = e
  BY <1>2, <1>3, <1>4, <1>7, WithBufferedOK
<1>9. CopyPlace(m) = [file_id |-> out, value_pos |-> Len(fs[out].entries)]
  BY <1>8 DEF CopyPlace, out
<1>10. /\ CopyPlace(m) \in Location /\ InFile(fs, CopyPlace(m))
       /\ EntryIn(fs, CopyPlace(m)) = e
  BY <1>2, <1>6, <1>8, <1>9 DEF Location, InFile, EntryIn
<1>11. InFile(fs, OldPlace(m)) /\ EntryIn(fs, OldPlace(m)) = e
  BY <1>3, <1>4, <1>8, PlacesGrow
<1>12. /\ CopyOf(m).key = history[e].key /\ CopyOf(m).old = OldPlace(m)
       /\ CopyOf(m).new = CopyPlace(m)
  BY DEF CopyOf, e
<1>13. CopyOf(m) \in Repoint
  BY <1>4, <1>5, <1>10 DEF CopyOf, Repoint, e, InFile
<1>14. RepointOK(fs, history, CopyOf(m))
  BY <1>5, <1>10, <1>11, <1>12 DEF RepointOK
<1> QED
  BY <1>2, <1>8, <1>13, <1>14 DEF m, out, e, n

\* The merge after a copy: to the loop, or to repointing with the batch flushed.
LEMMA CopiedOK ==
    ASSUME IInv, NEW t \in Threads, pc[t] = "copy", merging[t].at <= merging[t].upto,
           Advances, history' = history, active_id' = active_id,
           NEW fs, FilesOK(fs, Len(history)), Grows(fs, files'),
           RepointOK(fs, history, CopyOf(merging[t])), CopyOf(merging[t]) \in Repoint,
           NEW m \in MergeRec, m.inputs = merging[t].inputs, m.rest = merging[t].rest,
           m.file = merging[t].file, m.at = merging[t].at + 1, m.upto = merging[t].upto,
           m.queue = Append(merging[t].queue, CopyOf(merging[t])), m.out \in DOMAIN files',
           NEW l \in {"copy", "repoint"}, l = "copy" => m.out = merging[t].out,
           l = "repoint" => files'[merging[t].out].flushed
                               = Len(files'[merging[t].out].entries)
    PROVE  MergeOK(m, l, files', history', active_id')
<1> DEFINE o == merging[t]
           q == CopyOf(o)
           n == Len(history)
<1>1. /\ o \in MergeRec /\ InputsOK(o, "copy", files, active_id)
      /\ OutputOK(o, "copy", files) /\ QueueOK(o, "copy", files, history)
  BY MergeKnown DEF MergePCs
<1>2. n \in Nat /\ FilesOK(files', n) /\ DOMAIN files \subseteq DOMAIN files'
  BY DEF Advances, DiskInv, Grows, IInv
<1>3. InputsOK(m, l, files', active_id')
  BY <1>1, <1>2 DEF InputsOK
<1>4. OutputOK(m, l, files')
  <2>1. o.at \in Nat /\ o.upto \in Nat
    BY <1>1 DEF MergeRec
  <2>2. o.file \in o.inputs /\ o.upto <= Len(files[o.file].entries)
        /\ o.file \in DOMAIN files
    BY <1>1 DEF OutputOK, InputsOK
  <2>3. o.upto <= Len(files'[o.file].entries)
    BY <2>1, <2>2, IdsAdvance DEF IInv
  <2> QED
    BY <2>2, <2>3 DEF OutputOK
<1>5. QueueOK(m, l, files', history')
  <2>1. ASSUME NEW i \in DOMAIN m.queue
        PROVE  RepointOK(files', history, m.queue[i]) /\ m.queue[i].new.file_id = o.out
    <3>1. o.queue \in Seq(Repoint) /\ Len(o.queue) \in Nat
      BY <1>1 DEF MergeRec
    <3>2. CASE i \in DOMAIN o.queue
      <4>1. m.queue[i] = o.queue[i]
        BY <3>1, <3>2
      <4>2. RepointOK(files, history, o.queue[i]) /\ o.queue[i].new.file_id = o.out
        BY <1>1, <3>2 DEF QueueOK
      <4> QED
        BY <4>1, <4>2, RepointStays DEF IInv
    <3>3. CASE i \notin DOMAIN o.queue
      <4>1. m.queue[i] = q
        BY <3>1, <3>3
      <4>2. q.new.file_id = o.out
        BY DEF CopyOf, CopyPlace
      <4> HIDE DEF q
      <4>3. RepointOK(files', history, q)
        <5>1. RepointOK(fs, history, q) /\ n \in Nat
          BY <1>2 DEF q
        <5>2. /\ InFile(files', q.old) /\ EntryIn(files', q.old) = EntryIn(fs, q.old)
              /\ InFile(files', q.new) /\ EntryIn(files', q.new) = EntryIn(fs, q.new)
          BY <1>2, <5>1, PlacesGrow DEF RepointOK
        <5> QED
          BY <5>1, <5>2 DEF RepointOK
      <4> QED
        BY <4>1, <4>2, <4>3
    <3> QED
      BY <3>2, <3>3
  <2>2. ASSUME NEW i \in DOMAIN m.queue, l = "repoint"
        PROVE  OnOS(files', m.queue[i].new)
    BY <2>1, <2>2 DEF OnOS, InFile, RepointOK
  <2> QED
    BY <2>1, <2>2 DEF QueueOK, CopyPCs, RepointPCs
<1> QED
  BY <1>3, <1>4, <1>5 DEF MergeOK

\* One entry of copy_forward_live_file_entries.
LEMMA MergeEntryOK ==
    ASSUME IInv, NEW t \in Threads, MergeEntry(t)
    PROVE  IInv'
<1> DEFINE o == merging[t]
           n == Len(history)
           fs == WithBuffered(files, o.out, EntryAt(o))
           skipped == [o EXCEPT !.at = o.at + 1]
           copied == [o EXCEPT !.at = o.at + 1, !.since = o.since + 1,
                               !.queue = Append(o.queue, CopyOf(o))]
           turned == [copied EXCEPT !.out = next_file_id, !.since = 0,
                                    !.highest = RaisedTo(o.highest, next_file_id)]
           flushed == [copied EXCEPT !.since = 0]
<1>1. /\ UNCHANGED <<history, active_id, keydir, readers, arg>>
      /\ pc[t] = "copy" /\ o.at <= o.upto
  BY DEF MergeEntry
<1>2. /\ o \in MergeRec /\ InputsOK(o, "copy", files, active_id)
      /\ OutputOK(o, "copy", files) /\ QueueOK(o, "copy", files, history)
  BY <1>1, MergeKnown DEF MergePCs
<1>3. /\ n \in Nat /\ FilesOK(files, n) /\ history \in Seq(Write) /\ next_file_id \in Nat
      /\ Fresh(next_file_id, files)
  BY DEF IInv, DiskInv, FilesOK, Fresh
<1>4. /\ o.at \in Nat \ {0} /\ o.at + 1 \in Nat \ {0} /\ o.since \in Nat /\ o.since + 1 \in Nat
      /\ o.upto \in Nat /\ o.queue \in Seq(Repoint) /\ o.out \in Nat /\ o.highest \in Nat
  BY <1>2 DEF MergeRec
<1>5. "copy" \in PCs \ (WritePCs \cup {"delete"}) /\ "repoint" \in PCs \ (WritePCs \cup {"delete"})
  BY DEF PCs, MergePCs, WritePCs
<1>6. pc = [pc EXCEPT ![t] = "copy"]
  BY <1>1 DEF IInv, ArgInv
<1>7. HistoryGrows
  BY <1>1, <1>3 DEF HistoryGrows
<1>8. CASE /\ merging' = [merging EXCEPT ![t] = skipped]
           /\ UNCHANGED <<files, linked, next_file_id, pc>>
  <2>1. Advances
    BY <1>1, <1>8, DiskStays DEF IInv, diskVars
  <2>2. /\ skipped \in MergeRec /\ skipped.inputs = o.inputs /\ skipped.rest = o.rest
        /\ skipped.out = o.out /\ skipped.upto = o.upto /\ skipped.file = o.file
        /\ skipped.queue = o.queue /\ skipped.at = o.at + 1
    BY <1>2, <1>4 DEF MergeRec
  <2> HIDE DEF skipped, o
  <2>3. InputsOK(skipped, "copy", files, active_id)
    BY <1>2, <2>2 DEF InputsOK
  <2>4. OutputOK(skipped, "copy", files)
    BY <1>1, <1>2, <1>4, <2>2 DEF OutputOK
  <2>5. QueueOK(skipped, "copy", files, history)
    BY <1>2, <2>2 DEF QueueOK
  <2>6. MergeOK(skipped, "copy", files', history', active_id')
    BY <1>1, <1>8, <2>3, <2>4, <2>5 DEF MergeOK
  <2> QED
    BY <1>1, <1>5, <1>6, <1>8, <2>1, <2>2, <2>6, MergeStepOK
<1>9. CASE IsLive(o)
  <2>1. /\ FilesOK(fs, n) /\ Grows(files, fs) /\ DOMAIN fs = DOMAIN files
        /\ o.out \in DOMAIN files
        /\ Len(fs[o.out].entries) = Len(files[o.out].entries) + 1
        /\ RepointOK(fs, history, CopyOf(o)) /\ CopyOf(o) \in Repoint
    <3> HIDE DEF fs
    <3> QED
      BY <1>1, <1>9, BufferedOK DEF fs
  <2>2. Queued(o.queue, history[EntryAt(o)].key, [file_id |-> o.file, value_pos |-> o.at],
               [file_id |-> o.out, value_pos |-> Len(fs[o.out].entries)])
           = Append(o.queue, CopyOf(o))
    BY <2>1 DEF Queued, CopyOf, OldPlace, CopyPlace
  <2>3. Append(o.queue, CopyOf(o)) \in Seq(Repoint)
    BY <1>4, <2>1
  <2>4. \/ /\ files' = RotateOutput(fs, o.out) /\ linked' = linked \cup {next_file_id}
           /\ next_file_id' = next_file_id + 1
           /\ merging' = [merging EXCEPT ![t] = turned]
           /\ pc' = [pc EXCEPT ![t] = "repoint"]
        \/ /\ files' = FlushOutput(fs, o.out) /\ UNCHANGED <<linked, next_file_id>>
           /\ merging' = [merging EXCEPT ![t] = flushed]
           /\ pc' = [pc EXCEPT ![t] = "repoint"]
        \/ /\ files' = fs /\ UNCHANGED <<linked, next_file_id, pc>>
           /\ merging' = [merging EXCEPT ![t] = copied]
    <3> HIDE DEF fs
    <3> QED
      BY <1>9, <2>2, ZenonT(60) DEF MergeEntry, SetMerge, Goto, fs
  <2>5. CASE /\ files' = RotateOutput(fs, o.out) /\ linked' = linked \cup {next_file_id}
             /\ next_file_id' = next_file_id + 1
             /\ merging' = [merging EXCEPT ![t] = turned]
             /\ pc' = [pc EXCEPT ![t] = "repoint"]
    <3>1. o.out \in DOMAIN fs /\ Fresh(next_file_id, fs)
      BY <1>3, <2>1 DEF Fresh
    <3>2. RaisedTo(o.highest, next_file_id) \in Nat
      BY <1>3, <1>4 DEF RaisedTo
    <3>3. /\ turned \in MergeRec /\ turned.inputs = o.inputs /\ turned.rest = o.rest
          /\ turned.file = o.file /\ turned.at = o.at + 1 /\ turned.upto = o.upto
          /\ turned.queue = Append(o.queue, CopyOf(o)) /\ turned.out = next_file_id
      BY <1>2, <1>3, <1>4, <2>3, <3>2 DEF MergeRec
    <3> HIDE DEF fs, turned
    <3>4. files' = WithFile(WithSync(fs, o.out), next_file_id)
      BY <2>5 DEF RotateOutput
    <3>5. /\ FilesOK(files', n) /\ Grows(fs, files')
          /\ DOMAIN files' = DOMAIN fs \cup {next_file_id}
          /\ files'[o.out].flushed = Len(files'[o.out].entries)
      <4>1. n \in Nat /\ FilesOK(fs, n)
        BY <1>3, <2>1
      <4> DEFINE out == o.out
      <4>2. out \in DOMAIN fs /\ files' = WithFile(WithSync(fs, out), next_file_id)
        BY <3>1, <3>4
      <4> HIDE DEF n, out
      <4>3. /\ FilesOK(files', n) /\ Grows(fs, files')
            /\ DOMAIN files' = DOMAIN fs \cup {next_file_id}
            /\ files'[out].flushed = Len(files'[out].entries)
        BY <3>1, <4>1, <4>2, RotationOK, SMTT(20)
      <4> QED
        BY <4>3 DEF out
    <3>6. Grows(files, files')
      <4> HIDE DEF n
      <4> QED
        BY <1>3, <2>1, <3>5, GrowsTransitive
    <3>7. Advances
      BY <1>1, <1>3, <1>7, <2>1, <2>5, <3>5, <3>6, FileAppears DEF IInv
    <3>8. MergeOK(turned, "repoint", files', history', active_id')
      BY <1>1, <2>1, <3>3, <3>5, <3>7, CopiedOK
    <3> QED
      BY <1>1, <1>5, <2>5, <3>3, <3>7, <3>8, MergeStepOK
  <2>6. CASE /\ files' = FlushOutput(fs, o.out) /\ UNCHANGED <<linked, next_file_id>>
             /\ merging' = [merging EXCEPT ![t] = flushed]
             /\ pc' = [pc EXCEPT ![t] = "repoint"]
    <3>1. /\ flushed \in MergeRec /\ flushed.inputs = o.inputs /\ flushed.rest = o.rest
          /\ flushed.file = o.file /\ flushed.at = o.at + 1 /\ flushed.upto = o.upto
          /\ flushed.queue = Append(o.queue, CopyOf(o)) /\ flushed.out = o.out
      BY <1>2, <1>3, <1>4, <2>3 DEF MergeRec
    <3> HIDE DEF fs, flushed
    <3>2. /\ FilesOK(files', n) /\ Grows(fs, files') /\ DOMAIN files' = DOMAIN fs
          /\ files'[o.out].flushed = Len(files'[o.out].entries)
      <4> HIDE DEF n
      <4> QED
        BY <1>3, <2>1, <2>6, FlushOutputOK
    <3>3. Grows(files, files')
      <4> HIDE DEF n
      <4> QED
        BY <1>3, <2>1, <3>2, GrowsTransitive
    <3>4. Advances
      <4>1. next_file_id' \in Nat /\ next_file_id <= next_file_id'
        BY <1>3, <2>6
      <4> QED
        BY <1>1, <1>3, <1>7, <2>1, <2>6, <3>2, <3>3, <4>1, FilesAdvance DEF IInv
    <3>5. MergeOK(flushed, "repoint", files', history', active_id')
      BY <1>1, <2>1, <3>1, <3>2, <3>4, CopiedOK
    <3> QED
      BY <1>1, <1>5, <2>6, <3>1, <3>4, <3>5, MergeStepOK
  <2>7. CASE /\ files' = fs /\ UNCHANGED <<linked, next_file_id, pc>>
             /\ merging' = [merging EXCEPT ![t] = copied]
    <3>1. /\ copied \in MergeRec /\ copied.inputs = o.inputs /\ copied.rest = o.rest
          /\ copied.file = o.file /\ copied.at = o.at + 1 /\ copied.upto = o.upto
          /\ copied.queue = Append(o.queue, CopyOf(o)) /\ copied.out = o.out
      BY <1>2, <1>3, <1>4, <2>3 DEF MergeRec
    <3> HIDE DEF fs, copied
    <3>2. Grows(fs, files')
      BY <2>1, <2>7, GrowsReflexive
    <3>3. Advances
      <4>1. next_file_id' \in Nat /\ next_file_id <= next_file_id'
        BY <1>3, <2>7
      <4> QED
        BY <1>1, <1>3, <1>7, <2>1, <2>7, <4>1, FilesAdvance DEF IInv
    <3>4. MergeOK(copied, "copy", files', history', active_id')
      BY <1>1, <2>1, <2>7, <3>1, <3>2, <3>3, CopiedOK
    <3> QED
      BY <1>1, <1>5, <1>6, <2>7, <3>1, <3>3, <3>4, MergeStepOK
  <2> QED
    BY <2>4, <2>5, <2>6, <2>7
<1> QED
  BY <1>8, <1>9 DEF MergeEntry, SetMerge

\* One cas_repoint of apply_pending_repoints.
LEMMA MergeRepointOK ==
    ASSUME IInv, NEW t \in Threads, MergeRepoint(t)
    PROVE  IInv'
<1> DEFINE o == merging[t]
           q == Head(o.queue)
           m == [o EXCEPT !.queue = Tail(o.queue)]
           l == pc[t]
<1>1. /\ UNCHANGED diskVars /\ UNCHANGED <<readers, arg>> /\ l \in RepointPCs
      /\ \/ /\ o.queue # <<>> /\ keydir' = Repointed(q.key, q.old, q.new)
            /\ merging' = [merging EXCEPT ![t] = m] /\ pc' = pc
         \/ /\ o.queue = <<>> /\ UNCHANGED <<keydir, merging>>
            /\ pc' = [pc EXCEPT ![t] = IF l = "repoint" THEN "copy" ELSE "remove"]
  BY DEF MergeRepoint, SetMerge, Goto, RepointPCs
<1>2. /\ Advances /\ linked' = linked /\ files' = files /\ history' = history
      /\ active_id' = active_id
  BY <1>1, DiskStays DEF IInv, diskVars
<1>3. l \in MergePCs /\ l \in CopyPCs /\ l # "forget" /\ l \in PCs \ (WritePCs \cup {"delete"})
  BY <1>1 DEF MergePCs, PCs, WritePCs, RepointPCs, CopyPCs
<1>4. /\ o \in MergeRec /\ InputsOK(o, l, files, active_id)
      /\ OutputOK(o, l, files) /\ QueueOK(o, l, files, history)
  BY <1>3, MergeKnown
<1>5. CASE /\ o.queue # <<>> /\ keydir' = Repointed(q.key, q.old, q.new)
           /\ merging' = [merging EXCEPT ![t] = m] /\ pc' = pc
  <2>1. /\ o.queue \in Seq(Repoint) /\ Len(o.queue) \in Nat /\ 1 \in DOMAIN o.queue
        /\ q = o.queue[1] /\ q \in Repoint
    BY <1>4, <1>5 DEF MergeRec
  <2>2. RepointOK(files, history, q) /\ OnOS(files, q.new)
    BY <1>1, <1>4, <2>1 DEF QueueOK
  <2>3. /\ Tail(o.queue) \in Seq(Repoint)
        /\ \A i \in DOMAIN Tail(o.queue) : i + 1 \in DOMAIN o.queue
                                           /\ Tail(o.queue)[i] = o.queue[i + 1]
    BY <1>5, <2>1
  <2>4. /\ m \in MergeRec /\ m.inputs = o.inputs /\ m.rest = o.rest /\ m.out = o.out
        /\ m.upto = o.upto /\ m.file = o.file /\ m.at = o.at /\ m.queue = Tail(o.queue)
    BY <1>4, <2>3 DEF MergeRec
  <2> HIDE DEF q, m
  <2>5. KeydirInv'
    <3>1. keydir \in Keydirs /\ q.new \in Location /\ q.key \in Keys
      BY <2>1 DEF IInv, KeydirInv, Repoint
    <3>2. keydir' \in Keydirs
      BY <1>5, <3>1 DEF Repointed, Keydirs
    <3>3. \A k \in Keys : keydir'[k] = keydir[k] \/ (k = q.key /\ keydir'[k] = q.new)
      BY <1>5, <3>1 DEF Repointed, Keydirs
    <3>4. ASSUME NEW k \in Keys, keydir'[k] # None
          PROVE  /\ OnOS(files, keydir'[k])
                 /\ history[EntryIn(files, keydir'[k])] = [key |-> k, tomb |-> FALSE]
      <4>1. CASE keydir'[k] = keydir[k]
        BY <3>4, <4>1 DEF IInv, KeydirInv
      <4>2. CASE k = q.key /\ keydir'[k] = q.new
        BY <2>2, <4>2 DEF RepointOK
      <4> QED
        BY <3>3, <4>1, <4>2
    <3> QED
      BY <1>2, <3>2, <3>4 DEF KeydirInv
  <2>6. MergeOK(m, l, files', history', active_id')
    <3> HIDE DEF l, o
    <3>1. InputsOK(m, l, files, active_id)
      BY <1>4, <2>4 DEF InputsOK
    <3>2. OutputOK(m, l, files)
      BY <1>4, <2>4 DEF OutputOK
    <3>3. QueueOK(m, l, files, history)
      BY <1>3, <1>4, <2>3, <2>4 DEF QueueOK
    <3> QED
      BY <1>2, <3>1, <3>2, <3>3 DEF MergeOK
  <2>7. pc' = [pc EXCEPT ![t] = l]
    BY <1>5 DEF IInv, ArgInv
  <2>8. ArgInv' /\ MergesInv'
    BY <1>1, <1>2, <1>3, <1>5, <2>4, <2>6, <2>7, MergeMoves
  <2>9. HandleInv'
    <3>1. \A u \in Threads : pc[u] = "forget" =>
              pc'[u] = "forget" /\ merging'[u].rest = merging[u].rest
      BY <1>3, <1>5 DEF IInv, ArgInv, MergesInv
    <3> QED
      BY <1>1, <1>2, <3>1, HandlesStay DEF IInv
  <2> QED
    BY <1>2, <2>5, <2>8, <2>9 DEF IInv, Advances
<1>6. CASE /\ o.queue = <<>> /\ UNCHANGED <<keydir, merging>>
           /\ pc' = [pc EXCEPT ![t] = IF l = "repoint" THEN "copy" ELSE "remove"]
  <2> DEFINE g == IF l = "repoint" THEN "copy" ELSE "remove"
  <2>1. MergeOK(o, g, files, history, active_id)
    <3> HIDE DEF o
    <3>1. InputsOK(o, g, files, active_id)
      BY <1>1, <1>4 DEF InputsOK, RepointPCs
    <3>2. OutputOK(o, g, files)
      BY <1>1, <1>4 DEF OutputOK, RepointPCs, CopyPCs
    <3>3. QueueOK(o, g, files, history)
      BY <1>6 DEF QueueOK
    <3> QED
      BY <3>1, <3>2, <3>3 DEF MergeOK
  <2>2. g \in PCs \ (WritePCs \cup {"delete"})
    BY DEF PCs, MergePCs, WritePCs
  <2>3. merging' = [merging EXCEPT ![t] = o]
    BY <1>6 DEF IInv, MergesInv
  <2>4. pc' = [pc EXCEPT ![t] = g]
    BY <1>6
  <2> HIDE DEF g, o, l
  <2> QED
    BY <1>1, <1>2, <1>3, <1>4, <1>6, <2>1, <2>2, <2>3, <2>4, MergeStepOK DEF l
<1> QED
  BY <1>1, <1>5, <1>6

\* MergeOutputWriter::finish.
LEMMA MergeFinishOK ==
    ASSUME IInv, NEW t \in Threads, MergeFinish(t)
    PROVE  IInv'
<1> DEFINE o == merging[t]
           m == [o EXCEPT !.rest = o.inputs]
           n == Len(history)
<1>1. /\ UNCHANGED <<history, linked, active_id, next_file_id>>
      /\ UNCHANGED <<keydir, readers, arg>> /\ pc[t] = "copy"
      /\ o.at > o.upto
      /\ files' = WithSync(files, o.out)
      /\ pc' = [pc EXCEPT ![t] = "repoint_last"] /\ merging' = [merging EXCEPT ![t] = m]
  BY DEF MergeFinish, SetMerge, Goto
<1>2. /\ o \in MergeRec /\ InputsOK(o, "copy", files, active_id)
      /\ OutputOK(o, "copy", files) /\ QueueOK(o, "copy", files, history)
  BY <1>1, MergeKnown DEF MergePCs
<1>3. /\ n \in Nat /\ FilesOK(files, n) /\ history \in Seq(Write) /\ next_file_id \in Nat
      /\ o.out \in DOMAIN files
  BY <1>2 DEF IInv, DiskInv, OutputOK, CopyPCs
<1>4. /\ FilesOK(files', n) /\ Grows(files, files') /\ DOMAIN files' = DOMAIN files
      /\ files'[o.out].flushed = Len(files'[o.out].entries)
  <2> HIDE DEF n
  <2> QED
    BY <1>1, <1>3, WithSyncOK
<1>5. Advances
  <2>1. HistoryGrows /\ next_file_id' \in Nat /\ next_file_id <= next_file_id'
    BY <1>1, <1>3 DEF HistoryGrows
  <2> QED
    BY <1>1, <1>3, <1>4, <2>1, FilesAdvance DEF IInv
<1>6. /\ m \in MergeRec /\ m.inputs = o.inputs /\ m.rest = o.inputs /\ m.out = o.out
      /\ m.upto = o.upto /\ m.file = o.file /\ m.at = o.at /\ m.queue = o.queue
  BY <1>2 DEF MergeRec
<1>7. MergeOK(m, "repoint_last", files', history', active_id')
  <2> HIDE DEF o, m
  <2>1. InputsOK(m, "repoint_last", files', active_id')
    BY <1>1, <1>2, <1>4, <1>6 DEF InputsOK
  <2>2. OutputOK(m, "repoint_last", files')
    <3>1. o.at \in Nat /\ o.upto \in Nat
      BY <1>2 DEF MergeRec
    <3> QED
      BY <1>1, <1>3, <1>4, <1>6, <3>1 DEF OutputOK
  <2>3. QueueOK(m, "repoint_last", files', history')
    <3>1. ASSUME NEW i \in DOMAIN m.queue
          PROVE  /\ RepointOK(files', history', m.queue[i])
                 /\ OnOS(files', m.queue[i].new)
      <4>1. RepointOK(files, history, o.queue[i]) /\ o.queue[i].new.file_id = o.out
        BY <1>2, <1>6, <3>1 DEF QueueOK
      <4>2. RepointOK(files', history', o.queue[i])
        BY <1>5, <4>1, RepointStays DEF IInv
      <4> QED
        BY <1>4, <1>6, <4>1, <4>2 DEF OnOS, InFile, RepointOK
    <3> QED
      BY <3>1 DEF QueueOK, CopyPCs, RepointPCs
  <2> QED
    BY <2>1, <2>2, <2>3 DEF MergeOK
<1>8. "repoint_last" \in PCs \ (WritePCs \cup {"delete"})
  BY DEF PCs, MergePCs, WritePCs
<1> HIDE DEF m
<1> QED
  BY <1>1, <1>5, <1>6, <1>7, <1>8, MergeStepOK

\* The next file to remove is an input below the active file.
LEMMA NextToRemoveOK ==
    ASSUME IInv, NEW t \in Threads, pc[t] \in {"remove", "forget"}
    PROVE  /\ NextToRemove(merging[t].rest) \in merging[t].rest
           /\ NextToRemove(merging[t].rest) \in DOMAIN files
           /\ NextToRemove(merging[t].rest) < active_id
<1>1. pc[t] \in MergePCs
  BY DEF MergePCs
<1>2. merging[t] \in MergeRec /\ InputsOK(merging[t], pc[t], files, active_id)
  BY <1>1, MergeKnown
<1>3. merging[t].rest \subseteq Nat /\ merging[t].rest # {}
  BY <1>2 DEF InputsOK, MergeRec
<1>4. Min(merging[t].rest) \in merging[t].rest
  BY <1>3, MinIsLeast
<1> QED
  BY <1>2, <1>4 DEF NextToRemove, InputsOK

\* remove_file on an input.
LEMMA MergeRemoveOK ==
    ASSUME IInv, NEW t \in Threads, MergeRemove(t)
    PROVE  IInv'
<1> DEFINE f == NextToRemove(merging[t].rest)
           o == merging[t]
<1>1. /\ UNCHANGED <<history, files, active_id, next_file_id>>
      /\ UNCHANGED <<keydir, readers, arg, merging>> /\ pc[t] = "remove"
      /\ linked' = linked \ {f} \/ linked' = linked
      /\ pc' = [pc EXCEPT ![t] = "forget"]
  BY DEF MergeRemove, Goto, mergeVars
<1>2. f \in DOMAIN files /\ f < active_id
  BY <1>1, NextToRemoveOK
<1>3. DiskInv'
  <2>1. active_id \in Nat /\ active_id \in linked /\ DOMAIN files \subseteq Nat
        /\ IsFiniteSet(linked)
    BY DEF IInv, DiskInv, FilesOK
  <2>2. IsFiniteSet(linked') /\ linked' \subseteq DOMAIN files' /\ active_id \in linked'
    <3>1. linked \subseteq DOMAIN files
      BY DEF IInv, DiskInv
    <3>2. f # active_id
      BY <1>2, <2>1
    <3> HIDE DEF f
    <3>3. IsFiniteSet(linked')
      BY <1>1, <2>1, FS_RemoveElement
    <3> QED
      BY <1>1, <2>1, <3>1, <3>2, <3>3
  <2>3. \A g \in DOMAIN files' \ linked' : g < active_id'
    BY <1>1, <1>2 DEF IInv, DiskInv
  <2> QED
    BY <1>1, <2>2, <2>3 DEF IInv, DiskInv
<1>4. Advances
  <2>1. Grows(files, files')
    BY <1>1, GrowsReflexive DEF IInv, DiskInv
  <2>2. active_id \in Nat /\ Len(history) \in Nat
    BY DEF IInv, DiskInv, FilesOK
  <2> QED
    BY <1>1, <1>3, <2>1, <2>2 DEF Advances, HistoryGrows
<1>5. /\ o \in MergeRec /\ InputsOK(o, "remove", files, active_id)
      /\ OutputOK(o, "remove", files) /\ QueueOK(o, "remove", files, history)
  BY <1>1, MergeKnown DEF MergePCs
<1>6. MergeOK(o, "forget", files', history', active_id')
  <2> HIDE DEF o
  <2>1. InputsOK(o, "forget", files, active_id)
    BY <1>5 DEF InputsOK
  <2>2. OutputOK(o, "forget", files)
    BY <1>5 DEF OutputOK, CopyPCs, RepointPCs
  <2>3. QueueOK(o, "forget", files, history)
    BY <1>5 DEF QueueOK, CopyPCs, RepointPCs
  <2> QED
    BY <1>1, <2>1, <2>2, <2>3 DEF MergeOK
<1>7. "forget" \in PCs \ (WritePCs \cup {"delete"}) /\ merging' = [merging EXCEPT ![t] = o]
  BY <1>1 DEF PCs, MergePCs, WritePCs, IInv, MergesInv
<1>8. ArgInv' /\ MergesInv'
  BY <1>1, <1>4, <1>5, <1>6, <1>7, MergeMoves
<1>9. KeydirInv'
  BY <1>1, <1>4, KeydirStays DEF IInv
<1>10. HandleInv'
  <2>1. readers' \subseteq DOMAIN files'
    BY <1>1 DEF IInv, HandleInv
  <2>2. pc'[t] = "forget" /\ merging' = merging
        /\ \A u \in Threads : pc[u] = "forget" => pc'[u] = "forget"
    BY <1>1 DEF IInv, ArgInv
  <2>3. ASSUME NEW g \in readers', g \notin linked'
        PROVE  \E u \in Threads : pc'[u] = "forget" /\ g = NextToRemove(merging'[u].rest)
    <3>1. CASE g = f
      BY <2>2, <3>1
    <3>2. CASE g # f
      <4>1. PICK u \in Threads : pc[u] = "forget" /\ g = NextToRemove(merging[u].rest)
        BY <1>1, <2>3, <3>2 DEF IInv, HandleInv, NoLeakedHandle
      <4> QED
        BY <2>2, <4>1
    <3> QED
      BY <3>1, <3>2
  <2> QED
    BY <2>1, <2>3 DEF HandleInv, NoLeakedHandle
<1> QED
  BY <1>3, <1>8, <1>9, <1>10 DEF IInv

\* DataFileSet::forget of an input.
LEMMA MergeForgetOK ==
    ASSUME IInv, NEW t \in Threads, MergeForget(t)
    PROVE  IInv'
<1> DEFINE o == merging[t]
           f == NextToRemove(o.rest)
           m == [o EXCEPT !.rest = o.rest \ {f}]
           l == IF o.rest = {f} THEN "restore" ELSE "remove"
<1>1. /\ UNCHANGED diskVars /\ UNCHANGED <<keydir, arg>> /\ pc[t] = "forget"
      /\ readers' = readers \ {f}
      /\ pc' = [pc EXCEPT ![t] = l] /\ merging' = [merging EXCEPT ![t] = m]
  BY DEF MergeForget, SetMerge, Goto, WithoutHandle
<1>2. /\ Advances /\ linked' = linked /\ files' = files /\ history' = history
      /\ active_id' = active_id
  BY <1>1, DiskStays DEF IInv, diskVars
<1>3. /\ o \in MergeRec /\ InputsOK(o, "forget", files, active_id)
      /\ OutputOK(o, "forget", files) /\ QueueOK(o, "forget", files, history)
  BY <1>1, MergeKnown DEF MergePCs
<1>4. f \in o.rest
  BY <1>1, NextToRemoveOK
<1>5. /\ m \in MergeRec /\ m.inputs = o.inputs /\ m.rest = o.rest \ {f} /\ m.out = o.out
      /\ m.upto = o.upto /\ m.file = o.file /\ m.at = o.at /\ m.queue = o.queue
  BY <1>3 DEF MergeRec
<1>6. l = "restore" \/ (l = "remove" /\ o.rest # {f})
  OBVIOUS
<1>7. MergeOK(m, l, files', history', active_id')
  <2> HIDE DEF o, m, l, f
  <2>1. InputsOK(m, l, files, active_id)
    BY <1>3, <1>4, <1>5, <1>6 DEF InputsOK
  <2>2. OutputOK(m, l, files)
    BY <1>3, <1>5, <1>6 DEF OutputOK, CopyPCs, RepointPCs
  <2>3. QueueOK(m, l, files, history)
    BY <1>3, <1>5, <1>6 DEF QueueOK, CopyPCs, RepointPCs
  <2> QED
    BY <1>2, <2>1, <2>2, <2>3 DEF MergeOK
<1>8. l \in PCs \ (WritePCs \cup {"delete"})
  BY <1>6 DEF PCs, MergePCs, WritePCs
<1>9. ArgInv' /\ MergesInv'
  <2> HIDE DEF l, m
  <2> QED
    BY <1>1, <1>2, <1>5, <1>7, <1>8, MergeMoves
<1>10. KeydirInv'
  BY <1>1, <1>2, KeydirStays DEF IInv
<1>11. HandleInv'
  <2>1. readers' \subseteq DOMAIN files'
    BY <1>1, <1>2 DEF IInv, HandleInv
  <2>2. \A u \in Threads \ {t} : pc'[u] = pc[u] /\ merging'[u] = merging[u]
    BY <1>1 DEF IInv, ArgInv, MergesInv
  <2>3. ASSUME NEW g \in readers', g \notin linked'
        PROVE  \E u \in Threads : pc'[u] = "forget" /\ g = NextToRemove(merging'[u].rest)
    <3>1. PICK u \in Threads : pc[u] = "forget" /\ g = NextToRemove(merging[u].rest)
      BY <1>1, <1>2, <2>3 DEF IInv, HandleInv, NoLeakedHandle
    <3>2. u # t
      BY <1>1, <2>3, <3>1
    <3> QED
      BY <2>2, <3>1, <3>2
  <2> QED
    BY <2>1, <2>3 DEF HandleInv, NoLeakedHandle
<1> QED
  BY <1>2, <1>9, <1>10, <1>11 DEF IInv, Advances

\* Rotation on the files as they are.
LEMMA RotateActiveAdvances ==
    ASSUME DiskInv, RotateActive(files), history' = history
    PROVE  Advances /\ linked \subseteq linked'
<1>1. /\ files' = WithFile(WithSync(files, active_id), next_file_id)
      /\ linked' = linked \cup {next_file_id} /\ active_id' = next_file_id
      /\ next_file_id' = next_file_id + 1
  BY DEF RotateActive
<1>2. /\ Len(history) \in Nat /\ FilesOK(files, Len(history)) /\ active_id \in DOMAIN files
      /\ history \in Seq(Write)
  BY DEF DiskInv
<1>3. Fresh(next_file_id, files)
  BY DEF DiskInv, FilesOK, Fresh
<1>4. /\ FilesOK(files', Len(history)) /\ Grows(files, files')
      /\ DOMAIN files' = DOMAIN files \cup {next_file_id}
  <2>1. files' = WithFile(WithSync(files, active_id), next_file_id)
    BY <1>1
  <2> DEFINE n == Len(history)
  <2>2. n \in Nat /\ FilesOK(files, n) /\ active_id \in DOMAIN files
    BY <1>2
  <2> HIDE DEF n
  <2>3. FilesOK(files', n) /\ Grows(files, files')
    BY <1>3, <2>1, <2>2, RotationOK
  <2>4. DOMAIN files' = DOMAIN files \cup {next_file_id}
    BY <2>1 DEF WithFile, WithSync
  <2> QED
    BY <2>3, <2>4 DEF n
<1>5. HistoryGrows
  BY <1>2 DEF HistoryGrows
<1> QED
  BY <1>1, <1>2, <1>4, <1>5, FileAppears

\* restore_active_file.
LEMMA MergeRestoreOK ==
    ASSUME IInv, NEW t \in Threads, MergeRestore(t)
    PROVE  IInv'
<1>1. /\ UNCHANGED <<history, keydir, readers, arg>> /\ pc[t] = "restore" /\ EndMerge(t)
      /\ RotateActive(files) \/ UNCHANGED <<files, linked, active_id, next_file_id>>
  BY DEF MergeRestore
<1>2. Advances /\ linked \subseteq linked'
  BY <1>1, RotateActiveAdvances, DiskStays DEF IInv, diskVars
<1> QED
  BY <1>1, <1>2, MergeEndsOK

\* A creation that fails may leave a file, and spends an id.
LEMMA OutputFailsAdvances ==
    ASSUME DiskInv, history' = history, active_id' = active_id,
           NEW fs, FilesOK(fs, Len(history)), Grows(files, fs), DOMAIN fs = DOMAIN files,
           OutputFails(fs)
    PROVE  Advances /\ linked \subseteq linked'
<1> DEFINE n == Len(history)
<1>1. /\ n \in Nat /\ FilesOK(files, n) /\ history \in Seq(Write) /\ next_file_id \in Nat
  BY DEF DiskInv
<1>2. Fresh(next_file_id, fs)
  BY DEF DiskInv, FilesOK, Fresh
<1>3. HistoryGrows
  BY <1>1 DEF HistoryGrows
<1>4. next_file_id' = next_file_id + 1 /\ next_file_id' \in Nat /\ next_file_id <= next_file_id'
  BY <1>1 DEF OutputFails
<1>5. CASE files' = fs /\ linked' = linked
  BY <1>1, <1>3, <1>4, <1>5, FilesAdvance
<1>6. CASE files' = WithFile(fs, next_file_id) /\ linked' = linked \cup {next_file_id}
  <2>1. FilesOK(fs, n) /\ files' = WithFile(fs, next_file_id)
    BY <1>6
  <2>2. FilesOK(files', n) /\ Grows(fs, files')
    <3> HIDE DEF n
    <3> QED
      BY <1>1, <1>2, <2>1, WithFileOK
  <2>3. DOMAIN files' = DOMAIN files \cup {next_file_id}
    BY <1>6 DEF WithFile
  <2>4. Grows(files, files')
    <3> HIDE DEF n
    <3> QED
      BY <1>1, <2>1, <2>2, GrowsTransitive
  <2> QED
    BY <1>1, <1>3, <1>4, <1>6, <2>2, <2>3, <2>4, FileAppears
<1> QED
  BY <1>5, <1>6 DEF OutputFails

\* The outcomes of a failing copy.
LEMMA CopyFailsAdvances ==
    ASSUME IInv, NEW t \in Threads, pc[t] = "copy", CopyFails(merging[t]),
           UNCHANGED <<history, active_id>>
    PROVE  Advances /\ linked \subseteq linked'
<1> DEFINE m == merging[t]
           n == Len(history)
           live == m.at <= m.upto /\ IsLive(m)
           fs == IF live THEN WithBuffered(files, m.out, EntryAt(m)) ELSE files
<1>1. m \in MergeRec /\ OutputOK(m, "copy", files)
  BY MergeKnown DEF MergePCs
<1>2. /\ n \in Nat /\ FilesOK(files, n) /\ history \in Seq(Write) /\ next_file_id \in Nat
      /\ m.out \in DOMAIN files
  BY <1>1 DEF IInv, DiskInv, OutputOK, CopyPCs
<1>3. FilesOK(fs, n) /\ Grows(files, fs) /\ DOMAIN fs = DOMAIN files
  <2>1. CASE live
    <3> DEFINE bs == WithBuffered(files, m.out, EntryAt(m))
    <3>1. FilesOK(bs, n) /\ Grows(files, bs) /\ DOMAIN bs = DOMAIN files
      <4> HIDE DEF bs
      <4> QED
        BY <2>1, BufferedOK DEF bs
    <3>2. fs = bs
      BY <2>1
    <3> QED
      BY <3>1, <3>2
  <2>2. CASE ~live
    <3>1. fs = files
      BY <2>2
    <3> QED
      BY <1>2, <3>1, GrowsReflexive
  <2> QED
    BY <2>1, <2>2
<1>4. \/ /\ files' \in {FlushOutput(files, m.out), FlushOutput(fs, m.out), WithSync(fs, m.out)}
         /\ UNCHANGED <<linked, next_file_id>>
      \/ OutputFails(WithSync(fs, m.out))
  BY DEF CopyFails
<1> HIDE DEF m, fs, n
<1>5. /\ FilesOK(WithSync(fs, m.out), n) /\ Grows(fs, WithSync(fs, m.out))
      /\ DOMAIN WithSync(fs, m.out) = DOMAIN files
  BY <1>2, <1>3, WithSyncOK
<1>6. Grows(files, WithSync(fs, m.out))
  BY <1>2, <1>3, <1>5, GrowsTransitive
<1>7. CASE /\ files' \in {FlushOutput(files, m.out), FlushOutput(fs, m.out), WithSync(fs, m.out)}
           /\ UNCHANGED <<linked, next_file_id>>
  <2>1. /\ FilesOK(FlushOutput(files, m.out), n) /\ Grows(files, FlushOutput(files, m.out))
        /\ DOMAIN FlushOutput(files, m.out) = DOMAIN files
    BY <1>2, FlushOutputOK
  <2>2. /\ FilesOK(FlushOutput(fs, m.out), n) /\ Grows(fs, FlushOutput(fs, m.out))
        /\ DOMAIN FlushOutput(fs, m.out) = DOMAIN files
    BY <1>2, <1>3, FlushOutputOK
  <2>3. Grows(files, FlushOutput(fs, m.out))
    BY <1>2, <1>3, <2>2, GrowsTransitive
  <2>4. FilesOK(files', n) /\ Grows(files, files') /\ DOMAIN files' = DOMAIN files
    BY <1>5, <1>6, <1>7, <2>1, <2>2, <2>3
  <2>5. HistoryGrows /\ next_file_id' \in Nat /\ next_file_id <= next_file_id'
    BY <1>2, <1>7 DEF HistoryGrows, n
  <2>6. history' \in Seq(Write) /\ FilesOK(files', Len(history'))
    BY <1>2, <2>4 DEF n
  <2> QED
    BY <1>7, <2>4, <2>5, <2>6, FilesAdvance DEF IInv
<1>8. CASE OutputFails(WithSync(fs, m.out))
  BY <1>5, <1>6, <1>8, OutputFailsAdvances DEF IInv, n
<1> QED
  BY <1>4, <1>7, <1>8

\* Any error of a merge.
LEMMA MergeFailsOK ==
    ASSUME IInv, NEW t \in Threads, MergeFails(t)
    PROVE  IInv'
<1> DEFINE m == merging[t]
           n == Len(history)
<1>1. /\ UNCHANGED <<history, active_id>> /\ UNCHANGED <<keydir, readers, arg>> /\ EndMerge(t)
  BY DEF MergeFails
<1>2. \/ pc[t] = "open" /\ OutputFails(files)
      \/ pc[t] = "copy" /\ CopyFails(m)
      \/ /\ pc[t] = "restore" /\ UNCHANGED linked
         /\ \/ UNCHANGED <<files, next_file_id>>
            \/ files' = WithSync(files, active_id) /\ next_file_id' = next_file_id + 1
  BY DEF MergeFails
<1>3. /\ n \in Nat /\ FilesOK(files, n) /\ history \in Seq(Write) /\ next_file_id \in Nat
      /\ active_id \in DOMAIN files
  BY DEF IInv, DiskInv
<1>4. pc[t] # "forget"
  BY <1>2
<1>5. CASE pc[t] = "open" /\ OutputFails(files)
  <2>1. Advances /\ linked \subseteq linked'
    BY <1>1, <1>3, <1>5, GrowsReflexive, OutputFailsAdvances DEF IInv
  <2> QED
    BY <1>1, <1>4, <2>1, MergeEndsOK
<1>6. CASE pc[t] = "copy" /\ CopyFails(m)
  BY <1>1, <1>4, <1>6, CopyFailsAdvances, MergeEndsOK
<1>7. CASE /\ pc[t] = "restore" /\ UNCHANGED linked
           /\ UNCHANGED <<files, next_file_id>>
  BY <1>1, <1>4, <1>7, DiskStays, MergeEndsOK DEF IInv, diskVars
<1>8. CASE /\ pc[t] = "restore" /\ UNCHANGED linked
           /\ files' = WithSync(files, active_id) /\ next_file_id' = next_file_id + 1
  <2>1. FilesOK(files', n) /\ Grows(files, files') /\ DOMAIN files' = DOMAIN files
    <3> HIDE DEF n
    <3> QED
      BY <1>3, <1>8, WithSyncOK
  <2>2. HistoryGrows /\ next_file_id' \in Nat /\ next_file_id <= next_file_id'
        /\ history' \in Seq(Write) /\ FilesOK(files', Len(history'))
    BY <1>1, <1>3, <1>8, <2>1 DEF HistoryGrows
  <2>3. Advances
    BY <1>1, <1>8, <2>1, <2>2, FilesAdvance DEF IInv
  <2> QED
    BY <1>1, <1>4, <1>8, <2>3, MergeEndsOK
<1> QED
  BY <1>2, <1>5, <1>6, <1>7, <1>8

-----------------------------------------------------------------------------
(* A crash, and the reopening.                                               *)

\* The first entries of a file.
LEMMA Prefix ==
    ASSUME NEW S, NEW s \in Seq(S), NEW c \in Nat, c <= Len(s)
    PROVE  /\ SubSeq(s, 1, c) \in Seq(S)
           /\ Len(SubSeq(s, 1, c)) = c
           /\ \A i \in 1..c : SubSeq(s, 1, c)[i] = s[i]
<1>1. 1 \in Int /\ c \in Int /\ \A i \in 1..c : s[i] \in S
  OBVIOUS
<1>2. /\ SubSeq(s, 1, c) \in Seq(S)
      /\ Len(SubSeq(s, 1, c)) = IF 1 <= c THEN c - 1 + 1 ELSE 0
      /\ \A i \in 1..c - 1 + 1 : SubSeq(s, 1, c)[i] = s[1 + i - 1]
  BY <1>1, SubSeqProperties
<1> QED
  BY <1>2

\* How much of each file in the directory is left.
IsCut(n) ==
    /\ DOMAIN n = linked
    /\ \A f \in linked : n[f] \in 0..Len(files[f].entries)

\* What a crash leaves includes what the medium has, and what the OS has when only the
\* process died.
LEMMA KeptIsCut ==
    ASSUME DiskInv, NEW kind \in CrashKinds, NEW n \in KeptAfter(kind)
    PROVE  /\ IsCut(n)
           /\ \A f \in linked : /\ files[f].synced <= n[f]
                                /\ kind = "kill" => files[f].flushed <= n[f]
<1> DEFINE floor(f) == IF kind = "kill" THEN files[f].flushed ELSE files[f].synced
           all(f)   == Len(files[f].entries)
           cut      == {f \in linked : floor(f) < all(f)}
           sizes    == UNION {floor(f)..all(f) : f \in cut}
<1>1. PICK c \in [cut -> sizes] :
         /\ \A f \in cut : c[f] \in floor(f)..all(f)
         /\ n = [f \in linked |-> IF f \in cut THEN c[f] ELSE all(f)]
  BY DEF KeptAfter
<1>2. ASSUME NEW f \in linked
      PROVE  /\ n[f] \in 0..Len(files[f].entries) /\ files[f].synced <= n[f]
             /\ kind = "kill" => files[f].flushed <= n[f]
  <2>1. /\ files[f].flushed \in Nat /\ files[f].synced \in Nat /\ all(f) \in Nat
        /\ files[f].synced <= files[f].flushed /\ files[f].flushed <= all(f)
    BY DEF DiskInv, FilesOK, FileOf
  <2>2. floor(f) \in Nat /\ files[f].synced <= floor(f) /\ floor(f) <= all(f)
        /\ (kind = "kill" => floor(f) = files[f].flushed)
    BY <2>1
  <2>3. n[f] = IF f \in cut THEN c[f] ELSE all(f)
    BY <1>1
  <2>4. n[f] \in floor(f)..all(f)
    <3>1. CASE f \in cut
      BY <1>1, <2>3, <3>1
    <3>2. CASE f \notin cut
      BY <2>1, <2>2, <2>3, <3>2
    <3> QED
      BY <3>1, <3>2
  <2> HIDE DEF floor, cut
  <2> QED
    BY <2>1, <2>2, <2>4
<1> QED
  BY <1>1, <1>2 DEF IsCut

\* The disk a crash leaves has no hint and no rot, and its files hold the writes they held.
LEMMA DiskIsDisk ==
    ASSUME DiskInv, NEW n, IsCut(n)
    PROVE  /\ IsDisk(Disk(n)) /\ DOMAIN Disk(n) = linked
           /\ \A f \in linked :
                 /\ Len(Disk(n)[f].entries) = n[f] /\ DOMAIN Disk(n)[f].entries = 1..n[f]
                 /\ Disk(n)[f].bad = {} /\ ~HintIsUsable(Disk(n)[f])
                 /\ \A i \in 1..n[f] : /\ files[f].entries[i] \in 1..Len(history)
                                       /\ history[files[f].entries[i]] \in Write
                                       /\ Disk(n)[f].entries[i] = history[files[f].entries[i]]
<1>1. DOMAIN Disk(n) = linked
  BY DEF Disk, IsCut
<1>2. ASSUME NEW f \in linked
      PROVE  /\ IsData(Disk(n)[f])
             /\ Len(Disk(n)[f].entries) = n[f] /\ DOMAIN Disk(n)[f].entries = 1..n[f]
             /\ Disk(n)[f].bad = {} /\ ~HintIsUsable(Disk(n)[f])
             /\ \A i \in 1..n[f] : /\ files[f].entries[i] \in 1..Len(history)
                                   /\ history[files[f].entries[i]] \in Write
                                   /\ Disk(n)[f].entries[i] = history[files[f].entries[i]]
  <2> DEFINE es == [i \in 1..n[f] |-> history[files[f].entries[i]]]
             d == Disk(n)[f]
  <2>1. n[f] \in Nat /\ n[f] <= Len(files[f].entries) /\ Len(files[f].entries) \in Nat
    <3>1. Len(files[f].entries) \in Nat
      BY DEF DiskInv, FilesOK, FileOf
    <3> QED
      BY <3>1 DEF IsCut
  <2>2. d.entries = es /\ d.bad = {} /\ d.hint = None
    BY DEF Disk, IsCut
  <2>3. es \in Seq(Range(es)) /\ Len(es) = n[f] /\ DOMAIN es = 1..n[f]
    <3>1. DOMAIN es = 1..n[f] /\ \A i \in 1..n[f] : es[i] \in Range(es)
      BY DEF Range
    <3>2. es \in [1..n[f] -> Range(es)]
      <4>1. es = [i \in 1..n[f] |-> es[i]]
        OBVIOUS
      <4> HIDE DEF es
      <4> QED
        BY <3>1, <4>1
    <3> HIDE DEF es
    <3> QED
      BY <2>1, <3>1, <3>2
  <2>4. ASSUME NEW i \in 1..n[f]
        PROVE  /\ files[f].entries[i] \in 1..Len(history)
               /\ history[files[f].entries[i]] \in Write
    <3>1. files[f].entries \in Seq(1..Len(history))
      BY DEF DiskInv, FilesOK, FileOf
    <3>2. i \in 1..Len(files[f].entries)
      BY <2>1
    <3>3. files[f].entries[i] \in 1..Len(history)
      BY <3>1, <3>2
    <3> QED
      BY <3>3 DEF DiskInv
  <2>5. \A i \in 1..n[f] : es[i] = history[files[f].entries[i]]
    OBVIOUS
  <2> HIDE DEF es, d
  <2>6. IsData(d) /\ ~HintIsUsable(d)
    BY <2>2, <2>3 DEF IsData, HintIsUsable
  <2> QED
    BY <2>2, <2>3, <2>4, <2>5, <2>6 DEF d
<1>3. IsDisk(Disk(n))
  BY <1>1, <1>2 DEF IsDisk, DiskInv, FilesOK
<1> QED
  BY <1>1, <1>2, <1>3

\* The writes of k that are left in file f.
LeftIn(n, f, k) == {i \in 1..n[f] : history[files[f].entries[i]].key = k}

\* The files that have one.
LeftOn(n, k) == {f \in linked : LeftIn(n, f, k) # {}}

\* Recovery finds the last write of a key in the last file that has one.
LEMMA RecoverFinds ==
    ASSUME DiskInv, NEW n, IsCut(n)
    PROVE  /\ Recover(Disk(n)) \in Keydirs
           /\ \A k \in Keys :
                 LET f == Max(LeftOn(n, k))
                     i == Max(LeftIn(n, f, k))
                 IN  Recover(Disk(n))[k] =
                        IF LeftOn(n, k) = {} \/ history[files[f].entries[i]].tomb THEN None
                        ELSE [file_id |-> f, value_pos |-> i]
<1> DEFINE disk == Disk(n)
<1>1. /\ IsDisk(disk) /\ DOMAIN disk = linked
      /\ \A f \in linked :
            /\ Len(disk[f].entries) = n[f] /\ DOMAIN disk[f].entries = 1..n[f]
            /\ disk[f].bad = {} /\ ~HintIsUsable(disk[f])
            /\ \A i \in 1..n[f] : disk[f].entries[i] = history[files[f].entries[i]]
  BY DiskIsDisk
<1> HIDE DEF disk
<1>2. \A k \in Keys, f \in linked : Hits(disk[f], k) = LeftIn(n, f, k)
  BY <1>1 DEF Hits, LeftIn
<1>3. ASSUME NEW k \in Keys PROVE FilesOn(disk, k) = LeftOn(n, k)
  BY <1>1, <1>2 DEF FilesOn, HasWord, LeftOn
<1>4. ASSUME NEW k \in Keys, NEW f \in linked, LeftIn(n, f, k) # {}
      PROVE  WordOn(f, disk[f], k) =
                IF history[files[f].entries[Max(LeftIn(n, f, k))]].tomb THEN None
                ELSE [file_id |-> f, value_pos |-> Max(LeftIn(n, f, k))]
  <2> DEFINE i == Max(LeftIn(n, f, k))
  <2>1. i \in LeftIn(n, f, k) /\ i \in 1..n[f]
    <3>1. n[f] \in Nat
      BY DEF IsCut
    <3>2. IsFiniteSet(1..n[f]) /\ 1..n[f] \subseteq Nat
      BY <3>1, FS_Interval
    <3>3. LeftIn(n, f, k) \subseteq 1..n[f]
      BY DEF LeftIn
    <3> QED
      BY <1>4, <3>2, <3>3, FS_Subset, MaxIsGreatest
  <2>2. disk[f].entries[i] = history[files[f].entries[i]]
    BY <1>1, <2>1
  <2> HIDE DEF i
  <2>3. Max(LeftIn(n, f, k)) = i
    BY DEF i
  <2> QED
    BY <1>1, <1>2, <1>4, <2>2, <2>3 DEF WordOn, LastHit
<1>5. ASSUME NEW k \in Keys, LeftOn(n, k) # {}
      PROVE  Max(LeftOn(n, k)) \in linked /\ LeftIn(n, Max(LeftOn(n, k)), k) # {}
  <2>1. LeftOn(n, k) \subseteq linked /\ IsFiniteSet(linked) /\ linked \subseteq Nat
    BY DEF LeftOn, DiskInv, FilesOK
  <2>2. Max(LeftOn(n, k)) \in LeftOn(n, k)
    BY <1>5, <2>1, FS_Subset, MaxIsGreatest
  <2> QED
    BY <2>2 DEF LeftOn
<1>6. /\ Recover(disk) \in Keydirs
      /\ \A k \in Keys : Recover(disk)[k] =
            IF FilesOn(disk, k) = {} THEN None
            ELSE WordOn(Max(FilesOn(disk, k)), disk[Max(FilesOn(disk, k))], k)
  BY <1>1, RecoverComputes
<1>7. ASSUME NEW k \in Keys
      PROVE  LET f == Max(LeftOn(n, k))
                 i == Max(LeftIn(n, f, k))
             IN  Recover(disk)[k] =
                    IF LeftOn(n, k) = {} \/ history[files[f].entries[i]].tomb THEN None
                    ELSE [file_id |-> f, value_pos |-> i]
  <2> DEFINE f == Max(LeftOn(n, k))
             i == Max(LeftIn(n, f, k))
  <2>1. CASE LeftOn(n, k) = {}
    BY <1>3, <1>6, <2>1
  <2>2. CASE LeftOn(n, k) # {}
    <3>1. f \in linked /\ LeftIn(n, f, k) # {}
      BY <1>5, <2>2
    <3>2. WordOn(f, disk[f], k) = IF history[files[f].entries[i]].tomb THEN None
                                  ELSE [file_id |-> f, value_pos |-> i]
      <4> HIDE DEF f
      <4> QED
        BY <1>4, <3>1
    <3>3. Recover(disk)[k] = WordOn(f, disk[f], k)
      BY <1>3, <1>6, <2>2
    <3> HIDE DEF f, i
    <3>4. Recover(disk)[k] = IF LeftOn(n, k) = {} \/ history[files[f].entries[i]].tomb THEN None
                             ELSE [file_id |-> f, value_pos |-> i]
      BY <2>2, <3>2, <3>3
    <3> QED
      BY <3>4 DEF f, i
  <2> QED
    BY <2>1, <2>2
<1> QED
  BY <1>6, <1>7 DEF disk

\* The files after a reopening: what was kept, and an empty one.
KeptFile(n, kind, f) ==
    [entries |-> SubSeq(files[f].entries, 1, n[f]), flushed |-> n[f],
     synced |-> IF kind = "kill" THEN files[f].synced ELSE n[f]]

\* The disk that open leaves after a crash.
LEMMA ReopenedOK ==
    ASSUME DiskInv, NEW kind \in CrashKinds, NEW n \in KeptAfter(kind),
           files' = WithFile([f \in linked |-> KeptFile(n, kind, f)], Max(linked) + 1),
           linked' = linked \cup {Max(linked) + 1}, active_id' = Max(linked) + 1,
           next_file_id' = Max(linked) + 2, history' = history
    PROVE  /\ DiskInv'
           /\ \A f \in linked : files'[f] = KeptFile(n, kind, f)
<1> DEFINE old == [f \in linked |-> KeptFile(n, kind, f)]
           new == Max(linked) + 1
           N == Len(history)
<1>1. /\ IsCut(n)
      /\ \A f \in linked : /\ files[f].synced <= n[f]
                           /\ kind = "kill" => files[f].flushed <= n[f]
  BY KeptIsCut
<1>2. /\ N \in Nat /\ linked \subseteq Nat /\ IsFiniteSet(linked) /\ linked # {}
      /\ history \in Seq(Write)
  BY DEF DiskInv, FilesOK
<1>3. /\ Max(linked) \in Nat /\ new \in Nat /\ new \notin linked
      /\ \A f \in linked : f <= Max(linked)
  <2>1. Max(linked) \in linked /\ \A f \in linked : f <= Max(linked)
    BY <1>2, MaxIsGreatest
  <2>2. Max(linked) \in Nat
    BY <1>2, <2>1
  <2>3. new \notin linked
    BY <2>1, <2>2
  <2> QED
    BY <2>1, <2>2, <2>3
<1>4. ASSUME NEW f \in linked
      PROVE  /\ KeptFile(n, kind, f) \in FileOf(N)
             /\ KeptFile(n, kind, f).synced <= KeptFile(n, kind, f).flushed
             /\ KeptFile(n, kind, f).flushed <= Len(KeptFile(n, kind, f).entries)
  <2>1. /\ files[f].entries \in Seq(1..N) /\ Len(files[f].entries) \in Nat
        /\ files[f].flushed \in Nat /\ files[f].synced \in Nat
    BY DEF DiskInv, FilesOK, FileOf
  <2>2. n[f] \in Nat /\ n[f] <= Len(files[f].entries) /\ files[f].synced <= n[f]
    BY <1>1, <2>1 DEF IsCut
  <2> DEFINE es == files[f].entries
             c == n[f]
  <2>3. SubSeq(es, 1, c) \in Seq(1..N) /\ Len(SubSeq(es, 1, c)) = c
    <3>1. es \in Seq(1..N) /\ c \in Nat /\ c <= Len(es)
      BY <2>1, <2>2
    <3> HIDE DEF N, es, c
    <3> QED
      BY <3>1, Prefix
  <2> QED
    BY <2>1, <2>2, <2>3 DEF KeptFile, FileOf
<1> HIDE DEF N
<1>5. DOMAIN old = linked /\ \A f \in linked : old[f] = KeptFile(n, kind, f)
  OBVIOUS
<1>6. FilesOK(old, N)
  <2> HIDE DEF old
  <2> QED
    BY <1>2, <1>4, <1>5 DEF FilesOK
<1>7. Fresh(new, old)
  BY <1>3, <1>5 DEF Fresh
<1>8. files' = WithFile(old, new)
  OBVIOUS
<1> HIDE DEF old, new
<1>9. FilesOK(files', N)
  BY <1>2, <1>6, <1>7, <1>8, WithFileOK
<1>10. DOMAIN files' = linked \cup {new}
  BY <1>5, <1>8 DEF WithFile
<1>11. \A f \in linked : files'[f] = KeptFile(n, kind, f)
  BY <1>5, <1>8 DEF WithFile
<1>12. IsFiniteSet(linked')
  BY <1>2, FS_AddElement DEF new
<1>13. /\ linked' = linked \cup {new} /\ active_id' = new /\ next_file_id' = new + 1
       /\ next_file_id' \in Nat
  BY <1>3 DEF new
<1>14. \A f \in DOMAIN files' : f < next_file_id'
  BY <1>2, <1>3, <1>10, <1>13 DEF new
<1>15. DiskInv'
  BY <1>2, <1>9, <1>10, <1>12, <1>13, <1>14 DEF DiskInv, N
<1> QED
  BY <1>11, <1>15

\* Recovery makes a keydir that points at live entries of its keys.
LEMMA CrashOK ==
    ASSUME IInv, NEW kind \in CrashKinds, CrashAndOpen(kind),
           merging' = [t \in Threads |-> NoMerge]
    PROVE  IInv'
<1>1. PICK n \in KeptAfter(kind) :
         /\ files' = WithFile([f \in linked |-> KeptFile(n, kind, f)], Max(linked) + 1)
         /\ linked' = linked \cup {Max(linked) + 1} /\ active_id' = Max(linked) + 1
         /\ next_file_id' = Max(linked) + 1 + 1 /\ history' = history
         /\ keydir' = Recover(Disk(n)) /\ readers' = {}
         /\ pc' = [t \in Threads |-> "idle"] /\ arg' = [t \in Threads |-> NoArg]
  BY DEF CrashAndOpen, KeptFile
<1>2. IsCut(n)
  BY KeptIsCut DEF IInv
<1>3. next_file_id' = Max(linked) + 2
  <2>1. Max(linked) \in Nat
    <3>1. IsFiniteSet(linked) /\ linked \subseteq Nat /\ linked # {}
      BY DEF IInv, DiskInv, FilesOK
    <3> QED
      BY <3>1, MaxIsGreatest
  <2> QED
    BY <1>1, <2>1
<1>4. DiskInv' /\ \A f \in linked : files'[f] = KeptFile(n, kind, f)
  BY <1>1, <1>3, ReopenedOK DEF IInv
<1>5. KeydirInv'
  <2>1. keydir' \in Keydirs
    BY <1>1, <1>2, RecoverFinds DEF IInv
  <2>2. ASSUME NEW k \in Keys, keydir'[k] # None
        PROVE  /\ OnOS(files', keydir'[k])
               /\ history'[EntryIn(files', keydir'[k])] = [key |-> k, tomb |-> FALSE]
    <3> DEFINE f == Max(LeftOn(n, k))
               i == Max(LeftIn(n, f, k))
    <3>1. /\ LeftOn(n, k) # {} /\ ~history[files[f].entries[i]].tomb
          /\ keydir'[k] = [file_id |-> f, value_pos |-> i]
      BY <1>1, <1>2, <2>2, RecoverFinds DEF IInv
    <3>2. f \in linked /\ f \in Nat /\ LeftIn(n, f, k) # {}
      <4>1. LeftOn(n, k) \subseteq linked /\ IsFiniteSet(linked) /\ linked \subseteq Nat
        BY DEF LeftOn, IInv, DiskInv, FilesOK
      <4>2. Max(LeftOn(n, k)) \in LeftOn(n, k)
        BY <3>1, <4>1, FS_Subset, MaxIsGreatest
      <4> QED
        BY <4>1, <4>2 DEF LeftOn
    <3> HIDE DEF f
    <3>3. n[f] \in Nat /\ n[f] <= Len(files[f].entries) /\ Len(files[f].entries) \in Nat
      <4>1. Len(files[f].entries) \in Nat
        BY <3>2 DEF IInv, DiskInv, FilesOK, FileOf
      <4> QED
        BY <1>2, <3>2, <4>1 DEF IsCut
    <3>4. i \in LeftIn(n, f, k) /\ i \in 1..n[f]
      <4>1. IsFiniteSet(1..n[f]) /\ 1..n[f] \subseteq Nat /\ LeftIn(n, f, k) \subseteq 1..n[f]
        <5>1. n[f] \in Nat
          BY <3>3
        <5>2. IsFiniteSet(1..n[f])
          BY <5>1, FS_Interval
        <5> QED
          BY <5>1, <5>2 DEF LeftIn
      <4> QED
        BY <3>2, <4>1, FS_Subset, MaxIsGreatest
    <3> HIDE DEF i
    <3>5. /\ files[f].entries[i] \in 1..Len(history) /\ history[files[f].entries[i]] \in Write
          /\ history[files[f].entries[i]].key = k
      <4>1. history[files[f].entries[i]].key = k
        BY <3>4 DEF LeftIn
      <4> QED
        BY <1>2, <3>2, <3>4, <4>1, DiskIsDisk DEF IInv
    <3>6. history[files[f].entries[i]] = [key |-> k, tomb |-> FALSE]
      BY <3>1, <3>5 DEF Write
    <3>7. /\ files'[f].entries = SubSeq(files[f].entries, 1, n[f]) /\ files'[f].flushed = n[f]
      <4> DEFINE d == KeptFile(n, kind, f)
      <4>1. files'[f] = d
        BY <1>4, <3>2
      <4>2. d.entries = SubSeq(files[f].entries, 1, n[f]) /\ d.flushed = n[f]
        BY DEF KeptFile
      <4> HIDE DEF d
      <4> QED
        BY <4>1, <4>2
    <3>8. /\ Len(files'[f].entries) = n[f] /\ files'[f].entries[i] = files[f].entries[i]
      <4> DEFINE es == files[f].entries
                 c == n[f]
                 N == Len(history)
      <4>1. es \in Seq(1..N) /\ c \in Nat /\ c <= Len(es) /\ i \in 1..c
        BY <3>2, <3>3, <3>4 DEF IInv, DiskInv, FilesOK, FileOf
      <4>2. files'[f].entries = SubSeq(es, 1, c)
        BY <3>7
      <4> HIDE DEF es, c, N
      <4>3. Len(SubSeq(es, 1, c)) = c /\ SubSeq(es, 1, c)[i] = es[i]
        BY <4>1, Prefix
      <4> QED
        BY <4>2, <4>3 DEF es, c
    <3>9. f \in DOMAIN files'
      BY <1>1, <1>4, <3>2 DEF DiskInv
    <3> QED
      BY <1>1, <3>1, <3>2, <3>3, <3>4, <3>6, <3>7, <3>8, <3>9
         DEF OnOS, InFile, EntryIn, Location
  <2> QED
    BY <2>1, <2>2 DEF KeydirInv
<1>6. ArgInv'
  <2>1. NoArg \in Arg /\ "idle" \in PCs
    BY DEF NoArg, Arg, PCs
  <2>2. \A t \in Threads : pc'[t] = "idle"
    BY <1>1
  <2> QED
    BY <1>1, <2>1, <2>2 DEF ArgInv, WritePCs
<1>7. MergesInv'
  <2>1. \A t \in Threads : pc'[t] \notin MergePCs
    BY <1>1 DEF MergePCs
  <2> QED
    BY <2>1, NoMergeType DEF MergesInv
<1>8. HandleInv'
  BY <1>1 DEF HandleInv, NoLeakedHandle
<1> QED
  BY <1>4, <1>5, <1>6, <1>7, <1>8 DEF IInv

-----------------------------------------------------------------------------
(* The theorems that hold however the calls and the merges overlap.          *)

\* A new store.
LEMMA InitOK ==
    ASSUME MergeInit, StoreAssumption
    PROVE  IInv
<1>1. /\ history = <<>> /\ files = [f \in {0} |-> EmptyFile] /\ linked = {0} /\ active_id = 0
      /\ next_file_id = 1 /\ keydir = EmptyKeydir /\ readers = {}
      /\ pc = [t \in Threads |-> "idle"] /\ arg = [t \in Threads |-> NoArg]
      /\ merging = [t \in Threads |-> NoMerge]
  BY DEF MergeInit, Init
<1>2. DiskInv
  <2>1. EmptyFile \in FileOf(0) /\ EmptyFile.synced <= EmptyFile.flushed
        /\ EmptyFile.flushed <= Len(EmptyFile.entries)
    BY DEF EmptyFile, FileOf
  <2>2. history \in Seq(Write) /\ Len(history) = 0
    BY <1>1
  <2>3. DOMAIN files = {0} /\ files[0] = EmptyFile
    BY <1>1
  <2>4. FilesOK(files, 0)
    BY <2>1, <2>3 DEF FilesOK
  <2>5. IsFiniteSet({0})
    BY FS_Singleton
  <2> QED
    BY <1>1, <2>2, <2>3, <2>4, <2>5 DEF DiskInv
<1>3. KeydirInv
  BY <1>1, EmptyKeydirType DEF KeydirInv, EmptyKeydir
<1>4. ArgInv
  <2>1. NoArg \in Arg /\ "idle" \in PCs
    BY DEF NoArg, Arg, PCs
  <2> QED
    BY <1>1, <2>1 DEF ArgInv, WritePCs
<1>5. MergesInv
  <2>1. \A t \in Threads : pc[t] \notin MergePCs
    BY <1>1 DEF MergePCs
  <2> QED
    BY <1>1, <2>1, NoMergeType DEF MergesInv
<1>6. HandleInv
  BY <1>1 DEF HandleInv, NoLeakedHandle
<1> QED
  BY <1>2, <1>3, <1>4, <1>5, <1>6 DEF IInv

\* A step that changes nothing.
LEMMA StutterOK ==
    ASSUME IInv, UNCHANGED allVars
    PROVE  IInv'
<1>1. /\ UNCHANGED diskVars /\ UNCHANGED <<keydir, readers, pc, arg, merging>>
  BY DEF allVars, vars, memVars, mergeVars
<1>2. DiskInv' /\ KeydirInv' /\ MergesInv'
  BY <1>1 DEF IInv, DiskInv, KeydirInv, MergesInv, diskVars
<1>3. ArgInv' /\ HandleInv'
  BY <1>1 DEF IInv, ArgInv, HandleInv, NoLeakedHandle, diskVars
<1> QED
  BY <1>2, <1>3 DEF IInv

\* Every step keeps the invariant.
LEMMA NextOK ==
    ASSUME IInv, StoreAssumption, [MergeNext]_allVars
    PROVE  IInv'
<1>1. ASSUME NEW t \in Threads, NEW k \in Keys, Put(t, k), UNCHANGED mergeVars PROVE IInv'
  BY <1>1, AppendOK DEF Put, MayStart
<1>2. ASSUME NEW t \in Threads, NEW k \in Keys, DeleteCheck(t, k), UNCHANGED mergeVars
      PROVE  IInv'
  BY <1>2, DeleteCheckOK
<1>3. ASSUME NEW t \in Threads, DeleteAppend(t), UNCHANGED mergeVars PROVE IInv'
  <2>1. arg[t].key \in Keys
    BY <1>3 DEF DeleteAppend, IInv, ArgInv
  <2> QED
    BY <1>3, <2>1, AppendOK DEF DeleteAppend
<1>4. ASSUME NEW t \in Threads, MergeStep(t) PROVE IInv'
  BY <1>4, MergeStartOK, MergeOpenOK, MergeReadOK, MergeEntryOK, MergeRepointOK, MergeFinishOK,
     MergeRemoveOK, MergeForgetOK, MergeRestoreOK, MergeFailsOK DEF MergeStep
<1> QED
  BY <1>1, <1>2, <1>3, <1>4, SyncWriteOK, UpdateKeydirOK, SyncOK, TakeEntriesOK, ReadValueOK,
     CrashOK, StutterOK DEF MergeNext

\* The inductive invariant, whatever overlaps, fails and crashes.
THEOREM Inductive == MergeSpec => []IInv
<1>1. MergeInit => IInv
  BY StoreAssumption, InitOK
<1>2. IInv /\ [MergeNext]_allVars => IInv'
  BY StoreAssumption, NextOK
<1> QED
  BY <1>1, <1>2, PTL DEF MergeSpec

\* Type correctness: locations, counts, ids and program counters stay in their types.
THEOREM MergeTypeCorrect == MergeSpec => []TypeOK
<1>1. IInv => TypeOK
  <2> SUFFICES ASSUME IInv PROVE TypeOK
    OBVIOUS
  <2>1. history \in Seq([key : Keys, tomb : BOOLEAN])
    BY DEF IInv, DiskInv, Write
  <2>2. \A f \in DOMAIN files : /\ files[f].entries \in Seq(1..Len(history))
                                /\ files[f].synced <= files[f].flushed
                                /\ files[f].flushed <= Len(files[f].entries)
    BY DEF IInv, DiskInv, FilesOK, FileOf
  <2>3. linked \subseteq DOMAIN files /\ active_id \in linked /\ next_file_id \in Nat
    BY DEF IInv, DiskInv
  <2>4. keydir \in [Keys -> Location \cup {None}] /\ readers \subseteq DOMAIN files
    BY DEF IInv, KeydirInv, Keydirs, HandleInv
  <2>5. pc \in [Threads -> MergePCs \cup {"idle", "delete", "sync", "update", "read"}]
    BY DEF IInv, ArgInv, PCs
  <2>6. \A t \in Threads : pc[t] \in MergePCs => merging[t].inputs \subseteq DOMAIN files
    BY DEF IInv, MergesInv, MergeOK, InputsOK
  <2> QED
    BY <2>1, <2>2, <2>3, <2>4, <2>5, <2>6 DEF TypeOK
<1> QED
  BY <1>1, Inductive, PTL

\* The keydir never points into a merge's output buffer, whatever else runs.
THEOREM PublishedFlushed == MergeSpec => []PublishedIsFlushed
<1>1. IInv => PublishedIsFlushed
  BY DEF IInv, KeydirInv, OnOS, PublishedIsFlushed
<1> QED
  BY <1>1, Inductive, PTL

\* Each removal of a file is followed by the removal of its handle, and no reader brings the
\* handle back.
THEOREM HandlesEnd == MergeSpec => []NoLeakedHandle
<1>1. IInv => NoLeakedHandle
  BY DEF IInv, HandleInv
<1> QED
  BY <1>1, Inductive, PTL

\* A merge moves its output to the next id or not at all.
LEMMA OutIsNext ==
    ASSUME IInv, [MergeNext]_allVars, NEW t \in Threads
    PROVE  merging'[t].out \in {0, merging[t].out, next_file_id}
<1>1. merging \in [Threads -> MergeRec] /\ merging[t] \in MergeRec
  BY DEF IInv, MergesInv
<1>2. CASE merging'[t] = merging[t]
  BY <1>2
<1>3. CASE merging'[t] = NoMerge
  BY <1>3 DEF NoMerge
<1>4. ASSUME NEW u \in Threads, MergeStep(u), merging'[t] # merging[t]
      PROVE  merging'[t].out \in {0, merging[t].out, next_file_id}
  <2> DEFINE o == merging[t]
  <2>1. ASSUME NEW m, SetMerge(u, m) PROVE u = t /\ merging'[t] = m
    BY <1>1, <1>4, <2>1 DEF SetMerge
  <2>2. CASE MergeStart(u)
    <3>1. merging'[t] = [NoMerge EXCEPT !.inputs = InputIds, !.rest = InputIds]
      BY <2>1, <2>2 DEF MergeStart
    <3> QED
      BY <3>1 DEF NoMerge
  <2>3. CASE MergeOpen(u)
    <3>1. merging'[t] = [o EXCEPT !.out = next_file_id, !.highest = next_file_id]
      BY <2>1, <2>3 DEF MergeOpen
    <3> QED
      BY <1>1, <3>1 DEF MergeRec
  <2>4. CASE MergeRead(u)
    <3>1. \/ merging'[t] = NoMerge
          \/ merging'[t] = [o EXCEPT !.rest = @ \ {Min(o.rest)}, !.file = Min(o.rest), !.at = 1,
                                     !.upto = files[Min(o.rest)].flushed]
      BY <2>1, <2>4 DEF MergeRead, EndMerge
    <3>2. NoMerge.out = 0
      BY DEF NoMerge
    <3>3. ASSUME NEW x, NEW r, NEW f
          PROVE  [o EXCEPT !.rest = r, !.file = f, !.at = 1, !.upto = x].out = o.out
      <4> HIDE DEF o
      <4> QED
        BY <1>1 DEF MergeRec
    <3> DEFINE read(x, r, f) == [o EXCEPT !.rest = r, !.file = f, !.at = 1, !.upto = x]
    <3>4. ASSUME merging'[t] # NoMerge PROVE merging'[t].out = o.out
      <4>1. merging'[t] = read(files[Min(o.rest)].flushed, o.rest \ {Min(o.rest)}, Min(o.rest))
        BY <3>1, <3>4
      <4>2. \A x, r, f : read(x, r, f).out = o.out
        BY <3>3
      <4> HIDE DEF read
      <4> QED
        BY <4>1, <4>2
    <3> QED
      BY <3>2, <3>4
  <2>5. CASE MergeEntry(u)
    <3> DEFINE q == Queued(o.queue, history[EntryAt(o)].key,
                           [file_id |-> o.file, value_pos |-> o.at],
                           [file_id |-> o.out,
                            value_pos |-> Len(WithBuffered(files, o.out, EntryAt(o))
                                                 [o.out].entries)])
               copied == [o EXCEPT !.at = @ + 1, !.since = @ + 1, !.queue = q]
    <3>1. \/ merging'[t] = [o EXCEPT !.at = @ + 1]
          \/ merging'[t] = [copied EXCEPT !.out = next_file_id, !.since = 0,
                                          !.highest = RaisedTo(@, next_file_id)]
          \/ merging'[t] = [copied EXCEPT !.since = 0]
          \/ merging'[t] = copied
      BY <2>1, <2>5 DEF MergeEntry
    <3> HIDE DEF q
    <3> QED
      BY <1>1, <3>1 DEF MergeRec
  <2>6. CASE MergeRepoint(u)
    <3>1. merging'[t] = [o EXCEPT !.queue = Tail(@)]
      BY <1>4, <2>1, <2>6 DEF MergeRepoint
    <3> QED
      BY <1>1, <3>1 DEF MergeRec
  <2>7. CASE MergeFinish(u)
    <3>1. merging'[t] = [o EXCEPT !.rest = o.inputs]
      BY <2>1, <2>7 DEF MergeFinish
    <3> QED
      BY <1>1, <3>1 DEF MergeRec
  <2>8. CASE MergeRemove(u)
    BY <1>4, <2>8 DEF MergeRemove, mergeVars
  <2>9. CASE MergeForget(u)
    <3>1. merging'[t] = [o EXCEPT !.rest = @ \ {NextToRemove(o.rest)}]
      BY <2>1, <2>9 DEF MergeForget
    <3> QED
      BY <1>1, <3>1 DEF MergeRec
  <2>10. CASE MergeRestore(u) \/ MergeFails(u)
    BY <2>1, <2>10 DEF MergeRestore, MergeFails, EndMerge, NoMerge
  <2> QED
    BY <1>4, <2>2, <2>3, <2>4, <2>5, <2>6, <2>7, <2>8, <2>9, <2>10 DEF MergeStep
<1> QED
  BY <1>2, <1>3, <1>4 DEF MergeNext, mergeVars, allVars

\* The active file stays, or becomes the one with the next id, or one above all others.
LEMMA ActiveIsNext ==
    ASSUME [MergeNext]_allVars
    PROVE  active_id' \in {active_id, next_file_id, Max(linked) + 1}
<1>1. ASSUME NEW t \in Threads, NEW k, NEW tomb, AppendEntry(t, k, tomb)
      PROVE  active_id' \in {active_id, next_file_id}
  BY <1>1 DEF AppendEntry, RotateActive, RotationFails
<1>2. ASSUME NEW t \in Threads, MergeStep(t) PROVE active_id' \in {active_id, next_file_id}
  <2>1. CASE MergeRestore(t)
    BY <2>1 DEF MergeRestore, RotateActive
  <2>2. CASE ~MergeRestore(t)
    BY <1>2, <2>2 DEF MergeStep, MergeStart, MergeOpen, MergeRead, MergeEntry, MergeRepoint,
       MergeFinish, MergeRemove, MergeForget, MergeFails, diskVars
  <2> QED
    BY <2>1, <2>2
<1>3. ASSUME NEW t \in Threads, SyncWrite(t) \/ UpdateKeydir(t) \/ Sync(t)
      PROVE  active_id' = active_id
  BY <1>3 DEF SyncWrite, UpdateKeydir, Sync, diskVars
<1>4. ASSUME NEW t \in Threads, NEW K, TakeEntries(t, K) \/ ReadValue(t, K) \/ DeleteCheck(t, K)
      PROVE  active_id' = active_id
  BY <1>4 DEF TakeEntries, ReadValue, DeleteCheck, diskVars
<1>5. ASSUME NEW kind, CrashAndOpen(kind) PROVE active_id' = Max(linked) + 1
  BY <1>5 DEF CrashAndOpen
<1>6. UNCHANGED allVars => active_id' = active_id
  BY DEF allVars, vars, diskVars
<1> QED
  BY <1>1, <1>2, <1>3, <1>4, <1>5, <1>6 DEF MergeNext, Put, DeleteAppend

\* Rotation, merge and open never take an id that a file has or had.
THEOREM FilesAreFresh == MergeSpec => NewFileIsFresh
<1>1. IInv /\ [MergeNext]_allVars =>
         [/\ active_id' # active_id => active_id' \notin DOMAIN files
          /\ \A t \in Threads : merging'[t].out \notin {0, merging[t].out}
                                   => merging'[t].out \notin DOMAIN files]_allVars
  <2> SUFFICES ASSUME IInv, [MergeNext]_allVars
               PROVE  /\ active_id' # active_id => active_id' \notin DOMAIN files
                      /\ \A t \in Threads : merging'[t].out \notin {0, merging[t].out}
                                               => merging'[t].out \notin DOMAIN files
    OBVIOUS
  <2>1. next_file_id \notin DOMAIN files
    BY DEF IInv, DiskInv, FilesOK
  <2>2. Max(linked) + 1 \notin DOMAIN files
    <3>1. /\ IsFiniteSet(linked) /\ linked \subseteq Nat /\ DOMAIN files \subseteq Nat
          /\ active_id \in linked /\ \A f \in DOMAIN files \ linked : f < active_id
      BY DEF IInv, DiskInv, FilesOK
    <3>2. Max(linked) \in linked /\ \A f \in linked : f <= Max(linked)
      BY <3>1, MaxIsGreatest
    <3> DEFINE newest == Max(linked)
    <3>3. newest \in Nat /\ active_id \in Nat /\ active_id <= newest
      BY <3>1, <3>2
    <3> HIDE DEF newest
    <3>4. ASSUME NEW f \in DOMAIN files PROVE f \in Nat /\ f <= newest
      <4>1. f \in Nat
        BY <3>1
      <4>2. CASE f \in linked
        BY <3>2, <4>1, <4>2 DEF newest
      <4>3. CASE f \notin linked
        BY <3>1, <3>3, <4>1, <4>3
      <4> QED
        BY <4>1, <4>2, <4>3
    <3>5. newest + 1 \notin DOMAIN files
      BY <3>3, <3>4
    <3> QED
      BY <3>5 DEF newest
  <2>3. active_id' # active_id => active_id' \notin DOMAIN files
    BY <2>1, <2>2, ActiveIsNext
  <2>4. ASSUME NEW t \in Threads, merging'[t].out \notin {0, merging[t].out}
        PROVE  merging'[t].out \notin DOMAIN files
    BY <2>1, <2>4, OutIsNext
  <2> QED
    BY <2>3, <2>4
<1> QED
  BY <1>1, Inductive, PTL DEF MergeSpec, NewFileIsFresh

\* Crashes are counted.
LEMMA CrashesCounted == MergeSpec => [](crashes \in Nat)
<1>1. MergeInit => crashes \in Nat
  BY DEF MergeInit, Init
<1>2. crashes \in Nat /\ [MergeNext]_allVars => (crashes \in Nat)'
  <2> SUFFICES ASSUME crashes \in Nat, [MergeNext]_allVars
               PROVE  crashes' = crashes \/ crashes' = crashes + 1
    OBVIOUS
  <2>1. ASSUME NEW t \in Threads, NEW k, NEW tomb, AppendEntry(t, k, tomb)
        PROVE  crashes' = crashes
    BY <2>1 DEF AppendEntry
  <2>2. ASSUME NEW t \in Threads, MergeStep(t) PROVE crashes' = crashes
    BY <2>2 DEF MergeStep, MergeStart, MergeOpen, MergeRead, MergeEntry, MergeRepoint, MergeFinish,
       MergeRemove, MergeForget, MergeRestore, MergeFails
  <2>3. ASSUME NEW t \in Threads, SyncWrite(t) \/ UpdateKeydir(t) \/ Sync(t)
        PROVE  crashes' = crashes
    BY <2>3 DEF SyncWrite, UpdateKeydir, Sync
  <2>4. ASSUME NEW t \in Threads, NEW K, TakeEntries(t, K) \/ ReadValue(t, K) \/ DeleteCheck(t, K)
        PROVE  crashes' = crashes
    BY <2>4 DEF TakeEntries, ReadValue, DeleteCheck
  <2>5. ASSUME NEW kind, CrashAndOpen(kind) PROVE crashes' = crashes + 1
    BY <2>5 DEF CrashAndOpen
  <2>6. UNCHANGED allVars => crashes' = crashes
    BY DEF allVars, vars
  <2> QED
    BY <2>1, <2>2, <2>3, <2>4, <2>5, <2>6 DEF MergeNext, Put, DeleteAppend
<1> QED
  BY <1>1, <1>2, PTL DEF MergeSpec

\* Only the repointing itself changes what a merge that repoints holds, short of a crash.
LEMMA RepointsAlone ==
    ASSUME IInv, crashes \in Nat, [MergeNext]_allVars, crashes' = crashes,
           NEW t \in Threads, pc[t] \in RepointPCs, merging'[t] # merging[t]
    PROVE  MergeRepoint(t)
<1>1. merging \in [Threads -> MergeRec]
  BY DEF IInv, MergesInv
<1>2. mergeVars' # mergeVars /\ allVars' # allVars
  BY DEF mergeVars, allVars
<1>3. ASSUME NEW kind \in CrashKinds, CrashAndOpen(kind) PROVE FALSE
  BY <1>3 DEF CrashAndOpen
<1>4. PICK u \in Threads : MergeStep(u)
  BY <1>2, <1>3 DEF MergeNext
<1>5. ASSUME NEW m, SetMerge(u, m) PROVE u = t
  BY <1>1, <1>5 DEF SetMerge
<1>6. u = t
  BY <1>2, <1>4, <1>5 DEF MergeStep, MergeStart, MergeOpen, MergeRead, MergeEntry, MergeRepoint,
     MergeFinish, MergeRemove, MergeForget, MergeRestore, MergeFails, EndMerge, mergeVars
<1> QED
  BY <1>4, <1>6 DEF MergeStep, MergeStart, MergeOpen, MergeRead, MergeEntry, MergeFinish,
     MergeRemove, MergeForget, MergeRestore, MergeFails, MayStart, RepointPCs

\* One repoint: the key had the old place and has the copy, or does not change.
LEMMA RepointKeepsValue ==
    ASSUME IInv, NEW t \in Threads, MergeRepoint(t), NEW k \in Keys
    PROVE  Visible(k)' = Visible(k)
<1> DEFINE o == merging[t]
           q == Head(o.queue)
<1>1. /\ UNCHANGED diskVars /\ pc[t] \in MergePCs
      /\ \/ o.queue # <<>> /\ keydir' = Repointed(q.key, q.old, q.new)
         \/ keydir' = keydir
  BY DEF MergeRepoint, MergePCs
<1>2. files' = files
  BY <1>1 DEF diskVars
<1>3. CASE keydir' = keydir
  BY <1>2, <1>3 DEF Visible, VersionAt
<1>4. CASE o.queue # <<>> /\ keydir' = Repointed(q.key, q.old, q.new)
  <2>1. o \in MergeRec /\ QueueOK(o, pc[t], files, history)
    BY <1>1, MergeKnown
  <2>2. o.queue \in Seq(Repoint) /\ 1 \in DOMAIN o.queue /\ q = o.queue[1] /\ q \in Repoint
    BY <1>4, <2>1 DEF MergeRec
  <2>3. RepointOK(files, history, q)
    BY <2>1, <2>2 DEF QueueOK
  <2> HIDE DEF q
  <2>4. keydir \in Keydirs /\ q.old # None /\ q.new # None
    BY <2>2, NoneAssumption DEF IInv, KeydirInv, Repoint
  <2>5. keydir'[k] = IF k = q.key /\ keydir[k] = q.old THEN q.new ELSE keydir[k]
    BY <1>4, <2>4 DEF Repointed, Keydirs, q
  <2>6. CASE k = q.key /\ keydir[k] = q.old
    BY <1>2, <2>3, <2>4, <2>5, <2>6 DEF Visible, VersionAt, RepointOK, EntryIn
  <2>7. CASE ~(k = q.key /\ keydir[k] = q.old)
    BY <1>2, <2>5, <2>7 DEF Visible, VersionAt
  <2> QED
    BY <2>6, <2>7
<1> QED
  BY <1>1, <1>3, <1>4

\* Repointing changes where a key is read, never what is read there, whatever was put,
\* deleted or merged meanwhile.
THEOREM RepointsKeepValues == MergeSpec => RepointKeepsValues
<1>1. IInv /\ crashes \in Nat /\ [MergeNext]_allVars =>
         [\A t \in Threads :
             pc[t] \in {"repoint", "repoint_last"} /\ merging'[t] # merging[t] /\ crashes' = crashes
                 => \A k \in Keys : Visible(k)' = Visible(k)]_allVars
  <2> SUFFICES ASSUME IInv, crashes \in Nat, [MergeNext]_allVars, NEW t \in Threads,
                      pc[t] \in RepointPCs, merging'[t] # merging[t], crashes' = crashes,
                      NEW k \in Keys
               PROVE  Visible(k)' = Visible(k)
    BY DEF RepointPCs
  <2>1. MergeRepoint(t)
    BY RepointsAlone
  <2> QED
    BY <2>1, RepointKeepsValue
<1> QED
  BY <1>1, Inductive, CrashesCounted, PTL DEF MergeSpec, RepointKeepsValues

-----------------------------------------------------------------------------
(* With one merge at a time.  Two merges that overlap remove each other's    *)
(* inputs and outputs, and what follows fails (TwoMerges.cfg, MergeLoses.cfg). *)

OneMerge == \A t, u \in Mergers : <<t, u>> \notin MayOverlap

Crashed == \E kind \in CrashKinds : CrashAndOpen(kind)

\* A step of one thread's merge is no step of another's.
LEMMA OneMoves ==
    ASSUME IInv, NEW t \in Threads, MergeStep(t), NEW u \in Threads, u # t
    PROVE  merging'[u] = merging[u] /\ pc'[u] = pc[u]
<1>1. merging \in [Threads -> MergeRec] /\ pc \in [Threads -> PCs]
  BY DEF IInv, MergesInv, ArgInv
<1>2. ASSUME NEW m, SetMerge(t, m) PROVE merging'[u] = merging[u]
  BY <1>1, <1>2 DEF SetMerge
<1>3. ASSUME NEW l, Goto(t, l) PROVE pc'[u] = pc[u]
  BY <1>1, <1>3 DEF Goto
<1>4. merging' = merging \/ merging'[u] = merging[u]
  BY <1>2 DEF MergeStep, MergeStart, MergeOpen, MergeRead, MergeEntry, MergeRepoint, MergeFinish,
     MergeRemove, MergeForget, MergeRestore, MergeFails, EndMerge, mergeVars
<1>5. pc' = pc \/ pc'[u] = pc[u]
  BY <1>3 DEF MergeStep, MergeStart, MergeOpen, MergeRead, MergeEntry, MergeRepoint, MergeFinish,
     MergeRemove, MergeForget, MergeRestore, MergeFails, EndMerge
<1> QED
  BY <1>4, <1>5

\* A merge moves by its own steps only.
LEMMA OthersKeep ==
    ASSUME IInv, [MergeNext]_allVars, ~Crashed, NEW t \in Threads, ~MergeStep(t)
    PROVE  /\ merging'[t] = merging[t]
           /\ pc[t] \in MergePCs \/ pc'[t] \in MergePCs => pc'[t] = pc[t]
<1>1. pc \in [Threads -> PCs]
  BY DEF IInv, ArgInv
<1> DEFINE Kept == pc[t] \in MergePCs \/ pc'[t] \in MergePCs => pc'[t] = pc[t]
           Calls == {"idle", "delete", "sync", "update", "read"}
<1>2. ASSUME NEW u \in Threads, NEW l \in Calls, pc[u] \in Calls, pc' = [pc EXCEPT ![u] = l]
      PROVE  Kept
  BY <1>1, <1>2 DEF MergePCs
<1>3. ASSUME NEW u \in Threads, NEW k, NEW tomb \in BOOLEAN, pc[u] \in Calls, AppendEntry(u, k, tomb)
      PROVE  Kept
  <2>1. \E l \in {"idle", "sync", "update"} : pc' = [pc EXCEPT ![u] = l]
    BY <1>3 DEF AppendEntry, Return
  <2> HIDE DEF Kept
  <2> QED
    BY <1>2, <1>3, <2>1
<1> HIDE DEF Kept
<1>4. ASSUME NEW u \in Threads, NEW k \in Keys, Put(u, k) PROVE Kept
  BY <1>3, <1>4 DEF Put, MayStart
<1>5. ASSUME NEW u \in Threads, NEW k \in Keys, DeleteCheck(u, k) PROVE Kept
  BY <1>2, <1>5 DEF DeleteCheck, MayStart
<1>6. ASSUME NEW u \in Threads, DeleteAppend(u) PROVE Kept
  BY <1>3, <1>6 DEF DeleteAppend
<1>7. ASSUME NEW u \in Threads, SyncWrite(u) \/ UpdateKeydir(u) PROVE Kept
  <2>1. pc[u] \in Calls /\ \E l \in {"idle", "update"} : pc' = [pc EXCEPT ![u] = l]
    BY <1>7 DEF SyncWrite, UpdateKeydir, Return
  <2> QED
    BY <1>2, <2>1
<1>8. ASSUME NEW u \in Threads, Sync(u) PROVE Kept
  BY <1>8 DEF Sync, memVars, Kept
<1>9. ASSUME NEW u \in Threads, NEW K, TakeEntries(u, K) PROVE Kept
  BY <1>2, <1>9 DEF TakeEntries, MayStart
<1>10. ASSUME NEW u \in Threads, NEW r, ReadValue(u, r) PROVE Kept
  <2>1. pc[u] \in Calls /\ \E l \in {"idle", "read"} : pc' = [pc EXCEPT ![u] = l]
    BY <1>10 DEF ReadValue
  <2> QED
    BY <1>2, <2>1
<1>11. CASE UNCHANGED mergeVars /\ Kept
  BY <1>11 DEF mergeVars, Kept
<1>12. CASE \E u \in Threads : MergeStep(u)
  BY <1>12, OneMoves
<1>13. CASE UNCHANGED allVars
  BY <1>13 DEF allVars, mergeVars, vars, memVars
<1> QED
  BY <1>4, <1>5, <1>6, <1>7, <1>8, <1>9, <1>10, <1>11, <1>12, <1>13 DEF MergeNext, Crashed, Kept

\* What the steps of a merge leave of its locals.
LEMMA StartMoves ==
    ASSUME IInv, NEW t \in Threads, MergeStart(t)
    PROVE  /\ pc[t] = "idle" /\ pc'[t] = "open" /\ linked' = linked
           /\ merging'[t].inputs = InputIds /\ merging'[t].rest = InputIds
           /\ merging'[t].queue = <<>>
<1>1. merging \in [Threads -> MergeRec] /\ pc \in [Threads -> PCs]
  BY DEF IInv, MergesInv, ArgInv
<1>2. /\ merging'[t] = [NoMerge EXCEPT !.inputs = InputIds, !.rest = InputIds]
      /\ pc'[t] = "open" /\ pc[t] = "idle" /\ linked' = linked
  BY <1>1 DEF MergeStart, MayStart, SetMerge, Goto, diskVars
<1> QED
  BY <1>2 DEF NoMerge

\* What MergeOpen does to the locals of its merge and to the directory;
LEMMA OpenMoves ==
    ASSUME IInv, NEW t \in Threads, MergeOpen(t)
    PROVE  /\ pc[t] = "open" /\ pc'[t] = "copy" /\ linked' = linked \cup {next_file_id}
           /\ LET m == merging'[t]
                  o == merging[t]
              IN  /\ m.inputs = o.inputs /\ m.rest = o.rest /\ m.queue = o.queue
                  /\ m.at = o.at /\ m.upto = o.upto
                  /\ m.out = next_file_id /\ m.highest = next_file_id
<1>1. merging \in [Threads -> MergeRec] /\ merging[t] \in MergeRec /\ pc \in [Threads -> PCs]
  BY DEF IInv, MergesInv, ArgInv
<1>2. /\ merging'[t] = [merging[t] EXCEPT !.out = next_file_id, !.highest = next_file_id]
      /\ pc'[t] = "copy" /\ pc[t] = "open" /\ linked' = linked \cup {next_file_id}
  BY <1>1 DEF MergeOpen, SetMerge, Goto
<1> QED
  BY <1>1, <1>2 DEF MergeRec

\* what MergeRead does;
LEMMA ReadMoves ==
    ASSUME IInv, NEW t \in Threads, MergeRead(t)
    PROVE  LET m == merging'[t]
               o == merging[t]
               f == Min(o.rest)
           IN  /\ pc[t] = "copy" /\ linked' = linked /\ o.at > o.upto /\ o.rest # {}
               /\ \/ /\ f \in linked /\ pc'[t] = "copy"
                     /\ m.rest = o.rest \ {f} /\ m.file = f
                     /\ m.at = 1 /\ m.upto = files[f].flushed
                     /\ m.inputs = o.inputs /\ m.queue = o.queue
                     /\ m.out = o.out /\ m.highest = o.highest
                  \/ f \notin linked /\ pc'[t] = "idle"
<1> DEFINE o == merging[t]
           f == Min(o.rest)
           upto == files[f].flushed
<1>1. merging \in [Threads -> MergeRec] /\ o \in MergeRec /\ pc \in [Threads -> PCs]
  BY DEF IInv, MergesInv, ArgInv
<1>2. /\ pc[t] = "copy" /\ linked' = linked /\ o.at > o.upto /\ o.rest # {}
      /\ \/ /\ f \in linked /\ pc'[t] = "copy"
            /\ merging'[t] = [o EXCEPT !.rest = @ \ {f}, !.file = f, !.at = 1, !.upto = upto]
         \/ f \notin linked /\ pc'[t] = "idle"
  BY <1>1 DEF MergeRead, SetMerge, Goto, EndMerge, diskVars
<1> HIDE DEF f, upto
<1>3. CASE merging'[t] = [o EXCEPT !.rest = @ \ {f}, !.file = f, !.at = 1, !.upto = upto]
  <2> DEFINE m == [o EXCEPT !.rest = @ \ {f}, !.file = f, !.at = 1, !.upto = upto]
  <2>1. /\ m.rest = o.rest \ {f} /\ m.file = f
        /\ m.at = 1 /\ m.upto = upto
        /\ m.inputs = o.inputs /\ m.queue = o.queue
        /\ m.out = o.out /\ m.highest = o.highest
    BY <1>1 DEF MergeRec
  <2> QED
    BY <1>2, <1>3, <2>1 DEF f, upto
<1> QED
  BY <1>2, <1>3 DEF f, upto

\* The place being copied is passed, and queued if it is live; the output is the old one, or
\* the next file.
LEMMA EntryMoves ==
    ASSUME IInv, NEW t \in Threads, MergeEntry(t)
    PROVE  LET m == merging'[t]
               o == merging[t]
           IN  /\ pc[t] = "copy" /\ pc'[t] \in {"copy", "repoint"} /\ o.at <= o.upto
               /\ m.inputs = o.inputs /\ m.rest = o.rest /\ m.file = o.file
               /\ m.upto = o.upto /\ m.at = o.at + 1
               /\ m.queue \in Seq(Repoint)
               /\ \/ ~IsLive(o) /\ m.queue = o.queue
                  \/ IsLive(o) /\ m.queue = Append(o.queue, CopyOf(o))
               /\ \/ m.out = o.out /\ m.highest = o.highest /\ linked' = linked
                  \/ /\ m.out = next_file_id /\ m.highest = RaisedTo(o.highest, next_file_id)
                     /\ linked' = linked \cup {next_file_id}
<1> DEFINE o == merging[t]
           m == merging'[t]
           q == Append(o.queue, CopyOf(o))
           copied == [o EXCEPT !.at = o.at + 1, !.since = o.since + 1, !.queue = q]
<1>1. merging \in [Threads -> MergeRec] /\ o \in MergeRec /\ pc \in [Threads -> PCs]
  BY DEF IInv, MergesInv, ArgInv
<1>2. MergesInv'
  BY MergeEntryOK DEF IInv
<1>3. m \in MergeRec
  BY <1>2 DEF MergesInv
<1> DEFINE fs == WithBuffered(files, o.out, EntryAt(o))
<1>4. /\ pc[t] = "copy" /\ pc'[t] \in {"copy", "repoint"} /\ o.at <= o.upto
      /\ \/ ~IsLive(o) /\ m = [o EXCEPT !.at = o.at + 1] /\ linked' = linked
         \/ /\ IsLive(o) /\ linked' = linked \cup {next_file_id}
            /\ m = [copied EXCEPT !.out = next_file_id, !.since = 0,
                                  !.highest = RaisedTo(o.highest, next_file_id)]
         \/ IsLive(o) /\ m = [copied EXCEPT !.since = 0] /\ linked' = linked
         \/ IsLive(o) /\ m = copied /\ linked' = linked
  <2>1. pc[t] = "copy" /\ o.at <= o.upto /\ pc'[t] \in {"copy", "repoint"}
    BY <1>1 DEF MergeEntry, Goto
  <2>2. CASE ~IsLive(o)
    BY <1>1, <2>1, <2>2 DEF MergeEntry, SetMerge
  <2>3. CASE IsLive(o)
    <3>1. Len(fs[o.out].entries) = Len(files[o.out].entries) + 1
      <4> HIDE DEF fs
      <4> QED
        BY <2>1, <2>3, BufferedOK DEF fs
    <3>2. Queued(o.queue, history[EntryAt(o)].key, [file_id |-> o.file, value_pos |-> o.at],
                 [file_id |-> o.out, value_pos |-> Len(fs[o.out].entries)]) = q
      BY <3>1 DEF Queued, CopyOf, OldPlace, CopyPlace
    <3> HIDE DEF fs, q
    <3>3. \/ /\ linked' = linked \cup {next_file_id}
             /\ SetMerge(t, [copied EXCEPT !.out = next_file_id, !.since = 0,
                                           !.highest = RaisedTo(@, next_file_id)])
          \/ SetMerge(t, [copied EXCEPT !.since = 0]) /\ linked' = linked
          \/ SetMerge(t, copied) /\ linked' = linked
      BY <2>3, <3>2 DEF MergeEntry, fs
    <3>4. copied.highest = o.highest
      BY <1>1 DEF MergeRec
    <3> HIDE DEF copied, m
    <3>5. ASSUME NEW x, SetMerge(t, x) PROVE m = x
      BY <1>1, <3>5 DEF SetMerge, m
    <3>6. [copied EXCEPT !.out = next_file_id, !.since = 0, !.highest = RaisedTo(@, next_file_id)]
            = [copied EXCEPT !.out = next_file_id, !.since = 0,
                             !.highest = RaisedTo(o.highest, next_file_id)]
      BY <3>4
    <3> QED
      BY <2>1, <2>3, <3>3, <3>5, <3>6
  <2> QED
    BY <2>2, <2>3
<1> HIDE DEF q, m
<1>5. /\ copied.inputs = o.inputs /\ copied.rest = o.rest /\ copied.file = o.file
      /\ copied.upto = o.upto /\ copied.at = o.at + 1 /\ copied.queue = q
      /\ copied.out = o.out /\ copied.highest = o.highest
      /\ DOMAIN copied = DOMAIN o
  BY <1>1 DEF MergeRec
<1>6. /\ "out" \in DOMAIN o /\ "since" \in DOMAIN o /\ "highest" \in DOMAIN o /\ "at" \in DOMAIN o
  BY <1>1 DEF MergeRec
<1>7. m.queue \in Seq(Repoint)
  BY <1>3 DEF MergeRec
<1> HIDE DEF copied
<1>8. CASE ~IsLive(o) /\ m = [o EXCEPT !.at = o.at + 1] /\ linked' = linked
  <2>1. /\ m.inputs = o.inputs /\ m.rest = o.rest /\ m.file = o.file
        /\ m.upto = o.upto /\ m.at = o.at + 1 /\ m.queue = o.queue
        /\ m.out = o.out /\ m.highest = o.highest
    BY <1>1, <1>8 DEF MergeRec
  <2> QED
    BY <1>4, <1>7, <1>8, <2>1 DEF m
<1>9. CASE /\ IsLive(o) /\ linked' = linked \cup {next_file_id}
           /\ m = [copied EXCEPT !.out = next_file_id, !.since = 0,
                                 !.highest = RaisedTo(o.highest, next_file_id)]
  <2>1. /\ m.inputs = o.inputs /\ m.rest = o.rest /\ m.file = o.file
        /\ m.upto = o.upto /\ m.at = o.at + 1 /\ m.queue = q
        /\ m.out = next_file_id /\ m.highest = RaisedTo(o.highest, next_file_id)
    BY <1>5, <1>6, <1>9
  <2> QED
    BY <1>4, <1>7, <1>9, <2>1 DEF m, q
<1>10. CASE IsLive(o) /\ linked' = linked /\ (m = copied \/ m = [copied EXCEPT !.since = 0])
  <2>1. /\ m.inputs = copied.inputs /\ m.rest = copied.rest /\ m.file = copied.file
        /\ m.upto = copied.upto /\ m.at = copied.at /\ m.queue = copied.queue
        /\ m.out = copied.out /\ m.highest = copied.highest
    <3>1. CASE m = copied
      BY <3>1
    <3>2. CASE m = [copied EXCEPT !.since = 0]
      BY <3>2
    <3> QED
      BY <1>10, <3>1, <3>2
  <2> QED
    BY <1>4, <1>5, <1>7, <1>10, <2>1 DEF m, q
<1> QED
  BY <1>4, <1>8, <1>9, <1>10 DEF m

\* Repointing takes from the queue, and ends when it is empty.
LEMMA RepointMoves ==
    ASSUME IInv, NEW t \in Threads, MergeRepoint(t)
    PROVE  LET m == merging'[t]
               o == merging[t]
           IN  /\ pc[t] \in RepointPCs /\ linked' = linked
               /\ m.inputs = o.inputs /\ m.rest = o.rest /\ m.file = o.file
               /\ m.upto = o.upto /\ m.at = o.at /\ m.out = o.out /\ m.highest = o.highest
               /\ \/ /\ o.queue # <<>> /\ m.queue = Tail(o.queue) /\ pc'[t] = pc[t]
                     /\ keydir' = Repointed(o.queue[1].key, o.queue[1].old, o.queue[1].new)
                  \/ /\ o.queue = <<>> /\ m.queue = <<>> /\ keydir' = keydir
                     /\ pc'[t] = IF pc[t] = "repoint" THEN "copy" ELSE "remove"
<1> DEFINE o == merging[t]
<1>1. merging \in [Threads -> MergeRec] /\ o \in MergeRec /\ pc \in [Threads -> PCs]
  BY DEF IInv, MergesInv, ArgInv
<1>2. /\ pc[t] \in RepointPCs /\ linked' = linked
      /\ \/ /\ o.queue # <<>> /\ merging'[t] = [o EXCEPT !.queue = Tail(@)] /\ pc'[t] = pc[t]
            /\ keydir' = Repointed(Head(o.queue).key, Head(o.queue).old, Head(o.queue).new)
         \/ /\ o.queue = <<>> /\ merging'[t] = o /\ keydir' = keydir
            /\ pc'[t] = IF pc[t] = "repoint" THEN "copy" ELSE "remove"
  BY <1>1 DEF MergeRepoint, SetMerge, Goto, RepointPCs, diskVars
<1>3. Head(o.queue) = o.queue[1]
  BY <1>1 DEF MergeRec
<1>4. CASE o.queue # <<>> /\ merging'[t] = [o EXCEPT !.queue = Tail(@)]
  <2>1. /\ merging'[t].inputs = o.inputs /\ merging'[t].rest = o.rest /\ merging'[t].file = o.file
        /\ merging'[t].upto = o.upto /\ merging'[t].at = o.at /\ merging'[t].out = o.out
        /\ merging'[t].highest = o.highest /\ merging'[t].queue = Tail(o.queue)
    BY <1>1, <1>4 DEF MergeRec
  <2> QED
    BY <1>2, <1>3, <1>4, <2>1
<1>5. CASE o.queue = <<>> /\ merging'[t] = o
  BY <1>2, <1>5
<1> QED
  BY <1>2, <1>4, <1>5

\* what MergeFinish does;
LEMMA FinishMoves ==
    ASSUME IInv, NEW t \in Threads, MergeFinish(t)
    PROVE  LET m == merging'[t]
               o == merging[t]
           IN  /\ pc[t] = "copy" /\ o.at > o.upto /\ o.rest = {}
               /\ pc'[t] = "repoint_last" /\ linked' = linked
               /\ m.inputs = o.inputs /\ m.rest = o.inputs /\ m.file = o.file
               /\ m.queue = o.queue /\ m.out = o.out /\ m.highest = o.highest
<1> DEFINE o == merging[t]
<1>1. merging \in [Threads -> MergeRec] /\ o \in MergeRec /\ pc \in [Threads -> PCs]
  BY DEF IInv, MergesInv, ArgInv
<1>2. /\ pc[t] = "copy" /\ o.at > o.upto /\ o.rest = {} /\ pc'[t] = "repoint_last"
      /\ linked' = linked /\ merging'[t] = [o EXCEPT !.rest = o.inputs]
  BY <1>1 DEF MergeFinish, SetMerge, Goto
<1> QED
  BY <1>1, <1>2 DEF MergeRec

\* what MergeRemove does;
LEMMA RemoveMoves ==
    ASSUME IInv, NEW t \in Threads, MergeRemove(t)
    PROVE  /\ pc[t] = "remove" /\ pc'[t] = "forget" /\ merging'[t] = merging[t]
           /\ linked' \in {linked, linked \ {NextToRemove(merging[t].rest)}}
<1>1. pc \in [Threads -> PCs]
  BY DEF IInv, ArgInv
<1> QED
  BY <1>1 DEF MergeRemove, Goto, mergeVars

\* what MergeForget does.
LEMMA ForgetMoves ==
    ASSUME IInv, NEW t \in Threads, MergeForget(t)
    PROVE  LET m == merging'[t]
               o == merging[t]
           IN  /\ pc[t] = "forget" /\ pc'[t] \in {"restore", "remove"} /\ linked' = linked
               /\ m.inputs = o.inputs /\ m.queue = o.queue /\ m.highest = o.highest
<1> DEFINE o == merging[t]
           f == NextToRemove(o.rest)
<1>1. merging \in [Threads -> MergeRec] /\ o \in MergeRec /\ pc \in [Threads -> PCs]
  BY DEF IInv, MergesInv, ArgInv
<1>2. /\ pc[t] = "forget" /\ pc'[t] \in {"restore", "remove"} /\ linked' = linked
      /\ merging'[t] = [o EXCEPT !.rest = @ \ {f}]
  BY <1>1 DEF MergeForget, SetMerge, Goto, diskVars
<1> HIDE DEF f
<1> QED
  BY <1>1, <1>2 DEF MergeRec

\* A merge ends restored or with an error, and removes nothing then.
LEMMA EndMoves ==
    ASSUME IInv, NEW t \in Threads, MergeRestore(t) \/ MergeFails(t)
    PROVE  /\ pc'[t] = "idle"
           /\ linked' \in {linked, linked \cup {next_file_id}}
<1>1. pc \in [Threads -> PCs]
  BY DEF IInv, ArgInv
<1>2. CASE MergeRestore(t)
  BY <1>1, <1>2 DEF MergeRestore, RotateActive, EndMerge, Goto
<1>3. CASE MergeFails(t)
  BY <1>1, <1>3 DEF MergeFails, CopyFails, OutputFails, EndMerge, Goto
<1> QED
  BY <1>2, <1>3

\* The directory changes by one file: at a rotation, for an output, at a removal.
LEMMA LinkedMoves ==
    ASSUME IInv, [MergeNext]_allVars, ~Crashed
    PROVE  \/ linked' = linked
           \/ linked' = linked \cup {next_file_id} /\ active_id' = next_file_id
           \/ /\ linked' = linked \cup {next_file_id}
              /\ \E t \in Threads : MergeOpen(t) \/ MergeEntry(t) \/ MergeFails(t)
           \/ \E t \in Threads : /\ MergeRemove(t)
                                 /\ linked' = linked \ {NextToRemove(merging[t].rest)}
<1> DEFINE Rotates == linked' = linked \cup {next_file_id} /\ active_id' = next_file_id
           Output  == /\ linked' = linked \cup {next_file_id}
                      /\ \E t \in Threads : MergeOpen(t) \/ MergeEntry(t) \/ MergeFails(t)
           Removes == \E t \in Threads : /\ MergeRemove(t)
                                         /\ linked' = linked \ {NextToRemove(merging[t].rest)}
           Done    == linked' = linked \/ Rotates \/ Output \/ Removes
<1>1. ASSUME NEW t \in Threads, NEW k, NEW tomb \in BOOLEAN, AppendEntry(t, k, tomb)
      PROVE  Done
  BY <1>1 DEF AppendEntry, RotateActive, RotationFails
<1>2. ASSUME NEW t \in Threads, MergeStep(t) PROVE Done
  <2>1. CASE MergeStart(t)
    BY <2>1, StartMoves
  <2>2. CASE MergeOpen(t)
    BY <2>2, OpenMoves
  <2>3. CASE MergeRead(t)
    BY <2>3, ReadMoves
  <2>4. CASE MergeEntry(t)
    BY <2>4, EntryMoves
  <2>5. CASE MergeRepoint(t)
    BY <2>5, RepointMoves
  <2>6. CASE MergeFinish(t)
    BY <2>6, FinishMoves
  <2>7. CASE MergeRemove(t)
    BY <2>7, RemoveMoves
  <2>8. CASE MergeForget(t)
    BY <2>8, ForgetMoves
  <2>9. CASE MergeRestore(t)
    BY <2>9 DEF MergeRestore, RotateActive
  <2>10. CASE MergeFails(t)
    BY <2>10, EndMoves
  <2> QED
    BY <1>2, <2>1, <2>2, <2>3, <2>4, <2>5, <2>6, <2>7, <2>8, <2>9, <2>10 DEF MergeStep
<1>3. ASSUME NEW t \in Threads, SyncWrite(t) \/ UpdateKeydir(t) \/ Sync(t) PROVE Done
  BY <1>3 DEF SyncWrite, UpdateKeydir, Sync, diskVars
<1>4. ASSUME NEW t \in Threads, NEW K, TakeEntries(t, K) \/ ReadValue(t, K) \/ DeleteCheck(t, K)
      PROVE  Done
  BY <1>4 DEF TakeEntries, ReadValue, DeleteCheck, diskVars
<1>5. UNCHANGED allVars => Done
  BY DEF allVars, vars, diskVars
<1> HIDE DEF Done
<1>6. Done
  BY <1>1, <1>2, <1>3, <1>4, <1>5 DEF MergeNext, Put, DeleteAppend, Crashed
<1> QED
  BY <1>6 DEF Done

\* I/O errors are counted.
LEMMA FaultsCounted ==
    ASSUME [MergeNext]_allVars
    PROVE  faults' = faults \/ faults' = faults + 1
<1>1. ASSUME NEW t \in Threads, NEW k, NEW tomb \in BOOLEAN, AppendEntry(t, k, tomb)
      PROVE  faults' = faults \/ faults' = faults + 1
  BY <1>1 DEF AppendEntry, RotationFails, Fault
<1>2. ASSUME NEW t \in Threads, MergeStep(t)
      PROVE  faults' = faults \/ faults' = faults + 1
  BY <1>2 DEF MergeStep, MergeStart, MergeOpen, MergeRead, MergeEntry, MergeRepoint, MergeFinish,
     MergeRemove, MergeForget, MergeRestore, MergeFails, Fault
<1>3. ASSUME NEW t \in Threads, SyncWrite(t) \/ UpdateKeydir(t) \/ Sync(t)
      PROVE  faults' = faults \/ faults' = faults + 1
  BY <1>3 DEF SyncWrite, UpdateKeydir, Sync, Fault
<1>4. ASSUME NEW t \in Threads, NEW K, TakeEntries(t, K) \/ ReadValue(t, K) \/ DeleteCheck(t, K)
      PROVE  faults' = faults \/ faults' = faults + 1
  BY <1>4 DEF TakeEntries, ReadValue, DeleteCheck
<1>5. ASSUME NEW kind, CrashAndOpen(kind) PROVE faults' = faults
  BY <1>5 DEF CrashAndOpen
<1>6. UNCHANGED allVars => faults' = faults
  BY DEF allVars, vars
<1> QED
  BY <1>1, <1>2, <1>3, <1>4, <1>5, <1>6 DEF MergeNext, Put, DeleteAppend

\* One merge, by a thread that may merge.
AloneInv ==
    /\ \A t \in Threads : pc[t] \in MergePCs => t \in Mergers
    /\ \A t, u \in Threads : pc[t] \in MergePCs /\ pc[u] \in MergePCs => t = u

\* No call survives a crash.
LEMMA CrashIdles ==
    ASSUME Crashed
    PROVE  \A t \in Threads : pc'[t] = "idle" /\ pc'[t] \notin MergePCs
BY DEF Crashed, CrashAndOpen, MergePCs

\* Callers that do not overlap their merges never have two of them.
LEMMA AloneOK ==
    ASSUME OneMerge, IInv, AloneInv, [MergeNext]_allVars
    PROVE  AloneInv'
<1>1. CASE Crashed
  BY <1>1, CrashIdles DEF AloneInv
<1>2. CASE ~Crashed
  <2>1. ASSUME NEW t \in Threads, pc[t] \notin MergePCs, pc'[t] \in MergePCs
        PROVE  /\ t \in Mergers
               /\ \A u \in Threads \ {t} : pc[u] \notin MergePCs /\ pc'[u] = pc[u]
    <3>1. MergeStep(t)
      BY <1>2, <2>1, OthersKeep
    <3>2. MergeStart(t)
      BY <2>1, <3>1 DEF MergeStep, MergeOpen, MergeRead, MergeEntry, MergeRepoint, MergeFinish,
         MergeRemove, MergeForget, MergeRestore, MergeFails, MergePCs
    <3>3. t \in Mergers /\ \A u \in Threads : pc[u] # "idle" => <<u, t>> \in MayOverlap
      BY <3>2 DEF MergeStart, MayStart
    <3>4. "idle" \notin MergePCs
      BY DEF MergePCs
    <3>5. \A u \in Threads : pc[u] \notin MergePCs
      BY <3>3, <3>4 DEF OneMerge, AloneInv
    <3> QED
      BY <3>1, <3>3, <3>5, OneMoves
  <2>2. \A t \in Threads : pc'[t] \in MergePCs => t \in Mergers
    BY <2>1 DEF AloneInv
  <2>3. ASSUME NEW t \in Threads, NEW u \in Threads, t # u, pc'[t] \in MergePCs,
               pc'[u] \in MergePCs
        PROVE  FALSE
    <3>1. CASE pc[t] \notin MergePCs
      BY <2>1, <2>3, <3>1
    <3>2. CASE pc[u] \notin MergePCs
      BY <2>1, <2>3, <3>2
    <3> QED
      BY <2>3, <3>1, <3>2 DEF AloneInv
  <2> QED
    BY <2>2, <2>3 DEF AloneInv
<1> QED
  BY <1>1, <1>2

\* The inputs still to copy are in the directory and so are the outputs, and no output is an
\* input.
PlaceOK(m, l, ls) ==
    /\ l \in {"open", "copy", "repoint"} => m.rest \subseteq ls
    /\ l \in CopyPCs => m.out \in ls \ m.inputs
    /\ \A i \in DOMAIN m.queue : m.queue[i].new.file_id \in ls \ m.inputs

PlacesInv == \A t \in Threads : pc[t] \in MergePCs => PlaceOK(merging[t], pc[t], linked)

\* Inputs stay in the directory until they are removed, outputs stay in it.
LEMMA PlacesOK ==
    ASSUME IInv, AloneInv, PlacesInv, [MergeNext]_allVars
    PROVE  PlacesInv'
<1> SUFFICES ASSUME NEW t \in Threads, pc'[t] \in MergePCs
             PROVE  PlaceOK(merging'[t], pc'[t], linked')
  BY DEF PlacesInv
<1> DEFINE o == merging[t]
           m == merging'[t]
<1>1. ~Crashed
  BY CrashIdles
<1>2. merging \in [Threads -> MergeRec] /\ o \in MergeRec
  BY DEF IInv, MergesInv
<1>3. /\ next_file_id \notin DOMAIN files
      /\ pc[t] \in MergePCs => o.inputs \subseteq DOMAIN files /\ next_file_id \notin o.inputs
  BY MergeKnown DEF IInv, DiskInv, FilesOK, InputsOK
<1>4. pc[t] \in MergePCs => PlaceOK(o, pc[t], linked)
  BY DEF PlacesInv
<1> HIDE DEF o, m
<1>5. CASE ~MergeStep(t)
  <2>1. m = o /\ pc'[t] = pc[t] /\ pc[t] \in MergePCs
    BY <1>1, <1>5, OthersKeep DEF m, o
  <2>2. linked \subseteq linked'
    <3>1. ASSUME NEW u \in Threads, MergeRemove(u) PROVE FALSE
      <4>1. pc[u] \in MergePCs
        BY <3>1 DEF MergeRemove, MergePCs
      <4>2. u = t
        BY <2>1, <4>1 DEF AloneInv
      <4> QED
        BY <1>5, <3>1, <4>2 DEF MergeStep
    <3> QED
      BY <1>1, <3>1, LinkedMoves
  <2> QED
    BY <1>4, <2>1, <2>2 DEF PlaceOK, m
<1>6. CASE MergeStart(t)
  BY <1>6, StartMoves DEF PlaceOK, InputIds, CopyPCs, RepointPCs, m
<1>7. CASE MergeOpen(t)
  <2>1. pc[t] \in MergePCs
    BY <1>7, OpenMoves DEF MergePCs
  <2> QED
    BY <1>3, <1>4, <1>7, <2>1, OpenMoves DEF PlaceOK, CopyPCs, RepointPCs, m, o
<1>8. CASE MergeRead(t)
  <2>1. "idle" \notin MergePCs /\ "copy" \in MergePCs
    BY DEF MergePCs
  <2> QED
    BY <1>4, <1>8, <2>1, ReadMoves DEF PlaceOK, CopyPCs, RepointPCs, m, o
<1>9. CASE MergeEntry(t)
  <2>1. pc[t] = "copy" /\ pc[t] \in MergePCs /\ pc'[t] \in {"copy", "repoint"}
        /\ pc[t] \in CopyPCs
    BY <1>9, EntryMoves DEF MergePCs, CopyPCs
  <2>2. /\ m.inputs = o.inputs /\ m.rest = o.rest
        /\ \/ m.out = o.out /\ linked' = linked
           \/ m.out = next_file_id /\ linked' = linked \cup {next_file_id}
        /\ m.queue = o.queue \/ m.queue = Append(o.queue, CopyOf(o))
    BY <1>9, EntryMoves DEF m, o
  <2>3. /\ o.rest \subseteq linked /\ o.out \in linked \ o.inputs
        /\ \A i \in DOMAIN o.queue : o.queue[i].new.file_id \in linked \ o.inputs
    BY <1>4, <2>1 DEF PlaceOK
  <2>4. ASSUME NEW i \in DOMAIN m.queue PROVE m.queue[i].new.file_id \in linked \ o.inputs
    <3>1. CASE m.queue = o.queue
      BY <2>3, <3>1
    <3>2. CASE m.queue = Append(o.queue, CopyOf(o))
      <4>1. o.queue \in Seq(Repoint) /\ Len(o.queue) \in Nat
        BY <1>2 DEF MergeRec
      <4>2. CASE i \in DOMAIN o.queue
        BY <2>3, <3>2, <4>1, <4>2
      <4>3. CASE i \notin DOMAIN o.queue
        <5>1. m.queue[i] = CopyOf(o)
          BY <3>2, <4>1, <4>3
        <5> QED
          BY <2>3, <5>1 DEF CopyOf, CopyPlace
      <4> QED
        BY <4>2, <4>3
    <3> QED
      BY <2>2, <3>1, <3>2
  <2>5. linked \subseteq linked' /\ m.out \in linked' \ o.inputs
    BY <1>3, <2>1, <2>2, <2>3
  <2> QED
    BY <2>2, <2>3, <2>4, <2>5 DEF PlaceOK, m
<1>10. CASE MergeRepoint(t)
  <2>1. pc[t] \in MergePCs /\ pc[t] \in CopyPCs
        /\ (pc'[t] = "repoint" => pc[t] = "repoint") /\ (pc'[t] = "copy" => pc[t] = "repoint")
        /\ pc'[t] # "open"
    BY <1>10, RepointMoves DEF MergePCs, RepointPCs, CopyPCs
  <2>2. /\ m.inputs = o.inputs /\ m.rest = o.rest /\ m.out = o.out /\ linked' = linked
        /\ m.queue = <<>> \/ (o.queue # <<>> /\ m.queue = Tail(o.queue))
    BY <1>10, RepointMoves DEF m, o
  <2>3. \A i \in DOMAIN m.queue : i + 1 \in DOMAIN o.queue /\ m.queue[i] = o.queue[i + 1]
    <3>1. CASE m.queue = <<>>
      BY <3>1
    <3>2. CASE o.queue # <<>> /\ m.queue = Tail(o.queue)
      <4>1. o.queue \in Seq(Repoint)
        BY <1>2 DEF MergeRec
      <4> QED
        BY <3>2, <4>1
    <3> QED
      BY <2>2, <3>1, <3>2
  <2> QED
    BY <1>4, <2>1, <2>2, <2>3 DEF PlaceOK, m
<1>11. CASE MergeFinish(t)
  <2>1. pc[t] = "copy" /\ pc[t] \in MergePCs /\ pc[t] \in CopyPCs /\ pc'[t] = "repoint_last"
    BY <1>11, FinishMoves DEF MergePCs, CopyPCs
  <2> QED
    BY <1>4, <1>11, <2>1, FinishMoves DEF PlaceOK, m, o
<1>12. CASE MergeRemove(t) \/ MergeForget(t)
  <2>1. pc[t] \in MergePCs /\ pc[t] \notin CopyPCs /\ pc'[t] \in {"forget", "remove", "restore"}
        /\ m.queue = o.queue
    BY <1>12, RemoveMoves, ForgetMoves DEF MergePCs, CopyPCs, RepointPCs, m, o
  <2>2. o.queue = <<>>
    BY <2>1, MergeKnown DEF QueueOK, o
  <2> QED
    BY <2>1, <2>2 DEF PlaceOK, CopyPCs, RepointPCs, m
<1>13. CASE MergeRestore(t) \/ MergeFails(t)
  BY <1>13, EndMoves DEF MergePCs
<1> QED
  BY <1>5, <1>6, <1>7, <1>8, <1>9, <1>10, <1>11, <1>12, <1>13 DEF MergeStep

\* No file but the outputs of a merge that has not restored the active file yet is above it.
OrderInv ==
    faults = 0 =>
        \A f \in linked : \/ f <= active_id
                          \/ \E t \in Threads : /\ pc[t] \in MergePCs \ {"open"}
                                                /\ f <= merging[t].highest

\* Ids above the active one are the outputs of the merge that runs.
LEMMA OrderOK ==
    ASSUME IInv, faults \in Nat, PlacesInv, OrderInv, [MergeNext]_allVars
    PROVE  OrderInv'
<1> SUFFICES ASSUME faults' = 0, NEW f \in linked'
             PROVE  \/ f <= active_id'
                    \/ \E t \in Threads : /\ pc'[t] \in MergePCs \ {"open"}
                                          /\ f <= merging'[t].highest
  BY DEF OrderInv
<1>1. faults = 0 /\ faults' = faults
  BY FaultsCounted
<1>2. /\ linked \subseteq Nat /\ IsFiniteSet(linked) /\ active_id \in linked
      /\ next_file_id \in Nat /\ \A g \in linked : g < next_file_id
      /\ merging \in [Threads -> MergeRec]
  BY DEF IInv, DiskInv, FilesOK, MergesInv
<1>3. CASE Crashed
  <2>1. active_id' = Max(linked) + 1 /\ linked' = linked \cup {Max(linked) + 1}
    BY <1>3 DEF Crashed, CrashAndOpen
  <2>2. Max(linked) \in Nat /\ \A g \in linked : g <= Max(linked)
    BY <1>2, MaxIsGreatest
  <2> QED
    BY <1>2, <2>1, <2>2
<1>4. CASE ~Crashed /\ active_id' = next_file_id
  <2>1. linked' \subseteq linked \cup {next_file_id}
    BY <1>4, LinkedMoves
  <2> QED
    BY <1>2, <1>4, <2>1
<1>5. CASE ~Crashed /\ active_id' # next_file_id /\ f \notin linked
  <2>1. f = next_file_id /\ \E t \in Threads : MergeOpen(t) \/ MergeEntry(t) \/ MergeFails(t)
    BY <1>5, LinkedMoves
  <2>2. PICK t \in Threads : MergeOpen(t) \/ MergeEntry(t)
    BY <1>1, <2>1 DEF MergeFails, Fault
  <2>3. CASE MergeOpen(t)
    BY <1>2, <2>1, <2>3, OpenMoves DEF MergePCs
  <2>4. CASE MergeEntry(t)
    <3>1. /\ pc'[t] \in MergePCs \ {"open"}
          /\ linked' = linked \/ merging'[t].highest = RaisedTo(merging[t].highest, next_file_id)
      BY <2>4, EntryMoves DEF MergePCs
    <3>2. merging[t].highest \in Nat
      BY <1>2 DEF MergeRec
    <3> QED
      BY <1>2, <1>5, <2>1, <3>1, <3>2 DEF RaisedTo
  <2> QED
    BY <2>2, <2>3, <2>4
<1>6. CASE ~Crashed /\ active_id' # next_file_id /\ f \in linked
  <2>1. active_id' = active_id
    <3>1. active_id' = active_id \/ active_id' = next_file_id \/ active_id' = Max(linked) + 1
      BY ActiveIsNext
    <3>2. CASE active_id' # active_id
      <4>1. Crashed
        BY <1>6, <3>2 DEF MergeNext, Crashed, Put, DeleteAppend, DeleteCheck, AppendEntry,
           RotateActive, RotationFails, SyncWrite, UpdateKeydir, Sync, TakeEntries, ReadValue,
           MergeStep, MergeStart, MergeOpen, MergeRead, MergeEntry, MergeRepoint, MergeFinish,
           MergeRemove, MergeForget, MergeRestore, MergeFails, diskVars, vars, allVars
      <4> QED
        BY <1>6, <4>1
    <3> QED
      BY <3>2
  <2>2. CASE f <= active_id
    BY <2>1, <2>2
  <2>3. CASE ~(f <= active_id)
    <3>1. PICK t \in Threads : pc[t] \in MergePCs \ {"open"} /\ f <= merging[t].highest
      BY <1>1, <1>6, <2>3 DEF OrderInv
    <3>2. f \in Nat /\ merging[t].highest \in Nat /\ active_id \in Nat
      BY <1>2, <1>6 DEF MergeRec
    <3>3. CASE ~MergeStep(t)
      BY <1>6, <3>1, <3>3, OthersKeep
    <3>4. CASE MergeRead(t)
      <4>1. pc[t] = "copy" /\ merging[t].rest # {} /\ merging[t].rest \subseteq linked
        <5>1. pc[t] = "copy" /\ merging[t].rest # {}
          BY <3>4, ReadMoves
        <5> QED
          BY <3>1, <5>1 DEF PlacesInv, PlaceOK
      <4>2. Min(merging[t].rest) \in linked
        BY <1>2, <4>1, MinIsLeast
      <4>3. pc'[t] = "copy" /\ merging'[t].highest = merging[t].highest
        BY <3>4, <4>2, ReadMoves
      <4> QED
        BY <3>1, <4>3 DEF MergePCs
    <3>5. CASE MergeEntry(t)
      <4>1. /\ pc'[t] \in {"copy", "repoint"}
            /\ merging'[t].highest \in {merging[t].highest,
                                        RaisedTo(merging[t].highest, next_file_id)}
        BY <3>5, EntryMoves
      <4>2. merging[t].highest <= merging'[t].highest /\ merging'[t].highest \in Nat
        BY <1>2, <3>2, <4>1 DEF RaisedTo
      <4>3. f <= merging'[t].highest
        BY <3>1, <3>2, <4>2
      <4> QED
        BY <4>1, <4>3 DEF MergePCs
    <3>6. CASE MergeRepoint(t)
      BY <3>1, <3>6, RepointMoves DEF MergePCs, RepointPCs
    <3>7. CASE MergeFinish(t)
      BY <3>1, <3>7, FinishMoves DEF MergePCs
    <3>8. CASE MergeRemove(t)
      BY <3>1, <3>8, RemoveMoves DEF MergePCs
    <3>9. CASE MergeForget(t)
      BY <3>1, <3>9, ForgetMoves DEF MergePCs
    <3>10. CASE MergeRestore(t)
      <4>1. ~MustRestore(merging[t])
        BY <1>6, <3>10 DEF MergeRestore, RotateActive
      <4> QED
        BY <2>3, <3>1, <3>2, <4>1 DEF MustRestore
    <3>11. CASE MergeFails(t)
      BY <1>1, <3>11 DEF MergeFails, Fault
    <3>12. CASE MergeStart(t) \/ MergeOpen(t)
      BY <3>1, <3>12, StartMoves, OpenMoves DEF MergePCs
    <3> QED
      BY <3>3, <3>4, <3>5, <3>6, <3>7, <3>8, <3>9, <3>10, <3>11, <3>12 DEF MergeStep
  <2> QED
    BY <2>2, <2>3
<1> QED
  BY <1>3, <1>4, <1>5, <1>6

OrderedInv == IInv /\ faults \in Nat /\ AloneInv /\ PlacesInv /\ OrderInv

\* With one merge at a time: the invariants of the order of files.
LEMMA Ordered ==
    ASSUME OneMerge
    PROVE  MergeSpec => []OrderedInv
<1>1. MergeInit => OrderedInv
  <2> SUFFICES ASSUME MergeInit PROVE OrderedInv
    OBVIOUS
  <2>1. IInv
    BY StoreAssumption, InitOK
  <2>2. faults = 0 /\ linked = {0} /\ active_id = 0 /\ \A t \in Threads : pc[t] \notin MergePCs
    BY DEF MergeInit, Init, MergePCs
  <2> QED
    BY <2>1, <2>2 DEF OrderedInv, AloneInv, PlacesInv, OrderInv
<1>2. OrderedInv /\ [MergeNext]_allVars => OrderedInv'
  <2> SUFFICES ASSUME OrderedInv, [MergeNext]_allVars PROVE OrderedInv'
    OBVIOUS
  <2>1. IInv'
    BY StoreAssumption, NextOK DEF OrderedInv
  <2>2. (faults \in Nat)'
    BY FaultsCounted DEF OrderedInv
  <2> QED
    BY <2>1, <2>2, AloneOK, PlacesOK, OrderOK DEF OrderedInv
<1> QED
  BY <1>1, <1>2, PTL DEF MergeSpec

\* With one merge at a time and no I/O error, no file of the directory is above the active
\* file once the merge is over.
THEOREM ActiveNewest ==
    ASSUME OneMerge
    PROVE  MergeSpec => []ActiveIsNewest
<1>1. OrderedInv => ActiveIsNewest
  <2> SUFFICES ASSUME OrderedInv, ~MergeInFlight, faults = 0
               PROVE  active_id = Max(linked)
    BY DEF ActiveIsNewest
  <2>1. \A f \in linked : f <= active_id
    BY DEF OrderedInv, OrderInv, MergeInFlight
  <2>2. linked \subseteq Nat /\ IsFiniteSet(linked) /\ active_id \in linked
    BY DEF OrderedInv, IInv, DiskInv, FilesOK
  <2> DEFINE top == Max(linked)
  <2>3. top \in linked /\ \A f \in linked : f <= top
    BY <2>2, MaxIsGreatest
  <2> HIDE DEF top
  <2>4. top <= active_id /\ active_id <= top /\ top \in Nat /\ active_id \in Nat
    BY <2>1, <2>2, <2>3
  <2> QED
    BY <2>4 DEF top
<1> QED
  BY <1>1, Ordered, PTL
\* An input is not written to while it is copied from.
LEMMA Untouched ==
    ASSUME NEW fs, NEW f, NEW v, NEW g \in DOMAIN fs, g # f
    PROVE  /\ g \in DOMAIN WithEntry(fs, f, v) /\ WithEntry(fs, f, v)[g] = fs[g]
           /\ g \in DOMAIN WithSync(fs, f) /\ WithSync(fs, f)[g] = fs[g]
           /\ g \in DOMAIN FlushOutput(fs, f) /\ FlushOutput(fs, f)[g] = fs[g]
           /\ g \in DOMAIN WithBuffered(fs, f, v) /\ WithBuffered(fs, f, v)[g] = fs[g]
           /\ \A h : WithFile(fs, h)[g] = fs[g]
BY DEF WithEntry, WithSync, FlushOutput, WithBuffered, WithFile

\* Nobody writes to a file that is being merged.
LEMMA InputsKeep ==
    ASSUME IInv, AloneInv, PlacesInv, [MergeNext]_allVars, ~Crashed,
           NEW t \in Threads, pc[t] \in MergePCs, NEW g \in merging[t].inputs
    PROVE  files'[g].flushed = files[g].flushed
<1> DEFINE Same == files'[g].flushed = files[g].flushed
           out == merging[t].out
<1>1. g \in DOMAIN files /\ g # active_id
  <2>1. g \in DOMAIN files /\ g < active_id
    BY MergeKnown DEF InputsOK
  <2>2. active_id \in Nat
    BY DEF IInv, DiskInv, FilesOK
  <2> QED
    BY <2>1, <2>2
<1>2. pc[t] \in CopyPCs => g # out
  BY DEF PlacesInv, PlaceOK
<1> HIDE DEF Same, out
<1>3. ASSUME files' = files PROVE Same
  BY <1>3 DEF Same
<1>4. ASSUME RotateActive(files) PROVE Same
  <2>1. files' = WithFile(WithSync(files, active_id), next_file_id)
    BY <1>4 DEF RotateActive
  <2>2. g \in DOMAIN WithSync(files, active_id) /\ WithSync(files, active_id)[g] = files[g]
    BY <1>1, Untouched
  <2> DEFINE fs == WithSync(files, active_id)
  <2> HIDE DEF fs
  <2>3. g \in DOMAIN fs /\ fs[g] = files[g] /\ files' = WithFile(fs, next_file_id)
    BY <2>1, <2>2 DEF fs
  <2> QED
    BY <2>3 DEF WithFile, Same
<1>5. ASSUME NEW u \in Threads, NEW k, NEW tomb \in BOOLEAN, AppendEntry(u, k, tomb)
      PROVE  Same
  <2> DEFINE fs == WithEntry(files, active_id, Len(history) + 1)
             ss == WithSync(fs, active_id)
  <2>1. g \in DOMAIN fs /\ fs[g] = files[g]
    BY <1>1, Untouched
  <2>2. files' \in {fs, ss, WithFile(ss, next_file_id)}
    BY <1>5 DEF AppendEntry, RotateActive, RotationFails
  <2> HIDE DEF fs
  <2>3. g \in DOMAIN ss /\ ss[g] = fs[g]
    BY <1>1, <2>1, Untouched
  <2> HIDE DEF ss
  <2>4. WithFile(ss, next_file_id)[g] = ss[g]
    BY <2>3 DEF WithFile
  <2> QED
    BY <2>1, <2>2, <2>3, <2>4 DEF Same
<1>6. ASSUME NEW u \in Threads, SyncWrite(u) PROVE Same
  <2> DEFINE f == arg[u].loc.file_id
             p == arg[u].loc.value_pos
  <2>1. \/ files' = files
        \/ files' = [files EXCEPT ![f].synced = IF p > @ THEN p ELSE @]
    BY <1>6 DEF SyncWrite
  <2>2. files[g] \in FileOf(Len(history))
    BY <1>1 DEF IInv, DiskInv, FilesOK
  <2> HIDE DEF f, p
  <2>3. CASE files' = [files EXCEPT ![f].synced = IF p > @ THEN p ELSE @]
    BY <1>1, <2>2, <2>3 DEF FileOf, Same
  <2> QED
    BY <1>3, <2>1, <2>3
<1>7. ASSUME NEW u \in Threads, Sync(u) PROVE Same
  <2>1. files' = WithSync(files, active_id)
    BY <1>7 DEF Sync
  <2> QED
    BY <1>1, <2>1, Untouched DEF Same
<1>8. ASSUME NEW u \in Threads, MergeStep(u) PROVE Same
  <2>1. CASE MergeOpen(u)
    BY <1>1, <2>1 DEF MergeOpen, WithFile, Same
  <2>2. CASE MergeEntry(u)
    <3>1. u = t /\ pc[t] = "copy" /\ g # out
      BY <1>2, <2>2 DEF MergeEntry, MergePCs, CopyPCs, AloneInv
    <3> DEFINE fs == WithBuffered(files, out, EntryAt(merging[t]))
               ss == WithSync(fs, out)
    <3>2. files' \in {files, fs, FlushOutput(fs, out), WithFile(ss, next_file_id)}
      BY <2>2, <3>1 DEF MergeEntry, RotateOutput, out
    <3>3. g \in DOMAIN fs /\ fs[g] = files[g]
      BY <1>1, <3>1, Untouched
    <3> HIDE DEF fs
    <3>4. FlushOutput(fs, out)[g] = fs[g] /\ g \in DOMAIN ss /\ ss[g] = fs[g]
      BY <3>1, <3>3, Untouched
    <3> HIDE DEF ss
    <3>5. WithFile(ss, next_file_id)[g] = ss[g]
      BY <3>4 DEF WithFile
    <3> QED
      BY <3>2, <3>3, <3>4, <3>5 DEF Same
  <2>3. CASE MergeFinish(u)
    <3>1. u = t /\ pc[t] = "copy" /\ g # out
      BY <1>2, <2>3 DEF MergeFinish, MergePCs, CopyPCs, AloneInv
    <3>2. files' = WithSync(files, out)
      BY <2>3, <3>1 DEF MergeFinish, out
    <3> QED
      BY <1>1, <3>1, <3>2 DEF WithSync, Same
  <2>4. CASE MergeRestore(u)
    <3>1. RotateActive(files) \/ files' = files
      BY <2>4 DEF MergeRestore
    <3> QED
      BY <1>3, <1>4, <3>1
  <2>5. CASE MergeFails(u) /\ pc[u] # "copy"
    <3>1. files' \in {files, WithFile(files, next_file_id), WithSync(files, active_id)}
      BY <2>5 DEF MergeFails, OutputFails
    <3> QED
      BY <1>1, <3>1 DEF WithFile, WithSync, Same
  <2>6. CASE MergeFails(u) /\ pc[u] = "copy"
    <3>1. u = t /\ g # out
      BY <1>2, <2>6 DEF MergePCs, CopyPCs, AloneInv
    <3> DEFINE fs == WithBuffered(files, out, EntryAt(merging[t]))
    <3>2. \E hs \in {files, fs} :
             files' \in {FlushOutput(files, out), FlushOutput(hs, out), WithSync(hs, out),
                         WithFile(WithSync(hs, out), next_file_id)}
      <4>1. CopyFails(merging[t])
        BY <2>6, <3>1 DEF MergeFails
      <4> QED
        BY <4>1 DEF CopyFails, OutputFails, out
    <3>3. g \in DOMAIN fs /\ fs[g] = files[g]
      BY <1>1, <3>1, Untouched
    <3> HIDE DEF fs
    <3>4. PICK hs \in {files, fs} :
             files' \in {FlushOutput(files, out), FlushOutput(hs, out), WithSync(hs, out),
                         WithFile(WithSync(hs, out), next_file_id)}
      BY <3>2
    <3>5. g \in DOMAIN hs /\ hs[g] = files[g]
      BY <1>1, <3>3
    <3> DEFINE ss == WithSync(hs, out)
    <3>6. /\ FlushOutput(files, out)[g] = files[g] /\ FlushOutput(hs, out)[g] = hs[g]
          /\ g \in DOMAIN ss /\ ss[g] = hs[g]
      BY <1>1, <3>1, <3>5, Untouched
    <3> HIDE DEF ss
    <3>7. WithFile(ss, next_file_id)[g] = ss[g]
      BY <3>6 DEF WithFile
    <3> QED
      BY <3>4, <3>5, <3>6, <3>7 DEF Same, ss
  <2>7. CASE MergeRead(u)
    <3>1. u = t /\ pc[t] = "copy" /\ g # out
      BY <1>2, <2>7 DEF MergeRead, MergePCs, CopyPCs, AloneInv
    <3>2. files' \in {files, FlushOutput(files, out)}
      BY <2>7, <3>1 DEF MergeRead, out
    <3>3. FlushOutput(files, out)[g] = files[g]
      BY <1>1, <3>1, Untouched
    <3> QED
      BY <3>2, <3>3 DEF Same
  <2> QED
    <3>1. \/ MergeOpen(u) \/ MergeRead(u) \/ MergeEntry(u) \/ MergeFinish(u) \/ MergeRestore(u)
          \/ MergeFails(u) \/ files' = files
      BY <1>8 DEF MergeStep, MergeStart, MergeRepoint, MergeRemove, MergeForget, diskVars
    <3> QED
      BY <1>3, <2>1, <2>2, <2>3, <2>4, <2>5, <2>6, <2>7, <3>1
<1>9. Same
  <2>1. \A u \in Threads : \A K : DeleteCheck(u, K) \/ UpdateKeydir(u) \/ TakeEntries(u, K)
                                     \/ ReadValue(u, K) => files' = files
    BY DEF DeleteCheck, UpdateKeydir, TakeEntries, ReadValue, diskVars
  <2>2. UNCHANGED allVars => files' = files
    BY DEF allVars, vars, diskVars
  <2> QED
    BY <1>3, <1>5, <1>6, <1>7, <1>8, <2>1, <2>2 DEF MergeNext, Crashed, Put, DeleteAppend
<1> QED
  BY <1>9 DEF Same

\* Between two inputs, or up to date with the one being copied, which nothing adds to.
CopyOK(m, l, fs) ==
    /\ l = "open" => m.rest = m.inputs
    /\ l \in {"copy", "repoint"} =>
          \/ m.rest = m.inputs /\ m.at > m.upto
          \/ m.file \in m.inputs \ m.rest /\ m.upto = fs[m.file].flushed

CopyInv == \A t \in Threads : pc[t] \in MergePCs => CopyOK(merging[t], pc[t], files)

\* Any step of a merge under way, or its start, keeps its inputs.
LEMMA InputsMove ==
    ASSUME IInv, [MergeNext]_allVars, ~Crashed, NEW t \in Threads, pc'[t] \in MergePCs
    PROVE  \/ MergeStart(t)
           \/ pc[t] \in MergePCs /\ merging'[t].inputs = merging[t].inputs
<1>1. CASE ~MergeStep(t)
  BY <1>1, OthersKeep
<1>2. CASE MergeOpen(t)
  BY <1>2, OpenMoves DEF MergePCs
<1>3. CASE MergeRead(t)
  BY <1>3, ReadMoves DEF MergePCs
<1>4. CASE MergeEntry(t)
  BY <1>4, EntryMoves DEF MergePCs
<1>5. CASE MergeRepoint(t)
  BY <1>5, RepointMoves DEF MergePCs, RepointPCs
<1>6. CASE MergeFinish(t)
  BY <1>6, FinishMoves DEF MergePCs
<1>7. CASE MergeRemove(t)
  BY <1>7, RemoveMoves DEF MergePCs
<1>8. CASE MergeForget(t)
  BY <1>8, ForgetMoves DEF MergePCs
<1>9. CASE MergeRestore(t) \/ MergeFails(t)
  BY <1>9, EndMoves DEF MergePCs
<1> QED
  BY <1>1, <1>2, <1>3, <1>4, <1>5, <1>6, <1>7, <1>8, <1>9 DEF MergeStep

\* A merge reads each input to its end.
LEMMA CopyInvOK ==
    ASSUME IInv, AloneInv, PlacesInv, CopyInv, [MergeNext]_allVars
    PROVE  CopyInv'
<1> SUFFICES ASSUME NEW t \in Threads, pc'[t] \in MergePCs
             PROVE  CopyOK(merging'[t], pc'[t], files')
  BY DEF CopyInv
<1> DEFINE o == merging[t]
           m == merging'[t]
<1>1. ~Crashed
  BY CrashIdles
<1>2. merging \in [Threads -> MergeRec] /\ o \in MergeRec
  BY DEF IInv, MergesInv
<1>3. pc[t] \in MergePCs => /\ CopyOK(o, pc[t], files)
                            /\ \A g \in o.inputs : files'[g].flushed = files[g].flushed
  BY <1>1, InputsKeep DEF CopyInv
<1> HIDE DEF o, m
<1>4. CASE ~MergeStep(t)
  <2>1. m = o /\ pc'[t] = pc[t] /\ pc[t] \in MergePCs
    BY <1>1, <1>4, OthersKeep DEF m, o
  <2> QED
    BY <1>3, <2>1 DEF CopyOK, m
<1>5. CASE MergeStart(t)
  BY <1>5, StartMoves DEF CopyOK, m
<1>6. CASE MergeOpen(t)
  <2>1. pc[t] = "open" /\ pc[t] \in MergePCs
    BY <1>6, OpenMoves DEF MergePCs
  <2>2. o.rest = o.inputs
    BY <1>3, <2>1 DEF CopyOK
  <2>3. o.upto = 0 /\ o.at \in Nat \ {0}
    BY <1>2, <2>1, MergeKnown DEF OutputOK, MergeRec, o
  <2> QED
    BY <1>6, <2>2, <2>3, OpenMoves DEF CopyOK, m, o
<1>7. CASE MergeRead(t)
  <2> DEFINE f == Min(o.rest)
  <2>1. /\ pc[t] = "copy" /\ pc[t] \in MergePCs /\ pc'[t] = "copy" /\ o.rest # {}
        /\ m.rest = o.rest \ {f} /\ m.file = f /\ m.inputs = o.inputs
        /\ m.upto = files[f].flushed
    BY <1>7, ReadMoves DEF MergePCs, m, o
  <2>2. f \in o.rest /\ o.rest \subseteq o.inputs
    <3>1. o.rest \subseteq Nat /\ o.rest \subseteq o.inputs
      BY <1>2, <2>1, MergeKnown DEF InputsOK, MergeRec, o
    <3> QED
      BY <2>1, <3>1, MinIsLeast
  <2> HIDE DEF f
  <2>3. m.file \in m.inputs \ m.rest /\ m.upto = files'[m.file].flushed
    BY <1>3, <2>1, <2>2
  <2> QED
    BY <2>1, <2>3 DEF CopyOK, m
<1>8. CASE MergeEntry(t)
  <2>1. /\ pc[t] = "copy" /\ pc[t] \in MergePCs /\ pc'[t] \in {"copy", "repoint"}
        /\ o.at <= o.upto /\ m.inputs = o.inputs /\ m.rest = o.rest /\ m.file = o.file
        /\ m.upto = o.upto
    BY <1>8, EntryMoves DEF MergePCs, m, o
  <2>2. ~(o.at > o.upto)
    BY <1>2, <2>1 DEF MergeRec
  <2>3. o.file \in o.inputs \ o.rest /\ o.upto = files[o.file].flushed
    BY <1>3, <2>1, <2>2 DEF CopyOK
  <2> QED
    BY <1>3, <2>1, <2>3 DEF CopyOK, m
<1>9. CASE MergeRepoint(t)
  <2>1. /\ pc[t] \in MergePCs /\ pc'[t] # "open"
        /\ pc'[t] \in {"copy", "repoint"} => pc[t] \in {"copy", "repoint"}
    BY <1>9, RepointMoves DEF MergePCs, RepointPCs
  <2>2. /\ m.inputs = o.inputs /\ m.rest = o.rest /\ m.file = o.file /\ m.upto = o.upto
        /\ m.at = o.at
    BY <1>9, RepointMoves DEF m, o
  <2> QED
    BY <1>3, <2>1, <2>2 DEF CopyOK, m
<1>10. CASE MergeFinish(t)
  BY <1>10, FinishMoves DEF CopyOK
<1>11. CASE MergeRemove(t) \/ MergeForget(t)
  BY <1>11, RemoveMoves, ForgetMoves DEF CopyOK
<1>12. CASE MergeRestore(t) \/ MergeFails(t)
  BY <1>12, EndMoves DEF MergePCs
<1> QED
  BY <1>4, <1>5, <1>6, <1>7, <1>8, <1>9, <1>10, <1>11, <1>12 DEF MergeStep

\* A new write is in the active file.
LEMMA WritesMove ==
    ASSUME IInv, [MergeNext]_allVars, ~Crashed, NEW u \in Threads, pc'[u] \in WritePCs
    PROVE  \/ pc[u] \in WritePCs /\ arg'[u] = arg[u]
           \/ /\ arg'[u].loc.file_id = active_id
              /\ UNCHANGED mergeVars /\ linked \subseteq linked'
<1>1. pc \in [Threads -> PCs] /\ arg \in [Threads -> Arg]
  BY DEF IInv, ArgInv
<1> DEFINE Old == pc[u] \in WritePCs /\ arg'[u] = arg[u]
           New == arg'[u].loc.file_id = active_id /\ linked \subseteq linked'
<1>2. ASSUME NEW t \in Threads, NEW k, NEW tomb \in BOOLEAN, AppendEntry(t, k, tomb)
      PROVE  Old \/ New
  <2>1. /\ linked \subseteq linked'
        /\ \/ \E v, p, l : /\ arg' = [arg EXCEPT ![t] = [key |-> k, ver |-> v,
                                                         loc |-> [file_id |-> active_id,
                                                                  value_pos |-> p]]]
                           /\ pc' = [pc EXCEPT ![t] = l]
           \/ arg' = [arg EXCEPT ![t] = NoArg] /\ pc' = [pc EXCEPT ![t] = "idle"]
    BY <1>2 DEF AppendEntry, RotateActive, RotationFails, Return
  <2>2. CASE u # t
    BY <1>1, <2>1, <2>2
  <2>3. CASE u = t
    <3>1. pc'[t] # "idle"
      BY <2>3 DEF WritePCs
    <3> QED
      BY <1>1, <2>1, <2>3, <3>1
  <2> QED
    BY <2>2, <2>3
<1>3. ASSUME NEW t \in Threads, MergeStep(t) PROVE Old
  <2>1. arg' = arg
    BY <1>3 DEF MergeStep, MergeStart, MergeOpen, MergeRead, MergeEntry, MergeRepoint, MergeFinish,
       MergeRemove, MergeForget, MergeRestore, MergeFails
  <2>2. CASE u # t
    BY <1>3, <2>1, <2>2, OneMoves
  <2>3. CASE u = t
    <3>1. pc'[t] \in MergePCs \cup {"idle"}
      BY <1>1, <1>3 DEF MergeStep, MergeStart, MergeOpen, MergeRead, MergeEntry, MergeRepoint,
         MergeFinish, MergeRemove, MergeForget, MergeRestore, MergeFails, Goto, EndMerge, MergePCs
    <3> QED
      BY <2>3, <3>1 DEF WritePCs, MergePCs
  <2> QED
    BY <2>2, <2>3
<1>4. ASSUME NEW t \in Threads, SyncWrite(t) PROVE Old
  BY <1>1, <1>4 DEF SyncWrite, Return, WritePCs
<1>5. ASSUME NEW t \in Threads, UpdateKeydir(t) PROVE Old
  BY <1>1, <1>5 DEF UpdateKeydir, Return, WritePCs
<1>6. ASSUME NEW t \in Threads, Sync(t) PROVE Old
  BY <1>6 DEF Sync, memVars
<1>7. ASSUME NEW t \in Threads, NEW K, TakeEntries(t, K) PROVE Old
  BY <1>1, <1>7 DEF TakeEntries, WritePCs
<1>8. ASSUME NEW t \in Threads, NEW r, ReadValue(t, r) PROVE Old
  BY <1>1, <1>8 DEF ReadValue, WritePCs
<1>9. ASSUME NEW t \in Threads, NEW k \in Keys, DeleteCheck(t, k) PROVE Old
  BY <1>1, <1>9 DEF DeleteCheck, WritePCs
<1>10. UNCHANGED allVars => Old
  BY DEF allVars, vars, memVars
<1> HIDE DEF Old, New
<1>11. Old \/ (New /\ UNCHANGED mergeVars)
  <2>1. ASSUME NEW t \in Threads, NEW k \in Keys, Put(t, k) PROVE Old \/ New
    BY <1>2, <2>1 DEF Put
  <2>2. ASSUME NEW t \in Threads, DeleteAppend(t) PROVE Old \/ New
    BY <1>2, <2>2 DEF DeleteAppend
  <2> QED
    BY <1>3, <1>4, <1>5, <1>6, <1>7, <1>8, <1>9, <1>10, <2>1, <2>2 DEF MergeNext, Crashed
<1> QED
  BY <1>11 DEF Old, New

\* The keydir changes where a write is published, and where a merge repoints.
LEMMA KeydirMoves ==
    ASSUME IInv, [MergeNext]_allVars, ~Crashed, NEW k \in Keys
    PROVE  \/ keydir'[k] = keydir[k]
           \/ \E u \in Threads : /\ pc[u] \in WritePCs /\ keydir'[k] \in {None, arg[u].loc}
                                 /\ linked' = linked /\ UNCHANGED mergeVars
           \/ \E t \in Threads : MergeRepoint(t)
<1>1. keydir \in [Keys -> Location \cup {None}]
  BY DEF IInv, KeydirInv, Keydirs
<1>2. ASSUME NEW t \in Threads, UpdateKeydir(t)
      PROVE  /\ pc[t] \in WritePCs /\ linked' = linked
             /\ keydir'[k] \in {keydir[k], None, arg[t].loc}
  BY <1>1, <1>2 DEF UpdateKeydir, KeydirEntry, diskVars, WritePCs
<1>3. ASSUME NEW t \in Threads, MergeStep(t), ~MergeRepoint(t) PROVE keydir' = keydir
  BY <1>3 DEF MergeStep, MergeStart, MergeOpen, MergeRead, MergeEntry, MergeFinish,
     MergeRemove, MergeForget, MergeRestore, MergeFails
<1>4. ASSUME NEW t \in Threads, NEW j, NEW tomb \in BOOLEAN, AppendEntry(t, j, tomb)
      PROVE  keydir' = keydir
  BY <1>4 DEF AppendEntry
<1>5. ASSUME NEW t \in Threads, SyncWrite(t) \/ Sync(t) PROVE keydir' = keydir
  BY <1>5 DEF SyncWrite, Sync, memVars
<1>6. ASSUME NEW t \in Threads, NEW K, TakeEntries(t, K) \/ ReadValue(t, K) \/ DeleteCheck(t, K)
      PROVE  keydir' = keydir
  BY <1>6 DEF TakeEntries, ReadValue, DeleteCheck
<1>7. UNCHANGED allVars => keydir' = keydir
  BY DEF allVars, vars, memVars
<1> QED
  BY <1>2, <1>3, <1>4, <1>5, <1>6, <1>7 DEF MergeNext, Crashed, Put, DeleteAppend

\* A put caught between its append and its keydir update is known to be at risk.
WriteAtRisk ==
    \A u \in Threads : pc[u] \in WritePCs =>
        /\ arg[u].loc.file_id \notin linked => arg[u].loc \in at_risk
        /\ \A t \in Threads : pc[t] \in MergePCs /\ arg[u].loc.file_id \in merging[t].inputs
                                 => arg[u].loc \in at_risk

\* The copying got past a place of an input.
Passed(m, l, loc) ==
    \/ /\ l \in {"copy", "repoint"}
       /\ loc.file_id \in m.inputs \ m.rest
       /\ loc.file_id = m.file => loc.value_pos < m.at
    \/ l \in {"repoint_last", "remove", "forget"} /\ loc.file_id \in m.inputs

QueuedFor(m, k, loc) ==
    \E i \in DOMAIN m.queue : m.queue[i].key = k /\ m.queue[i].old = loc

\* What the keydir still points at behind the copying is queued, or a put that came late.
PassedInv ==
    \A t \in Threads, k \in Keys :
        /\ pc[t] \in MergePCs /\ keydir[k] # None /\ Passed(merging[t], pc[t], keydir[k])
        => keydir[k] \in at_risk \/ QueuedFor(merging[t], k, keydir[k])

RiskInv == DanglingWasInFlight /\ WriteAtRisk /\ PassedInv

\* Only a merge's start adds to what is at risk, and only a crash clears it.
LEMMA RiskGrows ==
    ASSUME [MergeNext]_allVars, ~Crashed
    PROVE  at_risk \subseteq at_risk'
<1>1. ASSUME NEW t \in Threads, MergeStep(t) PROVE at_risk \subseteq at_risk'
  BY <1>1 DEF MergeStep, MergeStart, MergeOpen, MergeRead, MergeEntry, MergeRepoint, MergeFinish,
     MergeRemove, MergeForget, MergeRestore, MergeFails, mergeVars
<1> QED
  BY <1>1 DEF MergeNext, Crashed, mergeVars, allVars

\* A file leaves the directory as the next of the inputs a merge removes.
LEMMA Removal ==
    ASSUME IInv, [MergeNext]_allVars, ~Crashed, NEW f \in linked, f \notin linked'
    PROVE  \E t \in Threads : /\ MergeRemove(t) /\ pc[t] = "remove" /\ pc[t] \in MergePCs
                              /\ f \in merging[t].inputs
<1>1. PICK t \in Threads : /\ MergeRemove(t)
                           /\ linked' = linked \ {NextToRemove(merging[t].rest)}
  BY LinkedMoves
<1>2. pc[t] = "remove" /\ pc[t] \in MergePCs /\ f = NextToRemove(merging[t].rest)
  BY <1>1 DEF MergeRemove, MergePCs
<1>3. f \in merging[t].rest /\ merging[t].rest \subseteq merging[t].inputs
  BY <1>2, NextToRemoveOK, MergeKnown DEF InputsOK
<1> QED
  BY <1>1, <1>2, <1>3

\* A put whose file a merge took as input was recorded at the merge's start.
LEMMA WriteAtRiskOK ==
    ASSUME IInv, IInv', WriteAtRisk, [MergeNext]_allVars
    PROVE  WriteAtRisk'
<1> SUFFICES ASSUME NEW u \in Threads, pc'[u] \in WritePCs
             PROVE  /\ arg'[u].loc.file_id \notin linked' => arg'[u].loc \in at_risk'
                    /\ \A t \in Threads :
                          pc'[t] \in MergePCs /\ arg'[u].loc.file_id \in merging'[t].inputs
                              => arg'[u].loc \in at_risk'
  BY DEF WriteAtRisk
<1> DEFINE loc == arg'[u].loc
<1>1. ~Crashed
  BY CrashIdles DEF WritePCs
<1>2. at_risk \subseteq at_risk'
  BY <1>1, RiskGrows
<1>3. CASE pc[u] \in WritePCs /\ arg'[u] = arg[u]
  <2>1. loc = arg[u].loc
    BY <1>3
  <2>2. ASSUME loc.file_id \notin linked' PROVE loc \in at_risk'
    <3>1. CASE loc.file_id \notin linked
      BY <1>2, <1>3, <2>1, <3>1 DEF WriteAtRisk
    <3>2. CASE loc.file_id \in linked
      <4>1. PICK t \in Threads : pc[t] \in MergePCs /\ loc.file_id \in merging[t].inputs
        BY <1>1, <2>2, <3>2, Removal
      <4> QED
        BY <1>2, <1>3, <2>1, <4>1 DEF WriteAtRisk
    <3> QED
      BY <3>1, <3>2
  <2>3. ASSUME NEW t \in Threads, pc'[t] \in MergePCs, loc.file_id \in merging'[t].inputs
        PROVE  loc \in at_risk'
    <3>1. CASE MergeStart(t)
      <4>1. at_risk' = at_risk \cup InFlight
        BY <3>1 DEF MergeStart
      <4>2. arg[u].loc \in InFlight
        BY <1>3 DEF InFlight, WritePCs
      <4> QED
        BY <2>1, <4>1, <4>2
    <3>2. CASE pc[t] \in MergePCs /\ merging'[t].inputs = merging[t].inputs
      BY <1>2, <1>3, <2>1, <2>3, <3>2 DEF WriteAtRisk
    <3> QED
      BY <1>1, <2>3, <3>1, <3>2, InputsMove
  <2> QED
    BY <2>2, <2>3
<1>4. CASE /\ loc.file_id = active_id /\ UNCHANGED mergeVars /\ linked \subseteq linked'
  <2>1. active_id \in linked'
    BY <1>4 DEF IInv, DiskInv
  <2>2. ASSUME NEW t \in Threads, pc'[t] \in MergePCs PROVE active_id \notin merging'[t].inputs
    <3>1. CASE MergeStart(t)
      BY <3>1, StartMoves DEF InputIds, IInv, DiskInv, FilesOK
    <3>2. CASE pc[t] \in MergePCs /\ merging'[t].inputs = merging[t].inputs
      BY <3>2, MergeKnown DEF InputsOK, IInv, DiskInv, FilesOK
    <3> QED
      BY <1>1, <2>2, <3>1, <3>2, InputsMove
  <2> QED
    BY <1>4, <2>1, <2>2
<1> QED
  BY <1>1, <1>3, <1>4, WritesMove

\* After a reopening the keydir points into the directory.
LEMMA CrashPoints ==
    ASSUME IInv, Crashed, NEW k \in Keys, keydir'[k] # None
    PROVE  keydir'[k].file_id \in linked'
<1>1. PICK kind \in CrashKinds : CrashAndOpen(kind)
  BY DEF Crashed
<1>2. PICK n \in KeptAfter(kind) : keydir' = Recover(Disk(n)) /\ linked \subseteq linked'
  BY <1>1 DEF CrashAndOpen
<1>3. IsCut(n)
  BY KeptIsCut DEF IInv
<1>4. LeftOn(n, k) # {} /\ keydir'[k].file_id = Max(LeftOn(n, k))
  <2> DEFINE f == Max(LeftOn(n, k))
             i == Max(LeftIn(n, f, k))
  <2>1. keydir'[k] = IF LeftOn(n, k) = {} \/ history[files[f].entries[i]].tomb THEN None
                     ELSE [file_id |-> f, value_pos |-> i]
    BY <1>2, <1>3, RecoverFinds DEF IInv
  <2> HIDE DEF f, i
  <2>2. LeftOn(n, k) # {} /\ keydir'[k] = [file_id |-> f, value_pos |-> i]
    BY <2>1
  <2> QED
    BY <2>2 DEF f
<1>5. LeftOn(n, k) \subseteq linked /\ IsFiniteSet(linked) /\ linked \subseteq Nat
  BY DEF LeftOn, IInv, DiskInv, FilesOK
<1>6. Max(LeftOn(n, k)) \in LeftOn(n, k)
  BY <1>4, <1>5, FS_Subset, MaxIsGreatest
<1> QED
  BY <1>2, <1>4, <1>5, <1>6

\* The removal of an input leaves no key behind but those at risk.
LEMMA DanglingOK ==
    ASSUME IInv, AloneInv, PlacesInv, RiskInv, [MergeNext]_allVars
    PROVE  DanglingWasInFlight'
<1> SUFFICES ASSUME NEW k \in Keys, keydir'[k] # None, keydir'[k].file_id \notin linked'
             PROVE  keydir'[k] \in at_risk'
  BY DEF DanglingWasInFlight
<1>1. ~Crashed
  BY CrashPoints
<1>2. at_risk \subseteq at_risk'
  BY <1>1, RiskGrows
<1>3. CASE keydir'[k] = keydir[k] /\ keydir[k].file_id \notin linked
  BY <1>2, <1>3 DEF RiskInv, DanglingWasInFlight
<1>4. CASE keydir'[k] = keydir[k] /\ keydir[k].file_id \in linked
  <2>1. PICK t \in Threads : /\ pc[t] = "remove" /\ pc[t] \in MergePCs
                             /\ keydir[k].file_id \in merging[t].inputs
    BY <1>1, <1>4, Removal
  <2>2. Passed(merging[t], pc[t], keydir[k])
    BY <2>1 DEF Passed
  <2>3. merging[t].queue = <<>>
    BY <2>1, MergeKnown DEF QueueOK, CopyPCs, RepointPCs
  <2>4. ~QueuedFor(merging[t], k, keydir[k])
    BY <2>3 DEF QueuedFor
  <2> QED
    BY <1>2, <1>4, <2>1, <2>2, <2>4 DEF RiskInv, PassedInv
<1>5. CASE \E u \in Threads : /\ pc[u] \in WritePCs /\ keydir'[k] \in {None, arg[u].loc}
                              /\ linked' = linked /\ UNCHANGED mergeVars
  BY <1>2, <1>5 DEF RiskInv, WriteAtRisk
<1>6. ASSUME NEW t \in Threads, MergeRepoint(t), keydir'[k] # keydir[k] PROVE FALSE
  <2> DEFINE o == merging[t]
  <2>1. /\ pc[t] \in RepointPCs /\ linked' = linked /\ o.queue # <<>>
        /\ keydir' = Repointed(o.queue[1].key, o.queue[1].old, o.queue[1].new)
    BY <1>6, RepointMoves
  <2>2. pc[t] \in MergePCs
    BY <2>1 DEF RepointPCs, MergePCs
  <2>3. o.queue \in Seq(Repoint) /\ 1 \in DOMAIN o.queue
    BY <2>1, <2>2, MergeKnown DEF MergeRec
  <2>4. o.queue[1].new.file_id \in linked
    BY <2>2, <2>3 DEF PlacesInv, PlaceOK
  <2>5. keydir'[k] = o.queue[1].new
    BY <1>6, <2>1 DEF Repointed, IInv, KeydirInv, Keydirs
  <2> QED
    BY <2>1, <2>4, <2>5
<1> QED
  BY <1>1, <1>3, <1>4, <1>5, <1>6, KeydirMoves

\* What the keydir points at is within what the OS has of the file.
LEMMA BehindTheCopy ==
    ASSUME IInv, NEW t \in Threads, pc[t] = "copy", CopyOK(merging[t], pc[t], files),
           merging[t].at > merging[t].upto,
           NEW k \in Keys, keydir[k] # None,
           keydir[k].file_id \in merging[t].inputs \ merging[t].rest
    PROVE  Passed(merging[t], pc[t], keydir[k])
<1> DEFINE o == merging[t]
           loc == keydir[k]
<1>1. o.file \in o.inputs \ o.rest /\ o.upto = files[o.file].flushed
  BY DEF CopyOK
<1>2. loc.value_pos <= files[loc.file_id].flushed /\ loc.value_pos \in Nat
  BY DEF IInv, KeydirInv, OnOS, InFile, Location
<1>3. o.at \in Nat /\ o.upto \in Nat
  BY DEF IInv, MergesInv, MergeRec
<1>4. loc.file_id = o.file => loc.value_pos < o.at
  BY <1>1, <1>2, <1>3
<1> QED
  BY <1>4 DEF Passed

\* A key that still points behind the copy is queued for a repoint, or at risk.
LEMMA PassedOK ==
    ASSUME IInv, AloneInv, PlacesInv, CopyInv, RiskInv, [MergeNext]_allVars
    PROVE  PassedInv'
<1> SUFFICES ASSUME NEW t \in Threads, NEW k \in Keys, pc'[t] \in MergePCs, keydir'[k] # None,
                    Passed(merging'[t], pc'[t], keydir'[k])
             PROVE  keydir'[k] \in at_risk' \/ QueuedFor(merging'[t], k, keydir'[k])
  BY DEF PassedInv
<1> DEFINE o == merging[t]
           m == merging'[t]
           loc == keydir[k]
           Known == keydir'[k] \in at_risk' \/ QueuedFor(m, k, keydir'[k])
<1>1. ~Crashed
  BY CrashIdles
<1>2. at_risk \subseteq at_risk'
  BY <1>1, RiskGrows
<1>3. keydir'[k].file_id \in m.inputs
  BY DEF Passed
<1>4. ~MergeStart(t) /\ pc[t] \in MergePCs /\ m.inputs = o.inputs
  <2>1. ~MergeStart(t)
    BY StartMoves DEF Passed
  <2> QED
    BY <1>1, <2>1, InputsMove
<1>5. o \in MergeRec
  BY DEF IInv, MergesInv
<1>6. ASSUME loc # None, Passed(o, pc[t], loc)
      PROVE  loc \in at_risk \/ QueuedFor(o, k, loc)
  BY <1>4, <1>6 DEF RiskInv, PassedInv
<1>7. CASE \E u \in Threads : /\ pc[u] \in WritePCs /\ keydir'[k] \in {None, arg[u].loc}
                              /\ linked' = linked /\ UNCHANGED mergeVars
  BY <1>2, <1>3, <1>4, <1>7 DEF RiskInv, WriteAtRisk
<1>8. CASE \E u \in Threads : MergeRepoint(u)
  <2>1. PICK u \in Threads : MergeRepoint(u)
    BY <1>8
  <2>2. pc[u] \in RepointPCs /\ pc[u] \in MergePCs
    BY <2>1, RepointMoves DEF RepointPCs, MergePCs
  <2>3. u = t
    BY <1>4, <2>2 DEF AloneInv
  <2>4. /\ m.inputs = o.inputs /\ m.rest = o.rest /\ m.file = o.file /\ m.at = o.at
        /\ \/ /\ o.queue # <<>> /\ m.queue = Tail(o.queue) /\ pc'[t] = pc[t]
              /\ keydir' = Repointed(o.queue[1].key, o.queue[1].old, o.queue[1].new)
           \/ /\ o.queue = <<>> /\ m.queue = <<>> /\ keydir' = keydir
              /\ pc'[t] = IF pc[t] = "repoint" THEN "copy" ELSE "remove"
    BY <2>1, <2>3, RepointMoves
  <2>5. o.queue \in Seq(Repoint)
    BY <1>5 DEF MergeRec
  <2>6. ASSUME keydir'[k] = loc PROVE loc # None /\ Passed(o, pc[t], loc)
    BY <2>2, <2>3, <2>4, <2>6 DEF Passed, RepointPCs
  <2>7. CASE o.queue = <<>>
    <3>1. ~QueuedFor(o, k, loc)
      BY <2>7 DEF QueuedFor
    <3> QED
      BY <1>2, <1>6, <2>4, <2>6, <2>7, <3>1
  <2>8. CASE o.queue # <<>>
    <3> DEFINE q == o.queue[1]
    <3>1. 1 \in DOMAIN o.queue /\ q.new.file_id \notin o.inputs
      BY <1>4, <2>5, <2>8 DEF PlacesInv, PlaceOK
    <3>2. keydir'[k] = IF k = q.key /\ loc = q.old THEN q.new ELSE loc
      BY <2>4, <2>8 DEF Repointed, IInv, KeydirInv, Keydirs
    <3>3. keydir'[k] = loc /\ ~(k = q.key /\ loc = q.old)
      BY <1>3, <1>4, <3>1, <3>2
    <3>4. CASE QueuedFor(o, k, loc)
      <4>1. PICK i \in DOMAIN o.queue : o.queue[i].key = k /\ o.queue[i].old = loc
        BY <3>4 DEF QueuedFor
      <4>2. i # 1
        BY <3>3, <4>1
      <4>3. i - 1 \in DOMAIN m.queue /\ m.queue[i - 1] = o.queue[i]
        <5> DEFINE s == o.queue
        <5>1. s \in Seq(Repoint) /\ i \in 1..Len(s) /\ Len(s) \in Nat /\ i # 1
          BY <2>5, <4>1, <4>2
        <5>2. m.queue = Tail(s)
          BY <2>4, <2>8
        <5> HIDE DEF s
        <5>3. Len(Tail(s)) = Len(s) - 1 /\ Tail(s)[i - 1] = s[i]
          BY <5>1
        <5>4. Tail(s) \in Seq(Repoint)
          BY <5>1
        <5> QED
          BY <5>1, <5>2, <5>3, <5>4 DEF s
      <4> QED
        BY <3>3, <4>1, <4>3 DEF QueuedFor
    <3> QED
      BY <1>2, <1>6, <2>6, <3>3, <3>4
  <2> QED
    BY <2>7, <2>8
<1>9. ASSUME keydir'[k] = loc, ~MergeRepoint(t) PROVE Known
  <2>1. loc # None
    BY <1>9
  <2>2. CASE m.queue = o.queue /\ Passed(o, pc[t], loc)
    BY <1>2, <1>6, <1>9, <2>1, <2>2 DEF QueuedFor
  <2>3. CASE ~MergeStep(t)
    <3>1. m = o /\ pc'[t] = pc[t]
      BY <1>1, <1>4, <2>3, OthersKeep
    <3> QED
      BY <1>9, <2>2, <3>1
  <2>4. CASE MergeOpen(t)
    <3>1. pc[t] = "open" /\ pc'[t] = "copy" /\ m.rest = o.rest
      BY <2>4, OpenMoves
    <3>2. o.rest = o.inputs
      BY <1>4, <3>1 DEF CopyInv, CopyOK
    <3> QED
      BY <1>4, <3>1, <3>2 DEF Passed
  <2>5. CASE MergeRead(t)
    <3>1. /\ pc[t] = "copy" /\ pc'[t] = "copy" /\ o.at > o.upto
          /\ m.rest = o.rest \ {m.file} /\ m.at = 1 /\ m.queue = o.queue
      BY <2>5, ReadMoves DEF MergePCs
    <3>2. loc.file_id \in o.inputs \ m.rest /\ (loc.file_id = m.file => loc.value_pos < 1)
      BY <1>4, <1>9, <3>1 DEF Passed
    <3>3. loc.value_pos \in Nat \ {0}
      BY <2>1 DEF IInv, KeydirInv, Keydirs, Location
    <3>4. loc.file_id \in o.inputs \ o.rest
      BY <3>1, <3>2, <3>3
    <3>5. Passed(o, pc[t], loc)
      BY <1>4, <2>1, <3>1, <3>4, BehindTheCopy DEF CopyInv
    <3> QED
      BY <2>2, <3>1, <3>5
  <2>6. CASE MergeEntry(t)
    <3>1. /\ pc[t] = "copy" /\ pc'[t] \in {"copy", "repoint"} /\ o.at <= o.upto
          /\ m.rest = o.rest /\ m.file = o.file /\ m.at = o.at + 1
          /\ \/ ~IsLive(o) /\ m.queue = o.queue
             \/ IsLive(o) /\ m.queue = Append(o.queue, CopyOf(o))
      BY <2>6, EntryMoves
    <3>2. /\ o.at \in Nat /\ loc.value_pos \in Nat /\ loc \in Location
          /\ o.queue \in Seq(Repoint) /\ o.file \in Nat
      BY <1>5, <2>1 DEF IInv, KeydirInv, Keydirs, Location, MergeRec
    <3>3. loc.file_id \in o.inputs \ o.rest /\ (loc.file_id = o.file => loc.value_pos < o.at + 1)
      BY <1>4, <1>9, <3>1 DEF Passed
    <3>4. \A i \in DOMAIN o.queue : i \in DOMAIN m.queue /\ m.queue[i] = o.queue[i]
      <4>1. CASE m.queue = o.queue
        BY <4>1
      <4>2. CASE m.queue = Append(o.queue, CopyOf(o))
        BY <3>2, <4>2
      <4> QED
        BY <3>1, <4>1, <4>2
    <3>5. CASE loc = OldPlace(o)
      <4>1. history[EntryAt(o)] = [key |-> k, tomb |-> FALSE]
        BY <2>1, <3>5 DEF IInv, KeydirInv, EntryIn, EntryAt, OldPlace
      <4>2. IsLive(o)
        BY <3>5, <4>1 DEF IsLive, OldPlace
      <4>3. m.queue = Append(o.queue, CopyOf(o))
        BY <3>1, <4>2
      <4>4. Len(o.queue) + 1 \in DOMAIN m.queue /\ m.queue[Len(o.queue) + 1] = CopyOf(o)
        BY <3>2, <4>3
      <4>5. CopyOf(o).key = k /\ CopyOf(o).old = loc
        BY <3>5, <4>1 DEF CopyOf
      <4> QED
        BY <1>9, <4>4, <4>5 DEF QueuedFor
    <3>6. CASE loc # OldPlace(o)
      <4>1. loc.file_id = o.file => loc.value_pos # o.at
        BY <3>2, <3>6 DEF OldPlace, Location
      <4>2. Passed(o, pc[t], loc)
        BY <3>1, <3>2, <3>3, <4>1 DEF Passed
      <4> QED
        BY <1>2, <1>6, <1>9, <2>1, <3>4, <4>2 DEF QueuedFor
    <3> QED
      BY <3>5, <3>6
  <2>7. CASE MergeFinish(t)
    <3>1. /\ pc[t] = "copy" /\ o.at > o.upto /\ o.rest = {} /\ m.queue = o.queue
      BY <2>7, FinishMoves
    <3>2. loc.file_id \in o.inputs \ o.rest
      BY <1>3, <1>4, <1>9, <3>1
    <3>3. Passed(o, pc[t], loc)
      BY <1>4, <2>1, <3>1, <3>2, BehindTheCopy DEF CopyInv
    <3> QED
      BY <2>2, <3>1, <3>3
  <2>8. CASE MergeRemove(t) \/ MergeForget(t)
    <3>1. pc[t] \in {"remove", "forget"} /\ m.queue = o.queue
      BY <2>8, RemoveMoves, ForgetMoves
    <3>2. Passed(o, pc[t], loc)
      BY <1>3, <1>4, <1>9, <3>1 DEF Passed
    <3> QED
      BY <2>2, <3>1, <3>2
  <2>9. CASE MergeRestore(t) \/ MergeFails(t)
    BY <2>9, EndMoves DEF MergePCs
  <2> QED
    BY <1>4, <1>9, <2>3, <2>4, <2>5, <2>6, <2>7, <2>8, <2>9 DEF MergeStep
<1> QED
  BY <1>1, <1>7, <1>8, <1>9, KeydirMoves

SerialInv == OrderedInv /\ CopyInv /\ RiskInv

\* With one merge at a time: what the keydir points at.
LEMMA Serial ==
    ASSUME OneMerge
    PROVE  MergeSpec => []SerialInv
<1>1. MergeInit => CopyInv /\ RiskInv
  <2> SUFFICES ASSUME MergeInit PROVE CopyInv /\ RiskInv
    OBVIOUS
  <2>1. /\ \A t \in Threads : pc[t] \notin MergePCs /\ pc[t] \notin WritePCs
        /\ \A k \in Keys : keydir[k] = None
    BY DEF MergeInit, Init, MergePCs, WritePCs, EmptyKeydir
  <2> QED
    BY <2>1 DEF CopyInv, RiskInv, DanglingWasInFlight, WriteAtRisk, PassedInv
<1>2. OrderedInv /\ OrderedInv' /\ CopyInv /\ RiskInv /\ [MergeNext]_allVars
         => (CopyInv /\ RiskInv)'
  <2> SUFFICES ASSUME OrderedInv, OrderedInv', CopyInv, RiskInv, [MergeNext]_allVars
               PROVE  CopyInv' /\ RiskInv'
    OBVIOUS
  <2>1. IInv /\ IInv' /\ AloneInv /\ PlacesInv /\ WriteAtRisk
    BY DEF OrderedInv, RiskInv
  <2> QED
    BY <2>1, CopyInvOK, DanglingOK, WriteAtRiskOK, PassedOK DEF RiskInv
<1> QED
  BY <1>1, <1>2, Ordered, PTL DEF MergeSpec, SerialInv

\* With one merge at a time the keydir points at files that are there, but for puts that a
\* merge's start found between their append and their keydir update.
THEOREM DanglingPutsOnly ==
    ASSUME OneMerge
    PROVE  MergeSpec => []DanglingWasInFlight
<1>1. SerialInv => DanglingWasInFlight
  BY DEF SerialInv, RiskInv
<1> QED
  BY <1>1, Serial, PTL

=============================================================================
