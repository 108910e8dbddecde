----------------------------- MODULE DiskImages -----------------------------
(* The directories `open` may be given: what put, delete, rotation and merge *)
(* write, and what a crash, a power loss or bit rot then does to it.  Every  *)
(* reachable disk is an input on which Recovery is compared with a           *)
(* definition of "last write wins" that scans nothing.                       *)
EXTENDS Recovery

CONSTANTS MaxFiles,    \* bound: data files
          MaxEntries,  \* bound: entries per data file
          MaxDamage,   \* bound: times the disk is damaged
          ZeroStamps   \* whether some caller of put passes the timestamp 0
ASSUME DiskAssumption ==
    MaxFiles \in Nat /\ MaxEntries \in Nat /\ MaxDamage \in Nat /\ ZeroStamps \in BOOLEAN

VARIABLES disk,   \* the files
          damage  \* how often it was damaged

Newest == Max(DOMAIN disk)

EmptyData == [entries |-> <<>>, bad |-> {}, hint |-> None]

Init == disk = [f \in {0} |-> EmptyData] /\ damage = 0

\* ActiveFile::append on the newest file.
AppendEntry(k, tomb) ==
    /\ Len(disk[Newest].entries) < MaxEntries
    /\ disk[Newest].hint = None
    /\ disk' = [disk EXCEPT ![Newest].entries = Append(@, [key |-> k, tomb |-> tomb])]
    /\ UNCHANGED damage

\* A new file: by rotation, by a merge or by open.
NewFile ==
    /\ Newest + 1 < MaxFiles
    /\ disk' = [f \in DOMAIN disk \cup {Newest + 1} |->
                   IF f \in DOMAIN disk THEN disk[f] ELSE EmptyData]
    /\ UNCHANGED damage

\* A merge removes an input, which leaves a gap among the ids.
RemoveFile(f) ==
    /\ f # Newest
    /\ disk' = [g \in DOMAIN disk \ {f} |-> disk[g]]
    /\ UNCHANGED damage

\* Mutant of HintFor: the output is closed before the record of its last entry is written.
HintForAllButLast(data) ==
    [records |-> [i \in 1..Len(data.entries) - 1 |->
                     [key |-> data.entries[i].key, tomb |-> FALSE, value_pos |-> i]],
     intact  |-> TRUE]

\* encode_hint for each entry of a merge output, which holds no tombstones.
HintFor(data) ==
    [records |-> [i \in DOMAIN data.entries |->
                     [key |-> data.entries[i].key, tomb |-> FALSE, value_pos |-> i]],
     intact  |-> TRUE]

CloseHint ==
    /\ disk[Newest].hint = None /\ disk[Newest].bad = {}
    /\ \A i \in DOMAIN disk[Newest].entries : ~disk[Newest].entries[i].tomb
    /\ disk' = [disk EXCEPT ![Newest].hint = HintFor(disk[Newest])]
    /\ UNCHANGED damage

Damage == damage < MaxDamage /\ damage' = damage + 1

\* A crash before the hint's trailer, or a hint that rots.  The CRC of the whole then fails,
\* but for a hint cut after the first timestamp when that is 0, the CRC of nothing.
BreakHint(f) ==
    /\ disk[f].hint # None
    /\ \E n \in 0..Len(disk[f].hint.records), intact \in BOOLEAN :
          /\ intact => ZeroStamps /\ n = 0 /\ disk[f].hint.records # <<>>
          /\ disk' = [disk EXCEPT ![f].hint = [records |-> SubSeq(@.records, 1, n),
                                               intact  |-> intact]]
    /\ Damage

\* A data file loses its last entry, or half of it.
TearTail(f) ==
    /\ disk[f].entries # <<>>
    /\ disk' = [disk EXCEPT ![f].entries = Front(@), ![f].bad = @ \ {Len(disk[f].entries)}]
    /\ Damage

\* An entry no longer matches its CRC; its header still frames it.
Rot(f, i) ==
    /\ i \notin disk[f].bad
    /\ disk' = [disk EXCEPT ![f].bad = @ \cup {i}]
    /\ Damage

Next ==
    \/ \E k \in Keys, tomb \in BOOLEAN : AppendEntry(k, tomb)
    \/ NewFile
    \/ CloseHint
    \/ \E f \in DOMAIN disk : RemoveFile(f) \/ BreakHint(f) \/ TearTail(f)
    \/ \E f \in DOMAIN disk : \E i \in DOMAIN disk[f].entries : Rot(f, i)

Spec == Init /\ [][Next]_<<disk, damage>>

-----------------------------------------------------------------------------
(* Properties.                                                               *)

Entry  == [key : Keys, tomb : BOOLEAN]
Record == [key : Keys, tomb : BOOLEAN, value_pos : Nat \ {0}]
File   == [entries : Seq(Entry), bad : SUBSET Nat,
           hint : {None} \cup [records : Seq(Record), intact : BOOLEAN]]

\* A hint lists at least the entries that its data file still has, in their places.
Vouches(hint, entries) ==
    /\ Len(entries) <= Len(hint.records)
    /\ \A i \in DOMAIN hint.records :
          /\ hint.records[i].value_pos = i
          /\ ~hint.records[i].tomb
          /\ i \in DOMAIN entries => /\ entries[i].key = hint.records[i].key
                                     /\ ~entries[i].tomb

FileOK(d) ==
    /\ d \in File
    /\ Len(d.entries) <= MaxEntries
    /\ d.bad \subseteq DOMAIN d.entries
    /\ d.hint # None /\ d.hint.intact =>
          Vouches(d.hint, d.entries) \/ (ZeroStamps /\ d.hint.records = <<>>)

\* The disk is well formed: the ids are a finite set, the bad positions are of entries their
\* file has, and a hint whose CRC matches vouches for every entry of its file, whatever was
\* torn from either, unless a timestamp of 0 made an empty one of it.
TypeOK ==
    /\ IsFiniteSet(DOMAIN disk) /\ DOMAIN disk # {} /\ DOMAIN disk \subseteq Nat
    /\ \A f \in DOMAIN disk : FileOK(disk[f])
    /\ damage \in 0..MaxDamage

\* Where the entries of k are that count: intact on their own, or vouched for by a hint.
Places(d, k) ==
    {l \in [file_id : DOMAIN d, value_pos : 1..MaxEntries] :
        LET data == d[l.file_id] IN
        /\ l.value_pos <= Len(data.entries)
        /\ data.entries[l.value_pos].key = k
        /\ HintIsUsable(data) \/ l.value_pos \notin data.bad}

Later(l, m) == l.file_id > m.file_id \/ (l.file_id = m.file_id /\ l.value_pos > m.value_pos)

LastWrite(d, k) ==
    LET P == Places(d, k)
        last == CHOOSE l \in P : \A m \in P \ {l} : Later(l, m)
    IN  IF P = {} \/ d[last.file_id].entries[last.value_pos].tomb THEN None ELSE last

\* `recover` finds the last write of every key: by file, then by offset, tombstones
\* included, whatever was torn or rotted and whichever files had a hint.
RecoverFindsLastWrite == \A k \in Keys : Recover(disk)[k] = LastWrite(disk, k)

\* Hints only save work: unless data they vouch for has rotted since, recovery without
\* them finds the same keydir, and a broken one leaves no trace.
HintsChangeNothing ==
    (\A f \in DOMAIN disk : HintIsUsable(disk[f]) => disk[f].bad = {})
        => Recover(disk) = Recover([f \in DOMAIN disk |-> [disk[f] EXCEPT !.hint = None]])
=============================================================================
