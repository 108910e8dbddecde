------------------------------ MODULE Recovery ------------------------------
(* How `open` rebuilds the keydir from the files on disk (src/recovery.rs).  *)
(* A disk maps the ids `discover` found to data files.  An entry is a record *)
(* with a key and a tombstone flag; its position in the file stands for its  *)
(* byte offset.  A torn tail is where the sequence ends: the scan stops      *)
(* there (EntryRead::Truncated).  `bad` holds the positions whose CRC fails. *)
(* A hint file lists the entries of its data file with their positions;      *)
(* `intact` says that its whole-file CRC matches.                            *)
EXTENDS Integers, Sequences, FiniteSets, Folds, FiniteSetsExt, SequencesExt

CONSTANTS Keys,  \* the keys in use
          None   \* no keydir entry, no hint file

Location == [file_id : Nat, value_pos : Nat \ {0}]

ASSUME NoneAssumption == None \notin Keys /\ None \notin Location

EmptyKeydir == [k \in Keys |-> None]

\* Mutant of ApplyEntry: a tombstone is an entry like any other.
ApplyAnyEntry(keydir, file_id, pos, e) ==
    [keydir EXCEPT ![e.key] = [file_id |-> file_id, value_pos |-> pos]]

\* apply_entry: a tombstone removes the key, anything else overwrites its entry.
ApplyEntry(keydir, file_id, pos, e) ==
    [keydir EXCEPT ![e.key] =
        IF e.tomb THEN None ELSE [file_id |-> file_id, value_pos |-> pos]]

\* scan_data_file: entry by entry to the end or the torn tail, skipping the corrupt ones.
ScanDataFile(keydir, file_id, data) ==
    FoldLeftDomain(LAMBDA kd, i : IF i \in data.bad THEN kd
                                  ELSE ApplyEntry(kd, file_id, i, data.entries[i]),
                   keydir, data.entries)

\* Mutant of HintIsUsable: the CRC is not checked.
HintIsInBounds(data) ==
    /\ data.hint # None
    /\ \A i \in DOMAIN data.hint.records :
          data.hint.records[i].value_pos <= Len(data.entries)

\* The checks of try_scan_hint_file: the CRC of the whole, every pointer inside the data file.
HintIsUsable(data) ==
    /\ data.hint # None
    /\ data.hint.intact
    /\ \A i \in DOMAIN data.hint.records :
          data.hint.records[i].value_pos <= Len(data.entries)

\* The rest of try_scan_hint_file: all records, once all passed.
ApplyHint(keydir, file_id, hint) ==
    FoldLeft(LAMBDA kd, r : ApplyEntry(kd, file_id, r.value_pos, r), keydir, hint.records)

RecoverFile(keydir, file_id, data) ==
    IF HintIsUsable(data) THEN ApplyHint(keydir, file_id, data.hint)
                          ELSE ScanDataFile(keydir, file_id, data)

\* Mutant of VisitedLast: the ids are not in ascending order.
VisitedFirst(ids) == Min(ids)

\* Which of a set of files the loop visits last: `discover` sorts them, ascending.
VisitedLast(ids) == Max(ids)

\* recover.
Recover(disk) ==
    MapThenFoldSet(LAMBDA f, keydir : RecoverFile(keydir, f, disk[f]),
                   EmptyKeydir, LAMBDA f : f, VisitedLast, DOMAIN disk)
=============================================================================
