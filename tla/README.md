# yabiir in TLA+

A verification project for the Bitcask store in `src/`: models of its components and of three of
its clients, TLC runs that check them on small instances, and TLAPS proofs for every size of
the instance. `engine.rs` is `src/src/engine.rs` of the repository, `loadtest.rs` and `kv.rs`
are in `src/src/bin`, `bsky_firehose.rs` and `todo_tui.rs` in `src/examples`.

## 1. The system

| Component | State | Operations | Works with |
|---|---|---|---|
| Engine (`engine.rs`) | keydir, active file, id counter, group commit, handle cache | `open put get delete list_keys fold merge sync close` | everything below |
| Active file, data files (`datafile.rs`) | buffer, offset; cached read handles | append, buffered append, flush, sync, clone a handle; read, forget, discover | engine, merge, recovery |
| Group commit (`commit.rs`) | `pending_writes`, `max_durable_generation`, `is_syncing`, a condition variable | `record_pending mark_all_durable commit` | append, rotation, merge |
| Keydir (`keydir.rs`) | key to location | `get insert remove cas_repoint snapshot`, one RwLock section each | engine, merge, recovery |
| Merge (`merge/`) | inputs, output writer with its hint file, queue of repoints | `merge` | shares the directory, keydir, id counter, handle cache and active lock with all calls |
| Recovery (`recovery.rs`) | none | `recover`: scan or hint file, per file, ascending | open |
| Formats (`format/`) | none | encode, read, verify entries and hints | data files, merge, recovery |
| Directory lock (`lock.rs`) | one `flock` | acquire, released on drop | open, close, the kernel |
| API, errors, metrics, logging | none | declarations and callbacks | |
| Load generator (`loadtest.rs`) | shared samples, batches per worker, two flags | call, hand over, drain, stop, join | the API from many threads |
| Firehose (`bsky_firehose.rs`) | counters, charts, a log, ticks since the last merge | handle a frame, tick, close | the API and its metrics hook |
| Todo list (`todo_tui.rs`) | list, selection, next id | one per key | the API, never closed |
| `kv`, benches, `xtask` | none | one command | the API |

A handle is used by any number of threads. There is no background thread: every step is taken
inside some caller's call. What two calls share is reached in short critical sections, and a
call is several of them: a put appends under the active lock, commits under the coordinator's
lock, and updates the keydir under its RwLock, with other threads in between. The hard part is what
happens there, together with kills, power losses and I/O errors at every point.

What makes the components correct:

- group commit: an acknowledged write is durable; everyone is answered; nobody waits in vain;
- recovery: the last write of each key, whatever tail was torn and whichever hint is broken;
- engine and merge: a reopening shows what the handle showed; the keydir points to files that
  exist and to bytes that are there; a merge moves keys and changes no value; ids are never reused;
  handles do not outlive files; what was promised durable survives a power loss;
- data files: a location returned by append is where the bytes are, whatever flush or fsync failed
  before; a scan finds what is whole and stops at nothing but the tear; a hint file is right or not used;
- handles: sessions follow each other and each sees all of the one before; a read-only handle shows
  one moment of a store that is being written and merged; close makes everything durable;
- clients: what they list and count is what the store holds and did, also after errors.

`PROJECT.json` lists the hazards at their lines, with the properties that cover them.

## 2. Modules

| Module | Models |
|---|---|
| `DurableLog` | abstract: writes are issued, persist at some time, and are answered once; `Ok` after persistence |
| `GroupCommit` | `commit.rs` with `Engine::append`, the fsync closure, merge's forced rotation, `Engine::sync`; implements `DurableLog` |
| `GroupCommitProofs` | the theorems about it |
| `MCGroupCommit` | its TLC instance (thread symmetry) |
| `Recovery` | `recovery.rs` as operators on a disk: `Recover(disk)` |
| `DiskImages` | the disks that writes, merges, crashes and bit rot produce; compares `Recover` with a definition of the last write that scans nothing |
| `KvStore` | abstract: a map; a write takes effect atomically between call and return; a crash loses nothing |
| `Store` | the engine: put, delete, get, fold, sync, rotation, crash and reopening (through `Recover`) |
| `Merge` | compaction beside the calls of `Store`; in serial use implements `KvStore` |
| `MCMerge` | the TLC instances of `Merge` |
| `Format` | the bytes of entries and hints, and the loops that scan them, as operators |
| `ActiveFile` | one data file while it is written, through `std::io::BufWriter`, by the engine or by a merge; `MCActiveFile` its instance |
| `Handles` | the processes of one directory: lock, `open` step by step, sessions with the calls of `Merge`, read-only handles, close, drop, kill |
| `LoadTest` | `loadtest.rs`: its threads, samples, flags and joins, over an external store |
| `Firehose` | `bsky_firehose.rs`: frames, ticks and the metrics hook, over an external store |
| `TodoTui` | `todo_tui.rs`: every key, over an external store |
| `RecoveryProofs`, `DiskImagesProofs`, `MergeProofs`, `ActiveFileProofs`, `FirehoseProofs` | the theorems about the module of that name (`MergeProofs` also those about `Store`) |
| `ClientProofs` | the theorems about `LoadTest` and `TodoTui`, two programs that use the store |
| `SerialProofs` | the theorems about `Store` and `Merge` in serial use, and about `Handles`; extends `MergeProofs` |

### GroupCommit

`pc[t]` says where a thread is between two critical sections. The active lock is a variable, since
`append` holds it over several steps (append, `record_pending`, fsync of a rotation,
`mark_all_durable`, creation of the new file). The coordinator's own mutex is never held across a
step, so each of its sections is one action; the condition variable is the set of threads at
`"waiting"`, which may also wake spuriously. `log[i]` is the file of the i-th entry and `durable` what
an fsync has put on the medium. The descriptor a leader clones remembers its file and how much
was there; the fsync happens later, without a lock, and persists only that much. A failed fsync
persists nothing that can be relied on. fsyncs, the cloning of the descriptor and the
creation of a file may fail each time. An append that fails hands out no generation, and is no
action. `Sync` is one step: what happens while it holds the lock cannot be seen, except by
persisting less; its failure changes nothing.

### Store and Merge

`history` numbers the writes; an entry in a file is the number of its write, so a merge's copy is
the same number in another place. Each file knows how many of its entries are written, flushed to
the OS and fsynced: a kill keeps at least the flushed ones, a power loss at least the fsynced ones,
and either may keep more (`KeptAfter`). A file keeps its contents after it is unlinked.

- An append, with the rotation it may need, is one step, as it runs under the active lock. Group
  commit is one step with the effect proved in `GroupCommitProofs`.
- A merge takes one step per access to something shared: the id counter, one keydir lookup, one
  compare-and-swap, one removal, one `forget`, the active file. `MergeFails` is every `?`
  on its way: an output that cannot be opened (with the id spent, with or without its data file),
  a read or write error, the fsync or the creation in `restore_active_file`.
- The collection of the inputs is one step. In the code the active id is read first and the
  directory next; files that appear in between have larger ids and are filtered out, and
  those that another merge removes in between would be found missing by the next step anyway.
- Claiming an output id and creating the file are one step; nobody looks at a spent id without a file.
- Crashes end all calls. The reopening discovers, recovers and starts a fresh file above the rest.
- `MayOverlap` says which calls a caller may start while which others run. It is how a program uses
  the handle, not a lock of the engine; an empty relation is a single-threaded program.
- `promise`, `at_risk`, `faults` and `crashes` are not state of the program: `promise` is what the
  caller was told, `at_risk` the puts that had appended and not yet updated the keydir when a merge began.
- Hint files are left to `Recovery` and `DiskImages`; `Disk` has none. `HintsChangeNothing` is why
  this is sound as long as no entry rots and no timestamp is 0 (`TornHintHides.cfg`).
- Timestamps are stored and never compared, and are left out (`Format` has them, where they are bytes of
  a hint file). So are metrics and log messages.
- A merge that finds an input missing ends with the error, and dropping its writer flushes what was copied so far.
  A kill after failed rotations may find a file longer than `MaxFileSize`; `KeptAfter` cuts what there is.

Assumed of the environment: a directory operation is durable and ordered once it returned;
`ActiveFile::create` either fails without a file or succeeds; a failed append leaves no
bytes in `Store` (`ActiveFile` has the ones it does leave); locks are not poisoned.

### Format and ActiveFile

A file is a sequence of cells, each a number below `Base`, which stands for 2^32, or a CRC. The
top half of the numbers is the tombstone bit; sizes are reduced modulo `Base`, as the casts do; a timestamp is
a number like any other, and in a hint record it comes first, as in `encode_hint`. A CRC
carries the cells it covers, so it matches exactly when nothing changed, but for that of nothing, which is
the number 0; a reader that has lost its place reads it as a number. A value may be the bytes of an entry, which a scan must not find.

`ActiveFile` takes one step per system call: the flush writes any part of the buffer and the
next one may fail, `write_all` of what does not fit in the buffer writes past it. What is external (the
`BufWriter`) is modelled from its documented behaviour: the buffer keeps what a failed flush did not write. `pc` and `op` are the
call in progress; `appended`, `published` and `acked` are what callers were told. A merge writes
the hint record of every entry beside it. The power loss and the kill are
not steps: the properties speak of every prefix of the file that they may leave.

### Handles

`step[h]` is where a handle is in `Engine::open`; `OpenOrder` is the order of its steps. `discover` and the
recovery of each file are steps of their own, so a writer puts, merges and removes files
in between, and a viewer whose file is gone fails to open (it then stays where it is). Inside a session
the actions are those of `Merge`, with one caller. `clean` and `during` record what happened, for
the properties. A kill may come anywhere, also inside `open`, `put` and `merge`. The lock is released by close, by drop and by the kernel.

### LoadTest, Firehose, TodoTui

The three clients call an engine that is external: each call succeeds or fails.

- `LoadTest`: the first join that meets a panic is the end of the program, whoever else still runs. Time is a clock; a call takes any time. Samples are identified by their thread and number, so
  that losing one and counting one twice are different. The flags are read where the
  code reads them. A configuration with no merge thread is not modelled.
- `Firehose`: `select!` picks a frame, a tick or a key, and no handler is interrupted, so the state has one
  task; what is hard is the `?` in the middle of a handler. `feed` is what the posts should be, `age` counts the ticks
  since the first unsynced change, `missed` the merges and syncs that failed. A call takes any number of nanoseconds, also none
  that `Instant` can tell. The histories are those that `App` keeps; drawing them, which divides latencies by
  1000, and the two gauges of queue depth and reclaimed bytes are left out. The program runs once.
- `TodoTui`: a failed write ends the program, its entry in the store or not, and the next run opens the
  store again. Titles are short sequences of two characters, one of them blank.

## 3. Runs

Bounds, by name: `MaxWrites` appends, `MaxFiles` file ids (a merge only starts below it),
`MaxFileSize` entries per file, `FlushBatch` copies per flush (256 in the code), `MaxFaults` I/O errors,
`MaxCrashes` crashes, `MaxEntries` and `MaxDamage` on disk images; `Base`, `Capacity` and `MaxEntries` of
`ActiveFile`; `MaxOps` calls per thread of `LoadTest`; `MaxFrames`, `MaxOps`, `MaxTicks`, `MaxFailures` of
`Firehose`; `MaxLen`, `MaxId`, `MaxRuns` of `TodoTui`.

| Run | Instance | Shows |
|---|---|---|
| `gc_safety` | 3 threads, 3 writes, 3 entries per file | all safety properties and `DurableLog`; 1.04M states under symmetry |
| `gc_liveness` | 3 threads, 3 writes | every call returns |
| `disk_images` | 2 keys, 3 file ids, 2 entries per file, damaged twice, no timestamp 0; 992k states | a hint that passes its CRC names every entry its file still has; recovery finds the last write, whichever files a merge removed; hints change nothing |
| `merge_serial` | 1 caller, 2 keys, 4 writes, 1 kill | a reopening at any step shows what the handle showed; `KvStore`; bytes before locations |
| `merge_power` | 1 caller with `should_sync_on_put`, 1 I/O error, 1 kill or power loss | what was acknowledged survives |
| `merge_concurrent` | a writer, a reader and a merge, all overlapping, at most one error in the merge or in a removal | repoints change no value; no leaked handle; no shared file; what may dangle; and, where no error came, ids are in order after the merge |
| `active_file` | 5 kinds of entry, two with timestamp 0, 2 appends, a buffer of 7 cells, numbers below 8, 1 failed flush or fsync | published locations can be read; a scan finds what is whole; one rotted cell costs one entry, or what follows it if it is a size; hints are right or rejected, but for the first word of one that is a timestamp of 0; a sync covers what a failed flush left behind |
| `handles` | 2 sessions, 1 viewer, 2 keys, 3 writes with merges, 1 kill or drop; 2.7M states | a session sees all that came before; a viewer's keydir is of one moment; closed is durable |
| `load_test` | 2 workers and the merger, batches of 2, 2 calls each, any call may fail; 643k states | every measured call is in the summary, once; after a panic there is no summary and no close, otherwise the store is closed by its last holder; the program ends |
| `firehose` | 2 repositories, 2 keys, 2 frames of 2 operations, 3 ticks, 1 failure, calls of 0 and of 3 ns; 3.3M states | the counters agree with the engine and with the histories, second by second; changes are synced in time; nothing is missed without a warning or a count |
| `todo_tui` | titles of up to 2 characters, ids below 3, 3 runs; 122k states | the list is the store, in its order, also after a reopening; a key edits one todo and ids are never shared |

In `active_file` the buffer of 7 takes one entry of 6 cells but not two, so the second append flushes the first in
the middle of a write, and the entry with the largest key and value (3 and 7 cells) goes past the buffer. Two appends put something before and after
whatever rots. In `handles` three writes to two keys, two to a file, let a session leave a file with a dead and a live entry and the next
one merge it, with a viewer between any two steps. In `load_test` two calls fill a worker's batch of two
and one leaves a batch to be handed over at the end; warm-up, one report and the last drain fit in 3 ticks. In
`firehose` three ticks are a merge interval of two and one more, and overflow a chart of two columns. Three
runs of `todo_tui` let one fail, the next repair and the last show.

Three threads give a leader, a waiter and one that rotates beneath both; with three
writes and three entries per file two uncovered generations can share an fsync, the third write
fills the file and rotates it, and a merge may rotate it earlier, with a generation on either side. Four writes to two keys with two entries
per file give a merge of a file with a dead and a live entry, a tombstone and the value under it in
different files, and a write after the merge. In `merge_concurrent` two of the four fill the merge's
input and two arrive while it runs, enough for the active file to rotate between two of its
outputs. The flush batch is one in `merge_serial`, where each copy is flushed and published by itself, and two elsewhere,
where a copy waits in the buffer. Overlapping merges are in no passing run: nothing useful holds of them (below).

`CHECK_DEADLOCK FALSE` stands in all configurations but those of group commit, which is checked for deadlock: behaviours end when
the bounds are used up, a program may stop calling, and the clients end.
Symmetry is used in `gc_safety` only, which has no liveness property.

Fairness (`gc_liveness`): weak fairness of the steps a thread takes of its own accord inside a call.
A caller is never forced to call, and a spurious wakeup is never counted on. Weak fairness is
enough although two locks are contended: a behaviour has finitely many writes, so a thread that
wants the active lock finds it free for good in the end; that `std::sync::Mutex` is fair is
not assumed. Fsyncs may fail each time: a failed leader returns its error, so even then all return.

Fairness (`load_test`): weak fairness of the clock, of the main thread and of each thread: the OS runs every
thread that is ready, and a call of the store returns or panics (`EveryCallReturns` is the reason to assume so). `Terminates`
is not true by that alone: the merge thread must notice the flag in its sleep, and a worker at the
top of its loop, before the main thread's join can end.

### Where code and documents disagree

Each of these configurations ends in a counterexample. `lost_put` is a run of the project and is
described in `PROJECT.json` under "findings"; the others are kept beside it and are run the same way,
with the module named in the second column.

| Run | Module | Property refuted | In short |
|---|---|---|---|
| `lost_put` | `MCMerge` | `NothingDangles` | a merge between a put's append and its keydir update removes the entry: the put returns `Ok` and its key is gone (`api.rs` 125-127) |
| `TornHint.cfg` | `MCActiveFile` | `CutHintFails` | a hint file, flushed and not fsynced, that a power loss cut after the four bytes of a first timestamp 0 passes `verify_hint_file`: the CRC of nothing is 0 (`output_writer.rs` 158-161) |
| `TornHintHides.cfg` | `DiskImages` | `RecoverFindsLastWrite` | what comes of it: recovery takes the file's entries from that hint, and there are none (`recovery.rs` 133-199) |
| `MergeError.cfg` | `MCMerge` | `RecoverMatchesKeydir` | an error of a merge leaves its output above the active file; a later put is undone by a reopening (`merge/mod.rs` 25) |
| `TwoWriters.cfg` | `MCMerge` | `RecoverMatchesKeydir` | two writers of one key reach file and keydir in opposite orders (`merge/mod.rs` 8-12) |
| `SyncThenMerge.cfg` | `MCMerge` | `PromiseKept` | a merge removes a synced value whose successor was not fsynced yet (`merge/mod.rs` 61-66) |
| `SyncAfterKill.cfg` | `MCMerge` | `PromiseKept` | `sync` does not reach the file of the session that was killed (`api.rs` 130) |
| `GetDuringMerge.cfg` | `MCMerge` | `GetFindsItsFile` | a get fails on a file removed beneath it (`api.rs` 125-126) |
| `TwoMerges.cfg` | `MCMerge` | `RemovesOnlyUnreferenced` | a second merge takes the first one's unfinished output as input and removes it |
| `MergeLoses.cfg` | `MCMerge` | `ActiveIsNewest` | of two merges the one that finds an input missing returns its error past `restore_active_file` |
| `PutDuringMerge.cfg` | `MCMerge` | `RecoverMatchesKeydir` | the limitation the README and the module name: a put during a merge, undone by a reopening |
| `RemoveFails.cfg` | `MCMerge` | `RecoverMatchesKeydir` | an old file that could not be removed resurrects a deleted key, its tombstone being gone |
| `GroupCommitWaiter.cfg` | `MCGroupCommit` | `InFlightCoversWaiter` | `commit.rs` 18-21 on waiters: the fsync in flight need not cover them; the loop makes up for it |
| `ShortWrite.cfg` | `MCActiveFile` | `PublishedIsReadable` | `write_all` of an entry larger than the buffer fails in the middle; what it wrote is in the file, not in the offset, and every later location is wrong (`datafile.rs` 18-21: "always correct") |
| `KeyTooLong.cfg` | `MCActiveFile` | `ScanFindsWhole` | a key as long as the tombstone bit is read back as a delete (`entry.rs` 76-80; `quality-review.md` 33-39 knows it) |
| `ViewDuringMerge.cfg` | `Handles` | `ViewerCanRead` | a read-only handle's keydir points at files a merge has removed (`engine.rs` 201-203, `lock.rs` 5-6: the two coexist) |
| `DropIsNotClose.cfg` | `Handles` | `DroppedIsDurable` | a handle that is dropped fsyncs nothing (`api.rs` 133-135: equivalent to close but for the error) |
| `WarmupSamples.cfg` | `LoadTest` | `OnlyAfterWarmup` | a call begun before the end of the warm-up is recorded if it returns after it (`loadtest.rs` 445) |
| `FrameHalfApplied.cfg` | `Firehose` | `FrameIsSkippedWhole` | "skipping one frame" (`bsky_firehose.rs` 753) has applied the operations before the one that failed |

`RotIsContained` is narrower than `recovery.rs` 83-85 ("a single corrupt entry is skipped without
aborting the rest of the scan"): after rot in a size the scan goes on at a place that is no entry's start, and
may end there. What comes before is still found, and rot anywhere else costs that entry only.

`DanglingWasInFlight` is the positive counterpart of `lost_put`: with one merge at a time nothing
else makes the keydir dangle, even when the merge fails.

## 4. Proofs

All theorems hold for every value of the constants that the named assumptions allow: any set of
threads, any number of keys, files, writes, faults and crashes. Where one needs a hypothesis
more, it is in its statement, and a configuration of section 3 refutes the property without it.

| Module | Proved | Hypothesis |
|---|---|---|
| `GroupCommitProofs` | `TypeOK`, `AckedIsDurable`, `MarkedIsDurable`, `RotatedIsDurable`, `GenerationIsAppendOrder`, `OneLeader`, `NoLostWakeup`, `DurableNeverRegresses`, `LeaderIsCovered`, `ImplementsDurableLog` | |
| `DiskImagesProofs` | `TypeOK` | |
| `DiskImagesProofs` | `RecoverFindsLastWrite`, `HintsChangeNothing` | no caller passes the timestamp 0 (`TornHintHides.cfg`) |
| `MergeProofs` | `TypeOK`, `PublishedIsFlushed`, `NoLeakedHandle`, `NewFileIsFresh`, `RepointKeepsValues` | |
| `MergeProofs` | `ActiveIsNewest`, `DanglingWasInFlight` | `OneMerge`: no merge starts while one runs (`MergeLoses.cfg`, `TwoMerges.cfg`) |
| `SerialProofs` | `RecoverMatchesKeydir` | `SerialUse`: puts, deletes and merges do not overlap, nothing fails (`TwoWriters.cfg`, `PutDuringMerge.cfg`, `MergeError.cfg`, `RemoveFails.cfg`) |
| `SerialProofs` | `ImplementsKvStore` | `SerialUse`, and `KillsOnly`: no power loss, which may take what was not synced |
| `SerialProofs` | `PromiseKept` | `SerialUse`, and `SyncedUse`: every put and delete waits for its group commit and nobody calls `sync` (`SyncThenMerge.cfg`, `SyncAfterKill.cfg`); kills and power losses as often as one likes |
| `SerialProofs` | `SessionSeesAll`, `SnapshotIsConsistent`, `ClosedIsDurable` | `SerialUse`; sessions end by close, drop or kill at any step, of `open` too |
| `ActiveFileProofs` | `OffsetsAreRight`, `PublishedIsReadable` | no write past the buffer fails half way (`ShortWrite.cfg`) |
| `ActiveFileProofs` | `ScanFindsWhole`, `RotIsContained`, `HintsNeverLie` | the same, and `EntriesFit`: no key is empty (`engine.rs` 264, 288) or longer than `MaxKeyLen` (`KeyTooLong.cfg`), no value as long as `Base`, and timestamps are below `Base`, as a u32 is |
| `ClientProofs` | `SamplesAddUp`, `EndsInOrder`; `ListIsRight`, `EditsOneTodo` | |
| `FirehoseProofs` | `ChartsAreRight`, `ChangesAreSynced`, `NothingIsMissedSilently` | |

None of the safety properties but the type invariants is inductive. What each proof adds:

**Group commit.** `IInv` adds

- `LockInv`: the threads inside `append`'s block are the holder of the active lock, so there is
  one at a time;
- `PendingInv`, `LocalInv`: `pending_writes` is the length of the log, except between an append and
  its `record_pending`, which makes a generation and an entry the same number;
- `SyncedInv`: between a rotation's fsync and the new file everything is on the medium, which is what
  `mark_all_durable` relies on;
- `LeaderInv`: an entry up to the leader's `covers_up_to` is already durable or in the file its
  descriptor was cloned from, and short enough to have been there. The delicate case is
  a rotation between the reading of `pending_writes` and the cloning: the descriptor is
  then of the new file, and `RotatedIsDurable` accounts for the entries in the old one.

The refinement needs one thing more, `UnansweredInv`: a write is answered by nobody but the thread
that wrote it, once.

**Recovery.** `recover` is a fold over files of folds over entries. The induction theorems of the
library take an operator as a parameter, which the provers cannot instantiate; `RecoveryProofs`
does the induction in a first-order form instead (a non-empty set of subsets of a finite set has a
minimal element, `MinimalSubset`). That gives the existence of the recursive function behind a fold over a finite
set of numbers (`FoldExists`), what it computes when each step overwrites at most one key
(`FoldLastWins`), and from these `RecoverComputes`: per key, the last intact entry of the last file that
has one. `DiskImagesProofs` needs, beyond that, that a hint whose CRC matches names every entry its data file still has, in its
place, whatever was torn from the file since (`Vouches`, a part of `TypeOK`); the entries it names past the file's end are why the
recovery looks at the bounds. A timestamp of 0 allows one more hint, the empty one, and with it both theorems fail.

**Store and Merge.** The step from a state to the next is, but for a crash, an extension of the disk
(`Advances`): files only grow, ids only go up, history keeps its writes. Everything that names a place (the keydir,
the write of a put in flight, the queue of a merge) therefore stays true (`KeydirInv`, `ArgInv`, `MergesInv`); what remains for
each action is what it adds. A merge's invariant (`MergeOK`) says that its inputs are below the active file, that what it has queued are
copies, and that what it repoints to has reached the OS. A crash starts over from the disk, with the keydir
that `RecoverComputes` gives. With one merge at a time three more parts are inductive: `PlacesInv` (inputs are linked until
removed), `OrderInv` (an id above the active one is an output of the running merge), and for the dangling entries `RiskInv`: a key
that still points behind the copy is queued for a repoint, or its put was in flight when the merge began.

**Serial use.** That a reopening finds what the keydir shows is not inductive in any simple form, since recovery
goes by the last place of a key, and a merge leaves several places of one write and moves them upwards, past the active file, while
the tombstones it does not copy go away. The invariant speaks of all the places of a key in the directory (`Shows`): those from the keydir's entry
upwards hold the same write, and where the keydir has none, or is about to have none, a
tombstone that a kill does not lose lies above each of them. Three more parts carry it from step to step:
at most one call writes or merges (`BusyInv`), the inputs of a merge are the oldest files and go oldest first (`OldestInv`, so that a
tombstone outlives what it hides), and what the keydir says is in the directory (`RiskInv`, with nothing at risk).
`RecoveryTakesTop` says that `recover` finds the last place that is left; `RecoversWhatItShows` puts the two together.
Reads and syncs may overlap with everything. For the refinement each step is then one of five: it changes
neither keydir nor writes in flight (most, by `LoudOrCalm`), begins a write, lets it take effect, repoints to a copy (`RepointKeepsValue`), or
is a crash, after which the map is what recovery found.

**Power loss.** `PromiseKept` speaks of every cut that a loss of power may make, and is not inductive: a merge
removes the only place that had the promised write, and what makes that right happened long before. Three parts are added
to the invariant of serial use. `MonoInv`: from place to place upwards the writes of a key never get older, so that recovery, which
takes the last place left, finds nothing older than any place that is left. `MediumInv`: every file
is wholly on the medium but the active one while its last write waits for the group commit, the inputs of
the running merge, and the output that merge is writing; when the first input goes, no output is excepted any more.
`KeptInv`: for each key some place on the medium holds the promised write or a later one, or else the promise or a later write is
a delete and every place left in the directory is recent enough. The second case is what a merge leads to that drops tombstones: what
the tombstone hid went before it, because inputs go oldest first (`RemoveKept`). Why nobody may call `sync`: it promises what the
keydir shows, and after a kill in the middle of a put that may be a write that recovery found in
an older file, which `sync` does not fsync. The run `merge_power` has failing writes too; these are not in
the theorem.

**Sessions and handles.** `HInv` says what holds in each of the states that the lock tells apart, and at each step of `open`.

- Inside a session every step is one of `Merge`, and the invariant of serial use holds as it is (`OneWriteInv`), with
  `LastInv`: the keydir has the last write of each key, or a call in flight is about to repoint to it.
- Outside a session (`RestInv`) nothing is in flight and the directory shows every key's last write (`DiskSays`). A kill
  leads there by a cut (`CutDown`). A session that is being opened is alone, and reserves ids that no file has (`OpeningInv`, `StepsOK`).
- `WrittenInv`: nothing is in a buffer but the copies of a running merge and, as long as every session was closed, nothing is
  short of the medium but those and the active file, which the close syncs.
- For a handle that is in `open`, file by file while others write and merge (`ScanFor`, `ScansTo`): there is a number n of
  writes, no smaller than when it listed the directory, such that reading what is left of its list, starting from what it has found, ends at the
  store after the first n writes. That is not so because nothing changes but because what changes is either above the
  last file of the list (new files, which are never read), or in the active file while it is unread (n moves on to the
  latest write), or a merge's, which removes a place only when the same write, or a tombstone that need not be
  told, lies above it; a reader that comes for a removed file fails. What makes the last case right is `Anchor`: any
  place that tells something else than the n-th state lies below one that tells the right thing and is still to be read,
  or was. A merge whose output is among the listed files has seen no write since (`SerialUse`), so that n is still the last.
  What a reader sees of a merge's buffered output has reached the OS by then (`Spills`), which adds no entry anywhere. When the
  list is read, the handle's keydir is of moment n (`ViewFor`) and stays so.

**Active file.** File and buffer are one stream, which a flush does not change and a write extends; the offset is its
end, but for the cells of the write in progress. For the scans the invariant also has `LayoutInv`: the stream up to the offset is the
encodings of the accepted entries, one right after the other (their ends are `Edges`), and past it the file has at most a part of
one more. `Scan` is a recursive function over positions. It is reasoned about through its equation, which has a solution because
each step goes up (`ScanExists`, by `NatSetInduction`, a first-order form of induction), and along a row of entries
each of which is read as it was encoded (`WholeRead`, `ScanRow`): the scan finds the row, then whatever it finds at its end. There
it meets the end of the file or a torn entry (`NothingAfter`). A rotten cell that is not a size leaves the length as it was, and
the CRC does not match (`RottenRead`), so that the rows before and after it are found and it is not.
Of the hint file, `HintInv` says that it is a row of records, one for each accepted entry (`HintRow`), and has its trailer only
when the output is closed and synced. Of a hint file that a crash cut, the last cell is read as the trailer: the cut is inside a
record, where the scan does not end at the end of the cells (`HintsEnd`), or just past the first cell of one, which
is a timestamp, and is the CRC of what comes before only if that is nothing and it is 0 (`OnlyWholeIsUsed`). But for that one
cut, which the property leaves out and `TornHint.cfg` shows, only a whole file is used, and then the data file
is whole too: record by record, the row is what the scan finds.

**Load generator.** A sample is in its worker's batch, in the shared list or in the total, and in one of them; samples
are numbered by calls, so that the next one is new.

**Todo tracker.** While it runs, list and store hold the same (`Mirrors`), and no id in the store has reached
`next_id`; when it does not run, nothing is known but that the store has todos in it, and opening sorts what is there. A failed add
leaves its entry under the id `next_id`, which is why the app must end there, and `NextId` take the greatest id of the store (`NextIdIsFresh`).

**Firehose.** What was counted in the running second is what the engine reported since the last tick, and
the time reported with it is that of as many calls: any bound on a call, taken as often, bounds it (`SecondInv`,
`IsTimeOf`). The quotient that a tick appends to a history of latencies therefore lies between the quickest and the slowest a
call may be, and is 0 in a second without one (`AverageOK`); nothing is assumed of a duration but that it is no less than 0. That a chart adds up is a statement about a fold in the order
in which `CHOOSE` picks the columns. `SumGrows` builds, column by column, a sum from which any element may be taken off first;
it solves the equation of the fold, and a solution is unique (`SumComputes`), which gives what a push and a scroll
change (`SumPushed`). A change in the store is no older than the ticks since the last merge and an interval for each
failure (`SyncInv`); with the ticks left out the bound is not inductive. Store and feed stay in step because two posts have one key only
if they are one (`OneKeyOnePost`), and what was told is not taken back (`ToldStays`).

Only model-checked:

- liveness (`EveryCallReturns`, `Terminates`): fairness and `ENABLED` are out of the prover's reach;
- `PromiseKept` where writes fail (`MergePower.cfg`);

## 5. Not modelled

The arithmetic and the printing of percentiles in the load generator, the arguments and the output of `kv`, the
drawing of the two examples, log messages, `basic_usage`, the benches and the tools: none
changes the state of the store. u32 file ids wrap only after 2^32 files. Entries do not rot
while a merge copies them: the copy skips such an entry and the file goes. Directory
operations are durable when they return, which the code leaves to the file system.

## 6. Plan

Done: `GroupCommit` with its proofs, `Recovery`, `DiskImages`, `Store`, `Merge`, `Format`, `ActiveFile`, `Handles`,
`LoadTest`, `Firehose`, `TodoTui`. Next, in this order:

1. Bit rot inside `Merge`; buffered directory operations in `Store`; a liveness property of merge.
