----------------------------- MODULE SerialProofs -----------------------------
(* Proofs about Store, Merge and Handles in serial use: writes and merges    *)
(* follow each other, and no I/O error happens.  Reads and syncs may overlap *)
(* with anything, and a crash may come at any step.  What is proved is that  *)
(* recovery finds what the keydir shows, that store and merge implement      *)
(* KvStore, that a loss of power takes nothing a synced put or delete has    *)
(* promised, and what the sessions and the read-only handles of a directory  *)
(* see of each other.                                                        *)
(*                                                                           *)
(* Recovery goes by the last place of a key among the files of the           *)
(* directory.  The invariant speaks of all its places: from the one in the   *)
(* keydir upwards they hold the same write, and where the keydir has none, a *)
(* tombstone lies above each of them.  A handle that is in `open` has read   *)
(* some of the files: its invariant speaks of the places it has still to     *)
(* read, and of the number of writes whose effect it will show.              *)
EXTENDS Handles, MergeProofs

\* Puts, deletes and merges do not overlap; nothing fails.
SerialUse ==
    /\ \A t, u \in Writers \cup Mergers : <<t, u>> \notin MayOverlap
    /\ Faults = {}

-----------------------------------------------------------------------------
(* Places.                                                                   *)

\* The order of recovery: by file, and by position within it.
UpTo(p, q) == \/ p.file_id < q.file_id
              \/ p.file_id = q.file_id /\ p.value_pos <= q.value_pos

\* p is a place in the directory that holds a write of key k.
IsPlace(fs, ls, h, k, p) ==
    InFile(fs, p) /\ p.file_id \in ls /\ h[EntryIn(fs, p)].key = k

\* It is a tombstone, and a kill does not lose it.
IsGrave(fs, ls, h, k, p) ==
    IsPlace(fs, ls, h, k, p) /\ OnOS(fs, p) /\ h[EntryIn(fs, p)].tomb

\* The directory shows at key k what a keydir entry loc says.
Shows(fs, ls, h, k, loc) ==
    \A p \in Location : IsPlace(fs, ls, h, k, p) =>
        \/ loc # None /\ (UpTo(loc, p) => EntryIn(fs, p) = EntryIn(fs, loc))
        \/ loc = None /\ \E q \in Location : UpTo(p, q) /\ IsGrave(fs, ls, h, k, q)

\* Positions are ordered, transitively and totally.
LEMMA UpToOrder ==
    ASSUME NEW p \in Location, NEW q \in Location
    PROVE  /\ UpTo(p, p)
           /\ UpTo(p, q) \/ UpTo(q, p)
           /\ UpTo(p, q) /\ UpTo(q, p) => p = q
           /\ \A r \in Location : UpTo(p, q) /\ UpTo(q, r) => UpTo(p, r)
BY DEF UpTo, Location

-----------------------------------------------------------------------------
(* The inductive invariant.                                                  *)

\* At most one call is inside a put, a delete or a merge.
BusyInv ==
    /\ \A t \in Threads : pc[t] \in WritePCs \cup {"delete"} => t \in Writers
    /\ \A t, u \in Threads :
          pc[t] \notin {"idle", "read"} /\ pc[u] \notin {"idle", "read"} => t = u
    /\ at_risk = {} /\ faults = 0 /\ Len(history) \in 0..MaxWrites

\* What the keydir says of key k, or is about to say about the write in flight.
Says(k, loc) ==
    \/ loc = keydir[k] /\ \A t \in Threads : pc[t] \in WritePCs => arg[t].key # k
    \/ \E t \in Threads : /\ pc[t] \in WritePCs /\ arg[t].key = k
                          /\ loc = KeydirEntry(arg[t])

\* The directory shows it.
NewestInv ==
    \A k \in Keys : \A loc \in Location \cup {None} :
        Says(k, loc) => Shows(files, linked, history, k, loc)

\* A merge's inputs are the oldest files of the directory, of which those before `rest` are
\* gone; its outputs are newer.
OldestOK(m, l, ls) ==
    /\ \A g \in ls : g \in m.inputs \/ \A f \in m.inputs : f < g
    /\ l \in {"repoint_last", "remove"} => ls \cap m.inputs \subseteq m.rest
    /\ l = "forget" => ls \cap m.inputs \subseteq m.rest \ {Min(m.rest)}
    /\ l \in CopyPCs => \A f \in m.inputs : f < m.out
    /\ \A i \in DOMAIN m.queue : m.queue[i].old.file_id < m.queue[i].new.file_id

OldestInv == \A t \in Threads : pc[t] \in MergePCs => OldestOK(merging[t], pc[t], linked)

\* One write at a time, each shown where it should be, through every step of a merge.
OneWriteInv == SerialInv /\ BusyInv /\ OldestInv /\ NewestInv

-----------------------------------------------------------------------------
(* Places through a step that only extends the disk.                         *)

\* No file gains an entry.
NoNewEntries ==
    /\ linked \subseteq linked'
    /\ \A f \in linked' : \/ f \in linked /\ files'[f].entries = files[f].entries
                          \/ files'[f].entries = <<>>

\* File f gains one entry.
OneEntryMore(f, v) ==
    /\ linked \subseteq linked' /\ f \in linked
    /\ files'[f].entries = Append(files[f].entries, v)
    /\ \A g \in linked' \ {f} : \/ g \in linked /\ files'[g].entries = files[g].entries
                                \/ files'[g].entries = <<>>

\* A place whose file did not change was there before.
LEMMA OldPlaceStays ==
    ASSUME DiskInv, Advances, NEW k, NEW p \in Location, p.file_id \in linked,
           p.value_pos <= Len(files[p.file_id].entries),
           IsPlace(files', linked', history', k, p)
    PROVE  IsPlace(files, linked, history, k, p)
<1>1. InFile(files, p)
  BY DEF InFile, DiskInv
<1> QED
  BY <1>1, PlacesStay DEF IsPlace

\* Without new entries there are no new places.
LEMMA NoNewPlaces ==
    ASSUME DiskInv, Advances, NoNewEntries, NEW k, NEW p \in Location,
           IsPlace(files', linked', history', k, p)
    PROVE  IsPlace(files, linked, history, k, p)
<1> DEFINE f == p.file_id
<1>1. f \in linked' /\ p.value_pos \in Nat \ {0} /\ p.value_pos <= Len(files'[f].entries)
  BY DEF IsPlace, InFile, Location
<1>2. f \in linked /\ files'[f].entries = files[f].entries
  BY <1>1 DEF NoNewEntries
<1> HIDE DEF f
<1> QED
  BY <1>1, <1>2, OldPlaceStays DEF f

\* The place of a new entry of file f.
NextPlace(f) == [file_id |-> f, value_pos |-> Len(files[f].entries) + 1]

\* A new entry is one new place.
LEMMA OneNewPlace ==
    ASSUME DiskInv, Advances, NEW f, NEW v, OneEntryMore(f, v), NEW k, NEW p \in Location,
           IsPlace(files', linked', history', k, p), p # NextPlace(f)
    PROVE  IsPlace(files, linked, history, k, p)
<1> DEFINE g == p.file_id
           i == p.value_pos
           n == Len(files[g].entries)
<1>1. g \in linked' /\ i \in Nat \ {0} /\ i <= Len(files'[g].entries)
      /\ p = [file_id |-> g, value_pos |-> i]
  BY DEF IsPlace, InFile, Location
<1>2. CASE g = f
  <2>1. /\ g \in linked /\ files[g].entries \in Seq(1..Len(history))
        /\ files'[g].entries = Append(files[g].entries, v)
    BY <1>2 DEF OneEntryMore, DiskInv, FilesOK, FileOf
  <2>2. n \in Nat /\ Len(files'[g].entries) = n + 1
    BY <2>1
  <2>3. i # n + 1
    BY <1>1, <1>2 DEF NextPlace
  <2> HIDE DEF n, i, g
  <2>4. i <= n
    BY <1>1, <2>2, <2>3
  <2> QED
    BY <2>1, <2>4, OldPlaceStays DEF n, i, g
<1>3. CASE g # f
  <2>1. g \in linked /\ files'[g].entries = files[g].entries
    BY <1>1, <1>3 DEF OneEntryMore
  <2> HIDE DEF g
  <2> QED
    BY <1>1, <2>1, OldPlaceStays DEF g
<1> QED
  BY <1>2, <1>3

\* What the directory shows it goes on showing, if the places that are new hold the same write.
LEMMA ShowsStays ==
    ASSUME DiskInv, Advances, NEW k, NEW loc, loc = None \/ InFile(files, loc),
           linked \subseteq linked', Shows(files, linked, history, k, loc),
           \A p \in Location : IsPlace(files', linked', history', k, p) =>
              \/ IsPlace(files, linked, history, k, p)
              \/ loc # None /\ EntryIn(files', p) = EntryIn(files, loc)
    PROVE  Shows(files', linked', history', k, loc)
<1> SUFFICES ASSUME NEW p \in Location, IsPlace(files', linked', history', k, p)
             PROVE  \/ loc # None /\ (UpTo(loc, p) => EntryIn(files', p) = EntryIn(files', loc))
                    \/ /\ loc = None
                       /\ \E q \in Location : UpTo(p, q) /\ IsGrave(files', linked', history', k, q)
  BY DEF Shows
<1>1. CASE loc # None
  <2>1. EntryIn(files', loc) = EntryIn(files, loc)
    BY <1>1, PlacesStay
  <2>2. CASE IsPlace(files, linked, history, k, p)
    <3>1. EntryIn(files', p) = EntryIn(files, p)
      BY <2>2, PlacesStay DEF IsPlace
    <3> QED
      BY <1>1, <2>1, <2>2, <3>1 DEF Shows
  <2> QED
    BY <1>1, <2>1, <2>2
<1>2. CASE loc = None
  <2>1. IsPlace(files, linked, history, k, p)
    BY <1>2
  <2>2. PICK q \in Location : UpTo(p, q) /\ IsGrave(files, linked, history, k, q)
    BY <1>2, <2>1 DEF Shows
  <2>3. IsGrave(files', linked', history', k, q)
    <3>1. InFile(files, q) /\ OnOS(files, q) /\ q.file_id \in linked'
      BY <2>2 DEF IsGrave, IsPlace
    <3>2. /\ InFile(files', q) /\ OnOS(files', q)
          /\ history'[EntryIn(files', q)] = history[EntryIn(files, q)]
      BY <3>1, PlacesStay
    <3> QED
      BY <2>2, <3>1, <3>2 DEF IsGrave, IsPlace
  <2> QED
    BY <1>2, <2>2, <2>3
<1> QED
  BY <1>1, <1>2
-----------------------------------------------------------------------------
(* What recovery finds.                                                      *)

\* A place that the cut n leaves.
InCut(n, k, p) == IsPlace(files, linked, history, k, p) /\ p.value_pos <= n[p.file_id]

\* The last place of the key that the cut leaves.
IsTop(n, k, top) == InCut(n, k, top) /\ \A p \in Location : InCut(n, k, p) => UpTo(p, top)

\* Recovery goes by the last place that is left.
LEMMA RecoveryTakesTop ==
    ASSUME DiskInv, NEW n, IsCut(n), NEW k \in Keys
    PROVE  \/ Recover(Disk(n))[k] = None /\ \A p \in Location : ~InCut(n, k, p)
           \/ \E top \in Location :
                 /\ IsTop(n, k, top)
                 /\ Recover(Disk(n))[k] =
                       IF history[EntryIn(files, top)].tomb THEN None ELSE top
<1> DEFINE L == LeftOn(n, k)
           P(f) == LeftIn(n, f, k)
           r == Recover(Disk(n))[k]
<1>1. /\ linked \subseteq Nat /\ IsFiniteSet(linked) /\ linked \subseteq DOMAIN files
      /\ \A f \in linked : n[f] \in Nat /\ n[f] <= Len(files[f].entries)
  BY DEF DiskInv, FilesOK, IsCut, FileOf
<1>2. ASSUME NEW f \in linked
      PROVE  P(f) \subseteq Nat \ {0} /\ IsFiniteSet(P(f))
  <2>1. P(f) \subseteq 1..n[f]
    BY DEF LeftIn
  <2>2. IsFiniteSet(1..n[f])
    BY <1>1, FS_Interval
  <2> QED
    BY <1>1, <2>1, <2>2, FS_Subset
<1>3. L \subseteq linked /\ IsFiniteSet(L) /\ L \subseteq Nat
  BY <1>1, FS_Subset DEF LeftOn
<1>4. ASSUME NEW p \in Location, InCut(n, k, p)
      PROVE  p.file_id \in L /\ p.value_pos \in P(p.file_id)
  <2>1. /\ p.file_id \in linked /\ p.value_pos \in Nat \ {0} /\ p.value_pos <= n[p.file_id]
        /\ history[files[p.file_id].entries[p.value_pos]].key = k
    BY <1>4 DEF InCut, IsPlace, EntryIn, Location
  <2>2. p.value_pos \in 1..n[p.file_id]
    BY <1>1, <2>1
  <2> QED
    BY <2>1, <2>2 DEF LeftIn, LeftOn
<1>5. r = IF L = {} \/ history[files[Max(L)].entries[Max(P(Max(L)))]].tomb THEN None
          ELSE [file_id |-> Max(L), value_pos |-> Max(P(Max(L)))]
  BY RecoverFinds
<1>6. CASE L = {}
  BY <1>4, <1>5, <1>6
<1>7. CASE L # {}
  <2> DEFINE f == Max(L)
             i == Max(P(f))
             top == [file_id |-> f, value_pos |-> i]
  <2>1. f \in L /\ \A g \in L : g <= f
    BY <1>3, <1>7, MaxIsGreatest
  <2>2. f \in linked /\ P(f) # {} /\ f \in Nat
    BY <1>3, <2>1 DEF LeftOn
  <2>3. i \in P(f) /\ \A j \in P(f) : j <= i
    <3> HIDE DEF f
    <3>1. P(f) \subseteq Nat /\ IsFiniteSet(P(f)) /\ P(f) # {}
      BY <1>2, <2>2
    <3> DEFINE S == P(f)
    <3>2. S \subseteq Nat /\ IsFiniteSet(S) /\ S # {}
      BY <3>1
    <3> HIDE DEF S
    <3>3. Max(S) \in S /\ \A j \in S : j <= Max(S)
      BY <3>2, MaxIsGreatest
    <3> QED
      BY <3>3 DEF S
  <2>4. r = IF history[files[f].entries[i]].tomb THEN None ELSE [file_id |-> f, value_pos |-> i]
    BY <1>5, <1>7
  <2> HIDE DEF f, i
  <2>5. i \in Nat \ {0} /\ i <= n[f] /\ history[files[f].entries[i]].key = k
    BY <1>1, <2>2, <2>3 DEF LeftIn
  <2>6. top \in Location /\ top.file_id = f /\ top.value_pos = i
    BY <2>2, <2>5 DEF Location
  <2>7. n[f] \in Nat /\ Len(files[f].entries) \in Nat /\ n[f] <= Len(files[f].entries)
    BY <1>1, <2>2 DEF DiskInv, FilesOK, FileOf
  <2>8. i <= Len(files[f].entries)
    BY <2>5, <2>7
  <2>9. InCut(n, k, top)
    BY <1>1, <2>2, <2>5, <2>6, <2>8 DEF InCut, IsPlace, InFile, EntryIn
  <2>10. ASSUME NEW p \in Location, InCut(n, k, p) PROVE UpTo(p, top)
    <3>1. p.file_id \in L /\ p.value_pos \in P(p.file_id) /\ p.file_id \in Nat
      BY <1>4, <2>10 DEF Location
    <3>2. CASE p.file_id = f
      BY <2>3, <2>6, <3>1, <3>2 DEF UpTo
    <3>3. CASE p.file_id # f
      BY <2>1, <2>2, <2>6, <3>1, <3>3 DEF UpTo
    <3> QED
      BY <3>2, <3>3
  <2>11. r = IF history[EntryIn(files, top)].tomb THEN None ELSE top
    BY <2>4, <2>6 DEF EntryIn
  <2> HIDE DEF top
  <2> QED
    BY <2>6, <2>9, <2>10, <2>11 DEF IsTop
<1> QED
  BY <1>6, <1>7

\* A keydir entry as the keydir or a finished put has it: none, or a value of the key, in the
\* directory and safe from a kill.
Held(k, loc) ==
    loc # None => /\ OnOS(files, loc) /\ loc.file_id \in linked
                  /\ history[EntryIn(files, loc)] = [key |-> k, tomb |-> FALSE]

\* A reopening finds what the directory shows.
LEMMA RecoversWhatItShows ==
    ASSUME DiskInv, NEW n, IsCut(n), \A f \in linked : files[f].flushed <= n[f],
           NEW k \in Keys, NEW loc, Held(k, loc), Shows(files, linked, history, k, loc)
    PROVE  RecoveredVersion(n, k) = VersionAt(loc)
<1> DEFINE r == Recover(Disk(n))[k]
<1>1. /\ linked \subseteq DOMAIN files
      /\ \A f \in linked : files[f].flushed \in Nat /\ n[f] \in Nat
  BY DEF DiskInv, FilesOK, FileOf, IsCut
<1>2. ASSUME NEW p \in Location, IsPlace(files, linked, history, k, p), OnOS(files, p)
      PROVE  InCut(n, k, p)
  <2>1. /\ p.file_id \in linked /\ p.value_pos \in Nat
        /\ p.value_pos <= files[p.file_id].flushed
    BY <1>2 DEF IsPlace, OnOS, Location
  <2>2. p.value_pos <= n[p.file_id]
    BY <1>1, <2>1
  <2> QED
    BY <1>2, <2>2 DEF InCut
<1>3. CASE loc # None
  <2>1. /\ loc \in Location /\ IsPlace(files, linked, history, k, loc) /\ OnOS(files, loc)
        /\ history[EntryIn(files, loc)].tomb = FALSE
    BY <1>3 DEF Held, OnOS, InFile, IsPlace
  <2>2. InCut(n, k, loc)
    BY <1>2, <2>1
  <2>3. PICK top \in Location :
           /\ IsTop(n, k, top)
           /\ r = IF history[EntryIn(files, top)].tomb THEN None ELSE top
    BY <2>1, <2>2, RecoveryTakesTop
  <2>4. UpTo(loc, top) /\ IsPlace(files, linked, history, k, top)
    BY <2>1, <2>2, <2>3 DEF IsTop, InCut
  <2>5. EntryIn(files, top) = EntryIn(files, loc)
    BY <1>3, <2>3, <2>4 DEF Shows
  <2>6. r = top /\ top # None
    BY <2>1, <2>3, <2>5, NoneAssumption
  <2> QED
    BY <1>3, <2>5, <2>6 DEF RecoveredVersion, VersionAt, EntryIn
<1>4. CASE loc = None
  <2>1. r = None
    <3> SUFFICES ASSUME r # None PROVE FALSE
      OBVIOUS
    <3>1. PICK top \in Location :
             /\ IsTop(n, k, top)
             /\ r = IF history[EntryIn(files, top)].tomb THEN None ELSE top
      BY RecoveryTakesTop
    <3>2. PICK q \in Location : UpTo(top, q) /\ IsGrave(files, linked, history, k, q)
      BY <1>4, <3>1 DEF Shows, IsTop, InCut
    <3>3. InCut(n, k, q)
      BY <1>2, <3>2 DEF IsGrave
    <3>4. q = top
      BY <3>1, <3>2, <3>3, UpToOrder DEF IsTop
    <3> QED
      BY <3>1, <3>2, <3>4 DEF IsGrave
  <2> QED
    BY <1>4, <2>1 DEF RecoveredVersion, VersionAt
<1> QED
  BY <1>3, <1>4
-----------------------------------------------------------------------------
(* Who is busy.                                                              *)

\* One merge at a time.
LEMMA SerialIsOneMerge == SerialUse => OneMerge
BY DEF SerialUse, OneMerge

\* Nothing fails.
LEMMA NoFaults ==
    ASSUME SerialUse, [MergeNext]_allVars
    PROVE  faults' = faults
<1>1. \A kind : ~Fault(kind)
  BY DEF SerialUse, Fault
<1>2. ASSUME NEW t \in Threads, NEW k, NEW tomb \in BOOLEAN, AppendEntry(t, k, tomb)
      PROVE  faults' = faults
  BY <1>1, <1>2 DEF AppendEntry, RotationFails
<1>3. ASSUME NEW t \in Threads, MergeStep(t)
      PROVE  faults' = faults
  BY <1>1, <1>3 DEF MergeStep, MergeStart, MergeOpen, MergeRead, MergeEntry, MergeRepoint,
     MergeFinish, MergeRemove, MergeForget, MergeRestore, MergeFails
<1>4. ASSUME NEW t \in Threads, SyncWrite(t) \/ UpdateKeydir(t) \/ Sync(t)
      PROVE  faults' = faults
  BY <1>1, <1>4 DEF SyncWrite, UpdateKeydir, Sync
<1>5. ASSUME NEW t \in Threads, NEW K, TakeEntries(t, K) \/ ReadValue(t, K) \/ DeleteCheck(t, K)
      PROVE  faults' = faults
  BY <1>5 DEF TakeEntries, ReadValue, DeleteCheck
<1>6. ASSUME NEW kind, CrashAndOpen(kind) PROVE faults' = faults
  BY <1>6 DEF CrashAndOpen
<1>7. UNCHANGED allVars => faults' = faults
  BY DEF allVars, vars
<1> QED
  BY <1>2, <1>3, <1>4, <1>5, <1>6, <1>7 DEF MergeNext, Put, DeleteAppend

Quiet == {"idle", "read"}

\* A put, a delete or a merge starts when none is going on.
LEMMA StartsAlone ==
    ASSUME SerialUse, IInv, AloneInv, BusyInv, NEW t \in Threads, t \in Writers \cup Mergers,
           MayStart(t), NEW u \in Threads
    PROVE  pc[u] \in Quiet
<1> SUFFICES ASSUME pc[u] \notin Quiet PROVE FALSE
  OBVIOUS
<1>1. pc[u] \in PCs
  BY DEF IInv, ArgInv
<1>2. u \in Writers \cup Mergers
  BY <1>1 DEF PCs, WritePCs, Quiet, AloneInv, BusyInv
<1>3. <<u, t>> \in MayOverlap
  BY DEF MayStart, Quiet
<1> QED
  BY <1>2, <1>3 DEF SerialUse

\* How a call moves from one section to the next.
Turns(t, l) ==
    /\ pc' = [pc EXCEPT ![t] = l]
    /\ l \in Quiet \/ pc[t] \notin Quiet \/ (MayStart(t) /\ t \in Writers \cup Mergers)
    /\ l \in WritePCs \cup {"delete"} => t \in Writers \/ pc[t] \in WritePCs \cup {"delete"}

\* Every step is one call's, or moves none.
LEMMA CallsTurn ==
    ASSUME IInv, [MergeNext]_allVars, ~Crashed
    PROVE  pc' = pc \/ \E t \in Threads, l \in PCs : Turns(t, l)
<1> DEFINE Goal == pc' = pc \/ \E t \in Threads, l \in PCs : Turns(t, l)
<1>1. ASSUME NEW t \in Threads, NEW k, NEW tomb \in BOOLEAN, AppendEntry(t, k, tomb),
             pc[t] = "delete" \/ (MayStart(t) /\ t \in Writers)
      PROVE  Goal
  <2>1. \E l \in {"idle", "sync", "update"} : pc' = [pc EXCEPT ![t] = l]
    BY <1>1 DEF AppendEntry, Return
  <2> QED
    BY <1>1, <2>1 DEF Turns, PCs, WritePCs, Quiet
<1>2. ASSUME NEW t \in Threads, NEW k \in Keys, DeleteCheck(t, k) PROVE Goal
  BY <1>2 DEF DeleteCheck, Turns, PCs, WritePCs, Quiet
<1>3. ASSUME NEW t \in Threads, SyncWrite(t) \/ UpdateKeydir(t) PROVE Goal
  <2>1. pc[t] \in WritePCs /\ \E l \in {"idle", "update"} : pc' = [pc EXCEPT ![t] = l]
    BY <1>3 DEF SyncWrite, UpdateKeydir, Return, WritePCs
  <2> QED
    BY <2>1 DEF Turns, PCs, WritePCs, Quiet
<1>4. ASSUME NEW t \in Threads, Sync(t) PROVE Goal
  BY <1>4 DEF Sync, memVars
<1>5. ASSUME NEW t \in Threads, NEW K, TakeEntries(t, K) \/ ReadValue(t, K) PROVE Goal
  <2>1. \E l \in Quiet : pc' = [pc EXCEPT ![t] = l]
    BY <1>5 DEF TakeEntries, ReadValue, Quiet
  <2> QED
    BY <2>1 DEF Turns, PCs, WritePCs, Quiet
<1>6. ASSUME NEW t \in Threads, MergeStep(t) PROVE Goal
  <2>1. CASE pc' = pc
    BY <2>1
  <2>2. CASE MergeStart(t)
    <3>1. pc' = [pc EXCEPT ![t] = "open"] /\ MayStart(t) /\ t \in Mergers
      BY <2>2 DEF MergeStart, Goto
    <3>2. Turns(t, "open")
      BY <3>1 DEF Turns, WritePCs
    <3> QED
      BY <3>2 DEF PCs, MergePCs
  <2>3. CASE ~MergeStart(t) /\ pc' # pc
    <3>1. pc[t] \in MergePCs /\ \E l \in MergePCs \cup {"idle"} : pc' = [pc EXCEPT ![t] = l]
      BY <1>6, <2>3 DEF MergeStep, MergeOpen, MergeRead, MergeEntry, MergeRepoint, MergeFinish,
         MergeRemove, MergeForget, MergeRestore, MergeFails, Goto, EndMerge, MergePCs
    <3> QED
      BY <3>1 DEF Turns, PCs, MergePCs, WritePCs, Quiet
  <2> QED
    BY <2>1, <2>2, <2>3
<1>7. UNCHANGED allVars => Goal
  BY DEF allVars, vars, memVars
<1> HIDE DEF Goal
<1>8. ASSUME NEW t \in Threads, NEW k \in Keys, Put(t, k) PROVE Goal
  BY <1>1, <1>8 DEF Put
<1>9. ASSUME NEW t \in Threads, DeleteAppend(t) PROVE Goal
  BY <1>1, <1>9 DEF DeleteAppend
<1>10. Goal
  BY <1>2, <1>3, <1>4, <1>5, <1>6, <1>7, <1>8, <1>9 DEF MergeNext, Crashed
<1> QED
  BY <1>10 DEF Goal

\* The bound on the writes.
LEMMA WritesBounded ==
    ASSUME StoreAssumption, IInv, Len(history) \in 0..MaxWrites, [MergeNext]_allVars
    PROVE  Len(history') \in 0..MaxWrites
<1>1. history \in Seq(Write) /\ MaxWrites \in Nat
  BY DEF IInv, DiskInv, StoreAssumption
<1>2. ASSUME NEW t \in Threads, NEW k, NEW tomb \in BOOLEAN, AppendEntry(t, k, tomb)
      PROVE  Len(history') \in 0..MaxWrites
  <2> DEFINE w == [key |-> k, tomb |-> tomb]
  <2>1. Len(history) < MaxWrites /\ history' = Append(history, w)
    BY <1>2 DEF AppendEntry
  <2> HIDE DEF w
  <2>2. Len(history') = Len(history) + 1 /\ Len(history) \in Nat
    BY <1>1, <2>1
  <2> QED
    BY <1>1, <2>1, <2>2
<1>3. ASSUME NEW t \in Threads, MergeStep(t) PROVE history' = history
  BY <1>3 DEF MergeStep, MergeStart, MergeOpen, MergeRead, MergeEntry, MergeRepoint,
     MergeFinish, MergeRemove, MergeForget, MergeRestore, MergeFails, diskVars
<1>4. ASSUME NEW t \in Threads, SyncWrite(t) \/ UpdateKeydir(t) \/ Sync(t)
      PROVE  history' = history
  BY <1>4 DEF SyncWrite, UpdateKeydir, Sync, diskVars
<1>5. ASSUME NEW t \in Threads, NEW K, TakeEntries(t, K) \/ ReadValue(t, K) \/ DeleteCheck(t, K)
      PROVE  history' = history
  BY <1>5 DEF TakeEntries, ReadValue, DeleteCheck, diskVars
<1>6. ASSUME NEW kind, CrashAndOpen(kind) PROVE history' = history
  BY <1>6 DEF CrashAndOpen
<1>7. UNCHANGED allVars => history' = history
  BY DEF allVars, vars, diskVars
<1> QED
  BY <1>2, <1>3, <1>4, <1>5, <1>6, <1>7 DEF MergeNext, Put, DeleteAppend

\* At most one call writes or merges, and no merge finds a put in flight.
LEMMA BusyOK ==
    ASSUME SerialUse, StoreAssumption, MergeAssumption, IInv, AloneInv, BusyInv,
           [MergeNext]_allVars
    PROVE  BusyInv'
<1>1. faults' = 0 /\ Len(history') \in 0..MaxWrites
  BY NoFaults, WritesBounded DEF BusyInv
<1>2. pc \in [Threads -> PCs]
  BY DEF IInv, ArgInv
<1>3. at_risk' = {}
  <2>1. ASSUME NEW t \in Threads, MergeStart(t) PROVE at_risk' = {}
    <3>1. \A u \in Threads : pc[u] \in Quiet
      BY <2>1, StartsAlone DEF MergeStart
    <3>2. InFlight = {}
      BY <3>1 DEF InFlight, Quiet
    <3> QED
      BY <2>1, <3>2 DEF MergeStart, BusyInv
  <2>2. ASSUME NEW t \in Threads, MergeStep(t), ~MergeStart(t) PROVE at_risk' = at_risk
    BY <2>2 DEF MergeStep, MergeOpen, MergeRead, MergeEntry, MergeRepoint, MergeFinish,
       MergeRemove, MergeForget, MergeRestore, MergeFails, mergeVars
  <2>3. UNCHANGED mergeVars \/ UNCHANGED allVars => at_risk' = at_risk
    BY DEF mergeVars, allVars
  <2> QED
    BY <2>1, <2>2, <2>3 DEF MergeNext, BusyInv
<1>4. CASE Crashed
  <2>1. \A t \in Threads : pc'[t] = "idle"
    BY <1>4, CrashIdles
  <2> QED
    BY <1>1, <1>3, <2>1 DEF BusyInv, WritePCs
<1>5. CASE ~Crashed /\ pc' = pc
  BY <1>1, <1>3, <1>5 DEF BusyInv
<1>6. CASE ~Crashed /\ pc' # pc
  <2> PICK t \in Threads, l \in PCs : Turns(t, l)
    BY <1>6, CallsTurn
  <2>1. pc'[t] = l /\ \A u \in Threads \ {t} : pc'[u] = pc[u]
    BY <1>2 DEF Turns
  <2>2. \A u \in Threads : pc'[u] \in WritePCs \cup {"delete"} => u \in Writers
    BY <2>1 DEF Turns, BusyInv
  <2>3. l \notin Quiet => \A u \in Threads \ {t} : pc[u] \in Quiet
    <3>1. CASE pc[t] \notin Quiet
      BY <3>1 DEF BusyInv, Quiet
    <3>2. CASE MayStart(t) /\ t \in Writers \cup Mergers
      BY <3>2, StartsAlone
    <3> QED
      BY <3>1, <3>2 DEF Turns
  <2>4. \A u, v \in Threads : pc'[u] \notin Quiet /\ pc'[v] \notin Quiet => u = v
    BY <2>1, <2>3 DEF BusyInv, Quiet
  <2> QED
    BY <1>1, <1>3, <2>2, <2>4 DEF BusyInv, Quiet
<1> QED
  BY <1>4, <1>5, <1>6
-----------------------------------------------------------------------------
(* The inputs of a merge are the oldest files.                               *)

\* Files come on top.
LEMMA OldestStays ==
    ASSUME IInv, NEW m, NEW l, m.inputs \subseteq DOMAIN files, OldestOK(m, l, linked),
           linked' \subseteq linked \cup {next_file_id}
    PROVE  OldestOK(m, l, linked')
<1>1. \A f \in m.inputs : f < next_file_id
  BY DEF IInv, DiskInv
<1>2. \A g \in linked' : g \in m.inputs \/ \A f \in m.inputs : f < g
  BY <1>1 DEF OldestOK
<1>3. linked' \cap m.inputs \subseteq linked \cap m.inputs
  <2>1. next_file_id \notin m.inputs
    BY DEF IInv, DiskInv
  <2> QED
    BY <2>1
<1> QED
  BY <1>2, <1>3 DEF OldestOK

\* No file of the directory is older than the inputs of the merge that runs.
LEMMA OldestStep ==
    ASSUME SerialUse, IInv, AloneInv, OldestInv, [MergeNext]_allVars
    PROVE  OldestInv'
<1>1. CASE Crashed
  BY <1>1, CrashIdles DEF OldestInv
<1>2. CASE ~Crashed
  <2> SUFFICES ASSUME NEW t \in Threads, pc'[t] \in MergePCs
               PROVE  OldestOK(merging'[t], pc'[t], linked')
    BY DEF OldestInv
  <2> DEFINE o == merging[t]
             m == merging'[t]
  <2> SUFFICES OldestOK(m, pc'[t], linked')
    OBVIOUS
  <2>1. CASE ~MergeStep(t)
    <3>1. m = o /\ pc'[t] = pc[t]
      BY <1>2, <2>1, OthersKeep
    <3>2. OldestOK(o, pc[t], linked) /\ o.inputs \subseteq DOMAIN files
      BY <3>1, MergeKnown DEF OldestInv, InputsOK
    <3>3. linked' \subseteq linked \cup {next_file_id}
      BY <1>2, LinkedMoves
    <3> QED
      BY <3>1, <3>2, <3>3, OldestStays
  <2>2. CASE MergeStart(t)
    <3>1. /\ pc'[t] = "open" /\ linked' = linked
          /\ m.inputs = InputIds /\ m.queue = <<>>
      BY <2>2, StartMoves
    <3>2. linked \subseteq Nat /\ active_id \in Nat
      BY DEF IInv, DiskInv, FilesOK
    <3>3. \A g \in linked : g \in InputIds \/ \A f \in InputIds : f < g
      BY <3>2 DEF InputIds
    <3> HIDE DEF m
    <3> QED
      BY <3>1, <3>3 DEF OldestOK, CopyPCs, RepointPCs
  <2>3. CASE MergeStep(t) /\ ~MergeStart(t)
    <3>1. pc[t] \in MergePCs
      BY <2>3 DEF MergeStep, MergeOpen, MergeRead, MergeEntry, MergeRepoint, MergeFinish,
         MergeRemove, MergeForget, MergeRestore, MergeFails, MergePCs
    <3>2. /\ o \in MergeRec /\ InputsOK(o, pc[t], files, active_id)
          /\ OutputOK(o, pc[t], files) /\ OldestOK(o, pc[t], linked)
          /\ o.inputs \subseteq DOMAIN files
      BY <3>1, MergeKnown DEF OldestInv, InputsOK
    <3>3. linked' \subseteq linked \cup {next_file_id}
      BY <1>2, LinkedMoves
    <3>4. OldestOK(o, pc[t], linked')
      <4> HIDE DEF o
      <4> QED
        BY <3>2, <3>3, OldestStays
    <3>5. \A f \in o.inputs : f < next_file_id
      BY <3>2 DEF IInv, DiskInv
    <3>6. CASE MergeOpen(t)
      <4>1. /\ pc'[t] = "copy" /\ m.inputs = o.inputs /\ m.queue = o.queue
            /\ m.out = next_file_id
        BY <3>6, OpenMoves
      <4> HIDE DEF m, o
      <4> QED
        BY <3>4, <3>5, <4>1 DEF OldestOK
    <3>7. CASE MergeRead(t)
      <4>1. pc'[t] # "idle"
        BY DEF MergePCs
      <4>2. /\ pc[t] = "copy" /\ pc'[t] = "copy" /\ m.inputs = o.inputs
            /\ m.queue = o.queue /\ m.out = o.out
        BY <3>7, <4>1, ReadMoves
      <4> HIDE DEF m, o
      <4> QED
        BY <3>4, <4>2 DEF OldestOK
    <3>8. CASE MergeEntry(t)
      <4>1. /\ pc[t] = "copy" /\ pc'[t] \in {"copy", "repoint"} /\ o.at <= o.upto
            /\ m.inputs = o.inputs /\ m.out \in {o.out, next_file_id}
            /\ m.queue = o.queue \/ m.queue = Append(o.queue, CopyOf(o))
        BY <3>8, EntryMoves
      <4>2. /\ o.file \in o.inputs /\ o.queue \in Seq(Repoint)
            /\ CopyOf(o).old.file_id = o.file /\ CopyOf(o).new.file_id = o.out
        BY <3>2, <4>1 DEF OutputOK, MergeRec, CopyOf, OldPlace, CopyPlace
      <4>3. \A f \in o.inputs : f < o.out
        BY <3>4, <4>1 DEF OldestOK, CopyPCs
      <4>4. \A i \in DOMAIN m.queue : m.queue[i].old.file_id < m.queue[i].new.file_id
        <5>1. CASE m.queue = o.queue
          BY <3>4, <5>1 DEF OldestOK
        <5>2. CASE m.queue = Append(o.queue, CopyOf(o))
          <6> DEFINE c == CopyOf(o)
                     q == o.queue
          <6>1. c.old.file_id < c.new.file_id /\ q \in Seq(Repoint)
            BY <4>2, <4>3
          <6>2. \A i \in DOMAIN q : q[i].old.file_id < q[i].new.file_id
            BY <3>4 DEF OldestOK
          <6>3. m.queue = Append(q, c)
            BY <5>2
          <6> HIDE DEF c, q, m
          <6>4. DOMAIN Append(q, c) = 1..Len(q) + 1 /\ DOMAIN q = 1..Len(q) /\ Len(q) \in Nat
            BY <6>1
          <6> TAKE i \in DOMAIN m.queue
          <6>5. Append(q, c)[i] = IF i = Len(q) + 1 THEN c ELSE q[i]
            BY <6>1, <6>3, <6>4
          <6>6. i = Len(q) + 1 \/ i \in DOMAIN q
            BY <6>3, <6>4
          <6> QED
            BY <6>1, <6>2, <6>3, <6>5, <6>6
        <5> QED
          BY <4>1, <5>1, <5>2
      <4> HIDE DEF m, o
      <4> QED
        BY <3>4, <3>5, <4>1, <4>3, <4>4 DEF OldestOK
    <3>9. CASE MergeRepoint(t)
      <4>1. /\ pc[t] \in RepointPCs /\ m.inputs = o.inputs /\ m.rest = o.rest /\ m.out = o.out
            /\ \/ o.queue # <<>> /\ m.queue = Tail(o.queue) /\ pc'[t] = pc[t]
               \/ /\ o.queue = <<>> /\ m.queue = <<>>
                  /\ pc'[t] = IF pc[t] = "repoint" THEN "copy" ELSE "remove"
        BY <3>9, RepointMoves
      <4>2. \A i \in DOMAIN m.queue : m.queue[i].old.file_id < m.queue[i].new.file_id
        <5>1. CASE m.queue = <<>>
          BY <5>1
        <5>2. CASE o.queue # <<>> /\ m.queue = Tail(o.queue)
          <6> DEFINE q == o.queue
          <6>1. q \in Seq(Repoint) /\ q # <<>> /\ m.queue = Tail(q)
            BY <3>2, <5>2 DEF MergeRec
          <6>2. \A i \in DOMAIN q : q[i].old.file_id < q[i].new.file_id
            BY <3>4 DEF OldestOK
          <6> HIDE DEF q, m
          <6> TAKE i \in DOMAIN m.queue
          <6>3. i + 1 \in DOMAIN q /\ Tail(q)[i] = q[i + 1]
            BY <6>1
          <6> QED
            BY <6>1, <6>2, <6>3
        <5> QED
          BY <4>1, <5>1, <5>2
      <4> HIDE DEF m, o
      <4> QED
        BY <3>4, <4>1, <4>2 DEF OldestOK, CopyPCs, RepointPCs
    <3>10. CASE MergeFinish(t)
      <4>1. /\ pc[t] = "copy" /\ pc'[t] = "repoint_last" /\ m.inputs = o.inputs
            /\ m.rest = o.inputs /\ m.queue = o.queue /\ m.out = o.out
        BY <3>10, FinishMoves
      <4> HIDE DEF m, o
      <4> QED
        BY <3>4, <4>1 DEF OldestOK, CopyPCs
    <3>11. CASE MergeRemove(t)
      <4>1. pc[t] = "remove" /\ pc'[t] = "forget" /\ m = o
        BY <3>11, RemoveMoves
      <4>2. linked' = linked \ {Min(o.rest)}
        BY <3>11 DEF MergeRemove, Fault, SerialUse, NextToRemove
      <4> HIDE DEF m, o
      <4> QED
        BY <3>4, <4>1, <4>2 DEF OldestOK, CopyPCs, RepointPCs
    <3>12. CASE MergeForget(t)
      <4>1. /\ pc[t] = "forget" /\ pc'[t] \in {"restore", "remove"} /\ linked' = linked
            /\ m.inputs = o.inputs /\ m.queue = o.queue
        BY <3>12, ForgetMoves
      <4>2. m.rest = o.rest \ {Min(o.rest)}
        <5>1. m = [o EXCEPT !.rest = @ \ {Min(o.rest)}]
          BY <3>12 DEF MergeForget, SetMerge, NextToRemove, IInv, MergesInv
        <5> HIDE DEF m, o
        <5> QED
          BY <3>2, <5>1 DEF MergeRec
      <4> HIDE DEF m, o
      <4> QED
        BY <3>4, <4>1, <4>2 DEF OldestOK, CopyPCs, RepointPCs
    <3>13. CASE MergeRestore(t) \/ MergeFails(t)
      BY <3>13, EndMoves DEF MergePCs
    <3> QED
      BY <2>3, <3>6, <3>7, <3>8, <3>9, <3>10, <3>11, <3>12, <3>13 DEF MergeStep
  <2> QED
    BY <2>1, <2>2, <2>3
<1> QED
  BY <1>1, <1>2
-----------------------------------------------------------------------------
(* Steps that add no entry.                                                  *)

\* The disk grows by no entry, and at most by a file.
Calm == Advances /\ NoNewEntries

\* The same writes are in flight.
SameWrites ==
    /\ keydir' = keydir
    /\ \A t \in Threads : pc'[t] \in WritePCs => pc[t] \in WritePCs
    /\ \A t \in Threads : pc[t] \in WritePCs => pc'[t] \in WritePCs /\ arg'[t] = arg[t]

\* Nothing happens to the disk.
LEMMA IdleCalm ==
    ASSUME DiskInv, UNCHANGED diskVars
    PROVE  Calm
<1>1. Advances
  BY DiskStays
<1>2. linked' = linked /\ files' = files
  BY DEF diskVars
<1> QED
  BY <1>1, <1>2 DEF Calm, NoNewEntries

\* A file is fsynced or flushed.
LEMMA SyncCalm ==
    ASSUME DiskInv, NEW f \in DOMAIN files, files' \in {WithSync(files, f), FlushOutput(files, f)},
           UNCHANGED <<history, linked, active_id, next_file_id>>
    PROVE  Calm
<1>1. FilesOK(files, Len(history)) /\ Len(history) \in Nat /\ linked \subseteq DOMAIN files
  BY DEF DiskInv
<1>2. /\ FilesOK(files', Len(history)) /\ Grows(files, files') /\ DOMAIN files' = DOMAIN files
      /\ \A g \in DOMAIN files : files'[g].entries = files[g].entries
  <2>1. CASE files' = WithSync(files, f)
    BY <1>1, <2>1, WithSyncOK
  <2>2. CASE files' = FlushOutput(files, f)
    BY <1>1, <2>2, FlushOutputOK
  <2> QED
    BY <2>1, <2>2
<1>3. HistoryGrows /\ history' \in Seq(Write) /\ next_file_id' \in Nat
      /\ next_file_id <= next_file_id' /\ Len(history') = Len(history)
  BY <1>1 DEF HistoryGrows, DiskInv
<1>4. Advances
  BY <1>2, <1>3, FilesAdvance
<1>5. NoNewEntries
  BY <1>1, <1>2 DEF NoNewEntries
<1> QED
  BY <1>4, <1>5 DEF Calm

\* A file appears.
LEMMA FileCalm ==
    ASSUME DiskInv, Advances, NEW fs, DOMAIN fs = DOMAIN files,
           \A g \in DOMAIN files : fs[g].entries = files[g].entries,
           files' = WithFile(fs, next_file_id), linked' = linked \cup {next_file_id}
    PROVE  Calm
<1>1. linked \subseteq DOMAIN files /\ next_file_id \notin DOMAIN files
  BY DEF DiskInv
<1>2. files'[next_file_id].entries = <<>>
  BY <1>1 DEF WithFile, EmptyFile
<1>3. \A g \in linked : files'[g].entries = files[g].entries
  BY <1>1, WithFileKeeps
<1> QED
  BY <1>2, <1>3 DEF Calm, NoNewEntries

\* The first output of a merge.
LEMMA OpenCalm ==
    ASSUME IInv, NEW t \in Threads, MergeOpen(t)
    PROVE  Calm
<1> DEFINE n == Len(history)
<1>1. DiskInv /\ FilesOK(files, n) /\ n \in Nat /\ Fresh(next_file_id, files)
  BY DEF IInv, DiskInv, Fresh
<1>2. /\ files' = WithFile(files, next_file_id) /\ linked' = linked \cup {next_file_id}
      /\ UNCHANGED <<history, active_id>> /\ next_file_id' = next_file_id + 1
  BY DEF MergeOpen
<1>3. /\ FilesOK(files', n) /\ Grows(files, files')
      /\ DOMAIN files' = DOMAIN files \cup {next_file_id}
  BY <1>1, <1>2, WithFileOK
<1>4. HistoryGrows /\ history' \in Seq(Write) /\ Len(history') = n
  BY <1>1, <1>2 DEF HistoryGrows, DiskInv
<1>5. Advances
  BY <1>1, <1>2, <1>3, <1>4, FileAppears
<1> QED
  BY <1>1, <1>2, <1>5, FileCalm

\* The active file catches up with the outputs, or need not.
LEMMA RestoreCalm ==
    ASSUME IInv, NEW t \in Threads, MergeRestore(t)
    PROVE  Calm
<1>1. DiskInv /\ history' = history
  BY DEF IInv, MergeRestore
<1>2. CASE RotateActive(files)
  <2> DEFINE fs == WithSync(files, active_id)
  <2>1. FilesOK(files, Len(history)) /\ Len(history) \in Nat /\ active_id \in DOMAIN files
    BY <1>1 DEF DiskInv
  <2>2. DOMAIN fs = DOMAIN files /\ \A g \in DOMAIN files : fs[g].entries = files[g].entries
    BY <2>1, WithSyncOK
  <2>3. files' = WithFile(fs, next_file_id) /\ linked' = linked \cup {next_file_id}
    BY <1>2 DEF RotateActive
  <2>4. Advances
    BY <1>1, <1>2, RotateActiveAdvances
  <2> HIDE DEF fs
  <2> QED
    BY <1>1, <2>2, <2>3, <2>4, FileCalm
<1>3. CASE UNCHANGED <<files, linked, active_id, next_file_id>>
  BY <1>1, <1>3, IdleCalm DEF diskVars
<1> QED
  BY <1>2, <1>3 DEF MergeRestore

\* The fsync of a write.
LEMMA SyncWriteCalm ==
    ASSUME SerialUse, IInv, NEW t \in Threads, SyncWrite(t)
    PROVE  Calm
<1>1. pc[t] \in WritePCs /\ linked' = linked /\ DiskInv
  BY DEF SyncWrite, WritePCs, IInv
<1>2. OnOS(files, arg[t].loc)
  BY <1>1 DEF IInv, ArgInv, WriteOK
<1>3. Advances
  BY <1>1, <1>2, SyncWriteAdvances
<1>4. ~Fault("write")
  BY DEF SerialUse, Fault
<1>5. \E f, s : files' = [files EXCEPT ![f].synced = s]
  BY <1>4 DEF SyncWrite
<1>6. \A g \in linked : files'[g].entries = files[g].entries
  <2>1. \A g \in linked : files[g] \in FileOf(Len(history))
    BY <1>1 DEF DiskInv, FilesOK
  <2> QED
    BY <1>1, <1>5, <2>1 DEF FileOf, DiskInv
<1> QED
  BY <1>1, <1>3, <1>6 DEF Calm, NoNewEntries
\* What is said was said before.
LEMMA SaysStays ==
    ASSUME IInv, HistoryGrows, SameWrites, NEW k, NEW loc, Says(k, loc)'
    PROVE  Says(k, loc)
<1>1. ASSUME NEW t \in Threads, pc[t] \in WritePCs
      PROVE  arg'[t] = arg[t] /\ KeydirEntry(arg[t])' = KeydirEntry(arg[t])
  <2>1. arg[t].ver \in 1..Len(history) /\ arg'[t] = arg[t]
    BY <1>1 DEF IInv, ArgInv, WriteOK, SameWrites
  <2> QED
    BY <2>1 DEF KeydirEntry, HistoryGrows
<1>2. CASE loc = keydir'[k] /\ \A t \in Threads : pc'[t] \in WritePCs => arg'[t].key # k
  <2>1. \A t \in Threads : pc[t] \in WritePCs => arg[t].key # k
    BY <1>1, <1>2 DEF SameWrites
  <2> QED
    BY <1>2, <2>1 DEF Says, SameWrites
<1>3. CASE \E t \in Threads : /\ pc'[t] \in WritePCs /\ arg'[t].key = k
                              /\ loc = KeydirEntry(arg[t])'
  <2> PICK t \in Threads : pc'[t] \in WritePCs /\ arg'[t].key = k /\ loc = KeydirEntry(arg[t])'
    BY <1>3
  <2>1. pc[t] \in WritePCs
    BY DEF SameWrites
  <2>2. arg'[t] = arg[t] /\ loc = KeydirEntry(arg[t])
    BY <1>1, <2>1
  <2> QED
    BY <2>1, <2>2 DEF Says
<1> QED
  BY <1>2, <1>3 DEF Says

\* What is said is a value of the key, in a file and safe from a kill.
LEMMA SaysKnown ==
    ASSUME IInv, NEW k \in Keys, NEW loc, Says(k, loc)
    PROVE  loc # None => /\ OnOS(files, loc)
                         /\ history[EntryIn(files, loc)] = [key |-> k, tomb |-> FALSE]
<1>1. CASE loc = keydir[k]
  BY <1>1 DEF IInv, KeydirInv
<1>2. CASE \E t \in Threads : /\ pc[t] \in WritePCs /\ arg[t].key = k
                              /\ loc = KeydirEntry(arg[t])
  <2> PICK t \in Threads : pc[t] \in WritePCs /\ arg[t].key = k /\ loc = KeydirEntry(arg[t])
    BY <1>2
  <2> DEFINE w == arg[t]
  <2>1. WriteOK(files, history, w) /\ history \in Seq(Write)
    BY DEF IInv, ArgInv, DiskInv
  <2> HIDE DEF w
  <2>2. history[w.ver] \in Write /\ history[w.ver].key = w.key
    BY <2>1 DEF WriteOK
  <2>3. loc # None => loc = w.loc /\ ~history[w.ver].tomb
    BY DEF KeydirEntry, w
  <2>4. w.key = k
    BY DEF w
  <2> QED
    BY <2>1, <2>2, <2>3, <2>4 DEF WriteOK, Write
<1> QED
  BY <1>1, <1>2 DEF Says

\* Its file is in the directory.
LEMMA SaysHeld ==
    ASSUME IInv, RiskInv, BusyInv, NEW k \in Keys, NEW loc, Says(k, loc)
    PROVE  Held(k, loc)
<1>1. loc # None => /\ OnOS(files, loc)
                    /\ history[EntryIn(files, loc)] = [key |-> k, tomb |-> FALSE]
  BY SaysKnown
<1>2. at_risk = {}
  BY DEF BusyInv
<1>3. loc # None => loc.file_id \in linked
  <2>1. CASE loc = keydir[k]
    BY <1>2, <2>1 DEF RiskInv, DanglingWasInFlight
  <2>2. CASE \E t \in Threads : pc[t] \in WritePCs /\ loc = KeydirEntry(arg[t])
    BY <1>2, <2>2 DEF RiskInv, WriteAtRisk, KeydirEntry
  <2> QED
    BY <2>1, <2>2 DEF Says
<1> QED
  BY <1>1, <1>3 DEF Held

\* Without new entries the directory goes on showing what is said.
LEMMA CalmNewest ==
    ASSUME IInv, Calm, SameWrites, NewestInv
    PROVE  NewestInv'
<1> SUFFICES ASSUME NEW k \in Keys, NEW loc \in Location \cup {None}, Says(k, loc)'
             PROVE  Shows(files', linked', history', k, loc)
  BY DEF NewestInv
<1>1. Advances /\ NoNewEntries /\ HistoryGrows /\ DiskInv /\ linked \subseteq linked'
  BY DEF Calm, Advances, IInv, NoNewEntries
<1>2. Says(k, loc)
  BY <1>1, SaysStays
<1>3. Shows(files, linked, history, k, loc)
  BY <1>2 DEF NewestInv
<1>4. loc = None \/ InFile(files, loc)
  BY <1>2, SaysKnown DEF OnOS
<1>5. \A p \in Location : IsPlace(files', linked', history', k, p)
                             => IsPlace(files, linked, history, k, p)
  BY <1>1, NoNewPlaces
<1> QED
  BY <1>1, <1>3, <1>4, <1>5, ShowsStays

\* A step of a merge moves no write.
LEMMA MergeKeepsWrites ==
    ASSUME IInv, NEW t \in Threads, MergeStep(t), keydir' = keydir
    PROVE  SameWrites
<1>1. pc \in [Threads -> PCs]
  BY DEF IInv, ArgInv
<1>2. arg' = arg /\ pc[t] \notin WritePCs
  BY DEF MergeStep, MergeStart, MayStart, MergeOpen, MergeRead, MergeEntry, MergeRepoint,
     MergeFinish, MergeRemove, MergeForget, MergeRestore, MergeFails, MergePCs, WritePCs
<1>3. \E l \in MergePCs \cup {"idle"} : pc' = [pc EXCEPT ![t] = l] \/ pc' = pc
  BY DEF MergeStep, MergeStart, MergeOpen, MergeRead, MergeEntry, MergeRepoint, MergeFinish,
     MergeRemove, MergeForget, MergeRestore, MergeFails, Goto, EndMerge, MergePCs
<1> QED
  BY <1>1, <1>2, <1>3 DEF SameWrites, MergePCs, WritePCs
\* The steps that may change what is said or where it can be found.
Loud ==
    \/ \E t \in Threads, k \in Keys, tomb \in BOOLEAN :
          AppendEntry(t, k, tomb) /\ pc[t] \notin WritePCs \cup MergePCs
    \/ \E t \in Threads : \/ UpdateKeydir(t)
                          \/ MergeEntry(t) /\ IsLive(merging[t])
                          \/ MergeRepoint(t)
                          \/ MergeRemove(t)

\* All the others are calm.
LEMMA CalmCalls ==
    ASSUME IInv, NEW t \in Threads,
           \/ Sync(t) \/ \E k \in Keys : DeleteCheck(t, k)
           \/ \E K : TakeEntries(t, K) \/ ReadValue(t, K)
    PROVE  Calm /\ SameWrites
<1>1. pc \in [Threads -> PCs] /\ arg \in [Threads -> Arg] /\ DiskInv
  BY DEF IInv, ArgInv
<1>2. CASE Sync(t)
  <2>1. files' = WithSync(files, active_id) /\ active_id \in DOMAIN files
        /\ UNCHANGED <<history, linked, active_id, next_file_id, memVars>>
    BY <1>1, <1>2 DEF Sync, DiskInv
  <2>2. Calm
    BY <1>1, <2>1, SyncCalm
  <2> QED
    BY <2>1, <2>2 DEF SameWrites, memVars
<1>3. CASE \E k \in Keys : DeleteCheck(t, k)
  <2> PICK k \in Keys : DeleteCheck(t, k)
    BY <1>3
  <2>1. UNCHANGED <<diskVars, keydir>> /\ pc[t] = "idle" /\ pc' = [pc EXCEPT ![t] = "delete"]
        /\ arg' = [arg EXCEPT ![t].key = k]
    BY DEF DeleteCheck, MayStart
  <2>2. Calm
    BY <1>1, <2>1, IdleCalm
  <2> QED
    BY <1>1, <2>1, <2>2 DEF SameWrites, WritePCs
<1>4. CASE \E K : TakeEntries(t, K) \/ ReadValue(t, K)
  <2>1. /\ UNCHANGED <<diskVars, keydir, arg>> /\ pc[t] \notin WritePCs
        /\ \E l \in Quiet : pc' = [pc EXCEPT ![t] = l]
    BY <1>4 DEF TakeEntries, ReadValue, MayStart, Quiet, WritePCs
  <2>2. Calm
    BY <1>1, <2>1, IdleCalm
  <2> QED
    BY <1>1, <2>1, <2>2 DEF SameWrites, WritePCs, Quiet
<1> QED
  BY <1>2, <1>3, <1>4

\* Those of a merge.
LEMMA CalmMerge ==
    ASSUME SerialUse, IInv, NEW t \in Threads, MergeStep(t)
    PROVE  Loud \/ (Calm /\ SameWrites)
<1>1. DiskInv
  BY DEF IInv
<1>2. ~MergeFails(t)
  BY DEF MergeFails, Fault, SerialUse
<1>3. CASE MergeStart(t) \/ MergeForget(t)
  <2>1. UNCHANGED <<diskVars, keydir>>
    BY <1>3 DEF MergeStart, MergeForget
  <2> QED
    BY <1>1, <2>1, IdleCalm, MergeKeepsWrites
<1>4. CASE MergeRead(t)
  <2>1. /\ files' \in {files, FlushOutput(files, merging[t].out)} /\ keydir' = keydir
        /\ pc[t] = "copy" /\ UNCHANGED <<history, linked, active_id, next_file_id>>
    BY <1>4 DEF MergeRead
  <2>2. merging[t].out \in DOMAIN files
    BY <2>1, MergeKnown DEF OutputOK, CopyPCs, MergePCs
  <2>3. Calm
    <3>1. CASE files' = files
      BY <1>1, <2>1, <3>1, IdleCalm DEF diskVars
    <3>2. CASE files' = FlushOutput(files, merging[t].out)
      BY <1>1, <2>1, <2>2, <3>2, SyncCalm
    <3> QED
      BY <2>1, <3>1, <3>2
  <2> QED
    BY <1>4, <2>1, <2>3, MergeKeepsWrites
<1>5. CASE MergeOpen(t)
  <2>1. keydir' = keydir
    BY <1>5 DEF MergeOpen
  <2> QED
    BY <1>5, <2>1, OpenCalm, MergeKeepsWrites
<1>6. CASE MergeEntry(t) /\ ~IsLive(merging[t])
  <2>1. UNCHANGED <<diskVars, keydir>>
    BY <1>6 DEF MergeEntry, diskVars
  <2> QED
    BY <1>1, <2>1, IdleCalm, MergeKeepsWrites
<1>7. CASE MergeFinish(t)
  <2>1. /\ files' = WithSync(files, merging[t].out) /\ keydir' = keydir /\ pc[t] = "copy"
        /\ UNCHANGED <<history, linked, active_id, next_file_id>>
    BY <1>7 DEF MergeFinish
  <2>2. merging[t].out \in DOMAIN files
    BY <2>1, MergeKnown DEF OutputOK, CopyPCs, MergePCs
  <2> QED
    BY <1>1, <2>1, <2>2, SyncCalm, MergeKeepsWrites
<1>8. CASE MergeRestore(t)
  <2>1. keydir' = keydir
    BY <1>8 DEF MergeRestore
  <2> QED
    BY <1>8, <2>1, RestoreCalm, MergeKeepsWrites
<1>9. CASE (MergeEntry(t) /\ IsLive(merging[t])) \/ MergeRepoint(t) \/ MergeRemove(t)
  BY <1>9 DEF Loud
<1> QED
  BY <1>2, <1>3, <1>4, <1>5, <1>6, <1>7, <1>8, <1>9 DEF MergeStep

\* All of them.
LEMMA LoudOrCalm ==
    ASSUME SerialUse, IInv, [MergeNext]_allVars, ~Crashed
    PROVE  Loud \/ (Calm /\ SameWrites)
<1>1. ASSUME NEW t \in Threads, NEW k \in Keys, Put(t, k) PROVE Loud
  BY <1>1 DEF Put, MayStart, Loud, WritePCs, MergePCs
<1>2. ASSUME NEW t \in Threads, DeleteAppend(t) PROVE Loud
  <2>1. arg[t].key \in Keys /\ AppendEntry(t, arg[t].key, TRUE) /\ pc[t] = "delete"
    BY <1>2 DEF DeleteAppend, IInv, ArgInv
  <2> QED
    BY <2>1 DEF Loud, WritePCs, MergePCs
<1>3. ASSUME NEW t \in Threads, SyncWrite(t) PROVE Calm /\ SameWrites
  <2>1. ~Fault("write")
    BY DEF SerialUse, Fault
  <2>2. /\ pc[t] \in WritePCs /\ pc' = [pc EXCEPT ![t] = "update"] /\ UNCHANGED <<arg, keydir>>
        /\ pc \in [Threads -> PCs]
    BY <1>3, <2>1 DEF SyncWrite, WritePCs, IInv, ArgInv
  <2>3. SameWrites
    BY <2>2 DEF SameWrites, WritePCs
  <2> QED
    BY <1>3, <2>3, SyncWriteCalm
<1>4. ASSUME UNCHANGED allVars PROVE Calm /\ SameWrites
  BY <1>4, IdleCalm DEF allVars, vars, memVars, SameWrites, IInv
<1>5. ASSUME NEW t \in Threads, UpdateKeydir(t) PROVE Loud
  BY <1>5 DEF Loud
<1> QED
  BY <1>1, <1>2, <1>3, <1>4, <1>5, CalmCalls, CalmMerge DEF MergeNext, Crashed
-----------------------------------------------------------------------------
(* Steps that move a write.                                                  *)

\* An append adds one entry to the active file.
LEMMA AppendAddsOne ==
    ASSUME SerialUse, IInv, NEW t \in Threads, NEW k \in Keys, NEW tomb \in BOOLEAN,
           AppendEntry(t, k, tomb)
    PROVE  /\ OneEntryMore(active_id, NewWrite)
           /\ pc' = [pc EXCEPT ![t] = IF SyncOnPut THEN "sync" ELSE "update"]
           /\ arg' = [arg EXCEPT ![t] = [key |-> k, ver |-> NewWrite, loc |-> NewPlace]]
           /\ keydir' = keydir
<1> DEFINE a == active_id
           fs == WithEntry(files, a, NewWrite)
           gs == WithSync(fs, a)
<1>1. ~Fault("write")
  BY DEF SerialUse, Fault
<1>2. /\ \/ files' = fs /\ linked' = linked
         \/ files' = WithFile(gs, next_file_id) /\ linked' = linked \cup {next_file_id}
      /\ pc' = [pc EXCEPT ![t] = IF SyncOnPut THEN "sync" ELSE "update"]
      /\ arg' = [arg EXCEPT ![t] =
                    [key |-> k, ver |-> NewWrite,
                     loc |-> [file_id |-> a, value_pos |-> Len(fs[a].entries)]]]
      /\ keydir' = keydir
  BY <1>1 DEF AppendEntry, RotationFails, RotateActive, NewWrite
<1>3. /\ a \in linked /\ linked \subseteq DOMAIN files /\ next_file_id \notin DOMAIN files
      /\ (\E S : files[a].entries \in Seq(S))
      /\ NewWrite \in Nat
  BY DEF IInv, DiskInv, FilesOK, FileOf, NewWrite
<1>4. /\ DOMAIN fs = DOMAIN files /\ fs[a].entries = Append(files[a].entries, NewWrite)
      /\ \A g \in linked \ {a} : fs[g].entries = files[g].entries
  BY <1>3 DEF WithEntry
<1>5. DOMAIN gs = DOMAIN files /\ \A g \in linked : gs[g].entries = fs[g].entries
  <2> HIDE DEF fs
  <2> QED
    BY <1>3, <1>4 DEF WithSync
<1>6. Len(fs[a].entries) = Len(files[a].entries) + 1
  <2> PICK S : files[a].entries \in Seq(S)
    BY <1>3
  <2> DEFINE e == files[a].entries
  <2>1. e \in Seq(S) /\ fs[a].entries = Append(e, NewWrite)
    BY <1>4
  <2> HIDE DEF e, fs
  <2>2. e \in Seq(S \cup {NewWrite})
    BY <2>1
  <2>3. Len(Append(e, NewWrite)) = Len(e) + 1
    BY <2>2
  <2> QED
    BY <2>1, <2>3 DEF e
<1>7. OneEntryMore(a, NewWrite)
  <2> HIDE DEF fs, gs
  <2>1. CASE files' = fs /\ linked' = linked
    BY <1>3, <1>4, <2>1 DEF OneEntryMore
  <2>2. CASE files' = WithFile(gs, next_file_id) /\ linked' = linked \cup {next_file_id}
    <3>1. files'[next_file_id].entries = <<>>
      BY <1>3, <1>5, <2>2 DEF WithFile, EmptyFile
    <3>2. \A g \in linked : files'[g].entries = fs[g].entries
      BY <1>3, <1>5, <2>2, WithFileKeeps
    <3> QED
      BY <1>3, <1>4, <2>2, <3>1, <3>2 DEF OneEntryMore
  <2> QED
    BY <1>2, <2>1, <2>2
<1> QED
  BY <1>2, <1>6, <1>7 DEF NewPlace

\* The place of an append is above all others.
LEMMA AppendIsTop ==
    ASSUME DiskInv, Advances, OneEntryMore(active_id, NewWrite),
           \A f \in linked : f <= active_id,
           NEW k, NEW p \in Location, IsPlace(files', linked', history', k, p)
    PROVE  UpTo(p, NewPlace)
<1> DEFINE a == active_id
           g == p.file_id
           i == p.value_pos
           n == Len(files[a].entries)
<1>1. g \in linked' /\ i \in Nat \ {0} /\ i <= Len(files'[g].entries)
  BY DEF IsPlace, InFile, Location
<1>2. a \in linked /\ n \in Nat /\ files[a].entries \in Seq(1..Len(history))
      /\ files'[a].entries = Append(files[a].entries, NewWrite)
  BY DEF OneEntryMore, DiskInv, FilesOK, FileOf
<1>3. Len(files'[a].entries) = n + 1
  BY <1>2
<1>4. g \in linked
  BY <1>1, <1>2 DEF OneEntryMore
<1>5. g \in Nat /\ a \in Nat /\ g <= a
  BY <1>2, <1>4 DEF DiskInv, FilesOK
<1>6. NewPlace.file_id = a /\ NewPlace.value_pos = n + 1
  BY DEF NewPlace
<1> HIDE DEF a, g, i, n
<1>7. UpTo([file_id |-> g, value_pos |-> i], NewPlace)
  BY <1>1, <1>2, <1>3, <1>5, <1>6 DEF UpTo
<1> QED
  BY <1>7 DEF UpTo, g, i
\* No merge is under way when a write is appended: the active file is the newest.
LEMMA AppendsToNewest ==
    ASSUME IInv, OrderInv, BusyInv, BusyInv', NEW t \in Threads, pc[t] \notin WritePCs \cup MergePCs,
           NEW l \in WritePCs, pc' = [pc EXCEPT ![t] = l]
    PROVE  /\ \A f \in linked : f <= active_id
           /\ \A u \in Threads : pc[u] \notin WritePCs
<1>1. pc \in [Threads -> PCs] /\ faults = 0
  BY DEF IInv, ArgInv, BusyInv
<1>2. \A u \in Threads \ {t} : pc[u] \in Quiet
  BY <1>1 DEF BusyInv, Quiet, WritePCs
<1>3. \A u \in Threads : pc[u] \notin WritePCs \cup MergePCs
  BY <1>2 DEF Quiet, WritePCs, MergePCs
<1> QED
  BY <1>1, <1>3 DEF OrderInv

\* A write is shown as soon as it is appended.
LEMMA AppendNewest ==
    ASSUME SerialUse, StoreAssumption, IInv, OrderInv, BusyInv, BusyInv', NewestInv,
           NEW t \in Threads, NEW k \in Keys, NEW tomb \in BOOLEAN,
           AppendEntry(t, k, tomb), pc[t] \notin WritePCs \cup MergePCs
    PROVE  NewestInv'
<1>1. /\ Advances /\ history'[NewWrite] = [key |-> k, tomb |-> tomb]
      /\ OnOS(files', NewPlace) /\ EntryIn(files', NewPlace) = NewWrite /\ DiskInv
  BY AppendAdvances DEF IInv
<1>2. /\ OneEntryMore(active_id, NewWrite) /\ keydir' = keydir
      /\ pc' = [pc EXCEPT ![t] = IF SyncOnPut THEN "sync" ELSE "update"]
      /\ arg' = [arg EXCEPT ![t] = [key |-> k, ver |-> NewWrite, loc |-> NewPlace]]
  BY AppendAddsOne
<1>3. /\ \A f \in linked : f <= active_id
      /\ \A u \in Threads : pc[u] \notin WritePCs
  BY <1>2, AppendsToNewest DEF WritePCs
<1>4. linked \subseteq linked' /\ active_id \in linked'
  BY <1>2 DEF OneEntryMore
<1>5. /\ pc'[t] \in WritePCs /\ arg'[t] = [key |-> k, ver |-> NewWrite, loc |-> NewPlace]
      /\ \A u \in Threads \ {t} : pc'[u] = pc[u]
  BY <1>2 DEF WritePCs, IInv, ArgInv
<1>6. NewPlace \in Location /\ NewPlace # None
  BY <1>1, NoneAssumption DEF OnOS, InFile
<1> SUFFICES ASSUME NEW j \in Keys, NEW loc \in Location \cup {None}, Says(j, loc)'
             PROVE  Shows(files', linked', history', j, loc)
  BY DEF NewestInv
<1>7. CASE j = k
  <2>1. loc = IF tomb THEN None ELSE NewPlace
    <3>1. \A u \in Threads : pc'[u] \in WritePCs => u = t
      BY <1>3, <1>5
    <3>2. loc = KeydirEntry(arg[t])'
      BY <1>5, <1>7, <3>1 DEF Says
    <3> QED
      BY <1>1, <1>5, <3>2 DEF KeydirEntry
  <2> SUFFICES ASSUME NEW p \in Location, IsPlace(files', linked', history', k, p)
               PROVE  \/ loc # None /\ (UpTo(loc, p) => EntryIn(files', p) = EntryIn(files', loc))
                      \/ /\ loc = None
                         /\ \E q \in Location : UpTo(p, q) /\ IsGrave(files', linked', history', k, q)
    BY <1>7 DEF Shows
  <2>2. UpTo(p, NewPlace)
    BY <1>1, <1>2, <1>3, AppendIsTop
  <2>3. CASE tomb
    <3>1. IsGrave(files', linked', history', k, NewPlace)
      BY <1>1, <1>4, <2>3 DEF IsGrave, IsPlace, OnOS, NewPlace
    <3> QED
      BY <1>6, <2>1, <2>2, <2>3, <3>1
  <2>4. CASE ~tomb
    BY <1>6, <2>1, <2>2, <2>4, UpToOrder
  <2> QED
    BY <2>3, <2>4
<1>8. CASE j # k
  <2>1. loc = keydir[j]
    BY <1>2, <1>3, <1>5, <1>8 DEF Says
  <2>2. Says(j, loc)
    BY <1>3, <2>1 DEF Says
  <2>3. Shows(files, linked, history, j, loc) /\ (loc = None \/ InFile(files, loc))
    BY <2>2, SaysKnown DEF NewestInv, OnOS
  <2>4. ASSUME NEW p \in Location, IsPlace(files', linked', history', j, p)
        PROVE  IsPlace(files, linked, history, j, p)
    <3>1. p # NewPlace
      BY <1>1, <1>8, <2>4 DEF IsPlace
    <3> QED
      BY <1>1, <1>2, <2>4, <3>1, OneNewPlace DEF NewPlace, NextPlace
  <2> QED
    BY <1>1, <1>4, <2>3, <2>4, ShowsStays
<1> QED
  BY <1>7, <1>8

\* The keydir takes over what was said of the write.
LEMMA UpdateNewest ==
    ASSUME IInv, BusyInv, NewestInv, NEW t \in Threads, UpdateKeydir(t)
    PROVE  NewestInv'
<1> DEFINE w == arg[t]
<1>1. /\ pc[t] \in WritePCs /\ pc' = [pc EXCEPT ![t] = "idle"] /\ UNCHANGED diskVars
      /\ keydir' = [keydir EXCEPT ![w.key] = KeydirEntry(w)]
  BY DEF UpdateKeydir, Return, WritePCs
<1>2. /\ pc \in [Threads -> PCs] /\ keydir \in [Keys -> Location \cup {None}]
      /\ \A u \in Threads \ {t} : pc[u] \in Quiet
  BY <1>1 DEF IInv, ArgInv, KeydirInv, Keydirs, BusyInv, WritePCs, Quiet
<1>3. \A u \in Threads : pc'[u] \notin WritePCs /\ (pc[u] \in WritePCs => u = t)
  BY <1>1, <1>2 DEF Quiet, WritePCs
<1> SUFFICES ASSUME NEW k \in Keys, NEW loc \in Location \cup {None}, Says(k, loc)'
             PROVE  Says(k, loc)
  BY <1>1 DEF NewestInv, diskVars
<1>4. loc = keydir'[k]
  BY <1>3 DEF Says
<1>5. CASE k = w.key
  BY <1>1, <1>2, <1>4, <1>5 DEF Says
<1>6. CASE k # w.key
  BY <1>1, <1>2, <1>3, <1>4, <1>6 DEF Says
<1> QED
  BY <1>5, <1>6
\* A merge that copies a live entry adds it to its output.
LEMMA EntryAddsOne ==
    ASSUME IInv, IInv', PlacesInv, NEW t \in Threads, MergeEntry(t), IsLive(merging[t])
    PROVE  /\ Advances
           /\ OneEntryMore(merging[t].out, EntryAt(merging[t]))
<1> DEFINE out == merging[t].out
           e == EntryAt(merging[t])
           n == Len(history)
           fs == WithBuffered(files, out, e)
<1>1. /\ pc[t] = "copy" /\ merging[t].at <= merging[t].upto
      /\ history' = history /\ active_id' = active_id
      /\ \/ files' = RotateOutput(fs, out) /\ linked' = linked \cup {next_file_id}
         \/ files' \in {fs, FlushOutput(fs, out)} /\ linked' = linked
  BY DEF MergeEntry
<1>2. /\ e \in 1..n /\ n \in Nat /\ FilesOK(files, n) /\ FilesOK(files', n)
      /\ linked \subseteq DOMAIN files /\ Fresh(next_file_id, files)
      /\ active_id <= active_id'
  BY <1>1, EntryAtOK DEF IInv, DiskInv, FilesOK, Fresh
<1>3. out \in linked
  BY <1>1 DEF PlacesInv, PlaceOK, CopyPCs, MergePCs
<1>4. /\ FilesOK(fs, n) /\ Grows(files, fs) /\ DOMAIN fs = DOMAIN files
      /\ fs[out].entries = Append(files[out].entries, e)
      /\ \A g \in linked \ {out} : fs[g] = files[g]
  <2>1. out \in DOMAIN files
    BY <1>2, <1>3
  <2> HIDE DEF out, e, n
  <2> QED
    BY <1>2, <2>1, WithBufferedOK
<1> HIDE DEF out, e, n, fs
<1>5. CASE files' = RotateOutput(fs, out) /\ linked' = linked \cup {next_file_id}
  <2> DEFINE gs == WithSync(fs, out)
  <2>1. out \in DOMAIN fs /\ Fresh(next_file_id, fs)
    BY <1>2, <1>3, <1>4 DEF Fresh
  <2>2. DOMAIN gs = DOMAIN fs /\ \A g \in DOMAIN fs : gs[g].entries = fs[g].entries
    BY <1>2, <1>4, <2>1, WithSyncOK
  <2>3. files' = WithFile(gs, next_file_id)
    BY <1>5 DEF RotateOutput
  <2>4. Grows(fs, files')
    BY <1>2, <1>4, <2>1, <2>3, RotationOK
  <2> HIDE DEF gs
  <2>5. Grows(files, files')
    BY <1>2, <1>4, <2>4, GrowsTransitive
  <2>6. \A g \in linked : files'[g].entries = fs[g].entries
    BY <1>2, <1>4, <2>2, <2>3, WithFileKeeps
  <2>7. files'[next_file_id].entries = <<>>
    BY <2>1, <2>2, <2>3 DEF WithFile, EmptyFile, Fresh
  <2>8. OneEntryMore(out, e)
    BY <1>3, <1>4, <1>5, <2>6, <2>7 DEF OneEntryMore
  <2> QED
    BY <1>1, <1>2, <2>5, <2>8 DEF Advances, HistoryGrows, IInv, out, e, n
<1>6. CASE files' \in {fs, FlushOutput(fs, out)} /\ linked' = linked
  <2>1. out \in DOMAIN fs
    BY <1>2, <1>3, <1>4
  <2>2. Grows(fs, files') /\ \A g \in linked : files'[g].entries = fs[g].entries
    <3>1. CASE files' = fs
      BY <1>4, <3>1, GrowsReflexive
    <3>2. CASE files' = FlushOutput(fs, out)
      BY <1>2, <1>4, <2>1, <3>2, FlushOutputOK
    <3> QED
      BY <1>6, <3>1, <3>2
  <2>3. Grows(files, files')
    BY <1>2, <1>4, <2>2, GrowsTransitive
  <2>4. OneEntryMore(out, e)
    BY <1>3, <1>4, <1>6, <2>2 DEF OneEntryMore
  <2> QED
    BY <1>1, <1>2, <2>3, <2>4 DEF Advances, HistoryGrows, IInv, out, e, n
<1> QED
  BY <1>1, <1>5, <1>6

\* While a merge runs the keydir says everything.
LEMMA KeydirSays ==
    ASSUME BusyInv, NEW t \in Threads, pc[t] \in MergePCs, NEW k
    PROVE  Says(k, keydir[k]) /\ \A u \in Threads : pc[u] \notin WritePCs
<1>1. \A u \in Threads : pc[u] \notin WritePCs
  BY DEF BusyInv, MergePCs, WritePCs
<1> QED
  BY <1>1 DEF Says

\* A copy is no new write.
LEMMA EntryNewest ==
    ASSUME IInv, IInv', PlacesInv, BusyInv, NewestInv,
           NEW t \in Threads, MergeEntry(t), IsLive(merging[t])
    PROVE  NewestInv'
<1> DEFINE out == merging[t].out
           e == EntryAt(merging[t])
<1>1. Advances /\ OneEntryMore(out, e) /\ linked \subseteq linked' /\ DiskInv /\ HistoryGrows
  BY EntryAddsOne DEF OneEntryMore, IInv, Advances
<1>2. pc[t] \in MergePCs /\ pc[t] = "copy" /\ merging[t].at <= merging[t].upto /\ keydir' = keydir
  BY DEF MergeEntry, MergePCs
<1>3. SameWrites
  BY <1>2, MergeKeepsWrites DEF MergeStep
<1>4. /\ e \in 1..Len(history) /\ InFile(files, OldPlace(merging[t]))
      /\ EntryIn(files, OldPlace(merging[t])) = e
      /\ keydir[history[e].key] = OldPlace(merging[t])
  BY <1>2, EntryAtOK DEF IsLive, OldPlace
<1>5. OldPlace(merging[t]) # None
  BY <1>4, NoneAssumption DEF InFile
<1> HIDE DEF out, e
<1> SUFFICES ASSUME NEW k \in Keys, NEW loc \in Location \cup {None}, Says(k, loc)'
             PROVE  Shows(files', linked', history', k, loc)
  BY DEF NewestInv
<1>6. Says(k, loc)
  BY <1>1, <1>3, SaysStays
<1>7. Shows(files, linked, history, k, loc) /\ (loc = None \/ InFile(files, loc))
  BY <1>6, SaysKnown DEF NewestInv, OnOS
<1>8. loc = keydir[k]
  BY <1>2, <1>6, KeydirSays DEF Says
<1>9. ASSUME NEW p \in Location, IsPlace(files', linked', history', k, p)
      PROVE  \/ IsPlace(files, linked, history, k, p)
             \/ loc # None /\ EntryIn(files', p) = EntryIn(files, loc)
  <2>1. CASE p # NextPlace(out)
    BY <1>1, <1>9, <2>1, OneNewPlace
  <2>2. CASE p = NextPlace(out)
    <3> DEFINE s == files[out].entries
    <3>1. s \in Seq(1..Len(history)) /\ files'[out].entries = Append(s, e)
      BY <1>1 DEF OneEntryMore, DiskInv, FilesOK, FileOf
    <3>2. EntryIn(files', p) = files'[out].entries[Len(s) + 1]
      BY <2>2 DEF EntryIn, NextPlace
    <3> HIDE DEF s
    <3>3. EntryIn(files', p) = e
      BY <1>4, <3>1, <3>2
    <3>4. history[e].key = k
      BY <1>1, <1>4, <1>9, <3>3 DEF IsPlace, HistoryGrows
    <3> QED
      BY <1>4, <1>5, <1>8, <3>3, <3>4
  <2> QED
    BY <2>1, <2>2
<1> QED
  BY <1>1, <1>7, <1>9, ShowsStays
\* A repoint moves a key upwards, to a copy of what it had.
LEMMA RepointNewest ==
    ASSUME IInv, BusyInv, OldestInv, NewestInv, NEW t \in Threads, MergeRepoint(t)
    PROVE  NewestInv'
<1> DEFINE o == merging[t]
           q == o.queue[1]
<1>1. /\ pc[t] \in RepointPCs /\ pc[t] \in MergePCs
      /\ \/ o.queue # <<>> /\ keydir' = Repointed(q.key, q.old, q.new)
         \/ keydir' = keydir
  BY RepointMoves DEF RepointPCs, MergePCs
<1>2. UNCHANGED diskVars
  BY DEF MergeRepoint
<1>3. \A u \in Threads : pc[u] \notin WritePCs /\ pc'[u] \notin WritePCs
  <2>1. pc' = pc \/ \E l \in {"copy", "remove"} : pc' = [pc EXCEPT ![t] = l]
    BY DEF MergeRepoint, Goto
  <2>2. pc \in [Threads -> PCs]
    BY DEF IInv, ArgInv
  <2> QED
    BY <1>1, <2>1, <2>2, KeydirSays DEF WritePCs
<1> SUFFICES ASSUME NEW k \in Keys, NEW loc \in Location \cup {None}, Says(k, loc)'
             PROVE  Shows(files, linked, history, k, loc)
  BY <1>2 DEF NewestInv, diskVars
<1>4. loc = keydir'[k] /\ Says(k, keydir[k])
  BY <1>1, <1>3, KeydirSays DEF Says
<1>5. keydir \in [Keys -> Location \cup {None}]
  BY DEF IInv, KeydirInv, Keydirs
<1>6. Shows(files, linked, history, k, keydir[k])
  BY <1>4, <1>5 DEF NewestInv
<1>7. CASE loc = keydir[k]
  BY <1>6, <1>7
<1>8. CASE loc # keydir[k]
  <2>1. o.queue # <<>> /\ keydir' = Repointed(q.key, q.old, q.new)
    BY <1>1, <1>4, <1>8
  <2> HIDE DEF q
  <2>2. keydir[k] = q.old /\ loc = q.new
    BY <1>4, <1>5, <1>8, <2>1 DEF Repointed
  <2>3. 1 \in DOMAIN o.queue
    <3>1. o.queue \in Seq(Repoint)
      BY <1>1, MergeKnown DEF MergeRec
    <3> QED
      BY <2>1, <3>1
  <2>4. RepointOK(files, history, q)
    BY <1>1, <2>3, MergeKnown DEF QueueOK, q
  <2>5. q.old.file_id < q.new.file_id
    BY <1>1, <2>3 DEF OldestInv, OldestOK, q
  <2>6. /\ q.old \in Location /\ q.new \in Location /\ UpTo(q.old, q.new)
        /\ EntryIn(files, q.new) = EntryIn(files, q.old)
    BY <2>4, <2>5 DEF RepointOK, InFile, UpTo
  <2>7. q.old # None /\ q.new # None
    BY <2>6, NoneAssumption
  <2> SUFFICES ASSUME NEW p \in Location, IsPlace(files, linked, history, k, p), UpTo(q.new, p)
               PROVE  EntryIn(files, p) = EntryIn(files, q.new)
    BY <2>2, <2>7 DEF Shows
  <2>8. UpTo(q.old, p)
    BY <2>6, UpToOrder
  <2> QED
    BY <1>6, <2>2, <2>6, <2>7, <2>8 DEF Shows
<1> QED
  BY <1>7, <1>8

\* The oldest file goes: the places left are above it, and so are the tombstones above them.
LEMMA RemoveNewest ==
    ASSUME SerialUse, IInv, BusyInv, OldestInv, NewestInv, NEW t \in Threads, MergeRemove(t)
    PROVE  NewestInv'
<1> DEFINE m == merging[t]
           f == Min(m.rest)
<1>1. /\ pc[t] = "remove" /\ pc[t] \in MergePCs /\ linked' = linked \ {f}
      /\ UNCHANGED <<history, files, keydir>>
  BY DEF MergeRemove, MergePCs, NextToRemove, Fault, SerialUse
<1>2. SameWrites /\ HistoryGrows
  <2>1. HistoryGrows
    BY <1>1 DEF HistoryGrows, IInv, DiskInv
  <2> QED
    BY <1>1, <2>1, MergeKeepsWrites DEF MergeStep
<1>3. /\ m.inputs \subseteq Nat /\ m.rest \subseteq m.inputs /\ linked \subseteq Nat
      /\ linked \cap m.inputs \subseteq m.rest
      /\ \A g \in linked : g \in m.inputs \/ \A h \in m.inputs : h < g
  BY <1>1, MergeKnown DEF MergeRec, InputsOK, OldestInv, OldestOK, IInv, DiskInv, FilesOK
<1>4. f \in m.rest /\ \A g \in m.rest : f <= g
  <2>1. IsFiniteSet(m.rest) /\ m.rest # {} /\ m.rest \subseteq Nat
    BY <1>1, MergeKnown, FS_Subset DEF InputsOK, MergeRec
  <2> DEFINE S == m.rest
  <2> HIDE DEF m
  <2>2. IsFiniteSet(S) /\ S # {} /\ S \subseteq Nat
    BY <2>1
  <2> HIDE DEF S
  <2>3. Min(S) \in S /\ \A g \in S : Min(S) <= g
    BY <2>2, MinIsLeast
  <2> QED
    BY <2>3 DEF S
<1> HIDE DEF f, m
<1>5. \A g \in linked' : f < g
  <2> TAKE g \in linked'
  <2>1. g \in linked /\ g # f /\ g \in Nat /\ f \in Nat
    BY <1>1, <1>3, <1>4
  <2> QED
    BY <1>3, <1>4, <2>1
<1> SUFFICES ASSUME NEW k \in Keys, NEW loc \in Location \cup {None}, Says(k, loc)'
             PROVE  Shows(files, linked', history, k, loc)
  BY <1>1 DEF NewestInv
<1>6. Shows(files, linked, history, k, loc)
  BY <1>2, SaysStays DEF NewestInv
<1> SUFFICES ASSUME NEW p \in Location, IsPlace(files, linked', history, k, p)
             PROVE  \/ loc # None /\ (UpTo(loc, p) => EntryIn(files, p) = EntryIn(files, loc))
                    \/ /\ loc = None
                       /\ \E q \in Location : UpTo(p, q) /\ IsGrave(files, linked', history, k, q)
  BY DEF Shows
<1>7. IsPlace(files, linked, history, k, p) /\ p.file_id \in linked'
  BY <1>1 DEF IsPlace
<1>8. CASE loc # None
  BY <1>6, <1>7, <1>8 DEF Shows
<1>9. CASE loc = None
  <2>1. PICK q \in Location : UpTo(p, q) /\ IsGrave(files, linked, history, k, q)
    BY <1>6, <1>7, <1>9 DEF Shows
  <2>2. f < p.file_id /\ p.file_id <= q.file_id /\ f \in Nat
    BY <1>3, <1>4, <1>5, <1>7, <2>1 DEF UpTo, Location
  <2>3. q.file_id # f
    BY <2>2 DEF Location
  <2>4. IsGrave(files, linked', history, k, q)
    BY <1>1, <2>1, <2>3 DEF IsGrave, IsPlace
  <2> QED
    BY <1>9, <2>1, <2>4
<1> QED
  BY <1>8, <1>9
-----------------------------------------------------------------------------
(* The crash.                                                                *)

\* What a crash leaves, and what it is opened to.
CutDown(n) ==
    /\ IsCut(n)
    /\ linked \subseteq linked' /\ history' = history
    /\ \A f \in linked : /\ f \in DOMAIN files'
                         /\ files'[f].entries = SubSeq(files[f].entries, 1, n[f])
                         /\ files'[f].flushed = n[f]
    /\ \A f \in linked' \ linked : files'[f].entries = <<>>

\* Recovered from what is left.
Reopened(n) == CutDown(n) /\ keydir' = Recover(Disk(n))

\* Every kept file is a prefix, and the file added is empty.
LEMMA CrashReopens ==
    ASSUME DiskInv, NEW kind \in CrashKinds, NEW n \in KeptAfter(kind),
           files' = WithFile([f \in linked |-> KeptFile(n, kind, f)], Max(linked) + 1),
           linked' = linked \cup {Max(linked) + 1}, active_id' = Max(linked) + 1,
           next_file_id' = Max(linked) + 2, history' = history,
           keydir' = Recover(Disk(n))
    PROVE  Reopened(n)
<1> DEFINE top == Max(linked) + 1
           gs == [f \in linked |-> KeptFile(n, kind, f)]
<1>1. IsCut(n)
  BY KeptIsCut
<1>2. \A f \in linked : files'[f] = KeptFile(n, kind, f)
  BY ReopenedOK
<1>3. \A f \in linked : /\ f \in DOMAIN files'
                        /\ files'[f].entries = SubSeq(files[f].entries, 1, n[f])
                        /\ files'[f].flushed = n[f]
  <2>1. \A f \in linked : f \in DOMAIN files'
    BY DEF WithFile
  <2> QED
    BY <1>2, <2>1 DEF KeptFile
<1>4. \A f \in linked' \ linked : files'[f].entries = <<>>
  <2>1. files' = WithFile(gs, top) /\ DOMAIN gs = linked /\ linked' = linked \cup {top}
    OBVIOUS
  <2> HIDE DEF gs, top
  <2>2. top \notin linked => files'[top] = EmptyFile
    BY <2>1 DEF WithFile
  <2> QED
    BY <2>1, <2>2 DEF EmptyFile
<1> QED
  BY <1>1, <1>3, <1>4 DEF Reopened, CutDown

\* The places after the crash are those that were left, with the same writes.
LEMMA PlacesLeft ==
    ASSUME DiskInv, NEW n, CutDown(n), NEW k, NEW p \in Location
    PROVE  /\ IsPlace(files', linked', history', k, p) => InCut(n, k, p)
           /\ InCut(n, k, p) => /\ IsPlace(files', linked', history', k, p)
                                /\ OnOS(files', p)
                                /\ EntryIn(files', p) = EntryIn(files, p)
<1> DEFINE f == p.file_id
           i == p.value_pos
           s == files[f].entries
           c == n[f]
<1>1. i \in Nat \ {0}
  BY DEF Location
<1>2. IsPlace(files', linked', history', k, p) => f \in linked
  BY <1>1 DEF IsPlace, InFile, CutDown
<1>3. InCut(n, k, p) => f \in linked
  BY DEF InCut, IsPlace
<1>4. ASSUME f \in linked
      PROVE  /\ f \in DOMAIN files /\ f \in DOMAIN files' /\ f \in linked'
             /\ c \in Nat /\ Len(s) \in Nat /\ c <= Len(s)
             /\ Len(files'[f].entries) = c /\ files'[f].flushed = c
             /\ i <= c => files'[f].entries[i] = s[i]
  <2>1. s \in Seq(1..Len(history)) /\ f \in DOMAIN files
    BY <1>4 DEF DiskInv, FilesOK, FileOf
  <2>2. /\ c \in Nat /\ c <= Len(s) /\ Len(s) \in Nat /\ f \in DOMAIN files' /\ f \in linked'
        /\ files'[f].entries = SubSeq(s, 1, c) /\ files'[f].flushed = c
    BY <1>4, <2>1 DEF CutDown, IsCut
  <2> HIDE DEF s, c, i
  <2>3. Len(SubSeq(s, 1, c)) = c /\ \A j \in 1..c : SubSeq(s, 1, c)[j] = s[j]
    BY <2>1, <2>2, Prefix
  <2> QED
    BY <1>1, <2>1, <2>2, <2>3
<1>5. history' = history
  BY DEF CutDown
<1>6. ASSUME f \in linked
      PROVE  /\ IsPlace(files', linked', history', k, p) => InCut(n, k, p)
             /\ InCut(n, k, p) => /\ IsPlace(files', linked', history', k, p)
                                  /\ OnOS(files', p)
                                  /\ EntryIn(files', p) = EntryIn(files, p)
  <2>1. IsPlace(files', linked', history', k, p)
           <=> i <= c /\ history[files'[f].entries[i]].key = k
    BY <1>4, <1>5, <1>6 DEF IsPlace, InFile, EntryIn
  <2>2. InCut(n, k, p) <=> i <= c /\ i <= Len(s) /\ history[s[i]].key = k
    BY <1>4, <1>6 DEF InCut, IsPlace, InFile, EntryIn
  <2>3. i <= c => /\ OnOS(files', p)
                  /\ EntryIn(files', p) = EntryIn(files, p)
    BY <1>4, <1>6 DEF OnOS, InFile, EntryIn
  <2>4. i <= c => i <= Len(s)
    BY <1>1, <1>4, <1>6
  <2> HIDE DEF f, i, s, c
  <2>5. i <= c => files'[f].entries[i] = s[i]
    BY <1>4, <1>6
  <2> QED
    BY <2>1, <2>2, <2>3, <2>4, <2>5
<1> QED
  BY <1>2, <1>3, <1>6
\* After a crash the keydir says what the directory shows: it was read from there.
LEMMA CutShows ==
    ASSUME DiskInv, NEW n, CutDown(n), NEW k \in Keys, NEW loc, loc = Recover(Disk(n))[k]
    PROVE  Shows(files', linked', history', k, loc)
<1>1. \/ loc = None /\ \A p \in Location : ~InCut(n, k, p)
      \/ \E top \in Location :
            /\ IsTop(n, k, top)
            /\ loc = IF history[EntryIn(files, top)].tomb THEN None ELSE top
  BY RecoveryTakesTop DEF CutDown
<1> SUFFICES ASSUME NEW p \in Location, IsPlace(files', linked', history', k, p)
             PROVE  \/ loc # None /\ (UpTo(loc, p) => EntryIn(files', p) = EntryIn(files', loc))
                    \/ /\ loc = None
                       /\ \E q \in Location : UpTo(p, q) /\ IsGrave(files', linked', history', k, q)
  BY DEF Shows
<1>2. InCut(n, k, p)
  BY PlacesLeft
<1>3. PICK top \in Location :
         /\ IsTop(n, k, top)
         /\ loc = IF history[EntryIn(files, top)].tomb THEN None ELSE top
  BY <1>1, <1>2
<1>4. UpTo(p, top) /\ InCut(n, k, top)
  BY <1>2, <1>3 DEF IsTop
<1>5. /\ IsPlace(files', linked', history', k, top) /\ OnOS(files', top)
      /\ EntryIn(files', top) = EntryIn(files, top) /\ history' = history
  BY <1>4, PlacesLeft DEF CutDown
<1>6. CASE history[EntryIn(files, top)].tomb
  <2>1. IsGrave(files', linked', history', k, top)
    BY <1>5, <1>6 DEF IsGrave
  <2> QED
    BY <1>3, <1>4, <1>6, <2>1
<1>7. CASE ~history[EntryIn(files, top)].tomb
  BY <1>3, <1>4, <1>7, UpToOrder, NoneAssumption
<1> QED
  BY <1>6, <1>7

LEMMA ReopenedNewest ==
    ASSUME DiskInv, NEW n, Reopened(n), \A t \in Threads : pc'[t] = "idle"
    PROVE  NewestInv'
<1> SUFFICES ASSUME NEW k \in Keys, NEW loc \in Location \cup {None}, Says(k, loc)'
             PROVE  Shows(files', linked', history', k, loc)
  BY DEF NewestInv
<1>1. loc = Recover(Disk(n))[k]
  BY DEF Says, WritePCs, Reopened
<1> QED
  BY <1>1, CutShows DEF Reopened

\* The same, of the action.
LEMMA CrashNewest ==
    ASSUME IInv, Crashed
    PROVE  NewestInv'
<1>1. PICK kind \in CrashKinds : CrashAndOpen(kind)
  BY DEF Crashed
<1>2. PICK n \in KeptAfter(kind) :
         /\ files' = WithFile([f \in linked |-> KeptFile(n, kind, f)], Max(linked) + 1)
         /\ linked' = linked \cup {Max(linked) + 1} /\ active_id' = Max(linked) + 1
         /\ next_file_id' = Max(linked) + 1 + 1 /\ history' = history
         /\ keydir' = Recover(Disk(n))
  BY <1>1 DEF CrashAndOpen, KeptFile
<1>3. next_file_id' = Max(linked) + 2
  <2>1. Max(linked) \in Nat
    <3>1. IsFiniteSet(linked) /\ linked \subseteq Nat /\ linked # {}
      BY DEF IInv, DiskInv, FilesOK
    <3> QED
      BY <3>1, MaxIsGreatest
  <2> QED
    BY <1>2, <2>1
<1>4. Reopened(n) /\ DiskInv
  BY <1>2, <1>3, CrashReopens DEF IInv
<1> QED
  BY <1>4, CrashIdles, ReopenedNewest

-----------------------------------------------------------------------------
(* Every step.                                                               *)

\* The directory shows what is said, after any step.
LEMMA NewestStep ==
    ASSUME SerialUse, StoreAssumption, SerialInv, IInv', BusyInv, BusyInv', OldestInv, NewestInv,
           [MergeNext]_allVars
    PROVE  NewestInv'
<1>1. IInv /\ OrderInv /\ PlacesInv
  BY DEF SerialInv, OrderedInv
<1>2. CASE Crashed
  BY <1>1, <1>2, CrashNewest
<1>3. CASE ~Crashed /\ Calm /\ SameWrites
  BY <1>1, <1>3, CalmNewest
<1>4. CASE Loud
  BY <1>1, <1>4, AppendNewest, UpdateNewest, EntryNewest, RepointNewest, RemoveNewest DEF Loud
<1> QED
  BY <1>1, <1>2, <1>3, <1>4, LoudOrCalm

\* At first there are no places.
LEMMA OneWriteInit ==
    ASSUME MergeInit, StoreAssumption
    PROVE  BusyInv /\ OldestInv /\ NewestInv
<1>1. /\ \A t \in Threads : pc[t] = "idle"
      /\ at_risk = {} /\ faults = 0 /\ history = <<>> /\ linked = {0}
      /\ files = [f \in {0} |-> EmptyFile]
  BY DEF MergeInit, Init
<1>2. BusyInv
  BY <1>1 DEF BusyInv, WritePCs, StoreAssumption
<1>3. OldestInv
  BY <1>1 DEF OldestInv, MergePCs
<1>4. ASSUME NEW k, NEW p \in Location PROVE ~IsPlace(files, linked, history, k, p)
  <2>1. linked = {0} /\ files[0].entries = <<>>
    BY <1>1 DEF EmptyFile
  <2>2. Len(<<>>) = 0 /\ p.value_pos \in Nat \ {0}
    BY DEF Location
  <2> QED
    BY <2>1, <2>2 DEF IsPlace, InFile
<1>5. NewestInv
  BY <1>4 DEF NewestInv, Shows
<1> QED
  BY <1>2, <1>3, <1>5

\* In serial use there is one write at a time, and the directory shows it where it should be.
LEMMA OneWrite ==
    ASSUME SerialUse
    PROVE  MergeSpec => []OneWriteInv
<1>1. OneMerge
  BY SerialIsOneMerge
<1>2. MergeSpec => []SerialInv
  BY <1>1, Serial
<1>3. MergeInit => BusyInv /\ OldestInv /\ NewestInv
  BY OneWriteInit, StoreAssumption
<1>4. ASSUME SerialInv, SerialInv', BusyInv, OldestInv, NewestInv, [MergeNext]_allVars
      PROVE  BusyInv' /\ OldestInv' /\ NewestInv'
  <2>1. IInv /\ AloneInv /\ IInv'
    BY <1>4 DEF SerialInv, OrderedInv
  <2>2. BusyInv'
    BY <1>4, <2>1, BusyOK, StoreAssumption, MergeAssumption
  <2>3. OldestInv'
    BY <1>4, <2>1, OldestStep
  <2>4. NewestInv'
    BY <1>4, <2>1, <2>2, NewestStep, StoreAssumption
  <2> QED
    BY <2>2, <2>3, <2>4
<1> QED
  BY <1>2, <1>3, <1>4, PTL DEF MergeSpec, OneWriteInv
\* A process killed now and reopened finds what is said.
LEMMA KillFindsWhatIsSaid ==
    ASSUME OneWriteInv, NEW n \in KeptAfter("kill"), NEW k \in Keys, NEW loc, Says(k, loc)
    PROVE  RecoveredVersion(n, k) = VersionAt(loc)
<1>1. IInv /\ DiskInv /\ RiskInv /\ BusyInv /\ NewestInv
  BY DEF OneWriteInv, SerialInv, OrderedInv, IInv
<1>2. Held(k, loc)
  BY <1>1, SaysHeld
<1>3. loc \in Location \cup {None}
  BY <1>2 DEF Held, OnOS, InFile
<1>4. Shows(files, linked, history, k, loc)
  BY <1>1, <1>3 DEF NewestInv
<1>5. IsCut(n) /\ \A f \in linked : files[f].flushed <= n[f]
  BY <1>1, KeptIsCut DEF CrashKinds
<1> QED
  BY <1>1, <1>2, <1>4, <1>5, RecoversWhatItShows

\* In serial use a process killed at any step and reopened shows for every key what the
\* handle showed, or the write of that key in flight (recovery.rs against the keydir that
\* engine.rs and merge/mod.rs keep).
THEOREM KillLosesNothing ==
    ASSUME SerialUse
    PROVE  MergeSpec => []RecoverMatchesKeydir
<1>1. ASSUME OneWriteInv PROVE RecoverMatchesKeydir
  <2> SUFFICES ASSUME NEW n \in KeptAfter("kill"), NEW k \in Keys
               PROVE  \/ RecoveredVersion(n, k) = Visible(k)
                      \/ \E t \in Writing : /\ arg[t].key = k
                                            /\ RecoveredVersion(n, k)
                                                  = VersionAt(KeydirEntry(arg[t]))
    BY DEF RecoverMatchesKeydir
  <2>1. CASE \A t \in Threads : pc[t] \in WritePCs => arg[t].key # k
    <3>1. Says(k, keydir[k])
      BY <2>1 DEF Says
    <3> QED
      BY <1>1, <3>1, KillFindsWhatIsSaid DEF Visible
  <2>2. CASE \E t \in Threads : pc[t] \in WritePCs /\ arg[t].key = k
    <3> PICK t \in Threads : pc[t] \in WritePCs /\ arg[t].key = k
      BY <2>2
    <3>1. Says(k, KeydirEntry(arg[t])) /\ t \in Writing
      BY DEF Says, Writing, WritePCs
    <3> QED
      BY <1>1, <3>1, KillFindsWhatIsSaid
  <2> QED
    BY <2>1, <2>2
<1>2. MergeSpec => []OneWriteInv
  BY OneWrite
<1> QED
  BY <1>1, <1>2, PTL
-----------------------------------------------------------------------------
(* The store implements KvStore.                                             *)

\* The value a write gives its key.
WriteValue(w) == IF history[w.ver].tomb THEN 0 ELSE w.ver

\* It is what is written at the write's place.
LEMMA WriteValueOK ==
    ASSUME IInv, NEW t \in Threads, pc[t] \in WritePCs
    PROVE  /\ VersionAt(KeydirEntry(arg[t])) = WriteValue(arg[t])
           /\ arg[t].ver \in 1..Len(history) /\ arg[t].key \in Keys
           /\ WriteValue(arg[t]) \in 0..Len(history)
<1>1. WriteOK(files, history, arg[t]) /\ history \in Seq(Write)
  BY DEF IInv, ArgInv, DiskInv
<1>2. arg[t].loc \in Location /\ arg[t].loc # None
  BY <1>1, NoneAssumption DEF WriteOK, OnOS, InFile
<1>3. VersionAt(KeydirEntry(arg[t])) = WriteValue(arg[t])
  BY <1>1, <1>2 DEF WriteOK, EntryIn, VersionAt, KeydirEntry, WriteValue
<1> DEFINE w == arg[t]
<1>4. w.ver \in 1..Len(history) /\ w.key = history[w.ver].key
  BY <1>1 DEF WriteOK
<1> HIDE DEF w
<1>5. w.key \in Keys /\ Len(history) \in Nat
  <2>1. history[w.ver] \in Write /\ Len(history) \in Nat
    BY <1>1, <1>4
  <2> QED
    BY <1>4, <2>1 DEF Write
<1>6. w.ver \in 0..Len(history) /\ 0 \in 0..Len(history)
  BY <1>4, <1>5
<1> QED
  BY <1>3, <1>4, <1>5, <1>6 DEF WriteValue, w

\* A value in the map is absent or a write.
LEMMA VisibleOK ==
    ASSUME IInv, NEW k \in Keys
    PROVE  Visible(k) \in 0..Len(history)
<1>1. Len(history) \in Nat
  BY DEF IInv, DiskInv
<1>2. CASE keydir[k] = None
  BY <1>1, <1>2 DEF Visible, VersionAt
<1>3. CASE keydir[k] # None
  <2>1. InFile(files, keydir[k]) /\ FilesOK(files, Len(history))
    BY <1>3 DEF IInv, KeydirInv, OnOS, DiskInv
  <2>2. EntryIn(files, keydir[k]) \in 1..Len(history)
    <3> DEFINE p == keydir[k]
    <3>1. /\ files[p.file_id].entries \in Seq(1..Len(history))
          /\ p.value_pos \in Nat \ {0} /\ p.value_pos <= Len(files[p.file_id].entries)
      BY <2>1 DEF InFile, FilesOK, FileOf, Location
    <3> HIDE DEF p
    <3>2. EntryIn(files, p) \in 1..Len(history)
      BY <3>1 DEF EntryIn
    <3> QED
      BY <3>2 DEF p
  <2> QED
    BY <1>1, <1>3, <2>2 DEF Visible, VersionAt, EntryIn
<1> QED
  BY <1>2, <1>3

\* While the keydir stays and the disk grows, the map stays.
LEMMA MapStays ==
    ASSUME IInv, Advances, keydir' = keydir
    PROVE  Map' = Map
<1>1. ASSUME NEW k \in Keys PROVE Visible(k)' = Visible(k)
  <2>1. keydir[k] # None => EntryIn(files', keydir[k]) = EntryIn(files, keydir[k])
    BY PlacesStay DEF IInv, KeydirInv, OnOS
  <2> QED
    BY <2>1 DEF Visible, VersionAt, EntryIn
<1> QED
  BY <1>1 DEF Map

\* The writes in flight, by what they are.
LEMMA PendingIs ==
    IInv => Pending = {<<arg[t].key, WriteValue(arg[t])>> : t \in Writing}
<1> HAVE IInv
<1>1. \A t \in Writing : VersionAt(KeydirEntry(arg[t])) = WriteValue(arg[t])
  BY WriteValueOK DEF Writing, WritePCs
<1> QED
  BY <1>1 DEF Pending

\* The same of the state after a step.
LEMMA PendingNext ==
    IInv' => /\ Pending' = {<<arg'[t].key, WriteValue(arg[t])'>> : t \in Writing'}
             /\ \A t \in Threads : pc'[t] \in WritePCs
                                      => WriteValue(arg[t])' \in 0..Len(history')
<1>1. IInv => /\ Pending = {<<arg[t].key, WriteValue(arg[t])>> : t \in Writing}
              /\ \A t \in Threads : pc[t] \in WritePCs
                                       => WriteValue(arg[t]) \in 0..Len(history)
  BY PendingIs, WriteValueOK
<1>2. IInv' => (/\ Pending = {<<arg[t].key, WriteValue(arg[t])>> : t \in Writing}
                /\ \A t \in Threads : pc[t] \in WritePCs
                                         => WriteValue(arg[t]) \in 0..Len(history))'
  BY <1>1, PTL
<1> QED
  BY <1>2

\* While the writes in flight stay, so do their values.
LEMMA PendingStays ==
    ASSUME IInv, IInv', SameWrites, HistoryGrows
    PROVE  Pending' = Pending
<1>1. Writing' = Writing /\ \A t \in Writing : arg'[t] = arg[t]
  BY DEF Writing, SameWrites, WritePCs
<1>2. ASSUME NEW t \in Writing PROVE WriteValue(arg[t])' = WriteValue(arg[t])
  <2>1. arg[t].ver \in 1..Len(history)
    BY WriteValueOK DEF Writing, WritePCs
  <2> QED
    BY <1>1, <2>1 DEF WriteValue, HistoryGrows
<1>3. Pending = {<<arg[t].key, WriteValue(arg[t])>> : t \in Writing}
  BY PendingIs
<1>4. Pending' = {<<arg'[t].key, WriteValue(arg[t])'>> : t \in Writing'}
  BY PendingNext
<1> QED
  BY <1>1, <1>2, <1>3, <1>4
\* An append is where a write begins.
LEMMA AppendBegins ==
    ASSUME SerialUse, StoreAssumption, IInv, IInv', OrderInv, BusyInv, BusyInv',
           NEW t \in Threads, NEW k \in Keys, NEW tomb \in BOOLEAN,
           AppendEntry(t, k, tomb), pc[t] \notin WritePCs \cup MergePCs
    PROVE  \E v \in 0..MaxWrites : Abstract!Begin(k, v)
<1>1. Advances /\ keydir' = keydir
      /\ pc' = [pc EXCEPT ![t] = IF SyncOnPut THEN "sync" ELSE "update"]
      /\ arg' = [arg EXCEPT ![t] = [key |-> k, ver |-> NewWrite, loc |-> NewPlace]]
  <2>1. Advances
    BY AppendAdvances DEF IInv
  <2> QED
    BY <2>1, AppendAddsOne
<1>2. \A u \in Threads : pc[u] \notin WritePCs
  BY <1>1, AppendsToNewest DEF WritePCs
<1>3. /\ pc'[t] \in WritePCs /\ arg'[t].key = k
      /\ \A u \in Threads \ {t} : pc'[u] = pc[u]
  BY <1>1 DEF WritePCs, IInv, ArgInv
<1>4. Writing = {} /\ Writing' = {t}
  BY <1>2, <1>3 DEF Writing, WritePCs
<1>5. Pending = {}
  BY <1>4 DEF Pending
<1> DEFINE v == WriteValue(arg[t])'
<1>6. Pending' = {<<arg'[u].key, WriteValue(arg[u])'>> : u \in Writing'}
  BY PendingNext
<1>7. v \in 0..Len(history') /\ Len(history') \in 0..MaxWrites
  BY <1>3, PendingNext DEF BusyInv
<1>8. v \in 0..MaxWrites
  <2> HIDE DEF v
  <2> QED
    BY <1>7, StoreAssumption
<1>9. Pending' = {<<k, v>>}
  BY <1>3, <1>4, <1>6
<1>10. Map' = Map
  BY <1>1, MapStays
<1> HIDE DEF v
<1>11. Abstract!Begin(k, v)
  BY <1>5, <1>9, <1>10 DEF Abstract!Begin
<1> QED
  BY <1>8, <1>11

\* The keydir update is where it takes effect.
LEMMA UpdateTakesEffect ==
    ASSUME IInv, BusyInv, NEW t \in Threads, UpdateKeydir(t)
    PROVE  \E k \in Keys, v \in 0..MaxWrites : Abstract!TakeEffect(k, v)
<1> DEFINE w == arg[t]
           v == WriteValue(w)
<1>1. /\ pc[t] \in WritePCs /\ pc' = [pc EXCEPT ![t] = "idle"] /\ files' = files
      /\ keydir' = [keydir EXCEPT ![w.key] = KeydirEntry(w)]
  BY DEF UpdateKeydir, Return, WritePCs, diskVars
<1>2. /\ pc \in [Threads -> PCs] /\ keydir \in [Keys -> Location \cup {None}]
      /\ \A u \in Threads \ {t} : pc[u] \in Quiet
  BY <1>1 DEF IInv, ArgInv, KeydirInv, Keydirs, BusyInv, WritePCs, Quiet
<1>3. Writing = {t} /\ Writing' = {}
  BY <1>1, <1>2 DEF Writing, WritePCs, Quiet
<1>4. /\ VersionAt(KeydirEntry(w)) = v /\ w.key \in Keys /\ v \in 0..Len(history)
      /\ Len(history) \in 0..MaxWrites
  BY <1>1, WriteValueOK DEF BusyInv
<1>5. v \in 0..MaxWrites
  <2>1. v \in 0..Len(history) /\ Len(history) \in 0..MaxWrites /\ MaxWrites \in Nat
    BY <1>4, StoreAssumption
  <2> HIDE DEF v
  <2> QED
    BY <2>1
<1>6. Pending = {<<w.key, v>>} /\ Pending' = {}
  BY <1>3, PendingIs DEF Pending
<1>7. Map' = [Map EXCEPT ![w.key] = v]
  <2> HIDE DEF v, w
  <2>1. ASSUME NEW k \in Keys
        PROVE  Visible(k)' = IF k = w.key THEN v ELSE Visible(k)
    <3>1. keydir'[k] = IF k = w.key THEN KeydirEntry(w) ELSE keydir[k]
      BY <1>1, <1>2
    <3> QED
      BY <1>1, <1>4, <3>1 DEF Visible, VersionAt
  <2> QED
    BY <1>4, <2>1 DEF Map
<1> HIDE DEF w, v
<1>8. Abstract!TakeEffect(w.key, v)
  BY <1>6, <1>7 DEF Abstract!TakeEffect
<1> QED
  BY <1>4, <1>5, <1>8

\* After a crash each key has what recovery found.
LEMMA MapAfterCrash ==
    ASSUME DiskInv, NEW n, Reopened(n), NEW k \in Keys
    PROVE  Visible(k)' = RecoveredVersion(n, k)
<1> DEFINE r == Recover(Disk(n))[k]
<1>1. keydir'[k] = r
  BY DEF Reopened
<1>2. CASE r = None
  BY <1>1, <1>2 DEF Visible, VersionAt, RecoveredVersion
<1>3. CASE r # None
  <2> PICK top \in Location :
         /\ IsTop(n, k, top)
         /\ r = IF history[EntryIn(files, top)].tomb THEN None ELSE top
    BY <1>3, RecoveryTakesTop DEF Reopened, CutDown
  <2>1. r = top /\ InCut(n, k, top)
    BY <1>3 DEF IsTop
  <2>2. EntryIn(files', top) = EntryIn(files, top)
    BY <2>1, PlacesLeft DEF Reopened
  <2> QED
    BY <1>1, <1>3, <2>1, <2>2 DEF Visible, VersionAt, RecoveredVersion, EntryIn
<1> QED
  BY <1>2, <1>3
\* No machine loses power.
KillsOnly == "power" \notin Crashes

\* A kill is the crash of KvStore.
LEMMA KillIsCrash ==
    ASSUME KillsOnly, OneWriteInv, StoreAssumption, Crashed
    PROVE  Abstract!Crash
<1>1. PICK kind \in CrashKinds : CrashAndOpen(kind)
  BY DEF Crashed
<1>2. kind = "kill"
  BY <1>1 DEF CrashAndOpen, KillsOnly, CrashKinds
<1>3. IInv /\ DiskInv /\ BusyInv
  BY DEF OneWriteInv, SerialInv, OrderedInv, IInv
<1>4. PICK n \in KeptAfter("kill") :
         /\ files' = WithFile([f \in linked |-> KeptFile(n, "kill", f)], Max(linked) + 1)
         /\ linked' = linked \cup {Max(linked) + 1} /\ active_id' = Max(linked) + 1
         /\ next_file_id' = Max(linked) + 1 + 1 /\ history' = history
         /\ keydir' = Recover(Disk(n))
  BY <1>1, <1>2 DEF CrashAndOpen, KeptFile
<1>5. next_file_id' = Max(linked) + 2
  <2>1. Max(linked) \in Nat
    <3>1. IsFiniteSet(linked) /\ linked \subseteq Nat /\ linked # {}
      BY <1>3 DEF DiskInv, FilesOK
    <3> QED
      BY <3>1, MaxIsGreatest
  <2> QED
    BY <1>4, <2>1
<1>6. Reopened(n)
  BY <1>3, <1>4, <1>5, CrashReopens DEF CrashKinds
<1>7. ASSUME NEW k \in Keys
      PROVE  /\ Visible(k)' \in 0..MaxWrites
             /\ Visible(k)' = Visible(k) \/ <<k, Visible(k)'>> \in Pending
  <2>1. Visible(k)' = RecoveredVersion(n, k)
    BY <1>3, <1>6, MapAfterCrash
  <2>2. CASE \A t \in Threads : pc[t] \in WritePCs => arg[t].key # k
    <3>1. Says(k, keydir[k])
      BY <2>2 DEF Says
    <3>2. Visible(k)' = Visible(k)
      BY <2>1, <3>1, KillFindsWhatIsSaid DEF Visible
    <3>3. Visible(k) \in 0..Len(history)
      BY <1>3, VisibleOK
    <3>4. Len(history) \in 0..MaxWrites /\ MaxWrites \in Nat
      BY <1>3 DEF BusyInv, StoreAssumption
    <3> DEFINE v == Visible(k)
    <3>5. v \in 0..Len(history)
      BY <3>3
    <3> HIDE DEF v
    <3>6. v \in 0..MaxWrites
      BY <3>4, <3>5
    <3> QED
      BY <3>2, <3>6 DEF v
  <2>3. CASE \E t \in Threads : pc[t] \in WritePCs /\ arg[t].key = k
    <3> PICK t \in Threads : pc[t] \in WritePCs /\ arg[t].key = k
      BY <2>3
    <3> DEFINE v == VersionAt(KeydirEntry(arg[t]))
    <3>1. Says(k, KeydirEntry(arg[t])) /\ t \in Writing
      BY DEF Says, Writing, WritePCs
    <3>2. Visible(k)' = v
      BY <2>1, <3>1, KillFindsWhatIsSaid
    <3>3. <<k, v>> \in Pending
      BY <3>1 DEF Pending
    <3>4. v \in 0..Len(history) /\ Len(history) \in 0..MaxWrites /\ MaxWrites \in Nat
      BY <1>3, WriteValueOK DEF BusyInv, StoreAssumption
    <3> HIDE DEF v
    <3>5. v \in 0..MaxWrites
      BY <3>4
    <3> QED
      BY <3>2, <3>3, <3>5
  <2> QED
    BY <2>2, <2>3
<1>8. Pending' = {}
  <2>1. Writing' = {}
    BY CrashIdles DEF Writing
  <2> QED
    BY <2>1 DEF Pending
<1>9. Map' = [k \in Keys |-> Visible(k)'] /\ Map = [k \in Keys |-> Visible(k)]
  BY DEF Map
<1> QED
  BY <1>7, <1>8, <1>9 DEF Abstract!Crash

\* Every step of store and merge is a step of KvStore, or none.
LEMMA StepRefines ==
    ASSUME SerialUse, KillsOnly, StoreAssumption, OneWriteInv, OneWriteInv',
           [MergeNext]_allVars
    PROVE  [Abstract!Next]_<<Map, Pending>>
<1> USE DEF OneWriteInv, SerialInv, OrderedInv
<1>1. IInv /\ IInv' /\ OrderInv /\ PlacesInv /\ BusyInv /\ BusyInv'
  OBVIOUS
<1>2. CASE Crashed
  <2>1. Abstract!Crash
    BY <1>2, KillIsCrash
  <2> QED
    BY <2>1 DEF Abstract!Next
<1>3. ASSUME Advances, SameWrites PROVE UNCHANGED <<Map, Pending>>
  BY <1>1, <1>3, MapStays, PendingStays DEF Advances, SameWrites
<1>4. CASE Calm /\ SameWrites
  BY <1>3, <1>4 DEF Calm
<1>5. ASSUME NEW t \in Threads, NEW k \in Keys, NEW tomb \in BOOLEAN,
             AppendEntry(t, k, tomb), pc[t] \notin WritePCs \cup MergePCs
      PROVE  Abstract!Next
  BY <1>1, <1>5, AppendBegins DEF Abstract!Next
<1>6. ASSUME NEW t \in Threads, UpdateKeydir(t) PROVE Abstract!Next
  BY <1>1, <1>6, UpdateTakesEffect DEF Abstract!Next
<1>7. ASSUME NEW t \in Threads, MergeEntry(t), IsLive(merging[t])
      PROVE  UNCHANGED <<Map, Pending>>
  <2>1. keydir' = keydir
    BY <1>7 DEF MergeEntry
  <2>2. SameWrites
    BY <1>1, <1>7, <2>1, MergeKeepsWrites DEF MergeStep
  <2> QED
    BY <1>1, <1>3, <1>7, <2>2, EntryAddsOne
<1>8. ASSUME NEW t \in Threads, MergeRepoint(t)
      PROVE  UNCHANGED <<Map, Pending>>
  <2>1. Map' = Map
    BY <1>1, <1>8, RepointKeepsValue DEF Map
  <2>2. Writing = {} /\ Writing' = {}
    <3>1. pc[t] \in MergePCs /\ (pc' = pc \/ \E l \in {"copy", "remove"} : pc' = [pc EXCEPT ![t] = l])
      BY <1>8 DEF MergeRepoint, Goto, MergePCs
    <3>2. pc \in [Threads -> PCs] /\ \A u \in Threads : pc[u] \notin WritePCs
      BY <1>1, <3>1, KeydirSays DEF IInv, ArgInv
    <3> QED
      BY <3>1, <3>2 DEF Writing, WritePCs
  <2> QED
    BY <2>1, <2>2 DEF Pending
<1>9. ASSUME NEW t \in Threads, MergeRemove(t)
      PROVE  UNCHANGED <<Map, Pending>>
  <2>1. UNCHANGED <<history, files, active_id, keydir>>
    BY <1>9 DEF MergeRemove
  <2>2. SameWrites
    BY <1>1, <1>9, <2>1, MergeKeepsWrites DEF MergeStep
  <2>3. Advances
    <3>1. Grows(files, files')
      BY <1>1, <2>1, GrowsReflexive DEF IInv, DiskInv
    <3> QED
      BY <1>1, <2>1, <3>1 DEF Advances, HistoryGrows, IInv, DiskInv, FilesOK
  <2> QED
    BY <1>3, <2>2, <2>3
<1>10. CASE Loud
  BY <1>5, <1>6, <1>7, <1>8, <1>9, <1>10 DEF Loud
<1> QED
  BY <1>1, <1>2, <1>4, <1>10, LoudOrCalm

\* In serial use, and while no machine loses power, the store with its merges is the map of
\* KvStore: a put or delete takes effect at once, at its keydir update; rotation, merge, get,
\* fold and sync change nothing; and a process that is killed and reopened has the map it
\* had, with the write in flight or without it (api.rs, trait Bitcask).
THEOREM StoreIsMap ==
    ASSUME SerialUse, KillsOnly
    PROVE  MergeSpec => ImplementsKvStore
<1>1. MergeInit => Abstract!Init
  <2> HAVE MergeInit
  <2>1. keydir = [k \in Keys |-> None] /\ \A t \in Threads : pc[t] = "idle"
    BY DEF MergeInit, Init, EmptyKeydir
  <2>2. Map = [k \in Keys |-> 0]
    BY <2>1 DEF Map, Visible, VersionAt
  <2>3. Pending = {}
    BY <2>1 DEF Pending, Writing
  <2> QED
    BY <2>2, <2>3 DEF Abstract!Init
<1>2. OneWriteInv /\ OneWriteInv' /\ [MergeNext]_allVars => [Abstract!Next]_<<Map, Pending>>
  BY StepRefines, StoreAssumption
<1>3. MergeSpec => []OneWriteInv
  BY OneWrite
<1> QED
  BY <1>1, <1>2, <1>3, PTL DEF MergeSpec, ImplementsKvStore, Abstract!Spec
-----------------------------------------------------------------------------
(* What a loss of power leaves.  Recovery goes by the last place that is     *)
(* left.  So that it finds the promised write, or a later one, no place      *)
(* holds an older write than a place below it, and some place on the medium  *)
(* holds one that is recent enough; or else all the places that are left are *)
(* recent enough, and the key is one that may be gone.  A merge keeps this   *)
(* up while it removes its inputs because its outputs are all synced by then.*)

\* Every put and delete is synced before it returns, and nobody calls sync.
SyncedUse == SyncOnPut = TRUE /\ Syncers = {}

\* The medium has all of file f; it has the place p.
SyncedIn(fs, f) == fs[f].synced = Len(fs[f].entries)
OnMedium(fs, p) == p.value_pos <= fs[p.file_id].synced

\* From place to place upwards the writes of a key never get older.
MonoInv ==
    \A k \in Keys : \A p, q \in Location :
        /\ IsPlace(files, linked, history, k, p) /\ IsPlace(files, linked, history, k, q)
        /\ UpTo(p, q)
        => EntryIn(files, p) <= EntryIn(files, q)

\* The active file is on the medium but for the write that is being synced, which is the
\* last of its file; and so is every output of a merge but the one it is writing.
CopyingPCs == {"copy", "repoint"}

ActiveOnMedium ==
    \/ SyncedIn(files, active_id)
    \/ \E t \in Threads : pc[t] = "sync" /\ arg[t].loc.file_id = active_id

WritesOnMedium ==
    \A t \in Threads :
        /\ pc[t] = "sync" => arg[t].loc.value_pos = Len(files[arg[t].loc.file_id].entries)
        /\ pc[t] = "update" => OnMedium(files, arg[t].loc)

OutputsOnMedium ==
    \A t \in Threads :
        /\ pc[t] \in CopyPCs => merging[t].out # active_id
        /\ pc[t] \in MergePCs => \A g \in linked \ (merging[t].inputs \cup {active_id}) :
              SyncedIn(files, g) \/ (g = merging[t].out /\ pc[t] \in CopyingPCs)

MediumInv == ActiveOnMedium /\ WritesOnMedium /\ OutputsOnMedium

\* A promise is about a write of its key; before the first one the key is promised to be gone.
PromiseOK(k) ==
    \/ promise[k].ver = 0 /\ promise[k].tomb
    \/ /\ promise[k].ver \in 1..Len(history)
       /\ history[promise[k].ver] = [key |-> k, tomb |-> promise[k].tomb]

\* The promise, or a later delete, allows the key to be gone.
MayBeGone(k) ==
    \/ promise[k].tomb
    \/ \E i \in promise[k].ver + 1..Len(history) : history[i].key = k /\ history[i].tomb

Recent(fs, k, p) == promise[k].ver <= EntryIn(fs, p)

Kept(k) ==
    \/ \E p \in Location : /\ IsPlace(files, linked, history, k, p)
                           /\ OnMedium(files, p) /\ Recent(files, k, p)
    \/ /\ MayBeGone(k)
       /\ \A p \in Location : IsPlace(files, linked, history, k, p) => Recent(files, k, p)

KeptInv ==
    /\ promise \in [Keys -> [ver : Nat, tomb : BOOLEAN]]
    /\ \A k \in Keys : PromiseOK(k) /\ Kept(k)

PowerInv == MonoInv /\ MediumInv /\ KeptInv

\* The entry at a place is the number of a write.
LEMMA PlaceHolds ==
    ASSUME NEW n \in Nat, NEW fs, FilesOK(fs, n), NEW p, InFile(fs, p)
    PROVE  EntryIn(fs, p) \in 1..n
<1>1. fs[p.file_id].entries \in Seq(1..n)
  BY DEF FilesOK, FileOf, InFile
<1>2. p.value_pos \in 1..Len(fs[p.file_id].entries)
  BY <1>1 DEF InFile, Location
<1> QED
  BY <1>1, <1>2 DEF EntryIn

\* A machine that loses power now finds what was promised.
LEMMA PowerFindsPromised ==
    ASSUME IInv, MonoInv, KeptInv
    PROVE  PromiseKept
<1> SUFFICES ASSUME NEW n \in KeptAfter("power"), NEW k \in Keys
             PROVE  LET back == RecoveredVersion(n, k) IN
                    IF back = 0 THEN MayBeGone(k)
                    ELSE IF promise[k].tomb THEN back > promise[k].ver
                    ELSE back >= promise[k].ver
  BY DEF PromiseKept, MayBeGone
<1> DEFINE back == RecoveredVersion(n, k)
           r == Recover(Disk(n))[k]
           v == promise[k].ver
           tomb == promise[k].tomb
<1>1. DiskInv /\ IsCut(n) /\ \A f \in linked : files[f].synced <= n[f]
  BY KeptIsCut DEF IInv, CrashKinds
<1>2. v \in Nat /\ tomb \in BOOLEAN /\ PromiseOK(k) /\ Kept(k)
  BY DEF KeptInv
<1>3. \/ r = None /\ \A p \in Location : ~InCut(n, k, p)
      \/ \E top \in Location :
            IsTop(n, k, top) /\ r = IF history[EntryIn(files, top)].tomb THEN None ELSE top
  BY <1>1, RecoveryTakesTop
<1>4. back = IF r = None THEN 0 ELSE EntryIn(files, r)
  BY DEF RecoveredVersion, VersionAt, EntryIn
<1> SUFFICES /\ back = 0 => MayBeGone(k)
             /\ back # 0 => v <= back /\ (tomb => v < back) /\ back \in Nat
  BY <1>2
<1>5. ASSUME NEW p \in Location, IsPlace(files, linked, history, k, p), OnMedium(files, p)
      PROVE  InCut(n, k, p)
  <2>1. p.file_id \in linked
    BY <1>5 DEF IsPlace
  <2>2. /\ n[p.file_id] \in Nat /\ files[p.file_id].synced \in Nat
        /\ files[p.file_id].synced <= n[p.file_id]
    BY <1>1, <2>1 DEF DiskInv, FilesOK, FileOf, IsCut
  <2> QED
    BY <1>5, <2>2 DEF InCut, OnMedium, Location
<1>6. CASE \A p \in Location : ~InCut(n, k, p)
  <2>1. back = 0
    BY <1>3, <1>4, <1>6 DEF IsTop
  <2>2. MayBeGone(k)
    BY <1>2, <1>5, <1>6 DEF Kept
  <2> QED
    BY <2>1, <2>2
<1>7. CASE \E p \in Location : InCut(n, k, p)
  <2>1. PICK top \in Location :
           IsTop(n, k, top) /\ r = IF history[EntryIn(files, top)].tomb THEN None ELSE top
    BY <1>3, <1>7
  <2> DEFINE e == EntryIn(files, top)
  <2>2. IsPlace(files, linked, history, k, top)
    BY <2>1 DEF IsTop, InCut
  <2>3. e \in 1..Len(history) /\ Len(history) \in Nat /\ history[e].key = k
    <3>1. InFile(files, top)
      BY <2>2 DEF IsPlace
    <3>2. e \in 1..Len(history)
      BY <1>1, <3>1, PlaceHolds DEF DiskInv
    <3> QED
      BY <1>1, <2>2, <3>2 DEF IsPlace, DiskInv
  <2>4. v <= e
    <3>1. CASE \E p \in Location : /\ IsPlace(files, linked, history, k, p)
                                   /\ OnMedium(files, p) /\ Recent(files, k, p)
      <4> PICK p \in Location : /\ IsPlace(files, linked, history, k, p)
                                /\ OnMedium(files, p) /\ Recent(files, k, p)
        BY <3>1
      <4>1. UpTo(p, top)
        BY <1>5, <2>1 DEF IsTop
      <4>2. EntryIn(files, p) <= e
        BY <2>2, <4>1 DEF MonoInv
      <4>3. EntryIn(files, p) \in 1..Len(history)
        BY <1>1, PlaceHolds DEF IsPlace, DiskInv
      <4> HIDE DEF e, v
      <4> QED
        BY <1>2, <2>3, <4>2, <4>3 DEF Recent, v
    <3> QED
      BY <1>2, <2>2, <3>1 DEF Kept, Recent
  <2>5. v = e => history[e].tomb = tomb
    BY <1>2, <2>3 DEF PromiseOK
  <2> HIDE DEF e, v, tomb, back
  <2>6. CASE history[e].tomb
    <3>1. back = 0
      BY <1>4, <2>1, <2>6 DEF e
    <3>2. ASSUME v = e PROVE MayBeGone(k)
      BY <2>5, <2>6, <3>2 DEF MayBeGone, tomb
    <3>3. ASSUME v # e PROVE MayBeGone(k)
      <4>1. e \in v + 1..Len(history)
        BY <1>2, <2>3, <2>4, <3>3
      <4> QED
        BY <2>3, <2>6, <4>1 DEF MayBeGone, v
    <3>4. MayBeGone(k)
      BY <3>2, <3>3
    <3> QED
      BY <3>1, <3>4
  <2>7. CASE ~history[e].tomb
    <3>1. back = e
      BY <1>4, <2>1, <2>7, NoneAssumption DEF e
    <3>2. tomb => v # e
      BY <2>5, <2>7
    <3> QED
      BY <1>2, <2>3, <2>4, <3>1, <3>2
  <2> QED
    BY <2>6, <2>7
<1> QED
  BY <1>6, <1>7
-----------------------------------------------------------------------------
(* The writes of a key stay in order.                                        *)

\* A place keeps its entry.
LEMMA EntryStays ==
    ASSUME DiskInv, Advances, NEW k, NEW p, IsPlace(files, linked, history, k, p)
    PROVE  EntryIn(files', p) = EntryIn(files, p) /\ EntryIn(files, p) \in 1..Len(history)
BY PlacesStay DEF IsPlace

\* With no new place.
LEMMA MonoStays ==
    ASSUME DiskInv, Advances, MonoInv,
           \A k \in Keys, p \in Location : IsPlace(files', linked', history', k, p)
                                              => IsPlace(files, linked, history, k, p)
    PROVE  MonoInv'
<1> SUFFICES ASSUME NEW k \in Keys, NEW p \in Location, NEW q \in Location, UpTo(p, q),
                    IsPlace(files', linked', history', k, p),
                    IsPlace(files', linked', history', k, q)
             PROVE  EntryIn(files', p) <= EntryIn(files', q)
  BY DEF MonoInv
<1>1. IsPlace(files, linked, history, k, p) /\ IsPlace(files, linked, history, k, q)
  OBVIOUS
<1>2. EntryIn(files, p) <= EntryIn(files, q)
  BY <1>1 DEF MonoInv
<1> QED
  BY <1>1, <1>2, EntryStays

\* With one that fits in.
FitsIn(x) ==
    \A k \in Keys, p \in Location :
        /\ IsPlace(files', linked', history', k, x) /\ IsPlace(files, linked, history, k, p)
        => /\ UpTo(p, x) => EntryIn(files, p) <= EntryIn(files', x)
           /\ UpTo(x, p) => EntryIn(files', x) <= EntryIn(files, p)

LEMMA MonoFits ==
    ASSUME DiskInv, Advances, MonoInv, NEW x \in Location, FitsIn(x),
           \A k \in Keys, p \in Location :
              IsPlace(files', linked', history', k, p) /\ p # x
                 => IsPlace(files, linked, history, k, p)
    PROVE  MonoInv'
<1> SUFFICES ASSUME NEW k \in Keys, NEW p \in Location, NEW q \in Location, UpTo(p, q),
                    IsPlace(files', linked', history', k, p),
                    IsPlace(files', linked', history', k, q)
             PROVE  EntryIn(files', p) <= EntryIn(files', q)
  BY DEF MonoInv
<1>1. CASE p # x /\ q # x
  <2>1. IsPlace(files, linked, history, k, p) /\ IsPlace(files, linked, history, k, q)
    BY <1>1
  <2>2. EntryIn(files, p) <= EntryIn(files, q)
    BY <2>1 DEF MonoInv
  <2> QED
    BY <2>1, <2>2, EntryStays
<1>2. CASE p = x /\ q = x
  <2>1. EntryIn(files', x) \in 1..Len(history')
    BY <1>2, PlaceHolds DEF IsPlace, Advances, DiskInv
  <2>2. EntryIn(files', x) <= EntryIn(files', x)
    BY <2>1
  <2> QED
    BY <1>2, <2>2
<1>3. CASE p # x /\ q = x
  <2>1. IsPlace(files, linked, history, k, p)
    BY <1>3
  <2>2. EntryIn(files, p) <= EntryIn(files', x)
    BY <1>3, <2>1 DEF FitsIn
  <2> QED
    BY <1>3, <2>1, <2>2, EntryStays
<1>4. CASE p = x /\ q # x
  <2>1. IsPlace(files, linked, history, k, q)
    BY <1>4
  <2>2. EntryIn(files', x) <= EntryIn(files, q)
    BY <1>4, <2>1 DEF FitsIn
  <2> QED
    BY <1>4, <2>1, <2>2, EntryStays
<1> QED
  BY <1>1, <1>2, <1>3, <1>4

\* An append puts the newest write on top.
LEMMA AppendMono ==
    ASSUME SerialUse, StoreAssumption, IInv, OrderInv, BusyInv, BusyInv', MonoInv,
           NEW t \in Threads, NEW k \in Keys, NEW tomb \in BOOLEAN,
           AppendEntry(t, k, tomb), pc[t] \notin WritePCs \cup MergePCs
    PROVE  MonoInv'
<1>1. /\ Advances /\ OnOS(files', NewPlace) /\ EntryIn(files', NewPlace) = NewWrite /\ DiskInv
  BY AppendAdvances DEF IInv
<1>2. /\ OneEntryMore(active_id, NewWrite)
      /\ pc' = [pc EXCEPT ![t] = IF SyncOnPut THEN "sync" ELSE "update"]
  BY AppendAddsOne
<1>3. \A f \in linked : f <= active_id
  BY <1>2, AppendsToNewest DEF WritePCs
<1>4. NewPlace \in Location /\ NewPlace = NextPlace(active_id)
  BY <1>1 DEF OnOS, InFile, NewPlace, NextPlace
<1>5. ASSUME NEW j \in Keys, NEW p \in Location,
             IsPlace(files', linked', history', j, p), p # NewPlace
      PROVE  IsPlace(files, linked, history, j, p)
  BY <1>1, <1>2, <1>4, <1>5, OneNewPlace
<1>6. FitsIn(NewPlace)
  <2> SUFFICES ASSUME NEW j \in Keys, NEW p \in Location,
                      IsPlace(files', linked', history', j, NewPlace),
                      IsPlace(files, linked, history, j, p)
               PROVE  /\ UpTo(p, NewPlace) => EntryIn(files, p) <= EntryIn(files', NewPlace)
                      /\ UpTo(NewPlace, p) => EntryIn(files', NewPlace) <= EntryIn(files, p)
    BY DEF FitsIn
  <2>1. EntryIn(files, p) \in 1..Len(history) /\ Len(history) \in Nat
    BY <1>1, EntryStays DEF DiskInv
  <2>2. EntryIn(files, p) <= EntryIn(files', NewPlace)
    BY <1>1, <2>1 DEF NewWrite
  <2>3. ~UpTo(NewPlace, p)
    <3>1. p.file_id \in linked /\ p.file_id \in Nat /\ active_id \in Nat
      BY <1>1 DEF IsPlace, DiskInv, FilesOK
    <3>2. p.value_pos <= Len(files[p.file_id].entries) /\ Len(files[p.file_id].entries) \in Nat
      BY <1>1, <3>1 DEF IsPlace, InFile, DiskInv, FilesOK, FileOf
    <3>3. p.file_id <= active_id /\ p.value_pos \in Nat
      BY <1>3, <3>1 DEF Location
    <3> QED
      BY <3>1, <3>2, <3>3 DEF UpTo, NewPlace
  <2> QED
    BY <2>2, <2>3
<1> QED
  BY <1>1, <1>4, <1>5, <1>6, MonoFits

\* A copy stands above the entry it is of, and everything from there on is the same write.
LEMMA EntryMono ==
    ASSUME IInv, IInv', PlacesInv, RiskInv, BusyInv, OldestInv, NewestInv, MonoInv,
           NEW t \in Threads, MergeEntry(t), IsLive(merging[t])
    PROVE  MonoInv'
<1> DEFINE out == merging[t].out
           e == EntryAt(merging[t])
           old == OldPlace(merging[t])
           x == NextPlace(out)
<1>1. Advances /\ OneEntryMore(out, e) /\ DiskInv /\ HistoryGrows
  BY EntryAddsOne DEF IInv, Advances
<1>2. pc[t] \in MergePCs /\ pc[t] = "copy" /\ merging[t].at <= merging[t].upto
      /\ merging[t].file \in merging[t].inputs
  BY MergeKnown DEF MergeEntry, MergePCs, OutputOK
<1>3. /\ e \in 1..Len(history) /\ InFile(files, old) /\ EntryIn(files, old) = e
      /\ keydir[history[e].key] = old /\ old.file_id = merging[t].file
  BY <1>2, EntryAtOK DEF IsLive, OldPlace
<1>4. old \in Location /\ old # None
  BY <1>3, NoneAssumption DEF InFile
<1>5. old.file_id < out
  BY <1>2, <1>3 DEF OldestInv, OldestOK, CopyPCs
<1> HIDE DEF old, e
<1>6. EntryIn(files', x) = e /\ x \in Location /\ x.file_id = out
  <2> DEFINE s == files[out].entries
  <2>1. out \in linked
    BY <1>1 DEF OneEntryMore
  <2>2. s \in Seq(1..Len(history)) /\ files'[out].entries = Append(s, e) /\ out \in Nat
    BY <1>1, <2>1 DEF OneEntryMore, DiskInv, FilesOK, FileOf
  <2>3. EntryIn(files', x) = files'[out].entries[Len(s) + 1]
    BY DEF EntryIn, NextPlace
  <2>4. x = [file_id |-> out, value_pos |-> Len(s) + 1]
    BY DEF NextPlace
  <2> HIDE DEF s, out, x
  <2> QED
    BY <1>3, <2>2, <2>3, <2>4 DEF Location
<1> HIDE DEF out, x
<1>7. UpTo(old, x)
  BY <1>5, <1>6 DEF UpTo
<1>8. ASSUME NEW j \in Keys, NEW p \in Location,
             IsPlace(files', linked', history', j, p), p # x
      PROVE  IsPlace(files, linked, history, j, p)
  BY <1>1, <1>8, OneNewPlace DEF x
<1>9. FitsIn(x)
  <2> SUFFICES ASSUME NEW j \in Keys, NEW p \in Location,
                      IsPlace(files', linked', history', j, x),
                      IsPlace(files, linked, history, j, p)
               PROVE  /\ UpTo(p, x) => EntryIn(files, p) <= e
                      /\ UpTo(x, p) => e <= EntryIn(files, p)
    BY <1>6 DEF FitsIn
  <2>1. history[e].key = j
    BY <1>1, <1>3, <1>6 DEF IsPlace, HistoryGrows
  <2>2. EntryIn(files, p) \in 1..Len(history)
    BY <1>1, PlaceHolds DEF IsPlace, DiskInv
  <2>3. Shows(files, linked, history, j, old)
    <3>1. Says(j, keydir[j])
      BY <1>2, KeydirSays
    <3> QED
      BY <1>3, <1>4, <2>1, <3>1 DEF NewestInv
  <2>4. UpTo(old, p) => EntryIn(files, p) = e
    BY <1>3, <1>4, <2>3 DEF Shows
  <2>5. UpTo(p, old) => EntryIn(files, p) <= e
    <3>1. IsPlace(files, linked, history, j, old)
      <4>1. old.file_id \in linked
        <5>1. Says(j, old)
          BY <1>2, <1>3, <2>1, KeydirSays
        <5> QED
          BY <1>4, <5>1, SaysHeld DEF Held
      <4> QED
        BY <1>3, <2>1, <4>1 DEF IsPlace
    <3> QED
      BY <1>3, <1>4, <3>1 DEF MonoInv
  <2>6. UpTo(p, x) => EntryIn(files, p) <= e
    BY <1>3, <1>4, <2>2, <2>4, <2>5, UpToOrder
  <2>7. UpTo(x, p) => EntryIn(files, p) = e
    BY <1>4, <1>6, <1>7, <2>4, UpToOrder
  <2> QED
    BY <1>3, <2>2, <2>6, <2>7
<1> QED
  BY <1>1, <1>6, <1>8, <1>9, MonoFits

\* A crash takes places away, as a removal does.
LEMMA CrashMono ==
    ASSUME DiskInv, NEW n, CutDown(n), MonoInv
    PROVE  MonoInv'
<1> SUFFICES ASSUME NEW k \in Keys, NEW p \in Location, NEW q \in Location, UpTo(p, q),
                    IsPlace(files', linked', history', k, p),
                    IsPlace(files', linked', history', k, q)
             PROVE  EntryIn(files', p) <= EntryIn(files', q)
  BY DEF MonoInv
<1>1. InCut(n, k, p) /\ InCut(n, k, q)
  BY PlacesLeft
<1>2. EntryIn(files', p) = EntryIn(files, p) /\ EntryIn(files', q) = EntryIn(files, q)
  BY <1>1, PlacesLeft
<1> QED
  BY <1>1, <1>2 DEF InCut, MonoInv

\* The steps but a crash, by what they do to the places: nothing, a new write, a copy, a removal.
Appends == \E t \in Threads, k \in Keys, tomb \in BOOLEAN :
              AppendEntry(t, k, tomb) /\ pc[t] \notin WritePCs \cup MergePCs
Copies  == \E t \in Threads : MergeEntry(t) /\ IsLive(merging[t])
Removes == \E t \in Threads : MergeRemove(t)

LEMMA FourKinds ==
    ASSUME SerialUse, IInv, [MergeNext]_allVars, ~Crashed
    PROVE  Calm \/ Appends \/ Copies \/ Removes
<1>1. ASSUME NEW t \in Threads, UpdateKeydir(t) \/ MergeRepoint(t) PROVE Calm
  <2>1. UNCHANGED diskVars
    BY <1>1 DEF UpdateKeydir, MergeRepoint
  <2> QED
    BY <2>1, IdleCalm DEF IInv
<1> QED
  BY <1>1, LoudOrCalm DEF Loud, Appends, Copies, Removes

\* What a crash leaves is a cut, with all that was on the medium.
LEMMA CrashKeeps ==
    ASSUME IInv, Crashed
    PROVE  \E n : /\ Reopened(n)
                  /\ \A f \in linked : files[f].synced <= n[f] /\ files[f].synced <= files'[f].synced
                  /\ active_id' \in linked' /\ SyncedIn(files', active_id')
<1>1. PICK kind \in CrashKinds : CrashAndOpen(kind)
  BY DEF Crashed
<1>2. PICK n \in KeptAfter(kind) :
         /\ files' = WithFile([f \in linked |-> KeptFile(n, kind, f)], Max(linked) + 1)
         /\ linked' = linked \cup {Max(linked) + 1} /\ active_id' = Max(linked) + 1
         /\ next_file_id' = Max(linked) + 1 + 1 /\ history' = history
         /\ keydir' = Recover(Disk(n))
  BY <1>1 DEF CrashAndOpen, KeptFile
<1>3. DiskInv
  BY DEF IInv
<1>4. Max(linked) \in Nat /\ \A f \in linked : f <= Max(linked) /\ f \in Nat
  <2>1. IsFiniteSet(linked) /\ linked \subseteq Nat /\ linked # {}
    BY <1>3 DEF DiskInv, FilesOK
  <2> QED
    BY <2>1, MaxIsGreatest
<1>5. next_file_id' = Max(linked) + 2
  BY <1>2, <1>4
<1>6. Reopened(n)
  BY <1>2, <1>3, <1>5, CrashReopens
<1>7. \A f \in linked : files'[f] = KeptFile(n, kind, f)
  BY <1>2, <1>3, <1>5, ReopenedOK
<1>8. \A f \in linked : /\ files[f].synced <= n[f] /\ files[f].synced \in Nat
                        /\ files[f].synced <= files'[f].synced
  <2>1. \A f \in linked : files[f].synced <= n[f]
    BY <1>3, KeptIsCut
  <2>2. \A f \in linked : files[f].synced \in Nat
    <3> TAKE f \in linked
    <3>1. f \in DOMAIN files
      BY <1>3 DEF DiskInv
    <3>2. files[f] \in FileOf(Len(history))
      BY <1>3, <3>1 DEF DiskInv, FilesOK
    <3> QED
      BY <3>2 DEF FileOf
  <2> TAKE f \in linked
  <2> DEFINE s == IF kind = "kill" THEN files[f].synced ELSE n[f]
  <2>3. files'[f].synced = s
    <3> HIDE DEF s
    <3>1. KeptFile(n, kind, f).synced = s
      BY DEF KeptFile, s
    <3> QED
      BY <1>7, <3>1
  <2> QED
    BY <2>1, <2>2, <2>3
<1>9. SyncedIn(files', active_id')
  <2> DEFINE top == Max(linked) + 1
             gs == [f \in linked |-> KeptFile(n, kind, f)]
  <2>1. top \notin linked
    BY <1>4
  <2>2. files' = WithFile(gs, top) /\ DOMAIN gs = linked /\ active_id' = top
    BY <1>2
  <2> HIDE DEF gs, top
  <2>3. files'[top] = EmptyFile
    BY <2>1, <2>2 DEF WithFile
  <2> QED
    BY <2>2, <2>3 DEF SyncedIn, EmptyFile
<1> QED
  BY <1>2, <1>6, <1>8, <1>9

LEMMA MonoStep ==
    ASSUME SerialUse, StoreAssumption, SerialInv, IInv', BusyInv, BusyInv', OldestInv, NewestInv,
           MonoInv, [MergeNext]_allVars
    PROVE  MonoInv'
<1>1. IInv /\ OrderInv /\ PlacesInv /\ RiskInv /\ DiskInv
  BY DEF SerialInv, OrderedInv, IInv
<1>2. CASE Crashed
  BY <1>1, <1>2, CrashKeeps, CrashMono DEF Reopened
<1>3. CASE Calm
  BY <1>1, <1>3, MonoStays, NoNewPlaces DEF Calm
<1>4. CASE Appends
  BY <1>1, <1>4, AppendMono DEF Appends
<1>5. CASE Copies
  BY <1>1, <1>5, EntryMono DEF Copies
<1>6. CASE Removes
  <2>1. files' = files /\ history' = history /\ linked' \subseteq linked
    BY <1>6 DEF Removes, MergeRemove
  <2> QED
    BY <2>1 DEF MonoInv, IsPlace
<1> QED
  BY <1>1, <1>2, <1>3, <1>4, <1>5, <1>6, FourKinds

-----------------------------------------------------------------------------
(* What is on the medium stays there.                                        *)

NoLess(fs, gs) == \A f \in DOMAIN fs : f \in DOMAIN gs /\ fs[f].synced <= gs[f].synced

LEMMA NoLessTransitive ==
    ASSUME NEW n, NEW fs, NEW gs, NEW hs, FilesOK(fs, n), FilesOK(gs, n), FilesOK(hs, n),
           NoLess(fs, gs), NoLess(gs, hs)
    PROVE  NoLess(fs, hs)
<1> SUFFICES ASSUME NEW f \in DOMAIN fs
             PROVE  f \in DOMAIN hs /\ fs[f].synced <= hs[f].synced
  BY DEF NoLess
<1>1. f \in DOMAIN gs /\ f \in DOMAIN hs
  BY DEF NoLess
<1>2. fs[f].synced \in Nat /\ gs[f].synced \in Nat /\ hs[f].synced \in Nat
  BY <1>1 DEF FilesOK, FileOf
<1> QED
  BY <1>1, <1>2 DEF NoLess

LEMMA FilesNoLess ==
    ASSUME NEW n \in Nat, NEW fs, FilesOK(fs, n), NEW f \in DOMAIN fs, NEW v
    PROVE  /\ NoLess(fs, WithEntry(fs, f, v))
           /\ NoLess(fs, WithBuffered(fs, f, v))
           /\ NoLess(fs, WithSync(fs, f))
           /\ NoLess(fs, FlushOutput(fs, f))
           /\ \A h : NoLess(fs, WithFile(fs, h))
           /\ NoLess(fs, fs)
<1>1. \A g \in DOMAIN fs : /\ fs[g].synced \in Nat /\ fs[g].flushed \in Nat
                           /\ Len(fs[g].entries) \in Nat /\ fs[g] \in FileOf(n)
                           /\ fs[g].synced <= Len(fs[g].entries)
  BY DEF FilesOK, FileOf
<1>2. NoLess(fs, WithEntry(fs, f, v))
  BY <1>1 DEF NoLess, WithEntry
<1>3. NoLess(fs, WithBuffered(fs, f, v))
  BY <1>1 DEF NoLess, WithBuffered, FileOf
<1>4. NoLess(fs, WithSync(fs, f))
  BY <1>1 DEF NoLess, WithSync
<1>5. NoLess(fs, FlushOutput(fs, f))
  BY <1>1 DEF NoLess, FlushOutput, FileOf
<1>6. (\A h : NoLess(fs, WithFile(fs, h))) /\ NoLess(fs, fs)
  BY <1>1 DEF NoLess, WithFile
<1> QED
  BY <1>2, <1>3, <1>4, <1>5, <1>6

\* In every step but a crash.
LEMMA SyncsStay ==
    ASSUME SerialUse, IInv, PlacesInv, [MergeNext]_allVars, ~Crashed
    PROVE  NoLess(files, files')
<1> DEFINE N == Len(history)
           a == active_id
<1>1. /\ DiskInv /\ N \in Nat /\ FilesOK(files, N) /\ a \in DOMAIN files
      /\ (\A v, fs : NoLess(files, files))
  BY FilesNoLess DEF IInv, DiskInv
<1>2. ASSUME files' = files PROVE NoLess(files, files')
  BY <1>1, <1>2
<1>3. ASSUME NEW n \in Nat, NEW fs, FilesOK(fs, n), FilesOK(files, n), NEW f \in DOMAIN fs,
             NoLess(files, fs), FilesOK(WithSync(fs, f), n)
      PROVE  /\ NoLess(files, WithSync(fs, f))
             /\ NoLess(files, WithFile(WithSync(fs, f), next_file_id))
  <2> DEFINE gs == WithSync(fs, f)
             hs == WithFile(gs, next_file_id)
  <2>1. NoLess(fs, gs)
    BY <1>3, FilesNoLess
  <2>2. NoLess(files, gs)
    BY <1>3, <2>1, NoLessTransitive
  <2> HIDE DEF gs
  <2>3. DOMAIN files \subseteq DOMAIN gs
    BY <2>2 DEF NoLess
  <2>4. \A g \in DOMAIN gs : hs[g] = gs[g] /\ g \in DOMAIN hs
    BY DEF WithFile
  <2> HIDE DEF hs
  <2>5. NoLess(files, hs)
    BY <2>2, <2>3, <2>4 DEF NoLess
  <2> QED
    BY <2>2, <2>5 DEF gs, hs
<1>4. ASSUME RotateActive(files) PROVE NoLess(files, files')
  <2>1. files' = WithFile(WithSync(files, a), next_file_id)
    BY <1>4 DEF RotateActive
  <2>2. FilesOK(WithSync(files, a), N)
    BY <1>1, WithSyncOK
  <2> QED
    BY <1>1, <1>3, <2>1, <2>2
<1>5. ASSUME NEW t \in Threads, NEW k \in Keys, NEW tomb \in BOOLEAN, AppendEntry(t, k, tomb)
      PROVE  NoLess(files, files')
  <2> DEFINE fs == WithEntry(files, a, N + 1)
  <2>1. files' = fs \/ files' = WithFile(WithSync(fs, a), next_file_id)
    <3>1. ~Fault("write")
      BY DEF SerialUse, Fault
    <3> QED
      BY <1>5, <3>1 DEF AppendEntry, RotationFails, RotateActive
  <2>2. N + 1 \in Nat /\ N + 1 \in 1..N + 1 /\ FilesOK(files, N + 1)
    BY <1>1, FilesOKUpTo
  <2>3. FilesOK(fs, N + 1) /\ DOMAIN fs = DOMAIN files
    BY <1>1, <2>2, WithEntryOK
  <2>4. NoLess(files, fs)
    BY <1>1, FilesNoLess
  <2> HIDE DEF fs
  <2>5. FilesOK(WithSync(fs, a), N + 1)
    BY <1>1, <2>2, <2>3, WithSyncOK
  <2>6. NoLess(files, WithFile(WithSync(fs, a), next_file_id))
    BY <1>1, <1>3, <2>2, <2>3, <2>4, <2>5
  <2> QED
    BY <2>1, <2>4, <2>6
<1>6. ASSUME NEW t \in Threads, SyncWrite(t) PROVE NoLess(files, files')
  <2>1. PICK f, p : /\ files' = [files EXCEPT ![f].synced = IF p > @ THEN p ELSE @]
                    /\ p \in Nat /\ f \in DOMAIN files
    <3>1. ~Fault("write")
      BY DEF SerialUse, Fault
    <3>2. OnOS(files, arg[t].loc)
      BY <1>6 DEF SyncWrite, IInv, ArgInv, WriteOK, WritePCs
    <3> QED
      BY <1>6, <3>1, <3>2 DEF SyncWrite, OnOS, InFile, Location
  <2>2. \A g \in DOMAIN files : files[g] \in FileOf(N) /\ files[g].synced \in Nat
    BY <1>1 DEF FilesOK, FileOf
  <2>3. \A g \in DOMAIN files : files'[g].synced = IF g = f /\ p > files[g].synced THEN p
                                                   ELSE files[g].synced
    BY <2>1, <2>2 DEF FileOf
  <2> QED
    BY <2>1, <2>2, <2>3 DEF NoLess
<1>7. ASSUME NEW t \in Threads, Sync(t) PROVE NoLess(files, files')
  BY <1>1, <1>7, FilesNoLess DEF Sync
<1>8. ASSUME NEW t \in Threads, MergeStep(t) PROVE NoLess(files, files')
  <2> DEFINE out == merging[t].out
             fs == WithBuffered(files, out, EntryAt(merging[t]))
  <2>1. ~MergeFails(t)
    BY DEF MergeFails, Fault, SerialUse
  <2>2. CASE MergeOpen(t)
    BY <1>1, <2>2, FilesNoLess DEF MergeOpen
  <2>3. CASE MergeEntry(t)
    <3>1. /\ pc[t] = "copy" /\ merging[t].at <= merging[t].upto
          /\ \/ files' = files
             \/ files' \in {fs, FlushOutput(fs, out), WithFile(WithSync(fs, out), next_file_id)}
      BY <2>3 DEF MergeEntry, RotateOutput
    <3>2. out \in DOMAIN files /\ EntryAt(merging[t]) \in 1..N
      BY <3>1, EntryAtOK, MergeKnown DEF OutputOK, CopyPCs, MergePCs
    <3>3. FilesOK(fs, N) /\ DOMAIN fs = DOMAIN files /\ NoLess(files, fs)
      BY <1>1, <3>2, WithBufferedOK, FilesNoLess
    <3> HIDE DEF fs, out
    <3>4. FilesOK(WithSync(fs, out), N) /\ FilesOK(FlushOutput(fs, out), N)
      BY <1>1, <3>2, <3>3, WithSyncOK, FlushOutputOK
    <3>5. NoLess(files, WithFile(WithSync(fs, out), next_file_id))
      BY <1>1, <1>3, <3>2, <3>3, <3>4
    <3>6. NoLess(fs, FlushOutput(fs, out))
      BY <1>1, <3>2, <3>3, FilesNoLess
    <3>7. NoLess(files, FlushOutput(fs, out))
      BY <1>1, <3>3, <3>4, <3>6, NoLessTransitive
    <3> QED
      BY <1>2, <3>1, <3>3, <3>5, <3>7
  <2>4. CASE MergeFinish(t)
    <3>1. out \in DOMAIN files /\ files' = WithSync(files, out)
      BY <2>4, MergeKnown DEF MergeFinish, OutputOK, CopyPCs, MergePCs
    <3> QED
      BY <1>1, <3>1, FilesNoLess
  <2>5. CASE MergeRestore(t)
    BY <1>2, <1>4, <2>5 DEF MergeRestore
  <2>6. CASE MergeRead(t)
    <3>1. out \in DOMAIN files /\ files' \in {files, FlushOutput(files, out)}
      BY <2>6, MergeKnown DEF MergeRead, OutputOK, CopyPCs, MergePCs
    <3> HIDE DEF out
    <3> QED
      BY <1>1, <3>1, FilesNoLess
  <2> QED
    <3>1. \/ MergeOpen(t) \/ MergeRead(t) \/ MergeEntry(t) \/ MergeFinish(t) \/ MergeRestore(t)
          \/ files' = files
      BY <1>8, <2>1 DEF MergeStep, MergeStart, MergeRepoint, MergeRemove, MergeForget, diskVars
    <3> QED
      BY <1>2, <2>2, <2>3, <2>4, <2>5, <2>6, <3>1
<1> QED
  <2>1. \A t \in Threads : \A K : DeleteCheck(t, K) \/ UpdateKeydir(t) \/ TakeEntries(t, K)
                                     \/ ReadValue(t, K) => files' = files
    BY DEF DeleteCheck, UpdateKeydir, TakeEntries, ReadValue, diskVars
  <2>2. UNCHANGED allVars => files' = files
    BY DEF allVars, vars, diskVars
  <2>3. \A t \in Threads : DeleteAppend(t) => arg[t].key \in Keys
    BY DEF DeleteAppend, IInv, ArgInv
  <2> QED
    BY <1>2, <1>5, <1>6, <1>7, <1>8, <2>1, <2>2, <2>3 DEF MergeNext, Crashed, Put, DeleteAppend

-----------------------------------------------------------------------------
(* The medium has everything but what is being written.                      *)

\* While one thread writes or merges the others are quiet.
LEMMA OthersQuiet ==
    ASSUME IInv, BusyInv, NEW t \in Threads, pc[t] \notin Quiet
    PROVE  \A u \in Threads \ {t} : pc[u] \in Quiet
BY DEF BusyInv, Quiet

\* A merge's step, by what it leaves.
LEMMA MergeMedium ==
    ASSUME IInv, NEW t \in Threads, SyncedIn(files', active_id'),
           NEW l \in MergePCs \cup {"idle"}, pc'[t] = l,
           \A u \in Threads \ {t} : pc'[u] \in Quiet,
           l \in CopyPCs => merging'[t].out # active_id',
           l \in MergePCs => \A g \in linked' \ (merging'[t].inputs \cup {active_id'}) :
               SyncedIn(files', g) \/ (g = merging'[t].out /\ l \in CopyingPCs)
    PROVE  MediumInv'
<1>1. ActiveOnMedium'
  BY DEF ActiveOnMedium
<1>2. \A u \in Threads : pc'[u] \notin WritePCs
  BY DEF MergePCs, Quiet, WritePCs
<1>3. WritesOnMedium'
  BY <1>2 DEF WritesOnMedium, WritePCs
<1>4. \A u \in Threads : pc'[u] \in MergePCs \cup CopyPCs => u = t
  BY DEF MergePCs, Quiet, CopyPCs, RepointPCs
<1>5. OutputsOnMedium'
  <2> SUFFICES ASSUME NEW u \in Threads
               PROVE  /\ pc'[u] \in CopyPCs => merging'[u].out # active_id'
                      /\ pc'[u] \in MergePCs =>
                            \A g \in linked' \ (merging'[u].inputs \cup {active_id'}) :
                               SyncedIn(files', g) \/ (g = merging'[u].out /\ pc'[u] \in CopyingPCs)
    BY DEF OutputsOnMedium
  <2>1. CASE u = t
    BY <2>1
  <2>2. CASE u # t
    BY <1>4, <2>2
  <2> QED
    BY <2>1, <2>2
<1> QED
  BY <1>1, <1>3, <1>5 DEF MediumInv

\* A merge's step finds the active file on the medium.
LEMMA MergeFinds ==
    ASSUME IInv, BusyInv, MediumInv, NEW t \in Threads, pc[t] \in MergePCs, MergeStep(t)
    PROVE  /\ SyncedIn(files, active_id)
           /\ \A u \in Threads \ {t} : pc'[u] \in Quiet
           /\ pc[t] \in CopyPCs => merging[t].out # active_id
           /\ \A g \in linked \ (merging[t].inputs \cup {active_id}) :
                 SyncedIn(files, g) \/ (g = merging[t].out /\ pc[t] \in CopyingPCs)
<1>1. pc[t] \notin Quiet /\ pc[t] # "sync"
  BY DEF MergePCs, Quiet
<1>2. \A u \in Threads \ {t} : pc[u] \in Quiet /\ pc'[u] = pc[u]
  BY <1>1, OthersQuiet, OneMoves
<1>3. \A u \in Threads : pc[u] # "sync"
  BY <1>1, <1>2 DEF Quiet
<1> QED
  BY <1>2, <1>3 DEF MediumInv, ActiveOnMedium, OutputsOnMedium

\* The start: no output yet.
LEMMA StartMedium ==
    ASSUME SerialUse, IInv, AloneInv, BusyInv, OrderInv, MediumInv,
           NEW t \in Threads, MergeStart(t)
    PROVE  MediumInv'
<1>1. /\ pc[t] = "idle" /\ pc'[t] = "open" /\ linked' = linked /\ t \in Mergers /\ MayStart(t)
      /\ merging'[t].inputs = InputIds /\ UNCHANGED <<files, active_id>>
  BY StartMoves DEF MergeStart, diskVars
<1>2. \A u \in Threads : pc[u] \in Quiet
  BY <1>1, StartsAlone
<1>3. \A u \in Threads \ {t} : pc'[u] \in Quiet
  BY <1>2, OneMoves DEF MergeStep
<1>4. \A f \in linked : f <= active_id
  <2>1. faults = 0 /\ \A u \in Threads : pc[u] \notin MergePCs
    BY <1>2 DEF BusyInv, Quiet, MergePCs
  <2> QED
    BY <2>1 DEF OrderInv
<1>5. linked \ (InputIds \cup {active_id}) = {}
  <2>1. linked \subseteq Nat /\ active_id \in Nat
    BY DEF IInv, DiskInv, FilesOK
  <2>2. \A f \in linked : f \in InputIds \/ f = active_id
    BY <1>4, <2>1 DEF InputIds
  <2> QED
    BY <2>2
<1>6. SyncedIn(files, active_id)
  BY <1>2 DEF MediumInv, ActiveOnMedium, Quiet
<1>7. "open" \in MergePCs /\ "open" \notin CopyPCs
  BY DEF MergePCs, CopyPCs, RepointPCs
<1> QED
  BY <1>1, <1>3, <1>5, <1>6, <1>7, MergeMedium

\* Steps that leave the files alone.
LEMMA IdleMedium ==
    ASSUME IInv, BusyInv, MediumInv, NEW t \in Threads, pc[t] \in MergePCs, MergeStep(t),
           UNCHANGED <<files, active_id>>, linked' \subseteq linked,
           NEW l \in MergePCs \cup {"idle"}, pc'[t] = l,
           l \in MergePCs => merging'[t].inputs = merging[t].inputs,
           l \in CopyPCs => pc[t] \in CopyPCs /\ merging'[t].out = merging[t].out,
           pc[t] \in CopyingPCs => l \in CopyingPCs \cup {"idle"}
    PROVE  MediumInv'
<1>1. /\ SyncedIn(files', active_id')
      /\ \A u \in Threads \ {t} : pc'[u] \in Quiet
  BY MergeFinds
<1>2. l \in CopyPCs => merging'[t].out # active_id'
  BY MergeFinds
<1>3. CopyingPCs \subseteq CopyPCs /\ "idle" \notin MergePCs
  BY DEF CopyingPCs, CopyPCs, RepointPCs, MergePCs
<1>4. ASSUME l \in MergePCs, NEW g \in linked' \ (merging'[t].inputs \cup {active_id'})
      PROVE  SyncedIn(files', g) \/ (g = merging'[t].out /\ l \in CopyingPCs)
  <2>1. SyncedIn(files, g) \/ (g = merging[t].out /\ pc[t] \in CopyingPCs)
    BY <1>4, MergeFinds
  <2>2. pc[t] \in CopyingPCs => l \in CopyingPCs /\ merging'[t].out = merging[t].out
    BY <1>3, <1>4
  <2> QED
    BY <2>1, <2>2
<1> QED
  BY <1>1, <1>2, <1>4, MergeMedium

\* A merge that is alone finds its input.
LEMMA AloneReads ==
    ASSUME IInv, PlacesInv, NEW t \in Threads, MergeRead(t)
    PROVE  /\ pc[t] = "copy" /\ pc'[t] = "copy" /\ UNCHANGED <<files, linked, active_id>>
           /\ merging'[t].inputs = merging[t].inputs /\ merging'[t].out = merging[t].out
<1>1. pc[t] = "copy" /\ merging[t].rest # {} /\ pc[t] \in MergePCs
  BY DEF MergeRead, MergePCs
<1>2. Min(merging[t].rest) \in linked
  <2> DEFINE S == merging[t].rest
  <2>1. S \subseteq linked /\ S # {} /\ S \subseteq Nat
    BY <1>1 DEF PlacesInv, PlaceOK, IInv, DiskInv, FilesOK
  <2> HIDE DEF S
  <2>2. Min(S) \in S
    BY <2>1, MinIsLeast
  <2> QED
    BY <2>1, <2>2 DEF S
<1>3. UNCHANGED <<files, linked, active_id>>
  BY <1>2 DEF MergeRead
<1> QED
  BY <1>1, <1>2, <1>3, ReadMoves

\* Steps of a merge that write nothing.
LEMMA QuietMergeMedium ==
    ASSUME IInv, BusyInv, PlacesInv, MediumInv, NEW t \in Threads,
           \/ MergeRead(t) \/ (MergeEntry(t) /\ ~IsLive(merging[t]))
           \/ MergeRepoint(t) \/ MergeRemove(t) \/ MergeForget(t)
    PROVE  MediumInv'
<1>1. MergeStep(t)
  BY DEF MergeStep
<1>2. CASE MergeRead(t)
  <2>1. /\ pc[t] = "copy" /\ pc'[t] = "copy" /\ UNCHANGED <<files, linked, active_id>>
        /\ merging'[t].inputs = merging[t].inputs /\ merging'[t].out = merging[t].out
    BY <1>2, AloneReads
  <2> QED
    BY <1>1, <2>1, IdleMedium DEF MergePCs, CopyPCs, RepointPCs, CopyingPCs
<1>3. CASE MergeEntry(t) /\ ~IsLive(merging[t])
  <2>1. /\ pc[t] = "copy" /\ UNCHANGED <<files, active_id, linked, next_file_id, pc>>
        /\ merging' = [merging EXCEPT ![t] = [merging[t] EXCEPT !.at = @ + 1]]
    BY <1>3 DEF MergeEntry, SetMerge
  <2>2. merging \in [Threads -> MergeRec]
    BY DEF IInv, MergesInv
  <2>3. merging'[t].inputs = merging[t].inputs /\ merging'[t].out = merging[t].out
    BY <2>1, <2>2 DEF MergeRec
  <2> QED
    BY <1>1, <2>1, <2>3, IdleMedium DEF MergePCs, CopyPCs, RepointPCs, CopyingPCs
<1>4. CASE MergeRepoint(t)
  <2>1. UNCHANGED <<files, active_id>>
    BY <1>4 DEF MergeRepoint, diskVars
  <2>2. /\ pc[t] \in RepointPCs /\ linked' = linked
        /\ merging'[t].inputs = merging[t].inputs /\ merging'[t].out = merging[t].out
        /\ pc'[t] = pc[t] \/ pc'[t] = IF pc[t] = "repoint" THEN "copy" ELSE "remove"
    BY <1>4, RepointMoves
  <2> QED
    BY <1>1, <2>1, <2>2, IdleMedium DEF MergePCs, CopyPCs, RepointPCs, CopyingPCs
<1>5. CASE MergeRemove(t)
  <2>1. UNCHANGED <<files, active_id>>
    BY <1>5 DEF MergeRemove
  <2>2. pc[t] = "remove" /\ pc'[t] = "forget" /\ merging'[t] = merging[t] /\ linked' \subseteq linked
    BY <1>5, RemoveMoves
  <2> QED
    BY <1>1, <2>1, <2>2, IdleMedium DEF MergePCs, CopyPCs, RepointPCs, CopyingPCs
<1>6. CASE MergeForget(t)
  <2>1. UNCHANGED <<files, active_id>>
    BY <1>6 DEF MergeForget, diskVars
  <2>2. /\ pc[t] = "forget" /\ pc'[t] \in {"restore", "remove"} /\ linked' = linked
        /\ merging'[t].inputs = merging[t].inputs
    BY <1>6, ForgetMoves
  <2> QED
    BY <1>1, <2>1, <2>2, IdleMedium DEF MergePCs, CopyPCs, RepointPCs, CopyingPCs
<1> QED
  BY <1>2, <1>3, <1>4, <1>5, <1>6

\* A file nobody touches keeps what it has on the medium.
LEMMA SyncedUntouched ==
    ASSUME NEW fs, NEW gs, NEW g, gs[g] = fs[g], SyncedIn(fs, g)
    PROVE  SyncedIn(gs, g)
BY DEF SyncedIn

\* The first output is new.
LEMMA OpenMedium ==
    ASSUME IInv, BusyInv, MediumInv, NEW t \in Threads, MergeOpen(t)
    PROVE  MediumInv'
<1> DEFINE m == merging'[t]
           x == next_file_id
<1>1. /\ pc[t] = "open" /\ pc'[t] = "copy" /\ linked' = linked \cup {x}
      /\ m.inputs = merging[t].inputs /\ m.out = x
  BY OpenMoves
<1>2. files' = WithFile(files, x) /\ active_id' = active_id
  BY DEF MergeOpen
<1>3. pc[t] \in MergePCs /\ MergeStep(t) /\ pc[t] \notin CopyingPCs
      /\ "copy" \in MergePCs /\ "copy" \in CopyingPCs
  BY <1>1 DEF MergePCs, MergeStep, CopyingPCs
<1>4. /\ SyncedIn(files, active_id) /\ \A u \in Threads \ {t} : pc'[u] \in Quiet
      /\ \A g \in linked \ (merging[t].inputs \cup {active_id}) : SyncedIn(files, g)
  BY <1>3, MergeFinds
<1>5. active_id \in linked /\ linked \subseteq DOMAIN files /\ x \notin DOMAIN files
  BY DEF IInv, DiskInv
<1>6. \A g \in linked : files'[g] = files[g]
  BY <1>2, <1>5 DEF WithFile
<1>7. ASSUME NEW g \in linked' \ (m.inputs \cup {active_id'})
      PROVE  SyncedIn(files', g) \/ (g = m.out /\ "copy" \in CopyingPCs)
  <2>1. CASE g \in linked
    BY <1>1, <1>2, <1>4, <1>6, <1>7, <2>1, SyncedUntouched
  <2> QED
    BY <1>1, <1>3, <1>7, <2>1
<1>8. SyncedIn(files', active_id') /\ m.out # active_id'
  BY <1>1, <1>2, <1>4, <1>5, <1>6, SyncedUntouched
<1> QED
  BY <1>1, <1>3, <1>4, <1>7, <1>8, MergeMedium

\* A synced file is on the medium.
LEMMA SyncedNow ==
    ASSUME NEW n \in Nat, NEW fs, FilesOK(fs, n), NEW f \in DOMAIN fs
    PROVE  SyncedIn(WithSync(fs, f), f)
BY DEF WithSync, SyncedIn

\* A full output is synced before the next one is begun.
LEMMA EntryMedium ==
    ASSUME IInv, PlacesInv, BusyInv, MediumInv, NEW t \in Threads,
           MergeEntry(t), IsLive(merging[t])
    PROVE  MediumInv'
<1> DEFINE m == merging'[t]
           out == merging[t].out
           x == next_file_id
           fs == WithBuffered(files, out, EntryAt(merging[t]))
           ss == WithSync(fs, out)
           N == Len(history)
<1>1. /\ pc[t] = "copy" /\ merging[t].at <= merging[t].upto /\ active_id' = active_id
      /\ \/ files' = WithFile(ss, x) /\ linked' = linked \cup {x}
         \/ files' \in {fs, FlushOutput(fs, out)} /\ linked' = linked
  BY DEF MergeEntry, RotateOutput
<1>2. pc[t] \in MergePCs /\ pc[t] \in CopyPCs /\ MergeStep(t)
  BY <1>1 DEF MergePCs, MergeStep, CopyPCs
<1>3. /\ SyncedIn(files, active_id) /\ \A u \in Threads \ {t} : pc'[u] \in Quiet
      /\ out # active_id
      /\ \A g \in linked \ (merging[t].inputs \cup {active_id}) : SyncedIn(files, g) \/ g = out
  BY <1>2, MergeFinds
<1>4. /\ pc'[t] \in CopyingPCs /\ m.inputs = merging[t].inputs
      /\ \/ m.out = out /\ linked' = linked
         \/ m.out = x /\ linked' = linked \cup {x}
  BY EntryMoves DEF CopyingPCs
<1>5. pc'[t] \in MergePCs
  BY <1>4 DEF CopyingPCs, MergePCs
<1>6. /\ active_id \in linked /\ linked \subseteq DOMAIN files /\ x \notin DOMAIN files
      /\ FilesOK(files, N) /\ N \in Nat
  BY DEF IInv, DiskInv
<1>7. out \in DOMAIN files /\ EntryAt(merging[t]) \in 1..N
  BY <1>1, <1>2, EntryAtOK, MergeKnown DEF OutputOK
<1>8. FilesOK(fs, N) /\ DOMAIN fs = DOMAIN files /\ \A g \in linked \ {out} : fs[g] = files[g]
  BY <1>6, <1>7, WithBufferedOK
<1> HIDE DEF fs, m, out
<1>9. /\ SyncedIn(ss, out) /\ DOMAIN ss = DOMAIN files
      /\ \A g \in linked \ {out} : ss[g] = files[g] /\ FlushOutput(fs, out)[g] = files[g]
  <2>1. SyncedIn(ss, out)
    BY <1>6, <1>7, <1>8, SyncedNow
  <2>2. DOMAIN ss = DOMAIN files /\ \A g \in linked \ {out} : ss[g] = fs[g]
    BY <1>6, <1>7, <1>8, WithSyncOK
  <2>3. \A g \in linked \ {out} : FlushOutput(fs, out)[g] = fs[g]
    BY <1>6, <1>7, <1>8, FlushOutputOK
  <2> HIDE DEF ss
  <2> QED
    BY <1>8, <2>1, <2>2, <2>3
<1> HIDE DEF ss
<1>10. \A g \in linked \ {out} : files'[g] = files[g]
  <2>1. CASE files' = WithFile(ss, x)
    BY <1>6, <1>9, <2>1 DEF WithFile
  <2> QED
    BY <1>1, <1>8, <1>9, <2>1
<1>11. ASSUME NEW g \in linked' \ (m.inputs \cup {active_id'})
       PROVE  SyncedIn(files', g) \/ (g = m.out /\ pc'[t] \in CopyingPCs)
  <2>1. CASE g \in linked \ {out}
    BY <1>1, <1>3, <1>4, <1>10, <1>11, <2>1, SyncedUntouched
  <2>2. CASE g = out
    <3>1. CASE linked' = linked
      BY <1>4, <1>6, <2>2, <3>1
    <3>2. CASE linked' = linked \cup {x}
      <4>1. files' = WithFile(ss, x)
        BY <1>1, <1>6, <3>2
      <4>2. files'[out] = ss[out]
        BY <1>7, <1>9, <4>1 DEF WithFile
      <4> QED
        BY <1>9, <2>2, <4>2, SyncedUntouched
    <3> QED
      BY <1>4, <3>1, <3>2
  <2>3. CASE g = x
    BY <1>4, <1>6, <1>11, <2>3
  <2> QED
    BY <1>4, <1>11, <2>1, <2>2, <2>3
<1>12. SyncedIn(files', active_id')
  BY <1>1, <1>3, <1>6, <1>10, SyncedUntouched
<1>13. m.out # active_id'
  BY <1>1, <1>3, <1>4, <1>6
<1> QED
  BY <1>3, <1>5, <1>11, <1>12, <1>13, MergeMedium DEF m

\* The last output is synced before anything is removed.
LEMMA FinishMedium ==
    ASSUME IInv, PlacesInv, BusyInv, MediumInv, NEW t \in Threads, MergeFinish(t)
    PROVE  MediumInv'
<1> DEFINE m == merging'[t]
           out == merging[t].out
           N == Len(history)
<1>1. /\ pc[t] = "copy" /\ pc'[t] = "repoint_last" /\ linked' = linked
      /\ m.inputs = merging[t].inputs /\ m.out = out
  BY FinishMoves
<1>2. files' = WithSync(files, out) /\ active_id' = active_id
  BY DEF MergeFinish
<1>3. pc[t] \in MergePCs /\ pc[t] \in CopyPCs /\ MergeStep(t) /\ "repoint_last" \in MergePCs
  BY <1>1 DEF MergePCs, MergeStep, CopyPCs
<1>4. /\ SyncedIn(files, active_id) /\ \A u \in Threads \ {t} : pc'[u] \in Quiet
      /\ out # active_id
      /\ \A g \in linked \ (merging[t].inputs \cup {active_id}) : SyncedIn(files, g) \/ g = out
  BY <1>3, MergeFinds
<1>5. /\ active_id \in linked /\ linked \subseteq DOMAIN files
      /\ FilesOK(files, N) /\ N \in Nat /\ out \in DOMAIN files
  BY <1>3, MergeKnown DEF IInv, DiskInv, OutputOK
<1> HIDE DEF m, out
<1>6. SyncedIn(files', out) /\ \A g \in DOMAIN files \ {out} : files'[g] = files[g]
  BY <1>2, <1>5, SyncedNow, WithSyncOK
<1>7. ASSUME NEW g \in linked' \ (m.inputs \cup {active_id'}) PROVE SyncedIn(files', g)
  BY <1>1, <1>2, <1>4, <1>5, <1>6, <1>7, SyncedUntouched
<1>8. SyncedIn(files', active_id') /\ m.out # active_id'
  BY <1>1, <1>2, <1>4, <1>5, <1>6, SyncedUntouched
<1> QED
  BY <1>1, <1>3, <1>4, <1>7, <1>8, MergeMedium DEF m

\* A fresh active file is all on the medium.
LEMMA RotatedMedium ==
    ASSUME DiskInv, NEW fs, DOMAIN fs = DOMAIN files, files' = WithFile(fs, next_file_id),
           active_id' = next_file_id
    PROVE  SyncedIn(files', active_id')
<1>1. next_file_id \notin DOMAIN files
  BY DEF DiskInv
<1>2. files'[next_file_id] = EmptyFile
  BY <1>1 DEF WithFile
<1> QED
  BY <1>2 DEF SyncedIn, EmptyFile

LEMMA RestoreMedium ==
    ASSUME IInv, BusyInv, MediumInv, NEW t \in Threads, MergeRestore(t)
    PROVE  MediumInv'
<1>1. pc'[t] = "idle" /\ pc[t] = "restore"
  BY EndMoves DEF MergeRestore
<1>2. pc[t] \in MergePCs /\ MergeStep(t) /\ DiskInv
  BY <1>1 DEF MergePCs, MergeStep, IInv
<1>3. SyncedIn(files, active_id) /\ \A u \in Threads \ {t} : pc'[u] \in Quiet
  BY <1>2, MergeFinds
<1>4. SyncedIn(files', active_id')
  <2>1. CASE RotateActive(files)
    <3> DEFINE fs == WithSync(files, active_id)
    <3>1. DOMAIN fs = DOMAIN files
      BY DEF WithSync
    <3>2. files' = WithFile(fs, next_file_id) /\ active_id' = next_file_id
      BY <2>1 DEF RotateActive
    <3> HIDE DEF fs
    <3> QED
      BY <1>2, <3>1, <3>2, RotatedMedium
  <2> QED
    BY <1>3, <2>1 DEF MergeRestore
<1>5. "idle" \notin MergePCs /\ "idle" \notin CopyPCs
  BY DEF MergePCs, CopyPCs, RepointPCs
<1> QED
  BY <1>1, <1>3, <1>4, <1>5, MergeMedium

\* Calls that leave the files alone.
LEMMA CallMedium ==
    ASSUME MediumInv, UNCHANGED <<files, linked, active_id, merging>>,
           \A t \in Threads :
              /\ pc'[t] \in WritePCs => pc'[t] = pc[t] /\ arg'[t] = arg[t]
              /\ pc[t] = "sync" => pc'[t] = "sync" /\ arg'[t] = arg[t]
              /\ pc'[t] \in MergePCs => pc'[t] = pc[t]
    PROVE  MediumInv'
<1>1. ActiveOnMedium'
  BY DEF MediumInv, ActiveOnMedium
<1>2. WritesOnMedium'
  BY DEF MediumInv, WritesOnMedium, WritePCs
<1>3. OutputsOnMedium'
  <2>1. CopyPCs \subseteq MergePCs
    BY DEF CopyPCs, RepointPCs, MergePCs
  <2> QED
    BY <2>1 DEF MediumInv, OutputsOnMedium
<1> QED
  BY <1>1, <1>2, <1>3 DEF MediumInv

LEMMA QuietCallMedium ==
    ASSUME IInv, MediumInv, NEW t \in Threads, UNCHANGED mergeVars,
           \/ UpdateKeydir(t) \/ \E k \in Keys : DeleteCheck(t, k)
           \/ \E K : TakeEntries(t, K) \/ ReadValue(t, K)
    PROVE  MediumInv'
<1>1. pc \in [Threads -> PCs] /\ arg \in [Threads -> Arg] /\ merging' = merging
  BY DEF IInv, ArgInv, mergeVars
<1>2. CASE UpdateKeydir(t)
  <2>1. /\ pc[t] = "update" /\ UNCHANGED diskVars
        /\ pc' = [pc EXCEPT ![t] = "idle"] /\ arg' = [arg EXCEPT ![t] = NoArg]
    BY <1>2 DEF UpdateKeydir, Return
  <2> QED
    BY <1>1, <2>1, CallMedium DEF diskVars, WritePCs, MergePCs
<1>3. CASE \E k \in Keys : DeleteCheck(t, k)
  <2>1. /\ pc[t] = "idle" /\ UNCHANGED diskVars /\ pc' = [pc EXCEPT ![t] = "delete"]
        /\ \E k \in Keys : arg' = [arg EXCEPT ![t].key = k]
    BY <1>3 DEF DeleteCheck, MayStart
  <2> QED
    BY <1>1, <2>1, CallMedium DEF diskVars, WritePCs, MergePCs
<1>4. CASE \E K : TakeEntries(t, K) \/ ReadValue(t, K)
  <2>1. /\ UNCHANGED <<diskVars, arg>> /\ pc[t] \in Quiet
        /\ \E l \in Quiet : pc' = [pc EXCEPT ![t] = l]
    BY <1>4 DEF TakeEntries, ReadValue, MayStart, Quiet
  <2> QED
    BY <1>1, <2>1, CallMedium DEF diskVars, WritePCs, MergePCs, Quiet
<1> QED
  BY <1>2, <1>3, <1>4

\* An append leaves its entry last in its file, to be synced next.
LEMMA AppendMedium ==
    ASSUME SerialUse, SyncedUse, StoreAssumption, IInv, IInv', BusyInv',
           NEW t \in Threads, NEW k \in Keys, NEW tomb \in BOOLEAN,
           AppendEntry(t, k, tomb), pc[t] \notin WritePCs \cup MergePCs
    PROVE  MediumInv'
<1> DEFINE a == active_id
           fs == WithEntry(files, a, NewWrite)
           gs == WithSync(fs, a)
<1>1. /\ OneEntryMore(a, NewWrite) /\ pc' = [pc EXCEPT ![t] = "sync"]
      /\ arg' = [arg EXCEPT ![t] = [key |-> k, ver |-> NewWrite, loc |-> NewPlace]]
  BY AppendAddsOne DEF SyncedUse
<1>2. /\ pc'[t] = "sync" /\ arg'[t].loc.file_id = a
      /\ arg'[t].loc.value_pos = Len(files[a].entries) + 1
  BY <1>1 DEF IInv, ArgInv, NewPlace
<1>3. \A u \in Threads : pc'[u] \notin Quiet => u = t
  BY <1>2 DEF BusyInv, Quiet
<1>4. DiskInv
  BY DEF IInv
<1>5. ActiveOnMedium'
  <2>1. ~Fault("write")
    BY DEF SerialUse, Fault
  <2>2. \/ active_id' = a
        \/ files' = WithFile(gs, next_file_id) /\ active_id' = next_file_id
    BY <2>1 DEF AppendEntry, RotationFails, RotateActive, NewWrite
  <2>3. CASE active_id' = a
    BY <1>2, <2>3 DEF ActiveOnMedium
  <2>4. CASE files' = WithFile(gs, next_file_id) /\ active_id' = next_file_id
    <3>1. DOMAIN gs = DOMAIN files
      BY DEF WithSync, WithEntry
    <3> HIDE DEF gs
    <3>2. SyncedIn(files', active_id')
      BY <1>4, <2>4, <3>1, RotatedMedium
    <3> QED
      BY <3>2 DEF ActiveOnMedium
  <2> QED
    BY <2>2, <2>3, <2>4
<1>6. WritesOnMedium'
  <2>1. \A u \in Threads : pc'[u] \in {"sync", "update"} => u = t
    BY <1>3 DEF Quiet
  <2>2. Len(files'[a].entries) = Len(files[a].entries) + 1
    <3>1. files[a].entries \in Seq(1..Len(history))
      BY <1>4 DEF DiskInv, FilesOK, FileOf
    <3> QED
      BY <1>1, <3>1 DEF OneEntryMore
  <2> QED
    BY <1>2, <2>1, <2>2 DEF WritesOnMedium
<1>7. OutputsOnMedium'
  <2>1. \A u \in Threads : pc'[u] \notin MergePCs \cup CopyPCs
    BY <1>2, <1>3 DEF Quiet, MergePCs, CopyPCs, RepointPCs
  <2> QED
    BY <2>1 DEF OutputsOnMedium
<1> QED
  BY <1>5, <1>6, <1>7 DEF MediumInv

\* The sync brings all of its file onto the medium.
LEMMA SyncWriteMedium ==
    ASSUME SerialUse, IInv, BusyInv, MediumInv, NEW t \in Threads, SyncWrite(t)
    PROVE  MediumInv'
<1> DEFINE f == arg[t].loc.file_id
           p == arg[t].loc.value_pos
<1>1. ~Fault("write")
  BY DEF SerialUse, Fault
<1>2. /\ pc[t] = "sync" /\ pc' = [pc EXCEPT ![t] = "update"]
      /\ files' = [files EXCEPT ![f].synced = IF p > @ THEN p ELSE @]
      /\ UNCHANGED <<arg, active_id, linked>>
  BY <1>1 DEF SyncWrite
<1>3. /\ pc'[t] = "update" /\ \A u \in Threads \ {t} : pc[u] \in Quiet /\ pc'[u] \in Quiet
  BY <1>2, OthersQuiet DEF IInv, ArgInv, Quiet
<1>4. /\ f \in DOMAIN files /\ p \in Nat
      /\ p = Len(files[f].entries)
  BY <1>2 DEF IInv, ArgInv, WriteOK, WritePCs, OnOS, InFile, Location, MediumInv, WritesOnMedium
<1>5. /\ \A g \in DOMAIN files : files[g] \in FileOf(Len(history)) /\ files[g].synced \in Nat
      /\ files[f].synced <= p
      /\ active_id \in DOMAIN files
  BY <1>4 DEF IInv, DiskInv, FilesOK, FileOf
<1> HIDE DEF f, p
<1>6. files'[f].synced = p /\ files'[f].entries = files[f].entries
  BY <1>2, <1>4, <1>5 DEF FileOf
<1>7. \A g \in DOMAIN files \ {f} : files'[g] = files[g]
  BY <1>2
<1>8. SyncedIn(files', f)
  BY <1>4, <1>6 DEF SyncedIn
<1>9. ActiveOnMedium'
  <2>1. CASE active_id = f
    BY <1>2, <1>8, <2>1 DEF ActiveOnMedium
  <2>2. CASE active_id # f
    <3>1. SyncedIn(files, active_id)
      BY <1>3, <2>2 DEF MediumInv, ActiveOnMedium, Quiet, f
    <3>2. SyncedIn(files', active_id')
      BY <1>2, <1>5, <1>7, <2>2, <3>1, SyncedUntouched
    <3> QED
      BY <3>2 DEF ActiveOnMedium
  <2> QED
    BY <2>1, <2>2
<1>10. WritesOnMedium'
  <2>1. OnMedium(files', arg'[t].loc)
    BY <1>2, <1>4, <1>6 DEF OnMedium, f, p
  <2>2. \A u \in Threads : pc'[u] \in {"sync", "update"} => u = t
    BY <1>3 DEF Quiet
  <2> QED
    BY <1>3, <2>1, <2>2 DEF WritesOnMedium
<1>11. OutputsOnMedium'
  <2>1. \A u \in Threads : pc'[u] \notin MergePCs \cup CopyPCs
    BY <1>3 DEF Quiet, MergePCs, CopyPCs, RepointPCs
  <2> QED
    BY <2>1 DEF OutputsOnMedium
<1> QED
  BY <1>9, <1>10, <1>11 DEF MediumInv

\* After a crash nobody writes, and the fresh active file is empty.
LEMMA CrashMedium ==
    ASSUME IInv, Crashed
    PROVE  MediumInv'
<1>1. SyncedIn(files', active_id') /\ \A t \in Threads : pc'[t] = "idle" /\ pc'[t] \notin MergePCs
  BY CrashKeeps, CrashIdles
<1>2. "idle" \notin CopyPCs
  BY DEF CopyPCs, RepointPCs
<1> QED
  BY <1>1, <1>2 DEF MediumInv, ActiveOnMedium, WritesOnMedium, OutputsOnMedium

LEMMA MediumStep ==
    ASSUME SerialUse, SyncedUse, StoreAssumption, SerialInv, IInv', BusyInv, BusyInv', MediumInv,
           [MergeNext]_allVars
    PROVE  MediumInv'
<1>1. IInv /\ AloneInv /\ OrderInv /\ PlacesInv
  BY DEF SerialInv, OrderedInv
<1>2. ASSUME NEW t \in Threads, MergeStep(t) PROVE MediumInv'
  <2>1. ~MergeFails(t)
    BY DEF MergeFails, Fault, SerialUse
  <2> QED
    BY <1>1, <1>2, <2>1, StartMedium, OpenMedium, EntryMedium, QuietMergeMedium, FinishMedium,
       RestoreMedium DEF MergeStep
<1>3. ASSUME NEW t \in Threads, NEW k \in Keys, Put(t, k) PROVE MediumInv'
  <2>1. AppendEntry(t, k, FALSE) /\ pc[t] = "idle"
    BY <1>3 DEF Put, MayStart
  <2> QED
    BY <1>1, <2>1, AppendMedium DEF WritePCs, MergePCs
<1>4. ASSUME NEW t \in Threads, DeleteAppend(t) PROVE MediumInv'
  <2>1. AppendEntry(t, arg[t].key, TRUE) /\ pc[t] = "delete" /\ arg[t].key \in Keys
    BY <1>1, <1>4 DEF DeleteAppend, IInv, ArgInv
  <2> QED
    BY <1>1, <2>1, AppendMedium DEF WritePCs, MergePCs
<1>5. ASSUME NEW t \in Threads PROVE ~Sync(t)
  BY DEF Sync, SyncedUse
<1>6. CASE UNCHANGED allVars
  <2>1. UNCHANGED <<files, linked, active_id, merging, pc, arg>>
    BY <1>6 DEF allVars, vars, diskVars, memVars, mergeVars
  <2> QED
    BY <2>1, CallMedium
<1> QED
  BY <1>1, <1>2, <1>3, <1>4, <1>5, <1>6, CrashMedium, SyncWriteMedium, QuietCallMedium
     DEF MergeNext, Crashed

-----------------------------------------------------------------------------
(* The promised write stays.                                                 *)

\* What a promise is about does not change, and a key that may be gone still may.
LEMMA PromiseStays ==
    ASSUME DiskInv, HistoryGrows, Len(history') \in Nat, NEW k, promise[k].ver \in Nat,
           PromiseOK(k), promise'[k] = promise[k]
    PROVE  PromiseOK(k)' /\ (MayBeGone(k) => MayBeGone(k)')
<1>1. Len(history) \in Nat /\ Len(history) <= Len(history')
  BY DEF DiskInv, HistoryGrows
<1>2. PromiseOK(k)'
  BY <1>1 DEF PromiseOK, HistoryGrows
<1>3. ASSUME MayBeGone(k) PROVE MayBeGone(k)'
  <2>1. CASE promise[k].tomb
    BY <2>1 DEF MayBeGone
  <2>2. CASE \E i \in promise[k].ver + 1..Len(history) : history[i].key = k /\ history[i].tomb
    <3> PICK i \in promise[k].ver + 1..Len(history) : history[i].key = k /\ history[i].tomb
      BY <2>2
    <3>1. i \in 1..Len(history) /\ i \in promise[k].ver + 1..Len(history')
      BY <1>1
    <3>2. history'[i] = history[i]
      BY <3>1 DEF HistoryGrows
    <3> QED
      BY <3>1, <3>2 DEF MayBeGone
  <2> QED
    BY <1>3, <2>1, <2>2 DEF MayBeGone
<1> QED
  BY <1>2, <1>3

\* The places that are new hold a new write, or the same as an old place.
NewPlacesFit(k) ==
    \A p \in Location : IsPlace(files', linked', history', k, p) =>
        \/ IsPlace(files, linked, history, k, p)
        \/ EntryIn(files', p) = NewWrite
        \/ \E q \in Location : /\ IsPlace(files, linked, history, k, q)
                               /\ EntryIn(files', p) = EntryIn(files, q)

LEMMA KeptStays ==
    ASSUME DiskInv, Advances, NoLess(files, files'), linked \subseteq linked',
           NEW k, promise[k].ver \in Nat, PromiseOK(k), promise'[k] = promise[k],
           Kept(k), NewPlacesFit(k)
    PROVE  PromiseOK(k)' /\ Kept(k)'
<1>1. HistoryGrows /\ Len(history) \in Nat /\ Len(history') \in Nat /\ promise[k].ver <= Len(history)
  BY DEF Advances, DiskInv, PromiseOK
<1>2. PromiseOK(k)' /\ (MayBeGone(k) => MayBeGone(k)')
  BY <1>1, PromiseStays
<1>3. CASE \E p \in Location : /\ IsPlace(files, linked, history, k, p)
                               /\ OnMedium(files, p) /\ Recent(files, k, p)
  <2> PICK p \in Location : /\ IsPlace(files, linked, history, k, p)
                            /\ OnMedium(files, p) /\ Recent(files, k, p)
    BY <1>3
  <2>1. /\ InFile(files', p) /\ EntryIn(files', p) = EntryIn(files, p) /\ p.file_id \in DOMAIN files
        /\ history'[EntryIn(files', p)] = history[EntryIn(files, p)] /\ p.file_id \in linked
    BY PlacesStay DEF IsPlace, InFile
  <2>2. IsPlace(files', linked', history', k, p)
    BY <2>1 DEF IsPlace
  <2>3. OnMedium(files', p)
    <3>1. files[p.file_id].synced <= files'[p.file_id].synced /\ p.file_id \in DOMAIN files'
      BY <2>1 DEF NoLess
    <3>2. files[p.file_id].synced \in Nat /\ files'[p.file_id].synced \in Nat
      BY <2>1, <3>1 DEF Advances, DiskInv, FilesOK, FileOf
    <3> QED
      BY <3>1, <3>2 DEF OnMedium, Location
  <2>4. promise'[k].ver <= EntryIn(files', p)
    BY <2>1 DEF Recent
  <2>5. Kept(k)'
    BY <2>2, <2>3, <2>4 DEF Kept, Recent
  <2> QED
    BY <1>2, <2>5
<1>4. CASE /\ MayBeGone(k)
           /\ \A p \in Location : IsPlace(files, linked, history, k, p) => Recent(files, k, p)
  <2>1. ASSUME NEW p \in Location, IsPlace(files', linked', history', k, p)
        PROVE  promise[k].ver <= EntryIn(files', p)
    <3>1. CASE IsPlace(files, linked, history, k, p)
      BY <1>4, <3>1, EntryStays DEF Recent
    <3>2. CASE EntryIn(files', p) = NewWrite
      BY <1>1, <3>2 DEF NewWrite
    <3>3. CASE \E q \in Location : /\ IsPlace(files, linked, history, k, q)
                                   /\ EntryIn(files', p) = EntryIn(files, q)
      BY <1>4, <3>3 DEF Recent
    <3> QED
      BY <2>1, <3>1, <3>2, <3>3 DEF NewPlacesFit
  <2>2. Kept(k)'
    BY <1>2, <1>4, <2>1 DEF Kept, Recent
  <2> QED
    BY <1>2, <2>2
<1> QED
  BY <1>3, <1>4 DEF Kept

\* The places of an append and of a copy do.
LEMMA AppendFits ==
    ASSUME SerialUse, StoreAssumption, IInv, NEW t \in Threads, NEW j \in Keys,
           NEW tomb \in BOOLEAN, AppendEntry(t, j, tomb), NEW k
    PROVE  /\ Advances /\ linked \subseteq linked' /\ NewPlacesFit(k)
<1>1. Advances /\ EntryIn(files', NewPlace) = NewWrite /\ DiskInv
  BY AppendAdvances DEF IInv
<1>2. OneEntryMore(active_id, NewWrite) /\ NewPlace = NextPlace(active_id)
  BY AppendAddsOne DEF NewPlace, NextPlace
<1>3. linked \subseteq linked'
  BY <1>2 DEF OneEntryMore
<1> QED
  BY <1>1, <1>2, <1>3, OneNewPlace DEF NewPlacesFit

LEMMA CopyFits ==
    ASSUME IInv, IInv', PlacesInv, RiskInv, BusyInv,
           NEW t \in Threads, MergeEntry(t), IsLive(merging[t]), NEW k \in Keys
    PROVE  /\ Advances /\ linked \subseteq linked' /\ NewPlacesFit(k)
<1> DEFINE out == merging[t].out
           e == EntryAt(merging[t])
           old == OldPlace(merging[t])
           x == NextPlace(out)
<1>1. Advances /\ OneEntryMore(out, e) /\ DiskInv /\ HistoryGrows /\ linked \subseteq linked'
  BY EntryAddsOne DEF IInv, Advances, OneEntryMore
<1>2. pc[t] \in MergePCs /\ pc[t] = "copy" /\ merging[t].at <= merging[t].upto
  BY DEF MergeEntry, MergePCs
<1>3. /\ e \in 1..Len(history) /\ InFile(files, old) /\ EntryIn(files, old) = e
      /\ keydir[history[e].key] = old
  BY <1>2, EntryAtOK DEF IsLive, OldPlace
<1>4. old \in Location /\ old # None
  BY <1>3, NoneAssumption DEF InFile
<1> HIDE DEF old, e
<1>5. EntryIn(files', x) = e
  <2> DEFINE s == files[out].entries
  <2>1. out \in linked
    BY <1>1 DEF OneEntryMore
  <2>2. s \in Seq(1..Len(history)) /\ files'[out].entries = Append(s, e)
    BY <1>1, <2>1 DEF OneEntryMore, DiskInv, FilesOK, FileOf
  <2>3. EntryIn(files', x) = files'[out].entries[Len(s) + 1]
    BY DEF EntryIn, NextPlace
  <2> HIDE DEF s, out, x
  <2> QED
    BY <1>3, <2>2, <2>3
<1> HIDE DEF x
<1>6. ASSUME IsPlace(files', linked', history', k, x)
      PROVE  IsPlace(files, linked, history, k, old)
  <2>1. history[e].key = k
    BY <1>1, <1>3, <1>5, <1>6 DEF IsPlace, HistoryGrows
  <2>2. Says(k, old)
    BY <1>2, <1>3, <2>1, KeydirSays
  <2>3. old.file_id \in linked
    BY <1>4, <2>2, SaysHeld DEF Held
  <2> QED
    BY <1>3, <2>1, <2>3 DEF IsPlace
<1>7. ASSUME NEW p \in Location, IsPlace(files', linked', history', k, p), p # x
      PROVE  IsPlace(files, linked, history, k, p)
  BY <1>1, <1>7, OneNewPlace DEF x
<1>8. NewPlacesFit(k)
  BY <1>3, <1>4, <1>5, <1>6, <1>7 DEF NewPlacesFit
<1> QED
  BY <1>1, <1>8

\* When the removals begin the keydir points at no input any more.
LEMMA NotAnInput ==
    ASSUME IInv, RiskInv, BusyInv, NEW t \in Threads, pc[t] = "remove",
           NEW k \in Keys, keydir[k] # None
    PROVE  keydir[k].file_id \notin merging[t].inputs
<1>1. pc[t] \in MergePCs /\ pc[t] \notin CopyPCs
  BY DEF MergePCs, CopyPCs, RepointPCs
<1>2. merging[t].queue = <<>>
  BY <1>1, MergeKnown DEF QueueOK
<1>3. ~QueuedFor(merging[t], k, keydir[k])
  BY <1>2 DEF QueuedFor
<1>4. keydir[k] \notin at_risk
  BY DEF BusyInv
<1> QED
  BY <1>1, <1>3, <1>4 DEF RiskInv, PassedInv, Passed

\* A removal takes the oldest file.  If it had the promised write, the keydir points at a
\* later place on the medium with that write or a later one; or it has no entry, a tombstone
\* came later, and all the places left are above the one that goes.
LEMMA RemoveKept ==
    ASSUME SerialUse, SerialInv, BusyInv, OldestInv, NewestInv, MonoInv, MediumInv,
           NEW t \in Threads, MergeRemove(t), NEW k \in Keys, promise[k].ver \in Nat,
           promise[k].tomb \in BOOLEAN, PromiseOK(k), Kept(k)
    PROVE  PromiseOK(k)' /\ Kept(k)'
<1> DEFINE m == merging[t]
           f == Min(m.rest)
           v == promise[k].ver
           loc == keydir[k]
<1>1. /\ pc[t] = "remove" /\ pc[t] \in MergePCs /\ linked' = linked \ {f}
      /\ UNCHANGED <<history, files, keydir, active_id, promise>>
  BY DEF MergeRemove, MergePCs, NextToRemove, Fault, SerialUse
<1>2. IInv /\ DiskInv /\ RiskInv
  BY DEF SerialInv, OrderedInv, IInv
<1>3. /\ m.inputs \subseteq Nat /\ m.rest \subseteq m.inputs /\ linked \subseteq Nat
      /\ linked \cap m.inputs \subseteq m.rest
      /\ \A g \in linked : g \in m.inputs \/ \A h \in m.inputs : h < g
  BY <1>1, <1>2, MergeKnown DEF MergeRec, InputsOK, OldestInv, OldestOK, DiskInv, FilesOK
<1>4. f \in m.rest /\ \A g \in m.rest : f <= g
  <2>1. IsFiniteSet(m.rest) /\ m.rest # {} /\ m.rest \subseteq Nat
    BY <1>1, <1>2, MergeKnown, FS_Subset DEF InputsOK, MergeRec
  <2> DEFINE S == m.rest
  <2> HIDE DEF m
  <2>2. IsFiniteSet(S) /\ S # {} /\ S \subseteq Nat
    BY <2>1
  <2> HIDE DEF S
  <2>3. Min(S) \in S /\ \A g \in S : Min(S) <= g
    BY <2>2, MinIsLeast
  <2> QED
    BY <2>3 DEF S
<1>5. \A g \in linked' : f < g
  <2> HIDE DEF f, m
  <2> TAKE g \in linked'
  <2>1. g \in linked /\ g # f /\ g \in Nat /\ f \in Nat
    BY <1>1, <1>3, <1>4
  <2> QED
    BY <1>3, <1>4, <2>1
<1>6. PromiseOK(k)' /\ (MayBeGone(k) => MayBeGone(k)')
  BY <1>1 DEF PromiseOK, MayBeGone
<1>7. \A p \in Location : IsPlace(files', linked', history', k, p)
                             <=> IsPlace(files, linked, history, k, p) /\ p.file_id # f
  BY <1>1 DEF IsPlace
<1>8. \A p \in Location : (OnMedium(files', p) <=> OnMedium(files, p))
                             /\ (Recent(files, k, p)' <=> Recent(files, k, p))
  BY <1>1 DEF OnMedium, Recent, EntryIn
<1> HIDE DEF f
<1>9. ASSUME NEW p \in Location, IsPlace(files, linked, history, k, p), OnMedium(files, p),
             Recent(files, k, p), p.file_id # f
      PROVE  Kept(k)'
  <2>1. IsPlace(files', linked', history', k, p) /\ OnMedium(files', p) /\ Recent(files, k, p)'
    BY <1>7, <1>8, <1>9
  <2> QED
    BY <2>1 DEF Kept
<1>10. ASSUME NEW p \in Location, IsPlace(files, linked, history, k, p), Recent(files, k, p),
              p.file_id = f
       PROVE  Kept(k)'
  <2>1. EntryIn(files, p) \in 1..Len(history) /\ v <= EntryIn(files, p) /\ Len(history) \in Nat
    BY <1>2, <1>10, PlaceHolds DEF IsPlace, DiskInv, Recent
  <2>2. Says(k, loc) /\ \A u \in Threads : pc[u] \notin WritePCs
    BY <1>1, KeydirSays
  <2>3. Held(k, loc) /\ loc \in Location \cup {None}
    <3>1. Held(k, loc)
      BY <1>2, <2>2, SaysHeld
    <3> QED
      BY <3>1 DEF Held, OnOS, InFile
  <2>4. Shows(files, linked, history, k, loc)
    BY <2>2, <2>3 DEF NewestInv
  <2> HIDE DEF v, loc
  <2>5. CASE loc # None
    <3>1. loc \in Location /\ IsPlace(files, linked, history, k, loc)
      BY <2>3, <2>5 DEF Held, OnOS, IsPlace
    <3>2. EntryIn(files, loc) \in 1..Len(history)
      <4>1. InFile(files, loc)
        BY <3>1 DEF IsPlace
      <4> QED
        BY <1>2, <2>1, <4>1, PlaceHolds DEF DiskInv
    <3>3. EntryIn(files, p) <= EntryIn(files, loc)
      <4>1. CASE UpTo(p, loc)
        BY <1>10, <3>1, <4>1 DEF MonoInv
      <4>2. CASE UpTo(loc, p)
        BY <1>10, <2>1, <2>4, <2>5, <4>2 DEF Shows
      <4> QED
        BY <3>1, <4>1, <4>2, UpToOrder
    <3>4. Recent(files, k, loc)
      <4>1. v <= EntryIn(files, loc) /\ v \in Nat
        BY <2>1, <3>2, <3>3 DEF v
      <4> QED
        BY <4>1 DEF Recent, v
    <3>5. loc.file_id \notin m.inputs
      BY <1>1, <1>2, <2>5, NotAnInput DEF loc
    <3>6. OnMedium(files, loc)
      <4>1. SyncedIn(files, loc.file_id)
        <5>1. MergeStep(t)
          BY DEF MergeStep
        <5>2. pc[t] \notin CopyingPCs /\ loc.file_id \in linked
          BY <1>1, <3>1 DEF CopyingPCs, IsPlace
        <5> QED
          BY <1>1, <1>2, <3>5, <5>1, <5>2, MergeFinds
      <4> QED
        BY <3>1, <4>1 DEF SyncedIn, OnMedium, IsPlace, InFile
    <3>7. loc.file_id # f
      BY <1>3, <1>4, <3>5
    <3> QED
      BY <1>9, <3>1, <3>4, <3>6, <3>7
  <2>6. CASE loc = None
    <3>1. PICK q \in Location : UpTo(p, q) /\ IsGrave(files, linked, history, k, q)
      BY <1>10, <2>4, <2>6 DEF Shows
    <3> DEFINE e == EntryIn(files, q)
    <3>2. IsPlace(files, linked, history, k, q) /\ history[e].tomb /\ history[e].key = k
      BY <3>1 DEF IsGrave, IsPlace
    <3>3. e \in 1..Len(history) /\ EntryIn(files, p) <= e
      BY <1>2, <1>10, <3>1, <3>2, PlaceHolds DEF IsPlace, DiskInv, MonoInv
    <3> HIDE DEF e
    <3>4. v \in Nat /\ v <= e
      BY <2>1, <3>3 DEF v
    <3>5. MayBeGone(k)
      <4>1. ASSUME v = e PROVE MayBeGone(k)
        <5>1. history[v] = [key |-> k, tomb |-> promise[k].tomb]
          BY <3>3, <4>1 DEF PromiseOK, v
        <5> QED
          BY <3>2, <4>1, <5>1 DEF MayBeGone
      <4>2. ASSUME v # e PROVE MayBeGone(k)
        <5>1. e \in v + 1..Len(history)
          BY <2>1, <3>3, <3>4, <4>2
        <5> QED
          BY <3>2, <5>1 DEF MayBeGone, v
      <4> QED
        BY <4>1, <4>2
    <3>6. ASSUME NEW r \in Location, IsPlace(files', linked', history', k, r)
          PROVE  Recent(files, k, r)'
      <4>1. IsPlace(files, linked, history, k, r) /\ r.file_id \in linked'
        BY <1>7, <3>6 DEF IsPlace
      <4>2. UpTo(p, r)
        BY <1>5, <1>10, <4>1 DEF UpTo
      <4>3. EntryIn(files, p) <= EntryIn(files, r)
        BY <1>10, <4>1, <4>2 DEF MonoInv
      <4>4. EntryIn(files, r) \in 1..Len(history)
        <5>1. InFile(files, r)
          BY <4>1 DEF IsPlace
        <5> QED
          BY <1>2, <2>1, <5>1, PlaceHolds DEF DiskInv
      <4>5. v <= EntryIn(files, r)
        BY <2>1, <3>4, <4>3, <4>4
      <4> QED
        BY <1>8, <4>5 DEF Recent, v
    <3> QED
      BY <1>6, <3>5, <3>6 DEF Kept
  <2> QED
    BY <2>5, <2>6
<1>11. ASSUME MayBeGone(k), \A p \in Location : IsPlace(files, linked, history, k, p)
                                                   => Recent(files, k, p)
       PROVE  Kept(k)'
  <2>1. MayBeGone(k)'
    BY <1>6, <1>11
  <2>2. \A p \in Location : IsPlace(files', linked', history', k, p) => Recent(files, k, p)'
    BY <1>7, <1>8, <1>11
  <2> QED
    BY <2>1, <2>2 DEF Kept
<1> QED
  BY <1>6, <1>9, <1>10, <1>11 DEF Kept

\* Only the end of a put or a delete makes a promise.
LEMMA PromiseMoves ==
    ASSUME SyncedUse, [MergeNext]_allVars
    PROVE  promise' = promise \/ \E t \in Threads : UpdateKeydir(t)
<1>1. \A t, k, tomb : AppendEntry(t, k, tomb) => promise' = promise
  BY DEF AppendEntry
<1>2. \A t, k : Put(t, k) \/ DeleteCheck(t, k) \/ DeleteAppend(t) => promise' = promise
  BY <1>1 DEF Put, DeleteCheck, DeleteAppend
<1>3. \A t, r : SyncWrite(t) \/ TakeEntries(t, r) \/ ReadValue(t, r) => promise' = promise
  BY DEF SyncWrite, TakeEntries, ReadValue
<1>4. \A t : ~Sync(t)
  BY DEF Sync, SyncedUse
<1>5. \A t : MergeStep(t) => promise' = promise
  BY DEF MergeStep, MergeStart, MergeOpen, MergeRead, MergeEntry, MergeRepoint, MergeFinish,
         MergeRemove, MergeForget, MergeRestore, MergeFails
<1>6. \A kind : CrashAndOpen(kind) => promise' = promise
  BY DEF CrashAndOpen
<1>7. UNCHANGED allVars => promise' = promise
  BY DEF allVars, vars
<1> QED
  BY <1>2, <1>3, <1>4, <1>5, <1>6, <1>7 DEF MergeNext

\* When it is made, its write is on the medium.
LEMMA UpdateKept ==
    ASSUME SyncedUse, IInv, RiskInv, BusyInv, MediumInv, KeptInv, NEW t \in Threads, UpdateKeydir(t)
    PROVE  KeptInv'
<1> DEFINE w == arg[t]
           made == [ver |-> w.ver, tomb |-> history[w.ver].tomb]
<1>1. /\ pc[t] = "update" /\ pc[t] \in WritePCs /\ UNCHANGED <<history, files, linked>>
      /\ promise' = [promise EXCEPT ![w.key] = made]
  BY DEF UpdateKeydir, SyncedUse, WritePCs, diskVars
<1>2. WriteOK(files, history, w) /\ OnMedium(files, w.loc) /\ w.loc.file_id \in linked
  BY <1>1 DEF IInv, ArgInv, RiskInv, WriteAtRisk, BusyInv, MediumInv, WritesOnMedium
<1>3. /\ InFile(files, w.loc) /\ w.ver \in 1..Len(history) /\ EntryIn(files, w.loc) = w.ver
      /\ history[w.ver].key = w.key
  BY <1>2 DEF WriteOK, OnOS
<1>4. history[w.ver] \in Write /\ w.ver \in Nat
  <2>1. history \in Seq(Write) /\ Len(history) \in Nat
    BY DEF IInv, DiskInv
  <2> QED
    BY <1>3, <2>1
<1>5. history[w.ver] = [key |-> w.key, tomb |-> made.tomb] /\ w.key \in Keys /\ w.loc \in Location
      /\ made \in [ver : Nat, tomb : BOOLEAN] /\ made.ver = w.ver
  BY <1>3, <1>4 DEF Write, InFile
<1> HIDE DEF w, made
<1>6. promise' \in [Keys -> [ver : Nat, tomb : BOOLEAN]] /\ promise'[w.key] = made
  BY <1>1, <1>5 DEF KeptInv
<1>7. ASSUME NEW k \in Keys PROVE PromiseOK(k)' /\ Kept(k)'
  <2>1. CASE k = w.key
    <3>1. PromiseOK(k)'
      BY <1>1, <1>3, <1>5, <1>6, <2>1 DEF PromiseOK
    <3>2. IsPlace(files', linked', history', k, w.loc) /\ OnMedium(files', w.loc)
      BY <1>1, <1>2, <1>3, <2>1 DEF IsPlace
    <3>3. promise'[k].ver <= EntryIn(files', w.loc)
      BY <1>1, <1>3, <1>4, <1>5, <1>6, <2>1
    <3>4. Kept(k)'
      BY <1>5, <3>2, <3>3 DEF Kept, Recent
    <3> QED
      BY <3>1, <3>4
  <2>2. CASE k # w.key
    <3>1. promise'[k] = promise[k]
      BY <1>1, <2>2 DEF KeptInv
    <3> QED
      BY <1>1, <3>1 DEF KeptInv, PromiseOK, Kept, Recent, MayBeGone
  <2> QED
    BY <2>1, <2>2
<1> QED
  BY <1>6, <1>7 DEF KeptInv

\* A crash leaves what is on the medium.
LEMMA CrashKept ==
    ASSUME IInv, IInv', Crashed, KeptInv
    PROVE  KeptInv'
<1>1. promise' = promise
  BY DEF Crashed, CrashAndOpen
<1>2. PICK n : /\ Reopened(n)
               /\ \A f \in linked : files[f].synced <= n[f] /\ files[f].synced <= files'[f].synced
  BY CrashKeeps
<1>3. history' = history /\ IsCut(n) /\ DiskInv /\ linked \subseteq linked'
  BY <1>2 DEF Reopened, CutDown, IInv
<1> SUFFICES ASSUME NEW k \in Keys PROVE PromiseOK(k)' /\ Kept(k)'
  BY <1>1 DEF KeptInv
<1>4. PromiseOK(k)' /\ (MayBeGone(k) => MayBeGone(k)')
  BY <1>1, <1>3 DEF KeptInv, PromiseOK, MayBeGone
<1>5. CASE \E p \in Location : /\ IsPlace(files, linked, history, k, p)
                               /\ OnMedium(files, p) /\ Recent(files, k, p)
  <2> PICK p \in Location : /\ IsPlace(files, linked, history, k, p)
                            /\ OnMedium(files, p) /\ Recent(files, k, p)
    BY <1>5
  <2> DEFINE f == p.file_id
  <2>1. f \in linked /\ f \in DOMAIN files /\ f \in DOMAIN files' /\ p.value_pos \in Nat
    BY <1>3 DEF IsPlace, InFile, IInv, DiskInv, Location
  <2>2. files[f].synced \in Nat /\ files'[f].synced \in Nat /\ n[f] \in Nat
    <3>1. files[f].synced \in Nat /\ files[f].entries \in Seq(1..Len(history))
      BY <2>1 DEF IInv, DiskInv, FilesOK, FileOf
    <3>2. files'[f].synced \in Nat
      BY <2>1 DEF IInv, DiskInv, FilesOK, FileOf
    <3>3. n[f] \in 0..Len(files[f].entries)
      BY <1>3, <2>1 DEF IsCut
    <3> QED
      BY <3>1, <3>2, <3>3
  <2>3. p.value_pos <= files[f].synced /\ files[f].synced <= n[f]
        /\ files[f].synced <= files'[f].synced
    BY <1>2, <2>1 DEF OnMedium
  <2>4. InCut(n, k, p) /\ OnMedium(files', p)
    <3>1. p.value_pos <= n[f] /\ p.value_pos <= files'[f].synced
      BY <2>1, <2>2, <2>3
    <3> QED
      BY <3>1 DEF InCut, OnMedium
  <2>5. IsPlace(files', linked', history', k, p) /\ EntryIn(files', p) = EntryIn(files, p)
    BY <1>2, <1>3, <2>4, PlacesLeft DEF Reopened
  <2>6. promise'[k].ver <= EntryIn(files', p)
    BY <1>1, <2>5 DEF Recent
  <2> QED
    BY <1>4, <2>4, <2>5, <2>6 DEF Kept, Recent
<1>6. CASE /\ MayBeGone(k)
           /\ \A p \in Location : IsPlace(files, linked, history, k, p) => Recent(files, k, p)
  <2>1. ASSUME NEW p \in Location, IsPlace(files', linked', history', k, p)
        PROVE  promise'[k].ver <= EntryIn(files', p)
    <3>1. InCut(n, k, p)
      BY <1>2, <1>3, <2>1, PlacesLeft DEF Reopened
    <3>2. EntryIn(files', p) = EntryIn(files, p) /\ IsPlace(files, linked, history, k, p)
      BY <1>2, <1>3, <3>1, PlacesLeft DEF InCut, Reopened
    <3> QED
      BY <1>1, <1>6, <3>2 DEF Recent
  <2> QED
    BY <1>4, <1>6, <2>1 DEF Kept, Recent
<1> QED
  BY <1>5, <1>6 DEF KeptInv, Kept

LEMMA KeptStep ==
    ASSUME SerialUse, SyncedUse, StoreAssumption, SerialInv, IInv', BusyInv, OldestInv, NewestInv,
           MonoInv, MediumInv, KeptInv, [MergeNext]_allVars
    PROVE  KeptInv'
<1>1. IInv /\ PlacesInv /\ RiskInv /\ DiskInv
  BY DEF SerialInv, OrderedInv, IInv
<1>2. CASE Crashed
  BY <1>1, <1>2, CrashKept
<1>3. CASE \E t \in Threads : UpdateKeydir(t)
  BY <1>1, <1>3, UpdateKept
<1>4. CASE promise' = promise /\ ~Crashed
  <2> SUFFICES ASSUME NEW k \in Keys PROVE PromiseOK(k)' /\ Kept(k)'
    BY <1>4 DEF KeptInv
  <2>1. /\ promise[k].ver \in Nat /\ promise[k].tomb \in BOOLEAN /\ PromiseOK(k) /\ Kept(k)
        /\ promise'[k] = promise[k]
    BY <1>4 DEF KeptInv
  <2>2. NoLess(files, files')
    BY <1>1, <1>4, SyncsStay
  <2>3. ASSUME Advances, linked \subseteq linked', NewPlacesFit(k)
        PROVE  PromiseOK(k)' /\ Kept(k)'
    BY <1>1, <2>1, <2>2, <2>3, KeptStays
  <2>4. CASE Calm
    <3>1. NewPlacesFit(k)
      BY <1>1, <2>4, NoNewPlaces DEF Calm, NewPlacesFit
    <3> QED
      BY <2>3, <2>4, <3>1 DEF Calm, NoNewEntries
  <2>5. CASE Appends
    BY <1>1, <2>3, <2>5, AppendFits DEF Appends
  <2>6. CASE Copies
    BY <1>1, <2>3, <2>6, CopyFits DEF Copies
  <2>7. CASE Removes
    BY <2>1, <2>7, RemoveKept DEF Removes
  <2> QED
    BY <1>1, <1>4, <2>4, <2>5, <2>6, <2>7, FourKinds
<1> QED
  BY <1>2, <1>3, <1>4, PromiseMoves

LEMMA PowerInit ==
    ASSUME MergeInit
    PROVE  PowerInv
<1>1. /\ pc = [t \in Threads |-> "idle"] /\ linked = {0} /\ active_id = 0
      /\ files = [f \in {0} |-> EmptyFile] /\ promise = [k \in Keys |-> [ver |-> 0, tomb |-> TRUE]]
  BY DEF MergeInit, Init
<1>2. files[0].entries = <<>> /\ files[0].synced = 0 /\ Len(<<>>) = 0
  BY <1>1 DEF EmptyFile
<1>3. ASSUME NEW k, NEW p \in Location PROVE ~IsPlace(files, linked, history, k, p)
  <2>1. p.value_pos \in Nat \ {0}
    BY DEF Location
  <2> QED
    BY <1>1, <1>2, <2>1 DEF IsPlace, InFile
<1>4. MonoInv
  BY <1>3 DEF MonoInv
<1>5. MediumInv
  BY <1>1, <1>2 DEF MediumInv, ActiveOnMedium, WritesOnMedium, OutputsOnMedium, SyncedIn, CopyPCs,
                    RepointPCs, MergePCs
<1>6. KeptInv
  <2>1. promise \in [Keys -> [ver : Nat, tomb : BOOLEAN]]
    BY <1>1
  <2>2. \A k \in Keys : promise[k].ver = 0 /\ promise[k].tomb
    BY <1>1
  <2> QED
    BY <1>3, <2>1, <2>2 DEF KeptInv, PromiseOK, Kept, MayBeGone
<1> QED
  BY <1>4, <1>5, <1>6 DEF PowerInv

\* In serial use what was promised stays on the medium.
LEMMA Powered ==
    ASSUME SerialUse, SyncedUse
    PROVE  MergeSpec => [](OneWriteInv /\ PowerInv)
<1>1. MergeSpec => []OneWriteInv
  BY OneWrite
<1>2. MergeInit => PowerInv
  BY PowerInit
<1>3. ASSUME OneWriteInv, OneWriteInv', PowerInv, [MergeNext]_allVars PROVE PowerInv'
  <2>1. /\ SerialInv /\ BusyInv /\ OldestInv /\ NewestInv /\ BusyInv' /\ IInv'
        /\ MonoInv /\ MediumInv /\ KeptInv
    BY <1>3 DEF OneWriteInv, PowerInv, SerialInv, OrderedInv
  <2>2. MonoInv'
    BY <1>3, <2>1, MonoStep, StoreAssumption
  <2>3. MediumInv'
    BY <1>3, <2>1, MediumStep, StoreAssumption
  <2>4. KeptInv'
    BY <1>3, <2>1, KeptStep, StoreAssumption
  <2> QED
    BY <2>2, <2>3, <2>4 DEF PowerInv
<1> QED
  BY <1>1, <1>2, <1>3, PTL DEF MergeSpec

\* When every put and delete waits for its group commit, and in serial use, a machine that
\* loses power at any step finds after `open`, for every key, the last write that returned
\* or a later one: merge does not take a synced write away before its copy is synced
\* (engine.rs put and delete, MergeOutputWriter::finish before remove_old_input_files).
THEOREM PowerLosesNothing ==
    ASSUME SerialUse, SyncedUse
    PROVE  MergeSpec => []PromiseKept
<1>1. OneWriteInv /\ PowerInv => PromiseKept
  BY PowerFindsPromised DEF OneWriteInv, SerialInv, OrderedInv, PowerInv
<1>2. MergeSpec => [](OneWriteInv /\ PowerInv)
  BY Powered
<1> QED
  BY <1>1, <1>2, PTL

-----------------------------------------------------------------------------
(* Sessions and read-only handles.                                           *)

\* The steps of `open` in which a session already holds the lock.
Opening == {"discover", "recover", "create"}

\* Where a handle is.
HSteps  == Opening \cup {"lock", "open", "closed"}

\* What a handle has found so far: entries the OS has, each a value of its key.
FoundOK(h) ==
    \A k \in Keys : found[h][k] # None =>
        /\ OnOS(files, found[h][k])
        /\ history[EntryIn(files, found[h][k])] = [key |-> k, tomb |-> FALSE]

\* The types of what the handles add to the store.
HTypeOK ==
    /\ lock \in Sessions \cup {None}
    /\ step \in [Handles -> HSteps]
    /\ left \in [Handles -> SUBSET DOMAIN files]
    /\ found \in [Handles -> Keydirs]
    /\ next_id \in [Handles -> Nat]
    /\ during \in [Viewers -> [from : Nat, to : Nat]]
    /\ crashes \in Nat

\* The lock is held from the step after it to the end; a handle creates its active file when
\* it has read every file, and has found nothing before it begins.
StepsOK ==
    /\ \A s \in Sessions : step[s] \in Opening \cup {"open"} <=> lock = s
    /\ \A v \in Viewers : step[v] \notin {"lock", "create"}
    /\ \A h \in Handles : step[h] = "create" => left[h] = {}
    /\ \A h \in Handles : step[h] \in {"lock", "discover"} => found[h] = EmptyKeydir

\* The write a place holds is what the first n writes leave at key k.
Tells(k, n, p) ==
    IF history[EntryIn(files, p)].tomb THEN LastOf(k, n) = 0
                                       ELSE EntryIn(files, p) = LastOf(k, n)

\* A place of k that tells so and that no kill takes away.
Anchor(L, k, n, q) ==
    IsPlace(files, L, history, k, q) /\ OnOS(files, q) /\ Tells(k, n, q)

\* A scan of the files L, started with keydir entry loc, ends with what the first n writes
\* leave at k: a place that tells anything else lies below one that cannot be missed.
ScansTo(L, loc, k, n) ==
    /\ \A p \in Location : IsPlace(files, L, history, k, p) =>
          Tells(k, n, p) \/ \E q \in Location : UpTo(p, q) /\ Anchor(L, k, n, q)
    /\ VersionAt(loc) = LastOf(k, n) \/ \E q \in Location : Anchor(L, k, n, q)

\* The earliest moment a handle may show.
Since(h) == IF h \in Viewers THEN during[h].from ELSE Len(history)

\* A merge writes to one of the files L.
CopiesInto(L) == \E t \in Threads : pc[t] \in CopyPCs /\ merging[t].out \in L

\* What is left to read ends, with what was found, at the store of the first n writes; at the
\* last write if the active file is still to be read.
ScanOK(h, n) ==
    /\ active_id \in left[h] => n = Len(history)
    /\ \A k \in Keys : ScansTo(left[h], found[h][k], k, n)

\* While no file it listed is gone, a handle in `open` is on its way to the store as it was
\* at one moment since it listed them; no write was made if a merge's output is among them.
ScanFor(h) ==
    step[h] \in {"recover", "create"} /\ left[h] \subseteq linked =>
        /\ CopiesInto(left[h]) => Since(h) = Len(history)
        /\ \E n \in Since(h)..Len(history) : ScanOK(h, n)

\* A read-only handle shows the store as it was at one moment of its `open`.
ViewFor(h) ==
    h \in Viewers /\ step[h] = "open" =>
        /\ during[h].to <= Len(history)
        /\ \E n \in during[h].from..during[h].to :
              \A k \in Keys : VersionAt(found[h][k]) = LastOf(k, n)

\* With every write in the keydir, or about to be, the last one is.
LastInv ==
    \A k \in Keys : \A loc \in Location \cup {None} :
        Says(k, loc) => VersionAt(loc) = LastOf(k, Len(history))

\* What holds between the calls of a session, and inside them.
SessionInv == OneWriteInv /\ LastInv

\* The directory before the first session.
Virgin == linked = {} /\ DOMAIN files = {} /\ history = <<>>

\* What the directory shows is the last write of every key.
DiskSays ==
    \A k \in Keys : \E loc \in Location \cup {None} :
        /\ Held(k, loc) /\ Shows(files, linked, history, k, loc)
        /\ VersionAt(loc) = LastOf(k, Len(history))

\* No call is under way.
CallsRest ==
    /\ \A t \in Threads : pc[t] = "idle"
    /\ pc \in [Threads -> PCs] /\ arg \in [Threads -> Arg] /\ merging \in [Threads -> MergeRec]
    /\ at_risk = {} /\ faults = 0 /\ Len(history) \in 0..MaxWrites

\* A session that is in `open` has the directory to itself.
OpeningInv ==
    \A s \in Sessions : step[s] \in {"recover", "create"} =>
        /\ \A f \in DOMAIN files : f < next_id[s]
        /\ \A k \in Keys : found[s][k] # None => found[s][k].file_id \in linked

\* What holds while no session is open.
RestInv == CallsRest /\ (DiskInv \/ Virgin) /\ DiskSays /\ OpeningInv

\* File f has nothing in its buffer.
FlushedIn(fs, f) == fs[f].flushed = Len(fs[f].entries)

\* Nothing is left in a buffer but a running merge's copies, and as long as every session
\* was closed nothing but those and the active file is short of the medium.
WrittenInv ==
    \A g \in linked :
        \/ FlushedIn(files, g) /\ (clean => SyncedIn(files, g) \/ (InSession /\ g = active_id))
        \/ \E t \in Threads : pc[t] \in CopyingPCs /\ g = merging[t].out

\* The inductive invariant of sessions and handles.
HInv ==
    /\ HTypeOK /\ StepsOK /\ MonoInv /\ WrittenInv
    /\ \A h \in Handles : FoundOK(h) /\ ScanFor(h) /\ ViewFor(h)
    /\ InSession => SessionInv
    /\ ~InSession => RestInv

-----------------------------------------------------------------------------
(* The last write of a key.                                                  *)

\* The last write of a key, if it does not delete it, is a put of the key.
LEMMA LastOfKnown ==
    ASSUME history \in Seq(Write), NEW k, NEW n \in 0..Len(history)
    PROVE  /\ LastOf(k, n) \in 0..n
           /\ LastOf(k, n) # 0 => /\ history[LastOf(k, n)].key = k
                                  /\ ~history[LastOf(k, n)].tomb
<1> DEFINE W == {i \in 1..n : history[i].key = k}
<1>1. n \in Nat /\ W \subseteq 1..n /\ W \subseteq Nat /\ IsFiniteSet(1..n)
  BY FS_Interval
<1>2. IsFiniteSet(W)
  BY <1>1, FS_Subset
<1>3. W # {} => Max(W) \in W
  BY <1>1, <1>2, MaxIsGreatest
<1>4. LastOf(k, n) = IF W = {} \/ history[Max(W)].tomb THEN 0 ELSE Max(W)
  BY DEF LastOf
<1>5. CASE W = {} \/ history[Max(W)].tomb
  BY <1>1, <1>4, <1>5
<1>6. CASE ~(W = {} \/ history[Max(W)].tomb)
  <2>1. Max(W) \in 1..n /\ history[Max(W)].key = k
    BY <1>3, <1>6
  <2> QED
    BY <1>4, <1>6, <2>1
<1> QED
  BY <1>5, <1>6

\* What was the last write among the first n is so for ever.
LEMMA LastOfStays ==
    ASSUME history \in Seq(Write), HistoryGrows, NEW k, NEW n \in 0..Len(history)
    PROVE  LastOf(k, n)' = LastOf(k, n)
<1> DEFINE W(h) == {i \in 1..n : h[i].key = k}
<1>1. \A i \in 1..n : i \in 1..Len(history)
  BY DEF Write
<1>2. \A i \in 1..n : history'[i] = history[i]
  BY <1>1 DEF HistoryGrows
<1>3. W(history') = W(history)
  BY <1>2
<1>4. IsFiniteSet(W(history)) /\ W(history) \subseteq 1..n /\ W(history) \subseteq Nat
  <2>1. IsFiniteSet(1..n)
    BY FS_Interval
  <2> QED
    BY <2>1, FS_Subset
<1>5. W(history) # {} => Max(W(history)) \in 1..n
  BY <1>4, MaxIsGreatest
<1>6. /\ LastOf(k, n) = IF W(history) = {} \/ history[Max(W(history))].tomb THEN 0
                        ELSE Max(W(history))
      /\ LastOf(k, n)' = IF W(history') = {} \/ history'[Max(W(history'))].tomb THEN 0
                         ELSE Max(W(history'))
  BY DEF LastOf
<1> HIDE DEF W
<1> QED
  BY <1>2, <1>3, <1>5, <1>6

\* An append makes its write the last of its key, and of no other.
LEMMA LastOfAppended ==
    ASSUME history \in Seq(Write), NEW j \in Keys, NEW tomb \in BOOLEAN,
           history' = Append(history, [key |-> j, tomb |-> tomb]), NEW k,
           NEW n \in Nat, n = Len(history)
    PROVE  LastOf(k, n + 1)' = IF k = j THEN IF tomb THEN 0 ELSE n + 1 ELSE LastOf(k, n)
<1> DEFINE W(h, m) == {i \in 1..m : h[i].key = k}
<1>1. /\ Len(history') = n + 1 /\ history'[n + 1] = [key |-> j, tomb |-> tomb]
      /\ \A i \in 1..n : history'[i] = history[i]
  OBVIOUS
<1>2. /\ LastOf(k, n + 1)' = IF W(history', n + 1) = {} \/ history'[Max(W(history', n + 1))].tomb
                             THEN 0 ELSE Max(W(history', n + 1))
      /\ LastOf(k, n) = IF W(history, n) = {} \/ history[Max(W(history, n))].tomb
                        THEN 0 ELSE Max(W(history, n))
  BY DEF LastOf
<1>3. ASSUME NEW h, NEW m \in Nat
      PROVE  IsFiniteSet(W(h, m)) /\ W(h, m) \subseteq Nat /\ W(h, m) \subseteq 1..m
  <2>1. IsFiniteSet(1..m)
    BY FS_Interval
  <2>2. W(h, m) \subseteq 1..m /\ 1..m \subseteq Nat
    OBVIOUS
  <2> HIDE DEF W
  <2> QED
    BY <2>1, <2>2, FS_Subset
<1>4. CASE k = j
  <2>1. n + 1 \in W(history', n + 1)
    BY <1>1, <1>4
  <2>2. \A i \in W(history', n + 1) : i <= n + 1
    OBVIOUS
  <2> HIDE DEF W
  <2>3. Max(W(history', n + 1)) = n + 1
    <3>1. /\ IsFiniteSet(W(history', n + 1)) /\ W(history', n + 1) \subseteq Nat
          /\ W(history', n + 1) # {}
      BY <1>3, <2>1
    <3>2. /\ Max(W(history', n + 1)) \in W(history', n + 1)
          /\ \A x \in W(history', n + 1) : x <= Max(W(history', n + 1))
      BY <3>1, MaxIsGreatest
    <3> HIDE <1>2
    <3>3. Max(W(history', n + 1)) <= n + 1 /\ n + 1 <= Max(W(history', n + 1))
      BY <2>1, <2>2, <3>2
    <3>4. Max(W(history', n + 1)) \in Nat
      BY <3>1, <3>2
    <3> QED
      BY <3>3, <3>4
  <2> QED
    BY <1>1, <1>2, <1>4, <2>1, <2>3
<1>5. CASE k # j
  <2>1. W(history', n + 1) = W(history, n)
    BY <1>1, <1>5
  <2>2. W(history, n) # {} => Max(W(history, n)) \in 1..n
    <3>1. /\ IsFiniteSet(W(history, n)) /\ W(history, n) \subseteq Nat
          /\ W(history, n) \subseteq 1..n
      BY <1>3
    <3> HIDE DEF W
    <3> QED
      BY <3>1, MaxIsGreatest
  <2> HIDE DEF W
  <2> QED
    BY <1>1, <1>2, <1>5, <2>1, <2>2
<1> QED
  BY <1>4, <1>5

-----------------------------------------------------------------------------
(* A session's calls are steps of Store and Merge.                           *)

\* A call of a session is a step of the store with merges,
LEMMA CallsAreSteps ==
    ASSUME SessionStep
    PROVE  [MergeNext]_allVars
BY DEF SessionStep, MergeNext

\* and none of its crashes.
LEMMA CallsDoNotCrash ==
    ASSUME SessionStep, crashes \in Nat
    PROVE  ~Crashed /\ crashes' = crashes
<1>1. ASSUME NEW t \in Threads, NEW k \in Keys, Put(t, k) \/ DeleteCheck(t, k)
      PROVE  crashes' = crashes
  BY <1>1 DEF Put, DeleteCheck, AppendEntry
<1>2. ASSUME NEW t \in Threads, DeleteAppend(t) \/ UpdateKeydir(t)
      PROVE  crashes' = crashes
  BY <1>2 DEF DeleteAppend, AppendEntry, UpdateKeydir
<1>3. ASSUME NEW t \in Threads, MergeStep(t)
      PROVE  crashes' = crashes
  BY <1>3 DEF MergeStep, MergeStart, MergeOpen, MergeRead, MergeEntry, MergeRepoint, MergeFinish,
              MergeRemove, MergeForget, MergeRestore, MergeFails
<1>4. crashes' = crashes
  BY <1>1, <1>2, <1>3 DEF SessionStep
<1>5. Crashed => crashes' = crashes + 1
  BY DEF Crashed, CrashAndOpen
<1> QED
  BY <1>4, <1>5

\* A step that leaves the store alone is a stutter of it.
LEMMA QuietIsStep ==
    ASSUME UNCHANGED allVars, crashes \in Nat
    PROVE  [MergeNext]_allVars /\ ~Crashed
<1>1. crashes' = crashes
  BY DEF allVars, vars
<1>2. Crashed => crashes' = crashes + 1
  BY DEF Crashed, CrashAndOpen
<1> QED
  BY <1>1, <1>2
\* A thread of a put or a delete, with what its write will leave in the keydir.
LEMMA AppendSays ==
    ASSUME SerialUse, StoreAssumption, IInv, OrderInv, BusyInv, BusyInv', LastInv,
           NEW t \in Threads, NEW k \in Keys, NEW tomb \in BOOLEAN,
           AppendEntry(t, k, tomb), pc[t] \notin WritePCs \cup MergePCs
    PROVE  LastInv'
<1>0. PICK n \in Nat : n = Len(history)
  BY DEF IInv, DiskInv
<1> DEFINE w == [key |-> k, ver |-> NewWrite, loc |-> NewPlace]
           l == IF SyncOnPut THEN "sync" ELSE "update"
<1>1. /\ pc' = [pc EXCEPT ![t] = l] /\ keydir' = keydir
      /\ arg' = [arg EXCEPT ![t] = w]
  BY AppendAddsOne
<1>2. /\ Advances /\ history'[NewWrite] = [key |-> k, tomb |-> tomb]
      /\ EntryIn(files', NewPlace) = NewWrite
  BY AppendAdvances DEF IInv
<1>3. /\ pc \in [Threads -> PCs] /\ arg \in [Threads -> Arg] /\ history \in Seq(Write)
      /\ keydir \in [Keys -> Location \cup {None}] /\ DiskInv
      /\ \A j \in Keys : keydir[j] # None => InFile(files, keydir[j])
  BY DEF IInv, ArgInv, DiskInv, KeydirInv, Keydirs, OnOS
<1>4. l \in WritePCs
  BY DEF WritePCs
<1>5. \A u \in Threads : pc[u] \notin WritePCs
  BY <1>1, <1>4, AppendsToNewest
<1>6. /\ NewWrite = n + 1 /\ Len(history') = n + 1 /\ HistoryGrows
      /\ history' = Append(history, [key |-> k, tomb |-> tomb])
  BY <1>0, <1>2, <1>3 DEF AppendEntry, NewWrite, Advances
<1>7. pc'[t] = l /\ arg'[t] = w /\ \A u \in Threads \ {t} : pc'[u] \notin WritePCs
  BY <1>1, <1>3, <1>5
<1>8. NewPlace \in Location
  BY AppendAdvances DEF IInv, OnOS, InFile
<1> HIDE DEF l
<1> SUFFICES ASSUME NEW j \in Keys, NEW loc \in Location \cup {None}, Says(j, loc)'
             PROVE  VersionAt(loc)' = LastOf(j, n + 1)'
  BY <1>6 DEF LastInv
<1>9. LastOf(j, n + 1)' = IF j = k THEN IF tomb THEN 0 ELSE n + 1 ELSE LastOf(j, n)
  BY <1>3, <1>6, <1>0, LastOfAppended
<1>10. CASE j = k
  <2>1. \E u \in Threads : /\ pc'[u] \in WritePCs /\ arg'[u].key = k
                           /\ loc = KeydirEntry(arg[u])'
    <3>1. ~(\A u \in Threads : pc'[u] \in WritePCs => arg'[u].key # k)
      BY <1>4, <1>7
    <3> QED
      BY <1>10, <3>1 DEF Says
  <2>2. loc = KeydirEntry(arg[t])'
    BY <1>7, <2>1
  <2>3. KeydirEntry(arg[t])' = IF tomb THEN None ELSE NewPlace
    BY <1>2, <1>7 DEF KeydirEntry
  <2>4. VersionAt(loc)' = IF loc = None THEN 0 ELSE EntryIn(files', loc)
    BY DEF VersionAt, EntryIn
  <2>5. NewPlace # None
    BY <1>8, NoneAssumption
  <2> QED
    BY <1>2, <1>6, <1>9, <1>10, <2>2, <2>3, <2>4, <2>5
<1>11. CASE j # k
  <2>1. loc = keydir[j]
    BY <1>1, <1>7, <1>11 DEF Says
  <2>2. Says(j, keydir[j])
    BY <1>5 DEF Says
  <2>3. VersionAt(loc) = LastOf(j, n)
    BY <1>0, <2>1, <2>2 DEF LastInv
  <2>4. loc # None => EntryIn(files', loc) = EntryIn(files, loc)
    BY <1>2, <1>3, <2>1, PlacesStay
  <2>5. VersionAt(loc)' = VersionAt(loc)
    BY <2>4 DEF VersionAt, EntryIn
  <2> QED
    BY <1>9, <1>11, <2>3, <2>5
<1> QED
  BY <1>10, <1>11

\* Every other step leaves what is said as it is.
LEMMA LastStays ==
    ASSUME IInv, LastInv, history' = history,
           \A k \in Keys, loc \in Location \cup {None} : Says(k, loc)' =>
              \E old \in Location \cup {None} : Says(k, old) /\ VersionAt(loc)' = VersionAt(old)
    PROVE  LastInv'
<1> SUFFICES ASSUME NEW k \in Keys, NEW loc \in Location \cup {None}, Says(k, loc)'
             PROVE  VersionAt(loc)' = LastOf(k, Len(history))
  BY DEF LastInv, LastOf
<1>1. PICK old \in Location \cup {None} : Says(k, old) /\ VersionAt(loc)' = VersionAt(old)
  OBVIOUS
<1>2. VersionAt(old) = LastOf(k, Len(history))
  BY <1>1 DEF LastInv
<1> QED
  BY <1>1, <1>2

\* A step that appends nothing and repoints nothing leaves the keydir at the last writes;
LEMMA SameWritesLast ==
    ASSUME IInv, Advances, history' = history, SameWrites, LastInv
    PROVE  LastInv'
<1> SUFFICES ASSUME NEW k \in Keys, NEW loc \in Location \cup {None}, Says(k, loc)'
             PROVE  Says(k, loc) /\ VersionAt(loc)' = VersionAt(loc)
  BY LastStays
<1>1. Says(k, loc)
  BY SaysStays DEF Advances
<1>2. loc # None => InFile(files, loc)
  BY <1>1, SaysKnown DEF OnOS
<1>3. loc # None => EntryIn(files', loc) = EntryIn(files, loc)
  BY <1>2, PlacesStay DEF IInv
<1> QED
  BY <1>1, <1>3 DEF VersionAt, EntryIn

\* so does the update that ends a put or a delete,
LEMMA UpdateLast ==
    ASSUME IInv, BusyInv, LastInv, NEW t \in Threads, UpdateKeydir(t)
    PROVE  LastInv'
<1> DEFINE w == arg[t]
<1>1. /\ pc[t] \in WritePCs /\ pc' = [pc EXCEPT ![t] = "idle"] /\ UNCHANGED diskVars
      /\ keydir' = [keydir EXCEPT ![w.key] = KeydirEntry(w)]
  BY DEF UpdateKeydir, Return, WritePCs
<1>2. /\ pc \in [Threads -> PCs] /\ keydir \in [Keys -> Location \cup {None}]
      /\ \A u \in Threads \ {t} : pc[u] \in Quiet
  BY <1>1 DEF IInv, ArgInv, KeydirInv, Keydirs, BusyInv, WritePCs, Quiet
<1>3. \A u \in Threads : pc'[u] \notin WritePCs /\ (pc[u] \in WritePCs => u = t)
  BY <1>1, <1>2 DEF Quiet, WritePCs
<1> SUFFICES ASSUME NEW k \in Keys, NEW loc \in Location \cup {None}, Says(k, loc)'
             PROVE  Says(k, loc) /\ VersionAt(loc)' = VersionAt(loc)
  BY <1>1, LastStays DEF diskVars
<1>4. loc = keydir'[k]
  BY <1>3 DEF Says
<1>5. VersionAt(loc)' = VersionAt(loc)
  BY <1>1 DEF VersionAt, diskVars
<1>6. CASE k = w.key
  BY <1>1, <1>2, <1>4, <1>5, <1>6 DEF Says
<1>7. CASE k # w.key
  BY <1>1, <1>2, <1>3, <1>4, <1>5, <1>7 DEF Says
<1> QED
  BY <1>6, <1>7

\* and so does a merge's repoint, which leads to a copy of the same write.
LEMMA RepointLast ==
    ASSUME IInv, BusyInv, LastInv, NEW t \in Threads, MergeRepoint(t)
    PROVE  LastInv'
<1>1. pc[t] \in MergePCs /\ history' = history
  BY RepointMoves DEF RepointPCs, MergePCs, MergeRepoint, diskVars
<1>2. \A u \in Threads : pc[u] \notin WritePCs /\ pc'[u] \notin WritePCs
  <2>1. pc' = pc \/ \E l \in {"copy", "remove"} : pc' = [pc EXCEPT ![t] = l]
    BY DEF MergeRepoint, Goto
  <2>2. pc \in [Threads -> PCs]
    BY DEF IInv, ArgInv
  <2> QED
    BY <1>1, <2>1, <2>2, KeydirSays DEF WritePCs
<1> SUFFICES ASSUME NEW k \in Keys, NEW loc \in Location \cup {None}, Says(k, loc)'
             PROVE  \E old \in Location \cup {None} :
                       Says(k, old) /\ VersionAt(loc)' = VersionAt(old)
  BY <1>1, LastStays
<1>3. loc = keydir'[k] /\ Says(k, keydir[k])
  BY <1>1, <1>2, KeydirSays DEF Says
<1>4. keydir[k] \in Location \cup {None}
  BY DEF IInv, KeydirInv, Keydirs
<1>5. VersionAt(loc)' = VersionAt(keydir[k])
  <2>1. Visible(k)' = Visible(k)
    BY RepointKeepsValue
  <2> QED
    BY <1>3, <2>1 DEF Visible, VersionAt
<1> QED
  BY <1>3, <1>4, <1>5

\* Nothing but a put or a delete writes history.
LEMMA HistoryMoves ==
    ASSUME IInv, [MergeNext]_allVars, ~Crashed
    PROVE  history' = history \/ Appends
<1>1. ASSUME NEW t \in Threads, NEW k \in Keys, Put(t, k) PROVE Appends
  <2>1. AppendEntry(t, k, FALSE) /\ pc[t] \notin WritePCs \cup MergePCs
    BY <1>1 DEF Put, MayStart, WritePCs, MergePCs
  <2> QED
    BY <2>1 DEF Appends
<1>2. ASSUME NEW t \in Threads, DeleteAppend(t) PROVE Appends
  <2>1. /\ AppendEntry(t, arg[t].key, TRUE) /\ pc[t] \notin WritePCs \cup MergePCs
        /\ arg[t].key \in Keys
    BY <1>2 DEF DeleteAppend, WritePCs, MergePCs, IInv, ArgInv
  <2> QED
    BY <2>1 DEF Appends
<1>3. ASSUME NEW t \in Threads,
             \/ SyncWrite(t) \/ UpdateKeydir(t) \/ Sync(t) \/ \E k \in Keys : DeleteCheck(t, k)
             \/ \E K : TakeEntries(t, K) \/ ReadValue(t, K)
      PROVE  history' = history
  BY <1>3 DEF SyncWrite, UpdateKeydir, Sync, DeleteCheck, TakeEntries, ReadValue, diskVars
<1>4. ASSUME NEW t \in Threads, MergeStep(t) PROVE history' = history
  BY <1>4 DEF MergeStep, MergeStart, MergeOpen, MergeRead, MergeEntry, MergeRepoint, MergeFinish,
              MergeRemove, MergeForget, MergeRestore, MergeFails, diskVars
<1>5. UNCHANGED allVars => history' = history
  BY DEF allVars, vars, diskVars
<1> QED
  BY <1>1, <1>2, <1>3, <1>4, <1>5 DEF MergeNext, Crashed

\* In serial use what is said of a key is its last write.
LEMMA LastStep ==
    ASSUME SerialUse, StoreAssumption, SerialInv, IInv', BusyInv, BusyInv', LastInv,
           [MergeNext]_allVars, ~Crashed
    PROVE  LastInv'
<1>1. IInv /\ OrderInv /\ PlacesInv /\ DiskInv
  BY DEF SerialInv, OrderedInv, IInv
<1>2. ASSUME Appends PROVE LastInv'
  BY <1>1, <1>2, AppendSays DEF Appends
<1>3. ASSUME NEW t \in Threads, MergeEntry(t), IsLive(merging[t]) PROVE LastInv'
  <2>1. Advances
    BY <1>1, <1>3, EntryAddsOne
  <2>2. keydir' = keydir /\ history' = history /\ MergeStep(t)
    BY <1>3 DEF MergeEntry, MergeStep
  <2> QED
    BY <1>1, <2>1, <2>2, MergeKeepsWrites, SameWritesLast
<1>4. ASSUME NEW t \in Threads, MergeRemove(t) PROVE LastInv'
  <2>1. keydir' = keydir /\ UNCHANGED <<history, files, active_id, next_file_id>> /\ MergeStep(t)
    BY <1>4 DEF MergeRemove, MergeStep
  <2>2. SameWrites
    BY <1>1, <2>1, MergeKeepsWrites
  <2>3. HistoryGrows
    BY <1>1, <2>1 DEF HistoryGrows, DiskInv
  <2>4. ASSUME NEW k \in Keys, NEW loc \in Location \cup {None}, Says(k, loc)'
        PROVE  Says(k, loc) /\ VersionAt(loc)' = VersionAt(loc)
    BY <1>1, <2>1, <2>2, <2>3, <2>4, SaysStays DEF VersionAt
  <2> QED
    BY <1>1, <2>1, <2>4, LastStays
<1>5. ASSUME Calm, SameWrites, history' = history PROVE LastInv'
  BY <1>1, <1>5, SameWritesLast DEF Calm
<1>6. Loud => \/ Appends
              \/ \E t \in Threads : \/ UpdateKeydir(t)
                                    \/ MergeEntry(t) /\ IsLive(merging[t])
                                    \/ MergeRepoint(t)
                                    \/ MergeRemove(t)
  BY DEF Loud, Appends
<1> QED
  BY <1>1, <1>2, <1>3, <1>4, <1>5, <1>6, LoudOrCalm, HistoryMoves, UpdateLast, RepointLast

\* The calls of a session keep what is proved of Store and Merge in serial use.
LEMMA SessionGoesOn ==
    ASSUME SerialUse, SessionInv, MonoInv, [MergeNext]_allVars, ~Crashed
    PROVE  SessionInv' /\ MonoInv'
<1>1. /\ SerialInv /\ BusyInv /\ OldestInv /\ NewestInv /\ LastInv
      /\ IInv /\ faults \in Nat /\ AloneInv /\ PlacesInv /\ OrderInv /\ CopyInv /\ RiskInv
      /\ WriteAtRisk /\ OneMerge
  BY SerialIsOneMerge DEF SessionInv, OneWriteInv, SerialInv, OrderedInv, RiskInv
<1>2. IInv'
  BY <1>1, StoreAssumption, NextOK
<1>3. (faults \in Nat)'
  BY <1>1, FaultsCounted
<1>4. OrderedInv'
  BY <1>1, <1>2, <1>3, AloneOK, PlacesOK, OrderOK DEF OrderedInv
<1>5. SerialInv'
  <2>1. CopyInv'
    BY <1>1, CopyInvOK
  <2>2. DanglingWasInFlight' /\ WriteAtRisk' /\ PassedInv'
    BY <1>1, <1>2, DanglingOK, WriteAtRiskOK, PassedOK
  <2> QED
    BY <1>4, <2>1, <2>2 DEF SerialInv, RiskInv
<1>6. BusyInv'
  BY <1>1, BusyOK, StoreAssumption, MergeAssumption
<1>7. OldestInv'
  BY <1>1, OldestStep
<1>8. NewestInv'
  BY <1>1, <1>2, <1>6, NewestStep, StoreAssumption
<1>9. LastInv'
  BY <1>1, <1>2, <1>6, LastStep, StoreAssumption
<1>10. MonoInv'
  BY <1>1, <1>2, <1>6, MonoStep, StoreAssumption
<1> QED
  BY <1>5, <1>6, <1>7, <1>8, <1>9, <1>10 DEF SessionInv, OneWriteInv

-----------------------------------------------------------------------------
(* What a buffer spills when another process reads its file.                 *)

\* File f reaches the OS up to its entry n.
Spills(f, n) ==
    /\ f \in linked /\ n \in files[f].flushed..Len(files[f].entries)
    /\ files' = [files EXCEPT ![f].flushed = n]
    /\ UNCHANGED <<history, linked, active_id, next_file_id, memVars, promise, faults, crashes,
                   mergeVars>>

\* A spill adds no entry anywhere.
LEMMA SpillCalm ==
    ASSUME DiskInv, NEW f, NEW n, Spills(f, n)
    PROVE  /\ Calm
           /\ \A g \in DOMAIN files : /\ g # f => files'[g] = files[g]
                                      /\ files'[g].entries = files[g].entries
                                      /\ files'[g].synced = files[g].synced
           /\ DOMAIN files' = DOMAIN files /\ files'[f].flushed = n
<1> DEFINE d == [files[f] EXCEPT !.flushed = n]
           h == Len(history)
<1>1. /\ FilesOK(files, h) /\ h \in Nat /\ linked \subseteq DOMAIN files /\ f \in DOMAIN files
      /\ UNCHANGED <<history, linked, active_id, next_file_id>>
  BY DEF DiskInv, Spills
<1>2. /\ files[f] \in FileOf(h)
      /\ files[f].synced <= files[f].flushed /\ files[f].flushed <= Len(files[f].entries)
  BY <1>1 DEF FilesOK
<1>3. files[f].flushed \in Nat /\ files[f].synced \in Nat /\ Len(files[f].entries) \in Nat
  BY <1>2 DEF FileOf
<1>4. n \in Nat /\ files[f].flushed <= n /\ n <= Len(files[f].entries)
  BY <1>3 DEF Spills
<1>5. d.entries = files[f].entries /\ d.flushed = n /\ d.synced = files[f].synced
  BY <1>2 DEF FileOf
<1>6. d \in FileOf(h)
  BY <1>2, <1>4 DEF FileOf
<1>7. files' = [files EXCEPT ![f] = d]
  BY DEF Spills
<1>8. DOMAIN files' = DOMAIN files /\ \A g \in DOMAIN files : files'[g] = IF g = f THEN d ELSE files[g]
  BY <1>7
<1>9. FileGrows(files[f], d)
  BY <1>3, <1>4, <1>5 DEF FileGrows
<1>10. FilesOK(files', h) /\ Grows(files, files')
  <2> HIDE DEF d
  <2>1. d.synced <= d.flushed /\ d.flushed <= Len(d.entries)
    BY <1>2, <1>3, <1>4, <1>5
  <2> QED
    BY <1>1, <1>6, <1>7, <1>9, <2>1, OneFileGrows
<1>11. /\ HistoryGrows /\ history' \in Seq(Write) /\ next_file_id' \in Nat
       /\ next_file_id <= next_file_id' /\ Len(history') = Len(history)
  BY <1>1 DEF HistoryGrows, DiskInv
<1>12. Advances
  BY <1>1, <1>8, <1>10, <1>11, FilesAdvance
<1> HIDE DEF d
<1>13. NoNewEntries
  BY <1>1, <1>5, <1>8 DEF NoNewEntries
<1> QED
  BY <1>1, <1>5, <1>8, <1>12, <1>13 DEF Calm

\* Types and places survive it.
LEMMA SpillKeepsTypes ==
    ASSUME IInv, Advances, DOMAIN files' = DOMAIN files,
           UNCHANGED <<linked, keydir, readers, pc, arg, merging>>
    PROVE  IInv'
<1>1. KeydirInv'
  BY KeydirStays DEF IInv
<1>2. ArgInv'
  BY WriteStays DEF IInv, ArgInv
<1>3. MergesInv'
  BY MergeStays DEF IInv, MergesInv
<1>4. HandleInv'
  BY DEF IInv, HandleInv, NoLeakedHandle
<1> QED
  BY <1>1, <1>2, <1>3, <1>4 DEF IInv, Advances

\* A viewer of a session's files changes nothing for the session.
LEMMA SpillKeeps ==
    ASSUME SessionInv, MonoInv, WrittenInv, NEW f, NEW n, Spills(f, n)
    PROVE  SessionInv' /\ MonoInv'
<1>1. /\ SerialInv /\ BusyInv /\ OldestInv /\ NewestInv /\ LastInv
      /\ IInv /\ DiskInv /\ faults \in Nat /\ AloneInv /\ PlacesInv /\ OrderInv /\ CopyInv /\ RiskInv
  BY DEF SessionInv, OneWriteInv, SerialInv, OrderedInv, IInv
<1>2. /\ Calm /\ Advances /\ NoNewEntries /\ DOMAIN files' = DOMAIN files /\ files'[f].flushed = n
      /\ \A g \in DOMAIN files : g # f => files'[g] = files[g]
  BY <1>1, SpillCalm DEF Calm
<1>3. UNCHANGED <<history, linked, active_id, next_file_id, keydir, readers, pc, arg, held,
                  faults, merging, at_risk>>
  BY DEF Spills, memVars, mergeVars
<1>4. SameWrites
  BY <1>3 DEF SameWrites
<1>5. IInv'
  BY <1>1, <1>2, <1>3, SpillKeepsTypes
<1>6. AloneInv' /\ PlacesInv' /\ OrderInv' /\ BusyInv' /\ OldestInv' /\ (faults \in Nat)'
  <2>1. AloneInv'
    BY <1>1, <1>3 DEF AloneInv
  <2>2. PlacesInv'
    BY <1>1, <1>3 DEF PlacesInv
  <2>3. OrderInv'
    BY <1>1, <1>3 DEF OrderInv
  <2>4. BusyInv'
    BY <1>1, <1>3 DEF BusyInv
  <2>5. OldestInv'
    BY <1>1, <1>3 DEF OldestInv
  <2> QED
    BY <1>1, <1>3, <2>1, <2>2, <2>3, <2>4, <2>5
<1>7. RiskInv'
  BY <1>1, <1>3 DEF RiskInv, DanglingWasInFlight, WriteAtRisk, PassedInv
<1>8. CopyInv'
  <2> SUFFICES ASSUME NEW t \in Threads, pc[t] \in MergePCs
               PROVE  CopyOK(merging[t], pc[t], files')
    BY <1>3 DEF CopyInv
  <2>1. CopyOK(merging[t], pc[t], files)
    BY <1>1 DEF CopyInv
  <2>2. ASSUME pc[t] \in {"copy", "repoint"}, merging[t].file \in merging[t].inputs \ merging[t].rest
        PROVE  files'[merging[t].file].flushed = files[merging[t].file].flushed
    <3>1. merging[t].inputs \subseteq DOMAIN files
      BY <1>1, MergeKnown DEF InputsOK
    <3>2. CASE merging[t].file # f
      BY <1>2, <2>2, <3>1, <3>2
    <3>3. CASE merging[t].file = f
      <4>1. f \in linked /\ f \notin {merging[t].out}
        <5>1. pc[t] \in CopyPCs
          BY <2>2 DEF CopyPCs, RepointPCs
        <5> QED
          BY <1>1, <2>2, <3>3, <5>1 DEF Spills, PlacesInv, PlaceOK
      <4>2. \A u \in Threads : pc[u] \in CopyingPCs => u = t
        BY <1>1 DEF AloneInv, CopyingPCs, MergePCs
      <4>3. files[f].flushed = Len(files[f].entries)
        BY <4>1, <4>2 DEF WrittenInv, FlushedIn
      <4>4. files[f].flushed \in Nat
        BY <1>1, <2>2, <3>1, <3>3 DEF DiskInv, FilesOK, FileOf
      <4> QED
        BY <1>2, <3>3, <4>3, <4>4 DEF Spills
    <3> QED
      BY <3>2, <3>3
  <2> QED
    BY <2>1, <2>2 DEF CopyOK
<1>9. NewestInv' /\ LastInv'
  BY <1>1, <1>2, <1>3, <1>4, CalmNewest, SameWritesLast
<1>10. MonoInv'
  <2>1. ASSUME NEW k \in Keys, NEW p \in Location, IsPlace(files', linked', history', k, p)
        PROVE  IsPlace(files, linked, history, k, p)
    BY <1>1, <1>2, <2>1, NoNewPlaces
  <2> QED
    BY <1>1, <1>2, <2>1, MonoStays
<1> QED
  BY <1>5, <1>6, <1>7, <1>8, <1>9, <1>10
     DEF SessionInv, OneWriteInv, SerialInv, OrderedInv

-----------------------------------------------------------------------------
(* What a step may do to a recovery that another process is in.              *)

\* What the OS has stays where it is.
NothingLost ==
    \A p \in Location : OnOS(files, p) =>
        /\ OnOS(files', p) /\ EntryIn(files', p) = EntryIn(files, p)
        /\ history'[EntryIn(files', p)] = history[EntryIn(files, p)]

\* Place p was there before the step.
WasThere(p) ==
    /\ InFile(files, p) /\ EntryIn(files', p) = EntryIn(files, p)
    /\ history'[EntryIn(files', p)] = history[EntryIn(files, p)]

\* No entry appears in the files of L.
NothingNew(L) ==
    \A p \in Location : p.file_id \in L /\ InFile(files', p) => WasThere(p)

\* A step that only adds to the files loses nothing.
LEMMA AdvancesLosesNothing ==
    ASSUME DiskInv, Advances
    PROVE  NothingLost /\ HistoryGrows /\ \A p : InFile(files, p) => WasThere(p)
<1>1. HistoryGrows
  BY DEF Advances
<1>2. \A p : InFile(files, p) => WasThere(p) /\ (OnOS(files, p) => OnOS(files', p))
  BY PlacesStay DEF WasThere
<1> QED
  BY <1>1, <1>2 DEF NothingLost, OnOS, WasThere

\* A calm step adds no place to the directory.
LEMMA CalmIsNothingNew ==
    ASSUME DiskInv, Calm
    PROVE  NothingNew(linked)
<1> SUFFICES ASSUME NEW p \in Location, p.file_id \in linked, InFile(files', p)
             PROVE  InFile(files, p)
  BY AdvancesLosesNothing DEF NothingNew, Calm
<1>1. linked \subseteq linked' /\ linked \subseteq DOMAIN files
  BY DEF Calm, NoNewEntries, DiskInv
<1>2. CASE files'[p.file_id].entries = files[p.file_id].entries
  BY <1>1, <1>2 DEF InFile
<1>3. CASE files'[p.file_id].entries = <<>>
  <2>1. p.value_pos \in Nat \ {0} /\ Len(<<>>) = 0
    BY DEF Location
  <2> QED
    BY <1>3, <2>1 DEF InFile
<1> QED
  BY <1>1, <1>2, <1>3 DEF Calm, NoNewEntries

\* What a place tells of the first n writes does not change,
LEMMA TellsStays ==
    ASSUME history \in Seq(Write), HistoryGrows, NEW k, NEW n \in 0..Len(history),
           NEW p, Tells(k, n, p), EntryIn(files', p) = EntryIn(files, p),
           history'[EntryIn(files', p)] = history[EntryIn(files, p)]
    PROVE  Tells(k, n, p)'
<1>1. LastOf(k, n)' = LastOf(k, n)
  BY LastOfStays
<1> QED
  BY <1>1 DEF Tells

\* nor does a place that cannot be missed.
LEMMA AnchorStays ==
    ASSUME history \in Seq(Write), HistoryGrows, NothingLost, NEW L, NEW k,
           NEW n \in 0..Len(history), NEW q \in Location, Anchor(L, k, n, q)
    PROVE  Anchor(L, k, n, q)'
<1>1. /\ OnOS(files', q) /\ EntryIn(files', q) = EntryIn(files, q)
      /\ history'[EntryIn(files', q)] = history[EntryIn(files, q)]
  BY DEF Anchor, NothingLost
<1>2. Tells(k, n, q)'
  BY <1>1, TellsStays DEF Anchor
<1> QED
  BY <1>1, <1>2 DEF Anchor, IsPlace, OnOS

\* A recovery still ends where it did if every new place tells the same.
LEMMA ScanStays ==
    ASSUME history \in Seq(Write), HistoryGrows, NothingLost, NEW L, NEW k, NEW loc,
           NEW n \in 0..Len(history), ScansTo(L, loc, k, n), loc # None => OnOS(files, loc),
           \A p \in Location : IsPlace(files', L, history', k, p) => WasThere(p) \/ Tells(k, n, p)'
    PROVE  ScansTo(L, loc, k, n)'
<1>1. ASSUME NEW q \in Location, Anchor(L, k, n, q) PROVE Anchor(L, k, n, q)'
  BY <1>1, AnchorStays
<1>2. VersionAt(loc)' = VersionAt(loc) /\ LastOf(k, n)' = LastOf(k, n)
  <2>1. loc # None => loc \in Location /\ EntryIn(files', loc) = EntryIn(files, loc)
    BY DEF NothingLost, OnOS, InFile
  <2> QED
    BY <2>1, LastOfStays DEF VersionAt, EntryIn
<1>3. ASSUME NEW p \in Location, IsPlace(files', L, history', k, p)
      PROVE  Tells(k, n, p)' \/ \E q \in Location : UpTo(p, q) /\ Anchor(L, k, n, q)'
  <2>1. CASE WasThere(p)
    <3>1. IsPlace(files, L, history, k, p)
      BY <1>3, <2>1 DEF IsPlace, WasThere
    <3>2. Tells(k, n, p) => Tells(k, n, p)'
      BY <2>1, TellsStays DEF WasThere
    <3> QED
      BY <1>1, <3>1, <3>2 DEF ScansTo
  <2> QED
    BY <1>3, <2>1
<1>4. \/ VersionAt(loc)' = LastOf(k, n)'
      \/ \E q \in Location : Anchor(L, k, n, q)'
  BY <1>1, <1>2 DEF ScansTo
<1> QED
  BY <1>3, <1>4 DEF ScansTo

\* One handle, which the step leaves where it is.
Waits(h) ==
    /\ step'[h] = step[h] /\ left'[h] = left[h] /\ found'[h] = found[h]
    /\ h \in Viewers => during'[h] = during[h]

\* ScanStays, for all keys of a handle that waits.
LEMMA HandleScanStays ==
    ASSUME history \in Seq(Write), HistoryGrows, NothingLost, NEW h \in Handles, Waits(h),
           FoundOK(h), NEW n \in 0..Len(history),
           \A k \in Keys : ScansTo(left[h], found[h][k], k, n),
           \A k \in Keys, p \in Location :
              IsPlace(files', left[h], history', k, p) => WasThere(p) \/ Tells(k, n, p)'
    PROVE  \A k \in Keys : ScansTo(left[h], found[h][k], k, n)'
<1> SUFFICES ASSUME NEW k \in Keys PROVE ScansTo(left[h], found[h][k], k, n)'
  OBVIOUS
<1>1. PICK L, loc : L = left[h] /\ L = left'[h] /\ loc = found[h][k] /\ loc = found'[h][k]
  BY DEF Waits
<1>2. ScansTo(L, loc, k, n) /\ (loc # None => OnOS(files, loc))
  BY <1>1 DEF FoundOK
<1>3. ScansTo(L, loc, k, n)'
  BY <1>1, <1>2, ScanStays
<1> QED
  BY <1>1, <1>3 DEF ScansTo, Anchor, VersionAt
\* New files get new ids, and files come back neither to the directory nor to a merge.
OldStaysOld ==
    /\ linked' \cap DOMAIN files \subseteq linked
    /\ active_id' = active_id \/ active_id' \notin DOMAIN files
    /\ \A L \in SUBSET DOMAIN files : CopiesInto(L)' => CopiesInto(L)

\* Since is a number of writes.
LEMMA SinceKnown ==
    ASSUME HTypeOK, history \in Seq(Write), NEW h \in Handles
    PROVE  Since(h) \in Nat
<1>1. Len(history) \in Nat /\ (h \in Viewers => during[h] \in [from : Nat, to : Nat])
  BY DEF HTypeOK
<1> QED
  BY <1>1 DEF Since

\* A step that writes nothing.
LEMMA QuietScan ==
    ASSUME HTypeOK, history \in Seq(Write), history' = history, NothingLost, OldStaysOld,
           NEW h \in Handles, Waits(h), FoundOK(h), ScanFor(h),
           left[h] \subseteq linked /\ step[h] \in {"recover", "create"} =>
              \A n \in Since(h)..Len(history), k \in Keys, p \in Location :
                 IsPlace(files', left[h], history', k, p) => WasThere(p) \/ Tells(k, n, p)'
    PROVE  ScanFor(h)'
<1>1. left[h] \in SUBSET DOMAIN files /\ Len(history) \in Nat /\ Since(h) \in Nat /\ HistoryGrows
  BY SinceKnown DEF HTypeOK, HistoryGrows
<1>2. Since(h)' = Since(h)
  BY DEF Since, Waits
<1> SUFFICES ASSUME step[h] \in {"recover", "create"}, left[h] \subseteq linked'
             PROVE  /\ CopiesInto(left[h])' => Since(h) = Len(history)
                    /\ \E n \in Since(h)..Len(history) : ScanOK(h, n)'
  BY <1>2 DEF ScanFor, Waits
<1>3. left[h] \subseteq linked
  BY <1>1 DEF OldStaysOld
<1>4. CopiesInto(left[h])' => Since(h) = Len(history)
  <2>1. PICK L : L = left[h] /\ L = left'[h]
    BY DEF Waits
  <2>2. CopiesInto(L)' => CopiesInto(L)
    BY <1>1, <2>1 DEF OldStaysOld
  <2>3. (CopiesInto(left[h])' <=> CopiesInto(L)') /\ (CopiesInto(left[h]) <=> CopiesInto(L))
    BY <2>1 DEF CopiesInto
  <2> QED
    BY <1>3, <2>2, <2>3 DEF ScanFor
<1>5. PICK n \in Since(h)..Len(history) : ScanOK(h, n)
  BY <1>3 DEF ScanFor
<1>6. n \in 0..Len(history)
  BY <1>1
<1>7. \A k \in Keys : ScansTo(left[h], found[h][k], k, n)
  BY <1>5 DEF ScanOK
<1>8. \A k \in Keys, p \in Location :
         IsPlace(files', left[h], history', k, p) => WasThere(p) \/ Tells(k, n, p)'
  BY <1>3, <1>5
<1>9. \A k \in Keys : ScansTo(left[h], found[h][k], k, n)'
  BY <1>1, <1>6, <1>7, <1>8, HandleScanStays
<1>10. active_id' \in left[h] => n = Len(history)
  BY <1>1, <1>5 DEF ScanOK, OldStaysOld
<1>11. ScanOK(h, n)'
  BY <1>9, <1>10 DEF ScanOK, Waits
<1> QED
  BY <1>4, <1>5, <1>11

\* A step that adds no place leaves a waiting handle's scan where it was.
LEMMA NothingNewScan ==
    ASSUME HTypeOK, history \in Seq(Write), history' = history, NothingLost, OldStaysOld,
           NothingNew(linked), NEW h \in Handles, Waits(h), FoundOK(h), ScanFor(h)
    PROVE  ScanFor(h)'
<1>1. ASSUME left[h] \subseteq linked, NEW k \in Keys, NEW p \in Location,
             IsPlace(files', left[h], history', k, p)
      PROVE  WasThere(p)
  BY <1>1 DEF IsPlace, NothingNew
<1> QED
  BY <1>1, QuietScan

\* A file that becomes the active one is a new one.
LEMMA IdsMove ==
    ASSUME DiskInv, [MergeNext]_allVars
    PROVE  active_id' = active_id \/ active_id' \notin DOMAIN files
<1>1. /\ IsFiniteSet(linked) /\ linked \subseteq Nat /\ active_id \in linked
      /\ DOMAIN files \subseteq Nat
      /\ \A f \in DOMAIN files : f < next_file_id /\ (f \in linked \/ f < active_id)
      /\ next_file_id \in Nat
  BY DEF DiskInv, FilesOK
<1>2. Max(linked) \in Nat /\ \A f \in linked : f <= Max(linked)
  BY <1>1, MaxIsGreatest
<1>3. next_file_id \notin DOMAIN files /\ Max(linked) + 1 \notin DOMAIN files
  BY <1>1, <1>2
<1> QED
  BY <1>3, ActiveIsNext

\* The output a merge copies into is the one it copied into before, or new.
LEMMA OutputsMove ==
    ASSUME IInv, [MergeNext]_allVars, ~Crashed, NEW t \in Threads, pc'[t] \in CopyPCs
    PROVE  \/ pc[t] \in CopyPCs /\ merging'[t].out = merging[t].out
           \/ merging'[t].out = next_file_id
<1>1. pc'[t] \in MergePCs /\ pc'[t] \notin {"idle", "open", "remove", "forget", "restore"}
  BY DEF CopyPCs, RepointPCs, MergePCs
<1>2. ASSUME ~MergeStep(t)
      PROVE  pc[t] \in CopyPCs /\ merging'[t].out = merging[t].out
  BY <1>1, <1>2, OthersKeep
<1>3. CASE MergeOpen(t)
  BY <1>3, OpenMoves
<1>4. CASE MergeRead(t)
  BY <1>1, <1>4, ReadMoves DEF CopyPCs
<1>5. CASE MergeEntry(t)
  BY <1>5, EntryMoves DEF CopyPCs
<1>6. CASE MergeRepoint(t)
  BY <1>6, RepointMoves DEF CopyPCs
<1>7. CASE MergeFinish(t)
  BY <1>7, FinishMoves DEF CopyPCs
<1>8. ~MergeStart(t) /\ ~MergeRemove(t) /\ ~MergeForget(t) /\ ~MergeRestore(t) /\ ~MergeFails(t)
  BY <1>1, StartMoves, RemoveMoves, ForgetMoves, EndMoves
<1> QED
  BY <1>2, <1>3, <1>4, <1>5, <1>6, <1>7, <1>8 DEF MergeStep

\* The calls of a session give new files new ids.
LEMMA CallsKeepOld ==
    ASSUME IInv, [MergeNext]_allVars, ~Crashed
    PROVE  OldStaysOld
<1>1. DiskInv /\ next_file_id \notin DOMAIN files
  BY DEF IInv, DiskInv, FilesOK
<1>2. linked' \subseteq linked \cup {next_file_id}
  BY LinkedMoves
<1>3. ASSUME NEW L \in SUBSET DOMAIN files, CopiesInto(L)' PROVE CopiesInto(L)
  <2>1. PICK t \in Threads : pc'[t] \in CopyPCs /\ merging'[t].out \in L
    BY <1>3 DEF CopiesInto
  <2> QED
    BY <1>1, <2>1, OutputsMove DEF CopiesInto
<1> QED
  BY <1>1, <1>2, <1>3, IdsMove DEF OldStaysOld

\* A put or a delete adds the last write of its key to the newest of the files.
LEMMA AppendScan ==
    ASSUME SerialUse, StoreAssumption, HTypeOK, IInv, IInv', OrderInv, BusyInv, BusyInv',
           OldStaysOld, NEW v \in Viewers, Waits(v), FoundOK(v), ScanFor(v),
           NEW t \in Threads, NEW k \in Keys, NEW tomb \in BOOLEAN,
           AppendEntry(t, k, tomb), pc[t] \notin WritePCs \cup MergePCs
    PROVE  ScanFor(v)'
<1>0. PICK m \in Nat : m = Len(history)
  BY DEF IInv, DiskInv
<1>1. /\ pc' = [pc EXCEPT ![t] = IF SyncOnPut THEN "sync" ELSE "update"]
      /\ OneEntryMore(active_id, NewWrite)
  BY AppendAddsOne
<1>2. /\ Advances /\ history'[NewWrite] = [key |-> k, tomb |-> tomb]
      /\ OnOS(files', NewPlace) /\ EntryIn(files', NewPlace) = NewWrite
  BY AppendAdvances DEF IInv
<1>3. /\ pc \in [Threads -> PCs] /\ history \in Seq(Write) /\ DiskInv /\ v \in Handles
  BY DEF IInv, ArgInv, DiskInv, Handles
<1>4. /\ \A f \in linked : f <= active_id
      /\ \A u \in Threads : pc'[u] \notin CopyPCs
  <2>1. PICK l \in WritePCs : pc' = [pc EXCEPT ![t] = l]
    BY <1>1 DEF WritePCs
  <2>2. \A u \in Threads : u # t => pc'[u] \in Quiet
    BY <1>3, <2>1 DEF BusyInv, WritePCs, Quiet
  <2> QED
    BY <1>3, <2>1, <2>2, AppendsToNewest DEF WritePCs, CopyPCs, RepointPCs, Quiet
<1>5. /\ NewWrite = m + 1 /\ Len(history') = m + 1 /\ HistoryGrows /\ NothingLost
      /\ history' = Append(history, [key |-> k, tomb |-> tomb])
      /\ \A p : InFile(files, p) => WasThere(p)
  BY <1>0, <1>2, <1>3, AdvancesLosesNothing DEF AppendEntry, NewWrite
<1>6. NewPlace \in Location /\ NewPlace = NextPlace(active_id)
  BY <1>2 DEF OnOS, InFile, NewPlace, NextPlace
<1>7. left[v] \in SUBSET DOMAIN files /\ Since(v) \in Nat /\ Since(v)' = Since(v)
      /\ during'[v] = during[v]
  BY <1>3, SinceKnown DEF HTypeOK, Since, Waits
<1> SUFFICES ASSUME step[v] \in {"recover", "create"}, left[v] \subseteq linked'
             PROVE  \E n \in Since(v)..m + 1 : ScanOK(v, n)'
  BY <1>4, <1>5, <1>7 DEF ScanFor, Waits, CopiesInto
<1>8. left[v] \subseteq linked /\ linked \subseteq linked'
  BY <1>1, <1>7 DEF OldStaysOld, OneEntryMore
<1>9. PICK n \in Since(v)..m : ScanOK(v, n)
  BY <1>0, <1>8 DEF ScanFor
<1>10. n \in 0..Len(history) /\ n \in Nat /\ \A j \in Keys : ScansTo(left[v], found[v][j], j, n)
  BY <1>0, <1>7, <1>9 DEF ScanOK
<1>11. ASSUME NEW j \in Keys, NEW p \in Location, IsPlace(files', left[v], history', j, p),
              p # NewPlace
       PROVE  WasThere(p)
  <2>1. IsPlace(files', linked', history', j, p)
    BY <1>8, <1>11 DEF IsPlace
  <2>2. IsPlace(files, linked, history, j, p)
    BY <1>1, <1>2, <1>3, <1>6, <1>11, <2>1, OneNewPlace
  <2> QED
    BY <1>5, <2>2 DEF IsPlace
<1>12. CASE active_id \notin left[v]
  <2>1. ASSUME NEW j \in Keys, NEW p \in Location, IsPlace(files', left[v], history', j, p)
        PROVE  WasThere(p)
    <3>1. p # NewPlace
      BY <1>12, <2>1 DEF IsPlace, NewPlace
    <3> QED
      BY <1>11, <2>1, <3>1
  <2>2. \A j \in Keys : ScansTo(left[v], found[v][j], j, n)'
    BY <1>3, <1>5, <1>10, <2>1, HandleScanStays
  <2>3. active_id' \notin left[v]
    BY <1>7, <1>12 DEF OldStaysOld
  <2>4. ScanOK(v, n)'
    BY <2>2, <2>3 DEF ScanOK, Waits
  <2> QED
    BY <1>7, <1>9, <2>4
<1>13. CASE active_id \in left[v]
  <2>1. n = m
    BY <1>0, <1>9, <1>13 DEF ScanOK
  <2> SUFFICES ASSUME NEW j \in Keys PROVE ScansTo(left[v], found[v][j], j, m + 1)'
    <3>1. ScanOK(v, m + 1)'
      BY <1>5 DEF ScanOK
    <3> QED
      BY <1>7, <1>9, <2>1, <3>1
  <2>2. PICK L, loc : L = left[v] /\ L = left'[v] /\ loc = found[v][j] /\ loc = found'[v][j]
    BY DEF Waits
  <2> SUFFICES ScansTo(L, loc, j, m + 1)'
    <3>1. left'[v] = L /\ found'[v][j] = loc
      BY <2>2
    <3> QED
      BY ONLY <3>1, ScansTo(L, loc, j, m + 1)' DEF ScansTo, Anchor, VersionAt
  <2>3. LastOf(j, m + 1)' = IF j = k THEN IF tomb THEN 0 ELSE m + 1 ELSE LastOf(j, m)
    <3>1. /\ history \in Seq(Write) /\ m = Len(history)
          /\ history' = Append(history, [key |-> k, tomb |-> tomb])
      BY <1>0, <1>3, <1>5
    <3> QED
      BY ONLY <3>1, j \in Keys, k \in Keys, tomb \in BOOLEAN, m \in Nat, LastOfAppended
  <2>4. PICK x \in Location : x = NewPlace
    BY <1>6
  <2>5. ASSUME j = k PROVE ScansTo(L, loc, j, m + 1)'
    <3>1. Tells(j, m + 1, x)'
      BY <1>2, <1>5, <2>3, <2>4, <2>5 DEF Tells
    <3>2. IsPlace(files', L, history', j, x)
      <4>1. InFile(files', x) /\ x.file_id \in L
        BY <1>2, <1>13, <2>2, <2>4 DEF OnOS, NewPlace
      <4> QED
        BY <1>2, <2>4, <2>5, <4>1 DEF IsPlace
    <3>3. Anchor(L, j, m + 1, x)'
      BY <1>2, <2>4, <3>1, <3>2 DEF Anchor
    <3>4. ASSUME NEW p \in Location, IsPlace(files', L, history', j, p) PROVE UpTo(p, x)
      <4>1. IsPlace(files', linked', history', j, p)
        BY <1>8, <2>2, <3>4 DEF IsPlace
      <4> QED
        BY <1>1, <1>2, <1>3, <1>4, <2>4, <4>1, AppendIsTop
    <3> QED
      BY <3>3, <3>4 DEF ScansTo
  <2>6. ASSUME j # k PROVE ScansTo(L, loc, j, m + 1)'
    <3>1. ASSUME NEW p \in Location, IsPlace(files', L, history', j, p) PROVE WasThere(p)
      <4>1. p # NewPlace
        BY <1>2, <2>6, <3>1 DEF IsPlace
      <4> QED
        BY <1>11, <2>2, <3>1, <4>1
    <3>2. ScansTo(L, loc, j, m) /\ (loc # None => OnOS(files, loc)) /\ m \in 0..Len(history)
      BY <1>10, <2>1, <2>2 DEF FoundOK
    <3>3. ScansTo(L, loc, j, m)'
      BY <1>3, <1>5, <3>1, <3>2, ScanStays
    <3>4. LastOf(j, m)' = LastOf(j, m)
      BY <1>3, <1>5, <3>2, LastOfStays
    <3> QED
      BY <2>3, <2>6, <3>3, <3>4 DEF ScansTo, Anchor, Tells
  <2> QED
    BY <2>5, <2>6
<1> QED
  BY <1>12, <1>13

\* A copy adds what the keydir says to a file that was there before the recovery began only
\* if the merge was; nothing was written since.
LEMMA CopyScan ==
    ASSUME HTypeOK, IInv, IInv', PlacesInv, BusyInv, LastInv, OldStaysOld,
           NEW h \in Handles, Waits(h), FoundOK(h), ScanFor(h),
           NEW t \in Threads, MergeEntry(t), IsLive(merging[t])
    PROVE  ScanFor(h)'
<1> DEFINE o == merging[t]
           e == EntryAt(o)
<1>1. Advances /\ OneEntryMore(o.out, e)
  BY EntryAddsOne
<1>2. DiskInv /\ history \in Seq(Write) /\ FilesOK(files, Len(history)) /\ keydir \in Keydirs
  BY DEF IInv, DiskInv, KeydirInv
<1>3. NothingLost /\ HistoryGrows /\ \A p : InFile(files, p) => WasThere(p)
  BY <1>1, <1>2, AdvancesLosesNothing
<1>4. pc[t] = "copy" /\ o.at <= o.upto /\ history' = history /\ pc[t] \in CopyPCs /\ pc[t] \in MergePCs
  BY DEF MergeEntry, CopyPCs, MergePCs
<1>5. /\ e \in 1..Len(history) /\ EntryIn(files, OldPlace(o)) = e
      /\ ~history[e].tomb /\ keydir[history[e].key] = OldPlace(o)
      /\ OldPlace(o) \in Location
  BY <1>4, EntryAtOK DEF IsLive, OldPlace, InFile
<1>6. EntryIn(files', NextPlace(o.out)) = e
  <2>1. /\ files'[o.out].entries = Append(files[o.out].entries, e)
        /\ files[o.out].entries \in Seq(1..Len(history))
    BY <1>1, <1>2 DEF OneEntryMore, FilesOK, FileOf, DiskInv
  <2> HIDE DEF e, o
  <2>2. Append(files[o.out].entries, e)[Len(files[o.out].entries) + 1] = e
    BY <1>5, <2>1
  <2> QED
    BY <2>1, <2>2 DEF EntryIn, NextPlace
<1> SUFFICES ASSUME left[h] \subseteq linked, step[h] \in {"recover", "create"},
                    NEW n \in Since(h)..Len(history), NEW k \in Keys, NEW p \in Location,
                    IsPlace(files', left[h], history', k, p), ~WasThere(p)
             PROVE  Tells(k, n, p)'
  BY <1>2, <1>3, <1>4, QuietScan
<1> HIDE DEF e, o
<1>7. IsPlace(files', linked', history', k, p)
  BY <1>1 DEF IsPlace, OneEntryMore
<1>8. p = NextPlace(o.out)
  <2> SUFFICES ASSUME p # NextPlace(o.out) PROVE FALSE
    OBVIOUS
  <2>1. IsPlace(files, linked, history, k, p)
    BY <1>1, <1>2, <1>7, OneNewPlace
  <2> QED
    BY <1>3, <2>1 DEF IsPlace
<1>9. n = Len(history) /\ Len(history) \in Nat
  <2>1. o.out \in left[h]
    BY <1>8 DEF IsPlace, NextPlace
  <2>2. Since(h) = Len(history)
    BY <1>4, <2>1 DEF ScanFor, CopiesInto, o
  <2> QED
    BY <1>2, <2>2
<1>10. k = history[e].key
  BY <1>4, <1>6, <1>8 DEF IsPlace
<1>11. e = LastOf(k, n)
  <2>1. Says(k, keydir[k])
    BY <1>4, KeydirSays
  <2>2. keydir[k] = OldPlace(o) /\ OldPlace(o) # None
    BY <1>5, <1>10, NoneAssumption
  <2>3. VersionAt(OldPlace(o)) = LastOf(k, Len(history))
    BY <1>5, <2>1, <2>2 DEF LastInv
  <2> QED
    BY <1>5, <1>9, <2>2, <2>3 DEF VersionAt, EntryIn
<1>12. LastOf(k, n)' = LastOf(k, n)
  BY <1>2, <1>3, <1>9, LastOfStays
<1> QED
  BY <1>4, <1>5, <1>6, <1>8, <1>11, <1>12 DEF Tells

\* The calls of the session, one step of them.
LEMMA CallScan ==
    ASSUME SerialUse, HTypeOK, SessionInv, SessionInv', [MergeNext]_allVars, ~Crashed,
           NEW h \in Handles, Waits(h), FoundOK(h), ScanFor(h),
           h \in Viewers \/ step[h] \notin {"recover", "create"}
    PROVE  ScanFor(h)'
<1>1. /\ SerialInv /\ BusyInv /\ LastInv /\ IInv /\ DiskInv /\ PlacesInv /\ OrderInv
      /\ history \in Seq(Write)
  BY DEF SessionInv, OneWriteInv, SerialInv, OrderedInv, IInv, DiskInv
<1>2. IInv' /\ BusyInv'
  BY DEF SessionInv, OneWriteInv, SerialInv, OrderedInv
<1>3. OldStaysOld
  BY <1>1, CallsKeepOld
<1>4. ASSUME Calm, ~Appends PROVE ScanFor(h)'
  <2>1. history' = history
    BY <1>1, <1>4, HistoryMoves
  <2>2. NothingLost /\ NothingNew(linked)
    BY <1>1, <1>4, CalmIsNothingNew, AdvancesLosesNothing DEF Calm
  <2> QED
    BY <1>1, <1>3, <2>1, <2>2, NothingNewScan
<1>5. ASSUME Appends PROVE ScanFor(h)'
  <2>1. CASE h \in Viewers
    BY <1>1, <1>2, <1>3, <1>5, <2>1, AppendScan, StoreAssumption DEF Appends
  <2>2. CASE step[h] \notin {"recover", "create"}
    BY <2>2 DEF ScanFor, Waits
  <2> QED
    BY <2>1, <2>2
<1>6. ASSUME Copies PROVE ScanFor(h)'
  BY <1>1, <1>2, <1>3, <1>6, CopyScan DEF Copies
<1>7. ASSUME Removes PROVE ScanFor(h)'
  <2>1. UNCHANGED <<history, files>>
    BY <1>7 DEF Removes, MergeRemove
  <2>2. NothingLost /\ NothingNew(linked)
    BY <2>1 DEF NothingLost, NothingNew, WasThere
  <2> QED
    BY <1>1, <1>3, <2>1, <2>2, NothingNewScan
<1> QED
  BY <1>1, <1>4, <1>5, <1>6, <1>7, FourKinds

-----------------------------------------------------------------------------
(* What a step leaves of what a handle found.                                *)

\* What a handle found stays where it was found.
LEMMA FoundStays ==
    ASSUME NothingLost, NEW h \in Handles, found'[h] = found[h], FoundOK(h)
    PROVE  FoundOK(h)'
<1> SUFFICES ASSUME NEW k \in Keys, found[h][k] # None
             PROVE  /\ OnOS(files', found[h][k])
                    /\ history'[EntryIn(files', found[h][k])] = [key |-> k, tomb |-> FALSE]
  BY DEF FoundOK
<1>1. /\ OnOS(files, found[h][k])
      /\ history[EntryIn(files, found[h][k])] = [key |-> k, tomb |-> FALSE]
  BY DEF FoundOK
<1>2. found[h][k] \in Location
  BY <1>1 DEF OnOS, InFile
<1> QED
  BY <1>1, <1>2 DEF NothingLost

\* A location the OS has keeps its version.
LEMMA VersionStays ==
    ASSUME NothingLost, NEW loc, loc # None => OnOS(files, loc)
    PROVE  VersionAt(loc)' = VersionAt(loc)
<1>1. loc # None => loc \in Location /\ EntryIn(files', loc) = EntryIn(files, loc)
  BY DEF NothingLost, OnOS, InFile
<1> QED
  BY <1>1 DEF VersionAt, EntryIn

\* A view stays the view of a moment.
LEMMA ViewStays ==
    ASSUME HTypeOK, history \in Seq(Write), HistoryGrows, Len(history') \in Nat, NothingLost,
           NEW h \in Handles, Waits(h), FoundOK(h), ViewFor(h)
    PROVE  ViewFor(h)'
<1> SUFFICES ASSUME h \in Viewers, step[h] = "open"
             PROVE  /\ during[h].to <= Len(history')
                    /\ \E n \in during[h].from..during[h].to :
                          \A k \in Keys : VersionAt(found[h][k])' = LastOf(k, n)'
  BY DEF ViewFor, Waits
<1>1. /\ during[h].from \in Nat /\ during[h].to \in Nat /\ Len(history) \in Nat
      /\ during[h].to <= Len(history) /\ Len(history) <= Len(history')
  BY DEF HTypeOK, ViewFor, HistoryGrows
<1>2. PICK n \in during[h].from..during[h].to :
         \A k \in Keys : VersionAt(found[h][k]) = LastOf(k, n)
  BY DEF ViewFor
<1>3. n \in 0..Len(history)
  BY <1>1, <1>2
<1>4. ASSUME NEW k \in Keys
      PROVE  VersionAt(found[h][k])' = LastOf(k, n)'
  <2>1. PICK loc : loc = found[h][k] /\ loc = found'[h][k]
    BY DEF Waits
  <2>2. VersionAt(loc)' = VersionAt(loc)
    BY <2>1, VersionStays DEF FoundOK
  <2>3. LastOf(k, n)' = LastOf(k, n)
    BY <1>3, LastOfStays
  <2> QED
    BY <1>2, <2>1, <2>2, <2>3 DEF VersionAt
<1> QED
  BY <1>1, <1>2, <1>4

\* A handle that is not at the step and the files it knows.
LEMMA HandleWaits ==
    ASSUME HTypeOK, history \in Seq(Write), history' = history, NothingLost, OldStaysOld,
           NothingNew(linked), NEW h \in Handles, Waits(h),
           FoundOK(h), ScanFor(h), ViewFor(h)
    PROVE  FoundOK(h)' /\ ScanFor(h)' /\ ViewFor(h)'
<1>1. FoundOK(h)'
  BY FoundStays DEF Waits
<1>2. ScanFor(h)'
  BY NothingNewScan
<1>3. ViewFor(h)'
  <2>1. HistoryGrows /\ Len(history') \in Nat
    BY DEF HistoryGrows
  <2> QED
    BY <2>1, ViewStays
<1> QED
  BY <1>1, <1>2, <1>3

-----------------------------------------------------------------------------
(* What a session leaves in buffers and short of the medium.                 *)

\* A merge has copies of file g in its buffer.
Copying(g) == \E t \in Threads : pc[t] \in CopyingPCs /\ g = merging[t].out

\* A file is as it was, or flushed and synced, or flushed and active, or still copied into.
WrittenFile(g) ==
    \/ /\ g \in linked /\ files'[g] = files[g]
       /\ g = active_id => active_id' = g
       /\ Copying(g) => Copying(g)'
    \/ FlushedIn(files', g) /\ (SyncedIn(files', g) \/ g = active_id')
    \/ Copying(g)'

\* WrittenInv follows file by file.
LEMMA WrittenStays ==
    ASSUME WrittenInv, UNCHANGED handleVars, InSession, \A g \in linked' : WrittenFile(g)
    PROVE  WrittenInv'
<1>1. lock' = lock /\ step' = step /\ clean' = clean
  BY DEF handleVars
<1>2. InSession'
  BY <1>1 DEF InSession
<1> SUFFICES ASSUME NEW g \in linked', ~Copying(g)'
             PROVE  /\ FlushedIn(files', g)
                    /\ clean => SyncedIn(files', g) \/ g = active_id'
  BY <1>1, <1>2 DEF WrittenInv, Copying
<1>3. CASE FlushedIn(files', g) /\ (SyncedIn(files', g) \/ g = active_id')
  BY <1>3
<1>4. CASE /\ g \in linked /\ files'[g] = files[g]
           /\ g = active_id => active_id' = g
           /\ Copying(g) => Copying(g)'
  <2>1. FlushedIn(files, g) /\ (clean => SyncedIn(files, g) \/ g = active_id)
    BY <1>4 DEF WrittenInv, Copying
  <2> QED
    BY <1>4, <2>1 DEF FlushedIn, SyncedIn
<1> QED
  BY <1>3, <1>4 DEF WrittenFile

\* A file that just appeared is empty.
LEMMA WrittenNew ==
    ASSUME DiskInv, NEW fs, DOMAIN fs = DOMAIN files, NEW gs, gs = WithFile(fs, next_file_id)
    PROVE  /\ FlushedIn(gs, next_file_id) /\ SyncedIn(gs, next_file_id)
           /\ next_file_id \notin linked
           /\ \A g \in linked : gs[g] = fs[g]
<1>1. next_file_id \notin DOMAIN files /\ linked \subseteq DOMAIN files
  BY DEF DiskInv
<1>2. gs[next_file_id] = EmptyFile /\ \A g \in linked : gs[g] = fs[g]
  BY <1>1 DEF WithFile
<1> QED
  BY <1>1, <1>2 DEF FlushedIn, SyncedIn, EmptyFile

\* A call that is not a merge's, and leaves the files alone.
LEMMA WrittenCall ==
    ASSUME IInv, WrittenInv, UNCHANGED handleVars, InSession,
           UNCHANGED <<files, linked, active_id, merging>>,
           NEW t \in Threads, pc[t] \notin MergePCs, NEW l, pc' = [pc EXCEPT ![t] = l]
    PROVE  WrittenInv'
<1>1. CopyingPCs \subseteq MergePCs
  BY DEF CopyingPCs, MergePCs
<1>2. \A g : Copying(g) => Copying(g)'
  BY <1>1 DEF Copying, IInv, ArgInv
<1> QED
  BY <1>2, WrittenStays DEF WrittenFile

\* A put or a delete flushes its entry, and a rotation syncs the file it leaves.
LEMMA WrittenAppend ==
    ASSUME SerialUse, StoreAssumption, IInv, BusyInv', WrittenInv,
           UNCHANGED handleVars, InSession, NEW t \in Threads, NEW k \in Keys,
           NEW tomb \in BOOLEAN, AppendEntry(t, k, tomb), pc[t] \notin WritePCs \cup MergePCs,
           UNCHANGED mergeVars
    PROVE  WrittenInv'
<1> DEFINE a == active_id
           n == NewWrite
           fs == WithEntry(files, a, n)
           gs == WithSync(fs, a)
<1>1. DiskInv /\ n \in Nat /\ FilesOK(files, n) /\ a \in linked /\ a \in DOMAIN files /\ n \in 1..n
  <2>1. DiskInv /\ Len(history) \in Nat /\ n = Len(history) + 1
    BY DEF IInv, DiskInv, NewWrite
  <2>2. FilesOK(files, n)
    BY <2>1, FilesOKUpTo DEF DiskInv
  <2> QED
    BY <2>1, <2>2 DEF DiskInv
<1>2. pc' = [pc EXCEPT ![t] = IF SyncOnPut THEN "sync" ELSE "update"]
  BY AppendAddsOne
<1>3. \A g : ~Copying(g)
  <2> SUFFICES ASSUME NEW u \in Threads, pc[u] \in CopyingPCs PROVE FALSE
    BY DEF Copying
  <2>1. u # t
    BY DEF CopyingPCs, MergePCs
  <2>2. pc'[u] = pc[u] /\ pc'[t] \in WritePCs
    BY <1>2, <2>1 DEF IInv, ArgInv, WritePCs
  <2> QED
    BY <2>1, <2>2 DEF BusyInv, CopyingPCs, WritePCs
<1>4. ~Fault("write")
  BY DEF SerialUse, Fault
<1>5. \/ files' = fs /\ linked' = linked /\ active_id' = a
      \/ /\ files' = WithFile(gs, next_file_id) /\ linked' = linked \cup {next_file_id}
         /\ active_id' = next_file_id
  BY <1>4 DEF AppendEntry, RotationFails, RotateActive, NewWrite
<1>6. /\ FilesOK(fs, n) /\ DOMAIN fs = DOMAIN files /\ FlushedIn(fs, a)
      /\ \A g \in DOMAIN files \ {a} : fs[g] = files[g]
  BY <1>1, WithEntryOK DEF FlushedIn
<1>7. /\ DOMAIN gs = DOMAIN files /\ FlushedIn(gs, a) /\ SyncedIn(gs, a)
      /\ \A g \in DOMAIN files \ {a} : gs[g] = fs[g]
  <2> HIDE DEF fs
  <2> QED
    BY <1>1, <1>6, WithSyncOK DEF FlushedIn, SyncedIn
<1> HIDE DEF fs, gs
<1>8. linked \subseteq DOMAIN files
  BY <1>1 DEF DiskInv
<1>9. CASE files' = fs /\ linked' = linked /\ active_id' = a
  BY <1>3, <1>6, <1>8, <1>9, WrittenStays DEF WrittenFile
<1>10. CASE /\ files' = WithFile(gs, next_file_id) /\ linked' = linked \cup {next_file_id}
            /\ active_id' = next_file_id
  <2>1. /\ FlushedIn(files', next_file_id) /\ SyncedIn(files', next_file_id)
        /\ \A g \in linked : files'[g] = gs[g]
    BY <1>1, <1>7, <1>10, WrittenNew
  <2>2. FlushedIn(files', a) /\ SyncedIn(files', a)
    BY <1>1, <1>7, <2>1 DEF FlushedIn, SyncedIn
  <2>3. \A g \in linked \ {a} : files'[g] = files[g]
    BY <1>6, <1>7, <1>8, <2>1
  <2> QED
    BY <1>3, <1>10, <2>1, <2>2, <2>3, WrittenStays DEF WrittenFile
<1> QED
  BY <1>5, <1>9, <1>10

\* The other threads' merges stay where they are.
LEMMA OthersCopy ==
    ASSUME IInv, NEW t \in Threads, MergeStep(t), NEW g, Copying(g)
    PROVE  Copying(g)' \/ (pc[t] \in CopyingPCs /\ g = merging[t].out)
<1>1. PICK u \in Threads : pc[u] \in CopyingPCs /\ g = merging[u].out
  BY DEF Copying
<1>2. u # t => pc'[u] = pc[u] /\ merging'[u] = merging[u]
  BY OneMoves
<1> QED
  BY <1>1, <1>2 DEF Copying

\* A step of a merge that writes to no file.
LEMMA WrittenIdle ==
    ASSUME IInv, WrittenInv, UNCHANGED handleVars, InSession, NEW t \in Threads, MergeStep(t),
           UNCHANGED <<files, active_id>>, linked' \subseteq linked,
           pc[t] \in CopyingPCs => pc'[t] \in CopyingPCs /\ merging'[t].out = merging[t].out
    PROVE  WrittenInv'
<1>1. \A g : Copying(g) => Copying(g)'
  BY OthersCopy DEF Copying
<1> QED
  BY <1>1, WrittenStays DEF WrittenFile

\* The steps of a merge that write nothing: it starts, reads, repoints, removes, forgets.
LEMMA WrittenQuiet ==
    ASSUME IInv, PlacesInv, WrittenInv, UNCHANGED handleVars, InSession, NEW t \in Threads,
           \/ MergeStart(t) \/ MergeRead(t) \/ (MergeEntry(t) /\ ~IsLive(merging[t]))
           \/ MergeRepoint(t) \/ MergeRemove(t) \/ MergeForget(t)
    PROVE  WrittenInv'
<1>1. MergeStep(t)
  BY DEF MergeStep
<1>2. CASE MergeStart(t)
  <2>1. pc[t] = "idle" /\ linked' = linked /\ UNCHANGED <<files, active_id>>
    BY <1>2 DEF MergeStart, diskVars, MayStart
  <2> QED
    BY <1>1, <2>1, WrittenIdle DEF CopyingPCs
<1>3. CASE MergeRead(t)
  <2>1. /\ pc[t] = "copy" /\ pc'[t] = "copy" /\ merging'[t].out = merging[t].out
        /\ UNCHANGED <<files, linked, active_id>>
    BY <1>3, AloneReads
  <2> QED
    BY <1>1, <2>1, WrittenIdle DEF CopyingPCs
<1>4. CASE MergeEntry(t) /\ ~IsLive(merging[t])
  <2>1. /\ pc[t] = "copy" /\ UNCHANGED <<files, active_id, linked, next_file_id, pc>>
        /\ merging' = [merging EXCEPT ![t] = [merging[t] EXCEPT !.at = @ + 1]]
    BY <1>4 DEF MergeEntry, SetMerge
  <2>2. merging \in [Threads -> MergeRec]
    BY DEF IInv, MergesInv
  <2>3. merging'[t].out = merging[t].out
    BY <2>1, <2>2 DEF MergeRec
  <2> QED
    BY <1>1, <2>1, <2>3, WrittenIdle
<1>5. CASE MergeRepoint(t)
  <2>1. UNCHANGED <<files, active_id>>
    BY <1>5 DEF MergeRepoint, diskVars
  <2>2. /\ pc[t] \in RepointPCs /\ linked' = linked /\ merging'[t].out = merging[t].out
        /\ pc'[t] = pc[t] \/ pc'[t] = IF pc[t] = "repoint" THEN "copy" ELSE "remove"
    BY <1>5, RepointMoves
  <2> QED
    BY <1>1, <2>1, <2>2, WrittenIdle DEF RepointPCs, CopyingPCs
<1>6. CASE MergeRemove(t)
  <2>1. UNCHANGED <<files, active_id>>
    BY <1>6 DEF MergeRemove
  <2>2. pc[t] = "remove" /\ linked' \subseteq linked
    BY <1>6, RemoveMoves
  <2> QED
    BY <1>1, <2>1, <2>2, WrittenIdle DEF CopyingPCs
<1>7. CASE MergeForget(t)
  <2>1. UNCHANGED <<files, active_id>>
    BY <1>7 DEF MergeForget, diskVars
  <2>2. pc[t] = "forget" /\ linked' = linked
    BY <1>7, ForgetMoves
  <2> QED
    BY <1>1, <2>1, <2>2, WrittenIdle DEF CopyingPCs
<1> QED
  BY <1>2, <1>3, <1>4, <1>5, <1>6, <1>7

\* The output of a merge is an empty file,
LEMMA WrittenOpen ==
    ASSUME IInv, WrittenInv, UNCHANGED handleVars, InSession, NEW t \in Threads, MergeOpen(t)
    PROVE  WrittenInv'
<1>1. /\ pc[t] = "open" /\ linked' = linked \cup {next_file_id} /\ MergeStep(t) /\ DiskInv
      /\ files' = WithFile(files, next_file_id) /\ active_id' = active_id
  BY OpenMoves DEF MergeStep, MergeOpen, IInv
<1>2. /\ FlushedIn(files', next_file_id) /\ SyncedIn(files', next_file_id)
      /\ \A g \in linked : files'[g] = files[g]
  BY <1>1, WrittenNew
<1>3. \A g : Copying(g) => Copying(g)'
  BY <1>1, OthersCopy DEF CopyingPCs
<1> QED
  BY <1>1, <1>2, <1>3, WrittenStays DEF WrittenFile

\* holds copies in its buffer,
LEMMA WrittenEntry ==
    ASSUME IInv, WrittenInv, UNCHANGED handleVars, InSession,
           NEW t \in Threads, MergeEntry(t), IsLive(merging[t])
    PROVE  WrittenInv'
<1> PICK out : out = merging[t].out
  OBVIOUS
<1> DEFINE x == next_file_id
           fs == WithBuffered(files, out, EntryAt(merging[t]))
           ss == WithSync(fs, out)
           N == Len(history)
<1>1. /\ pc[t] = "copy" /\ merging[t].at <= merging[t].upto /\ active_id' = active_id
      /\ \/ files' = WithFile(ss, x) /\ linked' = linked \cup {x}
         \/ files' \in {fs, FlushOutput(fs, out)} /\ linked' = linked
  BY DEF MergeEntry, RotateOutput
<1>2. pc[t] \in MergePCs /\ pc[t] \in CopyPCs /\ MergeStep(t)
  BY <1>1 DEF MergePCs, MergeStep, CopyPCs
<1>3. /\ pc'[t] \in CopyingPCs
      /\ \/ merging'[t].out = out /\ linked' = linked
         \/ merging'[t].out = x /\ linked' = linked \cup {x}
  BY EntryMoves DEF CopyingPCs
<1>4. \A g : g = merging'[t].out => Copying(g)'
  BY <1>3 DEF Copying
<1>5. /\ linked \subseteq DOMAIN files /\ x \notin DOMAIN files
      /\ DiskInv /\ FilesOK(files, N) /\ N \in Nat
  BY DEF IInv, DiskInv
<1>6. out \in DOMAIN files /\ EntryAt(merging[t]) \in 1..N
  BY <1>1, <1>2, EntryAtOK, MergeKnown DEF OutputOK
<1>7. FilesOK(fs, N) /\ DOMAIN fs = DOMAIN files /\ \A g \in linked \ {out} : fs[g] = files[g]
  BY <1>5, <1>6, WithBufferedOK
<1> HIDE DEF fs
<1>8. /\ FlushedIn(ss, out) /\ SyncedIn(ss, out) /\ DOMAIN ss = DOMAIN files
      /\ \A g \in linked \ {out} : ss[g] = files[g] /\ FlushOutput(fs, out)[g] = files[g]
  <2>1. SyncedIn(ss, out) /\ FlushedIn(ss, out)
    BY <1>5, <1>6, <1>7, WithSyncOK DEF FlushedIn, SyncedIn
  <2>2. DOMAIN ss = DOMAIN files /\ \A g \in linked \ {out} : ss[g] = fs[g]
    BY <1>5, <1>6, <1>7, WithSyncOK
  <2>3. \A g \in linked \ {out} : FlushOutput(fs, out)[g] = fs[g]
    BY <1>5, <1>6, <1>7, FlushOutputOK
  <2> HIDE DEF ss
  <2> QED
    BY <1>7, <2>1, <2>2, <2>3
<1> HIDE DEF ss
<1>9. ASSUME NEW g, g # out, Copying(g) PROVE Copying(g)'
  BY <1>2, <1>9, OthersCopy
<1>10. CASE files' = WithFile(ss, x) /\ linked' = linked \cup {x}
  <2>1. /\ FlushedIn(files', x) /\ SyncedIn(files', x) /\ \A g \in linked : files'[g] = ss[g]
    BY <1>5, <1>8, <1>10, WrittenNew
  <2>2. out \in linked => FlushedIn(files', out) /\ SyncedIn(files', out)
    BY <1>8, <2>1 DEF FlushedIn, SyncedIn
  <2>3. \A g \in linked \ {out} : files'[g] = files[g]
    BY <1>8, <2>1
  <2> QED
    BY <1>1, <1>9, <1>10, <2>1, <2>2, <2>3, WrittenStays DEF WrittenFile
<1>11. CASE files' \in {fs, FlushOutput(fs, out)} /\ linked' = linked
  <2>1. \A g \in linked \ {out} : files'[g] = files[g]
    BY <1>7, <1>8, <1>11
  <2>2. Copying(out)'
    BY <1>3, <1>4, <1>5, <1>11
  <2> QED
    BY <1>1, <1>9, <1>11, <2>1, <2>2, WrittenStays DEF WrittenFile
<1> QED
  BY <1>1, <1>10, <1>11

\* and is synced at the end;
LEMMA WrittenFinish ==
    ASSUME IInv, WrittenInv, UNCHANGED handleVars, InSession, NEW t \in Threads, MergeFinish(t)
    PROVE  WrittenInv'
<1> PICK out : out = merging[t].out
  OBVIOUS
<1> DEFINE N == Len(history)
<1>1. /\ pc[t] = "copy" /\ linked' = linked /\ MergeStep(t)
      /\ files' = WithSync(files, out) /\ active_id' = active_id
  BY FinishMoves DEF MergeFinish, MergeStep
<1>2. pc[t] \in MergePCs /\ pc[t] \in CopyPCs
  BY <1>1 DEF MergePCs, CopyPCs
<1>3. linked \subseteq DOMAIN files /\ FilesOK(files, N) /\ N \in Nat /\ out \in DOMAIN files
  BY <1>2, MergeKnown DEF IInv, DiskInv, OutputOK
<1>4. \A g : g # out /\ Copying(g) => Copying(g)'
  BY <1>1, OthersCopy
<1>5. /\ FlushedIn(files', out) /\ SyncedIn(files', out)
      /\ \A g \in DOMAIN files \ {out} : files'[g] = files[g]
  BY <1>1, <1>3, WithSyncOK DEF FlushedIn, SyncedIn
<1> QED
  BY <1>1, <1>3, <1>4, <1>5, WrittenStays DEF WrittenFile

\* the active file that comes after it finds its predecessor synced.
LEMMA WrittenRestore ==
    ASSUME IInv, WrittenInv, UNCHANGED handleVars, InSession, NEW t \in Threads, MergeRestore(t)
    PROVE  WrittenInv'
<1> DEFINE a == active_id
           ss == WithSync(files, a)
<1>1. pc[t] = "restore" /\ MergeStep(t) /\ DiskInv /\ Len(history) \in Nat /\ a \in DOMAIN files
      /\ linked \subseteq DOMAIN files /\ FilesOK(files, Len(history))
  BY DEF MergeRestore, MergeStep, IInv, DiskInv
<1>2. \A g : Copying(g) => Copying(g)'
  BY <1>1, OthersCopy DEF CopyingPCs
<1>3. CASE UNCHANGED <<files, linked, active_id>>
  BY <1>2, <1>3, WrittenStays DEF WrittenFile
<1>4. CASE RotateActive(files)
  <2>1. /\ files' = WithFile(ss, next_file_id) /\ linked' = linked \cup {next_file_id}
        /\ active_id' = next_file_id
    BY <1>4 DEF RotateActive
  <2>2. /\ DOMAIN ss = DOMAIN files /\ FlushedIn(ss, a) /\ SyncedIn(ss, a)
        /\ \A g \in DOMAIN files \ {a} : ss[g] = files[g]
    BY <1>1, WithSyncOK DEF FlushedIn, SyncedIn
  <2> HIDE DEF ss
  <2>3. /\ FlushedIn(files', next_file_id) /\ SyncedIn(files', next_file_id)
        /\ \A g \in linked : files'[g] = ss[g]
    BY <1>1, <2>1, <2>2, WrittenNew
  <2>4. a \in linked => FlushedIn(files', a) /\ SyncedIn(files', a)
    BY <2>2, <2>3 DEF FlushedIn, SyncedIn
  <2>5. \A g \in linked \ {a} : files'[g] = files[g]
    BY <1>1, <2>2, <2>3
  <2> QED
    BY <1>2, <2>1, <2>3, <2>4, <2>5, WrittenStays DEF WrittenFile
<1> QED
  BY <1>3, <1>4 DEF MergeRestore

\* WrittenInv survives every call.
LEMMA WrittenStep ==
    ASSUME SerialUse, StoreAssumption, IInv, PlacesInv, BusyInv', WrittenInv, SessionStep
    PROVE  WrittenInv'
<1>1. InSession /\ UNCHANGED handleVars
  BY DEF SessionStep
<1>2. ASSUME NEW t \in Threads, NEW k \in Keys, NEW tomb \in BOOLEAN, AppendEntry(t, k, tomb),
             pc[t] \in {"idle", "delete"}, UNCHANGED mergeVars
      PROVE  WrittenInv'
  BY <1>1, <1>2, WrittenAppend DEF WritePCs, MergePCs
<1>3. ASSUME NEW t \in Threads, NEW k \in Keys, Put(t, k), UNCHANGED mergeVars
      PROVE  WrittenInv'
  BY <1>2, <1>3 DEF Put, MayStart
<1>4. ASSUME NEW t \in Threads, NEW k \in Keys, DeleteCheck(t, k), UNCHANGED mergeVars
      PROVE  WrittenInv'
  <2>1. /\ pc[t] = "idle" /\ pc' = [pc EXCEPT ![t] = "delete"]
        /\ UNCHANGED <<files, linked, active_id, merging>>
    BY <1>4 DEF DeleteCheck, MayStart, diskVars, mergeVars
  <2> QED
    BY <1>1, <2>1, WrittenCall DEF MergePCs
<1>5. ASSUME NEW t \in Threads, DeleteAppend(t), UNCHANGED mergeVars
      PROVE  WrittenInv'
  BY <1>2, <1>5 DEF DeleteAppend, IInv, ArgInv
<1>6. ASSUME NEW t \in Threads, UpdateKeydir(t), UNCHANGED mergeVars
      PROVE  WrittenInv'
  <2>1. /\ pc[t] = "update" /\ pc' = [pc EXCEPT ![t] = "idle"]
        /\ UNCHANGED <<files, linked, active_id, merging>>
    BY <1>6 DEF UpdateKeydir, Return, diskVars, mergeVars
  <2> QED
    BY <1>1, <2>1, WrittenCall DEF MergePCs
<1>7. ASSUME NEW t \in Threads, MergeStep(t) PROVE WrittenInv'
  <2>1. ~MergeFails(t)
    BY DEF MergeFails, Fault, SerialUse
  <2>2. CASE MergeOpen(t)
    BY <1>1, <2>2, WrittenOpen
  <2>3. CASE MergeEntry(t) /\ IsLive(merging[t])
    BY <1>1, <2>3, WrittenEntry
  <2>4. CASE MergeFinish(t)
    BY <1>1, <2>4, WrittenFinish
  <2>5. CASE MergeRestore(t)
    BY <1>1, <2>5, WrittenRestore
  <2> QED
    BY <1>1, <1>7, <2>1, <2>2, <2>3, <2>4, <2>5, WrittenQuiet DEF MergeStep
<1> QED
  BY <1>3, <1>4, <1>5, <1>6, <1>7 DEF SessionStep

-----------------------------------------------------------------------------
(* What the directory shows to the next recovery.                            *)

\* In a session the directory shows the last write of every key, the one in flight included.
LEMMA SessionSays ==
    ASSUME SessionInv
    PROVE  DiskSays
<1>1. IInv /\ RiskInv /\ BusyInv /\ NewestInv /\ LastInv
  BY DEF SessionInv, OneWriteInv, SerialInv, OrderedInv
<1> SUFFICES ASSUME NEW k \in Keys
             PROVE  \E loc \in Location \cup {None} :
                       /\ Held(k, loc) /\ Shows(files, linked, history, k, loc)
                       /\ VersionAt(loc) = LastOf(k, Len(history))
  BY DEF DiskSays
<1>2. \E loc : Says(k, loc)
  BY DEF Says
<1>3. PICK loc : Says(k, loc)
  BY <1>2
<1>4. Held(k, loc)
  BY <1>1, <1>3, SaysHeld
<1>5. loc \in Location \cup {None}
  BY <1>4 DEF Held, OnOS, InFile
<1> QED
  BY <1>1, <1>3, <1>4, <1>5 DEF NewestInv, LastInv

\* A step that writes no entry leaves what the directory shows.
LEMMA CalmSays ==
    ASSUME DiskInv, Calm, history' = history, DiskSays
    PROVE  DiskSays'
<1> SUFFICES ASSUME NEW k \in Keys
             PROVE  \E loc \in Location \cup {None} :
                       /\ Held(k, loc)' /\ Shows(files', linked', history', k, loc)
                       /\ VersionAt(loc)' = LastOf(k, Len(history))'
  BY DEF DiskSays
<1>1. PICK loc \in Location \cup {None} :
         /\ Held(k, loc) /\ Shows(files, linked, history, k, loc)
         /\ VersionAt(loc) = LastOf(k, Len(history))
  BY DEF DiskSays
<1>2. Advances /\ NoNewEntries /\ NothingLost /\ linked \subseteq linked'
  BY AdvancesLosesNothing DEF Calm, NoNewEntries
<1>3. loc = None \/ InFile(files, loc)
  BY <1>1 DEF Held, OnOS
<1>4. Shows(files', linked', history', k, loc)
  BY <1>1, <1>2, <1>3, NoNewPlaces, ShowsStays
<1>5. Held(k, loc)'
  BY <1>1, <1>2 DEF Held, NothingLost
<1>6. VersionAt(loc)' = VersionAt(loc)
  BY <1>1, <1>2, VersionStays DEF Held
<1>7. LastOf(k, Len(history))' = LastOf(k, Len(history))
  BY DEF LastOf
<1> QED
  BY <1>1, <1>4, <1>5, <1>6, <1>7

\* Neither does a kill.
LEMMA CutSays ==
    ASSUME DiskInv, NEW n, CutDown(n), \A f \in linked : files[f].flushed <= n[f], DiskSays
    PROVE  DiskSays'
<1> SUFFICES ASSUME NEW k \in Keys
             PROVE  \E loc \in Location \cup {None} :
                       /\ Held(k, loc)' /\ Shows(files', linked', history', k, loc)
                       /\ VersionAt(loc)' = LastOf(k, Len(history))'
  BY DEF DiskSays
<1>1. PICK old \in Location \cup {None} :
         /\ Held(k, old) /\ Shows(files, linked, history, k, old)
         /\ VersionAt(old) = LastOf(k, Len(history))
  BY DEF DiskSays
<1>2. IsCut(n) /\ history' = history
  BY DEF CutDown
<1>3. RecoveredVersion(n, k) = VersionAt(old)
  BY <1>1, <1>2, RecoversWhatItShows
<1>4. PICK loc : loc = Recover(Disk(n))[k]
  OBVIOUS
<1>5. Shows(files', linked', history', k, loc)
  BY <1>4, CutShows
<1>6. \/ loc = None
      \/ /\ loc \in Location /\ InCut(n, k, loc) /\ ~history[EntryIn(files, loc)].tomb
  BY <1>2, <1>4, RecoveryTakesTop DEF IsTop
<1>7. loc # None =>
         /\ IsPlace(files', linked', history', k, loc) /\ OnOS(files', loc)
         /\ EntryIn(files', loc) = EntryIn(files, loc)
  BY <1>6, PlacesLeft
<1>8. loc # None => history[EntryIn(files, loc)] = [key |-> k, tomb |-> FALSE]
  <2> SUFFICES ASSUME loc # None PROVE history[EntryIn(files, loc)] = [key |-> k, tomb |-> FALSE]
    OBVIOUS
  <2>1. InFile(files, loc) /\ history[EntryIn(files, loc)].key = k
    BY <1>6 DEF InCut, IsPlace
  <2>2. Len(history) \in Nat /\ FilesOK(files, Len(history)) /\ history \in Seq(Write)
    BY DEF DiskInv
  <2>3. EntryIn(files, loc) \in 1..Len(history)
    BY <2>1, <2>2, PlaceHolds
  <2>4. history[EntryIn(files, loc)] \in Write
    BY <2>2, <2>3
  <2> QED
    BY <1>6, <2>1, <2>4 DEF Write
<1>9. Held(k, loc)'
  BY <1>2, <1>7, <1>8 DEF Held, IsPlace
<1>10. VersionAt(loc)' = VersionAt(loc)
  BY <1>7 DEF VersionAt, EntryIn
<1>11. VersionAt(loc) = RecoveredVersion(n, k)
  BY <1>4 DEF RecoveredVersion
<1>12. LastOf(k, Len(history))' = LastOf(k, Len(history))
  BY <1>2 DEF LastOf
<1> QED
  BY <1>1, <1>3, <1>5, <1>6, <1>9, <1>10, <1>11, <1>12

\* A kill cuts every file back to some length, and the OS keeps what it has.
KilledFiles(n) ==
    files' = [f \in DOMAIN files |->
                 IF f \notin linked THEN files[f]
                 ELSE [entries |-> SubSeq(files[f].entries, 1, n[f]),
                       flushed |-> n[f], synced |-> files[f].synced]]

\* What a kill leaves is a cut that loses nothing the OS has.
LEMMA KillCuts ==
    ASSUME DiskInv, NEW n \in KeptAfter("kill"), KilledFiles(n),
           UNCHANGED <<history, linked, active_id, next_file_id>>
    PROVE  /\ CutDown(n) /\ \A f \in linked : files[f].flushed <= n[f]
           /\ DiskInv' /\ DOMAIN files' = DOMAIN files
           /\ NothingLost /\ NothingNew(linked)
           /\ \A f \in linked : FlushedIn(files', f)
<1> DEFINE N == Len(history)
<1>1. /\ IsCut(n)
      /\ \A f \in linked : files[f].synced <= n[f] /\ files[f].flushed <= n[f]
  BY KeptIsCut DEF CrashKinds
<1>2. /\ linked \subseteq DOMAIN files /\ DOMAIN files' = DOMAIN files
      /\ \A f \in DOMAIN files \ linked : files'[f] = files[f]
      /\ \A f \in linked : files'[f] = [entries |-> SubSeq(files[f].entries, 1, n[f]),
                                        flushed |-> n[f], synced |-> files[f].synced]
  BY DEF DiskInv, KilledFiles
<1>12. ASSUME NEW f \in linked
       PROVE  /\ files'[f].entries = SubSeq(files[f].entries, 1, n[f])
              /\ files'[f].flushed = n[f] /\ files'[f].synced = files[f].synced
  <2> DEFINE e == SubSeq(files[f].entries, 1, n[f])
  <2>1. files'[f] = [entries |-> e, flushed |-> n[f], synced |-> files[f].synced]
    BY <1>2
  <2> HIDE DEF e
  <2>2. files'[f].entries = e /\ files'[f].flushed = n[f] /\ files'[f].synced = files[f].synced
    BY <2>1
  <2> QED
    BY <2>2 DEF e
<1>3. CutDown(n)
  BY <1>1, <1>2, <1>12 DEF CutDown
<1>4. ASSUME NEW f \in linked
      PROVE  /\ files'[f].entries \in Seq(1..N) /\ Len(files'[f].entries) = n[f]
             /\ n[f] \in Nat /\ n[f] <= Len(files[f].entries)
             /\ \A i \in 1..n[f] : files'[f].entries[i] = files[f].entries[i]
  <2>1. files[f].entries \in Seq(1..N) /\ n[f] \in Nat /\ n[f] <= Len(files[f].entries)
    BY <1>1, <1>2 DEF DiskInv, FilesOK, FileOf, IsCut
  <2>2. files'[f].entries = SubSeq(files[f].entries, 1, n[f])
    BY <1>12
  <2>3. \A S : \A s \in Seq(S) : \A c \in Nat : c <= Len(s) =>
           /\ SubSeq(s, 1, c) \in Seq(S) /\ Len(SubSeq(s, 1, c)) = c
           /\ \A i \in 1..c : SubSeq(s, 1, c)[i] = s[i]
    BY Prefix
  <2> QED
    BY <2>1, <2>2, <2>3
<1>5. FilesOK(files', N)
  <2>1. ASSUME NEW f \in DOMAIN files
        PROVE  /\ files'[f] \in FileOf(N)
               /\ files'[f].synced <= files'[f].flushed
               /\ files'[f].flushed <= Len(files'[f].entries)
    <3>1. CASE f \in linked
      <4>1. PICK e : e = files'[f].entries
        OBVIOUS
      <4>2. /\ files'[f] = [entries |-> e, flushed |-> n[f], synced |-> files[f].synced]
            /\ e \in Seq(1..N) /\ n[f] \in Nat /\ Len(e) = n[f]
        BY <1>2, <1>4, <1>12, <3>1, <4>1
      <4>3. files[f].synced \in Nat /\ files[f].synced <= n[f]
        BY <1>1, <3>1 DEF DiskInv, FilesOK, FileOf
      <4> QED
        BY <4>2, <4>3 DEF FileOf
    <3>2. CASE f \notin linked
      BY <1>2, <3>2 DEF DiskInv, FilesOK
    <3> QED
      BY <3>1, <3>2
  <2> QED
    BY <1>2, <2>1 DEF DiskInv, FilesOK
<1>6. DiskInv'
  BY <1>2, <1>5 DEF DiskInv
<1>7. \A f \in linked : FlushedIn(files', f)
  BY <1>4, <1>12 DEF FlushedIn
<1>8. ASSUME NEW p \in Location, OnOS(files, p)
      PROVE  OnOS(files', p) /\ EntryIn(files', p) = EntryIn(files, p)
  <2>1. CASE p.file_id \in linked
    <3> DEFINE f == p.file_id
               i == p.value_pos
    <3>1. /\ i \in Nat \ {0} /\ i <= files[f].flushed /\ files[f].flushed <= n[f]
          /\ files[f].flushed \in Nat /\ f \in DOMAIN files
      BY <1>1, <1>8, <2>1 DEF OnOS, InFile, Location, DiskInv, FilesOK, FileOf
    <3>2. n[f] \in Nat /\ Len(files'[f].entries) = n[f] /\ files'[f].flushed = n[f]
      BY <1>4, <1>12, <2>1
    <3>3. i \in 1..n[f]
      BY <3>1, <3>2
    <3>4. files'[f].entries[i] = files[f].entries[i]
      BY <1>4, <2>1, <3>3
    <3> QED
      BY <1>2, <3>1, <3>2, <3>3, <3>4 DEF OnOS, InFile, EntryIn
  <2>2. CASE p.file_id \notin linked
    BY <1>2, <1>8, <2>2 DEF OnOS, InFile, EntryIn
  <2> QED
    BY <2>1, <2>2
<1>9. NothingLost
  BY <1>8 DEF NothingLost
<1>10. ASSUME NEW p \in Location, p.file_id \in linked, InFile(files', p)
       PROVE  WasThere(p)
  <2> DEFINE f == p.file_id
             i == p.value_pos
  <2>1. i \in Nat \ {0} /\ i <= n[f] /\ n[f] \in Nat /\ n[f] <= Len(files[f].entries)
        /\ Len(files[f].entries) \in Nat /\ f \in DOMAIN files
    BY <1>2, <1>4, <1>10 DEF InFile, Location, DiskInv, FilesOK, FileOf
  <2>2. i \in 1..n[f] /\ i <= Len(files[f].entries)
    BY <2>1
  <2>3. files'[f].entries[i] = files[f].entries[i]
    BY <1>4, <1>10, <2>2
  <2> QED
    BY <2>1, <2>2, <2>3 DEF WasThere, InFile, EntryIn
<1>11. NothingNew(linked)
  BY <1>10 DEF NothingNew
<1> QED
  BY <1>1, <1>2, <1>3, <1>6, <1>7, <1>9, <1>11

-----------------------------------------------------------------------------
(* The order of `open`.                                                      *)

\* The place of a step in the order of `open`.
LEMMA ChosenPlace ==
    ASSUME NEW order, NEW j \in DOMAIN order,
           \A i \in DOMAIN order : order[i] = order[j] => i = j
    PROVE  (CHOOSE i \in DOMAIN order : order[i] = order[j]) = j
OBVIOUS

\* What comes after each step of `open`.
LEMMA NextStep ==
    /\ \A s \in Sessions : /\ StepAfter(s, "lock") = "discover"
                           /\ StepAfter(s, "discover") = "recover"
                           /\ StepAfter(s, "recover") = "create"
                           /\ StepAfter(s, "create") = "open"
    /\ \A v \in Viewers : /\ StepAfter(v, "discover") = "recover"
                          /\ StepAfter(v, "recover") = "open"
<1>1. ASSUME NEW s \in Sessions
      PROVE  /\ StepAfter(s, "lock") = "discover" /\ StepAfter(s, "discover") = "recover"
             /\ StepAfter(s, "recover") = "create" /\ StepAfter(s, "create") = "open"
  <2>1. PICK order : order = <<"lock", "discover", "recover", "create", "open">>
    OBVIOUS
  <2>2. OpenOrder(s) = order
    BY <2>1 DEF OpenOrder
  <2>3. /\ DOMAIN order = 1..5 /\ order[1] = "lock" /\ order[2] = "discover"
        /\ order[3] = "recover" /\ order[4] = "create" /\ order[5] = "open"
    BY <2>1
  <2>4. \A i, j \in DOMAIN order : order[i] = order[j] => i = j
    BY <2>3
  <2>5. \A j \in DOMAIN order : (CHOOSE i \in DOMAIN order : order[i] = order[j]) = j
    BY <2>4, ChosenPlace
  <2>6. /\ (CHOOSE i \in DOMAIN order : order[i] = "lock") = 1
        /\ (CHOOSE i \in DOMAIN order : order[i] = "discover") = 2
        /\ (CHOOSE i \in DOMAIN order : order[i] = "recover") = 3
        /\ (CHOOSE i \in DOMAIN order : order[i] = "create") = 4
    <3>1. 1 \in DOMAIN order /\ 2 \in DOMAIN order /\ 3 \in DOMAIN order /\ 4 \in DOMAIN order
      BY <2>3
    <3>2. /\ (CHOOSE i \in DOMAIN order : order[i] = order[1]) = 1
          /\ (CHOOSE i \in DOMAIN order : order[i] = order[2]) = 2
          /\ (CHOOSE i \in DOMAIN order : order[i] = order[3]) = 3
          /\ (CHOOSE i \in DOMAIN order : order[i] = order[4]) = 4
      BY <2>5, <3>1
    <3> QED
      BY <2>3, <3>2
  <2> QED
    BY <2>2, <2>3, <2>6 DEF StepAfter
<1>2. ASSUME NEW v \in Viewers
      PROVE  StepAfter(v, "discover") = "recover" /\ StepAfter(v, "recover") = "open"
  <2>1. PICK order : order = <<"discover", "recover", "open">>
    OBVIOUS
  <2>2. OpenOrder(v) = order
    BY <2>1, HandlesAssumption DEF OpenOrder
  <2>3. /\ DOMAIN order = 1..3 /\ order[1] = "discover" /\ order[2] = "recover"
        /\ order[3] = "open"
    BY <2>1
  <2>4. \A i, j \in DOMAIN order : order[i] = order[j] => i = j
    BY <2>3
  <2>5. \A j \in DOMAIN order : (CHOOSE i \in DOMAIN order : order[i] = order[j]) = j
    BY <2>4, ChosenPlace
  <2>6. /\ (CHOOSE i \in DOMAIN order : order[i] = "discover") = 1
        /\ (CHOOSE i \in DOMAIN order : order[i] = "recover") = 2
    <3>1. 1 \in DOMAIN order /\ 2 \in DOMAIN order
      BY <2>3
    <3>2. /\ (CHOOSE i \in DOMAIN order : order[i] = order[1]) = 1
          /\ (CHOOSE i \in DOMAIN order : order[i] = order[2]) = 2
      BY <2>5, <3>1
    <3> QED
      BY <2>3, <3>2
  <2> QED
    BY <2>2, <2>3, <2>6 DEF StepAfter
<1> QED
  BY <1>1, <1>2

-----------------------------------------------------------------------------
(* Steps that leave the store as it is.                                      *)

\* A step that leaves the store alone loses nothing and adds nothing,
LEMMA SameStoreKeeps ==
    ASSUME UNCHANGED allVars
    PROVE  /\ NothingLost /\ NothingNew(linked) /\ OldStaysOld /\ history' = history
<1>1. UNCHANGED <<history, files, linked, active_id, pc, merging>>
  BY DEF allVars, vars, diskVars, memVars, mergeVars
<1>2. NothingLost /\ NothingNew(linked)
  BY <1>1 DEF NothingLost, NothingNew, WasThere
<1>3. OldStaysOld
  BY <1>1 DEF OldStaysOld, CopiesInto
<1> QED
  BY <1>1, <1>2, <1>3

\* and the directory shows what it showed.
LEMMA SameDiskSays ==
    ASSUME UNCHANGED <<history, files, linked>>, DiskSays
    PROVE  DiskSays'
<1> SUFFICES ASSUME NEW k \in Keys
             PROVE  \E loc \in Location \cup {None} :
                       /\ Held(k, loc)' /\ Shows(files', linked', history', k, loc)
                       /\ VersionAt(loc)' = LastOf(k, Len(history))'
  BY DEF DiskSays
<1>1. PICK loc \in Location \cup {None} :
         /\ Held(k, loc) /\ Shows(files, linked, history, k, loc)
         /\ VersionAt(loc) = LastOf(k, Len(history))
  BY DEF DiskSays
<1>2. Held(k, loc)'
  BY <1>1 DEF Held
<1>3. Shows(files', linked', history', k, loc)
  BY <1>1
<1>4. VersionAt(loc)' = VersionAt(loc) /\ LastOf(k, Len(history))' = LastOf(k, Len(history))
  BY DEF VersionAt, LastOf
<1> QED
  BY <1>1, <1>2, <1>3, <1>4

\* The store at rest, but for the session that opens it.
AtRest == CallsRest /\ (DiskInv \/ Virgin) /\ DiskSays

\* The parts of the invariant under such a step.
LEMMA SameRest ==
    ASSUME UNCHANGED allVars, AtRest
    PROVE  AtRest'
<1>1. UNCHANGED <<history, files, linked, active_id, next_file_id, pc, arg, merging, at_risk, faults>>
  BY DEF allVars, vars, diskVars, memVars, mergeVars
<1>2. CallsRest'
  BY <1>1 DEF AtRest, CallsRest
<1>3. (DiskInv \/ Virgin)'
  BY <1>1 DEF AtRest, DiskInv, Virgin
<1>4. DiskSays'
  BY <1>1, SameDiskSays DEF AtRest
<1> QED
  BY <1>2, <1>3, <1>4 DEF AtRest

\* The order of the places,
LEMMA SameMono ==
    ASSUME UNCHANGED allVars, MonoInv
    PROVE  MonoInv'
BY DEF allVars, vars, diskVars, MonoInv

\* what is written out,
LEMMA SameWritten ==
    ASSUME UNCHANGED allVars, clean' = clean, InSession => InSession', WrittenInv
    PROVE  WrittenInv'
<1>1. UNCHANGED <<files, linked, active_id, pc, merging>>
  BY DEF allVars, vars, diskVars, memVars, mergeVars
<1> QED
  BY <1>1 DEF WrittenInv, FlushedIn, SyncedIn

\* and the session.
LEMMA SameSession ==
    ASSUME SerialUse, UNCHANGED allVars, crashes \in Nat, SessionInv, MonoInv
    PROVE  SessionInv'
BY QuietIsStep, SessionGoesOn

\* What holds of the history whatever is going on.
LEMMA HistoryKnown ==
    ASSUME HInv
    PROVE  history \in Seq(Write) /\ Len(history) \in Nat /\ (DiskInv \/ Virgin) /\ DiskSays
<1>1. (DiskInv \/ Virgin) /\ DiskSays
  <2>1. CASE InSession
    <3>1. SessionInv /\ DiskInv
      BY <2>1 DEF HInv, SessionInv, OneWriteInv, SerialInv, OrderedInv, IInv
    <3> QED
      BY <3>1, SessionSays
  <2>2. CASE ~InSession
    BY <2>2 DEF HInv, RestInv
  <2> QED
    BY <2>1, <2>2
<1>2. history \in Seq(Write)
  <2>1. <<>> \in Seq(Write)
    OBVIOUS
  <2>2. CASE DiskInv
    BY <2>2 DEF DiskInv
  <2>3. CASE Virgin
    BY <2>1, <2>3 DEF Virgin
  <2> QED
    BY <1>1, <2>2, <2>3
<1>3. Len(history) \in Nat
  BY <1>2
<1> QED
  BY <1>1, <1>2, <1>3

\* A step of `open` that leaves the store as it is: only its own handle moves.
LEMMA QuietKeeps ==
    ASSUME SerialUse, HInv, UNCHANGED allVars, clean' = clean, InSession' <=> InSession,
           HTypeOK', StepsOK', ~InSession => OpeningInv',
           NEW h, h \in Handles => FoundOK(h)' /\ ScanFor(h)' /\ ViewFor(h)',
           \A g \in Handles \ {h} : Waits(g)
    PROVE  HInv'
<1>1. NothingLost /\ NothingNew(linked) /\ OldStaysOld /\ history' = history
  BY SameStoreKeeps
<1>2. history \in Seq(Write) /\ HTypeOK /\ crashes \in Nat
  BY HistoryKnown DEF HInv, HTypeOK
<1>3. ASSUME NEW g \in Handles
      PROVE  FoundOK(g)' /\ ScanFor(g)' /\ ViewFor(g)'
  <2>1. CASE g # h
    <3>1. FoundOK(g) /\ ScanFor(g) /\ ViewFor(g)
      BY DEF HInv
    <3> QED
      BY <1>1, <1>2, <2>1, <3>1, HandleWaits
  <2> QED
    BY <2>1
<1>4. MonoInv' /\ WrittenInv'
  BY SameMono, SameWritten DEF HInv
<1>5. InSession' => SessionInv'
  BY <1>2, SameSession DEF HInv
<1>6. ~InSession' => RestInv'
  <2> SUFFICES ASSUME ~InSession PROVE RestInv'
    OBVIOUS
  <2>1. AtRest
    BY DEF HInv, RestInv, AtRest
  <2>2. AtRest'
    BY <2>1, SameRest
  <2> QED
    BY <2>2 DEF RestInv, AtRest
<1> QED
  BY <1>3, <1>4, <1>5, <1>6 DEF HInv

\* DirLock::acquire keeps the invariant.
LEMMA AcquireKeeps ==
    ASSUME SerialUse, HInv, NEW h \in Handles, AcquireLock(h)
    PROVE  HInv'
<1>1. HTypeOK /\ StepsOK /\ FoundOK(h)
  BY DEF HInv
<1>2. /\ UNCHANGED allVars /\ clean' = clean /\ files' = files /\ crashes' = crashes
      /\ UNCHANGED <<left, found, next_id, during>> /\ step[h] = "lock"
  BY DEF AcquireLock, allVars, vars, diskVars
<1>3. h \in Sessions /\ h \notin Viewers /\ lock # h
  BY <1>1, <1>2, HandlesAssumption DEF StepsOK, Handles, Opening
<1>4. StepAfter(h, step[h]) = "discover"
  BY <1>2, <1>3, NextStep
<1>5. \/ lock = None /\ lock' = h /\ step' = [step EXCEPT ![h] = "discover"]
      \/ lock # None /\ lock' = lock /\ step' = [step EXCEPT ![h] = "closed"]
  BY <1>4 DEF AcquireLock, Advance
<1>6. /\ step' \in [Handles -> HSteps] /\ step'[h] \in {"discover", "closed"}
      /\ \A g \in Handles \ {h} : step'[g] = step[g]
  BY <1>1, <1>5 DEF HTypeOK, HSteps, Opening
<1>7. HTypeOK'
  BY <1>1, <1>2, <1>3, <1>5, <1>6 DEF HTypeOK
<1>8. StepsOK'
  <2>1. \A s \in Sessions : step'[s] \in Opening \cup {"open"} <=> lock' = s
    <3> SUFFICES ASSUME NEW s \in Sessions
                 PROVE  step'[s] \in Opening \cup {"open"} <=> lock' = s
      OBVIOUS
    <3>1. s \in Handles /\ s # None /\ (step[s] \in Opening \cup {"open"} <=> lock = s)
      BY <1>1, HandlesAssumption DEF Handles, StepsOK
    <3>2. CASE s = h
      BY <1>1, <1>3, <1>5, <3>2 DEF HTypeOK, Opening
    <3>3. CASE s # h
      BY <1>5, <1>6, <3>1, <3>3
    <3> QED
      BY <3>2, <3>3
  <2>2. \A v \in Viewers : step'[v] \notin {"lock", "create"}
    BY <1>1, <1>3, <1>6 DEF StepsOK, Handles
  <2>3. \A g \in Handles : step'[g] = "create" => left'[g] = {}
    BY <1>1, <1>2, <1>6 DEF StepsOK
  <2>4. \A g \in Handles : step'[g] \in {"lock", "discover"} => found'[g] = EmptyKeydir
    BY <1>1, <1>2, <1>6 DEF StepsOK
  <2> QED
    BY <2>1, <2>2, <2>3, <2>4 DEF StepsOK
<1>9. InSession' <=> InSession
  <2>1. CASE lock = None
    BY <1>1, <1>5, <2>1, HandlesAssumption DEF InSession, HTypeOK
  <2>2. CASE lock # None
    BY <1>1, <1>3, <1>5, <1>6, <2>2 DEF InSession, HTypeOK, Handles
  <2> QED
    BY <2>1, <2>2
<1>10. ~InSession => OpeningInv'
  <2>1. ~InSession => OpeningInv
    BY DEF HInv, RestInv
  <2>2. linked' = linked
    BY <1>2 DEF allVars, vars, diskVars
  <2> QED
    BY <1>2, <1>6, <2>1, <2>2 DEF OpeningInv, Handles
<1>11. FoundOK(h)' /\ ScanFor(h)' /\ ViewFor(h)'
  <2>1. FoundOK(h)'
    BY <1>1, <1>2, SameStoreKeeps, FoundStays
  <2> QED
    BY <1>3, <1>6, <2>1 DEF ScanFor, ViewFor
<1>12. \A g \in Handles \ {h} : Waits(g)
  BY <1>2, <1>6 DEF Waits
<1> QED
  BY <1>2, <1>7, <1>8, <1>9, <1>10, <1>11, <1>12, QuietKeeps

\* What a read-only handle reads, and a step that does nothing.
LEMMA ViewKeeps ==
    ASSUME SerialUse, HInv, UNCHANGED <<allVars, lock, step, left, found, next_id, during, clean>>
    PROVE  HInv'
<1>1. HTypeOK /\ StepsOK /\ (~InSession => OpeningInv)
  BY DEF HInv, RestInv
<1>2. files' = files /\ linked' = linked /\ crashes' = crashes
  BY DEF allVars, vars, diskVars
<1>3. HTypeOK' /\ StepsOK' /\ (~InSession => OpeningInv') /\ (InSession' <=> InSession)
  BY <1>1, <1>2 DEF HTypeOK, StepsOK, OpeningInv, InSession
<1>4. \A g \in Handles : Waits(g)
  BY DEF Waits
<1>5. history \in Seq(Write) /\ NothingLost /\ NothingNew(linked) /\ OldStaysOld /\ history' = history
  BY HistoryKnown, SameStoreKeeps
<1>6. ASSUME NEW h \in Handles PROVE FoundOK(h)' /\ ScanFor(h)' /\ ViewFor(h)'
  <2>1. FoundOK(h) /\ ScanFor(h) /\ ViewFor(h)
    BY DEF HInv
  <2> QED
    BY <1>1, <1>4, <1>5, <2>1, HandleWaits
<1>7. PICK h : h = None
  OBVIOUS
<1>8. h \in Handles => FoundOK(h)' /\ ScanFor(h)' /\ ViewFor(h)'
  BY <1>6
<1> QED
  BY <1>3, <1>4, <1>8, QuietKeeps

\* A handle that begins to recover now will find the last write of every key.
LEMMA StartScan ==
    ASSUME DiskSays, NEW k \in Keys
    PROVE  ScansTo(linked, None, k, Len(history))
<1> DEFINE n == Len(history)
<1>1. PICK loc \in Location \cup {None} :
         /\ Held(k, loc) /\ Shows(files, linked, history, k, loc)
         /\ VersionAt(loc) = LastOf(k, n)
  BY DEF DiskSays
<1>2. CASE loc # None
  <2>1. /\ loc \in Location /\ OnOS(files, loc) /\ IsPlace(files, linked, history, k, loc)
        /\ ~history[EntryIn(files, loc)].tomb
    BY <1>1, <1>2 DEF Held, OnOS, IsPlace
  <2>2. EntryIn(files, loc) = LastOf(k, n)
    BY <1>1, <1>2 DEF VersionAt, EntryIn
  <2>3. Tells(k, n, loc) /\ Anchor(linked, k, n, loc)
    BY <2>1, <2>2 DEF Tells, Anchor
  <2>4. ASSUME NEW p \in Location, IsPlace(files, linked, history, k, p)
        PROVE  Tells(k, n, p) \/ UpTo(p, loc)
    <3>1. UpTo(loc, p) => EntryIn(files, p) = EntryIn(files, loc)
      BY <1>1, <1>2, <2>4 DEF Shows
    <3>2. UpTo(loc, p) => Tells(k, n, p)
      BY <2>3, <3>1 DEF Tells
    <3> QED
      BY <2>1, <3>2, UpToOrder
  <2> QED
    BY <2>1, <2>3, <2>4 DEF ScansTo
<1>3. CASE loc = None
  <2>1. LastOf(k, n) = 0 /\ VersionAt(None) = LastOf(k, n)
    BY <1>1, <1>3 DEF VersionAt
  <2>2. ASSUME NEW p \in Location, IsPlace(files, linked, history, k, p)
        PROVE  \E q \in Location : UpTo(p, q) /\ Anchor(linked, k, n, q)
    <3>1. PICK q \in Location : UpTo(p, q) /\ IsGrave(files, linked, history, k, q)
      BY <1>1, <1>3, <2>2 DEF Shows
    <3>2. Anchor(linked, k, n, q)
      BY <2>1, <3>1 DEF IsGrave, Anchor, Tells
    <3> QED
      BY <3>1, <3>2
  <2> QED
    BY <2>1, <2>2 DEF ScansTo
<1> QED
  BY <1>2, <1>3

\* A scan of the same files is the same scan.
LEMMA SameScan ==
    ASSUME UNCHANGED <<history, files>>, NEW L, NEW loc, NEW k, NEW n, ScansTo(L, loc, k, n)
    PROVE  ScansTo(L, loc, k, n)'
<1>1. LastOf(k, n)' = LastOf(k, n) /\ VersionAt(loc)' = VersionAt(loc)
  BY DEF LastOf, VersionAt
<1>2. \A p \in Location : Tells(k, n, p)' <=> Tells(k, n, p)
  BY <1>1 DEF Tells
<1>3. \A p \in Location : Anchor(L, k, n, p)' <=> Anchor(L, k, n, p)
  BY <1>2 DEF Anchor
<1> QED
  BY <1>1, <1>2, <1>3 DEF ScansTo

\* DataFileSet::discover keeps the invariant.
LEMMA DiscoverKeeps ==
    ASSUME SerialUse, HInv, NEW h \in Handles, Discover(h)
    PROVE  HInv'
<1>1. HTypeOK /\ StepsOK /\ FoundOK(h) /\ DiskSays /\ (DiskInv \/ Virgin) /\ Len(history) \in Nat
  BY HistoryKnown DEF HInv
<1>2. /\ UNCHANGED allVars /\ clean' = clean /\ UNCHANGED <<files, linked, history, active_id, crashes>>
      /\ UNCHANGED <<lock, found>> /\ step[h] = "discover"
      /\ left' = [left EXCEPT ![h] = linked]
      /\ next_id' = [next_id EXCEPT ![h] = IF linked = {} THEN 0 ELSE Max(linked) + 1]
      /\ during' = IF h \in Viewers THEN [during EXCEPT ![h].from = Len(history)] ELSE during
  BY DEF Discover, allVars, vars, diskVars
<1>3. StepAfter(h, step[h]) = "recover"
  BY <1>2, NextStep DEF Handles
<1>4. step' = [step EXCEPT ![h] = "recover"]
  BY <1>3 DEF Discover, Advance
<1>5. /\ step' \in [Handles -> HSteps] /\ step'[h] = "recover" /\ left'[h] = linked
      /\ \A g \in Handles \ {h} : step'[g] = step[g] /\ left'[g] = left[g] /\ next_id'[g] = next_id[g]
  BY <1>1, <1>2, <1>4 DEF HTypeOK, HSteps, Opening
<1>6. linked \subseteq DOMAIN files
  BY <1>1 DEF DiskInv, Virgin
<1>7. LET x == IF linked = {} THEN 0 ELSE Max(linked) + 1
      IN  x \in Nat /\ \A f \in DOMAIN files : f < x
  <2>1. CASE Virgin
    BY <2>1 DEF Virgin
  <2>2. CASE DiskInv
    <3>1. linked \subseteq Nat /\ IsFiniteSet(linked) /\ active_id \in linked /\ DOMAIN files \subseteq Nat
      BY <2>2 DEF DiskInv, FilesOK
    <3>2. Max(linked) \in linked /\ \A f \in linked : f <= Max(linked)
      BY <3>1, MaxIsGreatest
    <3>3. Max(linked) \in Nat /\ active_id \in Nat /\ active_id <= Max(linked)
      BY <3>1, <3>2
    <3>4. \A f \in DOMAIN files : f <= Max(linked)
      <4> TAKE f \in DOMAIN files
      <4>1. f \in linked \/ f < active_id
        BY <2>2 DEF DiskInv
      <4> QED
        BY <3>1, <3>2, <3>3, <4>1
    <3>5. \A f \in DOMAIN files : f < Max(linked) + 1
      BY <3>1, <3>3, <3>4
    <3> QED
      BY <3>1, <3>3, <3>5
  <2> QED
    BY <1>1, <2>1, <2>2
<1>8. /\ next_id' \in [Handles -> Nat]
      /\ \A f \in DOMAIN files : f < next_id'[h]
  BY <1>1, <1>2, <1>7 DEF HTypeOK
<1>9. /\ during' \in [Viewers -> [from : Nat, to : Nat]]
      /\ h \in Viewers => during'[h].from = Len(history)
      /\ \A g \in Viewers \ {h} : during'[g] = during[g]
  BY <1>1, <1>2 DEF HTypeOK
<1>10. HTypeOK'
  BY <1>1, <1>2, <1>5, <1>6, <1>8, <1>9 DEF HTypeOK
<1>11. StepsOK'
  <2>1. \A s \in Sessions : step'[s] \in Opening \cup {"open"} <=> lock' = s
    BY <1>1, <1>2, <1>5 DEF StepsOK, Handles, Opening
  <2> QED
    BY <1>1, <1>2, <1>5, <2>1 DEF StepsOK, Handles
<1>12. InSession' <=> InSession
  BY <1>1, <1>2, <1>5 DEF InSession, HTypeOK, Handles
<1>13. ~InSession => OpeningInv'
  <2>1. ~InSession => OpeningInv
    BY DEF HInv, RestInv
  <2>2. found[h] = EmptyKeydir
    BY <1>1, <1>2 DEF StepsOK
  <2>3. \A k \in Keys : found'[h][k] = None
    BY <1>2, <2>2 DEF EmptyKeydir
  <2> QED
    BY <1>2, <1>5, <1>8, <2>1, <2>3 DEF OpeningInv, Handles
<1>14. FoundOK(h)'
  BY <1>1, <1>2, SameStoreKeeps, FoundStays
<1>15. ScanFor(h)'
  <2>1. Since(h)' = Len(history)
    BY <1>2, <1>9 DEF Since
  <2>2. PICK n \in Nat : n = Len(history)
    BY <1>1
  <2>3. ASSUME NEW k \in Keys
        PROVE  ScansTo(left[h], found[h][k], k, n)'
    <3>1. PICK L : L = linked /\ L = left'[h]
      BY <1>5
    <3>2. found'[h][k] = None
      BY <1>1, <1>2 DEF StepsOK, EmptyKeydir
    <3>3. ScansTo(L, None, k, n)
      BY <1>1, <2>2, <3>1, StartScan
    <3>4. ScansTo(L, None, k, n)'
      BY <1>2, <3>3, SameScan
    <3> QED
      BY <3>1, <3>2, <3>4 DEF ScansTo, Anchor, VersionAt
  <2>4. ScanOK(h, n)'
    BY <1>2, <2>2, <2>3 DEF ScanOK
  <2>5. n \in Len(history)..Len(history)
    BY <2>2
  <2> QED
    BY <1>2, <2>1, <2>4, <2>5 DEF ScanFor
<1>16. ViewFor(h)'
  BY <1>5 DEF ViewFor
<1>17. \A g \in Handles \ {h} : Waits(g)
  BY <1>2, <1>5, <1>9 DEF Waits
<1> QED
  BY <1>2, <1>10, <1>11, <1>12, <1>13, <1>14, <1>15, <1>16, <1>17, QuietKeeps

\* The end of `recover` keeps the invariant.
LEMMA RecoveredKeeps ==
    ASSUME SerialUse, HInv, NEW h \in Handles, Recovered(h)
    PROVE  HInv'
<1>1. HTypeOK /\ StepsOK /\ FoundOK(h) /\ ScanFor(h) /\ history \in Seq(Write) /\ Len(history) \in Nat
  BY HistoryKnown DEF HInv
<1>2. /\ UNCHANGED allVars /\ clean' = clean /\ UNCHANGED <<files, linked, history, active_id, crashes>>
      /\ UNCHANGED <<lock, left, found, next_id>> /\ step[h] = "recover" /\ left[h] = {}
      /\ during' = IF h \in Viewers THEN [during EXCEPT ![h].to = Len(history)] ELSE during
  BY DEF Recovered, allVars, vars, diskVars
<1>3. StepAfter(h, step[h]) = IF h \in Sessions THEN "create" ELSE "open"
  BY <1>2, NextStep, HandlesAssumption DEF Handles
<1>4. step' = [step EXCEPT ![h] = IF h \in Sessions THEN "create" ELSE "open"]
  BY <1>3 DEF Recovered, Advance
<1>5. /\ step' \in [Handles -> HSteps] /\ step'[h] = IF h \in Sessions THEN "create" ELSE "open"
      /\ \A g \in Handles \ {h} : step'[g] = step[g]
  BY <1>1, <1>4 DEF HTypeOK, HSteps, Opening
<1>6. /\ during' \in [Viewers -> [from : Nat, to : Nat]]
      /\ h \in Viewers => during'[h].from = during[h].from /\ during'[h].to = Len(history)
      /\ \A g \in Viewers \ {h} : during'[g] = during[g]
  BY <1>1, <1>2 DEF HTypeOK
<1>7. HTypeOK'
  BY <1>1, <1>2, <1>5, <1>6 DEF HTypeOK
<1>8. StepsOK'
  <2>1. \A s \in Sessions : step'[s] \in Opening \cup {"open"} <=> lock' = s
    BY <1>1, <1>2, <1>5 DEF StepsOK, Handles, Opening
  <2>2. \A v \in Viewers : step'[v] \notin {"lock", "create"}
    BY <1>1, <1>5, HandlesAssumption DEF StepsOK, Handles
  <2>3. \A g \in Handles : step'[g] = "create" => left'[g] = {}
    BY <1>1, <1>2, <1>5 DEF StepsOK
  <2>4. \A g \in Handles : step'[g] \in {"lock", "discover"} => found'[g] = EmptyKeydir
    BY <1>1, <1>2, <1>5 DEF StepsOK
  <2> QED
    BY <2>1, <2>2, <2>3, <2>4 DEF StepsOK
<1>9. InSession' <=> InSession
  BY <1>1, <1>2, <1>5 DEF InSession, HTypeOK, Handles
<1>10. ~InSession => OpeningInv'
  <2>1. ~InSession => OpeningInv
    BY DEF HInv, RestInv
  <2> QED
    BY <1>2, <1>5, <2>1 DEF OpeningInv, Handles
<1>11. FoundOK(h)'
  BY <1>1, <1>2, SameStoreKeeps, FoundStays
<1>12. PICK n \in Since(h)..Len(history) : ScanOK(h, n)
  BY <1>1, <1>2 DEF ScanFor
<1>13. \A k \in Keys : ScansTo(left[h], found[h][k], k, n)
  BY <1>12 DEF ScanOK
<1>14. ScanFor(h)'
  <2> SUFFICES ASSUME step'[h] \in {"recover", "create"} PROVE ScanFor(h)'
    BY DEF ScanFor
  <2>1. h \notin Viewers
    BY <1>5, HandlesAssumption
  <2>2. Since(h) = Len(history) /\ Since(h)' = Len(history)
    BY <1>2, <2>1 DEF Since
  <2>3. ASSUME NEW k \in Keys PROVE ScansTo(left[h], found[h][k], k, n)'
    <3>1. PICK L, loc : L = left[h] /\ loc = found[h][k] /\ L = left'[h] /\ loc = found'[h][k]
      BY <1>2
    <3>2. ScansTo(L, loc, k, n)'
      BY <1>2, <1>13, <3>1, SameScan
    <3> QED
      BY <3>1, <3>2 DEF ScansTo, Anchor, VersionAt
  <2>4. ScanOK(h, n)'
    BY <1>2, <2>3 DEF ScanOK
  <2> QED
    BY <1>2, <1>12, <2>2, <2>4 DEF ScanFor
<1>15. ViewFor(h)'
  <2> SUFFICES ASSUME h \in Viewers PROVE ViewFor(h)'
    BY DEF ViewFor
  <2>1. during'[h].from = Since(h) /\ during'[h].to = Len(history)
    BY <1>6 DEF Since
  <2>2. ASSUME NEW k \in Keys PROVE VersionAt(found[h][k])' = LastOf(k, n)'
    <3>1. ScansTo({}, found[h][k], k, n)
      BY <1>2, <1>13
    <3>2. VersionAt(found[h][k]) = LastOf(k, n)
      BY <3>1 DEF ScansTo, Anchor, IsPlace
    <3>3. VersionAt(found[h][k])' = VersionAt(found[h][k]) /\ LastOf(k, n)' = LastOf(k, n)
      BY <1>2 DEF VersionAt, LastOf
    <3> QED
      BY <3>2, <3>3
  <2> QED
    BY <1>1, <1>2, <1>12, <2>1, <2>2 DEF ViewFor
<1>16. \A g \in Handles \ {h} : Waits(g)
  BY <1>2, <1>5, <1>6 DEF Waits
<1> QED
  BY <1>2, <1>7, <1>8, <1>9, <1>10, <1>11, <1>14, <1>15, <1>16, QuietKeeps

-----------------------------------------------------------------------------
(* The calls of a session.                                                   *)

\* The calls of a session lose no entry the OS has.
LEMMA CallsLoseNothing ==
    ASSUME SerialUse, SessionInv, IInv', [MergeNext]_allVars, ~Crashed
    PROVE  NothingLost /\ HistoryGrows /\ DOMAIN files \subseteq DOMAIN files'
<1>1. IInv /\ DiskInv /\ PlacesInv /\ history \in Seq(Write)
  BY DEF SessionInv, OneWriteInv, SerialInv, OrderedInv, IInv, DiskInv
<1>2. CASE Removes
  <2>1. UNCHANGED <<history, files>>
    BY <1>2 DEF Removes, MergeRemove
  <2>2. Len(history) \in Nat
    BY <1>1
  <2> QED
    BY <2>1, <2>2 DEF NothingLost, HistoryGrows
<1>3. ~Removes => Advances
  <2>1. Calm => Advances
    BY DEF Calm
  <2>2. Appends => Advances
    BY <1>1, AppendAdvances, StoreAssumption DEF Appends
  <2>3. Copies => Advances
    BY <1>1, EntryAddsOne DEF Copies
  <2> QED
    BY <1>1, <2>1, <2>2, <2>3, FourKinds
<1>4. CASE Advances
  BY <1>1, <1>4, AdvancesLosesNothing DEF Advances, Grows
<1> QED
  BY <1>2, <1>3, <1>4

\* The calls of a session keep the invariant.
LEMMA SessionStepKeeps ==
    ASSUME SerialUse, HInv, SessionStep
    PROVE  HInv'
<1>1. /\ HTypeOK /\ StepsOK /\ MonoInv /\ WrittenInv /\ SessionInv /\ InSession /\ crashes \in Nat
      /\ history \in Seq(Write) /\ PlacesInv /\ IInv
  BY HistoryKnown DEF HInv, HTypeOK, SessionStep, SessionInv, OneWriteInv, SerialInv, OrderedInv
<1>2. [MergeNext]_allVars /\ ~Crashed /\ crashes' = crashes
  BY <1>1, CallsAreSteps, CallsDoNotCrash
<1>3. SessionInv' /\ MonoInv'
  BY <1>1, <1>2, SessionGoesOn
<1>4. IInv' /\ BusyInv' /\ Len(history') \in Nat
  BY <1>3 DEF SessionInv, OneWriteInv, SerialInv, OrderedInv, IInv, DiskInv
<1>5. WrittenInv'
  BY <1>1, <1>4, WrittenStep, StoreAssumption
<1>6. NothingLost /\ HistoryGrows /\ DOMAIN files \subseteq DOMAIN files'
  BY <1>1, <1>2, <1>4, CallsLoseNothing
<1>7. UNCHANGED <<lock, step, left, found, next_id, during, clean>>
  BY DEF SessionStep, handleVars
<1>8. InSession'
  BY <1>1, <1>7 DEF InSession
<1>9. HTypeOK'
  BY <1>1, <1>2, <1>6, <1>7 DEF HTypeOK
<1>10. StepsOK'
  BY <1>1, <1>7 DEF StepsOK
<1>11. ASSUME NEW h \in Handles
       PROVE  FoundOK(h)' /\ ScanFor(h)' /\ ViewFor(h)'
  <2>1. Waits(h) /\ FoundOK(h) /\ ScanFor(h) /\ ViewFor(h)
    BY <1>7 DEF Waits, HInv
  <2>2. FoundOK(h)' /\ ViewFor(h)'
    BY <1>1, <1>4, <1>6, <1>7, <2>1, FoundStays, ViewStays
  <2>3. h \in Viewers \/ step[h] \notin {"recover", "create"}
    BY <1>1 DEF Handles, StepsOK, Opening, InSession
  <2>4. ScanFor(h)'
    BY <1>1, <1>2, <1>3, <2>1, <2>3, CallScan
  <2> QED
    BY <2>2, <2>4
<1> QED
  BY <1>3, <1>5, <1>8, <1>9, <1>10, <1>11 DEF HInv

-----------------------------------------------------------------------------
(* The end of a session.                                                     *)

\* The end of a session, whichever it is, keeps the invariant.
LEMMA EndKeeps ==
    ASSUME HInv, lock # None, Ended, history' = history, linked' = linked,
           active_id' = active_id, DOMAIN files' = DOMAIN files, crashes' \in Nat,
           NothingLost, NothingNew(linked),
           \A L : CopiesInto(L)' => CopiesInto(L), MonoInv', AtRest',
           \A g \in linked : FlushedIn(files', g) /\ (clean' => SyncedIn(files', g))
    PROVE  HInv'
<1>1. HTypeOK /\ StepsOK /\ history \in Seq(Write)
  BY HistoryKnown DEF HInv
<1>2. lock \in Sessions /\ lock \in Handles /\ lock \notin Viewers
  BY <1>1, HandlesAssumption DEF HTypeOK, Handles
<1>3. PICK s : s = lock
  OBVIOUS
<1>4. /\ lock' = None /\ step' = [step EXCEPT ![s] = "closed"] /\ left' = [left EXCEPT ![s] = {}]
      /\ found' = [found EXCEPT ![s] = EmptyKeydir] /\ UNCHANGED <<next_id, during>>
  BY <1>3 DEF Ended
<1>5. s \in Handles /\ s \in Sessions /\ s \notin Viewers
  BY <1>2, <1>3
<1>6. EmptyKeydir \in Keydirs
  BY DEF EmptyKeydir, Keydirs
<1>7. /\ step' \in [Handles -> HSteps] /\ left' \in [Handles -> SUBSET DOMAIN files]
      /\ found' \in [Handles -> Keydirs] /\ step'[s] = "closed" /\ left'[s] = {}
      /\ found'[s] = EmptyKeydir
      /\ \A g \in Handles \ {s} : /\ step'[g] = step[g] /\ left'[g] = left[g]
                                  /\ found'[g] = found[g]
  BY <1>1, <1>4, <1>5, <1>6 DEF HTypeOK, HSteps
<1>8. HTypeOK'
  BY <1>1, <1>4, <1>7 DEF HTypeOK
<1>9. StepsOK'
  <2>1. \A u \in Sessions : step'[u] \notin Opening \cup {"open"} /\ u # None
    BY <1>1, <1>3, <1>7, HandlesAssumption DEF StepsOK, Handles, Opening
  <2>2. \A u \in Sessions : step'[u] \in Opening \cup {"open"} <=> lock' = u
    BY <1>4, <2>1
  <2> QED
    BY <1>1, <1>5, <1>7, <2>2 DEF StepsOK, Handles
<1>10. ~InSession'
  BY <1>4 DEF InSession
<1>11. OldStaysOld
  BY DEF OldStaysOld
<1>12. ASSUME NEW h \in Handles
       PROVE  FoundOK(h)' /\ ScanFor(h)' /\ ViewFor(h)'
  <2>1. CASE h = s
    <3>1. FoundOK(h)'
      BY <1>7, <2>1 DEF FoundOK, EmptyKeydir
    <3> QED
      BY <1>7, <2>1, <3>1 DEF ScanFor, ViewFor
  <2>2. CASE h # s
    <3>1. Waits(h) /\ FoundOK(h) /\ ScanFor(h) /\ ViewFor(h)
      BY <1>4, <1>7, <2>2 DEF Waits, HInv
    <3> QED
      BY <1>1, <1>11, <3>1, HandleWaits
  <2> QED
    BY <2>1, <2>2
<1>13. OpeningInv'
  BY <1>1, <1>3, <1>7 DEF OpeningInv, StepsOK, Opening, Handles
<1>14. RestInv'
  BY <1>13 DEF RestInv, AtRest
<1>15. WrittenInv'
  BY DEF WrittenInv
<1> QED
  BY <1>8, <1>9, <1>10, <1>12, <1>14, <1>15 DEF HInv

\* A session between two calls is at rest.
LEMMA SessionRests ==
    ASSUME SessionInv, Resting
    PROVE  CallsRest
<1>1. ArgInv /\ MergesInv /\ BusyInv
  BY DEF SessionInv, OneWriteInv, SerialInv, OrderedInv, IInv
<1> QED
  BY <1>1 DEF Resting, CallsRest, ArgInv, MergesInv, BusyInv

\* At rest in a session nothing is in a buffer, and the active file alone may be short of the
\* medium.
LEMMA RestWritten ==
    ASSUME WrittenInv, Resting, NEW g \in linked
    PROVE  FlushedIn(files, g) /\ (clean => SyncedIn(files, g) \/ g = active_id)
<1>1. \A t \in Threads : pc[t] \notin CopyingPCs
  BY DEF Resting, CopyingPCs
<1> QED
  BY <1>1 DEF WrittenInv

\* `close` keeps the invariant.
LEMMA CloseKeeps ==
    ASSUME SerialUse, HInv, Close
    PROVE  HInv'
<1>1. /\ InSession /\ Resting /\ Ended /\ lock # None
      /\ UNCHANGED <<history, linked, active_id, next_file_id, pc, arg, merging, at_risk, faults, crashes, clean>>
      /\ files' = WithSync(files, active_id)
  BY DEF Close, FilesAtClose, InSession, mergeVars
<1>2. /\ SessionInv /\ MonoInv /\ WrittenInv /\ crashes \in Nat
      /\ DiskInv /\ active_id \in DOMAIN files /\ linked \subseteq DOMAIN files
      /\ Len(history) \in Nat /\ FilesOK(files, Len(history))
  BY <1>1 DEF HInv, HTypeOK, SessionInv, OneWriteInv, SerialInv, OrderedInv, IInv, DiskInv
<1>3. Calm
  BY <1>1, <1>2, SyncCalm
<1>4. Advances /\ NothingLost /\ NothingNew(linked)
  BY <1>2, <1>3, AdvancesLosesNothing, CalmIsNothingNew DEF Calm
<1>5. MonoInv'
  BY <1>2, <1>3, MonoStays, NoNewPlaces DEF Calm
<1>6. AtRest'
  <2>1. CallsRest
    BY <1>1, <1>2, SessionRests
  <2>2. CallsRest'
    BY <1>1, <2>1 DEF CallsRest
  <2>3. DiskInv' /\ DiskSays'
    BY <1>1, <1>2, <1>3, <1>4, SessionSays, CalmSays DEF Advances
  <2> QED
    BY <2>2, <2>3 DEF AtRest
<1>7. \A L : CopiesInto(L)' => CopiesInto(L)
  BY <1>1 DEF CopiesInto
<1>8. /\ DOMAIN files' = DOMAIN files /\ FlushedIn(files', active_id) /\ SyncedIn(files', active_id)
      /\ \A g \in DOMAIN files \ {active_id} : files'[g] = files[g]
  BY <1>1, <1>2, WithSyncOK DEF FlushedIn, SyncedIn
<1>9. ASSUME NEW g \in linked
      PROVE  FlushedIn(files', g) /\ (clean' => SyncedIn(files', g))
  <2>1. FlushedIn(files, g) /\ (clean => SyncedIn(files, g) \/ g = active_id)
    BY <1>1, <1>2, RestWritten
  <2>2. CASE g = active_id
    BY <1>8, <2>2
  <2>3. CASE g # active_id
    <3>1. files'[g] = files[g] /\ clean' = clean
      BY <1>1, <1>2, <1>8, <2>3
    <3> QED
      BY <2>1, <2>3, <3>1 DEF FlushedIn, SyncedIn
  <2> QED
    BY <2>2, <2>3
<1> QED
  BY <1>1, <1>2, <1>4, <1>5, <1>6, <1>7, <1>8, <1>9, EndKeeps

\* A handle that is dropped keeps it, but for the medium.
LEMMA DropKeeps ==
    ASSUME SerialUse, HInv, Drop
    PROVE  HInv'
<1>1. /\ InSession /\ Resting /\ Ended /\ lock # None /\ UNCHANGED diskVars
      /\ UNCHANGED <<history, files, linked, active_id, next_file_id, pc, arg, merging, at_risk, faults>>
      /\ clean' = FALSE /\ crashes' = crashes + 1
  BY DEF Drop, InSession, mergeVars, diskVars
<1>2. /\ SessionInv /\ MonoInv /\ WrittenInv /\ crashes \in Nat /\ DiskInv
  BY <1>1 DEF HInv, HTypeOK, SessionInv, OneWriteInv, SerialInv, OrderedInv, IInv
<1>3. Calm
  BY <1>1, <1>2, IdleCalm
<1>4. Advances /\ NothingLost /\ NothingNew(linked)
  BY <1>2, <1>3, AdvancesLosesNothing, CalmIsNothingNew DEF Calm
<1>5. MonoInv'
  BY <1>2, <1>3, MonoStays, NoNewPlaces DEF Calm
<1>6. AtRest'
  <2>1. CallsRest
    BY <1>1, <1>2, SessionRests
  <2>2. CallsRest'
    BY <1>1, <2>1 DEF CallsRest
  <2>3. DiskInv' /\ DiskSays'
    BY <1>1, <1>2, <1>3, <1>4, SessionSays, CalmSays DEF Advances
  <2> QED
    BY <2>2, <2>3 DEF AtRest
<1>7. \A L : CopiesInto(L)' => CopiesInto(L)
  BY <1>1 DEF CopiesInto
<1>8. \A g \in linked : FlushedIn(files', g)
  BY <1>1, <1>2, RestWritten
<1>9. crashes' \in Nat
  BY <1>1, <1>2
<1> QED
  BY <1>1, <1>4, <1>5, <1>6, <1>7, <1>8, <1>9, EndKeeps

\* An empty directory shows no key.
LEMMA VirginSays ==
    ASSUME Virgin'
    PROVE  DiskSays' /\ MonoInv'
<1>1. linked' = {} /\ history' = <<>>
  BY DEF Virgin
<1>2. ASSUME NEW k \in Keys
      PROVE  /\ Held(k, None)' /\ Shows(files', linked', history', k, None)
             /\ VersionAt(None)' = LastOf(k, Len(history))'
  <2>1. LastOf(k, Len(history))' = 0
    BY <1>1 DEF LastOf
  <2> QED
    BY <1>1, <2>1 DEF Held, Shows, IsPlace, VersionAt
<1> QED
  BY <1>1, <1>2 DEF DiskSays, MonoInv, IsPlace

\* A kill keeps it, in a call and in `open`.
LEMMA KillKeeps ==
    ASSUME SerialUse, HInv, Kill
    PROVE  HInv'
<1>1. PICK n \in KeptAfter("kill") : KilledFiles(n)
  BY DEF Kill, KilledFiles
<1>2. /\ lock # None /\ Ended /\ clean' = FALSE /\ crashes' = crashes + 1
      /\ UNCHANGED <<history, linked, active_id, next_file_id, faults>>
      /\ pc' = [t \in Threads |-> "idle"] /\ arg' = [t \in Threads |-> NoArg]
      /\ merging' = [t \in Threads |-> NoMerge] /\ at_risk' = {}
  BY DEF Kill
<1>3. MonoInv /\ crashes \in Nat /\ (DiskInv \/ Virgin) /\ DiskSays
  BY HistoryKnown DEF HInv, HTypeOK
<1>4. \A L : CopiesInto(L)' => CopiesInto(L)
  BY <1>2 DEF CopiesInto, CopyPCs, RepointPCs
<1>5. CallsRest'
  <2>1. faults = 0 /\ Len(history) \in 0..MaxWrites
    BY DEF HInv, RestInv, CallsRest, SessionInv, OneWriteInv, BusyInv
  <2>2. NoArg \in Arg /\ NoMerge \in MergeRec /\ "idle" \in PCs
    BY NoMergeType DEF NoArg, Arg, PCs
  <2> QED
    BY <1>2, <2>1, <2>2 DEF CallsRest
<1>6. CASE DiskInv
  <2>1. /\ CutDown(n) /\ \A f \in linked : files[f].flushed <= n[f]
        /\ DiskInv' /\ DOMAIN files' = DOMAIN files /\ NothingLost /\ NothingNew(linked)
        /\ \A f \in linked : FlushedIn(files', f)
    BY <1>1, <1>2, <1>6, KillCuts
  <2>2. DiskSays' /\ MonoInv'
    BY <1>3, <1>6, <2>1, CutSays, CrashMono
  <2> QED
    BY <1>2, <1>3, <1>4, <1>5, <2>1, <2>2, EndKeeps DEF AtRest
<1>7. CASE Virgin
  <2>1. linked = {} /\ DOMAIN files = {} /\ history = <<>> /\ DOMAIN files' = {}
    BY <1>1, <1>7 DEF Virgin, KilledFiles
  <2>2. Virgin'
    BY <1>2, <2>1 DEF Virgin
  <2>3. NothingLost /\ NothingNew(linked)
    BY <2>1 DEF NothingLost, NothingNew, OnOS, InFile
  <2>4. AtRest' /\ MonoInv'
    BY <1>5, <2>2, VirginSays DEF AtRest
  <2> QED
    BY <1>2, <1>3, <1>4, <2>1, <2>3, <2>4, EndKeeps
<1> QED
  BY <1>3, <1>6, <1>7

-----------------------------------------------------------------------------
(* One file of a recovery.                                                   *)

\* A place of k in the first n entries of file f.
ReadTo(f, n, k, p) ==
    IsPlace(files, linked, history, k, p) /\ p.file_id = f /\ p.value_pos <= n

\* Reading them turns the keydir entry old into new.
Reads(f, n, k, old, new) ==
    \/ new = old /\ \A p \in Location : ~ReadTo(f, n, k, p)
    \/ \E p \in Location :
          /\ ReadTo(f, n, k, p) /\ \A q \in Location : ReadTo(f, n, k, q) => UpTo(q, p)
          /\ new = IF history[EntryIn(files, p)].tomb THEN None ELSE p

\* What a reader of file f finds there.
DataTo(f, n) == [entries |-> [i \in 1..n |-> history[files[f].entries[i]]],
                   bad |-> {}, hint |-> None]

\* The scan of one file leaves the last entry of every key it read.
LEMMA RecoverReads ==
    ASSUME DiskInv, NEW f \in linked, NEW n \in Nat, n <= Len(files[f].entries),
           NEW kd \in Keydirs
    PROVE  LET r == RecoverFile(kd, f, DataTo(f, n)) IN
           r \in Keydirs /\ \A k \in Keys : Reads(f, n, k, kd[k], r[k])
<1> DEFINE es == [i \in 1..n |-> history[files[f].entries[i]]]
           d == DataTo(f, n)
           r == RecoverFile(kd, f, d)
<1>1. /\ f \in DOMAIN files /\ f \in Nat /\ files[f].entries \in Seq(1..Len(history))
      /\ Len(files[f].entries) \in Nat /\ history \in Seq(Write)
  BY DEF DiskInv, FilesOK, FileOf
<1>2. d.entries = es /\ d.bad = {} /\ d.hint = None
  BY DEF DataTo
<1>3. es \in Seq(Range(es)) /\ Len(es) = n /\ DOMAIN es = 1..n
  <2>1. DOMAIN es = 1..n /\ \A i \in 1..n : es[i] \in Range(es)
    BY DEF Range
  <2>2. es \in [1..n -> Range(es)]
    <3>1. es = [i \in 1..n |-> es[i]]
      OBVIOUS
    <3> HIDE DEF es
    <3> QED
      BY <2>1, <3>1
  <2> HIDE DEF es
  <2> QED
    BY <2>1, <2>2
<1>4. \A i \in 1..n : es[i] = history[files[f].entries[i]]
  OBVIOUS
<1> HIDE DEF es, d
<1>5. IsData(d) /\ ~HintIsUsable(d)
  BY <1>2, <1>3 DEF IsData, HintIsUsable
<1>6. /\ r \in Keydirs
      /\ \A k \in Keys : r[k] = IF HasWord(d, k) THEN WordOn(f, d, k) ELSE kd[k]
  BY <1>1, <1>5, RecoverFileComputes
<1> HIDE DEF r
<1>7. ASSUME NEW k \in Keys PROVE Reads(f, n, k, kd[k], r[k])
  <2> DEFINE hits == Hits(d, k)
  <2>1. hits = {i \in 1..n : history[files[f].entries[i]].key = k}
    BY <1>2, <1>3, <1>4 DEF Hits
  <2>2. r[k] = IF hits # {} THEN LastHit(hits, f, d, None) ELSE kd[k]
    BY <1>5, <1>6 DEF HasWord, WordOn
  <2> HIDE DEF hits
  <2>3. ASSUME NEW p \in Location, ReadTo(f, n, k, p)
        PROVE  p.value_pos \in hits
    BY <2>1, <2>3 DEF ReadTo, IsPlace, InFile, EntryIn, Location
  <2>4. CASE hits = {}
    BY <2>2, <2>3, <2>4 DEF Reads
  <2>5. CASE hits # {}
    <3>1. IsFiniteSet(1..n)
      BY FS_Interval
    <3>2. hits \subseteq 1..n /\ 1..n \subseteq Nat
      BY <2>1
    <3>3. Max(hits) \in hits /\ \A x \in hits : x <= Max(hits)
      BY <2>5, <3>1, <3>2, FS_Subset, MaxIsGreatest
    <3>4. PICK i : i = Max(hits)
      OBVIOUS
    <3>5. i \in 1..n /\ history[files[f].entries[i]].key = k /\ \A x \in hits : x <= i
      BY <2>1, <3>3, <3>4
    <3>6. r[k] = IF es[i].tomb THEN None ELSE [file_id |-> f, value_pos |-> i]
      BY <1>2, <2>2, <2>5, <3>4 DEF LastHit
    <3>7. PICK p : p = [file_id |-> f, value_pos |-> i]
      OBVIOUS
    <3>8. p \in Location /\ p.file_id = f /\ p.value_pos = i
      BY <1>1, <3>5, <3>7 DEF Location
    <3>9. ReadTo(f, n, k, p)
      BY <1>1, <3>5, <3>8 DEF ReadTo, IsPlace, InFile, EntryIn
    <3>10. \A q \in Location : ReadTo(f, n, k, q) => UpTo(q, p)
      BY <2>3, <3>5, <3>8 DEF ReadTo, UpTo
    <3>11. es[i] = history[EntryIn(files, p)]
      BY <1>4, <3>5, <3>8 DEF EntryIn
    <3> QED
      BY <3>6, <3>7, <3>8, <3>9, <3>10, <3>11 DEF Reads
  <2> QED
    BY <2>4, <2>5
<1> QED
  BY <1>6, <1>7 DEF r, d

\* A place is the same place after a spill.
LEMMA SpillPlaces ==
    ASSUME DiskInv, NEW f, NEW n, Spills(f, n)
    PROVE  /\ NothingLost /\ HistoryGrows /\ NothingNew(linked)
           /\ \A p \in Location :
                 /\ InFile(files', p) <=> InFile(files, p)
                 /\ InFile(files, p) => EntryIn(files', p) = EntryIn(files, p)
<1>1. /\ Calm /\ DOMAIN files' = DOMAIN files
      /\ \A g \in DOMAIN files : files'[g].entries = files[g].entries
  BY SpillCalm
<1>2. Advances
  BY <1>1 DEF Calm
<1> QED
  BY <1>1, <1>2, AdvancesLosesNothing, CalmIsNothingNew DEF InFile, EntryIn

\* The scan goes on: what it has to end with it still ends with.
LEMMA ScanGoesOn ==
    ASSUME DiskInv, NEW f, NEW n, Spills(f, n), NEW L \in SUBSET linked, f \in L,
           \A g \in L : f <= g, NEW k \in Keys, NEW m \in 0..Len(history),
           NEW old, NEW new, Reads(f, n, k, old, new),
           old # None => OnOS(files, old), ScansTo(L, old, k, m)
    PROVE  ScansTo(L \ {f}, new, k, m)'
<1> DEFINE M == L \ {f}
<1>1. /\ NothingLost /\ HistoryGrows /\ history \in Seq(Write) /\ Len(history) \in Nat
      /\ history' = history /\ linked' = linked /\ L \subseteq linked
      /\ \A p \in Location : /\ InFile(files', p) <=> InFile(files, p)
                             /\ InFile(files, p) => EntryIn(files', p) = EntryIn(files, p)
  <2>1. history \in Seq(Write) /\ Len(history) \in Nat
    BY DEF DiskInv
  <2>2. history' = history /\ linked' = linked
    BY DEF Spills
  <2> QED
    BY <2>1, <2>2, SpillPlaces
<1>2. /\ f \in Nat /\ n \in Nat /\ files[f].flushed \in Nat /\ files[f].flushed <= n
      /\ Len(files[f].entries) \in Nat /\ n <= Len(files[f].entries)
      /\ L \subseteq Nat /\ f \in DOMAIN files
  <2>1. /\ f \in DOMAIN files /\ DOMAIN files \subseteq Nat /\ linked \subseteq DOMAIN files
        /\ files[f].flushed \in Nat /\ Len(files[f].entries) \in Nat
    BY DEF DiskInv, FilesOK, FileOf, Spills
  <2> QED
    BY <2>1 DEF Spills
<1> DEFINE Sure(q) == Anchor(M, k, m, q)
<1>3. ASSUME NEW q \in Location, Sure(q) PROVE Anchor(M, k, m, q)'
  BY <1>1, <1>3, AnchorStays
<1>4. ASSUME NEW q \in Location, Anchor(L, k, m, q), q.file_id # f PROVE Sure(q)
  BY <1>4 DEF Anchor, IsPlace
<1>5. ASSUME NEW q \in Location, Anchor(L, k, m, q), q.file_id = f PROVE ReadTo(f, n, k, q)
  BY <1>1, <1>2, <1>5 DEF Anchor, IsPlace, OnOS, ReadTo, Location
<1>6. ASSUME NEW p \in Location, IsPlace(files', M, history', k, p)
      PROVE  Tells(k, m, p)' \/ \E q \in Location : UpTo(p, q) /\ Anchor(M, k, m, q)'
  <2>1. IsPlace(files, L, history, k, p) /\ p.file_id \in M /\ InFile(files, p)
        /\ EntryIn(files', p) = EntryIn(files, p)
    BY <1>1, <1>6 DEF IsPlace
  <2>2. CASE Tells(k, m, p)
    <3>1. Tells(k, m, p)'
      BY <1>1, <2>1, <2>2, TellsStays
    <3> QED
      BY <3>1
  <2>3. CASE \E q \in Location : UpTo(p, q) /\ Anchor(L, k, m, q)
    <3>1. PICK q \in Location : UpTo(p, q) /\ Anchor(L, k, m, q)
      BY <2>3
    <3>2. q.file_id # f
      <4>1. p.file_id \in Nat /\ q.file_id \in Nat /\ f <= p.file_id /\ p.file_id # f
        BY <2>1 DEF Location
      <4> QED
        BY <1>2, <3>1, <4>1 DEF UpTo
    <3>3. Anchor(M, k, m, q)'
      BY <1>3, <1>4, <3>1, <3>2
    <3> QED
      BY <3>1, <3>3
  <2> QED
    BY <2>1, <2>2, <2>3 DEF ScansTo
<1>7. VersionAt(new)' = LastOf(k, m)' \/ \E q \in Location : Anchor(M, k, m, q)'
  <2> SUFFICES ASSUME \A q \in Location : ~Anchor(M, k, m, q)'
               PROVE  VersionAt(new)' = LastOf(k, m)'
    OBVIOUS
  <2>1. \A q \in Location : Anchor(L, k, m, q) => ReadTo(f, n, k, q)
    BY <1>3, <1>4, <1>5
  <2>2. LastOf(k, m)' = LastOf(k, m)
    BY <1>1, LastOfStays
  <2>3. CASE new = old /\ \A p \in Location : ~ReadTo(f, n, k, p)
    <3>1. VersionAt(old) = LastOf(k, m)
      BY <2>1, <2>3 DEF ScansTo
    <3>2. VersionAt(old)' = VersionAt(old)
      BY <1>1, VersionStays
    <3>3. VersionAt(new)' = VersionAt(old)'
      BY <2>3 DEF VersionAt
    <3> QED
      BY <2>2, <3>1, <3>2, <3>3
  <2>4. CASE \E p \in Location :
                /\ ReadTo(f, n, k, p) /\ \A q \in Location : ReadTo(f, n, k, q) => UpTo(q, p)
                /\ new = IF history[EntryIn(files, p)].tomb THEN None ELSE p
    <3>1. PICK p \in Location :
             /\ ReadTo(f, n, k, p) /\ \A q \in Location : ReadTo(f, n, k, q) => UpTo(q, p)
             /\ new = IF history[EntryIn(files, p)].tomb THEN None ELSE p
      BY <2>4
    <3>2. IsPlace(files, L, history, k, p) /\ InFile(files, p)
      BY <3>1 DEF ReadTo, IsPlace
    <3>3. Tells(k, m, p)
      <4>1. ASSUME NEW q \in Location, UpTo(p, q), Anchor(L, k, m, q) PROVE Tells(k, m, p)
        <5>1. UpTo(q, p)
          BY <2>1, <3>1, <4>1
        <5>2. p = q
          BY <4>1, <5>1, UpToOrder
        <5> QED
          BY <4>1, <5>2 DEF Anchor
      <4> QED
        BY <3>2, <4>1 DEF ScansTo
    <3>4. VersionAt(new)' = IF history[EntryIn(files, p)].tomb THEN 0 ELSE EntryIn(files, p)
      <4>1. p # None /\ EntryIn(files', p) = EntryIn(files, p)
        BY <1>1, <3>2, NoneAssumption
      <4> QED
        BY <3>1, <4>1 DEF VersionAt, EntryIn
    <3> QED
      BY <2>2, <3>3, <3>4 DEF Tells
  <2> QED
    BY <2>3, <2>4 DEF Reads
<1> QED
  BY <1>6, <1>7 DEF ScansTo

\* What it finds is on the OS.
LEMMA FoundGoesOn ==
    ASSUME DiskInv, NEW f, NEW n, Spills(f, n), NEW k \in Keys, NEW old, NEW new,
           Reads(f, n, k, old, new), new # None,
           old # None => /\ OnOS(files, old)
                         /\ history[EntryIn(files, old)] = [key |-> k, tomb |-> FALSE]
    PROVE  /\ OnOS(files', new) /\ history'[EntryIn(files', new)] = [key |-> k, tomb |-> FALSE]
           /\ new.file_id = f \/ new = old
<1>1. /\ NothingLost /\ history \in Seq(Write) /\ history' = history
      /\ FilesOK(files, Len(history)) /\ Len(history) \in Nat /\ files'[f].flushed = n
      /\ \A p \in Location : /\ InFile(files', p) <=> InFile(files, p)
                             /\ InFile(files, p) => EntryIn(files', p) = EntryIn(files, p)
  <2>1. history \in Seq(Write) /\ Len(history) \in Nat /\ FilesOK(files, Len(history))
    BY DEF DiskInv
  <2>2. history' = history
    BY DEF Spills
  <2>3. files'[f].flushed = n
    BY SpillCalm
  <2> QED
    BY <2>1, <2>2, <2>3, SpillPlaces
<1>2. CASE new = old
  <2>1. OnOS(files, old) /\ old \in Location
    BY <1>2 DEF OnOS, InFile
  <2> QED
    BY <1>1, <1>2, <2>1 DEF NothingLost
<1>3. CASE new # old
  <2>1. PICK p \in Location :
           /\ ReadTo(f, n, k, p) /\ new = IF history[EntryIn(files, p)].tomb THEN None ELSE p
    BY <1>3 DEF Reads
  <2>2. /\ new = p /\ ~history[EntryIn(files, p)].tomb /\ InFile(files, p)
        /\ history[EntryIn(files, p)].key = k /\ p.file_id = f /\ p.value_pos <= n
    BY <2>1 DEF ReadTo, IsPlace
  <2>3. EntryIn(files, p) \in 1..Len(history)
    BY <1>1, <2>2, PlaceHolds
  <2>4. history[EntryIn(files, p)] \in Write
    BY <1>1, <2>3
  <2>5. history[EntryIn(files, p)] = [key |-> k, tomb |-> FALSE]
    BY <2>2, <2>4 DEF Write
  <2> QED
    BY <1>1, <2>2, <2>5 DEF OnOS
<1> QED
  BY <1>2, <1>3

-----------------------------------------------------------------------------
(* A turn of the loop of a recovery.                                         *)

\* A spill writes out no less than there was.
LEMMA WrittenSpill ==
    ASSUME DiskInv, WrittenInv, NEW f, NEW n, Spills(f, n), clean' = clean,
           InSession => InSession'
    PROVE  WrittenInv'
<1>1. /\ DOMAIN files' = DOMAIN files /\ linked \subseteq DOMAIN files /\ files'[f].flushed = n
      /\ \A g \in DOMAIN files : /\ g # f => files'[g] = files[g]
                                 /\ files'[g].entries = files[g].entries
                                 /\ files'[g].synced = files[g].synced
  BY SpillCalm DEF DiskInv
<1>2. UNCHANGED <<linked, active_id, pc, merging>> /\ f \in linked
      /\ n \in files[f].flushed..Len(files[f].entries)
  BY DEF Spills, memVars, mergeVars
<1>3. files[f].flushed \in Nat
  BY <1>2 DEF DiskInv, FilesOK, FileOf
<1> SUFFICES ASSUME NEW g \in linked
             PROVE  \/ FlushedIn(files', g)
                       /\ (clean => SyncedIn(files', g) \/ (InSession' /\ g = active_id))
                    \/ \E t \in Threads : pc[t] \in CopyingPCs /\ g = merging[t].out
  BY <1>2 DEF WrittenInv
<1>4. FlushedIn(files, g) => FlushedIn(files', g)
  BY <1>1, <1>2, <1>3 DEF FlushedIn
<1>5. SyncedIn(files, g) => SyncedIn(files', g)
  BY <1>1 DEF SyncedIn
<1> QED
  BY <1>4, <1>5 DEF WrittenInv

\* A turn of the loop of `recover` keeps the invariant: the file is read,
LEMMA RecoverOneKeeps ==
    ASSUME SerialUse, HInv, NEW h \in Handles, RecoverNext(h), Min(left[h]) \in linked
    PROVE  HInv'
<1>1. /\ HTypeOK /\ StepsOK /\ MonoInv /\ WrittenInv /\ FoundOK(h) /\ ScanFor(h)
      /\ history \in Seq(Write) /\ Len(history) \in Nat
  BY HistoryKnown DEF HInv
<1>2. DiskInv
  BY HistoryKnown DEF Virgin
<1>3. PICK f : f = Min(left[h])
  OBVIOUS
<1>4. PICK n \in files[f].flushed..Len(files[f].entries) :
         /\ found' = [found EXCEPT ![h] = RecoverFile(@, f, DataTo(f, n))]
         /\ left' = [left EXCEPT ![h] = @ \ {f}]
         /\ files' = [files EXCEPT ![f].flushed = n]
         /\ UNCHANGED <<step, lock>>
  BY <1>3 DEF RecoverNext, DataTo
<1>5. /\ UNCHANGED <<history, linked, active_id, next_file_id, memVars, promise, faults, crashes,
                     mergeVars, next_id, during, clean>>
      /\ step[h] = "recover" /\ left[h] # {}
  BY DEF RecoverNext
<1>6. UNCHANGED <<pc, arg, merging, at_risk>>
  BY <1>5 DEF memVars, mergeVars
<1>7. Spills(f, n)
  BY <1>3, <1>4, <1>5 DEF Spills
<1>8. f \in left[h] /\ \A g \in left[h] : f <= g
  <2>1. left[h] \subseteq Nat
    BY <1>1, <1>2 DEF HTypeOK, DiskInv, FilesOK
  <2> QED
    BY <1>3, <1>5, <2>1, MinIsLeast
<1>9. /\ Calm /\ DOMAIN files' = DOMAIN files
      /\ NothingLost /\ HistoryGrows /\ NothingNew(linked)
  BY <1>2, <1>7, SpillCalm, SpillPlaces
<1>10. Advances /\ NoNewEntries /\ DiskInv'
  BY <1>9 DEF Calm, Advances
<1>11. /\ n \in Nat /\ n <= Len(files[f].entries) /\ f \in linked
  <2>1. files[f].flushed \in Nat /\ Len(files[f].entries) \in Nat
    BY <1>2, <1>3 DEF DiskInv, FilesOK, FileOf
  <2> QED
    BY <1>3, <2>1
<1>12. found[h] \in Keydirs
  BY <1>1 DEF HTypeOK
<1>13. /\ found'[h] \in Keydirs
       /\ \A k \in Keys : Reads(f, n, k, found[h][k], found'[h][k])
  <2>1. found'[h] = RecoverFile(found[h], f, DataTo(f, n))
    BY <1>1, <1>4 DEF HTypeOK
  <2> QED
    BY <1>2, <1>11, <1>12, <2>1, RecoverReads
<1>14. /\ found' \in [Handles -> Keydirs] /\ left' \in [Handles -> SUBSET DOMAIN files']
       /\ left'[h] = left[h] \ {f}
       /\ \A g \in Handles \ {h} : found'[g] = found[g] /\ left'[g] = left[g]
  BY <1>1, <1>4, <1>9, <1>13 DEF HTypeOK
<1>15. HTypeOK'
  BY <1>1, <1>4, <1>5, <1>14 DEF HTypeOK
<1>16. StepsOK'
  BY <1>1, <1>4, <1>5, <1>14 DEF StepsOK
<1>17. InSession' <=> InSession
  BY <1>4 DEF InSession
<1>18. WrittenInv'
  BY <1>1, <1>2, <1>5, <1>7, <1>17, WrittenSpill
<1>19. MonoInv'
  <2>1. ASSUME NEW k \in Keys, NEW p \in Location, IsPlace(files', linked', history', k, p)
        PROVE  IsPlace(files, linked, history, k, p)
    BY <1>2, <1>10, <2>1, NoNewPlaces
  <2> QED
    BY <1>1, <1>2, <1>10, <2>1, MonoStays
<1>20. ASSUME NEW k \in Keys, found'[h][k] # None
       PROVE  /\ OnOS(files', found'[h][k])
              /\ history'[EntryIn(files', found'[h][k])] = [key |-> k, tomb |-> FALSE]
              /\ found'[h][k].file_id = f \/ found'[h][k] = found[h][k]
  <2>1. PICK old, new : old = found[h][k] /\ new = found'[h][k]
    OBVIOUS
  <2>2. Reads(f, n, k, old, new) /\ new # None
    BY <1>13, <1>20, <2>1
  <2>3. old # None => /\ OnOS(files, old)
                      /\ history[EntryIn(files, old)] = [key |-> k, tomb |-> FALSE]
    BY <1>1, <2>1 DEF FoundOK
  <2>4. /\ OnOS(files', new) /\ history'[EntryIn(files', new)] = [key |-> k, tomb |-> FALSE]
        /\ new.file_id = f \/ new = old
    BY <1>2, <1>7, <2>2, <2>3, FoundGoesOn
  <2> QED
    BY <2>1, <2>4
<1>21. FoundOK(h)'
  BY <1>20 DEF FoundOK
<1>22. ScanFor(h)'
  <2> SUFFICES ASSUME left'[h] \subseteq linked PROVE ScanFor(h)'
    BY <1>5 DEF ScanFor
  <2>1. left[h] \subseteq linked
    BY <1>11, <1>14
  <2>2. /\ CopiesInto(left[h]) => Since(h) = Len(history)
        /\ \E m \in Since(h)..Len(history) : ScanOK(h, m)
    BY <1>1, <1>5, <2>1 DEF ScanFor
  <2>3. CopiesInto(left[h])' => CopiesInto(left[h])
    BY <1>6, <1>14 DEF CopiesInto
  <2>4. Since(h)' = Since(h) /\ Since(h) \in Nat /\ history' = history
    BY <1>1, <1>5, SinceKnown DEF Since
  <2>5. PICK m \in Since(h)..Len(history) : ScanOK(h, m)
    BY <2>2
  <2>6. m \in 0..Len(history)
    BY <1>1, <2>4
  <2>7. ASSUME NEW k \in Keys PROVE ScansTo(left[h], found[h][k], k, m)'
    <3>1. PICK L, old, new, M : L = left[h] /\ old = found[h][k] /\ new = found'[h][k]
                                /\ M = L \ {f} /\ M = left'[h]
      BY <1>14
    <3>2. ScansTo(L, old, k, m) /\ Reads(f, n, k, old, new)
      BY <1>13, <2>5, <3>1 DEF ScanOK
    <3>3. old # None => OnOS(files, old)
      BY <1>1, <3>1 DEF FoundOK
    <3>4. L \in SUBSET linked /\ f \in L /\ \A g \in L : f <= g
      BY <1>8, <2>1, <3>1
    <3>5. ScansTo(L \ {f}, new, k, m)'
      BY <1>2, <1>7, <2>6, <3>2, <3>3, <3>4, ScanGoesOn
    <3> QED
      BY <3>1, <3>5 DEF ScansTo, Anchor, VersionAt
  <2>8. ScanOK(h, m)'
    <3>1. active_id' \in left'[h] => m = Len(history')
      BY <1>5, <1>14, <2>5 DEF ScanOK
    <3> QED
      BY <2>7, <3>1 DEF ScanOK
  <2> QED
    BY <2>2, <2>3, <2>4, <2>5, <2>8 DEF ScanFor
<1>23. ViewFor(h)'
  BY <1>4, <1>5 DEF ViewFor
<1>24. OldStaysOld
  BY <1>5, <1>6 DEF OldStaysOld, CopiesInto
<1>25. ASSUME NEW g \in Handles PROVE FoundOK(g)' /\ ScanFor(g)' /\ ViewFor(g)'
  <2>1. CASE g = h
    BY <1>21, <1>22, <1>23, <2>1
  <2>2. CASE g # h
    <3>1. Waits(g) /\ FoundOK(g) /\ ScanFor(g) /\ ViewFor(g)
      BY <1>4, <1>5, <1>14, <2>2 DEF Waits, HInv
    <3> QED
      BY <1>1, <1>5, <1>9, <1>24, <3>1, HandleWaits
  <2> QED
    BY <2>1, <2>2
<1>26. InSession => SessionInv'
  BY <1>1, <1>7, SpillKeeps DEF HInv
<1>27. ASSUME ~InSession PROVE RestInv'
  <2>1. CallsRest /\ DiskSays /\ OpeningInv
    BY <1>27 DEF HInv, RestInv
  <2>2. CallsRest'
    BY <1>5, <1>6, <2>1 DEF CallsRest
  <2>3. DiskSays'
    BY <1>2, <1>5, <1>9, <2>1, CalmSays
  <2>4. OpeningInv'
    <3> SUFFICES ASSUME NEW s \in Sessions, step'[s] \in {"recover", "create"}
                 PROVE  /\ \A g \in DOMAIN files' : g < next_id'[s]
                        /\ \A k \in Keys : found'[s][k] # None => found'[s][k].file_id \in linked'
      BY DEF OpeningInv
    <3>1. /\ \A g \in DOMAIN files : g < next_id[s]
          /\ \A k \in Keys : found[s][k] # None => found[s][k].file_id \in linked
      BY <1>4, <2>1 DEF OpeningInv
    <3>2. s \in Handles
      BY DEF Handles
    <3>3. CASE s # h
      BY <1>5, <1>9, <1>14, <3>1, <3>2, <3>3
    <3>4. CASE s = h
      BY <1>5, <1>9, <1>11, <1>20, <3>1, <3>4
    <3> QED
      BY <3>3, <3>4
  <2> QED
    BY <1>10, <2>2, <2>3, <2>4 DEF RestInv
<1> QED
  BY <1>15, <1>16, <1>17, <1>18, <1>19, <1>25, <1>26, <1>27 DEF HInv

\* or is gone, and `open` fails.
LEMMA RecoverGoneKeeps ==
    ASSUME SerialUse, HInv, NEW h \in Handles, RecoverNext(h), Min(left[h]) \notin linked
    PROVE  HInv'
<1>1. HTypeOK /\ StepsOK /\ FoundOK(h)
  BY DEF HInv
<1>2. /\ step[h] = "recover" /\ step' = [step EXCEPT ![h] = "closed"]
      /\ lock' = (IF lock = h THEN None ELSE lock)
      /\ UNCHANGED <<files, left, found, history, linked, active_id, next_file_id, memVars,
                     promise, faults, crashes, mergeVars, next_id, during, clean>>
  BY DEF RecoverNext
<1>3. UNCHANGED allVars
  BY <1>2 DEF allVars, vars, diskVars
<1>4. /\ step' \in [Handles -> HSteps] /\ step'[h] = "closed"
      /\ \A g \in Handles \ {h} : step'[g] = step[g]
  BY <1>1, <1>2 DEF HTypeOK, HSteps
<1>5. HTypeOK'
  BY <1>1, <1>2, <1>4 DEF HTypeOK
<1>6. StepsOK'
  <2>1. ASSUME NEW s \in Sessions PROVE step'[s] \in Opening \cup {"open"} <=> lock' = s
    <3>1. s \in Handles /\ s # None /\ (step[s] \in Opening \cup {"open"} <=> lock = s)
      BY <1>1, HandlesAssumption DEF StepsOK, Handles
    <3> QED
      BY <1>2, <1>4, <3>1 DEF Opening
  <2> QED
    BY <1>1, <1>2, <1>4, <2>1 DEF StepsOK, Handles
<1>7. InSession' <=> InSession
  <2>1. CASE lock = h
    BY <1>2, <2>1 DEF InSession
  <2>2. CASE lock # h
    <3>1. lock = None \/ lock \in Handles \ {h}
      BY <1>1, <2>2 DEF HTypeOK, Handles
    <3> QED
      BY <1>2, <1>4, <2>2, <3>1 DEF InSession
  <2> QED
    BY <2>1, <2>2
<1>8. ~InSession => OpeningInv'
  <2>1. ~InSession => OpeningInv
    BY DEF HInv, RestInv
  <2> QED
    BY <1>2, <1>4, <2>1 DEF OpeningInv, Handles
<1>9. FoundOK(h)'
  BY <1>1, <1>2, <1>3, SameStoreKeeps, FoundStays
<1>10. ScanFor(h)' /\ ViewFor(h)'
  BY <1>4 DEF ScanFor, ViewFor
<1>11. \A g \in Handles \ {h} : Waits(g)
  BY <1>2, <1>4 DEF Waits
<1> QED
  BY <1>2, <1>3, <1>5, <1>6, <1>7, <1>8, <1>9, <1>10, <1>11, QuietKeeps

\* Both.
LEMMA RecoverNextKeeps ==
    ASSUME SerialUse, HInv, NEW h \in Handles, RecoverNext(h)
    PROVE  HInv'
BY RecoverOneKeeps, RecoverGoneKeeps

-----------------------------------------------------------------------------
(* The session begins.                                                       *)

\* An empty file of a new id appears, and it is the active one.
Appears(x) ==
    /\ x \in Nat /\ \A f \in DOMAIN files : f < x
    /\ files' = WithFile(files, x) /\ linked' = linked \cup {x}
    /\ active_id' = x /\ next_file_id' = x + 1
    /\ UNCHANGED <<history, pc, arg, merging, at_risk, faults>>

\* No place appears with it and none goes.
LEMMA AppearsPlaces ==
    ASSUME DiskInv \/ Virgin, NEW x, Appears(x)
    PROVE  /\ DiskInv' /\ x \notin DOMAIN files /\ linked \subseteq DOMAIN files
           /\ DOMAIN files' = DOMAIN files \cup {x}
           /\ \A g \in DOMAIN files : files'[g] = files[g]
           /\ files'[x] = EmptyFile
           /\ NothingLost /\ NothingNew(linked)
           /\ \A k \in Keys, p \in Location :
                 /\ IsPlace(files', linked', history', k, p)
                       <=> IsPlace(files, linked, history, k, p)
                 /\ IsPlace(files, linked, history, k, p) => EntryIn(files', p) = EntryIn(files, p)
                 /\ OnOS(files, p) => OnOS(files', p)
<1>1. /\ history \in Seq(Write) /\ FilesOK(files, Len(history))
      /\ IsFiniteSet(linked) /\ linked \subseteq DOMAIN files
      /\ \A f \in DOMAIN files \ linked : f < x
  <2>1. CASE DiskInv
    BY <2>1 DEF DiskInv, Appears
  <2>2. CASE Virgin
    <3>1. <<>> \in Seq(Write) /\ IsFiniteSet({})
      BY FS_EmptySet
    <3> QED
      BY <2>2, <3>1 DEF Virgin, FilesOK
  <2> QED
    BY <2>1, <2>2
<1>2. /\ x \in Nat /\ \A f \in DOMAIN files : f < x
      /\ linked' = linked \cup {x} /\ active_id' = x /\ next_file_id' = x + 1
      /\ history' = history
  BY DEF Appears
<1>3. DOMAIN files \subseteq Nat /\ Len(history) \in Nat
  BY <1>1 DEF FilesOK
<1>4. x \notin DOMAIN files
  BY <1>2, <1>3
<1>5. /\ DOMAIN files' = DOMAIN files \cup {x} /\ files'[x] = EmptyFile
      /\ \A g \in DOMAIN files : files'[g] = files[g]
  BY <1>4 DEF Appears, WithFile
<1>6. FilesOK(files', Len(history))
  BY <1>1, <1>2, <1>3, <1>4, WithFileOK DEF Appears, Fresh
<1>7. IsFiniteSet(linked')
  BY <1>1, <1>2, FS_AddElement
<1>8. next_file_id' \in Nat /\ \A f \in DOMAIN files' : f < x + 1
  BY <1>2, <1>3, <1>5
<1>9. DiskInv'
  BY <1>1, <1>2, <1>5, <1>6, <1>7, <1>8 DEF DiskInv
<1>10. ASSUME NEW p \in Location
       PROVE  /\ InFile(files', p) <=> InFile(files, p)
              /\ InFile(files, p) => EntryIn(files', p) = EntryIn(files, p)
              /\ OnOS(files', p) <=> OnOS(files, p)
  <2>1. CASE p.file_id = x
    <3>1. EmptyFile.entries = <<>> /\ Len(<<>>) = 0 /\ p.value_pos \in Nat \ {0}
      BY DEF EmptyFile, Location
    <3>2. ~InFile(files', p) /\ ~InFile(files, p)
      BY <1>4, <1>5, <2>1, <3>1 DEF InFile
    <3> QED
      BY <3>2 DEF OnOS
  <2>2. CASE p.file_id # x
    BY <1>5, <2>2 DEF InFile, EntryIn, OnOS
  <2> QED
    BY <2>1, <2>2
<1>11. NothingLost /\ NothingNew(linked)
  BY <1>2, <1>10 DEF NothingLost, NothingNew, WasThere, OnOS
<1>12. ASSUME NEW k \in Keys, NEW p \in Location
       PROVE  /\ IsPlace(files', linked', history', k, p)
                    <=> IsPlace(files, linked, history, k, p)
              /\ IsPlace(files, linked, history, k, p) => EntryIn(files', p) = EntryIn(files, p)
              /\ OnOS(files, p) => OnOS(files', p)
  <2>1. InFile(files, p) => p.file_id # x
    BY <1>4 DEF InFile
  <2> QED
    BY <1>2, <1>10, <2>1 DEF IsPlace
<1> QED
  BY <1>1, <1>4, <1>5, <1>9, <1>11, <1>12

\* A place that holds the last write of its key is one the directory shows.
LEMMA LastIsShown ==
    ASSUME DiskInv, MonoInv, DiskSays, NEW k \in Keys, NEW loc \in Location \cup {None},
           Held(k, loc), VersionAt(loc) = LastOf(k, Len(history))
    PROVE  Shows(files, linked, history, k, loc)
<1>1. PICK old \in Location \cup {None} :
         /\ Held(k, old) /\ Shows(files, linked, history, k, old)
         /\ VersionAt(old) = LastOf(k, Len(history))
  BY DEF DiskSays
<1>2. FilesOK(files, Len(history)) /\ Len(history) \in Nat
  BY DEF DiskInv
<1>3. ASSUME NEW p, p # None, Held(k, p)
      PROVE  /\ IsPlace(files, linked, history, k, p) /\ p \in Location
             /\ EntryIn(files, p) \in 1..Len(history) /\ VersionAt(p) = EntryIn(files, p)
  <2>1. InFile(files, p) /\ p.file_id \in linked /\ history[EntryIn(files, p)].key = k
    BY <1>3 DEF Held, OnOS
  <2>2. EntryIn(files, p) \in 1..Len(history)
    BY <1>2, <2>1, PlaceHolds
  <2> QED
    BY <1>3, <2>1, <2>2 DEF IsPlace, InFile, VersionAt, EntryIn
<1>4. VersionAt(None) = 0
  BY DEF VersionAt
<1>5. loc = None <=> old = None
  BY <1>1, <1>2, <1>3, <1>4
<1>6. CASE loc = None
  BY <1>1, <1>5, <1>6
<1>7. CASE loc # None
  <2>1. /\ loc \in Location /\ old \in Location
        /\ IsPlace(files, linked, history, k, loc) /\ IsPlace(files, linked, history, k, old)
        /\ EntryIn(files, old) = EntryIn(files, loc) /\ EntryIn(files, loc) \in Nat
    BY <1>1, <1>3, <1>5, <1>7
  <2>2. ASSUME NEW p \in Location, IsPlace(files, linked, history, k, p), UpTo(loc, p)
        PROVE  EntryIn(files, p) = EntryIn(files, loc)
    <3>1. CASE UpTo(old, p)
      BY <1>1, <1>5, <1>7, <2>1, <2>2, <3>1 DEF Shows
    <3>2. CASE ~UpTo(old, p)
      <4>1. UpTo(p, old)
        BY <2>1, <3>2, UpToOrder
      <4>2. EntryIn(files, loc) <= EntryIn(files, p) /\ EntryIn(files, p) <= EntryIn(files, old)
        BY <2>1, <2>2, <4>1 DEF MonoInv
      <4>3. EntryIn(files, p) \in Nat
        BY <1>2, <2>2, PlaceHolds DEF IsPlace
      <4> QED
        BY <2>1, <4>2, <4>3
    <3> QED
      BY <3>1, <3>2
  <2> QED
    BY <1>7, <2>2 DEF Shows
<1> QED
  BY <1>6, <1>7

\* What `open` found when it has read every file.
LEMMA CreateFound ==
    ASSUME HInv, NEW s \in Sessions, step[s] = "create"
    PROVE  /\ ~InSession /\ CallsRest /\ DiskSays /\ lock = s /\ left[s] = {}
           /\ \A f \in DOMAIN files : f < next_id[s]
           /\ found[s] \in Keydirs /\ next_id[s] \in Nat
           /\ \A k \in Keys : /\ Held(k, found[s][k])
                              /\ VersionAt(found[s][k]) = LastOf(k, Len(history))
<1>1. HTypeOK /\ StepsOK /\ FoundOK(s) /\ ScanFor(s) /\ s \in Handles /\ Len(history) \in Nat
  BY HistoryKnown DEF HInv, Handles
<1>2. lock = s /\ left[s] = {}
  BY <1>1 DEF StepsOK, Opening
<1>3. ~InSession
  BY <1>2 DEF InSession
<1>4. CallsRest /\ DiskSays /\ OpeningInv
  BY <1>3 DEF HInv, RestInv
<1>5. s \notin Viewers
  BY HandlesAssumption
<1>6. PICK n \in Since(s)..Len(history) : ScanOK(s, n)
  BY <1>1, <1>2 DEF ScanFor
<1>7. n = Len(history)
  BY <1>1, <1>5, <1>6 DEF Since
<1>8. ASSUME NEW k \in Keys PROVE VersionAt(found[s][k]) = LastOf(k, Len(history))
  <2>1. ScansTo({}, found[s][k], k, Len(history))
    BY <1>2, <1>6, <1>7 DEF ScanOK
  <2> QED
    BY <2>1 DEF ScansTo, Anchor, IsPlace
<1>9. \A k \in Keys : Held(k, found[s][k])
  BY <1>1, <1>4 DEF FoundOK, OpeningInv, Held
<1> QED
  BY <1>1, <1>2, <1>3, <1>4, <1>8, <1>9 DEF HTypeOK, OpeningInv

\* The keydir `open` recovered is right for the session that begins.
LEMMA SessionBegins ==
    ASSUME DiskInv \/ Virgin, DiskSays, MonoInv, CallsRest, NEW x, Appears(x),
           NEW kd \in Keydirs, keydir' = kd, readers' = {},
           \A k \in Keys : Held(k, kd[k]) /\ VersionAt(kd[k]) = LastOf(k, Len(history))
    PROVE  SessionInv' /\ MonoInv'
<1>1. /\ DiskInv' /\ linked \subseteq DOMAIN files /\ NothingLost
      /\ DOMAIN files' = DOMAIN files \cup {x}
      /\ \A k \in Keys, p \in Location :
            /\ IsPlace(files', linked', history', k, p) <=> IsPlace(files, linked, history, k, p)
            /\ IsPlace(files, linked, history, k, p) => EntryIn(files', p) = EntryIn(files, p)
            /\ OnOS(files, p) => OnOS(files', p)
  BY AppearsPlaces
<1>2. /\ history' = history /\ UNCHANGED <<pc, arg, merging, at_risk, faults>>
      /\ linked' = linked \cup {x} /\ active_id' = x /\ x \in Nat
      /\ \A f \in DOMAIN files : f < x
  BY DEF Appears
<1>3. /\ \A t \in Threads : pc'[t] = "idle"
      /\ pc' \in [Threads -> PCs] /\ arg' \in [Threads -> Arg] /\ merging' \in [Threads -> MergeRec]
      /\ at_risk' = {} /\ faults' = 0 /\ Len(history') \in 0..MaxWrites
  BY <1>2 DEF CallsRest
<1>4. /\ \A t \in Threads : pc'[t] \notin MergePCs
      /\ \A t \in Threads : pc'[t] \notin WritePCs \cup {"delete"}
      /\ \A t \in Threads : pc'[t] \in {"idle", "read"}
  BY <1>3 DEF MergePCs, WritePCs
<1>5. ASSUME NEW k \in Keys, kd[k] # None
      PROVE  /\ kd[k] \in Location /\ OnOS(files', kd[k]) /\ kd[k].file_id \in linked
             /\ EntryIn(files', kd[k]) = EntryIn(files, kd[k])
             /\ history'[EntryIn(files', kd[k])] = [key |-> k, tomb |-> FALSE]
             /\ IsPlace(files, linked, history, k, kd[k])
  <2>1. /\ OnOS(files, kd[k]) /\ InFile(files, kd[k]) /\ kd[k].file_id \in linked
        /\ history[EntryIn(files, kd[k])] = [key |-> k, tomb |-> FALSE]
    BY <1>5 DEF Held, OnOS
  <2>2. kd[k] \in Location /\ IsPlace(files, linked, history, k, kd[k])
    BY <2>1 DEF InFile, IsPlace
  <2> QED
    BY <1>1, <1>2, <2>1, <2>2
<1>6. KeydirInv'
  BY <1>5 DEF KeydirInv
<1>7. ArgInv'
  BY <1>3, <1>4 DEF ArgInv
<1>8. MergesInv'
  BY <1>3, <1>4 DEF MergesInv
<1>9. HandleInv'
  BY DEF HandleInv, NoLeakedHandle
<1>10. OrderedInv'
  <2>1. AloneInv'
    BY <1>4 DEF AloneInv
  <2>2. PlacesInv'
    BY <1>4 DEF PlacesInv
  <2>3. OrderInv'
    <3>1. \A f \in linked' : f <= active_id'
      <4>1. DOMAIN files' \subseteq Nat
        BY <1>1 DEF DiskInv, FilesOK
      <4> QED
        BY <1>1, <1>2, <4>1
    <3> QED
      BY <3>1 DEF OrderInv
  <2>4. faults' \in Nat
    BY <1>3
  <2> QED
    BY <1>1, <1>6, <1>7, <1>8, <1>9, <2>1, <2>2, <2>3, <2>4 DEF OrderedInv, IInv
<1>11. CopyInv'
  BY <1>4 DEF CopyInv
<1>12. RiskInv'
  <2>1. DanglingWasInFlight'
    BY <1>2, <1>5 DEF DanglingWasInFlight
  <2>2. WriteAtRisk'
    BY <1>4 DEF WriteAtRisk
  <2>3. PassedInv'
    BY <1>4 DEF PassedInv
  <2> QED
    BY <2>1, <2>2, <2>3 DEF RiskInv
<1>13. BusyInv'
  BY <1>3, <1>4 DEF BusyInv
<1>14. OldestInv'
  BY <1>4 DEF OldestInv
<1>15. ASSUME NEW k \in Keys, NEW loc \in Location \cup {None}, Says(k, loc)'
       PROVE  loc = kd[k]
  BY <1>4, <1>15 DEF Says
<1>16. NewestInv'
  <2> SUFFICES ASSUME NEW k \in Keys PROVE Shows(files', linked', history', k, kd[k])
    BY <1>15 DEF NewestInv
  <2>1. Shows(files, linked, history, k, kd[k])
    <3>1. CASE DiskInv
      <4>1. kd[k] \in Location \cup {None}
        BY DEF Keydirs
      <4> QED
        BY <3>1, <4>1, LastIsShown
    <3>2. CASE Virgin
      BY <3>2 DEF Virgin, Shows, IsPlace
    <3> QED
      BY <3>1, <3>2
  <2>2. CASE kd[k] = None
    <3>1. ASSUME NEW p \in Location, IsPlace(files', linked', history', k, p)
          PROVE  \E q \in Location : UpTo(p, q) /\ IsGrave(files', linked', history', k, q)
      <4>1. PICK q \in Location : UpTo(p, q) /\ IsGrave(files, linked, history, k, q)
        BY <1>1, <2>1, <2>2, <3>1 DEF Shows
      <4>2. IsGrave(files', linked', history', k, q)
        BY <1>1, <1>2, <4>1 DEF IsGrave
      <4> QED
        BY <4>1, <4>2
    <3> QED
      BY <2>2, <3>1 DEF Shows
  <2>3. CASE kd[k] # None
    <3>1. ASSUME NEW p \in Location, IsPlace(files', linked', history', k, p), UpTo(kd[k], p)
          PROVE  EntryIn(files', p) = EntryIn(files', kd[k])
      <4>1. IsPlace(files, linked, history, k, p) /\ EntryIn(files', p) = EntryIn(files, p)
        BY <1>1, <3>1
      <4>2. EntryIn(files, p) = EntryIn(files, kd[k])
        BY <2>1, <2>3, <3>1, <4>1 DEF Shows
      <4> QED
        BY <1>5, <2>3, <4>1, <4>2
    <3> QED
      BY <2>3, <3>1 DEF Shows
  <2> QED
    BY <2>2, <2>3
<1>17. LastInv'
  <2> SUFFICES ASSUME NEW k \in Keys PROVE VersionAt(kd[k])' = LastOf(k, Len(history))'
    BY <1>15 DEF LastInv
  <2>1. PICK loc : loc = kd[k]
    OBVIOUS
  <2>2. loc # None => OnOS(files, loc)
    BY <2>1 DEF Held
  <2>3. VersionAt(loc)' = VersionAt(loc)
    BY <1>1, <2>2, VersionStays
  <2>4. LastOf(k, Len(history))' = LastOf(k, Len(history))
    BY <1>2 DEF LastOf
  <2> QED
    BY <2>1, <2>3, <2>4
<1>18. MonoInv'
  BY <1>1 DEF MonoInv
<1> QED
  BY <1>10, <1>11, <1>12, <1>13, <1>14, <1>16, <1>17, <1>18
     DEF SessionInv, OneWriteInv, SerialInv

\* ActiveFile::create keeps the invariant: the session begins.
LEMMA CreateAndServeKeeps ==
    ASSUME SerialUse, HInv, NEW h \in Handles, CreateAndServe(h)
    PROVE  HInv'
<1>1. /\ HTypeOK /\ StepsOK /\ MonoInv /\ WrittenInv /\ (DiskInv \/ Virgin)
      /\ history \in Seq(Write)
  BY HistoryKnown DEF HInv
<1>2. /\ step[h] = "create" /\ keydir' = found[h] /\ readers' = {}
      /\ found' = [found EXCEPT ![h] = EmptyKeydir]
      /\ UNCHANGED <<history, pc, arg, faults, crashes, mergeVars, lock, left, next_id, during, clean>>
  BY DEF CreateAndServe
<1>3. h \in Sessions
  BY <1>1, <1>2 DEF StepsOK, Handles
<1>4. PICK s \in Sessions : s = h
  BY <1>3
<1>5. /\ ~InSession /\ CallsRest /\ DiskSays /\ lock = s /\ left[s] = {}
      /\ \A f \in DOMAIN files : f < next_id[s]
      /\ found[s] \in Keydirs /\ next_id[s] \in Nat
      /\ \A k \in Keys : /\ Held(k, found[s][k])
                         /\ VersionAt(found[s][k]) = LastOf(k, Len(history))
  BY <1>2, <1>4, CreateFound
<1>6. PICK x : x = next_id[s]
  OBVIOUS
<1>7. Appears(x)
  BY <1>2, <1>4, <1>5, <1>6 DEF CreateAndServe, Appears, mergeVars
<1>8. SessionInv' /\ MonoInv'
  <2>1. PICK kd : kd = found[s]
    OBVIOUS
  <2>2. kd \in Keydirs /\ keydir' = kd
        /\ \A k \in Keys : Held(k, kd[k]) /\ VersionAt(kd[k]) = LastOf(k, Len(history))
    BY <1>2, <1>4, <1>5, <2>1
  <2> QED
    BY <1>1, <1>2, <1>5, <1>7, <2>2, SessionBegins
<1>9. /\ x \notin DOMAIN files /\ linked \subseteq DOMAIN files
      /\ DOMAIN files' = DOMAIN files \cup {x} /\ files'[x] = EmptyFile
      /\ \A g \in DOMAIN files : files'[g] = files[g]
      /\ NothingLost /\ NothingNew(linked)
  BY <1>1, <1>7, AppearsPlaces
<1>10. linked' = linked \cup {x} /\ active_id' = x
  BY <1>7 DEF Appears
<1>11. StepAfter(h, step[h]) = "open"
  BY <1>2, <1>3, NextStep
<1>12. step' = [step EXCEPT ![s] = "open"]
  BY <1>4, <1>11 DEF CreateAndServe, Advance
<1>13. s \in Handles /\ s \notin Viewers /\ s # None
  BY HandlesAssumption DEF Handles
<1>14. EmptyKeydir \in Keydirs
  BY DEF EmptyKeydir, Keydirs
<1>15. /\ step' \in [Handles -> HSteps] /\ step'[s] = "open"
       /\ found' \in [Handles -> Keydirs] /\ found'[s] = EmptyKeydir
       /\ \A g \in Handles \ {s} : step'[g] = step[g] /\ found'[g] = found[g]
  BY <1>1, <1>2, <1>4, <1>12, <1>13, <1>14 DEF HTypeOK, HSteps
<1>16. HTypeOK'
  <2>1. left' \in [Handles -> SUBSET DOMAIN files']
    BY <1>1, <1>2, <1>9 DEF HTypeOK
  <2> QED
    BY <1>1, <1>2, <1>15, <2>1 DEF HTypeOK
<1>17. StepsOK'
  <2>1. ASSUME NEW u \in Sessions PROVE step'[u] \in Opening \cup {"open"} <=> lock' = u
    <3>1. u \in Handles /\ (step[u] \in Opening \cup {"open"} <=> lock = u)
      BY <1>1 DEF StepsOK, Handles
    <3> QED
      BY <1>2, <1>5, <1>15, <3>1
  <2>2. \A v \in Viewers : step'[v] \notin {"lock", "create"}
    BY <1>1, <1>13, <1>15 DEF StepsOK, Handles
  <2>3. \A g \in Handles : step'[g] = "create" => left'[g] = {}
    BY <1>1, <1>2, <1>15 DEF StepsOK
  <2>4. \A g \in Handles : step'[g] \in {"lock", "discover"} => found'[g] = EmptyKeydir
    BY <1>1, <1>15 DEF StepsOK
  <2> QED
    BY <2>1, <2>2, <2>3, <2>4 DEF StepsOK
<1>18. InSession'
  BY <1>2, <1>5, <1>13, <1>15 DEF InSession
<1>19. WrittenInv'
  <2> SUFFICES ASSUME NEW g \in linked'
               PROVE  FlushedIn(files', g) /\ (clean' => SyncedIn(files', g))
    BY DEF WrittenInv
  <2>1. CASE g = x
    <3>1. EmptyFile.entries = <<>> /\ Len(<<>>) = 0 /\ EmptyFile.flushed = 0 /\ EmptyFile.synced = 0
      BY DEF EmptyFile
    <3> QED
      BY <1>9, <2>1, <3>1 DEF FlushedIn, SyncedIn
  <2>2. CASE g \in linked
    <3>1. \A t \in Threads : pc[t] \notin CopyingPCs
      BY <1>5 DEF CallsRest, CopyingPCs
    <3>2. FlushedIn(files, g) /\ (clean => SyncedIn(files, g))
      BY <1>1, <1>5, <2>2, <3>1 DEF WrittenInv
    <3>3. files'[g] = files[g] /\ clean' = clean
      BY <1>2, <1>9, <2>2
    <3> QED
      BY <3>2, <3>3 DEF FlushedIn, SyncedIn
  <2> QED
    BY <1>10, <2>1, <2>2
<1>20. OldStaysOld
  <2>1. UNCHANGED <<pc, merging>>
    BY <1>2 DEF mergeVars
  <2>2. linked' \cap DOMAIN files \subseteq linked /\ active_id' \notin DOMAIN files
    BY <1>9, <1>10
  <2> QED
    BY <2>1, <2>2 DEF OldStaysOld, CopiesInto
<1>21. ASSUME NEW g \in Handles PROVE FoundOK(g)' /\ ScanFor(g)' /\ ViewFor(g)'
  <2>1. CASE g = s
    <3>1. FoundOK(s)'
      BY <1>15 DEF FoundOK, EmptyKeydir
    <3> QED
      BY <1>13, <1>15, <2>1, <3>1 DEF ScanFor, ViewFor
  <2>2. CASE g # s
    <3>1. Waits(g) /\ FoundOK(g) /\ ScanFor(g) /\ ViewFor(g)
      BY <1>2, <1>15, <2>2 DEF Waits, HInv
    <3> QED
      BY <1>1, <1>2, <1>9, <1>20, <3>1, HandleWaits
  <2> QED
    BY <2>1, <2>2
<1> QED
  BY <1>8, <1>16, <1>17, <1>18, <1>19, <1>21 DEF HInv

-----------------------------------------------------------------------------
(* The invariant of sessions and handles.                                    *)

\* The invariant holds in an empty directory.
LEMMA HandlesInit ==
    ASSUME SerialUse, HInit
    PROVE  HInv
<1>1. /\ history = <<>> /\ DOMAIN files = {} /\ linked = {}
      /\ pc = [t \in Threads |-> "idle"] /\ arg = [t \in Threads |-> NoArg]
      /\ merging = [t \in Threads |-> NoMerge] /\ at_risk = {} /\ faults = 0 /\ crashes = 0
      /\ lock = None /\ step = [h \in Handles |-> OpenOrder(h)[1]]
      /\ left = [h \in Handles |-> {}] /\ found = [h \in Handles |-> EmptyKeydir]
      /\ next_id = [h \in Handles |-> 0] /\ during = [v \in Viewers |-> [from |-> 0, to |-> 0]]
  BY DEF HInit
<1>2. \A h \in Handles : step[h] = IF h \in Sessions THEN "lock" ELSE "discover"
  BY <1>1 DEF OpenOrder
<1>3. HTypeOK
  <2>1. step \in [Handles -> HSteps]
    BY <1>1, <1>2 DEF HSteps, Opening
  <2>2. EmptyKeydir \in Keydirs
    BY DEF EmptyKeydir, Keydirs
  <2>3. /\ left \in [Handles -> SUBSET DOMAIN files] /\ found \in [Handles -> Keydirs]
        /\ next_id \in [Handles -> Nat] /\ during \in [Viewers -> [from : Nat, to : Nat]]
    BY <1>1, <2>2
  <2> QED
    BY <1>1, <2>1, <2>3 DEF HTypeOK
<1>4. StepsOK
  BY <1>1, <1>2, HandlesAssumption DEF StepsOK, Opening, Handles
<1>5. MonoInv /\ WrittenInv
  BY <1>1 DEF MonoInv, IsPlace, WrittenInv
<1>6. ASSUME NEW h \in Handles PROVE FoundOK(h) /\ ScanFor(h) /\ ViewFor(h)
  <2>1. FoundOK(h)
    BY <1>1 DEF FoundOK, EmptyKeydir
  <2> QED
    BY <1>2, <2>1 DEF ScanFor, ViewFor
<1>7. ~InSession
  BY <1>1 DEF InSession
<1>8. CallsRest
  <2>1. NoArg \in Arg /\ NoMerge \in MergeRec /\ "idle" \in PCs
    BY NoMergeType DEF NoArg, Arg, PCs
  <2>2. Len(history) \in 0..MaxWrites
    <3>1. Len(<<>>) = 0 /\ MaxWrites \in Nat
      BY StoreAssumption
    <3> QED
      BY <1>1, <3>1
  <2> QED
    BY <1>1, <2>1, <2>2 DEF CallsRest
<1>9. Virgin
  BY <1>1 DEF Virgin
<1>10. DiskSays
  <2>1. ASSUME NEW k \in Keys
        PROVE  /\ Held(k, None) /\ Shows(files, linked, history, k, None)
               /\ VersionAt(None) = LastOf(k, Len(history))
    <3>1. LastOf(k, Len(history)) = 0
      BY <1>1 DEF LastOf
    <3> QED
      BY <1>1, <3>1 DEF Held, Shows, IsPlace, VersionAt
  <2> QED
    BY <2>1 DEF DiskSays
<1>11. OpeningInv
  BY <1>2 DEF OpeningInv, Handles
<1> QED
  BY <1>3, <1>4, <1>5, <1>6, <1>7, <1>8, <1>9, <1>10, <1>11 DEF HInv, RestInv

\* Every step keeps it.
LEMMA HandlesNext ==
    ASSUME SerialUse, HInv, [HNext]_hVars
    PROVE  HInv'
<1>1. CASE UNCHANGED hVars
  <2>1. UNCHANGED <<allVars, lock, step, left, found, next_id, during, clean>>
    BY <1>1 DEF hVars, handleVars
  <2> QED
    BY <2>1, ViewKeeps
<1>2. ASSUME NEW h \in Handles,
             AcquireLock(h) \/ Discover(h) \/ RecoverNext(h) \/ Recovered(h) \/ CreateAndServe(h)
      PROVE  HInv'
  BY <1>2, AcquireKeeps, DiscoverKeeps, RecoverNextKeeps, RecoveredKeeps, CreateAndServeKeeps
<1>3. ASSUME NEW h \in Handles, NEW k \in Keys, View(h, k) PROVE HInv'
  <2>1. UNCHANGED <<allVars, lock, step, left, found, next_id, during, clean>>
    BY <1>3 DEF View
  <2> QED
    BY <2>1, ViewKeeps
<1>4. CASE SessionStep
  BY <1>4, SessionStepKeeps
<1>5. CASE Close \/ Drop \/ Kill
  BY <1>5, CloseKeeps, DropKeeps, KillKeeps
<1> QED
  BY <1>1, <1>2, <1>3, <1>4, <1>5 DEF HNext

\* It always holds.
LEMMA HandlesInductive ==
    ASSUME SerialUse
    PROVE  HSpec => []HInv
<1>1. HInit => HInv
  BY HandlesInit
<1>2. HInv /\ [HNext]_hVars => HInv'
  BY HandlesNext
<1> QED
  BY <1>1, <1>2, PTL DEF HSpec

\* It says that a session sees the last write of every key,
LEMMA SeesAll ==
    ASSUME HInv
    PROVE  SessionSeesAll
<1> SUFFICES ASSUME InSession, Resting, NEW k \in Keys
             PROVE  Visible(k) = LastOf(k, Len(history))
  BY DEF SessionSeesAll
<1>1. LastInv /\ keydir \in Keydirs
  BY DEF HInv, SessionInv, OneWriteInv, SerialInv, OrderedInv, IInv, KeydirInv
<1>2. keydir[k] \in Location \cup {None}
  BY <1>1 DEF Keydirs
<1>3. Says(k, keydir[k])
  BY DEF Says, Resting, WritePCs
<1> QED
  BY <1>1, <1>2, <1>3 DEF LastInv, Visible

\* that a read-only handle shows one moment,
LEMMA ViewConsistent ==
    ASSUME HInv
    PROVE  SnapshotIsConsistent
BY DEF HInv, ViewFor, SnapshotIsConsistent, Handles

\* and that what was closed is on the medium.
LEMMA ClosedDurable ==
    ASSUME HInv
    PROVE  ClosedIsDurable
<1> SUFFICES ASSUME lock = None, clean, NEW n \in KeptAfter("power"), NEW k \in Keys
             PROVE  RecoveredVersion(n, k) = LastOf(k, Len(history))
  BY DEF ClosedIsDurable
<1>1. ~InSession /\ WrittenInv /\ CallsRest /\ DiskSays /\ (DiskInv \/ Virgin)
  BY DEF HInv, RestInv, InSession
<1>2. CASE DiskInv
  <2>1. PICK loc \in Location \cup {None} :
           /\ Held(k, loc) /\ Shows(files, linked, history, k, loc)
           /\ VersionAt(loc) = LastOf(k, Len(history))
    BY <1>1 DEF DiskSays
  <2>2. IsCut(n) /\ \A f \in linked : files[f].synced <= n[f]
    BY <1>2, KeptIsCut DEF CrashKinds
  <2>3. \A f \in linked : files[f].flushed <= n[f]
    <3>1. \A t \in Threads : pc[t] \notin CopyingPCs
      BY <1>1 DEF CallsRest, CopyingPCs
    <3>2. \A f \in linked : files[f].flushed = files[f].synced
      BY <1>1, <3>1 DEF WrittenInv, FlushedIn, SyncedIn
    <3> QED
      BY <2>2, <3>2
  <2> QED
    BY <1>2, <2>1, <2>2, <2>3, RecoversWhatItShows
<1>3. CASE Virgin
  <2>1. linked = {} /\ history = <<>>
    BY <1>3 DEF Virgin
  <2>2. DOMAIN n = {}
    BY <2>1 DEF KeptAfter
  <2>3. DOMAIN Disk(n) = {}
    BY <2>2 DEF Disk
  <2>4. IsDisk(Disk(n)) /\ FilesOn(Disk(n), k) = {}
    BY <2>3, FS_EmptySet DEF IsDisk, FilesOn
  <2>5. Recover(Disk(n))[k] = None
    BY <2>4, RecoverComputes
  <2>6. RecoveredVersion(n, k) = 0
    BY <2>5 DEF RecoveredVersion, VersionAt
  <2>7. LastOf(k, Len(history)) = 0
    BY <2>1 DEF LastOf
  <2> QED
    BY <2>6, <2>7
<1> QED
  BY <1>1, <1>2, <1>3

\* A session of a directory that was used serially, and whose sessions ended in `close`, in a
\* drop or in a kill anywhere, in `open` too, sees the last write of every key whenever no
\* call is in it: open's recovery, the lock that keeps a second session out, and what put,
\* delete and merge leave in the files fit together (Engine::open, DirLock::acquire).
THEOREM SessionsSeeAll ==
    ASSUME SerialUse
    PROVE  HSpec => []SessionSeesAll
<1>1. HInv => SessionSeesAll
  BY SeesAll
<1>2. HSpec => []HInv
  BY HandlesInductive
<1> QED
  BY <1>1, <1>2, PTL

\* A read-only handle that `open` gave shows the store as it was at one moment of that `open`,
\* for all keys the same one, whatever puts, deletes, merges, ends and beginnings of sessions
\* came between the files it read: files are read in ascending order, what a merge copies moves
\* up, and a reader that comes too late finds a file gone and fails (recovery.rs, merge/mod.rs).
THEOREM SnapshotsConsistent ==
    ASSUME SerialUse
    PROVE  HSpec => []SnapshotIsConsistent
<1>1. HInv => SnapshotIsConsistent
  BY ViewConsistent
<1>2. HSpec => []HInv
  BY HandlesInductive
<1> QED
  BY <1>1, <1>2, PTL

\* When every session so far ended in `close`, a machine that loses power finds every write
\* at the next `open`: what close does not sync, rotation, merge and the last close did
\* (Engine::close, ActiveFile::sync).
THEOREM ClosingIsDurable ==
    ASSUME SerialUse
    PROVE  HSpec => []ClosedIsDurable
<1>1. HInv => ClosedIsDurable
  BY ClosedDurable
<1>2. HSpec => []HInv
  BY HandlesInductive
<1> QED
  BY <1>1, <1>2, PTL
===============================================================================
