--------------------------- MODULE DiskImagesProofs ---------------------------
(* Proofs about DiskImages: whatever put, rotation and merge wrote, and      *)
(* whatever a crash or bit rot did to it, recovery finds the last write of   *)
(* every key, and hints change nothing.  Any number of keys, files, entries  *)
(* and damages.                                                              *)
EXTENDS DiskImages, RecoveryProofs

-----------------------------------------------------------------------------
(* The type invariant is inductive: what the damage may do to a hint is to   *)
(* break it, and what it may do to the data beneath a hint is to shorten it. *)

\* The newest file is the last of the directory.
LEMMA NewestIsLast ==
    ASSUME TypeOK
    PROVE  Newest \in Nat /\ Newest \in DOMAIN disk
<1>1. IsFiniteSet(DOMAIN disk) /\ DOMAIN disk # {} /\ DOMAIN disk \subseteq Nat
  BY DEF TypeOK
<1>2. Max(DOMAIN disk) \in DOMAIN disk
  BY <1>1, MaxIsGreatest
<1> QED
  BY <1>1, <1>2 DEF Newest

\* A file starts empty and well formed.
LEMMA EmptyIsOK == FileOK(EmptyData)
BY DiskAssumption DEF FileOK, File, EmptyData

\* So does the directory.
LEMMA InvInit == Init => TypeOK
<1> SUFFICES ASSUME Init PROVE TypeOK
  OBVIOUS
<1>1. DOMAIN disk = {0} /\ \A f \in DOMAIN disk : disk[f] = EmptyData
  BY DEF Init
<1>2. IsFiniteSet({0})
  BY FS_Singleton
<1> QED
  BY <1>1, <1>2, EmptyIsOK, DiskAssumption DEF TypeOK, Init

\* A step that changes one file, and keeps that well formed, keeps the disk well formed.
LEMMA OneFileChanges ==
    ASSUME TypeOK, NEW f \in DOMAIN disk,
           DOMAIN disk' = DOMAIN disk, \A g \in DOMAIN disk \ {f} : disk'[g] = disk[g],
           FileOK(disk'[f]), damage' \in 0..MaxDamage
    PROVE  TypeOK'
<1>1. \A g \in DOMAIN disk' : FileOK(disk'[g])
  BY DEF TypeOK
<1> QED
  BY <1>1 DEF TypeOK

\* Every action keeps the invariant.
LEMMA InvNext == TypeOK /\ [Next]_<<disk, damage>> => TypeOK'
<1> SUFFICES ASSUME TypeOK, [Next]_<<disk, damage>> PROVE TypeOK'
  OBVIOUS
<1>0. /\ Newest \in Nat /\ Newest \in DOMAIN disk
      /\ IsFiniteSet(DOMAIN disk) /\ DOMAIN disk # {} /\ DOMAIN disk \subseteq Nat
      /\ damage \in 0..MaxDamage /\ \A f \in DOMAIN disk : FileOK(disk[f])
  BY NewestIsLast DEF TypeOK
<1>1. ASSUME NEW k \in Keys, NEW tomb \in BOOLEAN, AppendEntry(k, tomb)
      PROVE  TypeOK'
  <2> DEFINE d == disk[Newest]
             d2 == disk'[Newest]
  <2>1. /\ d \in File /\ Len(d.entries) < MaxEntries /\ d.hint = None
        /\ d.bad \subseteq DOMAIN d.entries
    BY <1>0, <1>1 DEF AppendEntry, FileOK
  <2>2. d2 = [d EXCEPT !.entries = Append(@, [key |-> k, tomb |-> tomb])]
    BY <1>0, <1>1 DEF AppendEntry
  <2>3. FileOK(d2)
    <3>1. [key |-> k, tomb |-> tomb] \in Entry
      BY DEF Entry
    <3> HIDE DEF d, d2
    <3>2. /\ d2.entries = Append(d.entries, [key |-> k, tomb |-> tomb])
          /\ d2.bad = d.bad /\ d2.hint = None /\ d2 \in File
      <4> DEFINE e2 == Append(d.entries, [key |-> k, tomb |-> tomb])
      <4>1. e2 \in Seq(Entry)
        BY <2>1, <3>1 DEF File
      <4>2. d2 = [d EXCEPT !.entries = e2]
        BY <2>2
      <4> HIDE DEF e2
      <4>3. d2.entries = e2 /\ d2.bad = d.bad /\ d2.hint = None /\ d2 \in File
        BY <2>1, <4>1, <4>2 DEF File
      <4> QED
        BY <4>3 DEF e2
    <3>3. Len(d2.entries) = Len(d.entries) + 1 /\ DOMAIN d.entries \subseteq DOMAIN d2.entries
      BY <2>1, <3>1, <3>2 DEF File
    <3>4. Len(d.entries) \in Nat
      BY <2>1 DEF File
    <3> QED
      BY <2>1, <3>2, <3>3, <3>4, DiskAssumption DEF FileOK
  <2> QED
    BY <1>0, <1>1, <2>3, OneFileChanges DEF AppendEntry
<1>2. CASE NewFile
  <2>1. DOMAIN disk' = DOMAIN disk \cup {Newest + 1}
    BY <1>2 DEF NewFile
  <2>2. \A f \in DOMAIN disk' : disk'[f] = IF f \in DOMAIN disk THEN disk[f] ELSE EmptyData
    BY <1>2 DEF NewFile
  <2>3. IsFiniteSet(DOMAIN disk')
    BY <1>0, <2>1, FS_AddElement
  <2> QED
    BY <1>0, <1>2, <2>1, <2>2, <2>3, EmptyIsOK DEF TypeOK, NewFile
<1>3. CASE CloseHint
  <2> DEFINE d == disk[Newest]
             d2 == disk'[Newest]
             h == HintFor(d)
  <2>1. d \in File /\ FileOK(d) /\ \A i \in DOMAIN d.entries : ~d.entries[i].tomb
    BY <1>0, <1>3 DEF FileOK, CloseHint
  <2>2. d2 = [d EXCEPT !.hint = h]
    BY <1>0, <1>3 DEF CloseHint
  <2>3. FileOK(d2)
    <3>1. /\ h.records = [i \in DOMAIN d.entries |->
                            [key |-> d.entries[i].key, tomb |-> FALSE, value_pos |-> i]]
          /\ h.records \in Seq(Record) => h \in [records : Seq(Record), intact : BOOLEAN]
      BY DEF HintFor
    <3> HIDE DEF d, d2, h
    <3>2. d.entries \in Seq(Entry) /\ DOMAIN d.entries = 1..Len(d.entries)
          /\ Len(d.entries) \in Nat
      BY <2>1 DEF File
    <3>3. \A i \in DOMAIN d.entries :
             [key |-> d.entries[i].key, tomb |-> FALSE, value_pos |-> i] \in Record
      <4> SUFFICES ASSUME NEW i \in DOMAIN d.entries
                   PROVE  [key |-> d.entries[i].key, tomb |-> FALSE, value_pos |-> i] \in Record
        OBVIOUS
      <4>1. d.entries[i] \in Entry /\ i \in Nat \ {0}
        BY <3>2
      <4> QED
        BY <4>1 DEF Record, Entry
    <3>4. h.records \in Seq(Record) /\ Len(h.records) = Len(d.entries)
          /\ DOMAIN h.records = DOMAIN d.entries
      BY <3>1, <3>2, <3>3
    <3>5. Vouches(h, d.entries)
      BY <2>1, <3>1, <3>2, <3>4 DEF Vouches
    <3>6. d2.hint = h /\ d2.entries = d.entries /\ d2.bad = d.bad /\ d2 \in File
      BY <2>1, <2>2, <3>1, <3>4 DEF File
    <3> QED
      BY <2>1, <3>5, <3>6 DEF FileOK
  <2> QED
    BY <1>0, <1>3, <2>3, OneFileChanges DEF CloseHint
<1>4. ASSUME NEW f \in DOMAIN disk, BreakHint(f)
      PROVE  TypeOK'
  <2> PICK n \in 0..Len(disk[f].hint.records), intact \in BOOLEAN :
              /\ intact => ZeroStamps /\ n = 0
              /\ disk' = [disk EXCEPT ![f].hint = [records |-> SubSeq(@.records, 1, n),
                                                   intact  |-> intact]]
    BY <1>4 DEF BreakHint
  <2> DEFINE d == disk[f]
             d2 == disk'[f]
             h == [records |-> SubSeq(d.hint.records, 1, n), intact |-> intact]
  <2>1. d \in File /\ FileOK(d) /\ d.hint # None
    BY <1>0, <1>4 DEF FileOK, BreakHint
  <2>2. d2 = [d EXCEPT !.hint = h]
    OBVIOUS
  <2>3. FileOK(d2)
    <3>1. d.hint.records \in Seq(Record) /\ n \in 0..Len(d.hint.records)
      BY <2>1 DEF File
    <3> HIDE DEF d, d2
    <3>2. /\ h \in [records : Seq(Record), intact : BOOLEAN]
          /\ h.intact => ZeroStamps /\ h.records = <<>>
      <4>1. SubSeq(d.hint.records, 1, n) \in Seq(Record)
        BY <3>1
      <4>2. n = 0 => SubSeq(d.hint.records, 1, n) = <<>>
        BY <3>1
      <4> QED
        BY <4>1, <4>2
    <3> HIDE DEF h
    <3>3. d2.hint = h /\ d2.entries = d.entries /\ d2.bad = d.bad /\ d2 \in File
      BY <2>1, <2>2, <3>2 DEF File
    <3> QED
      BY <2>1, <3>2, <3>3 DEF FileOK
  <2>4. damage' \in 0..MaxDamage
    BY <1>0, <1>4, DiskAssumption DEF BreakHint, Damage
  <2> QED
    BY <2>3, <2>4, OneFileChanges
<1>5. ASSUME NEW f \in DOMAIN disk, TearTail(f)
      PROVE  TypeOK'
  <2> DEFINE d == disk[f]
             d2 == disk'[f]
             e == d.entries
  <2>1. d \in File /\ FileOK(d) /\ e # <<>>
    BY <1>0, <1>5 DEF FileOK, TearTail
  <2>2. /\ DOMAIN disk' = DOMAIN disk
        /\ \A g \in DOMAIN disk \ {f} : disk'[g] = disk[g]
        /\ d2 = [d EXCEPT !.entries = Front(e), !.bad = @ \ {Len(e)}]
    BY <1>5, <2>1 DEF TearTail, File
  <2>3. FileOK(d2)
    <3> HIDE DEF d, d2
    <3>1. e \in Seq(Entry) /\ Len(e) \in Nat \ {0} /\ DOMAIN e = 1..Len(e)
          /\ Len(e) <= MaxEntries
      BY <2>1 DEF File, FileOK
    <3>2. /\ Front(e) \in Seq(Entry)
          /\ Len(Front(e)) = Len(e) - 1
          /\ DOMAIN Front(e) = 1..Len(e) - 1
          /\ \A i \in 1..Len(e) - 1 : Front(e)[i] = e[i]
      BY <3>1 DEF Front
    <3>3. /\ d2.hint = d.hint /\ d2.entries = Front(e)
          /\ d2.bad = d.bad \ {Len(e)}
          /\ d2 \in File
      BY <2>1, <2>2, <3>2 DEF File
    <3>4. d2.bad \subseteq DOMAIN d2.entries
      BY <2>1, <3>1, <3>2, <3>3 DEF FileOK
    <3>5. Len(d2.entries) <= MaxEntries
      BY <3>1, <3>2, <3>3, DiskAssumption
    <3>6. ASSUME d.hint # None, d.hint.intact, ~(ZeroStamps /\ d.hint.records = <<>>)
          PROVE  Vouches(d.hint, Front(e))
      <4>1. Vouches(d.hint, e) /\ Len(d.hint.records) \in Nat
        BY <2>1, <3>6 DEF FileOK, File
      <4> HIDE DEF e
      <4> QED
        BY <3>1, <3>2, <4>1 DEF Vouches
    <3> QED
      BY <2>1, <3>3, <3>4, <3>5, <3>6 DEF FileOK
  <2>4. damage' \in 0..MaxDamage
    BY <1>0, <1>5, DiskAssumption DEF TearTail, Damage
  <2> QED
    BY <2>2, <2>3, <2>4, OneFileChanges
<1>6. ASSUME NEW f \in DOMAIN disk, NEW i \in DOMAIN disk[f].entries, Rot(f, i)
      PROVE  TypeOK'
  <2> DEFINE d == disk[f]
             d2 == disk'[f]
  <2>1. d \in File /\ FileOK(d) /\ i \in Nat
    BY <1>0 DEF FileOK, File
  <2>2. d2 = [d EXCEPT !.bad = @ \cup {i}]
    BY <1>6 DEF Rot
  <2>3. FileOK(d2)
    <3>1. i \in DOMAIN d.entries
      OBVIOUS
    <3> HIDE DEF d, d2
    <3>2. d2.hint = d.hint /\ d2.entries = d.entries /\ d2.bad = d.bad \cup {i} /\ d2 \in File
      BY <2>1, <2>2 DEF File
    <3> QED
      BY <2>1, <3>1, <3>2 DEF FileOK
  <2>4. damage' \in 0..MaxDamage
    BY <1>0, <1>6, DiskAssumption DEF Rot, Damage
  <2> QED
    BY <1>6, <2>3, <2>4, OneFileChanges DEF Rot
<1>7. ASSUME NEW f \in DOMAIN disk, RemoveFile(f)
      PROVE  TypeOK'
  <2>1. /\ DOMAIN disk' = DOMAIN disk \ {f} /\ damage' = damage
        /\ \A g \in DOMAIN disk' : disk'[g] = disk[g]
    BY <1>7 DEF RemoveFile
  <2>2. Newest \in DOMAIN disk'
    BY <1>0, <1>7, <2>1 DEF RemoveFile
  <2>3. IsFiniteSet(DOMAIN disk')
    BY <1>0, <2>1, FS_Subset
  <2> QED
    BY <1>0, <2>1, <2>2, <2>3 DEF TypeOK
<1>8. CASE UNCHANGED <<disk, damage>>
  BY <1>8 DEF TypeOK
<1> QED
  BY <1>1, <1>2, <1>3, <1>4, <1>5, <1>6, <1>7, <1>8 DEF Next

\* In every reachable state the disk is well formed: its ids are finitely many, and a hint whose
\* CRC matches vouches for every entry that its data file still has, in its place
\* (output_writer.rs), unless a first timestamp of 0 made an empty one of it.
THEOREM DiskTypeCorrect == Spec => []TypeOK
  BY InvInit, InvNext, PTL DEF Spec

-----------------------------------------------------------------------------
(* The last write wins.                                                      *)

\* A sequence is one over its own elements.
LEMMA SeqOverRange ==
    ASSUME NEW X, NEW seq \in Seq(X)
    PROVE  seq \in Seq(Range(seq))
BY DEF Range

\* The places of k in one file that count.
Counting(d, k) ==
    {i \in DOMAIN d.entries : d.entries[i].key = k /\ (HintIsUsable(d) \/ i \notin d.bad)}

\* What the last of them leaves of k.
LastCounting(f, d, k) ==
    IF d.entries[Max(Counting(d, k))].tomb THEN None
    ELSE [file_id |-> f, value_pos |-> Max(Counting(d, k))]

\* A usable hint lists exactly the entries of its file, so that a file says the same of a
\* key with it as a scan that trusts every entry.
LEMMA WordIsLastCounting ==
    ASSUME ~ZeroStamps, NEW d, FileOK(d), NEW f, NEW k
    PROVE  /\ IsData(d)
           /\ HasWord(d, k) <=> Counting(d, k) # {}
           /\ Counting(d, k) # {} =>
                 /\ Max(Counting(d, k)) \in Counting(d, k)
                 /\ \A i \in Counting(d, k) : i <= Max(Counting(d, k))
                 /\ WordOn(f, d, k) = LastCounting(f, d, k)
<1>1. d.entries \in Seq(Entry) /\ DOMAIN d.entries = 1..Len(d.entries) /\ Len(d.entries) \in Nat
  BY DEF FileOK, File
<1>2. d.hint # None => d.hint.records \in Seq(Record)
  BY DEF FileOK, File
<1>3. IsData(d)
  <2>1. d.entries \in Seq(Range(d.entries))
    BY <1>1, SeqOverRange
  <2>2. ASSUME d.hint # None
        PROVE  IsHint(d.hint)
    <3>1. d.hint.records \in Seq(Range(d.hint.records))
      BY <1>2, <2>2, SeqOverRange
    <3>2. \A i \in DOMAIN d.hint.records : d.hint.records[i] \in Record
      BY <1>2, <2>2
    <3> QED
      BY <3>1, <3>2 DEF IsHint, Record
  <2> QED
    BY <2>1, <2>2 DEF IsData
<1>4. ASSUME Counting(d, k) # {}
      PROVE  /\ Max(Counting(d, k)) \in Counting(d, k)
             /\ \A i \in Counting(d, k) : i <= Max(Counting(d, k))
  <2>1. IsFiniteSet(1..Len(d.entries))
    BY <1>1, <1>3, Positions DEF IsData
  <2>2. Counting(d, k) \subseteq 1..Len(d.entries)
    BY <1>1 DEF Counting
  <2>3. IsFiniteSet(Counting(d, k)) /\ Counting(d, k) \subseteq Nat
    BY <2>1, <2>2, FS_Subset
  <2> QED
    BY <1>4, <2>3, MaxIsGreatest
<1>5. CASE ~HintIsUsable(d)
  <2>1. Hits(d, k) = Counting(d, k)
    BY <1>5 DEF Hits, Counting
  <2>2. HasWord(d, k) <=> Counting(d, k) # {}
    BY <1>5, <2>1 DEF HasWord
  <2>3. Counting(d, k) # {} => WordOn(f, d, k) = LastCounting(f, d, k)
    BY <1>5, <2>1 DEF WordOn, LastHit, LastCounting
  <2> QED
    BY <1>3, <1>4, <2>2, <2>3
<1>6. CASE HintIsUsable(d)
  <2> DEFINE recs == d.hint.records
  <2>1. /\ recs \in Seq(Record) /\ DOMAIN recs = 1..Len(recs) /\ Len(recs) \in Nat
        /\ Vouches(d.hint, d.entries)
        /\ \A i \in DOMAIN recs : recs[i].value_pos <= Len(d.entries)
    BY <1>2, <1>6 DEF HintIsUsable, FileOK
  <2>2. Len(recs) <= Len(d.entries)
    <3>1. CASE Len(recs) = 0
      BY <1>1, <3>1
    <3>2. CASE Len(recs) # 0
      <4>1. Len(recs) \in DOMAIN recs
        BY <2>1, <3>2
      <4>2. recs[Len(recs)].value_pos = Len(recs)
        BY <2>1, <4>1 DEF Vouches
      <4> QED
        BY <2>1, <4>1, <4>2
    <3> QED
      BY <3>1, <3>2
  <2>3. DOMAIN recs = DOMAIN d.entries
    <3>1. Len(recs) = Len(d.entries)
      BY <1>1, <2>1, <2>2 DEF Vouches
    <3> QED
      BY <1>1, <2>1, <3>1
  <2>4. \A i \in DOMAIN d.entries : /\ recs[i].value_pos = i /\ ~recs[i].tomb
                                    /\ recs[i].key = d.entries[i].key /\ ~d.entries[i].tomb
    BY <2>1, <2>3 DEF Vouches
  <2>5. RecordsOf(d.hint, k) = Counting(d, k)
    BY <1>6, <2>3, <2>4 DEF RecordsOf, Counting
  <2>6. HasWord(d, k) <=> Counting(d, k) # {}
    BY <1>6, <2>5 DEF HasWord
  <2>7. ASSUME Counting(d, k) # {}
        PROVE  WordOn(f, d, k) = LastCounting(f, d, k)
    <3>1. Max(Counting(d, k)) \in DOMAIN d.entries
      BY <1>4, <2>7 DEF Counting
    <3> QED
      BY <1>6, <2>4, <2>5, <2>7, <3>1 DEF WordOn, LastRecord, LastCounting
  <2> QED
    BY <1>3, <1>4, <2>6, <2>7
<1> QED
  BY <1>5, <1>6

\* The disk that `recover` is given, and what it makes of it in these terms.
LEMMA RecoverOfDisk ==
    ASSUME ~ZeroStamps, TypeOK
    PROVE  /\ IsDisk(disk)
           /\ Recover(disk) \in Keydirs
           /\ \A k \in Keys :
                 LET F == {f \in DOMAIN disk : Counting(disk[f], k) # {}} IN
                 /\ F = FilesOn(disk, k)
                 /\ F # {} => Max(F) \in F /\ \A f \in F : f <= Max(F)
                 /\ Recover(disk)[k] = IF F = {} THEN None
                                       ELSE LastCounting(Max(F), disk[Max(F)], k)
<1>1. IsFiniteSet(DOMAIN disk) /\ DOMAIN disk \subseteq Nat
  BY DEF TypeOK
<1>2. IsDisk(disk)
  BY <1>1, WordIsLastCounting DEF TypeOK, IsDisk
<1>3. ASSUME NEW k \in Keys
      PROVE  LET F == {f \in DOMAIN disk : Counting(disk[f], k) # {}} IN
             /\ F = FilesOn(disk, k)
             /\ F # {} => Max(F) \in F /\ \A f \in F : f <= Max(F)
             /\ Recover(disk)[k] = IF F = {} THEN None
                                   ELSE LastCounting(Max(F), disk[Max(F)], k)
  <2> DEFINE F == {f \in DOMAIN disk : Counting(disk[f], k) # {}}
  <2>1. F = FilesOn(disk, k)
    BY WordIsLastCounting DEF FilesOn, TypeOK
  <2>2. ASSUME F # {}
        PROVE  Max(F) \in F /\ \A f \in F : f <= Max(F)
    <3>1. IsFiniteSet(F) /\ F \subseteq Nat
      BY <1>1, FS_Subset
    <3> HIDE DEF F
    <3> QED
      BY <2>2, <3>1, MaxIsGreatest
  <2>3. Recover(disk)[k] = IF F = {} THEN None ELSE WordOn(Max(F), disk[Max(F)], k)
    BY <1>2, <2>1, RecoverComputes
  <2>4. ASSUME F # {}
        PROVE  WordOn(Max(F), disk[Max(F)], k) = LastCounting(Max(F), disk[Max(F)], k)
    <3>1. Max(F) \in DOMAIN disk /\ Counting(disk[Max(F)], k) # {}
      BY <2>2, <2>4
    <3>2. FileOK(disk[Max(F)])
      BY <3>1 DEF TypeOK
    <3> HIDE DEF F
    <3> QED
      BY <3>1, <3>2, WordIsLastCounting
  <2> HIDE DEF F
  <2>5. Recover(disk)[k] = IF F = {} THEN None ELSE LastCounting(Max(F), disk[Max(F)], k)
    BY <2>3, <2>4
  <2> QED
    BY <2>1, <2>2, <2>5 DEF F
<1> QED
  BY <1>2, <1>3, RecoverComputes

\* Recovery finds what "last write wins" means, without a scan.
LEMMA InvRecover ==
    ASSUME ~ZeroStamps, TypeOK
    PROVE  RecoverFindsLastWrite
<1> SUFFICES ASSUME NEW k \in Keys
             PROVE  Recover(disk)[k] = LastWrite(disk, k)
  BY DEF RecoverFindsLastWrite
<1> DEFINE F == {f \in DOMAIN disk : Counting(disk[f], k) # {}}
           P == Places(disk, k)
<1>1. /\ F # {} => Max(F) \in F /\ \A f \in F : f <= Max(F)
      /\ Recover(disk)[k] = IF F = {} THEN None ELSE LastCounting(Max(F), disk[Max(F)], k)
  BY RecoverOfDisk
<1>2. /\ DOMAIN disk \subseteq Nat
      /\ \A f \in DOMAIN disk : /\ FileOK(disk[f])
                                /\ DOMAIN disk[f].entries = 1..Len(disk[f].entries)
                                /\ Len(disk[f].entries) \in Nat
                                /\ Len(disk[f].entries) <= MaxEntries
  BY DEF TypeOK, FileOK, File
<1>3. \A l : l \in P <=> /\ l \in [file_id : DOMAIN disk, value_pos : 1..MaxEntries]
                         /\ l.value_pos \in Counting(disk[l.file_id], k)
  <2> SUFFICES ASSUME NEW l \in [file_id : DOMAIN disk, value_pos : 1..MaxEntries]
               PROVE  l \in P <=> l.value_pos \in Counting(disk[l.file_id], k)
    BY DEF Places
  <2>1. l.file_id \in DOMAIN disk /\ l.value_pos \in Nat \ {0}
    BY DiskAssumption
  <2>2. l.value_pos \in DOMAIN disk[l.file_id].entries
           <=> l.value_pos <= Len(disk[l.file_id].entries)
    BY <1>2, <2>1
  <2> QED
    BY <2>2 DEF Places, Counting
<1>4. CASE F = {}
  <2>1. P = {}
    BY <1>3, <1>4
  <2> QED
    BY <1>1, <1>4, <2>1 DEF LastWrite
<1>5. CASE F # {}
  <2> DEFINE m == Max(F)
             i == Max(Counting(disk[m], k))
             last == [file_id |-> m, value_pos |-> i]
             IsLast(l) == l \in P /\ \A x \in P \ {l} : Later(l, x)
  <2>1. m \in DOMAIN disk /\ m \in Nat /\ Counting(disk[m], k) # {} /\ \A f \in F : f <= m
    BY <1>1, <1>2, <1>5
  <2>2. i \in Counting(disk[m], k) /\ \A j \in Counting(disk[m], k) : j <= i
    BY <1>2, <2>1, WordIsLastCounting
  <2>3. i \in 1..MaxEntries
    <3>1. i \in DOMAIN disk[m].entries
      BY <2>2 DEF Counting
    <3> HIDE DEF i, m, F, P
    <3> QED
      BY <1>2, <2>1, <3>1, DiskAssumption
  <2>4. last \in P
    BY <1>3, <2>1, <2>2, <2>3
  <2>5. ASSUME NEW x \in P, x # last
        PROVE  Later(last, x) /\ ~Later(x, last)
    <3>1. /\ x \in [file_id : DOMAIN disk, value_pos : 1..MaxEntries]
          /\ x.value_pos \in Counting(disk[x.file_id], k)
      BY <1>3
    <3>2. x.file_id \in F /\ x.file_id \in Nat /\ x.value_pos \in Nat
      BY <1>2, <3>1
    <3>3. x.file_id <= m
      BY <2>1, <3>2
    <3>4. x.file_id = m => x.value_pos <= i /\ x.value_pos # i
      BY <2>2, <2>5, <3>1
    <3> HIDE DEF m, i, F
    <3>5. i \in Nat
      BY <2>3
    <3> QED
      BY <2>1, <3>2, <3>3, <3>4, <3>5 DEF Later
  <2> HIDE DEF P, m, i, F, last
  <2>6. IsLast(last)
    BY <2>4, <2>5
  <2>7. \A l : IsLast(l) => l = last
    BY <2>4, <2>5
  <2> DEFINE chosen == CHOOSE l \in P : \A x \in P \ {l} : Later(l, x)
  <2>8. chosen = last
    BY <2>6, <2>7
  <2>9. LastWrite(disk, k) = IF disk[last.file_id].entries[last.value_pos].tomb
                             THEN None ELSE last
    <3>1. LastWrite(disk, k) =
             IF P = {} \/ disk[chosen.file_id].entries[chosen.value_pos].tomb
             THEN None ELSE chosen
      BY DEF LastWrite, P
    <3> HIDE DEF chosen
    <3> QED
      BY <2>4, <2>8, <3>1
  <2>10. Recover(disk)[k] = IF disk[m].entries[i].tomb THEN None ELSE last
    BY <1>1, <1>5 DEF LastCounting, last, m, i
  <2> QED
    BY <2>9, <2>10 DEF last
<1> QED
  BY <1>4, <1>5

\* A disk without its hints.
LEMMA InvHints ==
    ASSUME ~ZeroStamps, TypeOK
    PROVE  HintsChangeNothing
<1> SUFFICES ASSUME \A f \in DOMAIN disk : HintIsUsable(disk[f]) => disk[f].bad = {}
             PROVE  Recover(disk) =
                       Recover([f \in DOMAIN disk |-> [disk[f] EXCEPT !.hint = None]])
  BY DEF HintsChangeNothing
<1> DEFINE bare == [f \in DOMAIN disk |-> [disk[f] EXCEPT !.hint = None]]
<1>1. ASSUME NEW f \in DOMAIN disk
      PROVE  /\ FileOK(bare[f]) /\ bare[f].entries = disk[f].entries
             /\ \A k : Counting(bare[f], k) = Counting(disk[f], k)
  <2> DEFINE d == disk[f]
             b == bare[f]
  <2>1. b = [d EXCEPT !.hint = None] /\ FileOK(d) /\ (HintIsUsable(d) => d.bad = {})
    BY DEF TypeOK
  <2> HIDE DEF bare, d, b
  <2>2. b.entries = d.entries /\ b.bad = d.bad /\ b.hint = None /\ b \in File
    BY <2>1 DEF FileOK, File
  <2>3. FileOK(b) /\ ~HintIsUsable(b)
    BY <2>1, <2>2 DEF FileOK, HintIsUsable
  <2>4. \A k : Counting(b, k) = Counting(d, k)
    BY <2>1, <2>2, <2>3 DEF Counting
  <2> QED
    BY <2>2, <2>3, <2>4 DEF b, d
<1>2. DOMAIN bare = DOMAIN disk
  OBVIOUS
<1> HIDE DEF bare
<1>3. IsDisk(bare)
  <2>1. \A f \in DOMAIN bare : IsData(bare[f])
    BY <1>1, <1>2, WordIsLastCounting
  <2>2. IsFiniteSet(DOMAIN disk) /\ DOMAIN disk \subseteq Nat
    BY RecoverOfDisk DEF IsDisk
  <2> QED
    BY <1>2, <2>1, <2>2 DEF IsDisk
<1>4. ASSUME NEW k \in Keys
      PROVE  Recover(bare)[k] = Recover(disk)[k]
  <2> DEFINE F == {f \in DOMAIN disk : Counting(disk[f], k) # {}}
  <2>1. /\ F # {} => Max(F) \in F
        /\ Recover(disk)[k] = IF F = {} THEN None ELSE LastCounting(Max(F), disk[Max(F)], k)
    BY RecoverOfDisk
  <2>2. F = FilesOn(bare, k)
    BY <1>1, <1>2, WordIsLastCounting DEF FilesOn
  <2>3. Recover(bare)[k] = IF F = {} THEN None ELSE WordOn(Max(F), bare[Max(F)], k)
    BY <1>3, <2>2, RecoverComputes
  <2>4. ASSUME F # {}
        PROVE  WordOn(Max(F), bare[Max(F)], k) = LastCounting(Max(F), disk[Max(F)], k)
    <3>1. Max(F) \in DOMAIN disk /\ Counting(disk[Max(F)], k) # {}
      BY <2>1, <2>4
    <3> HIDE DEF F
    <3>2. /\ FileOK(bare[Max(F)]) /\ bare[Max(F)].entries = disk[Max(F)].entries
          /\ Counting(bare[Max(F)], k) = Counting(disk[Max(F)], k)
      BY <1>1, <3>1
    <3>3. WordOn(Max(F), bare[Max(F)], k) = LastCounting(Max(F), bare[Max(F)], k)
      BY <3>1, <3>2, WordIsLastCounting
    <3> QED
      BY <3>2, <3>3 DEF LastCounting
  <2> HIDE DEF F
  <2> QED
    BY <2>1, <2>3, <2>4
<1>5. Recover(bare) \in Keydirs /\ Recover(disk) \in Keydirs
  BY <1>3, RecoverComputes, RecoverOfDisk
<1>6. Recover(bare) = Recover(disk)
  BY <1>4, <1>5 DEF Keydirs
<1> QED
  BY <1>6 DEF bare

\* On every disk that writes, rotation, merges and damage lead to, `recover` finds the last
\* write of every key, by file and then by offset, if no caller of put passes the timestamp 0
\* (TornHintHides.cfg shows what becomes of a key if one does).
THEOREM RecoverIsLastWriteWins ==
    ASSUME ~ZeroStamps
    PROVE  Spec => []RecoverFindsLastWrite
<1>1. TypeOK => RecoverFindsLastWrite
  BY InvRecover
<1> QED
  BY <1>1, DiskTypeCorrect, PTL

\* Hints change nothing, unless data they vouch for rotted, with the same condition.
THEOREM HintsOnlySaveWork ==
    ASSUME ~ZeroStamps
    PROVE  Spec => []HintsChangeNothing
<1>1. TypeOK => HintsChangeNothing
  BY InvHints
<1> QED
  BY <1>1, DiskTypeCorrect, PTL
=============================================================================
