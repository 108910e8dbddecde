---------------------------- MODULE RecoveryProofs ----------------------------
(* Proofs about the folds of Recovery, for any disk.  Both folds visit a     *)
(* finite set of numbers in ascending order, and are recursive functions on  *)
(* its subsets.  That the functions exist, and what they compute, is proved  *)
(* by induction in its first-order form: a non-empty set of subsets of a     *)
(* finite set has a minimal element.                                         *)
EXTENDS Recovery, FiniteSetTheorems, TLAPS

-----------------------------------------------------------------------------
(* Induction.                                                                *)

IsFamilyOn(T, S) == IsFiniteSet(S) /\ T \subseteq SUBSET S /\ T # {}
HasMinimal(T)    == \E s \in T : \A u \in T : u \subseteq s => u = s

\* A non-empty set of subsets of a finite set has a minimal element.
LEMMA MinimalSubset ==
    ASSUME NEW S, NEW T, IsFamilyOn(T, S)
    PROVE  HasMinimal(T)
<1>1. IsWellFoundedOn(StrictSubsetOrdering(S), FiniteSubsetsOf(S))
  BY FS_StrictSubsetOrderingWellFounded
<1>2. T \subseteq FiniteSubsetsOf(S)
  BY FS_FiniteSubsetsOfFinite DEF IsFamilyOn
<1>3. PICK s \in T : \A u \in T : <<u, s>> \notin StrictSubsetOrdering(S)
  BY <1>1, <1>2, WFMin DEF IsFamilyOn
<1>4. \A u \in T : u \subseteq s /\ u # s => <<u, s>> \in StrictSubsetOrdering(S)
  BY DEF StrictSubsetOrdering, IsFamilyOn
<1>5. \A u \in T : u \subseteq s => u = s
  BY <1>3, <1>4, Zenon
<1> QED
  BY <1>5 DEF HasMinimal

NatLess == {ss \in Nat \X Nat : ss[1] < ss[2]}

\* Induction over the natural numbers, for a set instead of a predicate.
LEMMA NatSetInduction ==
    ASSUME NEW S, 0 \in S, \A n \in Nat : n \in S => n + 1 \in S
    PROVE  Nat \subseteq S
<1>1. SUFFICES ASSUME Nat \ S # {} PROVE FALSE
  OBVIOUS
<1>2. IsWellFoundedOn(NatLess, Nat)
  BY NatLessThanWellFounded DEF OpToRel, NatLess
<1>3. PICK m \in Nat \ S : \A y \in Nat \ S : <<y, m>> \notin NatLess
  <2>1. Nat \ S \subseteq Nat
    OBVIOUS
  <2> QED
    BY <1>1, <1>2, <2>1, WFMin
<1>4. m - 1 \in Nat /\ <<m - 1, m>> \in NatLess
  BY DEF NatLess
<1>5. (m - 1) + 1 \in S
  BY <1>3, <1>4
<1> QED
  BY <1>5

\* A finite set of numbers has a maximum, which is what Max returns.
LEMMA MaxIsGreatest ==
    ASSUME NEW S, IsFiniteSet(S), S \subseteq Nat, S # {}
    PROVE  /\ Max(S) \in S
           /\ \A x \in S : x <= Max(S)
<1> DEFINE T == {s \in SUBSET S : s # {} /\ ~ \E x \in s : \A y \in s : x >= y}
<1>1. T = {}
  <2> SUFFICES ASSUME T # {} PROVE FALSE
    OBVIOUS
  <2>1. IsFamilyOn(T, S)
    BY DEF IsFamilyOn
  <2>2. HasMinimal(T)
    <3> HIDE DEF T
    <3> QED
      BY <2>1, MinimalSubset
  <2> PICK s \in T : \A u \in T : u \subseteq s => u = s
    BY <2>2 DEF HasMinimal
  <2>3. PICK x \in s : TRUE
    OBVIOUS
  <2>4. CASE s = {x}
    BY <2>3, <2>4
  <2>5. CASE s # {x}
    <3>1. s \ {x} \notin T
      BY <2>3
    <3>2. PICK m \in s \ {x} : \A y \in s \ {x} : m >= y
      BY <2>3, <2>5, <3>1
    <3>3. m \in Nat /\ x \in Nat /\ \A y \in s : y \in Nat
      BY <2>3
    <3>4. CASE m >= x
      BY <3>2, <3>4
    <3>5. CASE x >= m
      <4>1. \A y \in s : x >= y
        BY <3>2, <3>3, <3>5
      <4> QED
        BY <2>3, <4>1
    <3> QED
      BY <3>3, <3>4, <3>5
  <2> QED
    BY <2>4, <2>5
<1>2. \E x \in S : \A y \in S : x >= y
  BY <1>1
<1>3. Max(S) \in S /\ \A y \in S : Max(S) >= y
  BY <1>2 DEF Max
<1> QED
  BY <1>3

\* A set of numbers has a minimum, which is what Min returns.
LEMMA MinIsLeast ==
    ASSUME NEW S, S \subseteq Nat, S # {}
    PROVE  /\ Min(S) \in S
           /\ \A x \in S : Min(S) <= x
<1>1. IsWellFoundedOn(NatLess, Nat)
  BY NatLessThanWellFounded DEF OpToRel, NatLess
<1>2. PICK m \in S : \A y \in S : <<y, m>> \notin NatLess
  BY <1>1, WFMin
<1>3. ASSUME NEW y \in S PROVE m <= y
  <2>1. m \in Nat /\ y \in Nat /\ <<y, m>> \notin NatLess
    BY <1>2
  <2> QED
    BY <2>1 DEF NatLess
<1>4. Min(S) \in S /\ \A y \in S : Min(S) <= y
  BY <1>3 DEF Min
<1> QED
  BY <1>4

-----------------------------------------------------------------------------
(* Folding over a finite set of numbers in ascending order.                  *)

IsStep(step, S, V)    == step \in [S \X V -> V]
FoldEqn(it, step, base, D) ==
    \A s \in D : it[s] = IF s = {} THEN base
                         ELSE step[<<Max(s), it[s \ {Max(s)}]>>]
Layer(S, n) == {s \in SUBSET S : Cardinality(s) <= n}
Solvable(S, V, base, step, n) ==
    \E g \in [Layer(S, n) -> V] : FoldEqn(g, step, base, Layer(S, n))

\* Without its maximum a set is one smaller.
LEMMA WithoutMax ==
    ASSUME NEW S, IsFiniteSet(S), S \subseteq Nat, NEW s \in SUBSET S, s # {}
    PROVE  /\ Max(s) \in s
           /\ s \ {Max(s)} \in SUBSET S
           /\ IsFiniteSet(s)
           /\ Cardinality(s) \in Nat
           /\ Cardinality(s \ {Max(s)}) = Cardinality(s) - 1
<1>1. IsFiniteSet(s)
  BY FS_Subset
<1>2. Max(s) \in s
  BY <1>1, MaxIsGreatest
<1> QED
  BY <1>1, <1>2, FS_RemoveElement, FS_CardinalityType

\* The recursion of a fold over a finite set of numbers has a solution.
LEMMA FoldExists ==
    ASSUME NEW S, IsFiniteSet(S), S \subseteq Nat,
           NEW V, NEW base \in V, NEW step, IsStep(step, S, V)
    PROVE  \E it \in [SUBSET S -> V] : FoldEqn(it, step, base, SUBSET S)
<1>1. Solvable(S, V, base, step, 0)
  <2>1. Layer(S, 0) = {{}}
    <3>1. ASSUME NEW s \in SUBSET S, Cardinality(s) <= 0
          PROVE  s = {}
      <4>1. IsFiniteSet(s)
        BY FS_Subset
      <4>2. Cardinality(s) \in Nat
        BY <4>1, FS_CardinalityType
      <4>3. Cardinality(s) = 0
        BY <3>1, <4>2
      <4> QED
        BY <4>1, <4>3, FS_EmptySet
    <3>2. Cardinality({}) <= 0
      BY FS_EmptySet
    <3> QED
      BY <3>1, <3>2 DEF Layer
  <2> DEFINE g == [s \in {{}} |-> base]
  <2>2. g \in [Layer(S, 0) -> V]
    BY <2>1
  <2>3. FoldEqn(g, step, base, Layer(S, 0))
    BY <2>1 DEF FoldEqn
  <2> QED
    BY <2>2, <2>3 DEF Solvable
<1>2. ASSUME NEW n \in Nat, Solvable(S, V, base, step, n)
      PROVE  Solvable(S, V, base, step, n + 1)
  <2>1. PICK g \in [Layer(S, n) -> V] : FoldEqn(g, step, base, Layer(S, n))
    BY <1>2 DEF Solvable
  <2> DEFINE h == [s \in Layer(S, n + 1) |->
                     IF s = {} THEN base ELSE step[<<Max(s), g[s \ {Max(s)}]>>]]
  <2>2. ASSUME NEW s \in Layer(S, n + 1), s # {}
        PROVE  /\ Max(s) \in S
               /\ s \ {Max(s)} \in Layer(S, n)
    <3>1. s \in SUBSET S /\ Cardinality(s) <= n + 1
      BY DEF Layer
    <3>2. /\ Max(s) \in s
          /\ s \ {Max(s)} \in SUBSET S
          /\ Cardinality(s) \in Nat
          /\ Cardinality(s \ {Max(s)}) = Cardinality(s) - 1
      BY <2>2, <3>1, WithoutMax
    <3> HIDE DEF h
    <3>3. Cardinality(s \ {Max(s)}) <= n
      BY <3>1, <3>2
    <3> QED
      BY <3>1, <3>2, <3>3 DEF Layer
  <2>3. h \in [Layer(S, n + 1) -> V]
    BY <2>1, <2>2 DEF IsStep
  <2>4. \A s \in Layer(S, n) : s \in Layer(S, n + 1)
    <3> SUFFICES ASSUME NEW s \in Layer(S, n) PROVE s \in Layer(S, n + 1)
      OBVIOUS
    <3>1. IsFiniteSet(s)
      BY FS_Subset DEF Layer
    <3>2. Cardinality(s) \in Nat
      BY <3>1, FS_CardinalityType
    <3> QED
      BY <3>2 DEF Layer
  <2>5. \A s \in Layer(S, n) : h[s] = g[s]
    BY <2>1, <2>4 DEF FoldEqn
  <2>6. FoldEqn(h, step, base, Layer(S, n + 1))
    BY <2>2, <2>5 DEF FoldEqn
  <2> HIDE DEF h
  <2> QED
    BY <2>3, <2>6 DEF Solvable
<1>3. Solvable(S, V, base, step, Cardinality(S))
  <2> DEFINE N == {n \in Nat : Solvable(S, V, base, step, n)}
  <2>1. 0 \in N /\ \A n \in Nat : n \in N => n + 1 \in N
    BY <1>1, <1>2
  <2>2. Nat \subseteq N
    <3> HIDE DEF N
    <3> QED
      BY <2>1, NatSetInduction
  <2> QED
    BY <2>2, FS_CardinalityType
<1>4. Layer(S, Cardinality(S)) = SUBSET S
  BY FS_Subset DEF Layer
<1> QED
  BY <1>3, <1>4 DEF Solvable

\* Induction over the subsets of a finite set of numbers, from each to the one with a greater
\* maximum added.
LEMMA SubsetInduction ==
    ASSUME NEW S, IsFiniteSet(S), S \subseteq Nat, NEW T, {} \in T,
           \A s \in SUBSET S : s # {} /\ s \ {Max(s)} \in T => s \in T
    PROVE  SUBSET S \subseteq T
<1> DEFINE U == {s \in SUBSET S : s \notin T}
<1>1. U = {}
  <2> SUFFICES ASSUME U # {} PROVE FALSE
    OBVIOUS
  <2>1. HasMinimal(U)
    <3>1. IsFamilyOn(U, S)
      BY DEF IsFamilyOn
    <3> HIDE DEF U
    <3> QED
      BY <3>1, MinimalSubset
  <2> PICK s \in U : \A u \in U : u \subseteq s => u = s
    BY <2>1 DEF HasMinimal
  <2>2. s # {} /\ s \in SUBSET S
    OBVIOUS
  <2>3. Max(s) \in s /\ s \ {Max(s)} \in SUBSET S
    BY <2>2, WithoutMax
  <2> DEFINE u == s \ {Max(s)}
  <2>4. u \subseteq s /\ u # s
    BY <2>3
  <2>5. u \notin U
    <3> HIDE DEF U, u
    <3> QED
      BY <2>4
  <2>6. u \in T
    BY <2>3, <2>5
  <2> QED
    BY <2>2, <2>6
<1> QED
  BY <1>1

\* A property kept by one step of a fold holds of the whole of it.
LEMMA FoldTyped ==
    ASSUME NEW S, IsFiniteSet(S), S \subseteq Nat, NEW V, NEW r, r[{}] \in V,
           \A s \in SUBSET S : s # {} /\ r[s \ {Max(s)}] \in V => r[s] \in V
    PROVE  \A s \in SUBSET S : r[s] \in V
<1> DEFINE T == {s \in SUBSET S : r[s] \in V}
<1>1. {} \in T
  OBVIOUS
<1>2. ASSUME NEW s \in SUBSET S, s # {}, s \ {Max(s)} \in T
      PROVE  s \in T
  BY <1>2
<1>3. SUBSET S \subseteq T
  <2> HIDE DEF T
  <2> QED
    BY <1>1, <1>2, SubsetInduction
<1> QED
  BY <1>3

WritesHits(r, S, k, hits, val) ==
    \A s \in SUBSET S : s # {} =>
        r[s][k] = IF Max(s) \in hits THEN val[Max(s)] ELSE r[s \ {Max(s)}][k]

LastWins(r, S, k, hits, val) == r[S][k] = IF hits = {} THEN r[{}][k] ELSE val[Max(hits)]

\* A fold in which every step writes a component or leaves it: the last write stays.
LEMMA FoldLastWins ==
    ASSUME NEW S, IsFiniteSet(S), S \subseteq Nat, NEW r, NEW k, NEW hits \in SUBSET S, NEW val,
           WritesHits(r, S, k, hits, val)
    PROVE  LastWins(r, S, k, hits, val)
<1> DEFINE Claim(s) == r[s][k] = IF hits \cap s = {} THEN r[{}][k] ELSE val[Max(hits \cap s)]
           T == {s \in SUBSET S : Claim(s)}
<1>1. {} \in T
  OBVIOUS
<1>2. ASSUME NEW s \in SUBSET S, s # {}, s \ {Max(s)} \in T
      PROVE  s \in T
  <2> DEFINE m == Max(s)
             u == s \ {m}
  <2>1. m \in s /\ u \in SUBSET S /\ IsFiniteSet(s)
    BY <1>2, WithoutMax
  <2>2. Claim(u)
    BY <1>2
  <2>3. \A x \in s : x <= m
    BY <1>2, <2>1, MaxIsGreatest
  <2>4. r[s][k] = IF m \in hits THEN val[m] ELSE r[u][k]
    BY <1>2 DEF WritesHits
  <2> HIDE DEF m
  <2>5. CASE m \in hits
    <3>1. m \in hits \cap s /\ hits \cap s \in SUBSET S /\ IsFiniteSet(hits \cap s)
      BY <2>1, <2>5, FS_Subset
    <3>2. /\ Max(hits \cap s) \in hits \cap s
          /\ m <= Max(hits \cap s)
      BY <3>1, MaxIsGreatest
    <3>3. Max(hits \cap s) <= m
      BY <2>3, <3>2
    <3>4. m \in Nat /\ Max(hits \cap s) \in Nat
      BY <2>1, <3>1, <3>2
    <3>5. Max(hits \cap s) = m
      BY <3>2, <3>3, <3>4
    <3> QED
      BY <2>4, <2>5, <3>1, <3>5
  <2>6. CASE m \notin hits
    <3>1. hits \cap s = hits \cap u
      BY <2>6
    <3> QED
      BY <2>2, <2>4, <2>6, <3>1
  <2> QED
    BY <2>5, <2>6
<1>3. SUBSET S \subseteq T
  <2> HIDE DEF T
  <2> QED
    BY <1>1, <1>2, SubsetInduction
<1>4. Claim(S)
  BY <1>3
<1>5. hits \cap S = hits
  OBVIOUS
<1> QED
  BY <1>4, <1>5 DEF LastWins

-----------------------------------------------------------------------------
(* What Recovery's folds compute.                                            *)

Keydirs == [Keys -> Location \cup {None}]

\* A file as `discover` may find it, and a hint file with real offsets.
IsHint(hint) ==
    /\ hint.records \in Seq(Range(hint.records))
    /\ \A i \in DOMAIN hint.records : hint.records[i].value_pos \in Nat \ {0}

IsData(data) ==
    /\ data.entries \in Seq(Range(data.entries))
    /\ data.hint # None => IsHint(data.hint)

\* apply_entry makes a keydir of a keydir.
LEMMA ApplyEntryType ==
    ASSUME NEW kd \in Keydirs, NEW f \in Nat, NEW pos \in Nat \ {0}, NEW e
    PROVE  ApplyEntry(kd, f, pos, e) \in Keydirs
BY DEF ApplyEntry, Keydirs, Location

\* Recovery starts with a keydir.
LEMMA EmptyKeydirType == EmptyKeydir \in Keydirs
BY DEF EmptyKeydir, Keydirs

FollowsStep(r, S, base, step) ==
    /\ r[{}] = base
    /\ \A s \in SUBSET S : s # {} /\ r[s \ {Max(s)}] \in Keydirs
          => r[s] = step[<<Max(s), r[s \ {Max(s)}]>>]

StepWrites(step, S, k, hits, val) ==
    \A x \in S, v \in Keydirs : step[<<x, v>>][k] = IF x \in hits THEN val[x] ELSE v[k]

\* Folds of keydirs: the result is a keydir, and the last write of a key stays.
LEMMA KeydirFold ==
    ASSUME NEW S, IsFiniteSet(S), S \subseteq Nat,
           NEW base \in Keydirs, NEW step, IsStep(step, S, Keydirs),
           NEW r, FollowsStep(r, S, base, step)
    PROVE  /\ r[S] \in Keydirs
           /\ \A k, val : \A hits \in SUBSET S :
                 StepWrites(step, S, k, hits, val) => LastWins(r, S, k, hits, val)
<1>1. ASSUME NEW s \in SUBSET S, s # {}
      PROVE  Max(s) \in S /\ s \ {Max(s)} \in SUBSET S
  BY <1>1, WithoutMax
<1>2. \A s \in SUBSET S : r[s] \in Keydirs
  <2>1. r[{}] \in Keydirs
    BY DEF FollowsStep
  <2>2. \A s \in SUBSET S : s # {} /\ r[s \ {Max(s)}] \in Keydirs => r[s] \in Keydirs
    BY <1>1 DEF FollowsStep, IsStep
  <2> QED
    BY <2>1, <2>2, FoldTyped
<1>3. ASSUME NEW k, NEW val, NEW hits \in SUBSET S, StepWrites(step, S, k, hits, val)
      PROVE  LastWins(r, S, k, hits, val)
  <2>1. WritesHits(r, S, k, hits, val)
    <3> SUFFICES ASSUME NEW s \in SUBSET S, s # {}
                 PROVE  r[s][k] = IF Max(s) \in hits THEN val[Max(s)] ELSE r[s \ {Max(s)}][k]
      BY DEF WritesHits
    <3>1. r[s \ {Max(s)}] \in Keydirs
      BY <1>1, <1>2
    <3>2. r[s] = step[<<Max(s), r[s \ {Max(s)}]>>]
      BY <3>1 DEF FollowsStep
    <3>3. step[<<Max(s), r[s \ {Max(s)}]>>][k] =
             IF Max(s) \in hits THEN val[Max(s)] ELSE r[s \ {Max(s)}][k]
      BY <1>1, <1>3, <3>1 DEF StepWrites
    <3> QED
      BY <3>2, <3>3
  <2> QED
    BY <2>1, FoldLastWins
<1> QED
  BY <1>2, <1>3

\* A sequence has finitely many positions.
LEMMA Positions ==
    ASSUME NEW seq, seq \in Seq(Range(seq))
    PROVE  IsFiniteSet(DOMAIN seq) /\ DOMAIN seq \subseteq Nat /\ 0 \notin DOMAIN seq
<1>1. Len(seq) \in Nat /\ DOMAIN seq = 1..Len(seq)
  OBVIOUS
<1>2. IsFiniteSet(1..Len(seq))
  BY <1>1, FS_Interval
<1> QED
  BY <1>1, <1>2

\* The equation of the fold in scan_data_file, over the positions in q.
ScanEqn(it, keydir, f, data, q) ==
    it = [s \in SUBSET DOMAIN q |->
            IF s = {} THEN keydir
            ELSE IF q[Max(s)] \in data.bad THEN it[s \ {Max(s)}]
            ELSE ApplyEntry(it[s \ {Max(s)}], f, q[Max(s)], data.entries[q[Max(s)]])]

\* The entries of k that count.
Hits(data, k) == {i \in DOMAIN data.entries : i \notin data.bad /\ data.entries[i].key = k}

\* What the last of a set of places leaves of k.
LastHit(hits, f, data, old) ==
    IF hits = {} THEN old
    ELSE IF data.entries[Max(hits)].tomb THEN None
    ELSE [file_id |-> f, value_pos |-> Max(hits)]

\* ScanDataFile as the recursive function behind the fold;
LEMMA ScanUnfolds ==
    ASSUME NEW kd, NEW f, NEW data
    PROVE  LET q == [i \in DOMAIN data.entries |-> i] IN
           ScanDataFile(kd, f, data) = (CHOOSE it : ScanEqn(it, kd, f, data, q))[DOMAIN q]
BY DEF ScanDataFile, FoldLeftDomain, FoldLeft, MapThenFoldSet, ScanEqn

\* scan_data_file: of each key the last intact entry counts.
LEMMA ScanComputes ==
    ASSUME NEW kd \in Keydirs, NEW f \in Nat, NEW data, IsData(data)
    PROVE  /\ ScanDataFile(kd, f, data) \in Keydirs
           /\ \A k \in Keys : ScanDataFile(kd, f, data)[k] =
                                 LastHit(Hits(data, k), f, data, kd[k])
<1> DEFINE q == [i \in DOMAIN data.entries |-> i]
           S == DOMAIN data.entries
           next(x, v) == IF x \in data.bad THEN v ELSE ApplyEntry(v, f, x, data.entries[x])
           step == [p \in S \X Keydirs |-> next(p[1], p[2])]
<1>1. IsFiniteSet(S) /\ S \subseteq Nat /\ 0 \notin S /\ DOMAIN q = S
  BY Positions DEF IsData
<1>2. \A x \in S, v \in Keydirs : next(x, v) \in Keydirs
  BY <1>1, ApplyEntryType
<1>3. IsStep(step, S, Keydirs)
  BY <1>2 DEF IsStep
<1>4. \E it : ScanEqn(it, kd, f, data, q)
  <2>1. PICK it \in [SUBSET S -> Keydirs] : FoldEqn(it, step, kd, SUBSET S)
    <3> HIDE DEF S, step
    <3> QED
      BY <1>1, <1>3, FoldExists
  <2>2. ASSUME NEW s \in SUBSET S, s # {}
        PROVE  it[s] = next(Max(s), it[s \ {Max(s)}])
    <3>1. Max(s) \in S /\ s \ {Max(s)} \in SUBSET S
      BY <1>1, <2>2, WithoutMax
    <3>2. it[s \ {Max(s)}] \in Keydirs
      BY <3>1
    <3>3. it[s] = step[<<Max(s), it[s \ {Max(s)}]>>]
      BY <2>1, <2>2 DEF FoldEqn
    <3> QED
      BY <3>1, <3>2, <3>3
  <2>3. it[{}] = kd
    BY <2>1 DEF FoldEqn
  <2>4. ScanEqn(it, kd, f, data, q)
    <3>1. ASSUME NEW s \in SUBSET S, s # {}
          PROVE  it[s] = IF q[Max(s)] \in data.bad THEN it[s \ {Max(s)}]
                         ELSE ApplyEntry(it[s \ {Max(s)}], f, q[Max(s)],
                                         data.entries[q[Max(s)]])
      <4>1. q[Max(s)] = Max(s)
        BY <1>1, <3>1, WithoutMax
      <4> QED
        BY <2>2, <3>1, <4>1
    <3>2. DOMAIN q = S /\ it = [s \in SUBSET S |-> it[s]]
      BY <1>1
    <3> HIDE DEF q, S
    <3> QED
      BY <2>3, <3>1, <3>2 DEF ScanEqn
  <2> QED
    BY <2>4
<1> DEFINE r == CHOOSE it : ScanEqn(it, kd, f, data, q)
<1>5. ScanEqn(r, kd, f, data, q)
  BY <1>4
<1>6. ScanDataFile(kd, f, data) = r[S]
  BY <1>1, ScanUnfolds
<1> HIDE DEF r
<1>7. FollowsStep(r, S, kd, step)
  <2>1. r[{}] = kd
    BY <1>5 DEF ScanEqn
  <2>2. ASSUME NEW s \in SUBSET S, s # {}, r[s \ {Max(s)}] \in Keydirs
        PROVE  r[s] = step[<<Max(s), r[s \ {Max(s)}]>>]
    <3>1. Max(s) \in S /\ s \in SUBSET DOMAIN q
      BY <1>1, <2>2, WithoutMax
    <3>2. r[s] = next(Max(s), r[s \ {Max(s)}])
      BY <1>5, <2>2, <3>1 DEF ScanEqn
    <3> QED
      BY <2>2, <3>1, <3>2
  <2> QED
    BY <2>1, <2>2 DEF FollowsStep
<1>8. ASSUME NEW k \in Keys
      PROVE  r[S][k] = LastHit(Hits(data, k), f, data, kd[k])
  <2> DEFINE hits == Hits(data, k)
             val == [i \in S |-> IF data.entries[i].tomb THEN None
                                 ELSE [file_id |-> f, value_pos |-> i]]
  <2>1. hits \in SUBSET S
    BY DEF Hits
  <2>2. StepWrites(step, S, k, hits, val)
    <3> SUFFICES ASSUME NEW x \in S, NEW v \in Keydirs
                 PROVE  step[<<x, v>>][k] = IF x \in hits THEN val[x] ELSE v[k]
      BY DEF StepWrites
    <3> DEFINE e == data.entries[x]
    <3>1. ApplyEntry(v, f, x, e)[k] =
             IF k = e.key THEN IF e.tomb THEN None ELSE [file_id |-> f, value_pos |-> x]
                          ELSE v[k]
      BY DEF ApplyEntry, Keydirs
    <3>2. x \in hits <=> x \notin data.bad /\ k = e.key
      BY DEF Hits
    <3>3. val[x] = IF e.tomb THEN None ELSE [file_id |-> f, value_pos |-> x]
      OBVIOUS
    <3>4. step[<<x, v>>] = next(x, v)
      OBVIOUS
    <3> HIDE DEF val, hits, e, step
    <3> QED
      BY <3>1, <3>2, <3>3, <3>4 DEF e
  <2> HIDE DEF S, hits, val, step
  <2>3. LastWins(r, S, k, hits, val)
    BY <1>1, <1>3, <1>7, <2>1, <2>2, KeydirFold
  <2>4. hits # {} => Max(hits) \in S
    BY <1>1, <2>1, WithoutMax
  <2>5. r[{}] = kd
    BY <1>7 DEF FollowsStep
  <2> QED
    BY <2>3, <2>4, <2>5 DEF LastHit, LastWins, S, hits, val
<1>9. r[S] \in Keydirs
  <2> HIDE DEF S, step
  <2> QED
    BY <1>1, <1>3, <1>7, KeydirFold
<1> QED
  BY <1>6, <1>8, <1>9

\* The equation of the fold in try_scan_hint_file.
HintEqn(it, keydir, f, recs) ==
    it = [s \in SUBSET DOMAIN recs |->
            IF s = {} THEN keydir
            ELSE ApplyEntry(it[s \ {Max(s)}], f, recs[Max(s)].value_pos, recs[Max(s)])]

\* ApplyHint as the recursive function behind the fold;
LEMMA HintUnfolds ==
    ASSUME NEW kd, NEW f, NEW hint
    PROVE  ApplyHint(kd, f, hint) =
              (CHOOSE it : HintEqn(it, kd, f, hint.records))[DOMAIN hint.records]
BY DEF ApplyHint, FoldLeft, MapThenFoldSet, HintEqn

\* The records of k.
RecordsOf(hint, k) == {i \in DOMAIN hint.records : hint.records[i].key = k}

\* What the last of a set of records leaves of k.
LastRecord(recs, f, hint, old) ==
    IF recs = {} THEN old
    ELSE IF hint.records[Max(recs)].tomb THEN None
    ELSE [file_id |-> f, value_pos |-> hint.records[Max(recs)].value_pos]

\* try_scan_hint_file: of each key the last record counts.
LEMMA HintComputes ==
    ASSUME NEW kd \in Keydirs, NEW f \in Nat, NEW hint, IsHint(hint)
    PROVE  /\ ApplyHint(kd, f, hint) \in Keydirs
           /\ \A k \in Keys : ApplyHint(kd, f, hint)[k] =
                                 LastRecord(RecordsOf(hint, k), f, hint, kd[k])
<1> DEFINE recs == hint.records
           S == DOMAIN recs
           next(x, v) == ApplyEntry(v, f, recs[x].value_pos, recs[x])
           step == [p \in S \X Keydirs |-> next(p[1], p[2])]
<1>1. IsFiniteSet(S) /\ S \subseteq Nat
  BY Positions DEF IsHint
<1>2. \A x \in S, v \in Keydirs : next(x, v) \in Keydirs
  BY ApplyEntryType DEF IsHint
<1>3. IsStep(step, S, Keydirs)
  BY <1>2 DEF IsStep
<1>4. \E it : HintEqn(it, kd, f, recs)
  <2>1. PICK it \in [SUBSET S -> Keydirs] : FoldEqn(it, step, kd, SUBSET S)
    <3> HIDE DEF S, step
    <3> QED
      BY <1>1, <1>3, FoldExists
  <2>2. ASSUME NEW s \in SUBSET S, s # {}
        PROVE  it[s] = next(Max(s), it[s \ {Max(s)}])
    <3>1. Max(s) \in S /\ s \ {Max(s)} \in SUBSET S
      BY <1>1, <2>2, WithoutMax
    <3>2. it[s \ {Max(s)}] \in Keydirs
      BY <3>1
    <3>3. it[s] = step[<<Max(s), it[s \ {Max(s)}]>>]
      BY <2>1, <2>2 DEF FoldEqn
    <3> QED
      BY <3>1, <3>2, <3>3
  <2>3. it[{}] = kd
    BY <2>1 DEF FoldEqn
  <2>4. HintEqn(it, kd, f, recs)
    <3>1. it = [s \in SUBSET S |-> it[s]]
      OBVIOUS
    <3> QED
      BY <2>2, <2>3, <3>1 DEF HintEqn
  <2> QED
    BY <2>4
<1> DEFINE r == CHOOSE it : HintEqn(it, kd, f, recs)
<1>5. HintEqn(r, kd, f, recs)
  BY <1>4
<1>6. ApplyHint(kd, f, hint) = r[S]
  BY HintUnfolds
<1> HIDE DEF r
<1>7. FollowsStep(r, S, kd, step)
  <2>1. r[{}] = kd
    BY <1>5 DEF HintEqn
  <2>2. ASSUME NEW s \in SUBSET S, s # {}, r[s \ {Max(s)}] \in Keydirs
        PROVE  r[s] = step[<<Max(s), r[s \ {Max(s)}]>>]
    <3>1. Max(s) \in S
      BY <1>1, <2>2, WithoutMax
    <3>2. r[s] = next(Max(s), r[s \ {Max(s)}])
      BY <1>5, <2>2, <3>1 DEF HintEqn
    <3> QED
      BY <2>2, <3>1, <3>2
  <2> QED
    BY <2>1, <2>2 DEF FollowsStep
<1>8. ASSUME NEW k \in Keys
      PROVE  r[S][k] = LastRecord(RecordsOf(hint, k), f, hint, kd[k])
  <2> DEFINE hits == RecordsOf(hint, k)
             val == [i \in S |-> IF recs[i].tomb THEN None
                                 ELSE [file_id |-> f, value_pos |-> recs[i].value_pos]]
  <2>1. hits \in SUBSET S
    BY DEF RecordsOf
  <2>2. StepWrites(step, S, k, hits, val)
    <3> SUFFICES ASSUME NEW x \in S, NEW v \in Keydirs
                 PROVE  step[<<x, v>>][k] = IF x \in hits THEN val[x] ELSE v[k]
      BY DEF StepWrites
    <3> DEFINE e == recs[x]
    <3>1. ApplyEntry(v, f, e.value_pos, e)[k] =
             IF k = e.key THEN IF e.tomb THEN None ELSE [file_id |-> f, value_pos |-> e.value_pos]
                          ELSE v[k]
      BY DEF ApplyEntry, Keydirs
    <3>2. x \in hits <=> k = e.key
      BY DEF RecordsOf
    <3>3. val[x] = IF e.tomb THEN None ELSE [file_id |-> f, value_pos |-> e.value_pos]
      OBVIOUS
    <3>4. step[<<x, v>>] = next(x, v)
      OBVIOUS
    <3> HIDE DEF val, hits, e, step
    <3> QED
      BY <3>1, <3>2, <3>3, <3>4 DEF e
  <2> HIDE DEF S, hits, val, step
  <2>3. LastWins(r, S, k, hits, val)
    BY <1>1, <1>3, <1>7, <2>1, <2>2, KeydirFold
  <2>4. hits # {} => Max(hits) \in S
    BY <1>1, <2>1, WithoutMax
  <2>5. r[{}] = kd
    BY <1>7 DEF FollowsStep
  <2> QED
    BY <2>3, <2>4, <2>5 DEF LastRecord, LastWins, S, hits, val
<1>9. r[S] \in Keydirs
  <2> HIDE DEF S, step
  <2> QED
    BY <1>1, <1>3, <1>7, KeydirFold
<1> QED
  BY <1>6, <1>8, <1>9

\* The equation of the loop over the files in recover.
RecoverEqn(it, disk) ==
    it = [s \in SUBSET DOMAIN disk |->
            IF s = {} THEN EmptyKeydir
            ELSE RecoverFile(it[s \ {Max(s)}], Max(s), disk[Max(s)])]

\* Recover as the recursive function behind the fold over files.
LEMMA RecoverUnfolds ==
    ASSUME NEW disk
    PROVE  Recover(disk) = (CHOOSE it : RecoverEqn(it, disk))[DOMAIN disk]
BY DEF Recover, MapThenFoldSet, VisitedLast, RecoverEqn

IsDisk(disk) ==
    /\ IsFiniteSet(DOMAIN disk)
    /\ DOMAIN disk \subseteq Nat
    /\ \A f \in DOMAIN disk : IsData(disk[f])

\* Whether a file, by its hint or by a scan, has something on k, and what.
HasWord(data, k) ==
    IF HintIsUsable(data) THEN RecordsOf(data.hint, k) # {} ELSE Hits(data, k) # {}

WordOn(f, data, k) ==
    IF HintIsUsable(data) THEN LastRecord(RecordsOf(data.hint, k), f, data.hint, None)
                          ELSE LastHit(Hits(data, k), f, data, None)

FilesOn(disk, k) == {f \in DOMAIN disk : HasWord(disk[f], k)}

\* One file: what it has on a key replaces what was there.
LEMMA RecoverFileComputes ==
    ASSUME NEW kd \in Keydirs, NEW f \in Nat, NEW data, IsData(data)
    PROVE  /\ RecoverFile(kd, f, data) \in Keydirs
           /\ \A k \in Keys : RecoverFile(kd, f, data)[k] =
                                 IF HasWord(data, k) THEN WordOn(f, data, k) ELSE kd[k]
<1>1. CASE HintIsUsable(data)
  <2>1. IsHint(data.hint)
    BY <1>1 DEF HintIsUsable, IsData
  <2>2. RecoverFile(kd, f, data) = ApplyHint(kd, f, data.hint)
    BY <1>1 DEF RecoverFile
  <2>3. /\ ApplyHint(kd, f, data.hint) \in Keydirs
        /\ \A k \in Keys : ApplyHint(kd, f, data.hint)[k] =
              LastRecord(RecordsOf(data.hint, k), f, data.hint, kd[k])
    BY <2>1, HintComputes
  <2> QED
    BY <1>1, <2>2, <2>3 DEF HasWord, WordOn, LastRecord
<1>2. CASE ~HintIsUsable(data)
  <2>1. RecoverFile(kd, f, data) = ScanDataFile(kd, f, data)
    BY <1>2 DEF RecoverFile
  <2> QED
    BY <1>2, <2>1, ScanComputes DEF HasWord, WordOn, LastHit
<1> QED
  BY <1>1, <1>2

\* recover: the last file that has something on a key decides.
LEMMA RecoverComputes ==
    ASSUME NEW disk, IsDisk(disk)
    PROVE  /\ Recover(disk) \in Keydirs
           /\ \A k \in Keys : Recover(disk)[k] =
                 IF FilesOn(disk, k) = {} THEN None
                 ELSE WordOn(Max(FilesOn(disk, k)), disk[Max(FilesOn(disk, k))], k)
<1> DEFINE S == DOMAIN disk
           next(x, v) == RecoverFile(v, x, disk[x])
           step == [p \in S \X Keydirs |-> next(p[1], p[2])]
<1>1. IsFiniteSet(S) /\ S \subseteq Nat
  BY DEF IsDisk
<1>2. \A x \in S, v \in Keydirs : next(x, v) \in Keydirs
  BY RecoverFileComputes DEF IsDisk
<1>3. IsStep(step, S, Keydirs)
  BY <1>2 DEF IsStep
<1>4. \E it : RecoverEqn(it, disk)
  <2>1. PICK it \in [SUBSET S -> Keydirs] : FoldEqn(it, step, EmptyKeydir, SUBSET S)
    <3> HIDE DEF S, step
    <3> QED
      BY <1>1, <1>3, FoldExists, EmptyKeydirType
  <2>2. ASSUME NEW s \in SUBSET S, s # {}
        PROVE  it[s] = next(Max(s), it[s \ {Max(s)}])
    <3>1. Max(s) \in S /\ s \ {Max(s)} \in SUBSET S
      BY <1>1, <2>2, WithoutMax
    <3>2. it[s \ {Max(s)}] \in Keydirs
      BY <3>1
    <3>3. it[s] = step[<<Max(s), it[s \ {Max(s)}]>>]
      BY <2>1, <2>2 DEF FoldEqn
    <3> QED
      BY <3>1, <3>2, <3>3
  <2>3. it[{}] = EmptyKeydir
    BY <2>1 DEF FoldEqn
  <2>4. RecoverEqn(it, disk)
    <3>1. it = [s \in SUBSET S |-> it[s]]
      OBVIOUS
    <3> QED
      BY <2>2, <2>3, <3>1 DEF RecoverEqn
  <2> QED
    BY <2>4
<1> DEFINE r == CHOOSE it : RecoverEqn(it, disk)
<1>5. RecoverEqn(r, disk)
  BY <1>4
<1>6. Recover(disk) = r[S]
  BY RecoverUnfolds
<1> HIDE DEF r
<1>7. FollowsStep(r, S, EmptyKeydir, step)
  <2>1. r[{}] = EmptyKeydir
    BY <1>5 DEF RecoverEqn
  <2>2. ASSUME NEW s \in SUBSET S, s # {}, r[s \ {Max(s)}] \in Keydirs
        PROVE  r[s] = step[<<Max(s), r[s \ {Max(s)}]>>]
    <3>1. Max(s) \in S
      BY <1>1, <2>2, WithoutMax
    <3>2. r[s] = next(Max(s), r[s \ {Max(s)}])
      BY <1>5, <2>2, <3>1 DEF RecoverEqn
    <3> QED
      BY <2>2, <3>1, <3>2
  <2> QED
    BY <2>1, <2>2 DEF FollowsStep
<1>8. ASSUME NEW k \in Keys
      PROVE  r[S][k] = IF FilesOn(disk, k) = {} THEN None
                       ELSE WordOn(Max(FilesOn(disk, k)), disk[Max(FilesOn(disk, k))], k)
  <2> DEFINE hits == FilesOn(disk, k)
             val == [f \in S |-> WordOn(f, disk[f], k)]
  <2>1. hits \in SUBSET S
    BY DEF FilesOn
  <2>2. StepWrites(step, S, k, hits, val)
    <3> SUFFICES ASSUME NEW x \in S, NEW v \in Keydirs
                 PROVE  step[<<x, v>>][k] = IF x \in hits THEN val[x] ELSE v[k]
      BY DEF StepWrites
    <3>1. RecoverFile(v, x, disk[x])[k] = IF HasWord(disk[x], k) THEN WordOn(x, disk[x], k)
                                          ELSE v[k]
      BY RecoverFileComputes DEF IsDisk
    <3>2. x \in hits <=> HasWord(disk[x], k)
      BY DEF FilesOn
    <3>3. step[<<x, v>>] = next(x, v)
      OBVIOUS
    <3> HIDE DEF hits, step
    <3> QED
      BY <3>1, <3>2, <3>3
  <2> HIDE DEF S, hits, val, step
  <2>3. LastWins(r, S, k, hits, val)
    BY <1>1, <1>3, <1>7, <2>1, <2>2, KeydirFold, EmptyKeydirType
  <2>4. hits # {} => Max(hits) \in S
    BY <1>1, <2>1, WithoutMax
  <2>5. r[{}][k] = None
    BY <1>7 DEF FollowsStep, EmptyKeydir
  <2> QED
    BY <2>3, <2>4, <2>5 DEF LastWins, S, hits, val
<1>9. r[S] \in Keydirs
  <2> HIDE DEF S, step
  <2> QED
    BY <1>1, <1>3, <1>7, KeydirFold, EmptyKeydirType
<1> QED
  BY <1>6, <1>8, <1>9
=============================================================================
