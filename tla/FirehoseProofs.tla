---------------------------- MODULE FirehoseProofs ----------------------------
(* Proofs about Firehose, for any feed, any number of frames, ticks and      *)
(* failures, any length of the charts and any interval between merges: what  *)
(* the charts hold, when a change is synced, and what the store misses.      *)
EXTENDS Firehose, FiniteSetTheorems, TLAPS

-----------------------------------------------------------------------------
(* The inductive invariant.                                                  *)

MetricRec  == [total : Nat, this_tick : Nat, history : Seq(Nat)]
LatencyRec == [last_count : Nat, last_nanos : Nat, history : Seq(Nat)]
CounterRec == [count : Nat, nanos : Nat]
Words      == {"warning", "deleted", "stored", "completed"}

\* The task: inside a frame there is a repository, and operations to come.
MainInv ==
    /\ main \in {"select", "ops", "closing", "ended"}
    /\ size \in 0..MaxOps /\ left \in 0..size
    /\ main = "ops" => repo \in Repos /\ left > 0
    /\ car_blocks \in BOOLEAN /\ warned \in BOOLEAN /\ ticks \in Nat
    /\ log \in Seq(Words) /\ Len(log) <= LOG_LEN

\* The counters and the charts; those of posts have as many columns as that of the frames.
CounterInv ==
    /\ metrics \in [Counted -> MetricRec]
    /\ latency \in [Charted -> LatencyRec]
    /\ engine_metrics \in [Calls -> CounterRec]

ColumnsInv ==
    /\ Len(metrics["frames"].history) <= HISTORY_LEN
    /\ \A c \in Counted : Len(metrics[c].history) = Len(metrics["frames"].history)
    /\ \A c \in Charted : Len(latency[c].history) = Len(metrics["frames"].history)

\* n nanoseconds are as many calls: what bounds each of them bounds their sum.
IsTimeOf(n, calls) ==
    /\ \A b \in Nat : (\A d \in Durations : b <= d) => b * calls <= n
    /\ \A b \in Nat : (\A d \in Durations : d <= b) => n <= b * calls

\* The running second: what was counted in it is what the engine has reported since the
\* last tick, each call with its duration, and it is of some frame.
SecondInv ==
    /\ \A c \in Charted :
          /\ engine_metrics[c].count = latency[c].last_count + metrics[CountedAs[c]].this_tick
          /\ engine_metrics[c].nanos >= latency[c].last_nanos
          /\ IsTimeOf(engine_metrics[c].nanos - latency[c].last_nanos,
                      metrics[CountedAs[c]].this_tick)
    /\ main = "ops" => metrics["frames"].this_tick > 0
    /\ metrics["frames"].this_tick = 0 => \A c \in Counted : metrics[c].this_tick = 0

CountInv == MainInv /\ CounterInv /\ ColumnsInv /\ SecondInv /\ AppAgreesWithEngine /\ ColumnsMatch

\* The charts make up the totals, and have at most as many columns as there were ticks.
ChartInv ==
    /\ Len(metrics["frames"].history) <= ticks
    /\ ChartsAddUp

\* The oldest change waits since the last merge, or since as many intervals as failed.
SyncInv ==
    /\ ticks_since_merge \in 0..MERGE_INTERVAL_TICKS - 1
    /\ age \in Nat \cup {NoChange} /\ missed \in Nat
    /\ age # NoChange => age <= ticks_since_merge + MERGE_INTERVAL_TICKS * missed
    /\ EndedIsSynced

Keys == {PostKey(r, j) : r \in Repos, j \in Rkeys}

\* A post that differs from what the network says of it was given up or counted as skipped.
FeedInv ==
    /\ store \in [Keys -> Texts \cup {NoPost}]
    /\ feed \in [Posts -> Texts \cup {NoPost}]
    /\ warned \/ metrics["skipped"].total > 0
          \/ \A r \in Repos, k \in Rkeys : store[PostKey(r, k)] = feed[<<r, k>>]

IInv == CountInv /\ ChartInv /\ SyncInv /\ FeedInv

-----------------------------------------------------------------------------
(* The operators on counters and charts.                                     *)

\* The lengths and the bounds are numbers.
LEMMA ConstantsOK ==
    /\ HISTORY_LEN \in Nat \ {0} /\ LOG_LEN \in Nat \ {0} /\ MERGE_INTERVAL_TICKS \in Nat \ {0}
    /\ MaxFrames \in Nat /\ MaxOps \in Nat /\ MaxTicks \in Nat /\ MaxFailures \in Nat
    /\ NoPost \notin Texts /\ Durations \subseteq Nat
BY FirehoseAssumption

\* p is q with x pushed: a full deque loses its first column.
IsPushed(p, q, x, len) ==
    /\ Len(p) = IF Len(q) >= len THEN Len(q) ELSE Len(q) + 1
    /\ Len(p) <= len
    /\ \A i \in 1..Len(p) : p[i] = IF i = Len(p) THEN x
                                   ELSE IF Len(q) >= len THEN q[i + 1] ELSE q[i]

\* A push keeps the bound of the deque, and moves the columns by one when it is full.
LEMMA PushedOK ==
    ASSUME NEW S, NEW q \in Seq(S), NEW x \in S, NEW len \in Nat \ {0}, Len(q) <= len
    PROVE  Pushed(q, x, len) \in Seq(S) /\ IsPushed(Pushed(q, x, len), q, x, len)
<1>1. CASE Len(q) < len
  <2>1. Pushed(q, x, len) = Append(q, x)
    BY <1>1 DEF Pushed
  <2> QED
    BY <1>1, <2>1 DEF IsPushed
<1>2. CASE Len(q) >= len
  <2>1. Pushed(q, x, len) = Append(Tail(q), x)
    BY <1>2 DEF Pushed
  <2>2. q # << >>
    BY <1>2
  <2> DEFINE t == Tail(q)
  <2>3. /\ t \in Seq(S) /\ Len(t) = Len(q) - 1
        /\ \A i \in 1..Len(q) - 1 : t[i] = q[i + 1]
    BY <2>2
  <2>4. Pushed(q, x, len) = Append(t, x)
    BY <2>1
  <2> HIDE DEF t
  <2>5. Append(t, x) \in Seq(S) /\ Len(Append(t, x)) = Len(q)
    BY <2>3
  <2>6. \A i \in 1..Len(q) : Append(t, x)[i] = IF i = Len(q) THEN x ELSE t[i]
    BY <2>3
  <2>7. \A i \in 1..Len(q) : Append(t, x)[i] = IF i = Len(q) THEN x ELSE q[i + 1]
    BY <2>3, <2>6
  <2> QED
    BY <1>2, <2>4, <2>5, <2>7 DEF IsPushed
<1> QED
  BY <1>1, <1>2

\* Counting one keeps the columns drawn so far.
LEMMA RecordedOK ==
    ASSUME NEW m \in MetricRec
    PROVE  /\ Recorded(m, 1) \in MetricRec
           /\ Recorded(m, 1).total = m.total + 1
           /\ Recorded(m, 1).this_tick = m.this_tick + 1
           /\ Recorded(m, 1).history = m.history
<1>1. m.total + 1 \in Nat /\ m.this_tick + 1 \in Nat
  BY DEF MetricRec
<1>2. \A t, k \in Nat : [m EXCEPT !.total = t, !.this_tick = k] \in MetricRec
  BY DEF MetricRec
<1>3. Recorded(m, 1) = [m EXCEPT !.total = m.total + 1, !.this_tick = m.this_tick + 1]
  BY DEF Recorded
<1>4. /\ Recorded(m, 1).total = m.total + 1
      /\ Recorded(m, 1).this_tick = m.this_tick + 1
      /\ Recorded(m, 1).history = m.history
  BY DEF Recorded, MetricRec
<1> QED
  BY <1>1, <1>2, <1>3, <1>4

\* The second that ends becomes a column.
LEMMA TickedOK ==
    ASSUME NEW m \in MetricRec
    PROVE  /\ Ticked(m).total = m.total
           /\ Ticked(m).this_tick = 0
           /\ Ticked(m).history = Pushed(m.history, m.this_tick, HISTORY_LEN)
BY DEF Ticked, MetricRec

\* It is still the record of a counter.
LEMMA TickedRec ==
    ASSUME NEW m \in MetricRec, Pushed(m.history, m.this_tick, HISTORY_LEN) \in Seq(Nat)
    PROVE  Ticked(m) \in MetricRec
BY DEF Ticked, MetricRec

\* No call takes no time.
LEMMA NoCalls == IsTimeOf(0, 0)
BY DEF IsTimeOf

\* One call more takes its time.
LEMMA TimeGrows ==
    ASSUME NEW n \in Nat, NEW calls \in Nat, NEW d \in Durations, IsTimeOf(n, calls)
    PROVE  IsTimeOf(n + d, calls + 1)
<1>1. d \in Nat
  BY ConstantsOK
<1>2. \A b \in Nat : b * calls \in Nat /\ b * (calls + 1) = b * calls + b
  OBVIOUS
<1>3. ASSUME NEW b \in Nat, \A x \in Durations : b <= x
      PROVE  b * (calls + 1) <= n + d
  <2>1. b * calls <= n /\ b <= d
    BY <1>3 DEF IsTimeOf
  <2> QED
    BY <1>1, <1>2, <2>1
<1>4. ASSUME NEW b \in Nat, \A x \in Durations : x <= b
      PROVE  n + d <= b * (calls + 1)
  <2>1. n <= b * calls /\ d <= b
    BY <1>4 DEF IsTimeOf
  <2> QED
    BY <1>1, <1>2, <2>1
<1> QED
  BY <1>3, <1>4 DEF IsTimeOf

\* A quotient, multiplied again, is what was divided, or misses less than the divisor.
LEMMA Quotient ==
    ASSUME NEW n \in Nat, NEW c \in Nat \ {0}
    PROVE  n \div c \in Nat /\ (n \div c) * c <= n /\ n < (n \div c) * c + c
OBVIOUS

\* So the average of calls lies between what some of them may have taken.
LEMMA AverageOK ==
    ASSUME NEW n \in Nat, NEW calls \in Nat, IsTimeOf(n, calls)
    PROVE  Average(n, calls) \in Nat /\ IsAverageOf(Average(n, calls), calls)
<1>1. CASE calls = 0
  BY <1>1 DEF Average, IsAverageOf
<1>2. CASE calls # 0
  <2> DEFINE q == n \div calls  p == q * calls
  <2>1. q \in Nat /\ p \in Nat /\ p <= n /\ n < p + calls
    BY <1>2, Quotient
  <2>2. Average(n, calls) = q
    BY <1>2 DEF Average
  <2> HIDE DEF q
  <2>3. (q + 1) * calls = p + calls /\ (q # 0 => (q - 1) * calls = p - calls)
    BY <2>1
  <2> HIDE DEF p
  <2>4. \E lo \in Durations : lo <= q
    <3> SUFFICES ASSUME \A d \in Durations : ~(d <= q) PROVE FALSE
      OBVIOUS
    <3>1. \A d \in Durations : q + 1 <= d
      BY <2>1, ConstantsOK
    <3>2. (q + 1) * calls <= n
      BY <2>1, <3>1 DEF IsTimeOf
    <3> QED
      BY <2>1, <2>3, <3>2
  <2>5. \E hi \in Durations : q <= hi
    <3>1. CASE q = 0
      BY <2>4, <3>1, ConstantsOK
    <3>2. CASE q # 0
      <4> SUFFICES ASSUME \A d \in Durations : ~(q <= d) PROVE FALSE
        OBVIOUS
      <4>1. q - 1 \in Nat /\ \A d \in Durations : d <= q - 1
        BY <2>1, <3>2, ConstantsOK
      <4>2. n <= (q - 1) * calls
        BY <4>1 DEF IsTimeOf
      <4> QED
        BY <1>2, <2>1, <2>3, <3>2, <4>2
    <3> QED
      BY <3>1, <3>2
  <2> QED
    BY <1>2, <2>1, <2>2, <2>4, <2>5 DEF IsAverageOf
<1> QED
  BY <1>1, <1>2

-----------------------------------------------------------------------------
(* What a chart adds up to.  SumOf folds over the columns in the order in    *)
(* which CHOOSE picks them; the sum does not depend on it.                   *)

\* A sum over the subsets of S: any element may be taken off first.
IsSum(it, q, S) ==
    /\ it \in [SUBSET S -> Nat]
    /\ it[{}] = 0
    /\ \A s \in SUBSET S : \A x \in s : it[s] = q[x] + it[s \ {x}]

HasSum(q, S) == \E it : IsSum(it, q, S)

NatLess == {ss \in Nat \X Nat : ss[1] < ss[2]}

\* Induction over the natural numbers, for a set instead of a predicate.
LEMMA NatSetInduction ==
    ASSUME NEW S, 0 \in S, \A n \in Nat : n \in S => n + 1 \in S
    PROVE  Nat \subseteq S
<1>1. SUFFICES ASSUME Nat \ S # {} PROVE FALSE
  OBVIOUS
<1>2. IsWellFoundedOn(NatLess, Nat)
  BY NatLessThanWellFounded DEF OpToRel, NatLess
<1>3. PICK m \in Nat \ S : \A y \in Nat \ S : <<y, m>> \notin NatLess
  <2>1. Nat \ S \subseteq Nat
    OBVIOUS
  <2> QED
    BY <1>1, <1>2, <2>1, WFMin
<1>4. m - 1 \in Nat /\ <<m - 1, m>> \in NatLess
  BY DEF NatLess
<1>5. (m - 1) + 1 \in S
  BY <1>3, <1>4
<1> QED
  BY <1>5

\* One column more still has a sum.
LEMMA SumGrows ==
    ASSUME NEW q, NEW S, NEW m, m \notin S, q[m] \in Nat, \A x \in S : q[x] \in Nat, HasSum(q, S)
    PROVE  HasSum(q, S \cup {m})
<1>1. PICK it : IsSum(it, q, S)
  BY DEF HasSum
<1> DEFINE T == S \cup {m}
           g == [s \in SUBSET T |-> IF m \in s THEN it[s \ {m}] + q[m] ELSE it[s]]
<1>2. \A s \in SUBSET T : s \ {m} \in SUBSET S /\ (m \notin s => s \in SUBSET S)
  OBVIOUS
<1>3. \A s \in SUBSET S : it[s] \in Nat
  BY <1>1 DEF IsSum
<1>4. g \in [SUBSET T -> Nat]
  BY <1>2, <1>3
<1>5. g[{}] = 0
  BY <1>1 DEF IsSum
<1>6. ASSUME NEW s \in SUBSET T, NEW x \in s
      PROVE  g[s] = q[x] + g[s \ {x}]
  <2>1. s \ {x} \in SUBSET T /\ q[x] \in Nat
    OBVIOUS
  <2>2. CASE x = m
    <3>1. g[s] = it[s \ {m}] + q[m] /\ g[s \ {m}] = it[s \ {m}]
      BY <2>1, <2>2
    <3> QED
      BY <1>2, <1>3, <2>2, <3>1
  <2>3. CASE x # m /\ m \in s
    <3>1. g[s] = it[s \ {m}] + q[m] /\ g[s \ {x}] = it[(s \ {x}) \ {m}] + q[m]
      BY <2>1, <2>3
    <3>2. (s \ {x}) \ {m} = (s \ {m}) \ {x} /\ x \in s \ {m} /\ s \ {m} \in SUBSET S
            /\ (s \ {m}) \ {x} \in SUBSET S
      BY <2>3
    <3>3. it[s \ {m}] = q[x] + it[(s \ {m}) \ {x}]
      BY <1>1, <3>2 DEF IsSum
    <3>4. it[s \ {m}] \in Nat /\ it[(s \ {m}) \ {x}] \in Nat
      BY <1>3, <3>2
    <3> HIDE DEF g
    <3> QED
      BY <2>1, <3>1, <3>2, <3>3, <3>4
  <2>4. CASE m \notin s
    <3>1. g[s] = it[s] /\ g[s \ {x}] = it[s \ {x}]
      BY <2>1, <2>4
    <3>2. it[s] = q[x] + it[s \ {x}]
      BY <1>1, <1>2, <2>4 DEF IsSum
    <3> QED
      BY <3>1, <3>2
  <2> QED
    BY <2>2, <2>3, <2>4
<1>7. IsSum(g, q, T)
  <2> HIDE DEF g
  <2> QED
    BY <1>4, <1>5, <1>6 DEF IsSum
<1> QED
  BY <1>7 DEF HasSum

\* Every chart has a sum.
LEMMA SumExists ==
    ASSUME NEW q \in Seq(Nat)
    PROVE  HasSum(q, 1..Len(q))
<1> DEFINE N == {n \in Nat : n <= Len(q) => HasSum(q, 1..n)}
<1>1. 0 \in N
  <2>1. IsSum([s \in {{}} |-> 0], q, {})
    BY DEF IsSum
  <2>2. 1..0 = {}
    OBVIOUS
  <2> QED
    BY <2>1, <2>2 DEF HasSum
<1>2. ASSUME NEW n \in Nat, n \in N
      PROVE  n + 1 \in N
  <2> SUFFICES ASSUME n + 1 <= Len(q) PROVE HasSum(q, 1..(n + 1))
    OBVIOUS
  <2>1. HasSum(q, 1..n)
    BY <1>2
  <2> DEFINE S == 1..n
  <2>2. 1..(n + 1) = S \cup {n + 1} /\ n + 1 \notin S
    OBVIOUS
  <2>3. q[n + 1] \in Nat /\ \A x \in S : q[x] \in Nat
    OBVIOUS
  <2> HIDE DEF S
  <2>4. HasSum(q, S \cup {n + 1})
    BY <2>1, <2>2, <2>3, SumGrows DEF S
  <2> QED
    BY <2>2, <2>4
<1>3. Nat \subseteq N
  <2> HIDE DEF N
  <2> QED
    BY <1>1, <1>2, NatSetInduction
<1>4. Len(q) \in N
  BY <1>3
<1> QED
  BY <1>4

\* The equation of the fold in SumOf.
SumEqn(it, q) ==
    it = [s \in SUBSET DOMAIN q |->
            IF s = {} THEN 0
            ELSE q[CHOOSE x \in s : TRUE] + it[s \ {CHOOSE x \in s : TRUE}]]

\* SumOf as the recursive function behind the fold.
LEMMA SumUnfolds ==
    ASSUME NEW q
    PROVE  SumOf(q) = (CHOOSE it : SumEqn(it, q))[DOMAIN q]
BY DEF SumOf, FoldFunction, FoldFunctionOnSet, MapThenFoldSet, SumEqn

\* SumOf is the sum.
LEMMA SumComputes ==
    ASSUME NEW q \in Seq(Nat), NEW it, IsSum(it, q, 1..Len(q))
    PROVE  SumOf(q) = it[1..Len(q)]
<1> DEFINE S    == 1..Len(q)
           pick(s) == CHOOSE x \in s : TRUE
           r    == CHOOSE f : SumEqn(f, q)
           U    == {s \in SUBSET S : r[s] # it[s]}
<1>1. DOMAIN q = S /\ IsFiniteSet(S)
  BY FS_Interval
<1>2. \A s \in SUBSET S : s # {} => pick(s) \in s
  OBVIOUS
<1>3. SumEqn(it, q)
  <2>1. it = [s \in SUBSET S |-> it[s]]
    BY DEF IsSum
  <2>2. \A s \in SUBSET S : s # {} => it[s] = q[pick(s)] + it[s \ {pick(s)}]
    BY <1>2 DEF IsSum
  <2>3. it[{}] = 0
    BY DEF IsSum
  <2>4. it = [s \in SUBSET S |-> IF s = {} THEN 0 ELSE q[pick(s)] + it[s \ {pick(s)}]]
    <3> HIDE DEF pick, S
    <3> QED
      BY <2>1, <2>2, <2>3
  <2> QED
    BY <1>1, <2>4 DEF SumEqn
<1>4. SumEqn(r, q)
  BY <1>3
<1>5. r[{}] = 0 /\ \A s \in SUBSET S : s # {} => r[s] = q[pick(s)] + r[s \ {pick(s)}]
  <2> HIDE DEF r
  <2> QED
    BY <1>1, <1>4 DEF SumEqn
<1> HIDE DEF r
<1>6. U = {}
  <2> SUFFICES ASSUME U # {} PROVE FALSE
    OBVIOUS
  <2>1. IsWellFoundedOn(StrictSubsetOrdering(S), FiniteSubsetsOf(S))
    BY FS_StrictSubsetOrderingWellFounded
  <2>2. U \subseteq FiniteSubsetsOf(S)
    BY <1>1, FS_FiniteSubsetsOfFinite
  <2>3. PICK s \in U : \A u \in U : <<u, s>> \notin StrictSubsetOrdering(S)
    <3> HIDE DEF U, S
    <3> QED
      BY <2>1, <2>2, WFMin
  <2>4. s # {}
    BY <1>5 DEF IsSum
  <2> DEFINE u == s \ {pick(s)}
  <2>5. pick(s) \in s /\ u \in SUBSET S /\ u \subseteq s /\ u # s
    BY <1>2, <2>4
  <2>6. u \notin U
    <3>1. s \in SUBSET S
      OBVIOUS
    <3> HIDE DEF u, U, S
    <3>2. <<u, s>> \in StrictSubsetOrdering(S)
      BY <2>5, <3>1 DEF StrictSubsetOrdering
    <3> QED
      BY <2>3, <3>2
  <2>7. r[u] = it[u]
    BY <2>5, <2>6
  <2>8. it[s] = q[pick(s)] + it[u]
    BY <2>5 DEF IsSum
  <2>9. r[s] = q[pick(s)] + r[u]
    BY <1>5, <2>4
  <2> QED
    BY <2>7, <2>8, <2>9
<1>7. S \notin U
  BY <1>6
<1> QED
  BY <1>1, <1>7, SumUnfolds DEF r

\* Nothing adds up to nothing.
LEMMA SumType ==
    /\ SumOf(<< >>) = 0
    /\ \A q \in Seq(Nat) : SumOf(q) \in Nat
<1>1. SumOf(<< >>) = 0
  <2>1. << >> \in Seq(Nat) /\ 1..Len(<< >>) = {}
    OBVIOUS
  <2>2. PICK it : IsSum(it, << >>, 1..Len(<< >>))
    BY <2>1, SumExists DEF HasSum
  <2>3. SumOf(<< >>) = it[1..Len(<< >>)]
    BY <2>1, <2>2, SumComputes
  <2> QED
    BY <2>1, <2>2, <2>3 DEF IsSum
<1>2. ASSUME NEW q \in Seq(Nat)
      PROVE  SumOf(q) \in Nat
  <2>1. PICK it : IsSum(it, q, 1..Len(q))
    BY SumExists DEF HasSum
  <2> QED
    BY <2>1, SumComputes DEF IsSum
<1> QED
  BY <1>1, <1>2

\* A new column adds its height.
LEMMA SumAppend ==
    ASSUME NEW q \in Seq(Nat), NEW x \in Nat
    PROVE  SumOf(Append(q, x)) = SumOf(q) + x
<1> DEFINE n == Len(q)  p == Append(q, x)
<1>1. p \in Seq(Nat) /\ Len(p) = n + 1 /\ p[n + 1] = x /\ \A i \in 1..n : p[i] = q[i]
  OBVIOUS
<1>2. n \in Nat /\ n + 1 \in 1..(n + 1) /\ (1..(n + 1)) \ {n + 1} = 1..n
        /\ SUBSET (1..n) \subseteq SUBSET (1..(n + 1))
  OBVIOUS
<1> HIDE DEF p
<1>3. PICK it : IsSum(it, p, 1..(n + 1))
  BY <1>1, SumExists DEF HasSum
<1>4. SumOf(p) = it[1..(n + 1)]
  BY <1>1, <1>3, SumComputes
<1> DEFINE g == [s \in SUBSET (1..n) |-> it[s]]
<1>5. IsSum(g, q, 1..n)
  <2>1. g \in [SUBSET (1..n) -> Nat] /\ g[{}] = 0
    BY <1>2, <1>3 DEF IsSum
  <2>2. ASSUME NEW s \in SUBSET (1..n), NEW y \in s
        PROVE  g[s] = q[y] + g[s \ {y}]
    <3>1. s \in SUBSET (1..(n + 1)) /\ s \ {y} \in SUBSET (1..n)
      BY <1>2
    <3>2. it[s] = p[y] + it[s \ {y}] /\ p[y] = q[y]
      BY <1>1, <1>3, <3>1 DEF IsSum
    <3> QED
      BY <3>1, <3>2
  <2> HIDE DEF g
  <2> QED
    BY <2>1, <2>2 DEF IsSum
<1>6. SumOf(q) = it[1..n]
  <2>1. SumOf(q) = g[1..n]
    <3> HIDE DEF g
    <3> QED
      BY <1>5, SumComputes
  <2> QED
    BY <2>1
<1>7. it[1..(n + 1)] = p[n + 1] + it[1..n]
  BY <1>2, <1>3 DEF IsSum
<1> QED
  BY <1>1, <1>4, <1>6, <1>7, SumType DEF p

\* What scrolls away takes its height with it.
LEMMA SumTail ==
    ASSUME NEW q \in Seq(Nat), q # << >>
    PROVE  SumOf(q) = q[1] + SumOf(Tail(q))
<1> DEFINE n == Len(q)  p == Tail(q)
           Up(s) == {i + 1 : i \in s}
<1>1. p \in Seq(Nat) /\ Len(p) = n - 1 /\ \A i \in 1..n - 1 : p[i] = q[i + 1]
  OBVIOUS
<1>2. n \in Nat \ {0} /\ 1 \in 1..n
  OBVIOUS
<1> HIDE DEF p
<1>3. PICK it : IsSum(it, q, 1..n)
  BY SumExists DEF HasSum
<1>4. SumOf(q) = it[1..n]
  BY <1>3, SumComputes
<1>5. /\ \A s \in SUBSET (1..n - 1) : Up(s) \in SUBSET (1..n)
      /\ Up({}) = {}
      /\ \A s \in SUBSET (1..n - 1) : \A y \in s : y + 1 \in Up(s) /\ Up(s) \ {y + 1} = Up(s \ {y})
  <2>1. ASSUME NEW s \in SUBSET (1..n - 1), NEW y \in s
        PROVE  y + 1 \in Up(s) /\ Up(s) \ {y + 1} = Up(s \ {y})
    <3>1. \A i \in s : i \in Int /\ (i + 1 = y + 1) = (i = y)
      BY <1>2
    <3>2. \A z : z \in Up(s) \ {y + 1} <=> z \in Up(s \ {y})
      BY <3>1
    <3> QED
      BY <3>2
  <2>2. ASSUME NEW s \in SUBSET (1..n - 1)
        PROVE  Up(s) \in SUBSET (1..n)
    BY <1>2
  <2> QED
    BY <2>1, <2>2
<1>6. Up(1..n - 1) = (1..n) \ {1}
  <2>1. ASSUME NEW i \in (1..n) \ {1}
        PROVE  i \in Up(1..n - 1)
    <3>1. i - 1 \in 1..n - 1 /\ i = (i - 1) + 1
      BY <1>2
    <3> QED
      BY <3>1
  <2> QED
    BY <1>2, <2>1
<1> DEFINE g == [s \in SUBSET (1..n - 1) |-> it[Up(s)]]
<1>7. IsSum(g, p, 1..n - 1)
  <2> HIDE DEF Up
  <2>1. g \in [SUBSET (1..n - 1) -> Nat] /\ g[{}] = 0
    BY <1>3, <1>5 DEF IsSum
  <2>2. ASSUME NEW s \in SUBSET (1..n - 1), NEW y \in s
        PROVE  g[s] = p[y] + g[s \ {y}]
    <3>1. Up(s) \in SUBSET (1..n) /\ y + 1 \in Up(s) /\ Up(s) \ {y + 1} = Up(s \ {y})
      BY <1>5
    <3>2. it[Up(s)] = q[y + 1] + it[Up(s \ {y})]
      <4>1. it[Up(s)] = q[y + 1] + it[Up(s) \ {y + 1}]
        BY <1>3, <3>1 DEF IsSum
      <4> QED
        BY <3>1, <4>1
    <3>3. p[y] = q[y + 1]
      BY <1>1
    <3>4. g[s] = it[Up(s)] /\ g[s \ {y}] = it[Up(s \ {y})]
      OBVIOUS
    <3> QED
      BY <3>2, <3>3, <3>4
  <2> HIDE DEF g
  <2> QED
    BY <2>1, <2>2 DEF IsSum
<1>8. SumOf(p) = it[Up(1..n - 1)]
  <2>1. SumOf(p) = g[1..n - 1]
    <3> HIDE DEF g
    <3> QED
      BY <1>1, <1>7, SumComputes
  <2> HIDE DEF Up
  <2> QED
    BY <2>1
<1>9. it[1..n] = q[1] + it[(1..n) \ {1}]
  BY <1>2, <1>3 DEF IsSum
<1> HIDE DEF Up
<1> QED
  BY <1>4, <1>6, <1>8, <1>9 DEF p

\* A push adds the new column, and nothing more is lost than what scrolls away.
LEMMA SumPushed ==
    ASSUME NEW q \in Seq(Nat), NEW x \in Nat, NEW len \in Nat \ {0}
    PROVE  /\ SumOf(Pushed(q, x, len)) <= SumOf(q) + x
           /\ Len(q) < len => SumOf(Pushed(q, x, len)) = SumOf(q) + x
<1>1. CASE Len(q) < len
  <2>1. Pushed(q, x, len) = Append(q, x)
    BY <1>1 DEF Pushed
  <2> QED
    BY <2>1, SumAppend, SumType
<1>2. CASE Len(q) >= len
  <2>1. Pushed(q, x, len) = Append(Tail(q), x) /\ q # << >>
    BY <1>2 DEF Pushed
  <2>2. Tail(q) \in Seq(Nat) /\ q[1] \in Nat
    BY <2>1
  <2>3. SumOf(Append(Tail(q), x)) = SumOf(Tail(q)) + x
    BY <2>2, SumAppend
  <2>4. SumOf(q) = q[1] + SumOf(Tail(q))
    BY <2>1, SumTail
  <2>5. SumOf(q) \in Nat /\ SumOf(Tail(q)) \in Nat
    BY <2>2, SumType
  <2> QED
    BY <1>2, <2>1, <2>2, <2>3, <2>4, <2>5
<1> QED
  BY <1>1, <1>2

-----------------------------------------------------------------------------
\* At the start nothing is counted, stored or missed.
LEMMA InitOK == Init => IInv
<1> SUFFICES ASSUME Init PROVE IInv
  OBVIOUS
<1> USE ConstantsOK
<1>1. metrics = [c \in Counted |-> NewMetric] /\ latency = [c \in Charted |-> NewLatencyMetric]
        /\ engine_metrics = [c \in Calls |-> NewCounter]
  BY DEF Init
<1>2. NewMetric \in MetricRec /\ NewLatencyMetric \in LatencyRec
        /\ NewCounter \in CounterRec
  BY DEF NewMetric, NewLatencyMetric, NewCounter, MetricRec, LatencyRec, CounterRec
<1>3. \A c \in Counted : metrics[c].total = 0 /\ metrics[c].this_tick = 0 /\ metrics[c].history = << >>
  BY <1>1 DEF NewMetric
<1>4. \A c \in Charted : latency[c].last_count = 0 /\ latency[c].last_nanos = 0
                           /\ latency[c].history = << >>
  BY <1>1 DEF NewLatencyMetric
<1>5. \A c \in Calls : engine_metrics[c].count = 0 /\ engine_metrics[c].nanos = 0
  BY <1>1 DEF NewCounter
<1>6. MainInv
  <2>1. log \in Seq(Words) /\ Len(log) <= LOG_LEN
    BY DEF Init
  <2>2. size \in 0..MaxOps /\ left \in 0..size /\ ticks \in Nat
    BY DEF Init
  <2>3. car_blocks \in BOOLEAN /\ warned \in BOOLEAN /\ main = "select"
    BY Zenon DEF Init
  <2> QED
    BY <2>1, <2>2, <2>3 DEF MainInv
<1>7. CounterInv
  BY <1>1, <1>2 DEF CounterInv
<1>8. ColumnsInv /\ ColumnsMatch
  <2>1. \A c \in Counted : Len(metrics[c].history) = 0 /\ DOMAIN metrics[c].history = {}
    BY <1>3
  <2>2. \A c \in Charted : Len(latency[c].history) = 0
    BY <1>4
  <2>3. "frames" \in Counted
    BY DEF Counted
  <2> QED
    BY <2>1, <2>2, <2>3 DEF ColumnsInv, ColumnsMatch
<1>9. SecondInv /\ AppAgreesWithEngine
  BY <1>3, <1>4, <1>5, NoCalls
     DEF Init, SecondInv, AppAgreesWithEngine, Counted, Charted, Calls, CountedAs
<1>10. SyncInv
  BY DEF Init, SyncInv, EndedIsSynced, NoChange
<1>11. FeedInv
  <2>1. store = [k \in Keys |-> NoPost] /\ feed = [p \in Posts |-> NoPost]
    BY DEF Init, Keys
  <2>2. \A r \in Repos, k \in Rkeys : PostKey(r, k) \in Keys /\ <<r, k>> \in Posts
    BY DEF Keys, Posts
  <2> QED
    BY <2>1, <2>2 DEF FeedInv
<1>12. ChartInv
  <2>1. ticks = 0 /\ "frames" \in Counted
    BY DEF Init, Counted
  <2> QED
    BY <1>3, <2>1, SumType DEF ChartInv, ChartsAddUp
<1> QED
  BY <1>6, <1>7, <1>8, <1>9, <1>10, <1>11, <1>12 DEF IInv, CountInv

-----------------------------------------------------------------------------
(* A step inside a second.                                                   *)

\* A call that is recorded is one more of its kind.
LEMMA CollectedOK ==
    ASSUME NEW em \in [Calls -> CounterRec], NEW call \in Calls, NEW d \in Nat
    PROVE  /\ Collected(em, call, d) \in [Calls -> CounterRec]
           /\ Collected(em, call, d)[call].count = em[call].count + 1
           /\ Collected(em, call, d)[call].nanos = em[call].nanos + d
           /\ \A c \in Calls \ {call} : Collected(em, call, d)[c] = em[c]
<1>1. em[call].count \in Nat /\ em[call].nanos \in Nat
  BY DEF CounterRec
<1> DEFINE new == [count |-> em[call].count + 1, nanos |-> em[call].nanos + d]
<1>2. new \in CounterRec /\ new.count = em[call].count + 1 /\ new.nanos = em[call].nanos + d
  BY <1>1 DEF CounterRec
<1>3. Collected(em, call, d) = [em EXCEPT ![call] = new]
  BY DEF Collected
<1> HIDE DEF new
<1> QED
  BY <1>2, <1>3

\* The counters of S, and no others, count one more.
Counts(S) ==
    /\ metrics' \in [Counted -> MetricRec]
    /\ \A c \in Counted :
          /\ metrics'[c].history = metrics[c].history
          /\ metrics'[c].total = metrics[c].total + (IF c \in S THEN 1 ELSE 0)
          /\ metrics'[c].this_tick = metrics[c].this_tick + (IF c \in S THEN 1 ELSE 0)

\* The engine reports a call, with its duration, of each kind that S counts, and no others.
Reports(S) ==
    /\ engine_metrics' \in [Calls -> CounterRec]
    /\ \A c \in Charted :
          /\ engine_metrics'[c].count
                = engine_metrics[c].count + (IF CountedAs[c] \in S THEN 1 ELSE 0)
          /\ IF CountedAs[c] \in S
             THEN \E d \in Durations : engine_metrics'[c].nanos = engine_metrics[c].nanos + d
             ELSE engine_metrics'[c].nanos = engine_metrics[c].nanos

\* What is counted together keeps agreeing, whatever it is.
LEMMA CallStep ==
    ASSUME CountInv, NEW S \in SUBSET Counted, Counts(S), Reports(S), UNCHANGED latency,
           S = {} \/ main = "ops" \/ "frames" \in S,
           main' = "ops" => main = "ops" \/ "frames" \in S
    PROVE  CounterInv' /\ ColumnsInv' /\ SecondInv' /\ AppAgreesWithEngine' /\ ColumnsMatch'
<1>1. /\ metrics \in [Counted -> MetricRec] /\ engine_metrics \in [Calls -> CounterRec]
      /\ metrics' \in [Counted -> MetricRec] /\ engine_metrics' \in [Calls -> CounterRec]
      /\ latency \in [Charted -> LatencyRec] /\ latency' = latency
  BY DEF CountInv, CounterInv, Counts, Reports, CounterRec
<1>2. /\ \A c \in Counted : metrics'[c].history = metrics[c].history
      /\ "frames" \in Counted /\ "stored" \in Counted /\ "deleted" \in Counted
  BY DEF Counts, Counted
<1>3. CounterInv'
  BY <1>1 DEF CounterInv, CounterRec
<1>4. ColumnsInv'
  BY <1>1, <1>2 DEF CountInv, ColumnsInv
<1>5. /\ "put" \in Charted /\ "delete" \in Charted /\ Charted \subseteq Calls
      /\ CountedAs["put"] = "stored" /\ CountedAs["delete"] = "deleted"
      /\ \A c \in Charted : CountedAs[c] \in Counted
  BY DEF Charted, Calls, CountedAs, Counted
<1>6. ColumnsMatch'
  BY <1>1, <1>2, <1>5 DEF CountInv, ColumnsMatch
<1>7. /\ \A c \in Counted : metrics[c].total \in Nat /\ metrics[c].this_tick \in Nat
                            /\ metrics'[c].this_tick \in Nat
      /\ \A c \in Charted : engine_metrics[c].count \in Nat /\ engine_metrics[c].nanos \in Nat
                            /\ latency[c].last_count \in Nat /\ latency[c].last_nanos \in Nat
                            /\ engine_metrics'[c].nanos \in Nat
  BY <1>1, <1>5 DEF MetricRec, CounterRec, LatencyRec
<1>8. AppAgreesWithEngine'
  BY <1>2, <1>5, <1>7 DEF CountInv, AppAgreesWithEngine, Counts, Reports
<1>9. SecondInv'
  <2>1. ASSUME NEW c \in Charted
        PROVE  /\ engine_metrics'[c].count = latency[c].last_count + metrics'[CountedAs[c]].this_tick
               /\ engine_metrics'[c].nanos >= latency[c].last_nanos
               /\ IsTimeOf(engine_metrics'[c].nanos - latency[c].last_nanos,
                           metrics'[CountedAs[c]].this_tick)
    <3> DEFINE k    == CountedAs[c]
               last == latency[c].last_nanos
               n    == engine_metrics[c].nanos
               n2   == engine_metrics'[c].nanos
               t    == metrics[k].this_tick
               t2   == metrics'[k].this_tick
    <3>1. /\ engine_metrics[c].count = latency[c].last_count + t
          /\ n >= last /\ IsTimeOf(n - last, t)
      BY DEF CountInv, SecondInv
    <3>2. /\ k \in Counted /\ last \in Nat /\ n \in Nat /\ n2 \in Nat /\ t \in Nat
          /\ engine_metrics[c].count \in Nat /\ latency[c].last_count \in Nat
      BY <1>5, <1>7
    <3>3. t2 = t + (IF k \in S THEN 1 ELSE 0)
      BY <3>2 DEF Counts
    <3>4. /\ engine_metrics'[c].count = engine_metrics[c].count + (IF k \in S THEN 1 ELSE 0)
          /\ IF k \in S THEN \E d \in Durations : n2 = n + d ELSE n2 = n
      BY DEF Reports
    <3> HIDE DEF k, last, n, n2, t, t2
    <3>5. CASE k \in S
      <4>1. PICK d \in Durations : n2 = n + d
        BY <3>4, <3>5
      <4>2. d \in Nat
        BY ConstantsOK
      <4>3. n - last \in Nat /\ n2 - last = (n - last) + d /\ n2 >= last /\ t2 = t + 1
        BY <3>1, <3>2, <3>3, <3>5, <4>1, <4>2
      <4>4. IsTimeOf((n - last) + d, t + 1)
        BY <3>1, <3>2, <4>3, TimeGrows
      <4>5. engine_metrics'[c].count = latency[c].last_count + t2
        BY <3>1, <3>2, <3>4, <3>5, <4>3
      <4> QED
        BY <4>3, <4>4, <4>5 DEF k, last, n2, t2
    <3>6. CASE k \notin S
      <4>1. n2 = n /\ t2 = t /\ engine_metrics'[c].count = engine_metrics[c].count
        BY <3>2, <3>3, <3>4, <3>6
      <4> QED
        BY <3>1, <4>1 DEF k, last, n2, t2
    <3> QED
      BY <3>5, <3>6
  <2>2. main' = "ops" => metrics'["frames"].this_tick > 0
    <3>1. main = "ops" => metrics["frames"].this_tick > 0
      BY DEF CountInv, SecondInv
    <3>2. metrics'["frames"].this_tick
            = metrics["frames"].this_tick + (IF "frames" \in S THEN 1 ELSE 0)
      BY <1>2 DEF Counts
    <3> QED
      BY <3>1, <3>2, <1>2, <1>7
  <2>3. ASSUME metrics'["frames"].this_tick = 0
        PROVE  \A c \in Counted : metrics'[c].this_tick = 0
    <3>1. metrics'["frames"].this_tick
            = metrics["frames"].this_tick + (IF "frames" \in S THEN 1 ELSE 0)
      BY <1>2 DEF Counts
    <3>2. "frames" \notin S /\ metrics["frames"].this_tick = 0
      BY <3>1, <2>3, <1>2, <1>7
    <3>3. main # "ops" /\ \A c \in Counted : metrics[c].this_tick = 0
      BY <3>2 DEF CountInv, SecondInv
    <3>4. S = {}
      BY <3>2, <3>3
    <3> QED
      BY <3>3, <3>4 DEF Counts
  <2> QED
    BY <1>1, <2>1, <2>2, <2>3 DEF SecondInv
<1> QED
  BY <1>3, <1>4, <1>6, <1>8, <1>9

\* One counter counts.
LEMMA CountOK ==
    ASSUME CounterInv, NEW c \in Counted, Count(c)
    PROVE  Counts({c})
<1>1. \A x \in Counted : metrics[x] \in MetricRec
  BY DEF CounterInv
<1>2. metrics' = [metrics EXCEPT ![c] = Recorded(metrics[c], 1)] /\ metrics \in [Counted -> MetricRec]
  BY DEF Count, CounterInv
<1>3. metrics' \in [Counted -> MetricRec] /\ metrics'[c] = Recorded(metrics[c], 1)
        /\ \A x \in Counted \ {c} : metrics'[x] = metrics[x]
  BY <1>1, <1>2, RecordedOK
<1>4. \A x \in Counted : metrics[x].total \in Nat /\ metrics[x].this_tick \in Nat
  BY <1>1 DEF MetricRec
<1> QED
  BY <1>1, <1>3, <1>4, RecordedOK DEF Counts

\* Nothing is counted.
LEMMA NothingCounted ==
    CounterInv /\ UNCHANGED metrics => Counts({})
<1> SUFFICES ASSUME CounterInv, UNCHANGED metrics PROVE Counts({})
  OBVIOUS
<1>1. \A x \in Counted : metrics[x].total \in Nat /\ metrics[x].this_tick \in Nat
  BY DEF CounterInv, MetricRec
<1> QED
  BY <1>1 DEF Counts, CounterInv

\* The engine reports nothing, and nothing of a post is counted.
LEMMA NothingReported ==
    ASSUME CounterInv, NEW S, "stored" \notin S, "deleted" \notin S, UNCHANGED engine_metrics
    PROVE  Reports(S)
<1>1. \A c \in Charted : engine_metrics[c].count \in Nat /\ engine_metrics[c].nanos \in Nat
  BY DEF CounterInv, Charted, Calls, CounterRec
<1>2. \A c \in Charted : CountedAs[c] \notin S
  BY DEF Charted, CountedAs
<1> QED
  BY <1>1, <1>2 DEF Reports, CounterInv, CounterRec

\* The engine reports one put or delete, which is counted.
LEMMA OneReported ==
    ASSUME CounterInv, NEW call \in Charted, NEW d \in Durations,
           engine_metrics' = Collected(engine_metrics, call, d)
    PROVE  Reports({CountedAs[call]})
<1>1. engine_metrics \in [Calls -> CounterRec] /\ call \in Calls /\ d \in Nat
  BY ConstantsOK DEF CounterInv, CounterRec, Charted, Calls
<1>2. /\ engine_metrics' \in [Calls -> CounterRec]
      /\ engine_metrics'[call].count = engine_metrics[call].count + 1
      /\ engine_metrics'[call].nanos = engine_metrics[call].nanos + d
      /\ \A c \in Calls \ {call} : engine_metrics'[c] = engine_metrics[c]
  BY <1>1, CollectedOK
<1>3. \A c \in Calls : engine_metrics[c].count \in Nat /\ engine_metrics[c].nanos \in Nat
  BY <1>1 DEF CounterRec
<1>4. ASSUME NEW c \in Charted
      PROVE  /\ engine_metrics'[c].count
                   = engine_metrics[c].count + (IF CountedAs[c] \in {CountedAs[call]} THEN 1 ELSE 0)
             /\ IF CountedAs[c] \in {CountedAs[call]}
                THEN \E x \in Durations : engine_metrics'[c].nanos = engine_metrics[c].nanos + x
                ELSE engine_metrics'[c].nanos = engine_metrics[c].nanos
  <2>1. CASE c = call
    BY <2>1, <1>1, <1>2, <1>3
  <2>2. CASE c # call
    <3>1. CountedAs[c] # CountedAs[call] /\ c \in Calls
      BY <2>2 DEF Charted, CountedAs, Calls
    <3> QED
      BY <3>1, <2>2, <1>2, <1>3
  <2> QED
    BY <2>1, <2>2
<1> QED
  BY <1>2, <1>4 DEF Reports

\* The log keeps its length.
LEMMA LogOK ==
    ASSUME MainInv, NEW w \in Words
    PROVE  Pushed(log, w, LOG_LEN) \in Seq(Words) /\ Len(Pushed(log, w, LOG_LEN)) <= LOG_LEN
<1>1. log \in Seq(Words) /\ Len(log) <= LOG_LEN
  BY DEF MainInv, Words
<1> QED
  BY <1>1, PushedOK, ConstantsOK DEF IsPushed

\* A frame that is skipped is a frame too.
LEMMA SkipFrameCounts ==
    ASSUME CounterInv, SkipFrame
    PROVE  Counts({"frames", "skipped"})
<1>1. metrics \in [Counted -> MetricRec] /\ \A x \in Counted : metrics[x] \in MetricRec
  BY DEF CounterInv
<1>2. "frames" \in Counted /\ "skipped" \in Counted
  BY DEF Counted
<1>3. metrics' = [metrics EXCEPT !["frames"] = Recorded(metrics["frames"], 1),
                                 !["skipped"] = Recorded(metrics["skipped"], 1)]
  BY DEF SkipFrame
<1>4. metrics' \in [Counted -> MetricRec]
        /\ \A x \in Counted : metrics'[x] = IF x \in {"frames", "skipped"}
                                            THEN Recorded(metrics[x], 1) ELSE metrics[x]
  BY <1>1, <1>2, <1>3, RecordedOK
<1>5. \A x \in Counted : metrics[x].total \in Nat /\ metrics[x].this_tick \in Nat
  BY <1>1 DEF MetricRec
<1> QED
  BY <1>1, <1>4, <1>5, RecordedOK DEF Counts

\* A step of a frame keeps the counts.
LEMMA FrameStep ==
    ASSUME CountInv,
           \/ SkipFrame \/ FrameUnreadable \/ CallFails \/ CarUnreadable
           \/ \E r \in Repos, n \in 1..MaxOps : BeginCommit(r, n)
           \/ \E k \in Rkeys : SkipOp(k)
           \/ \E k \in Rkeys, d \in Durations : DeletePost(k, d)
           \/ \E k \in Rkeys, text \in Texts, d \in Durations : StorePost(k, text, d)
    PROVE  CountInv'
<1> USE DEF Words
<1>0. MainInv /\ CounterInv
  BY DEF CountInv
<1>1. CASE SkipFrame
  <2>1. Counts({"frames", "skipped"})
    BY <1>0, <1>1, SkipFrameCounts
  <2>2. UNCHANGED <<main, latency, engine_metrics>> /\ MainInv'
    BY <1>1, <1>0 DEF SkipFrame, MainInv, frameVars, envVars
  <2>3. Reports({"frames", "skipped"})
    BY <1>0, <2>2, NothingReported
  <2> QED
    BY <2>1, <2>2, <2>3, CallStep DEF CountInv, Counted
<1>2. CASE FrameUnreadable
  <2>1. Counts({"frames"}) /\ Reports({"frames"})
    <3>1. "frames" \in Counted /\ Count("frames") /\ UNCHANGED engine_metrics
      BY <1>2 DEF FrameUnreadable, Counted
    <3> QED
      BY <3>1, <1>0, CountOK, NothingReported
  <2>2. main' = "select" /\ warned' = TRUE /\ log' = Pushed(log, "warning", LOG_LEN)
          /\ UNCHANGED <<frameVars, latency, ticks>>
    BY <1>2 DEF FrameUnreadable, GivenUp
  <2>3. MainInv'
    BY <1>0, <2>2, LogOK DEF MainInv, frameVars
  <2> QED
    BY <2>1, <2>2, <2>3, CallStep DEF CountInv, Counted
<1>3. ASSUME NEW r \in Repos, NEW n \in 1..MaxOps, BeginCommit(r, n)
      PROVE  CountInv'
  <2>1. Counts({"frames"}) /\ Reports({"frames"})
    <3>1. "frames" \in Counted /\ Count("frames") /\ UNCHANGED engine_metrics
      BY <1>3 DEF BeginCommit, Counted
    <3> QED
      BY <3>1, <1>0, CountOK, NothingReported
  <2>2. main' = "ops" /\ repo' = r /\ size' = n /\ left' = n /\ car_blocks' = FALSE
          /\ UNCHANGED <<latency, log, ticks, warned>>
    BY <1>3 DEF BeginCommit, envVars
  <2>3. MainInv'
    <3>1. size' \in 0..MaxOps /\ left' \in 0..size' /\ left' > 0
      BY <2>2, ConstantsOK
    <3>2. car_blocks' \in BOOLEAN
      BY <2>2, Zenon
    <3> QED
      BY <1>0, <2>2, <3>1, <3>2 DEF MainInv
  <2> QED
    BY <2>1, <2>2, <2>3, CallStep DEF CountInv, Counted
<1>4. CASE CallFails \/ CarUnreadable
  <2>1. UNCHANGED <<metrics, engine_metrics, latency, repo, size, car_blocks, ticks>>
          /\ main' = "select" /\ warned' = TRUE /\ log' = Pushed(log, "warning", LOG_LEN) /\ left' = 0
    BY <1>4 DEF CallFails, CarUnreadable, GivenUp
  <2>2. Counts({}) /\ Reports({})
    BY <1>0, <2>1, NothingCounted, NothingReported
  <2>3. MainInv'
    BY <1>0, <2>1, LogOK DEF MainInv
  <2> QED
    BY <2>1, <2>2, <2>3, CallStep DEF CountInv
<1>5. ASSUME NEW k \in Rkeys, SkipOp(k)
      PROVE  CountInv'
  <2>1. Counts({"skipped"}) /\ Reports({"skipped"})
    <3>1. "skipped" \in Counted /\ Count("skipped") /\ UNCHANGED engine_metrics
      BY <1>5 DEF SkipOp, SkipCounts, Counted
    <3> QED
      BY <3>1, <1>0, CountOK, NothingReported
  <2>2. main = "ops" /\ OpDone /\ car_blocks' \in {car_blocks, TRUE}
          /\ UNCHANGED <<repo, size, latency, log, ticks, warned>>
    BY <1>5 DEF SkipOp
  <2>3. MainInv'
    <3>1. car_blocks' \in BOOLEAN
      BY <1>0, <2>2, Zenon DEF MainInv
    <3> QED
      BY <1>0, <2>2, <3>1 DEF MainInv, OpDone
  <2> QED
    BY <2>1, <2>2, <2>3, CallStep DEF CountInv, Counted
<1>6. ASSUME NEW k \in Rkeys, NEW d \in Durations, DeletePost(k, d)
      PROVE  CountInv'
  <2>1. Counts({"deleted"}) /\ Reports({"deleted"})
    <3>1. "deleted" \in Counted /\ Count("deleted") /\ "delete" \in Charted
            /\ engine_metrics' = Collected(engine_metrics, "delete", d)
            /\ CountedAs["delete"] = "deleted"
      BY <1>6 DEF DeletePost, DeleteCounts, Counted, Charted, CountedAs
    <3>2. Reports({CountedAs["delete"]})
      BY ONLY <3>1, <1>0, <1>6, OneReported
    <3> QED
      BY <3>1, <3>2, <1>0, CountOK
  <2>2. main = "ops" /\ OpDone /\ log' = Pushed(log, "deleted", LOG_LEN)
          /\ UNCHANGED <<repo, size, car_blocks, latency, ticks, warned>>
    BY <1>6 DEF DeletePost
  <2>3. MainInv'
    BY <1>0, <2>2, LogOK DEF MainInv, OpDone
  <2> QED
    BY <2>1, <2>2, <2>3, CallStep DEF CountInv, Counted
<1>7. ASSUME NEW k \in Rkeys, NEW text \in Texts, NEW d \in Durations, StorePost(k, text, d)
      PROVE  CountInv'
  <2>1. Counts({"stored"}) /\ Reports({"stored"})
    <3>1. "stored" \in Counted /\ Count("stored") /\ "put" \in Charted
            /\ engine_metrics' = Collected(engine_metrics, "put", d)
            /\ CountedAs["put"] = "stored"
      BY <1>7 DEF StorePost, Counted, Charted, CountedAs
    <3>2. Reports({CountedAs["put"]})
      BY ONLY <3>1, <1>0, <1>7, OneReported
    <3> QED
      BY <3>1, <3>2, <1>0, CountOK
  <2>2. main = "ops" /\ OpDone /\ log' = Pushed(log, "stored", LOG_LEN) /\ car_blocks' = TRUE
          /\ UNCHANGED <<repo, size, latency, ticks, warned>>
    BY <1>7 DEF StorePost
  <2>3. MainInv'
    BY <1>0, <2>2, LogOK DEF MainInv, OpDone
  <2> QED
    BY <2>1, <2>2, <2>3, CallStep DEF CountInv, Counted
<1> QED
  BY <1>1, <1>2, <1>3, <1>4, <1>5, <1>6, <1>7

-----------------------------------------------------------------------------
(* The end of a second, and of the program.                                  *)

\* What a tick makes of the counters and the charts: a column each, of the second that ends.
LEMMA TickColumns ==
    ASSUME CountInv,
           metrics' = [c \in Counted |-> Ticked(metrics[c])],
           latency' = [c \in Charted |-> LatencyTicked(latency[c], engine_metrics[c])],
           engine_metrics' \in [Calls -> CounterRec],
           \A c \in Charted : engine_metrics'[c] = engine_metrics[c],
           main' # "ops"
    PROVE  CounterInv' /\ ColumnsInv' /\ SecondInv' /\ AppAgreesWithEngine' /\ ColumnsMatch'
<1> DEFINE n    == Len(metrics["frames"].history)
           full == n >= HISTORY_LEN
           avg(c) == Average(engine_metrics[c].nanos - latency[c].last_nanos,
                             engine_metrics[c].count - latency[c].last_count)
           New(q, x, q2) ==
               /\ q2 \in Seq(Nat)
               /\ Len(q2) = IF full THEN n ELSE n + 1
               /\ Len(q2) <= HISTORY_LEN
               /\ \A i \in 1..Len(q2) : q2[i] = IF i = Len(q2) THEN x
                                                ELSE IF full THEN q[i + 1] ELSE q[i]
<1>1. /\ "frames" \in Counted /\ "put" \in Charted /\ "delete" \in Charted /\ Charted \subseteq Calls
      /\ \A c \in Charted : CountedAs[c] \in Counted
  BY DEF Counted, Charted, Calls, CountedAs
<1>2. /\ \A c \in Counted : metrics[c].total \in Nat /\ metrics[c].this_tick \in Nat
                            /\ metrics[c].history \in Seq(Nat) /\ metrics[c] \in MetricRec
      /\ \A c \in Charted : latency[c].last_count \in Nat /\ latency[c].last_nanos \in Nat
                            /\ latency[c].history \in Seq(Nat)
      /\ \A c \in Calls : engine_metrics[c].count \in Nat /\ engine_metrics[c].nanos \in Nat
  BY <1>1 DEF CountInv, CounterInv, MetricRec, LatencyRec, CounterRec
<1>3. /\ n \in Nat /\ n <= HISTORY_LEN
      /\ \A c \in Counted : Len(metrics[c].history) = n
      /\ \A c \in Charted : Len(latency[c].history) = n
  BY <1>1, <1>2 DEF CountInv, ColumnsInv
<1>4. ASSUME NEW q \in Seq(Nat), NEW x \in Nat, Len(q) = n
      PROVE  New(q, x, Pushed(q, x, HISTORY_LEN))
  <2>1. HISTORY_LEN \in Nat \ {0} /\ Len(q) <= HISTORY_LEN
    BY <1>3, <1>4, ConstantsOK
  <2> DEFINE p == Pushed(q, x, HISTORY_LEN)
  <2>2. p \in Seq(Nat) /\ IsPushed(p, q, x, HISTORY_LEN)
    BY <2>1, PushedOK
  <2> HIDE DEF p
  <2>3. New(q, x, p)
    BY <1>4, <2>2 DEF IsPushed
  <2> QED
    BY <2>3 DEF p
<1>5. ASSUME NEW c \in Charted
      PROVE  avg(c) \in Nat /\ IsAverageOf(avg(c), metrics[CountedAs[c]].this_tick)
  <2> DEFINE dn == engine_metrics[c].nanos - latency[c].last_nanos
             dc == engine_metrics[c].count - latency[c].last_count
             t  == metrics[CountedAs[c]].this_tick
  <2>1. /\ engine_metrics[c].count = latency[c].last_count + t
        /\ engine_metrics[c].nanos >= latency[c].last_nanos
        /\ IsTimeOf(dn, t)
    BY DEF CountInv, SecondInv
  <2>2. t \in Nat /\ c \in Calls
    BY <1>1, <1>2
  <2>3. dn \in Nat /\ dc = t
    BY <1>2, <2>1, <2>2
  <2>4. avg(c) = Average(dn, dc)
    OBVIOUS
  <2> HIDE DEF dn, dc, t, avg
  <2>5. avg(c) \in Nat /\ IsAverageOf(avg(c), t)
    BY <2>1, <2>2, <2>3, <2>4, AverageOK
  <2> QED
    BY <2>5 DEF t
<1>6. \A c \in Counted : /\ metrics'[c].total = metrics[c].total /\ metrics'[c].this_tick = 0
                         /\ New(metrics[c].history, metrics[c].this_tick, metrics'[c].history)
  <2> TAKE c \in Counted
  <2>1. metrics'[c] = Ticked(metrics[c])
    OBVIOUS
  <2>2. metrics'[c].history = Pushed(metrics[c].history, metrics[c].this_tick, HISTORY_LEN)
    BY <1>2, <2>1, TickedOK
  <2> HIDE DEF New
  <2> QED
    BY <1>2, <1>3, <1>4, <2>1, <2>2, TickedOK
<1>7. \A c \in Charted : /\ latency'[c].last_count = engine_metrics[c].count
                         /\ latency'[c].last_nanos = engine_metrics[c].nanos
                         /\ New(latency[c].history, avg(c), latency'[c].history)
  <2> TAKE c \in Charted
  <2>1. latency'[c] = LatencyTicked(latency[c], engine_metrics[c])
    OBVIOUS
  <2>2. latency'[c].history = Pushed(latency[c].history, avg(c), HISTORY_LEN)
    BY <2>1 DEF LatencyTicked
  <2>3. latency'[c].last_count = engine_metrics[c].count /\ latency'[c].last_nanos = engine_metrics[c].nanos
    BY <2>1 DEF LatencyTicked
  <2> HIDE DEF New, avg
  <2> QED
    BY <1>2, <1>3, <1>4, <1>5, <2>2, <2>3
<1> HIDE DEF avg, full
<1>8. CounterInv'
  <2>1. \A c \in Counted : metrics'[c] \in MetricRec
    <3> TAKE c \in Counted
    <3>1. metrics'[c] = Ticked(metrics[c]) /\ metrics'[c].history \in Seq(Nat)
      BY <1>6
    <3> QED
      BY <1>2, <3>1, TickedOK, TickedRec
  <2>2. \A c \in Charted : latency'[c] \in LatencyRec
    <3> TAKE c \in Charted
    <3>1. latency'[c] = [last_count |-> engine_metrics[c].count, last_nanos |-> engine_metrics[c].nanos,
                         history |-> latency'[c].history]
      BY DEF LatencyTicked
    <3> QED
      BY <3>1, <1>1, <1>2, <1>7 DEF LatencyRec
  <2> QED
    BY <2>1, <2>2 DEF CounterInv, CounterRec
<1>9. ColumnsInv'
  BY <1>1, <1>6, <1>7 DEF ColumnsInv
<1>10. SecondInv'
  <2>1. \A c \in Charted : engine_metrics[c].count \in Nat /\ engine_metrics[c].nanos \in Nat
    BY <1>1, <1>2
  <2> HIDE DEF New
  <2> QED
    BY <1>1, <1>6, <1>7, <2>1, NoCalls DEF SecondInv
<1>11. AppAgreesWithEngine'
  <2>1. "stored" \in Counted /\ "deleted" \in Counted
    BY DEF Counted
  <2> HIDE DEF New
  <2> QED
    BY <1>1, <1>6, <2>1 DEF CountInv, AppAgreesWithEngine
<1>12. ColumnsMatch'
  <2> SUFFICES ASSUME NEW i \in 1..Len(metrics'["frames"].history)
               PROVE  /\ \A c \in Charted :
                            IsAverageOf(latency'[c].history[i], metrics'[CountedAs[c]].history[i])
                      /\ metrics'["frames"].history[i] = 0 =>
                            \A c \in Counted : metrics'[c].history[i] = 0
    <3>1. metrics'["frames"].history \in Seq(Nat)
      BY <1>1, <1>6
    <3>2. DOMAIN metrics'["frames"].history = 1..Len(metrics'["frames"].history)
      BY <3>1
    <3> HIDE DEF New
    <3> QED
      BY <3>2 DEF ColumnsMatch
  <2> DEFINE m == Len(metrics'["frames"].history)
             j == IF full THEN i + 1 ELSE i
  <2>1. /\ m = IF full THEN n ELSE n + 1
        /\ \A c \in Counted : Len(metrics'[c].history) = m
        /\ \A c \in Charted : Len(latency'[c].history) = m
    BY <1>1, <1>6, <1>7
  <2>3. CASE i = m
    <3>1. \A c \in Counted : metrics'[c].history[i] = metrics[c].this_tick
      BY <1>6, <2>1, <2>3
    <3>2. \A c \in Charted : latency'[c].history[i] = avg(c)
      BY <1>7, <2>1, <2>3
    <3>3. metrics["frames"].this_tick = 0 => \A c \in Counted : metrics[c].this_tick = 0
      BY DEF CountInv, SecondInv
    <3> HIDE DEF New
    <3> QED
      BY <1>1, <1>5, <3>1, <3>2, <3>3
  <2>4. CASE i # m
    <3>1. \A c \in Counted : metrics'[c].history[i] = metrics[c].history[j]
      BY <1>6, <2>1, <2>4
    <3>2. \A c \in Charted : latency'[c].history[i] = latency[c].history[j]
      BY <1>7, <2>1, <2>4
    <3>3. j \in 1..n
      BY <1>3, <2>1, <2>4
    <3>4. j \in DOMAIN metrics["frames"].history
      BY <1>1, <1>2, <3>3
    <3>5. /\ \A c \in Charted :
                IsAverageOf(latency[c].history[j], metrics[CountedAs[c]].history[j])
          /\ metrics["frames"].history[j] = 0 =>
                \A c \in Counted : metrics[c].history[j] = 0
      BY <3>4 DEF CountInv, ColumnsMatch
    <3> HIDE DEF j, New, n
    <3> QED
      BY <1>1, <3>1, <3>2, <3>5
  <2> QED
    BY <2>3, <2>4
<1> QED
  BY <1>8, <1>9, <1>10, <1>11, <1>12

\* A tick and the end keep the counts.
LEMMA EndStep ==
    ASSUME CountInv, Tick \/ LoopEnds \/ Close
    PROVE  CountInv'
<1> USE DEF Words
<1>0. MainInv /\ CounterInv
  BY DEF CountInv
<1>1. CASE Tick
  <2>1. main' \in {"select", "closing"} /\ UNCHANGED <<frameVars, warned>> /\ ticks' = ticks + 1
          /\ main = "select"
    BY <1>1 DEF Tick, AfterLoop
  <2>2. /\ engine_metrics' \in [Calls -> CounterRec]
        /\ \A c \in Charted : engine_metrics'[c] = engine_metrics[c]
    <3>1. engine_metrics \in [Calls -> CounterRec] /\ "merge" \in Calls /\ "sync" \in Calls
            /\ Charted \subseteq Calls \ {"merge", "sync"} /\ 1 \in Nat
      BY <1>0 DEF CounterInv, CounterRec, Charted, Calls
    <3> DEFINE em1 == Collected(engine_metrics, "merge", 1)
               em2 == Collected(em1, "sync", 1)
    <3>2. em1 \in [Calls -> CounterRec] /\ \A c \in Calls \ {"merge"} : em1[c] = engine_metrics[c]
      BY <3>1, CollectedOK
    <3>3. engine_metrics' \in {engine_metrics, em1, em2}
      BY <1>1 DEF Tick, MergeAndSync
    <3> HIDE DEF em1
    <3>4. em2 \in [Calls -> CounterRec] /\ \A c \in Calls \ {"sync"} : em2[c] = em1[c]
      BY <3>1, <3>2, CollectedOK
    <3> HIDE DEF em2
    <3> QED
      BY <3>1, <3>2, <3>3, <3>4
  <2>3. MainInv'
    <3>1. log' = log \/ log' = Pushed(log, "warning", LOG_LEN) \/ log' = Pushed(log, "completed", LOG_LEN)
      BY <1>1 DEF Tick, MergeAndSync
    <3>2. log' \in Seq(Words) /\ Len(log') <= LOG_LEN
      BY <3>1, <1>0, LogOK DEF MainInv
    <3> QED
      BY <1>0, <2>1, <3>2 DEF MainInv, frameVars
  <2>4. metrics' = [c \in Counted |-> Ticked(metrics[c])]
          /\ latency' = [c \in Charted |-> LatencyTicked(latency[c], engine_metrics[c])]
    BY <1>1 DEF Tick
  <2>5. CounterInv' /\ ColumnsInv' /\ SecondInv' /\ AppAgreesWithEngine' /\ ColumnsMatch'
    BY <2>1, <2>2, <2>4, TickColumns
  <2> QED
    BY <2>3, <2>5 DEF CountInv
<1>2. CASE LoopEnds \/ Close
  <2>1. main' \in {"closing", "ended"}
          /\ UNCHANGED <<frameVars, metrics, latency, engine_metrics, log, ticks, warned>>
    BY <1>2 DEF LoopEnds, Close, AfterLoop, appVars, envVars
  <2>2. MainInv'
    BY <1>0, <2>1 DEF MainInv, frameVars
  <2>3. Counts({}) /\ Reports({})
    BY <1>0, <2>1, NothingCounted, NothingReported
  <2> QED
    BY <2>1, <2>2, <2>3, CallStep DEF CountInv
<1> QED
  BY <1>1, <1>2

\* Outside of a tick a step counts, or nothing does.
LEMMA StepCounts ==
    ASSUME CounterInv, [Next]_vars
    PROVE  Tick \/ (UNCHANGED ticks /\ \E S \in SUBSET Counted : Counts(S))
<1> DEFINE Goal == UNCHANGED ticks /\ \E S \in SUBSET Counted : Counts(S)
<1>1. ASSUME NEW c \in Counted, Count(c), UNCHANGED ticks
      PROVE  Goal
  BY <1>1, CountOK
<1>2. ASSUME UNCHANGED <<metrics, ticks>>
      PROVE  Goal
  BY <1>2, NothingCounted
<1> HIDE DEF Goal
<1>3. ASSUME UNCHANGED vars \/ LoopEnds \/ Close \/ CallFails \/ CarUnreadable
      PROVE  Goal
  <2>1. UNCHANGED <<metrics, ticks>>
    BY <1>3 DEF vars, LoopEnds, Close, CallFails, CarUnreadable, appVars, envVars
  <2> QED
    BY <1>2, <2>1
<1>4. ASSUME SkipFrame
      PROVE  Goal
  <2>1. UNCHANGED ticks /\ {"frames", "skipped"} \in SUBSET Counted
    BY <1>4 DEF SkipFrame, envVars, Counted
  <2> QED
    BY <1>4, <2>1, SkipFrameCounts DEF Goal
<1>5. ASSUME FrameUnreadable
      PROVE  Goal
  <2>1. Count("frames") /\ UNCHANGED ticks /\ "frames" \in Counted
    BY <1>5 DEF FrameUnreadable, Counted
  <2> QED
    BY <1>1, <2>1
<1>6. ASSUME NEW r \in Repos, NEW n \in 1..MaxOps, BeginCommit(r, n)
      PROVE  Goal
  BY <1>1, <1>6 DEF BeginCommit, envVars, Counted
<1>7. ASSUME NEW k \in Rkeys, SkipOp(k)
      PROVE  Goal
  BY <1>1, <1>7 DEF SkipOp, SkipCounts, Counted
<1>8. ASSUME NEW k \in Rkeys, NEW d \in Durations, DeletePost(k, d)
      PROVE  Goal
  BY <1>1, <1>8 DEF DeletePost, DeleteCounts, Counted
<1>9. ASSUME NEW k \in Rkeys, NEW text \in Texts, NEW d \in Durations, StorePost(k, text, d)
      PROVE  Goal
  BY <1>1, <1>9 DEF StorePost, Counted
<1> QED
  BY <1>3, <1>4, <1>5, <1>6, <1>7, <1>8, <1>9 DEF Next, Goal

-----------------------------------------------------------------------------
(* The syncs.                                                                *)

\* A change waits for a sync no longer than the intervals that passed.
LEMMA SyncStep ==
    ASSUME SyncInv, [Next]_vars
    PROVE  SyncInv'
<1> DEFINE M == MERGE_INTERVAL_TICKS
<1>1. /\ M \in Nat \ {0} /\ ticks_since_merge \in 0..M - 1 /\ missed \in Nat
      /\ age \in Nat \cup {NoChange} /\ NoChange = -1
      /\ age # NoChange => age <= ticks_since_merge + M * missed
  BY ConstantsOK DEF SyncInv, NoChange
<1>2. M * missed \in Nat /\ M * (missed + 1) = M * missed + M
  BY <1>1
<1>3. Waiting(age) \in Nat /\ Waiting(age) <= ticks_since_merge + M * missed
  BY <1>1, <1>2 DEF Waiting
<1>4. /\ Older \in Nat \cup {NoChange}
      /\ Older # NoChange => Older <= ticks_since_merge + 1 + M * missed
  BY <1>1, <1>2 DEF Older
<1>5. ASSUME UNCHANGED <<ticks_since_merge, missed>>, age' \in {age, Waiting(age)},
             main' = "ended" => main = "ended" /\ UNCHANGED age
      PROVE  SyncInv'
  <2>1. EndedIsSynced'
    BY <1>5 DEF SyncInv, EndedIsSynced
  <2> QED
    BY <1>1, <1>3, <1>5, <2>1 DEF SyncInv
<1>6. CASE UNCHANGED vars
  BY <1>5, <1>6 DEF vars, appVars, envVars
<1>7. CASE SkipFrame
  BY <1>5, <1>7 DEF SkipFrame, envVars, MayHandle
<1>8. CASE FrameUnreadable \/ CallFails \/ CarUnreadable
  BY <1>5, <1>8 DEF FrameUnreadable, CallFails, CarUnreadable, GivenUp
<1>9. ASSUME NEW r \in Repos, NEW n \in 1..MaxOps, BeginCommit(r, n)
      PROVE  SyncInv'
  BY <1>5, <1>9 DEF BeginCommit, envVars
<1>10. ASSUME NEW k \in Rkeys, SkipOp(k) \/ (\E d \in Durations : DeletePost(k, d))
                                 \/ (\E text \in Texts, d \in Durations : StorePost(k, text, d))
       PROVE  SyncInv'
  <2>1. UNCHANGED <<ticks_since_merge, missed>> /\ age' \in {age, Waiting(age)}
    BY <1>10 DEF SkipOp, DeletePost, StorePost
  <2>2. main' # "ended"
    BY <1>10 DEF SkipOp, DeletePost, StorePost, OpDone
  <2> QED
    BY <1>5, <2>1, <2>2
<1>11. CASE Tick
  <2>1. main' # "ended"
    BY <1>11 DEF Tick, AfterLoop
  <2>2. CASE MergeIsDue
    <3>1. MergeAndSync /\ ticks_since_merge' = 0 /\ ticks_since_merge = M - 1
      BY <1>1, <1>11, <2>2 DEF Tick, MergeAndSync, MergeIsDue
    <3>2. \/ age' = NoChange /\ missed' = 0
          \/ age' = Older /\ missed' = missed + 1
      BY <3>1 DEF MergeAndSync
    <3>3. CASE age' = NoChange /\ missed' = 0
      BY <1>1, <2>1, <3>1, <3>3 DEF SyncInv, EndedIsSynced
    <3>4. CASE age' = Older /\ missed' = missed + 1
      <4>1. missed' \in Nat /\ M * missed' = M * missed + M /\ ticks_since_merge' \in 0..M - 1
        BY <1>1, <1>2, <3>1, <3>4
      <4>2. age' # NoChange => age' <= ticks_since_merge' + M * missed'
        BY <1>1, <1>2, <1>4, <3>1, <3>4, <4>1
      <4> QED
        BY <1>4, <2>1, <3>4, <4>1, <4>2 DEF SyncInv, EndedIsSynced
    <3> QED
      BY <3>2, <3>3, <3>4
  <2>3. CASE ~MergeIsDue
    <3>1. ticks_since_merge' = ticks_since_merge + 1 /\ age' = Older /\ missed' = missed
            /\ ticks_since_merge + 1 < M
      BY <1>1, <1>11, <2>3 DEF Tick, MergeIsDue
    <3> QED
      BY <1>1, <1>2, <1>4, <2>1, <3>1 DEF SyncInv, EndedIsSynced
  <2> QED
    BY <2>2, <2>3
<1>12. CASE LoopEnds
  BY <1>5, <1>12 DEF LoopEnds, AfterLoop, appVars, envVars
<1>13. CASE Close
  <2>1. UNCHANGED ticks_since_merge
    BY <1>13 DEF Close, appVars
  <2>2. CASE age' = NoChange /\ UNCHANGED missed
    BY <1>1, <2>1, <2>2 DEF SyncInv, EndedIsSynced
  <2>3. CASE missed' = missed + 1 /\ UNCHANGED age
    <3>1. missed' \in Nat /\ missed' # 0 /\ M * missed' = M * missed + M
      BY <1>1, <1>2, <2>3
    <3>2. age' # NoChange => age' <= ticks_since_merge' + M * missed'
      BY <1>1, <1>2, <2>1, <2>3, <3>1
    <3> QED
      BY <1>1, <2>1, <2>3, <3>1, <3>2 DEF SyncInv, EndedIsSynced
  <2> QED
    BY <1>13, <2>2, <2>3 DEF Close
<1> QED
  BY <1>6, <1>7, <1>8, <1>9, <1>10, <1>11, <1>12, <1>13 DEF Next

\* A change is synced within the interval, and one more for each failure.
LEMMA SyncInvImplies ==
    SyncInv => ChangesAreSynced
<1> SUFFICES ASSUME SyncInv PROVE ChangesAreSynced
  OBVIOUS
<1> DEFINE M == MERGE_INTERVAL_TICKS
<1>1. /\ M \in Nat \ {0} /\ ticks_since_merge \in 0..M - 1 /\ missed \in Nat
      /\ age \in Nat \cup {NoChange} /\ NoChange = -1
      /\ age # NoChange => age <= ticks_since_merge + M * missed
  BY ConstantsOK DEF SyncInv, NoChange
<1>2. M * missed \in Nat /\ M * (missed + 1) = M * missed + M
  BY <1>1
<1>3. ChangeIsSoonSynced
  BY <1>1, <1>2 DEF ChangeIsSoonSynced
<1> QED
  BY <1>3 DEF SyncInv, ChangesAreSynced

-----------------------------------------------------------------------------
(* The store and the feed.                                                   *)

Told     == warned \/ metrics["skipped"].total > 0
InStep   == \A r \in Repos, k \in Rkeys : store[PostKey(r, k)] = feed[<<r, k>>]

\* A step that tells of what it misses, or tells nothing and misses nothing, and never
\* takes back what was told.
LEMMA FeedKept ==
    ASSUME FeedInv,
           store' \in [Keys -> Texts \cup {NoPost}], feed' \in [Posts -> Texts \cup {NoPost}],
           Told => Told', Told' \/ (InStep => InStep')
    PROVE  FeedInv'
BY DEF FeedInv, Told, InStep

\* No counter runs backwards, and what was told stays told.
LEMMA ToldStays ==
    ASSUME CounterInv, [Next]_vars
    PROVE  Told => Told'
<1>1. "skipped" \in Counted /\ metrics \in [Counted -> MetricRec]
        /\ metrics["skipped"] \in MetricRec /\ metrics["skipped"].total \in Nat
  BY DEF CounterInv, Counted, MetricRec
<1>2. metrics'["skipped"].total \in Nat /\ metrics'["skipped"].total >= metrics["skipped"].total
  <2>1. CASE Tick
    BY <1>1, <2>1, TickedOK DEF Tick
  <2>2. ASSUME NEW S, Counts(S)
        PROVE  metrics'["skipped"].total \in Nat
                 /\ metrics'["skipped"].total >= metrics["skipped"].total
    BY <1>1, <2>2 DEF Counts
  <2> QED
    BY <2>1, <2>2, StepCounts
<1>3. warned => warned' = TRUE
  <2>1. SUFFICES ASSUME warned, [Next]_vars PROVE UNCHANGED warned \/ warned' = TRUE
    <3> QED
      BY DEF vars
  <2> QED
    BY <2>1 DEF Next, vars, envVars, SkipFrame, FrameUnreadable, BeginCommit, SkipOp, DeletePost,
           StorePost, CallFails, CarUnreadable, Tick, LoopEnds, Close, GivenUp
<1>4. CASE warned
  BY <1>3, <1>4 DEF Told
<1>5. CASE metrics["skipped"].total > 0
  BY <1>1, <1>2, <1>5 DEF Told
<1> QED
  BY <1>4, <1>5 DEF Told

\* Two posts have one key only if they are one post: what is written for one is not read for another.
LEMMA OneKeyOnePost ==
    ASSUME FeedInv, NEW r \in Repos, NEW k \in Rkeys, NEW text \in Texts \cup {NoPost},
           store' = [store EXCEPT ![PostKey(r, k)] = text],
           feed' = [feed EXCEPT ![<<r, k>>] = text]
    PROVE  /\ store' \in [Keys -> Texts \cup {NoPost}] /\ feed' \in [Posts -> Texts \cup {NoPost}]
           /\ InStep => InStep'
<1>1. \A x \in Repos, y \in Rkeys : PostKey(x, y) \in Keys /\ <<x, y>> \in Posts
  BY DEF Keys, Posts
<1>2. \A x \in Repos, y \in Rkeys :
         (PostKey(x, y) = PostKey(r, k)) = (<<x, y>> = <<r, k>>)
  BY DEF PostKey
<1>3. store' \in [Keys -> Texts \cup {NoPost}] /\ feed' \in [Posts -> Texts \cup {NoPost}]
  BY DEF FeedInv
<1>4. ASSUME InStep, NEW x \in Repos, NEW y \in Rkeys
      PROVE  store'[PostKey(x, y)] = feed'[<<x, y>>]
  <2> DEFINE a == PostKey(x, y)  b == <<x, y>>  a1 == PostKey(r, k)  b1 == <<r, k>>
  <2>1. a \in Keys /\ b \in Posts /\ a1 \in Keys /\ b1 \in Posts /\ (a = a1) = (b = b1)
    BY <1>1, <1>2
  <2>2. store[a] = feed[b]
    BY <1>4 DEF InStep
  <2>3. store' = [store EXCEPT ![a1] = text] /\ feed' = [feed EXCEPT ![b1] = text]
          /\ store \in [Keys -> Texts \cup {NoPost}] /\ feed \in [Posts -> Texts \cup {NoPost}]
    BY DEF FeedInv
  <2> HIDE DEF a, b, a1, b1
  <2>4. store'[a] = feed'[b]
    BY <2>1, <2>2, <2>3
  <2> QED
    BY <2>4 DEF a, b
<1> QED
  BY <1>3, <1>4 DEF InStep

\* What is not read is of the network's posts.
LEMMA FeedTyped ==
    ASSUME FeedInv, NEW P \in SUBSET Posts, FeedMovesOn(P)
    PROVE  feed' \in [Posts -> Texts \cup {NoPost}]
BY DEF FeedInv, FeedMovesOn

\* Each step keeps the store in step with the feed, or tells.
LEMMA FeedStep ==
    ASSUME CounterInv, MainInv, FeedInv, [Next]_vars
    PROVE  FeedInv'
<1>1. store \in [Keys -> Texts \cup {NoPost}] /\ feed \in [Posts -> Texts \cup {NoPost}]
  BY DEF FeedInv
<1>2. Told => Told'
  BY ToldStays
<1>3. ASSUME UNCHANGED <<store, feed>>
      PROVE  FeedInv'
  BY <1>1, <1>2, <1>3, FeedKept DEF InStep
<1>4. ASSUME NEW P \in SUBSET Posts, FeedMovesOn(P), UNCHANGED store, Told'
      PROVE  FeedInv'
  BY <1>1, <1>2, <1>4, FeedKept, FeedTyped
<1>5. ASSUME NEW k \in Rkeys, NEW text \in Texts \cup {NoPost}, main = "ops",
             store' = [store EXCEPT ![PostKey(repo, k)] = text],
             feed' = [feed EXCEPT ![<<repo, k>>] = text]
      PROVE  FeedInv'
  <2>1. repo \in Repos
    BY <1>5 DEF MainInv
  <2> QED
    BY <1>2, <1>5, <2>1, FeedKept, OneKeyOnePost
<1>6. CASE UNCHANGED vars \/ SkipFrame \/ LoopEnds \/ Close \/ Tick
  BY <1>3, <1>6 DEF vars, SkipFrame, LoopEnds, Close, Tick, envVars
<1>7. CASE FrameUnreadable
  <2>1. FeedMovesOn(Posts) /\ UNCHANGED store /\ Told'
    BY <1>7 DEF FrameUnreadable, GivenUp, Told
  <2> QED
    BY <1>4, <2>1
<1>8. CASE CallFails \/ CarUnreadable
  <2>1. FeedMovesOn({repo} \X Rkeys) /\ UNCHANGED store /\ Told' /\ main = "ops"
    BY <1>8 DEF CallFails, CarUnreadable, GivenUp, Told
  <2>2. {repo} \X Rkeys \in SUBSET Posts
    BY <2>1 DEF MainInv, Posts
  <2> QED
    BY <1>4, <2>1, <2>2
<1>9. ASSUME NEW r \in Repos, NEW n \in 1..MaxOps, BeginCommit(r, n)
      PROVE  FeedInv'
  BY <1>3, <1>9 DEF BeginCommit, envVars
<1>10. ASSUME NEW k \in Rkeys, SkipOp(k)
       PROVE  FeedInv'
  <2>1. main = "ops" /\ FeedMovesOn({<<repo, k>>}) /\ UNCHANGED store /\ Count("skipped")
    BY <1>10 DEF SkipOp, SkipCounts
  <2>2. {<<repo, k>>} \in SUBSET Posts
    BY <2>1 DEF MainInv, Posts
  <2>3. Told'
    <3>1. "skipped" \in Counted /\ metrics["skipped"].total \in Nat
      BY DEF CounterInv, Counted, MetricRec
    <3>2. Counts({"skipped"})
      BY <2>1, <3>1, CountOK
    <3>3. metrics'["skipped"].total = metrics["skipped"].total + 1
      BY <3>1, <3>2 DEF Counts
    <3> QED
      BY <3>1, <3>3 DEF Told
  <2> QED
    BY <1>4, <2>1, <2>2, <2>3
<1>11. ASSUME NEW k \in Rkeys, NEW d \in Durations, DeletePost(k, d)
       PROVE  FeedInv'
  BY <1>5, <1>11 DEF DeletePost
<1>12. ASSUME NEW k \in Rkeys, NEW text \in Texts, NEW d \in Durations, StorePost(k, text, d)
       PROVE  FeedInv'
  BY <1>5, <1>12 DEF StorePost
<1> QED
  BY <1>6, <1>7, <1>8, <1>9, <1>10, <1>11, <1>12 DEF Next

\* What differs was told.
LEMMA FeedInvImplies ==
    FeedInv => NothingIsMissedSilently
<1> SUFFICES ASSUME FeedInv, NEW p \in Posts, store[PostKey(p[1], p[2])] # feed[p]
             PROVE  warned \/ metrics["skipped"].total > 0
  BY DEF NothingIsMissedSilently
<1>1. p[1] \in Repos /\ p[2] \in Rkeys /\ p = <<p[1], p[2]>>
  BY DEF Posts
<1>2. ~InStep
  BY <1>1 DEF InStep
<1> QED
  BY <1>2 DEF FeedInv, InStep


\* A step keeps the charts' sums.
LEMMA ChartStep ==
    ASSUME CountInv, ChartInv, [Next]_vars
    PROVE  ChartInv'
<1>1. /\ "frames" \in Counted /\ ticks \in Nat /\ HISTORY_LEN \in Nat \ {0}
      /\ \A c \in Counted : metrics[c] \in MetricRec
  BY ConstantsOK DEF CountInv, CounterInv, MainInv, Counted
<1>2. ASSUME NEW c \in Counted
      PROVE  /\ metrics[c].history \in Seq(Nat) /\ metrics[c].this_tick \in Nat
             /\ metrics[c].total \in Nat /\ SumOf(metrics[c].history) \in Nat
             /\ SumOf(metrics[c].history) + metrics[c].this_tick <= metrics[c].total
             /\ ticks <= HISTORY_LEN =>
                   SumOf(metrics[c].history) + metrics[c].this_tick = metrics[c].total
             /\ Len(metrics[c].history) <= ticks /\ Len(metrics[c].history) \in Nat
  <2>1. metrics[c].history \in Seq(Nat) /\ metrics[c].this_tick \in Nat /\ metrics[c].total \in Nat
    BY <1>1 DEF MetricRec
  <2>2. Len(metrics[c].history) = Len(metrics["frames"].history)
    BY DEF CountInv, ColumnsInv
  <2> QED
    BY <2>1, <2>2, SumType DEF ChartInv, ChartsAddUp
<1>3. ASSUME NEW S, Counts(S), UNCHANGED ticks
      PROVE  ChartInv'
  <2>1. Len(metrics'["frames"].history) <= ticks'
    BY <1>1, <1>2, <1>3 DEF Counts
  <2>2. ASSUME NEW c \in Counted
        PROVE  /\ SumOf(metrics'[c].history) + metrics'[c].this_tick <= metrics'[c].total
               /\ ticks' <= HISTORY_LEN =>
                     SumOf(metrics'[c].history) + metrics'[c].this_tick = metrics'[c].total
    <3>1. metrics'[c].history = metrics[c].history /\ ticks' = ticks
      BY <1>3 DEF Counts
    <3>2. \E i \in {0, 1} : /\ metrics'[c].total = metrics[c].total + i
                            /\ metrics'[c].this_tick = metrics[c].this_tick + i
      BY <1>3 DEF Counts
    <3> QED
      BY <1>2, <3>1, <3>2
  <2> QED
    BY <2>1, <2>2 DEF ChartInv, ChartsAddUp
<1>4. CASE Tick
  <2>1. metrics' = [c \in Counted |-> Ticked(metrics[c])] /\ ticks' = ticks + 1
    BY <1>4 DEF Tick
  <2>2. ASSUME NEW c \in Counted
        PROVE  /\ Len(metrics'[c].history) <= ticks'
               /\ SumOf(metrics'[c].history) + metrics'[c].this_tick <= metrics'[c].total
               /\ ticks' <= HISTORY_LEN =>
                     SumOf(metrics'[c].history) + metrics'[c].this_tick = metrics'[c].total
    <3> DEFINE q == metrics[c].history
               x == metrics[c].this_tick
               p == Pushed(q, x, HISTORY_LEN)
    <3>1. metrics'[c].history = p /\ metrics'[c].this_tick = 0 /\ metrics'[c].total = metrics[c].total
      BY <1>1, <2>1, TickedOK
    <3>2. q \in Seq(Nat) /\ x \in Nat /\ Len(q) <= HISTORY_LEN
      <4>1. Len(q) = Len(metrics["frames"].history)
        BY DEF CountInv, ColumnsInv
      <4> QED
        BY <1>2, <4>1 DEF CountInv, ColumnsInv
    <3> HIDE DEF q, x
    <3>3. SumOf(p) <= SumOf(q) + x /\ (Len(q) < HISTORY_LEN => SumOf(p) = SumOf(q) + x)
      BY <1>1, <3>2, SumPushed
    <3>4. p \in Seq(Nat) /\ IsPushed(p, q, x, HISTORY_LEN)
      BY <1>1, <3>2, PushedOK
    <3> HIDE DEF p
    <3>5. Len(p) <= ticks + 1 /\ SumOf(p) \in Nat
      BY <1>1, <1>2, <3>2, <3>4, SumType DEF IsPushed, q
    <3> QED
      BY <1>1, <1>2, <2>1, <3>1, <3>2, <3>3, <3>5 DEF q, x
  <2> QED
    BY <1>1, <2>2 DEF ChartInv, ChartsAddUp
<1> QED
  BY <1>3, <1>4, StepCounts DEF CountInv

-----------------------------------------------------------------------------
(* The theorems.                                                             *)

\* A step keeps what is counted.
LEMMA CountStep ==
    CountInv /\ [Next]_vars => CountInv'
<1> SUFFICES ASSUME CountInv, [Next]_vars PROVE CountInv'
  OBVIOUS
<1>1. CASE UNCHANGED vars
  BY <1>1 DEF vars, frameVars, appVars, envVars, CountInv, MainInv, CounterInv, ColumnsInv, SecondInv,
              AppAgreesWithEngine, ColumnsMatch
<1>2. CASE Next
  BY <1>2, FrameStep, EndStep DEF Next
<1> QED
  BY <1>1, <1>2

\* What the charts are made of keeps its types.
LEMMA CountTyped ==
    CountInv /\ SyncInv => TypeOK
<1> SUFFICES ASSUME CountInv, SyncInv PROVE TypeOK
  OBVIOUS
<1>1. /\ \A c \in Counted : Len(metrics[c].history) <= HISTORY_LEN
      /\ \A c \in Charted : Len(latency[c].history) <= HISTORY_LEN
  BY DEF CountInv, ColumnsInv
<1> QED
  BY <1>1, Zenon DEF TypeOK, CountInv, MainInv, CounterInv, CounterRec, SyncInv

\* The invariant holds at first, and every step keeps it.
LEMMA Inductive ==
    /\ Init => IInv
    /\ IInv /\ [Next]_vars => IInv'
<1>1. IInv /\ [Next]_vars => IInv'
  <2> SUFFICES ASSUME IInv, [Next]_vars PROVE IInv'
    OBVIOUS
  <2>1. CountInv /\ CounterInv /\ MainInv /\ ChartInv /\ SyncInv /\ FeedInv
    BY DEF IInv, CountInv
  <2> QED
    BY <2>1, CountStep, ChartStep, SyncStep, FeedStep DEF IInv
<1> QED
  BY <1>1, InitOK

\* So it always holds.
LEMMA AlwaysIInv ==
    Spec => []IInv
BY Inductive, PTL DEF Spec

\* The counters and the histories that App keeps tell what the store did, for any number of
\* seconds, any length of the charts and calls of any durations: the counters agree with the
\* engine's reports, and the columns are of the same seconds and make up the totals.
THEOREM ChartsAgree ==
    Spec => []ChartsAreRight
<1>1. IInv => ChartsAreRight
  BY CountTyped DEF IInv, CountInv, ChartInv, ChartsAreRight
<1> QED
  BY <1>1, AlwaysIInv, PTL

\* No change is left unsynced: it waits less than an interval, and an interval more for each
\* merge or sync that failed since (App::tick), and the end of the program syncs or says so.
THEOREM SyncedInTime ==
    Spec => []ChangesAreSynced
<1>1. IInv => ChangesAreSynced
  BY SyncInvImplies DEF IInv
<1> QED
  BY <1>1, AlwaysIInv, PTL

\* The store is what the feed says, unless a frame was given up with a warning or something
\* was counted as skipped (handle_frame): later events overwrite and remove the same key, and
\* no other.
THEOREM NothingMissed ==
    Spec => []NothingIsMissedSilently
<1>1. IInv => NothingIsMissedSilently
  BY FeedInvImplies DEF IInv
<1> QED
  BY <1>1, AlwaysIInv, PTL
=============================================================================
