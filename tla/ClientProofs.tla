----------------------------- MODULE ClientProofs -----------------------------
(* Proofs about two programs that use the store.                             *)
(*                                                                           *)
(* LoadTest, for any number of workers, any batch size and any lengths of    *)
(* the run: where a sample is on its way from the call to the summary, and   *)
(* in which order the threads come to their end.                             *)
(*                                                                           *)
(* TodoTui, for any characters, length of titles, number of ids and of runs: *)
(* the list is the store, and a key changes no todo but the selected one.    *)
EXTENDS LoadTest, TodoTui, FiniteSetTheorems, SequenceTheorems, TLAPS

-----------------------------------------------------------------------------
(* The load generator: its inductive invariant.                              *)

SampleRec == [by : Threads, n : Nat, warm : BOOLEAN]

ClockInv ==
    /\ now \in 0..TotalRun /\ wake \in 0..TotalRun + 1 /\ due \in Nat

MainInv ==
    /\ main \in {"loop", "sleep", "drain", "join", "last_drain", "close", "done", "panicked"}
    /\ announced \in BOOLEAN /\ recording \in BOOLEAN /\ stop \in BOOLEAN
    /\ doubled \in BOOLEAN /\ closed \in BOOLEAN

ThreadInv ==
    /\ at \in [Threads -> {"loop", "call", "ended", "panicked"}]
    /\ ops \in [Threads -> 0..MaxOps]
    /\ begun \in [Threads -> BOOLEAN]
    /\ \A t \in Threads : (begun[t] => recording) /\ (at[t] = "call" => ops[t] >= 1)

\* A worker's batch is short of full, holds its own samples, and goes with the worker.
LocalInv ==
    /\ local \in [Workers -> SUBSET SampleRec]
    /\ \A w \in Workers :
          /\ IsFiniteSet(local[w]) /\ Cardinality(local[w]) < BatchSize
          /\ \A s \in local[w] : s.by = w
          /\ at[w] \in {"ended", "panicked"} => local[w] = {}

\* A sample is somewhere on its way: in a batch, in the shared list, or in the total.
InKept(s, sm, al, lo) == s \in sm \/ s \in al \/ \E w \in Workers : s \in lo[w]

\* Calls are numbered, and the one in progress has no sample yet.
NumberInv ==
    /\ samples \subseteq SampleRec /\ all_samples \subseteq SampleRec
    /\ \A s \in SampleRec : InKept(s, samples, all_samples, local) =>
          /\ s.n \in 1..ops[s.by]
          /\ at[s.by] = "call" => s.n < ops[s.by]

LostInv ==
    \A t \in Threads : begun[t] /\ at[t] \in {"loop", "ended"}
                          => InKept(Sample(t), samples, all_samples, local)

\* The store is held by the threads that still run, and by the main thread to the end.
RefsInv ==
    refs = {t \in Threads : at[t] \in {"loop", "call"}}
              \cup (IF main = "done" THEN {} ELSE {"main"})

EndInv ==
    /\ main \in {"last_drain", "close", "done"} => \A t \in Threads : at[t] = "ended"
    /\ Finished => samples = {}
    /\ IF main = "done" THEN closed ELSE ~closed
    /\ main = "panicked" => \E t \in Threads : at[t] = "panicked"

IInv == /\ ClockInv /\ MainInv /\ ThreadInv /\ LocalInv /\ NumberInv /\ NoSampleTwice /\ LostInv
        /\ RefsInv /\ EndInv

-----------------------------------------------------------------------------
\* InKept, with its state as arguments, is what Kept says.
LEMMA InKeptIsKept ==
    \A s : s \in Kept <=> InKept(s, samples, all_samples, local)
BY DEF Kept, InKept

\* What the runs check follows from the invariant.
LEMMA IInvImplies == IInv => SamplesAddUp /\ EndsInOrder
<1> SUFFICES ASSUME IInv PROVE SamplesAddUp /\ EndsInOrder
  OBVIOUS
<1>1. TypeOK
  <2>1. \A s \in Kept : s.by \in Threads /\ s.n \in 1..ops[s.by]
    <3> SUFFICES ASSUME NEW s \in Kept PROVE s.by \in Threads /\ s.n \in 1..ops[s.by]
      OBVIOUS
    <3>1. InKept(s, samples, all_samples, local)
      BY InKeptIsKept
    <3>2. s \in SampleRec
      BY <3>1 DEF InKept, IInv, NumberInv, LocalInv
    <3> QED
      BY <3>1, <3>2 DEF IInv, NumberInv, SampleRec
  <2> QED
    BY <2>1 DEF TypeOK, IInv, ClockInv, MainInv, ThreadInv, LocalInv
<1>2. EverySampleIsCounted
  <2> SUFFICES ASSUME Finished PROVE Kept = all_samples
    BY DEF EverySampleIsCounted
  <2>1. samples = {} /\ \A w \in Workers : local[w] = {}
    BY DEF IInv, EndInv, LocalInv, Finished, Threads
  <2> QED
    BY <2>1 DEF Kept
<1>3. NothingRecordedIsLost
  BY InKeptIsKept DEF NothingRecordedIsLost, IInv, LostInv
<1>4. EndsInOrder
  BY DEF EndsInOrder, IInv, EndInv, Finished
<1> QED
  BY <1>1, <1>2, <1>3, <1>4 DEF SamplesAddUp, IInv

\* Before the run nothing is recorded.
LEMMA InitOK == Init => IInv
<1> SUFFICES ASSUME Init PROVE IInv
  OBVIOUS
<1>1. ClockInv /\ MainInv
  <2>1. ClockInv
    BY LoadTestAssumption DEF Init, ClockInv, TotalRun
  <2>2. announced \in BOOLEAN /\ recording \in BOOLEAN
    <3>1. (Warmup = 0) \in BOOLEAN
      OBVIOUS
    <3> QED
      BY <3>1, Zenon DEF Init
  <2>3. MainInv
    BY <2>2 DEF Init, MainInv
  <2> QED
    BY <2>1, <2>3
<1>2. ThreadInv
  BY LoadTestAssumption DEF Init, ThreadInv
<1>3. LocalInv
  BY LoadTestAssumption, FS_EmptySet DEF Init, LocalInv
<1>4. NumberInv /\ NoSampleTwice /\ LostInv
  BY DEF Init, NumberInv, NoSampleTwice, LostInv, InKept
<1>5. RefsInv /\ EndInv
  BY DEF Init, RefsInv, EndInv, Finished
<1> QED
  BY <1>1, <1>2, <1>3, <1>4, <1>5 DEF IInv

-----------------------------------------------------------------------------
(* Steps that move no sample and no thread.                                  *)

\* Time, and the main thread's steps around its loop.
LEMMA LoopStepOK ==
    ASSUME IInv, Tick \/ Loop \/ Announce
    PROVE  IInv'
<1>1. UNCHANGED <<at, ops, begun, due, local, samples, all_samples, doubled, refs, closed>>
  BY DEF Tick, Loop, Announce, mainVars, threadVars
<1>2. main' \in {"loop", "sleep", "drain", "join"} \/ main' = main
  BY DEF Tick, Loop, Announce, mainVars
<1>3. main' # main => main \in {"loop", "sleep"}
  BY DEF Tick, Loop, Announce, mainVars
<1>4. ClockInv'
  <2>1. CASE Tick
    BY <1>1, <2>1, LoadTestAssumption DEF Tick, mainVars, ClockInv, IInv, TotalRun
  <2>2. CASE Loop
    BY <1>1, <2>2, LoadTestAssumption DEF Loop, ClockInv, IInv, TotalRun, Least, Greatest
  <2>3. CASE Announce
    BY <1>1, <2>3 DEF Announce, ClockInv, IInv
  <2> QED
    BY <2>1, <2>2, <2>3
<1>5. recording' \in BOOLEAN /\ (recording => recording') /\ announced' \in BOOLEAN
      /\ stop' \in BOOLEAN
  BY DEF Tick, Loop, Announce, mainVars, IInv, MainInv
<1>6. MainInv'
  BY <1>1, <1>2, <1>5 DEF MainInv, IInv
<1>7. ThreadInv'
  BY <1>1, <1>5 DEF ThreadInv, IInv
<1>8. LocalInv' /\ NumberInv' /\ NoSampleTwice' /\ LostInv'
  BY <1>1 DEF IInv, LocalInv, NumberInv, NoSampleTwice, LostInv, Sample, InKept
<1>9. RefsInv' /\ EndInv'
  BY <1>1, <1>2, <1>3 DEF IInv, RefsInv, EndInv, Finished
<1> QED
  BY <1>4, <1>6, <1>7, <1>8, <1>9 DEF IInv

\* The threads are joined; nobody panicked, or the main thread does.
LEMMA JoinOK ==
    ASSUME IInv, Join
    PROVE  IInv'
<1>1. /\ UNCHANGED <<now, at, ops, begun, due, local, wake, announced, recording, stop, samples,
                     all_samples, doubled, refs, closed>>
      /\ main = "join" /\ main' \in {"panicked", "last_drain"}
      /\ main' = "last_drain" => \A t \in Threads : at[t] = "ended"
      /\ main' = "panicked" => \E t \in Threads : at[t] = "panicked"
  BY DEF Join, threadVars, MustJoin
<1>2. ClockInv' /\ MainInv' /\ ThreadInv'
  BY <1>1 DEF IInv, ClockInv, MainInv, ThreadInv
<1>3. LocalInv' /\ NumberInv' /\ NoSampleTwice' /\ LostInv'
  BY <1>1 DEF IInv, LocalInv, NumberInv, NoSampleTwice, LostInv, Sample, InKept
<1>4. RefsInv' /\ EndInv'
  BY <1>1 DEF IInv, RefsInv, EndInv, Finished
<1> QED
  BY <1>2, <1>3, <1>4 DEF IInv

\* What was drained is in the total, once.
LEMMA DrainedOK ==
    ASSUME IInv, Drain \/ LastDrain
    PROVE  IInv'
<1>1. /\ UNCHANGED <<now, at, ops, begun, due, local, wake, announced, recording, stop, refs,
                     closed>>
      /\ Drained
      /\ \/ main = "drain" /\ main' = "loop"
         \/ main = "last_drain" /\ main' = "close"
  BY DEF Drain, LastDrain, threadVars
<1>2. /\ samples' = {} /\ all_samples' = all_samples \cup samples
      /\ doubled' = (doubled \/ samples \cap all_samples # {})
  BY <1>1 DEF Drained
<1>3. ~doubled' /\ doubled' \in BOOLEAN
  BY <1>2 DEF IInv, NoSampleTwice
<1>4. ClockInv' /\ MainInv' /\ ThreadInv' /\ LocalInv'
  BY <1>1, <1>3 DEF IInv, ClockInv, MainInv, ThreadInv, LocalInv
<1>5. \A s : InKept(s, samples', all_samples', local') <=> InKept(s, samples, all_samples, local)
  BY <1>1, <1>2 DEF InKept
<1>6. NumberInv'
  BY <1>1, <1>2, <1>5 DEF IInv, NumberInv
<1>7. LostInv'
  BY <1>1, <1>5 DEF IInv, LostInv, Sample
<1>8. NoSampleTwice'
  BY <1>1, <1>2, <1>3 DEF IInv, NoSampleTwice
<1>9. RefsInv' /\ EndInv'
  BY <1>1, <1>2 DEF IInv, RefsInv, EndInv, Finished
<1> QED
  BY <1>4, <1>6, <1>7, <1>8, <1>9 DEF IInv

\* The main thread holds the last reference when it closes the store.
LEMMA CloseStoreOK ==
    ASSUME IInv, CloseStore
    PROVE  IInv'
<1>1. /\ UNCHANGED <<now, at, ops, begun, due, local, wake, announced, recording, stop, samples,
                     all_samples, doubled>>
      /\ main = "close" /\ main' = "done" /\ refs' = refs \ {"main"}
      /\ closed' = (refs = {"main"})
  BY DEF CloseStore, threadVars
<1>2. \A t \in Threads : at[t] = "ended"
  BY <1>1 DEF IInv, EndInv
<1>3. refs = {"main"}
  BY <1>1, <1>2 DEF IInv, RefsInv
<1>4. closed' /\ closed' \in BOOLEAN
  BY <1>1, <1>3
<1>5. refs' = {} /\ {t \in Threads : at'[t] \in {"loop", "call"}} = {}
  BY <1>1, <1>2, <1>3
<1>6. ClockInv' /\ MainInv' /\ ThreadInv' /\ LocalInv'
  BY <1>1, <1>4 DEF IInv, ClockInv, MainInv, ThreadInv, LocalInv
<1>7. NumberInv' /\ NoSampleTwice' /\ LostInv'
  BY <1>1 DEF IInv, NumberInv, NoSampleTwice, LostInv, Sample, InKept
<1>8. RefsInv' /\ EndInv'
  BY <1>1, <1>2, <1>4, <1>5 DEF IInv, RefsInv, EndInv, Finished
<1> QED
  BY <1>6, <1>7, <1>8 DEF IInv

-----------------------------------------------------------------------------
(* Steps of the workers and of the merge thread.                             *)

\* A thread that moves is no ended one, so the main thread is not past its join.
LEMMA ThreadMoves ==
    ASSUME IInv, NEW t \in Threads, NEW l \in {"loop", "call", "ended", "panicked"},
           at[t] \in {"loop", "call"}, at' = [at EXCEPT ![t] = l],
           refs' = IF l \in {"ended", "panicked"} THEN refs \ {t} ELSE refs,
           UNCHANGED <<now, mainVars>>
    PROVE  /\ RefsInv' /\ EndInv'
           /\ MainInv' /\ now' \in 0..TotalRun /\ wake' \in 0..TotalRun + 1
           /\ at' \in [Threads -> {"loop", "call", "ended", "panicked"}]
           /\ at'[t] = l /\ \A u \in Threads \ {t} : at'[u] = at[u]
<1>1. at \in [Threads -> {"loop", "call", "ended", "panicked"}]
  BY DEF IInv, ThreadInv
<1>2. /\ at' \in [Threads -> {"loop", "call", "ended", "panicked"}]
      /\ at'[t] = l /\ \A u \in Threads \ {t} : at'[u] = at[u]
  BY <1>1
<1>3. main \notin {"last_drain", "close", "done"} /\ main' = main
  BY DEF IInv, EndInv, mainVars
<1>4. EndInv'
  <2>1. UNCHANGED closed /\ \A u \in Threads : at[u] = "panicked" => at'[u] = "panicked"
    BY <1>2 DEF mainVars
  <2> QED
    BY <1>3, <2>1 DEF IInv, EndInv, Finished
<1>5. RefsInv'
  <2>1. refs = {u \in Threads : at[u] \in {"loop", "call"}} \cup {"main"}
    BY <1>3 DEF IInv, RefsInv
  <2>2. t # "main"
    BY LoadTestAssumption
  <2>3. refs' = {u \in Threads : at'[u] \in {"loop", "call"}} \cup {"main"}
    <3>1. CASE l \in {"ended", "panicked"}
      BY <1>2, <2>1, <2>2, <3>1
    <3>2. CASE l \in {"loop", "call"}
      BY <1>2, <2>1, <3>2
    <3> QED
      BY <3>1, <3>2
  <2> QED
    BY <1>3, <2>3 DEF RefsInv
<1>6. MainInv' /\ now' \in 0..TotalRun /\ wake' \in 0..TotalRun + 1
  BY DEF IInv, MainInv, ClockInv, mainVars
<1> QED
  BY <1>2, <1>4, <1>5, <1>6

\* A call starts after its predecessor's sample was taken.
LEMMA BeginCallOK ==
    ASSUME IInv, NEW t \in Threads, BeginCall(t)
    PROVE  IInv'
<1>1. /\ at[t] = "loop" /\ ops[t] < MaxOps /\ at' = [at EXCEPT ![t] = "call"]
      /\ ops' = [ops EXCEPT ![t] = @ + 1] /\ begun' = [begun EXCEPT ![t] = recording]
      /\ UNCHANGED <<now, mainVars, due, local, samples, refs>>
  BY DEF BeginCall
<1>2. /\ RefsInv' /\ EndInv'
      /\ MainInv' /\ now' \in 0..TotalRun /\ wake' \in 0..TotalRun + 1
      /\ at' \in [Threads -> {"loop", "call", "ended", "panicked"}]
      /\ at'[t] = "call" /\ \A u \in Threads \ {t} : at'[u] = at[u]
  BY <1>1, ThreadMoves
<1>3. UNCHANGED <<due, local, samples, all_samples, recording, doubled>>
  BY <1>1 DEF mainVars
<1>4. /\ ops \in [Threads -> 0..MaxOps] /\ MaxOps \in Nat /\ recording \in BOOLEAN
      /\ begun \in [Threads -> BOOLEAN] /\ \A u \in Threads : begun[u] => recording
  BY LoadTestAssumption DEF IInv, ThreadInv, MainInv
<1>5. /\ ops'[t] = ops[t] + 1 /\ ops' \in [Threads -> 0..MaxOps]
      /\ \A u \in Threads \ {t} : ops'[u] = ops[u] /\ begun'[u] = begun[u]
  BY <1>1, <1>4
<1>6. ClockInv'
  BY <1>2, <1>3 DEF ClockInv, IInv
<1>7. ThreadInv'
  <2>1. begun' \in [Threads -> BOOLEAN] /\ begun'[t] = recording
    BY <1>1, <1>4
  <2> QED
    BY <1>2, <1>3, <1>4, <1>5, <2>1 DEF ThreadInv, IInv
<1>8. LocalInv'
  BY <1>1, <1>2, <1>3 DEF IInv, LocalInv, Threads
<1>9. NumberInv'
  <2> SUFFICES ASSUME NEW s \in SampleRec, InKept(s, samples, all_samples, local)
               PROVE  /\ s.n \in 1..ops'[s.by]
                      /\ at'[s.by] = "call" => s.n < ops'[s.by]
    BY <1>3 DEF IInv, NumberInv
  <2>1. s.n \in 1..ops[s.by] /\ (at[s.by] = "call" => s.n < ops[s.by]) /\ s.by \in Threads
    BY DEF IInv, NumberInv, SampleRec
  <2>2. CASE s.by = t
    BY <1>4, <1>5, <2>1, <2>2
  <2>3. CASE s.by # t
    BY <1>2, <1>5, <2>1, <2>3
  <2> QED
    BY <2>2, <2>3
<1>10. NoSampleTwice'
  BY <1>3 DEF IInv, NoSampleTwice
<1>11. LostInv'
  <2> SUFFICES ASSUME NEW u \in Threads, begun'[u], at'[u] \in {"loop", "ended"}
               PROVE  InKept(Sample(u)', samples, all_samples, local)
    BY <1>3 DEF LostInv
  <2>1. u # t /\ Sample(u)' = Sample(u) /\ begun[u] /\ at[u] \in {"loop", "ended"}
    BY <1>2, <1>5 DEF Sample
  <2> QED
    BY <2>1 DEF IInv, LostInv
<1> QED
  BY <1>2, <1>6, <1>7, <1>8, <1>9, <1>10, <1>11 DEF IInv

\* A worker that panics takes its batch with it, and its reference to the store.
LEMMA CallPanicsOK ==
    ASSUME IInv, NEW t \in Threads, CallPanics(t)
    PROVE  IInv'
<1>1. /\ at[t] = "call" /\ at' = [at EXCEPT ![t] = "panicked"]
      /\ local' = [w \in Workers |-> IF w = t THEN {} ELSE local[w]]
      /\ refs' = refs \ {t}
      /\ UNCHANGED <<now, mainVars, ops, begun, due, samples>>
  BY DEF CallPanics
<1>2. /\ RefsInv' /\ EndInv'
      /\ MainInv' /\ now' \in 0..TotalRun /\ wake' \in 0..TotalRun + 1
      /\ at' \in [Threads -> {"loop", "call", "ended", "panicked"}]
      /\ at'[t] = "panicked" /\ \A u \in Threads \ {t} : at'[u] = at[u]
  BY <1>1, ThreadMoves
<1>3. UNCHANGED <<due, ops, begun, samples, all_samples, recording, doubled>>
  BY <1>1 DEF mainVars
<1>4. ClockInv' /\ ThreadInv'
  BY <1>2, <1>3 DEF ClockInv, ThreadInv, IInv
<1>5. \A w \in Workers : local'[w] = IF w = t THEN {} ELSE local[w]
  BY <1>1
<1>6. LocalInv'
  <2>1. IsFiniteSet({}) /\ Cardinality({}) = 0 /\ 0 < BatchSize
    BY FS_EmptySet, LoadTestAssumption
  <2> QED
    BY <1>1, <1>2, <1>5, <2>1 DEF IInv, LocalInv, Threads
<1>7. \A s : InKept(s, samples, all_samples, local') => InKept(s, samples, all_samples, local)
  BY <1>5 DEF InKept
<1>8. NumberInv'
  <2> SUFFICES ASSUME NEW s \in SampleRec, InKept(s, samples, all_samples, local)
               PROVE  /\ s.n \in 1..ops[s.by]
                      /\ at'[s.by] = "call" => s.n < ops[s.by]
    BY <1>3, <1>7 DEF IInv, NumberInv
  <2>1. s.n \in 1..ops[s.by] /\ (at[s.by] = "call" => s.n < ops[s.by]) /\ s.by \in Threads
    BY DEF IInv, NumberInv, SampleRec
  <2> QED
    BY <1>1, <1>2, <2>1
<1>9. NoSampleTwice'
  BY <1>3, <1>5 DEF IInv, NoSampleTwice
<1>10. LostInv'
  <2> SUFFICES ASSUME NEW u \in Threads, begun[u], at'[u] \in {"loop", "ended"}
               PROVE  InKept(Sample(u), samples, all_samples, local')
    BY <1>3 DEF LostInv, Sample
  <2>1. u # t /\ at[u] \in {"loop", "ended"}
    BY <1>2
  <2>2. InKept(Sample(u), samples, all_samples, local)
    BY <2>1 DEF IInv, LostInv
  <2>3. Sample(u).by = u
    BY DEF Sample
  <2>4. \A w \in Workers : Sample(u) \in local[w] => Sample(u) \in local'[w]
    BY <1>5, <2>1, <2>3 DEF IInv, LocalInv
  <2> QED
    BY <2>2, <2>4 DEF InKept
<1> QED
  BY <1>2, <1>4, <1>6, <1>8, <1>9, <1>10 DEF IInv

\* The last batch is handed over.
LEMMA EndsOK ==
    ASSUME IInv, NEW t \in Threads, Ends(t)
    PROVE  IInv'
<1>1. /\ at[t] = "loop" /\ at' = [at EXCEPT ![t] = "ended"]
      /\ samples' = samples \cup LastBatch(t)
      /\ local' = [w \in Workers |-> IF w = t THEN {} ELSE local[w]]
      /\ refs' = refs \ {t}
      /\ UNCHANGED <<now, mainVars, ops, begun, due>>
  BY DEF Ends
<1>2. /\ RefsInv' /\ EndInv'
      /\ MainInv' /\ now' \in 0..TotalRun /\ wake' \in 0..TotalRun + 1
      /\ at' \in [Threads -> {"loop", "call", "ended", "panicked"}]
      /\ at'[t] = "ended" /\ \A u \in Threads \ {t} : at'[u] = at[u]
  BY <1>1, ThreadMoves
<1>3. UNCHANGED <<due, ops, begun, all_samples, recording, doubled>>
  BY <1>1 DEF mainVars
<1>4. ClockInv' /\ ThreadInv'
  BY <1>2, <1>3 DEF ClockInv, ThreadInv, IInv
<1>5. \A w \in Workers : local'[w] = IF w = t THEN {} ELSE local[w]
  BY <1>1
<1>6. LocalInv'
  <2>1. IsFiniteSet({}) /\ Cardinality({}) = 0 /\ 0 < BatchSize
    BY FS_EmptySet, LoadTestAssumption
  <2> QED
    BY <1>1, <1>2, <1>5, <2>1 DEF IInv, LocalInv, Threads
<1>7. LastBatch(t) \subseteq SampleRec
  BY DEF LastBatch, IInv, LocalInv
<1>8. \A s : InKept(s, samples', all_samples', local') <=> InKept(s, samples, all_samples, local)
  BY <1>1, <1>3, <1>5 DEF InKept, LastBatch
<1>9. NumberInv'
  <2> SUFFICES ASSUME NEW s \in SampleRec, InKept(s, samples, all_samples, local)
               PROVE  /\ s.n \in 1..ops[s.by]
                      /\ at'[s.by] = "call" => s.n < ops[s.by]
    BY <1>1, <1>3, <1>7, <1>8 DEF IInv, NumberInv
  <2>1. s.n \in 1..ops[s.by] /\ (at[s.by] = "call" => s.n < ops[s.by]) /\ s.by \in Threads
    BY DEF IInv, NumberInv, SampleRec
  <2> QED
    BY <1>1, <1>2, <2>1
<1>10. NoSampleTwice'
  <2>1. LastBatch(t) \cap all_samples = {}
    BY DEF LastBatch, IInv, NoSampleTwice
  <2>2. \A w \in Workers : local'[w] \cap LastBatch(t) = {}
    BY <1>5 DEF LastBatch, IInv, LocalInv
  <2> QED
    BY <1>1, <1>3, <1>5, <2>1, <2>2 DEF IInv, NoSampleTwice
<1>11. LostInv'
  <2> SUFFICES ASSUME NEW u \in Threads, begun[u], at'[u] \in {"loop", "ended"}
               PROVE  InKept(Sample(u), samples, all_samples, local)
    BY <1>3, <1>8 DEF LostInv, Sample
  <2>1. at[u] \in {"loop", "ended"}
    BY <1>1, <1>2
  <2> QED
    BY <2>1 DEF IInv, LostInv
<1> QED
  BY <1>2, <1>4, <1>6, <1>9, <1>10, <1>11 DEF IInv

\* The sample of the call that returns is a new one.
LEMMA SampleIsNew ==
    ASSUME IInv, NEW t \in Threads, at[t] = "call"
    PROVE  /\ Sample(t) \in SampleRec /\ Sample(t).by = t /\ Sample(t).n \in 1..ops[t]
           /\ ~InKept(Sample(t), samples, all_samples, local)
<1>1. ops[t] \in 0..MaxOps /\ begun[t] \in BOOLEAN /\ MaxOps \in Nat
  BY LoadTestAssumption DEF IInv, ThreadInv
<1>2. Sample(t) \in SampleRec /\ Sample(t).by = t /\ Sample(t).n = ops[t]
  BY <1>1 DEF Sample, SampleRec
<1>3. ~InKept(Sample(t), samples, all_samples, local)
  BY <1>1, <1>2 DEF IInv, NumberInv
<1>4. ops[t] >= 1
  BY <1>1 DEF IInv, ThreadInv
<1> QED
  BY <1>1, <1>2, <1>3, <1>4

\* Where the sample goes: nowhere while recording is off, else to the worker's batch, with the
\* batch to the shared samples when it is full, or there directly from the merge thread.
LEMMA SampleGoes ==
    ASSUME IInv, NEW t \in Threads, CallReturns(t)
    PROVE  /\ local' \in [Workers -> SUBSET SampleRec] /\ samples' \subseteq SampleRec
           /\ \A w \in Workers : /\ IsFiniteSet(local'[w]) /\ Cardinality(local'[w]) < BatchSize
                                 /\ \A s \in local'[w] : s.by = w
                                 /\ w # t => local'[w] = local[w]
           /\ \A s : InKept(s, samples', all_samples, local')
                        <=> \/ InKept(s, samples, all_samples, local)
                            \/ recording /\ s = Sample(t)
           /\ samples' \cap all_samples = {}
           /\ \A w \in Workers : local'[w] \cap (samples' \cup all_samples) = {}
<1> DEFINE x == Sample(t)
<1>1. /\ x \in SampleRec /\ x.by = t /\ ~InKept(x, samples, all_samples, local)
  BY SampleIsNew DEF CallReturns
<1>2. /\ local \in [Workers -> SUBSET SampleRec] /\ samples \subseteq SampleRec
      /\ \A w \in Workers : /\ IsFiniteSet(local[w]) /\ Cardinality(local[w]) < BatchSize
                            /\ \A s \in local[w] : s.by = w
      /\ samples \cap all_samples = {}
      /\ \A w \in Workers : local[w] \cap (samples \cup all_samples) = {}
  BY DEF IInv, LocalInv, NumberInv, NoSampleTwice
<1>3. \/ UNCHANGED <<local, samples>> /\ ~recording
      \/ recording /\ t \in Workers /\ HandedOver(t, local[t] \cup {x})
      \/ recording /\ samples' = samples \cup {x} /\ UNCHANGED local /\ t \notin Workers
  BY DEF CallReturns
<1> HIDE DEF x
<1>4. CASE UNCHANGED <<local, samples>> /\ ~recording
  BY <1>2, <1>4
<1>5. CASE recording /\ samples' = samples \cup {x} /\ UNCHANGED local /\ t \notin Workers
  <2>1. \A s : InKept(s, samples', all_samples, local')
                  <=> InKept(s, samples, all_samples, local) \/ (recording /\ s = x)
    BY <1>5 DEF InKept
  <2>2. x \notin all_samples /\ \A w \in Workers : x \notin local[w]
    BY <1>1 DEF InKept
  <2> QED
    BY <1>1, <1>2, <1>5, <2>1, <2>2 DEF x
<1>6. CASE recording /\ t \in Workers /\ HandedOver(t, local[t] \cup {x})
  <2> DEFINE batch == local[t] \cup {x}
  <2>1. /\ IsFiniteSet(batch) /\ Cardinality(batch) \in Nat /\ batch \subseteq SampleRec
        /\ \A s \in batch : s.by = t
    BY <1>1, <1>2, <1>6, FS_AddElement, FS_CardinalityType
  <2>2. x \notin samples /\ x \notin all_samples /\ \A w \in Workers : x \notin local[w]
    BY <1>1 DEF InKept
  <2>3. CASE Cardinality(batch) >= BatchSize
    <3>1. samples' = samples \cup batch /\ local' = [local EXCEPT ![t] = {}]
      BY <1>6, <2>3 DEF HandedOver
    <3>2. local'[t] = {} /\ \A w \in Workers \ {t} : local'[w] = local[w]
      BY <1>2, <1>6, <3>1
    <3>3. local' \in [Workers -> SUBSET SampleRec] /\ samples' \subseteq SampleRec
      BY <1>2, <2>1, <3>1
    <3>4. IsFiniteSet({}) /\ Cardinality({}) < BatchSize
      BY FS_EmptySet, LoadTestAssumption
    <3>5. \A w \in Workers : /\ IsFiniteSet(local'[w]) /\ Cardinality(local'[w]) < BatchSize
                             /\ \A s \in local'[w] : s.by = w
                             /\ w # t => local'[w] = local[w]
      BY <1>2, <3>2, <3>4
    <3>6. \A s : InKept(s, samples', all_samples, local')
                    <=> InKept(s, samples, all_samples, local) \/ (recording /\ s = x)
      BY <1>6, <3>1, <3>2 DEF InKept
    <3>7. samples' \cap all_samples = {}
      BY <1>2, <1>6, <2>2, <3>1
    <3>8. \A w \in Workers : local'[w] \cap (samples' \cup all_samples) = {}
      BY <1>2, <2>1, <3>1, <3>2
    <3> QED
      BY <3>3, <3>5, <3>6, <3>7, <3>8 DEF x
  <2>4. CASE ~(Cardinality(batch) >= BatchSize)
    <3>1. samples' = samples /\ local' = [local EXCEPT ![t] = batch]
      BY <1>6, <2>4 DEF HandedOver
    <3>2. local'[t] = batch /\ \A w \in Workers \ {t} : local'[w] = local[w]
      BY <1>2, <1>6, <3>1
    <3>3. local' \in [Workers -> SUBSET SampleRec] /\ samples' \subseteq SampleRec
      BY <1>2, <2>1, <3>1
    <3>4. Cardinality(batch) < BatchSize
      BY <2>1, <2>4, LoadTestAssumption
    <3> HIDE DEF batch
    <3>5. \A w \in Workers : /\ IsFiniteSet(local'[w]) /\ Cardinality(local'[w]) < BatchSize
                             /\ \A s \in local'[w] : s.by = w
                             /\ w # t => local'[w] = local[w]
      BY <1>2, <2>1, <3>2, <3>4
    <3>6. \A s : InKept(s, samples', all_samples, local')
                    <=> InKept(s, samples, all_samples, local) \/ (recording /\ s = x)
      BY <1>6, <3>1, <3>2 DEF InKept, batch
    <3>7. \A w \in Workers : local'[w] \cap (samples' \cup all_samples) = {}
      BY <1>2, <2>2, <3>1, <3>2 DEF batch
    <3> QED
      BY <1>2, <3>1, <3>3, <3>5, <3>6, <3>7 DEF x
  <2> QED
    BY <2>3, <2>4
<1> QED
  BY <1>3, <1>4, <1>5, <1>6

\* A call that began with recording on leaves its sample on its way.
LEMMA CallReturnsOK ==
    ASSUME IInv, NEW t \in Threads, CallReturns(t)
    PROVE  IInv'
<1>1. /\ at[t] = "call" /\ at' = [at EXCEPT ![t] = "loop"]
      /\ due' = (IF t = Merger THEN now + MergeEvery ELSE due)
      /\ UNCHANGED <<now, mainVars, ops, begun, refs>>
  BY DEF CallReturns
<1>2. /\ RefsInv' /\ EndInv'
      /\ MainInv' /\ now' \in 0..TotalRun /\ wake' \in 0..TotalRun + 1
      /\ at' \in [Threads -> {"loop", "call", "ended", "panicked"}]
      /\ at'[t] = "loop" /\ \A u \in Threads \ {t} : at'[u] = at[u]
  BY <1>1, ThreadMoves
<1>3. UNCHANGED <<now, ops, begun, all_samples, recording, doubled>>
  BY <1>1 DEF mainVars
<1>4. ClockInv'
  <2>1. due' \in Nat
    BY <1>1, LoadTestAssumption DEF IInv, ClockInv, TotalRun
  <2> QED
    BY <1>2, <2>1 DEF ClockInv
<1>5. ThreadInv'
  BY <1>2, <1>3 DEF ThreadInv, IInv
<1>6. /\ local' \in [Workers -> SUBSET SampleRec] /\ samples' \subseteq SampleRec
      /\ \A w \in Workers : /\ IsFiniteSet(local'[w]) /\ Cardinality(local'[w]) < BatchSize
                            /\ \A s \in local'[w] : s.by = w
                            /\ w # t => local'[w] = local[w]
      /\ \A s : InKept(s, samples', all_samples, local')
                   <=> \/ InKept(s, samples, all_samples, local)
                       \/ recording /\ s = Sample(t)
      /\ samples' \cap all_samples = {}
      /\ \A w \in Workers : local'[w] \cap (samples' \cup all_samples) = {}
  BY SampleGoes
<1>7. LocalInv'
  BY <1>2, <1>6 DEF IInv, LocalInv, Threads
<1>8. NumberInv'
  <2> SUFFICES ASSUME NEW s \in SampleRec, InKept(s, samples', all_samples, local')
               PROVE  /\ s.n \in 1..ops[s.by]
                      /\ at'[s.by] = "call" => s.n < ops[s.by]
    BY <1>3, <1>6 DEF IInv, NumberInv
  <2>1. CASE InKept(s, samples, all_samples, local)
    <3>1. s.n \in 1..ops[s.by] /\ (at[s.by] = "call" => s.n < ops[s.by]) /\ s.by \in Threads
      BY <2>1 DEF IInv, NumberInv, SampleRec
    <3> QED
      BY <1>2, <3>1
  <2>2. CASE s = Sample(t)
    BY <1>1, <1>2, <2>2, SampleIsNew
  <2> QED
    BY <1>6, <2>1, <2>2
<1>9. NoSampleTwice'
  BY <1>3, <1>6 DEF IInv, NoSampleTwice
<1>10. LostInv'
  <2> SUFFICES ASSUME NEW u \in Threads, begun[u], at'[u] \in {"loop", "ended"}
               PROVE  InKept(Sample(u), samples', all_samples, local')
    BY <1>3 DEF LostInv, Sample
  <2>1. CASE u = t
    BY <1>6, <2>1 DEF IInv, ThreadInv
  <2>2. CASE u # t
    <3>1. InKept(Sample(u), samples, all_samples, local)
      BY <1>2, <2>2 DEF IInv, LostInv
    <3> QED
      BY <1>6, <3>1
  <2> QED
    BY <2>1, <2>2
<1> QED
  BY <1>2, <1>4, <1>5, <1>7, <1>8, <1>9, <1>10 DEF IInv

-----------------------------------------------------------------------------
(* The theorems about the load generator.                                    *)

\* Every step keeps the invariant.
LEMMA NextOK == IInv /\ [Next]_vars => IInv'
<1> SUFFICES ASSUME IInv, [Next]_vars PROVE IInv'
  OBVIOUS
<1>1. CASE Tick \/ Loop \/ Announce
  BY <1>1, LoopStepOK
<1>2. CASE Drain \/ LastDrain
  BY <1>2, DrainedOK
<1>3. CASE Join
  BY <1>3, JoinOK
<1>4. CASE CloseStore
  BY <1>4, CloseStoreOK
<1>5. ASSUME NEW t \in Threads, ThreadStep(t) PROVE IInv'
  <2>1. CASE BeginCall(t)
    BY <2>1, BeginCallOK
  <2>2. CASE CallReturns(t)
    BY <2>2, CallReturnsOK
  <2>3. CASE CallPanics(t)
    BY <2>3, CallPanicsOK
  <2>4. CASE Ends(t)
    BY <2>4, EndsOK
  <2> QED
    BY <1>5, <2>1, <2>2, <2>3, <2>4 DEF ThreadStep
<1>6. CASE UNCHANGED vars
  <2>1. UNCHANGED <<at, ops, begun, due, local, samples, all_samples, doubled, refs, closed,
                    now, main, wake, announced, recording, stop>>
    BY <1>6 DEF vars
  <2>2. ClockInv' /\ MainInv' /\ ThreadInv'
    BY <2>1 DEF IInv, ClockInv, MainInv, ThreadInv
  <2>3. LocalInv' /\ NumberInv' /\ NoSampleTwice' /\ LostInv'
    BY <2>1 DEF IInv, LocalInv, NumberInv, NoSampleTwice, LostInv, Sample, InKept
  <2>4. RefsInv' /\ EndInv'
    BY <2>1 DEF IInv, RefsInv, EndInv, Finished
  <2> QED
    BY <2>2, <2>3, <2>4 DEF IInv
<1> QED
  BY <1>1, <1>2, <1>3, <1>4, <1>5, <1>6 DEF Next, MainStep

\* In every reachable state a sample is where its thread left it (loadtest.rs: the workers'
\* batches, the shared samples, the total), and no thread outlives the main one's join.
THEOREM Inductive == Spec => []IInv
<1>1. Init => IInv
  BY InitOK
<1>2. IInv /\ [Next]_vars => IInv'
  BY NextOK
<1> QED
  BY <1>1, <1>2, PTL DEF Spec

\* The summary counts every recorded sample exactly once, for any number of workers and any
\* batch size: samples are neither lost nor made up between a call and the summary.
THEOREM SamplesCountedOnce == Spec => []SamplesAddUp
<1>1. IInv => SamplesAddUp
  BY IInvImplies
<1> QED
  BY <1>1, Inductive, PTL

\* The main thread sums up after every other thread has ended, and it holds the last
\* reference to the store when it closes it, whichever calls of the store fail; if it does
\* not come so far, a thread panicked, and the store is left open.
THEOREM LastHolderCloses == Spec => []EndsInOrder
<1>1. IInv => EndsInOrder
  BY IInvImplies
<1> QED
  BY <1>1, Inductive, PTL

-----------------------------------------------------------------------------
(* The todo tracker: its inductive invariant.                                *)

Title   == UNION {[1..n -> Chars] : n \in 0..MaxLen}
Record  == [title : Title, done : BOOLEAN]
TodoIds == {id \in Nat : id < MaxId}
Todo    == [id : TodoIds, title : Title, done : BOOLEAN]

\* A store of todos, with no id past the bound.
StoreOK(s) == DOMAIN s \subseteq TodoIds /\ s \in [DOMAIN s -> Record]

\* The variables have their types, and no id is past the bound.
VarsOK ==
    /\ StoreOK(store) /\ todos \in Seq(Todo)
    /\ selected \in Nat /\ next_id \in 0..MaxId
    /\ mode \in {"normal", "adding"} /\ buf \in Title
    /\ running \in BOOLEAN /\ failed \in BOOLEAN

\* List L, in the order of its ids, holds what store s holds.
Mirrors(L, s) ==
    /\ Sorted(L)
    /\ \A i \in DOMAIN L : L[i].id \in DOMAIN s /\ s[L[i].id] = Content(L[i])
    /\ \A id \in DOMAIN s : \E i \in DOMAIN L : L[i].id = id

\* While the app runs it has what the store has, the selection is one of the list, and no id
\* in the store is to be given out again.
RunInv ==
    running => /\ Mirrors(todos, store)
               /\ selected < Len(todos) \/ selected = 0
               /\ \A id \in DOMAIN store : id < next_id

TodoInv == VarsOK /\ RunInv

-----------------------------------------------------------------------------
(* Titles and lists of todos.                                                *)

\* A title is a sequence of at most MaxLen characters.
LEMMA TitleIsSeq == Title = {s \in Seq(Chars) : Len(s) <= MaxLen}
<1>1. MaxLen \in Nat
  BY TodoAssumption
<1>2. ASSUME NEW s \in Title PROVE s \in Seq(Chars) /\ Len(s) <= MaxLen
  <2>1. PICK n \in 0..MaxLen : s \in [1..n -> Chars]
    BY DEF Title
  <2> QED
    BY <1>1, <2>1
<1>3. ASSUME NEW s \in Seq(Chars), Len(s) <= MaxLen PROVE s \in Title
  <2>1. Len(s) \in 0..MaxLen /\ s \in [1..Len(s) -> Chars]
    BY <1>1, <1>3
  <2> QED
    BY <2>1 DEF Title
<1> QED
  BY <1>2, <1>3

\* A list with one entry removed: those before it stay, those after it move up.
LEMMA RemoveAtIs ==
    ASSUME NEW S, NEW s \in Seq(S), NEW i \in 1..Len(s)
    PROVE  /\ RemoveAt(s, i) \in Seq(S)
           /\ Len(RemoveAt(s, i)) = Len(s) - 1
           /\ \A j \in 1..(Len(s) - 1) : RemoveAt(s, i)[j] = IF j < i THEN s[j] ELSE s[j + 1]
<1> DEFINE a == SubSeq(s, 1, i - 1)
           b == SubSeq(s, i + 1, Len(s))
<1>1. /\ a \in Seq(S) /\ Len(a) = i - 1
      /\ \A j \in 1..(i - 1) : a[j] = s[j]
  <2>1. \A j \in 1..(i - 1) : j \in 1..Len(s)
    OBVIOUS
  <2> QED
    BY <2>1
<1>2. /\ b \in Seq(S) /\ Len(b) = Len(s) - i
      /\ \A j \in 1..(Len(s) - i) : b[j] = s[i + j]
  OBVIOUS
<1>3. RemoveAt(s, i) = a \o b
  BY DEF RemoveAt
<1> HIDE DEF a, b
<1>4. /\ a \o b \in Seq(S) /\ Len(a \o b) = Len(s) - 1
      /\ \A j \in 1..(Len(s) - 1) : (a \o b)[j] = IF j <= i - 1 THEN a[j] ELSE b[j - (i - 1)]
  <2>1. /\ a \o b \in Seq(S) /\ Len(a \o b) = Len(a) + Len(b)
        /\ \A j \in 1..(Len(a) + Len(b)) :
              (a \o b)[j] = IF j <= Len(a) THEN a[j] ELSE b[j - Len(a)]
    BY <1>1, <1>2, ConcatProperties
  <2>2. Len(a) + Len(b) = Len(s) - 1
    BY <1>1, <1>2
  <2> QED
    BY <1>1, <2>1, <2>2
<1>5. ASSUME NEW j \in 1..(Len(s) - 1)
      PROVE  (a \o b)[j] = IF j < i THEN s[j] ELSE s[j + 1]
  <2>1. CASE j < i
    BY <1>1, <1>4, <2>1
  <2>2. CASE ~(j < i)
    <3>1. j - (i - 1) \in 1..(Len(s) - i) /\ i + (j - (i - 1)) = j + 1
      BY <2>2
    <3> QED
      BY <1>2, <1>4, <2>2, <3>1
  <2> QED
    BY <2>1, <2>2
<1> QED
  BY <1>3, <1>4, <1>5

\* Of a sorted list no two entries have one id.
LEMMA SortedIds ==
    ASSUME NEW L \in Seq(Todo), Sorted(L), NEW i \in DOMAIN L, NEW j \in DOMAIN L, L[i].id = L[j].id
    PROVE  i = j
<1>1. L[i].id \in Nat /\ L[j].id \in Nat /\ i \in Nat /\ j \in Nat
  <2>1. L[i] \in Todo /\ L[j] \in Todo /\ i \in Nat /\ j \in Nat
    OBVIOUS
  <2> QED
    BY <2>1 DEF Todo, TodoIds
<1>2. ~(i < j) /\ ~(j < i)
  BY <1>1 DEF Sorted
<1> QED
  BY <1>1, <1>2

\* A list that holds what the store holds is the store, as the property reads it.
LEMMA MirrorIsStore ==
    ASSUME NEW L \in Seq(Todo), NEW s, StoreOK(s), Mirrors(L, s)
    PROVE  AsStore(L) = s
<1>1. Ids(L) = DOMAIN s
  BY DEF Ids, Mirrors
<1>2. ASSUME NEW id \in DOMAIN s
      PROVE  Content(CHOOSE t \in ToSet(L) : t.id = id) = s[id]
  <2>1. PICK i \in DOMAIN L : L[i].id = id
    BY DEF Mirrors
  <2>2. L[i] \in ToSet(L)
    BY DEF ToSet
  <2> DEFINE t == CHOOSE x \in ToSet(L) : x.id = id
  <2>3. t \in ToSet(L) /\ t.id = id
    BY <2>1, <2>2
  <2> HIDE DEF t
  <2>4. PICK j \in DOMAIN L : L[j] = t
    BY <2>3 DEF ToSet
  <2>5. Content(L[j]) = s[L[j].id]
    BY DEF Mirrors
  <2> QED
    BY <2>3, <2>4, <2>5 DEF t
<1>3. AsStore(L) = [id \in DOMAIN s |-> s[id]]
  BY <1>1, <1>2 DEF AsStore
<1> QED
  BY <1>3 DEF StoreOK

-----------------------------------------------------------------------------
(* App::open.                                                                *)

NatLess == {ss \in Nat \X Nat : ss[1] < ss[2]}

\* A set of ids has a greatest, which is what Max returns.
LEMMA MaxIsGreatest ==
    ASSUME NEW S, S \subseteq TodoIds, S # {}
    PROVE  Max(S) \in S /\ \A x \in S : x <= Max(S)
<1> DEFINE T == {MaxId - x : x \in S}
<1>1. MaxId \in Nat /\ \A x \in S : x \in Nat /\ x < MaxId
  BY TodoAssumption DEF TodoIds
<1>2. T \subseteq Nat /\ T # {}
  BY <1>1
<1>3. IsWellFoundedOn(NatLess, Nat)
  BY NatLessThanWellFounded DEF OpToRel, NatLess
<1>4. PICK m \in T : \A y \in T : <<y, m>> \notin NatLess
  <2> HIDE DEF T
  <2> QED
    BY <1>2, <1>3, WFMin
<1>5. PICK x \in S : m = MaxId - x
  OBVIOUS
<1>6. ASSUME NEW y \in S PROVE x >= y
  <2>1. MaxId - y \in T /\ MaxId - y \in Nat /\ m \in Nat
    BY <1>2
  <2>2. ~(MaxId - y < m)
    BY <1>4, <2>1 DEF NatLess
  <2> QED
    BY <1>1, <1>5, <2>2
<1>7. \E z \in S : \A y \in S : z >= y
  BY <1>6
<1>8. Max(S) \in S /\ \A y \in S : Max(S) >= y
  BY <1>7 DEF Max
<1> QED
  BY <1>1, <1>8

\* The next id is past all those in the store, and within the bound.
LEMMA NextIdIsFresh ==
    ASSUME NEW s, DOMAIN s \subseteq TodoIds
    PROVE  NextId(s) \in 0..MaxId /\ \A id \in DOMAIN s : id < NextId(s)
<1>1. MaxId \in Nat /\ \A id \in DOMAIN s : id \in Nat /\ id < MaxId
  BY TodoAssumption DEF TodoIds
<1>2. CASE DOMAIN s = {}
  BY <1>1, <1>2 DEF NextId
<1>3. CASE DOMAIN s # {}
  <2>1. Max(DOMAIN s) \in DOMAIN s /\ \A id \in DOMAIN s : id <= Max(DOMAIN s)
    BY <1>3, MaxIsGreatest
  <2>2. NextId(s) = Max(DOMAIN s) + 1
    BY <1>3 DEF NextId
  <2> QED
    BY <1>1, <2>1, <2>2
<1> QED
  BY <1>2, <1>3

\* What fold gives are todos, finitely many.
LEMMA ListedIs ==
    ASSUME NEW s, StoreOK(s)
    PROVE  Listed(s) \subseteq Todo /\ IsFiniteSet(Listed(s))
<1> USE DEF StoreOK
<1>1. \A j \in DOMAIN s : s[j].title \in Title /\ s[j].done \in BOOLEAN
  <2>1. \A j \in DOMAIN s : s[j] \in Record
    OBVIOUS
  <2> QED
    BY <2>1 DEF Record
<1>2. Listed(s) \subseteq Todo
  BY <1>1 DEF Listed, Todo
<1> DEFINE f == [t \in Listed(s) |-> t.id]
<1>3. f \in Injection(Listed(s), 0..MaxId)
  <2>1. MaxId \in Nat
    BY TodoAssumption
  <2>2. \A t \in Listed(s) : t.id \in 0..MaxId
    BY <1>2, <2>1 DEF Todo, TodoIds
  <2>3. \A t, u \in Listed(s) : t.id = u.id => t = u
    BY DEF Listed
  <2> QED
    BY <2>2, <2>3 DEF Injection, IsInjective
<1>4. IsFiniteSet(0..MaxId)
  <2>1. 0 \in Int /\ MaxId \in Int
    BY TodoAssumption
  <2> QED
    BY <2>1, FS_Interval
<1>5. IsFiniteSet(Listed(s))
  BY <1>3, <1>4, FS_Injection
<1> QED
  BY <1>2, <1>5

\* What App::open shows is the store, in the order of the ids.
LEMMA LoadedMirrors ==
    ASSUME NEW s, StoreOK(s), NEW L \in Loaded(s)
    PROVE  L \in Seq(Todo) /\ Mirrors(L, s)
<1> DEFINE n == Cardinality(Listed(s))
<1>1. Listed(s) \subseteq Todo /\ IsFiniteSet(Listed(s)) /\ n \in Nat
  BY ListedIs, FS_CardinalityType
<1>2. /\ Sorted(L) /\ L \in [1..n -> Listed(s)]
      /\ \A i, j \in 1..n : i # j => L[i] # L[j]
  BY DEF Loaded, SetToSeqs
<1>3. L \in Seq(Todo)
  BY <1>1, <1>2
<1>4. L \in Surjection(1..n, Listed(s))
  <2>1. L \in Injection(1..n, Listed(s))
    BY <1>2 DEF Injection, IsInjective
  <2>2. Cardinality(1..n) = n
    BY <1>1, FS_Interval
  <2> QED
    BY <1>1, <2>1, <2>2, FS_Injection
<1>5. DOMAIN L = 1..n
  BY <1>2
<1>6. ASSUME NEW i \in DOMAIN L
      PROVE  L[i].id \in DOMAIN s /\ s[L[i].id] = Content(L[i])
  <2>1. PICK j \in DOMAIN s : L[i] = [id |-> j, title |-> s[j].title, done |-> s[j].done]
    BY <1>2 DEF Listed
  <2>2. s[j] = [title |-> s[j].title, done |-> s[j].done]
    <3>1. s[j] \in Record
      BY DEF StoreOK
    <3> QED
      BY <3>1 DEF Record
  <2> QED
    BY <2>1, <2>2 DEF Content
<1>7. ASSUME NEW id \in DOMAIN s PROVE \E i \in DOMAIN L : L[i].id = id
  <2> DEFINE t == [id |-> id, title |-> s[id].title, done |-> s[id].done]
  <2>1. t \in Listed(s)
    BY DEF Listed
  <2>2. PICK i \in 1..n : L[i] = t
    BY <1>4, <2>1 DEF Surjection
  <2> QED
    BY <1>5, <2>2
<1> QED
  BY <1>2, <1>3, <1>6, <1>7 DEF Mirrors

-----------------------------------------------------------------------------
(* What a key does to a list and to the store under it.                      *)

\* A put of a todo leaves a store.
LEMMA WithOK ==
    ASSUME NEW s, StoreOK(s), NEW x \in Todo
    PROVE  StoreOK(With(s, x.id, Content(x)))
<1>1. x.id \in TodoIds /\ Content(x) \in Record
  BY DEF Todo, Record, Content
<1> QED
  BY <1>1 DEF StoreOK, With

\* So does a delete.
LEMMA WithoutOK ==
    ASSUME NEW s, StoreOK(s), NEW id
    PROVE  StoreOK(Without(s, id))
BY DEF StoreOK, Without

\* A todo changed in both (toggle_selected).
LEMMA ChangeMirrors ==
    ASSUME NEW L \in Seq(Todo), NEW s, StoreOK(s), Mirrors(L, s),
           NEW i \in DOMAIN L, NEW x \in Todo, x.id = L[i].id
    PROVE  /\ [L EXCEPT ![i] = x] \in Seq(Todo)
           /\ Mirrors([L EXCEPT ![i] = x], With(s, x.id, Content(x)))
<1> DEFINE M == [L EXCEPT ![i] = x]
           t == With(s, x.id, Content(x))
<1>1. /\ M \in Seq(Todo) /\ DOMAIN M = DOMAIN L /\ M[i] = x
      /\ \A j \in DOMAIN L : j # i => M[j] = L[j]
  OBVIOUS
<1>2. x.id \in DOMAIN s
  BY DEF Mirrors
<1>3. /\ DOMAIN t = DOMAIN s /\ t[x.id] = Content(x)
      /\ \A id \in DOMAIN s : id # x.id => t[id] = s[id]
  BY <1>2 DEF With
<1>4. \A j \in DOMAIN L : M[j].id = L[j].id
  BY <1>1
<1> HIDE DEF M, t
<1>5. Sorted(M)
  BY <1>1, <1>4 DEF Mirrors, Sorted
<1>6. ASSUME NEW j \in DOMAIN M PROVE M[j].id \in DOMAIN t /\ t[M[j].id] = Content(M[j])
  <2>1. CASE j = i
    BY <1>1, <1>2, <1>3, <2>1
  <2>2. CASE j # i
    <3>1. M[j] = L[j] /\ L[j].id # x.id
      BY <1>1, <2>2, SortedIds DEF Mirrors
    <3> QED
      BY <1>1, <1>3, <3>1 DEF Mirrors
  <2> QED
    BY <2>1, <2>2
<1>7. \A id \in DOMAIN t : \E j \in DOMAIN M : M[j].id = id
  BY <1>1, <1>3, <1>4 DEF Mirrors
<1>8. M \in Seq(Todo) /\ Mirrors(M, t)
  BY <1>1, <1>5, <1>6, <1>7 DEF Mirrors
<1> QED
  BY <1>8 DEF M, t

\* A todo removed from both (delete_selected).
LEMMA RemoveMirrors ==
    ASSUME NEW L \in Seq(Todo), NEW s, Mirrors(L, s), NEW i \in 1..Len(L)
    PROVE  /\ RemoveAt(L, i) \in Seq(Todo) /\ Len(RemoveAt(L, i)) = Len(L) - 1
           /\ Mirrors(RemoveAt(L, i), Without(s, L[i].id))
<1> DEFINE M == RemoveAt(L, i)
           t == Without(s, L[i].id)
           from(j) == IF j < i THEN j ELSE j + 1
<1>1. /\ M \in Seq(Todo) /\ Len(M) = Len(L) - 1
      /\ \A j \in 1..(Len(L) - 1) : M[j] = IF j < i THEN L[j] ELSE L[j + 1]
  BY RemoveAtIs
<1>2. DOMAIN M = 1..(Len(L) - 1) /\ DOMAIN L = 1..Len(L)
  BY <1>1
<1>3. \A j \in DOMAIN M : from(j) \in DOMAIN L /\ from(j) # i /\ M[j] = L[from(j)]
  BY <1>1, <1>2
<1>4. \A j, k \in DOMAIN M : j < k => from(j) < from(k)
  BY <1>2
<1>5. DOMAIN t = DOMAIN s \ {L[i].id} /\ \A id \in DOMAIN t : t[id] = s[id]
  BY DEF Without
<1>6. ASSUME NEW j \in DOMAIN L, j # i PROVE \E k \in DOMAIN M : M[k] = L[j]
  <2>1. CASE j < i
    BY <1>1, <1>2, <2>1
  <2>2. CASE ~(j < i)
    <3>1. j - 1 \in DOMAIN M /\ ~(j - 1 < i) /\ (j - 1) + 1 = j
      BY <1>2, <1>6, <2>2
    <3> QED
      BY <1>1, <1>2, <3>1
  <2> QED
    BY <2>1, <2>2
<1> HIDE DEF M, t, from
<1>7. Sorted(M)
  BY <1>3, <1>4 DEF Mirrors, Sorted
<1>8. ASSUME NEW j \in DOMAIN M PROVE M[j].id \in DOMAIN t /\ t[M[j].id] = Content(M[j])
  <2>1. L[from(j)].id # L[i].id
    BY <1>2, <1>3, SortedIds DEF Mirrors
  <2> QED
    BY <1>3, <1>5, <2>1 DEF Mirrors
<1>9. \A id \in DOMAIN t : \E j \in DOMAIN M : M[j].id = id
  <2> SUFFICES ASSUME NEW id \in DOMAIN t PROVE \E j \in DOMAIN M : M[j].id = id
    OBVIOUS
  <2>1. PICK j \in DOMAIN L : L[j].id = id
    BY <1>5 DEF Mirrors
  <2>2. j # i
    BY <1>5, <2>1
  <2> QED
    BY <1>6, <2>1, <2>2
<1>10. M \in Seq(Todo) /\ Len(M) = Len(L) - 1 /\ Mirrors(M, t)
  BY <1>1, <1>7, <1>8, <1>9 DEF Mirrors
<1> QED
  BY <1>10 DEF M, t

\* A todo with an id past all others added to both (add_todo).
LEMMA AddMirrors ==
    ASSUME NEW L \in Seq(Todo), NEW s, Mirrors(L, s), NEW x \in Todo,
           \A id \in DOMAIN s : id < x.id
    PROVE  Mirrors(Append(L, x), With(s, x.id, Content(x)))
<1> DEFINE M == Append(L, x)
           t == With(s, x.id, Content(x))
           n == Len(L) + 1
<1>1. /\ DOMAIN M = 1..n /\ M[n] = x /\ DOMAIN L = 1..Len(L) /\ Len(L) \in Nat
      /\ \A j \in DOMAIN L : M[j] = L[j]
  OBVIOUS
<1>2. x.id \in Nat
  BY DEF Todo, TodoIds
<1>3. x.id \notin DOMAIN s
  BY <1>2
<1>4. /\ DOMAIN t = DOMAIN s \cup {x.id} /\ t[x.id] = Content(x)
      /\ \A id \in DOMAIN s : t[id] = s[id]
  BY <1>3 DEF With
<1> HIDE DEF M, t
<1>5. \A j \in DOMAIN M : j \in DOMAIN L \/ j = n
  BY <1>1
<1>6. Sorted(M)
  <2> SUFFICES ASSUME NEW i \in DOMAIN M, NEW j \in DOMAIN M, i < j PROVE M[i].id < M[j].id
    BY DEF Sorted
  <2>1. i \in DOMAIN L
    BY <1>1
  <2>2. CASE j = n
    BY <1>1, <2>1, <2>2 DEF Mirrors
  <2>3. CASE j \in DOMAIN L
    BY <1>1, <2>1, <2>3 DEF Mirrors, Sorted
  <2> QED
    BY <1>5, <2>2, <2>3
<1>7. \A j \in DOMAIN M : M[j].id \in DOMAIN t /\ t[M[j].id] = Content(M[j])
  BY <1>1, <1>4, <1>5 DEF Mirrors
<1>8. \A id \in DOMAIN t : \E j \in DOMAIN M : M[j].id = id
  <2>1. \A id \in DOMAIN s : \E j \in DOMAIN L : M[j].id = id
    BY <1>1 DEF Mirrors
  <2>2. n \in DOMAIN M /\ \A j \in DOMAIN L : j \in DOMAIN M
    BY <1>1
  <2> QED
    BY <1>1, <1>4, <2>1, <2>2
<1>9. Mirrors(M, t)
  BY <1>6, <1>7, <1>8 DEF Mirrors
<1> QED
  BY <1>9 DEF M, t

-----------------------------------------------------------------------------
(* The steps of the todo tracker.                                            *)

\* The program starts with an empty store and does not run.
LEMMA TodoInitOK == TodoInit => TodoInv
<1> SUFFICES ASSUME TodoInit PROVE TodoInv
  OBVIOUS
<1>1. store = <<>> /\ todos = <<>> /\ buf = <<>> /\ DOMAIN store = {}
  BY DEF TodoInit
<1>2. StoreOK(store) /\ todos \in Seq(Todo)
  BY <1>1 DEF StoreOK
<1>3. buf \in Title
  BY <1>1, TitleIsSeq, TodoAssumption
<1>4. 0 \in 0..MaxId
  BY TodoAssumption
<1> QED
  BY <1>2, <1>3, <1>4 DEF TodoInit, TodoInv, VarsOK, RunInv

\* App::open shows what is there, and gives out no id twice.
LEMMA OpenStep == TodoInv /\ Open => TodoInv'
<1> SUFFICES ASSUME TodoInv, Open PROVE TodoInv'
  OBVIOUS
<1>1. StoreOK(store) /\ todos' \in Loaded(store) /\ store' = store
  BY DEF TodoInv, VarsOK, Open
<1>2. todos' \in Seq(Todo) /\ Mirrors(todos', store)
  BY <1>1, LoadedMirrors
<1>3. next_id' \in 0..MaxId /\ \A id \in DOMAIN store : id < next_id'
  BY <1>1, NextIdIsFresh DEF Open, StoreOK
<1>4. buf' \in Title
  BY TitleIsSeq, TodoAssumption DEF Open
<1>5. VarsOK'
  BY <1>1, <1>2, <1>3, <1>4 DEF Open, VarsOK
<1>6. RunInv'
  BY <1>1, <1>2, <1>3 DEF Open, RunInv
<1> QED
  BY <1>5, <1>6 DEF TodoInv

\* The selection wraps around and stays in the list.
LEMMA MoveStep == ASSUME NEW delta \in {1, -1} PROVE TodoInv /\ Move(delta) => TodoInv'
<1> SUFFICES ASSUME TodoInv, Move(delta) PROVE TodoInv'
  OBVIOUS
<1>1. Len(todos) \in Nat /\ Len(todos) > 0 /\ selected + delta \in Int
  BY DEF TodoInv, VarsOK, Move
<1>2. selected' \in Nat /\ selected' < Len(todos)
  BY <1>1 DEF Move
<1> QED
  BY <1>2 DEF TodoInv, VarsOK, RunInv, Move

\* What a write leaves in the store: the new state or, if it failed, perhaps the old one, with
\* the app ended.
LEMMA WroteOK ==
    ASSUME NEW s, StoreOK(s), StoreOK(store), running, WriteThrough(s)
    PROVE  /\ StoreOK(store') /\ running' \in BOOLEAN
           /\ running' => store' = s
           /\ failed \in BOOLEAN => failed' \in BOOLEAN
BY DEF WriteThrough, GoesOn, Fails

\* toggle_selected changes the selected todo in the list and in the store.
LEMMA ToggleStep == TodoInv /\ Toggle => TodoInv'
<1> SUFFICES ASSUME TodoInv, Toggle PROVE TodoInv'
  OBVIOUS
<1> DEFINE i == selected + 1
           todo == [todos[i] EXCEPT !.done = ~@]
           s == With(store, todo.id, Content(todo))
<1>1. StoreOK(store) /\ todos \in Seq(Todo) /\ running /\ Mirrors(todos, store)
  BY DEF TodoInv, VarsOK, RunInv, Toggle, InMode
<1>2. i \in DOMAIN todos
  BY DEF TodoInv, VarsOK, Toggle
<1>3. todo \in Todo /\ todo.id = todos[i].id
  <2>1. todos[i] \in Todo
    BY <1>1, <1>2
  <2> QED
    BY <2>1 DEF Todo
<1>4. todos' = [todos EXCEPT ![i] = todo] /\ WriteThrough(s)
  BY DEF Toggle
<1> HIDE DEF todo
<1>5. StoreOK(s) /\ todos' \in Seq(Todo) /\ Mirrors(todos', s)
  BY <1>1, <1>2, <1>3, <1>4, WithOK, ChangeMirrors
<1>6. DOMAIN s = DOMAIN store /\ Len(todos') = Len(todos)
  <2>1. todo.id \in DOMAIN store
    BY <1>1, <1>2, <1>3 DEF Mirrors
  <2>2. DOMAIN s = DOMAIN store
    BY <2>1 DEF With
  <2>3. Len(todos') = Len(todos)
    <3> HIDE DEF s, i
    <3> QED
      BY <1>1, <1>4
  <2> QED
    BY <2>2, <2>3
<1> HIDE DEF s
<1>7. StoreOK(store') /\ running' \in BOOLEAN /\ failed' \in BOOLEAN /\ (running' => store' = s)
  BY <1>1, <1>4, <1>5, WroteOK DEF TodoInv, VarsOK
<1>8. VarsOK'
  BY <1>5, <1>7 DEF TodoInv, VarsOK, Toggle
<1>9. RunInv'
  BY <1>1, <1>5, <1>6, <1>7 DEF TodoInv, RunInv, Toggle
<1> QED
  BY <1>8, <1>9 DEF TodoInv

\* delete_selected removes the selected todo from both; the selection stays in the list.
LEMMA DeleteStep == TodoInv /\ Delete => TodoInv'
<1> SUFFICES ASSUME TodoInv, Delete PROVE TodoInv'
  OBVIOUS
<1> DEFINE i == selected + 1
           s == Without(store, todos[i].id)
<1>1. StoreOK(store) /\ todos \in Seq(Todo) /\ running /\ Mirrors(todos, store)
  BY DEF TodoInv, VarsOK, RunInv, Delete, InMode
<1>2. i \in 1..Len(todos) /\ selected \in Nat /\ Len(todos) \in Nat /\ selected < Len(todos)
  BY DEF TodoInv, VarsOK, Delete
<1>3. todos' = RemoveAt(todos, i) /\ WriteThrough(s)
  BY DEF Delete
<1>4. /\ StoreOK(s) /\ todos' \in Seq(Todo) /\ Mirrors(todos', s)
      /\ Len(todos') = Len(todos) - 1
  BY <1>1, <1>2, <1>3, WithoutOK, RemoveMirrors
<1>5. DOMAIN s \subseteq DOMAIN store
  BY DEF Without
<1> HIDE DEF s
<1>6. StoreOK(store') /\ running' \in BOOLEAN /\ failed' \in BOOLEAN /\ (running' => store' = s)
  BY <1>1, <1>3, <1>4, WroteOK DEF TodoInv, VarsOK
<1>7. /\ selected' \in Nat
      /\ running' => selected' < Len(todos') \/ selected' = 0
  <2>1. selected' = IF running' THEN SelectedAfterDelete(Len(todos) - 1) ELSE selected
    BY DEF Delete
  <2> QED
    BY <1>2, <1>4, <2>1 DEF SelectedAfterDelete
<1>8. VarsOK'
  BY <1>4, <1>6, <1>7 DEF TodoInv, VarsOK, Delete
<1>9. RunInv'
  BY <1>1, <1>4, <1>5, <1>6, <1>7 DEF TodoInv, RunInv, Delete
<1> QED
  BY <1>8, <1>9 DEF TodoInv

\* add_todo gives the title the next id, in the store first and then in the list.
LEMMA AddStep == TodoInv /\ AddTodo => TodoInv'
<1> SUFFICES ASSUME TodoInv, AddTodo PROVE TodoInv'
  OBVIOUS
<1> DEFINE todo == [id |-> next_id, title |-> buf, done |-> FALSE]
           s == With(store, next_id, Content(todo))
<1>1. StoreOK(store) /\ todos \in Seq(Todo) /\ running /\ Mirrors(todos, store)
  BY DEF TodoInv, VarsOK, RunInv, AddTodo, InMode
<1>2. mode' = "normal" /\ buf' \in Title
  BY TitleIsSeq, TodoAssumption DEF AddTodo
<1>3. CASE UNCHANGED <<store, todos, selected, next_id, running, failed>>
  <2>1. VarsOK'
    BY <1>2, <1>3 DEF TodoInv, VarsOK
  <2> QED
    BY <1>3, <2>1 DEF TodoInv, RunInv
<1>4. CASE ~UNCHANGED <<store, todos, selected, next_id, running, failed>>
  <2>1. /\ next_id < MaxId /\ WriteThrough(s)
        /\ IF running'
           THEN next_id' = next_id + 1 /\ todos' = Append(todos, todo) /\ selected' = Len(todos)
           ELSE UNCHANGED <<todos, selected, next_id>>
    <3>1. ~Blank(buf)
      BY <1>4 DEF AddTodo
    <3> QED
      BY <3>1 DEF AddTodo, IdAfterAdd
  <2>2. todo \in Todo /\ todo.id = next_id /\ MaxId \in Nat /\ next_id \in Nat
    BY <2>1, TodoAssumption DEF TodoInv, VarsOK, Todo, TodoIds
  <2>3. \A id \in DOMAIN store : id < next_id
    BY <1>1 DEF TodoInv, RunInv
  <2>4. StoreOK(s) /\ Mirrors(Append(todos, todo), s)
    <3> HIDE DEF todo
    <3> QED
      BY <1>1, <2>2, <2>3, WithOK, AddMirrors
  <2>5. \A id \in DOMAIN s : id < next_id + 1
    <3>1. \A id \in DOMAIN store : id \in Nat
      BY <1>1 DEF StoreOK, TodoIds
    <3>2. DOMAIN s = DOMAIN store \cup {next_id}
      BY DEF With
    <3> QED
      BY <2>2, <2>3, <3>1, <3>2
  <2> HIDE DEF s, todo
  <2>6. StoreOK(store') /\ running' \in BOOLEAN /\ failed' \in BOOLEAN /\ (running' => store' = s)
    BY <1>1, <2>1, <2>4, WroteOK DEF TodoInv, VarsOK
  <2>7. CASE running'
    <3>1. /\ todos' \in Seq(Todo) /\ Len(todos') = Len(todos) + 1 /\ Len(todos) \in Nat
          /\ next_id' \in 0..MaxId
      BY <1>1, <2>1, <2>2, <2>7
    <3>2. VarsOK'
      BY <1>2, <2>1, <2>6, <2>7, <3>1 DEF VarsOK
    <3>3. todos' = Append(todos, todo) /\ selected' = Len(todos) /\ next_id' = next_id + 1
      BY <2>1, <2>7
    <3>4. selected' < Len(todos')
      BY <3>1, <3>3
    <3>5. Mirrors(todos', store') /\ \A id \in DOMAIN store' : id < next_id'
      BY <2>4, <2>5, <2>6, <2>7, <3>3
    <3>6. RunInv'
      BY <3>4, <3>5 DEF RunInv
    <3> QED
      BY <3>2, <3>6 DEF TodoInv
  <2>8. CASE ~running'
    <3>1. VarsOK'
      BY <1>2, <2>1, <2>6, <2>8 DEF TodoInv, VarsOK
    <3> QED
      BY <2>8, <3>1 DEF TodoInv, RunInv
  <2> QED
    BY <2>7, <2>8
<1> QED
  BY <1>3, <1>4

\* The keys that touch neither the list nor the store.
LEMMA OtherSteps ==
    ASSUME TodoInv,
           \/ MergeOrSync \/ StartAdding \/ Quit \/ Backspace \/ Cancel
           \/ \E c \in Chars : Type(c)
    PROVE  TodoInv'
<1>1. buf \in Seq(Chars) /\ Len(buf) <= MaxLen /\ MaxLen \in Nat
  BY TitleIsSeq, TodoAssumption DEF TodoInv, VarsOK
<1>2. <<>> \in Title
  BY TitleIsSeq, TodoAssumption
<1>3. CASE MergeOrSync
  BY <1>3 DEF TodoInv, VarsOK, RunInv, MergeOrSync, Fails, appVars
<1>4. CASE StartAdding
  BY <1>2, <1>4 DEF TodoInv, VarsOK, RunInv, StartAdding
<1>5. CASE Quit
  BY <1>5 DEF TodoInv, VarsOK, RunInv, Quit, Fails, appVars
<1>6. CASE Cancel
  BY <1>2, <1>6 DEF TodoInv, VarsOK, RunInv, Cancel
<1>7. CASE Backspace
  <2>1. buf' = SubSeq(buf, 1, Len(buf) - 1) /\ Len(buf) \in Nat \ {0}
    BY <1>1, <1>7 DEF Backspace, Front
  <2>2. buf' \in Seq(Chars) /\ Len(buf') = Len(buf) - 1
    <3> DEFINE n == Len(buf) - 1
    <3>1. n \in Nat /\ n <= Len(buf)
      BY <1>1, <2>1
    <3>2. \A j \in 1..n : buf[j] \in Chars
      BY <1>1, <3>1
    <3>3. /\ SubSeq(buf, 1, n) \in Seq(Chars)
          /\ Len(SubSeq(buf, 1, n)) = IF 1 <= n THEN n - 1 + 1 ELSE 0
      <4> HIDE DEF n
      <4>1. 1 \in Int /\ n \in Int
        BY <3>1
      <4> QED
        BY <3>2, <4>1, SubSeqProperties
    <3>4. buf' = SubSeq(buf, 1, n)
      BY <2>1
    <3> HIDE DEF n
    <3>5. buf' \in Seq(Chars) /\ Len(buf') = n
      BY <3>1, <3>3, <3>4
    <3> QED
      BY <3>5 DEF n
  <2>3. buf' \in Title
    BY <1>1, <2>2, TitleIsSeq
  <2> QED
    BY <1>7, <2>3 DEF TodoInv, VarsOK, RunInv, Backspace
<1>8. CASE \E c \in Chars : Type(c)
  <2>1. PICK c \in Chars : Type(c)
    BY <1>8
  <2>2. buf' = Append(buf, c) /\ Len(buf) < MaxLen
    BY <2>1 DEF Type
  <2>3. buf' \in Seq(Chars) /\ Len(buf') <= MaxLen
    BY <1>1, <2>2
  <2>4. buf' \in Title
    BY <2>3, TitleIsSeq
  <2> QED
    BY <2>1, <2>4 DEF TodoInv, VarsOK, RunInv, Type
<1> QED
  BY <1>3, <1>4, <1>5, <1>6, <1>7, <1>8

\* Every key, and every start of the program, keeps the invariant.
LEMMA TodoInductive == TodoSpec => []TodoInv
<1>1. TodoInv /\ [TodoNext]_todoVars => TodoInv'
  <2> SUFFICES ASSUME TodoInv, [TodoNext]_todoVars PROVE TodoInv'
    OBVIOUS
  <2>1. CASE UNCHANGED todoVars
    BY <2>1 DEF TodoInv, VarsOK, RunInv, todoVars, appVars
  <2>2. CASE TodoNext
    BY <2>2, OpenStep, MoveStep, ToggleStep, DeleteStep, AddStep, OtherSteps DEF TodoNext
  <2> QED
    BY <2>1, <2>2
<1> QED
  BY <1>1, TodoInitOK, PTL DEF TodoSpec

-----------------------------------------------------------------------------
(* The properties of the todo tracker.                                       *)

\* While the program runs its list is the store's, in the order of the ids, and its selection
\* is in it, although toggle and delete change the list first and add the store, and although
\* a failed write may have been stored (todo_tui.rs, run and App).
THEOREM ListIsAlwaysRight == TodoSpec => []ListIsRight
<1>1. TodoInv => ListIsRight
  <2> SUFFICES ASSUME TodoInv PROVE ListIsRight
    OBVIOUS
  <2>1. TodoTypeOK
    BY DEF TodoInv, VarsOK, RunInv, TodoTypeOK, Title
  <2>2. ListIsStore
    BY MirrorIsStore DEF TodoInv, VarsOK, RunInv, ListIsStore, Mirrors
  <2> QED
    BY <2>1, <2>2 DEF ListIsRight
<1> QED
  BY <1>1, TodoInductive, PTL

\* No key and no start of the program changes or deletes a todo but the selected one; an id
\* that add_todo gives is not in the store (App::open, next_id).
THEOREM OnlyTheSelected == TodoSpec => EditsOneTodo
<1> DEFINE Keeps ==
      \A id \in DOMAIN store :
         (InMode("adding") \/ selected >= Len(todos) \/ id # todos[selected + 1].id)
            => id \in DOMAIN store' /\ store'[id] = store[id]
<1>1. TodoInv /\ [TodoNext]_todoVars => [Keeps]_todoVars
  <2> SUFFICES ASSUME TodoInv, TodoNext,
                      NEW id \in DOMAIN store,
                      InMode("adding") \/ selected >= Len(todos) \/ id # todos[selected + 1].id
               PROVE  id \in DOMAIN store' /\ store'[id] = store[id]
    OBVIOUS
  <2>1. CASE store' = store
    BY <2>1
  <2>2. CASE Toggle
    <3>1. id # todos[selected + 1].id
      BY <2>2 DEF Toggle, InMode, TodoInv, VarsOK
    <3> DEFINE todo == [todos[selected + 1] EXCEPT !.done = ~@]
    <3>2. todos[selected + 1] \in Todo
      BY <2>2 DEF Toggle, TodoInv, VarsOK
    <3>3. todo.id = todos[selected + 1].id
      BY <3>2 DEF Todo
    <3>4. store' \in {store, With(store, todo.id, Content(todo))}
      BY <2>2 DEF Toggle, WriteThrough
    <3> HIDE DEF todo
    <3> QED
      BY <3>1, <3>3, <3>4 DEF With
  <2>3. CASE Delete
    <3>1. id # todos[selected + 1].id
      BY <2>3 DEF Delete, InMode, TodoInv, VarsOK
    <3>2. store' \in {store, Without(store, todos[selected + 1].id)}
      BY <2>3 DEF Delete, WriteThrough
    <3> QED
      BY <3>1, <3>2 DEF Without
  <2>4. CASE AddTodo /\ store' # store
    <3>1. ~Blank(buf) /\ running
      BY <2>4 DEF AddTodo, InMode
    <3> DEFINE c == Content([id |-> next_id, title |-> buf, done |-> FALSE])
    <3>2. store' \in {store, With(store, next_id, c)}
      BY <2>4, <3>1 DEF AddTodo, WriteThrough
    <3>3. id < next_id /\ id \in Nat /\ next_id \in Nat
      BY <3>1 DEF TodoInv, VarsOK, RunInv, StoreOK, TodoIds
    <3>4. id # next_id
      BY <3>3
    <3> HIDE DEF c
    <3> QED
      BY <3>2, <3>4 DEF With
  <2> QED
    BY <2>1, <2>2, <2>3, <2>4
       DEF TodoNext, Open, MergeOrSync, StartAdding, Quit, Move, Type, Backspace, Cancel
<1> QED
  BY <1>1, TodoInductive, PTL DEF TodoSpec, EditsOneTodo
===============================================================================
