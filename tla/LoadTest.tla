------------------------------- MODULE LoadTest -------------------------------
(* The threads of the load generator (src/bin/loadtest.rs): workers that     *)
(* call the store and collect samples in a batch of their own, a thread that *)
(* merges, and the main thread, which drains the shared samples at every     *)
(* report, stops the others, joins them and sums up.  The store is external: *)
(* a call takes some time and returns, or returns an error, on which the     *)
(* caller panics.  Time is a clock of whole ticks.                           *)
EXTENDS Integers, FiniteSets

CONSTANTS Workers,    \* the worker threads
          Merger,     \* the merge thread
          BatchSize,  \* samples a worker keeps before it hands them over (64)
          Warmup,     \* warmup_secs
          Duration,   \* duration_secs
          Interval,   \* report_interval_secs
          MergeEvery, \* merge_interval_secs
          CallsFail,  \* whether a call of the store may return an error
          MaxOps      \* bound: calls per thread

Threads == Workers \cup {Merger}
TotalRun == Warmup + Duration

ASSUME LoadTestAssumption ==
    /\ Merger \notin Workers /\ IsFiniteSet(Workers)
    /\ "main" \notin Threads
    /\ BatchSize \in Nat \ {0} /\ Interval \in Nat \ {0} /\ MergeEvery \in Nat \ {0}
    /\ Warmup \in Nat /\ Duration \in Nat /\ MaxOps \in Nat
    /\ CallsFail \in BOOLEAN

VARIABLES
    now,         \* overall_start.elapsed()
    main,        \* where the main thread is
    wake,        \* when its sleep ends
    announced,   \* warmup_announced
    recording, stop,  \* the two flags
    at,          \* at[t]: where thread t is
    ops,         \* ops[t]: how many calls it began; the last one is its current sample's number
    begun,       \* begun[t]: whether recording was on when that call began
    due,         \* when the merge thread's sleep ends
    local,       \* local[w]: a worker's own samples
    samples,     \* the shared ones
    all_samples, \* the drained ones
    doubled,     \* some sample was drained twice
    refs,        \* the threads that hold the store, "main" among them
    closed       \* the store was closed

vars == <<now, main, wake, announced, recording, stop, at, ops, begun, due, local, samples,
          all_samples, doubled, refs, closed>>

mainVars   == <<main, wake, announced, recording, stop, all_samples, doubled, closed>>
threadVars == <<at, ops, begun, due, local>>

Least(a, b)    == IF a < b THEN a ELSE b
Greatest(a, b) == IF a < b THEN b ELSE a

\* The threads are spawned, the merge thread asleep.
Init ==
    /\ now = 0
    /\ main = "loop" /\ wake = 0
    /\ announced = (Warmup = 0) /\ recording = (Warmup = 0) /\ stop = FALSE
    /\ at = [t \in Threads |-> "loop"]
    /\ ops = [t \in Threads |-> 0]
    /\ begun = [t \in Threads |-> FALSE]
    /\ due = MergeEvery
    /\ local = [w \in Workers |-> {}]
    /\ samples = {} /\ all_samples = {} /\ doubled = FALSE
    /\ refs = Threads \cup {"main"}
    /\ closed = FALSE

\* Time passes until the run is over; after that it plays no part.
Tick ==
    /\ now < TotalRun
    /\ now' = now + 1
    /\ UNCHANGED <<mainVars, threadVars, samples, refs>>

-----------------------------------------------------------------------------
(* The workers and the merge thread.                                         *)

Sample(t) == [by |-> t, n |-> ops[t], warm |-> begun[t]]

\* A call of the store begins, when the thread has not seen `stop`.
BeginCall(t) ==
    /\ at[t] = "loop" /\ ~stop /\ ops[t] < MaxOps
    /\ t = Merger => now >= due
    /\ at' = [at EXCEPT ![t] = "call"]
    /\ ops' = [ops EXCEPT ![t] = @ + 1]
    /\ begun' = [begun EXCEPT ![t] = recording]
    /\ UNCHANGED <<now, mainVars, due, local, samples, refs>>

\* unwrap of an error: the thread is gone, with its batch and its handle.
CallPanics(t) ==
    /\ CallsFail /\ at[t] = "call"
    /\ at' = [at EXCEPT ![t] = "panicked"]
    /\ local' = [w \in Workers |-> IF w = t THEN {} ELSE local[w]]
    /\ refs' = refs \ {t}
    /\ UNCHANGED <<now, mainVars, ops, begun, due, samples>>

\* A full batch goes to the shared samples, under their lock.
HandedOver(w, batch) ==
    IF Cardinality(batch) >= BatchSize
    THEN samples' = samples \cup batch /\ local' = [local EXCEPT ![w] = {}]
    ELSE local' = [local EXCEPT ![w] = batch] /\ UNCHANGED samples

\* A call returns. Its sample is kept if recording is on by now; the merge thread hands over
\* each one, and goes back to sleep.
CallReturns(t) ==
    /\ at[t] = "call"
    /\ IF ~recording THEN UNCHANGED <<local, samples>>
       ELSE IF t \in Workers THEN HandedOver(t, local[t] \cup {Sample(t)})
       ELSE samples' = samples \cup {Sample(t)} /\ UNCHANGED local
    /\ due' = IF t = Merger THEN now + MergeEvery ELSE due
    /\ at' = [at EXCEPT ![t] = "loop"]
    /\ UNCHANGED <<now, mainVars, ops, begun, refs>>

\* Mutant of SeesStop: the sleep of the merge thread does not look at the flag.
SeesStopAwake(t) == stop /\ t # Merger

\* The workers look at `stop` between calls, the merge thread in sleep_or_stop.
SeesStop(t) == stop

\* The samples a thread still holds at its end.
LastBatch(t) == IF t \in Workers THEN local[t] ELSE {}

\* The thread ends: its last batch is handed over and its handle dropped.
Ends(t) ==
    /\ at[t] = "loop" /\ SeesStop(t)
    /\ at' = [at EXCEPT ![t] = "ended"]
    /\ samples' = samples \cup LastBatch(t)
    /\ local' = [w \in Workers |-> IF w = t THEN {} ELSE local[w]]
    /\ refs' = refs \ {t}
    /\ UNCHANGED <<now, mainVars, ops, begun, due>>

-----------------------------------------------------------------------------
(* The main thread.                                                          *)

\* The reporting loop goes to sleep, or is over and stops the others.
Loop ==
    /\ main = "loop"
    /\ IF now < TotalRun
       THEN /\ main' = "sleep"
            /\ wake' = now + Least(Interval, Greatest(TotalRun - now, 1))
            /\ UNCHANGED stop
       ELSE main' = "join" /\ stop' = TRUE /\ UNCHANGED wake
    /\ UNCHANGED <<now, threadVars, announced, recording, samples, all_samples, doubled, refs,
                   closed>>

\* Awake, it announces the end of the warmup.
Announce ==
    /\ main = "sleep" /\ now >= wake
    /\ IF ~announced /\ now >= Warmup
       THEN announced' = TRUE /\ recording' = TRUE
       ELSE UNCHANGED <<announced, recording>>
    /\ main' = "drain"
    /\ UNCHANGED <<now, threadVars, wake, stop, samples, all_samples, doubled, refs, closed>>

\* drain_samples: take what is queued, add it to the total.
Drained ==
    /\ samples' = {}
    /\ all_samples' = all_samples \cup samples
    /\ doubled' = (doubled \/ samples \cap all_samples # {})

Drain ==
    /\ main = "drain"
    /\ Drained
    /\ main' = "loop"
    /\ UNCHANGED <<now, threadVars, wake, announced, recording, stop, refs, closed>>

\* Mutants of MustJoin: the merge thread is left to itself; nobody is waited for.
MustJoinWorkers == Workers
MustJoinNobody  == {t \in Threads : at[t] = "panicked"}

\* Whom the main thread waits for.
MustJoin == Threads

\* join, and unwrap of its result: the first panic of a thread it comes upon is one of the
\* main thread, and the program is over, others still at work or not.  The workers come in
\* some order, the merge thread after them.
Join ==
    /\ main = "join"
    /\ \/ /\ \A t \in MustJoin : at[t] = "ended"
          /\ main' = "last_drain"
       \/ /\ \E t \in MustJoin :
                /\ at[t] = "panicked"
                /\ t = Merger => \A w \in Workers : at[w] = "ended"
          /\ main' = "panicked"
    /\ UNCHANGED <<now, threadVars, wake, announced, recording, stop, samples, all_samples,
                   doubled, refs, closed>>

\* Mutant of LastDrain: there is none.
NoLastDrain ==
    /\ main = "last_drain"
    /\ main' = "close"
    /\ UNCHANGED <<now, threadVars, wake, announced, recording, stop, samples, all_samples,
                   doubled, refs, closed>>

\* One more drain, and the summary.
LastDrain ==
    /\ main = "last_drain"
    /\ Drained
    /\ main' = "close"
    /\ UNCHANGED <<now, threadVars, wake, announced, recording, stop, refs, closed>>

\* Arc::try_unwrap: only the last holder can close the store.
CloseStore ==
    /\ main = "close"
    /\ closed' = (refs = {"main"})
    /\ refs' = refs \ {"main"}
    /\ main' = "done"
    /\ UNCHANGED <<now, threadVars, wake, announced, recording, stop, samples, all_samples,
                   doubled>>

MainStep   == Loop \/ Announce \/ Drain \/ Join \/ LastDrain \/ CloseStore

\* The threads go no further than the program.
ThreadStep(t) ==
    /\ main \notin {"panicked", "done"}
    /\ BeginCall(t) \/ CallReturns(t) \/ CallPanics(t) \/ Ends(t)

Next == Tick \/ MainStep \/ \E t \in Threads : ThreadStep(t)

\* Time passes, calls return, and every thread that can go on does.
Fairness ==
    /\ WF_vars(Tick) /\ WF_vars(MainStep)
    /\ \A t \in Threads : WF_vars(ThreadStep(t))

Spec == Init /\ [][Next]_vars /\ Fairness

-----------------------------------------------------------------------------
(* Properties.                                                               *)

Kept == samples \cup all_samples \cup UNION {local[w] : w \in Workers}

Finished == main \in {"close", "done"}

\* Every variable keeps its type; a thread's samples are of calls it made.
TypeOK ==
    /\ now \in 0..TotalRun /\ wake \in 0..TotalRun + 1 /\ due \in Nat
    /\ main \in {"loop", "sleep", "drain", "join", "last_drain", "close", "done", "panicked"}
    /\ {announced, recording, stop, doubled, closed} \subseteq BOOLEAN
    /\ at \in [Threads -> {"loop", "call", "ended", "panicked"}]
    /\ ops \in [Threads -> 0..MaxOps]
    /\ \A s \in Kept : s.by \in Threads /\ s.n \in 1..ops[s.by]
    /\ \A w \in Workers : Cardinality(local[w]) < BatchSize

\* The summary counts every sample that was recorded, and the last batches of the workers
\* and a merge that outlived the run with them (loadtest.rs 427-432).
EverySampleIsCounted == Finished => Kept = all_samples

\* No sample is counted twice, whichever way it went to the total.
NoSampleTwice ==
    /\ ~doubled
    /\ samples \cap all_samples = {}
    /\ \A w \in Workers : local[w] \cap (samples \cup all_samples) = {}

\* Once recording is on nothing is dropped: of the calls that a live thread began with
\* recording on, each is in progress or kept.
NothingRecordedIsLost ==
    \A t \in Threads :
        at[t] # "panicked" /\ begun[t] /\ at[t] \in {"loop", "ended"} => Sample(t) \in Kept

\* Samples are neither lost nor made up on their way from the workers to the summary.
SamplesAddUp == TypeOK /\ EverySampleIsCounted /\ NoSampleTwice /\ NothingRecordedIsLost

\* The main thread prints a summary only when all the others have ended without a panic, and
\* so it holds the last reference to the store and closes it (loadtest.rs 418-426, 465-467).
\* After a panic there is no summary, and nobody closes the store.
EndsInOrder ==
    /\ Finished => \A t \in Threads : at[t] = "ended"
    /\ main = "done" => closed
    /\ main = "panicked" => ~closed /\ \E t \in Threads : at[t] = "panicked"

\* The program comes to an end, however long a merge takes to notice.
Terminates == <>(main \in {"done", "panicked"})

-----------------------------------------------------------------------------
(* What a message says and some interleaving refutes.                        *)

\* loadtest.rs 445: the summary is of post-warmup samples only.
OnlyAfterWarmup == \A s \in all_samples : s.warm
=============================================================================
