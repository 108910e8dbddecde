------------------------------- MODULE Firehose -------------------------------
(* The firehose consumer (src/examples/bsky_firehose.rs), the one client of  *)
(* the library that uses its Metrics hook: it applies a feed of posts to the *)
(* store, draws what it counted once a second, and merges and syncs every    *)
(* MERGE_INTERVAL_TICKS seconds.  One task does it all: `select!` picks a    *)
(* tick, a key or a frame, and nothing interrupts the handler.  A frame is   *)
(* revealed to the handler one operation on a post at a time.                *)
(*                                                                           *)
(* The engine and the feed are external.  A call of the engine succeeds, and *)
(* is recorded with its duration, or fails, and changes and records nothing. *)
EXTENDS Integers, Sequences, Functions

CONSTANTS
    Repos, Rkeys, Texts,    \* what names a post, and what it says
    NoPost,                 \* no post: not in Texts
    HISTORY_LEN, LOG_LEN, MERGE_INTERVAL_TICKS,
    Durations,              \* how many nanoseconds a call of the engine may take, perhaps 0
    MaxFrames,              \* bound: frames handled
    MaxOps,                 \* bound: post operations in a frame
    MaxTicks,               \* bound: ticks
    MaxFailures             \* bound: calls of the engine that fail

ASSUME FirehoseAssumption ==
    /\ NoPost \notin Texts
    /\ {HISTORY_LEN, LOG_LEN, MERGE_INTERVAL_TICKS} \subseteq Nat \ {0}
    /\ Durations \subseteq Nat
    /\ {MaxFrames, MaxOps, MaxTicks, MaxFailures} \subseteq Nat

Posts   == Repos \X Rkeys
Counted == {"frames", "stored", "deleted", "skipped"}
Calls   == {"put", "delete", "merge", "sync"}
Charted == {"put", "delete"}

\* What counts the calls of each kind that has a chart.
CountedAs == [put |-> "stored", delete |-> "deleted"]

NoChange == -1

VARIABLES
    main,       \* "select", "ops" inside a commit, "closing", "ended"
    repo, size, left,  \* the commit's repository, its operations on posts, those to come
    car_blocks, \* its CAR has been read
    metrics,    \* App::frames, stored, deleted and skipped
    latency,    \* App::put_latency and delete_latency
    engine_metrics,    \* EngineMetricsCollector
    ticks_since_merge,
    log,
    ticks,      \* the ticks so far
    store,      \* what the engine holds, by key
    feed,       \* what the posts of the network are
    warned,     \* a frame was given up with a warning
    age,        \* ticks since the oldest change that no sync followed
    missed,     \* background merges or syncs that failed since the last success
    failures

appVars == <<metrics, latency, engine_metrics, ticks_since_merge, log>>
envVars == <<ticks, store, feed, warned, age, missed, failures>>
frameVars == <<repo, size, left, car_blocks>>
vars == <<main, frameVars, appVars, envVars>>

-----------------------------------------------------------------------------
(* Counters and charts.                                                      *)

\* Metric, LatencyMetric, and a pair of EngineMetricsCollector, as they begin.
NewMetric        == [total |-> 0, this_tick |-> 0, history |-> <<>>]
NewLatencyMetric == [last_count |-> 0, last_nanos |-> 0, history |-> <<>>]
NewCounter       == [count |-> 0, nanos |-> 0]

\* Mutant of PostKey: the rkey alone.
PostKeyOfRkey(r, k) == <<k>>

\* post_key.
PostKey(r, k) == <<r, k>>

\* A full deque drops its oldest element for a new one.
Pushed(q, x, len) == Append(IF Len(q) >= len THEN Tail(q) ELSE q, x)

\* Metric::record.
Recorded(m, n) == [m EXCEPT !.total = @ + n, !.this_tick = @ + n]

\* Metric::tick.
Ticked(m) == [m EXCEPT !.history = Pushed(@, m.this_tick, HISTORY_LEN), !.this_tick = 0]

Average(nanos, count) == IF count = 0 THEN 0 ELSE nanos \div count

\* LatencyMetric::tick.
LatencyTicked(l, c) ==
    [last_count |-> c.count, last_nanos |-> c.nanos,
     history |-> Pushed(l.history, Average(c.nanos - l.last_nanos, c.count - l.last_count),
                        HISTORY_LEN)]

\* EngineMetricsCollector::record.
Collected(em, call, d) == [em EXCEPT ![call] = [count |-> @.count + 1, nanos |-> @.nanos + d]]

-----------------------------------------------------------------------------
Init ==
    /\ main = "select" /\ repo = NoPost /\ size = 0 /\ left = 0 /\ car_blocks = FALSE
    /\ metrics = [c \in Counted |-> NewMetric]
    /\ latency = [c \in Charted |-> NewLatencyMetric]
    /\ engine_metrics = [c \in Calls |-> NewCounter]
    /\ ticks_since_merge = 0 /\ log = <<>> /\ ticks = 0
    /\ store = [k \in {PostKey(r, j) : r \in Repos, j \in Rkeys} |-> NoPost]
    /\ feed = [p \in Posts |-> NoPost]
    /\ warned = FALSE /\ age = NoChange /\ missed = 0 /\ failures = 0

-----------------------------------------------------------------------------
(* handle_frame.                                                             *)

Count(c) == metrics' = [metrics EXCEPT ![c] = Recorded(@, 1)]

MayHandle == main = "select" /\ metrics["frames"].total < MaxFrames

\* What the app did not read may have changed a post (one is enough to fall behind by).
FeedMovesOn(P) == \/ UNCHANGED feed
                  \/ \E p \in P, x \in Texts \cup {NoPost} : feed' = [feed EXCEPT ![p] = x]

\* handle_frame returned an error: the frame ends here, with a warning in the log.
GivenUp ==
    /\ main' = "select"
    /\ log' = Pushed(log, "warning", LOG_LEN)
    /\ warned' = TRUE

\* Neither a commit nor without posts: skipped, whatever it was.
SkipFrame ==
    /\ MayHandle
    /\ metrics' = [metrics EXCEPT !["frames"] = Recorded(@, 1), !["skipped"] = Recorded(@, 1)]
    /\ UNCHANGED <<main, frameVars, latency, engine_metrics, ticks_since_merge, log, envVars>>

\* Its header or its body does not decode.
FrameUnreadable ==
    /\ MayHandle
    /\ Count("frames")
    /\ GivenUp
    /\ FeedMovesOn(Posts)
    /\ UNCHANGED <<frameVars, latency, engine_metrics, ticks_since_merge, ticks, store, age,
                   missed, failures>>

\* A commit of this repository, with n operations on posts.
BeginCommit(r, n) ==
    /\ MayHandle
    /\ Count("frames")
    /\ main' = "ops" /\ repo' = r /\ size' = n /\ left' = n /\ car_blocks' = FALSE
    /\ UNCHANGED <<latency, engine_metrics, ticks_since_merge, log, envVars>>

\* The operation is done with; after the last one the frame is.
OpDone ==
    /\ left' = left - 1
    /\ main' = IF left = 1 THEN "select" ELSE "ops"

\* The engine fails: `?` leaves the rest of the commit unread.
CallFails ==
    /\ main = "ops" /\ failures < MaxFailures
    /\ failures' = failures + 1
    /\ GivenUp
    /\ left' = 0
    /\ FeedMovesOn({repo} \X Rkeys)
    /\ UNCHANGED <<repo, size, car_blocks, metrics, latency, engine_metrics, ticks_since_merge, ticks,
                   store, age, missed>>

\* A change the engine accepted is waiting for a sync.
Waiting(a) == IF a = NoChange THEN 0 ELSE a

\* Mutant of DeleteCounts: a key the store does not have is not counted.
DeleteCountsIfFound(k) ==
    IF store[PostKey(repo, k)] = NoPost THEN UNCHANGED metrics ELSE Count("deleted")

\* Every delete that succeeds counts, that of an absent key with them.
DeleteCounts(k) == Count("deleted")

DeletePost(k, d) ==
    /\ main = "ops"
    /\ store' = [store EXCEPT ![PostKey(repo, k)] = NoPost]
    /\ age' = IF store[PostKey(repo, k)] = NoPost THEN age ELSE Waiting(age)
    /\ feed' = [feed EXCEPT ![<<repo, k>>] = NoPost]
    /\ engine_metrics' = Collected(engine_metrics, "delete", d)
    /\ DeleteCounts(k)
    /\ log' = Pushed(log, "deleted", LOG_LEN)
    /\ OpDone
    /\ UNCHANGED <<repo, size, car_blocks, latency, ticks_since_merge, ticks, warned, missed, failures>>

\* create and update are one: the block is found, decodes, and is put.
StorePost(k, text, d) ==
    /\ main = "ops"
    /\ car_blocks' = TRUE
    /\ store' = [store EXCEPT ![PostKey(repo, k)] = text]
    /\ age' = Waiting(age)
    /\ feed' = [feed EXCEPT ![<<repo, k>>] = text]
    /\ engine_metrics' = Collected(engine_metrics, "put", d)
    /\ Count("stored")
    /\ log' = Pushed(log, "stored", LOG_LEN)
    /\ OpDone
    /\ UNCHANGED <<repo, size, latency, ticks_since_merge, ticks, warned, missed, failures>>

\* The first operation that needs the CAR finds it cannot be read.
CarUnreadable ==
    /\ main = "ops" /\ ~car_blocks
    /\ GivenUp
    /\ left' = 0
    /\ FeedMovesOn({repo} \X Rkeys)
    /\ UNCHANGED <<repo, size, car_blocks, metrics, latency, engine_metrics, ticks_since_merge, ticks,
                   store, age, missed, failures>>

SkipCounts == Count("skipped")

\* No CID, no such block, no post in it, or an action of another name: one more skipped.
\* The middle two of them have read the CAR.
SkipOp(k) ==
    /\ main = "ops"
    /\ car_blocks' \in {car_blocks, TRUE}
    /\ FeedMovesOn({<<repo, k>>})
    /\ SkipCounts
    /\ OpDone
    /\ UNCHANGED <<repo, size, latency, engine_metrics, ticks_since_merge, log, ticks, store, warned,
                   age, missed, failures>>

-----------------------------------------------------------------------------
(* tick, and the end.                                                        *)

MergeIsDue == ticks_since_merge + 1 >= MERGE_INTERVAL_TICKS

Older == IF age = NoChange THEN NoChange ELSE age + 1

\* merge, then sync unless merge failed.
MergeAndSync ==
    /\ ticks_since_merge' = 0
    /\ \/ /\ engine_metrics' = Collected(Collected(engine_metrics, "merge", 1), "sync", 1)
          /\ log' = Pushed(log, "completed", LOG_LEN)
          /\ age' = NoChange /\ missed' = 0
          /\ UNCHANGED failures
       \/ /\ failures < MaxFailures /\ failures' = failures + 1
          /\ engine_metrics' \in {engine_metrics, Collected(engine_metrics, "merge", 1)}
          /\ log' = Pushed(log, "warning", LOG_LEN)
          /\ age' = Older /\ missed' = missed + 1

\* Mutant of AfterLoop: an error leaves `main` at once.
AfterLoopOrError == {"closing", "ended"}

\* However the loop ends, the store is closed.
AfterLoop == {"closing"}

\* App::tick, and a redraw; one that fails ends the loop.
Tick ==
    /\ main = "select" /\ ticks < MaxTicks
    /\ ticks' = ticks + 1
    /\ metrics' = [c \in Counted |-> Ticked(metrics[c])]
    /\ latency' = [c \in Charted |-> LatencyTicked(latency[c], engine_metrics[c])]
    /\ IF MergeIsDue
       THEN MergeAndSync
       ELSE /\ ticks_since_merge' = ticks_since_merge + 1
            /\ age' = Older
            /\ UNCHANGED <<engine_metrics, log, missed, failures>>
    /\ main' \in {"select"} \cup AfterLoop
    /\ UNCHANGED <<frameVars, store, feed, warned>>

\* A key, the end of the input or of the connection, or an error of either.
LoopEnds ==
    /\ main = "select"
    /\ main' \in AfterLoop
    /\ UNCHANGED <<frameVars, appVars, envVars>>

\* Engine::close, which syncs, or fails and is the result of `main`.
Close ==
    /\ main = "closing"
    /\ main' = "ended"
    /\ \/ age' = NoChange /\ UNCHANGED <<missed, failures>>
       \/ /\ failures < MaxFailures /\ failures' = failures + 1
          /\ missed' = missed + 1 /\ UNCHANGED age
    /\ UNCHANGED <<frameVars, appVars, ticks, store, feed, warned>>

Next ==
    \/ SkipFrame \/ FrameUnreadable
    \/ \E r \in Repos, n \in 1..MaxOps : BeginCommit(r, n)
    \/ \E k \in Rkeys : SkipOp(k)
    \/ \E k \in Rkeys, d \in Durations : DeletePost(k, d)
    \/ \E k \in Rkeys, text \in Texts, d \in Durations : StorePost(k, text, d)
    \/ CallFails \/ CarUnreadable
    \/ Tick \/ LoopEnds \/ Close

Spec == Init /\ [][Next]_vars

-----------------------------------------------------------------------------
(* Properties.                                                               *)

SumOf(q) == FoldFunction(LAMBDA x, y : x + y, 0, q)

\* Every variable keeps its type; the charts and the log keep their lengths.
TypeOK ==
    /\ main \in {"select", "ops", "closing", "ended"}
    /\ size \in 0..MaxOps /\ left \in 0..size /\ (main = "ops" => left > 0)
    /\ car_blocks \in BOOLEAN /\ warned \in BOOLEAN
    /\ \A c \in Counted : Len(metrics[c].history) <= HISTORY_LEN
    /\ \A c \in Charted : Len(latency[c].history) <= HISTORY_LEN
    /\ engine_metrics \in [Calls -> [count : Nat, nanos : Nat]]
    /\ ticks_since_merge \in 0..MERGE_INTERVAL_TICKS - 1
    /\ Len(log) <= LOG_LEN
    /\ age \in Nat \cup {NoChange} /\ missed \in Nat

\* What the app counted is what the engine reported through its hook, which records the
\* calls that succeed and no other (metrics.rs 8-12).
AppAgreesWithEngine ==
    /\ metrics["stored"].total = engine_metrics["put"].count
    /\ metrics["deleted"].total = engine_metrics["delete"].count

\* A chart and the running second make up the total, until the chart is full; from then
\* on they miss what scrolled away, and are never more than the total.
ChartsAddUp ==
    \A c \in Counted :
        LET m     == metrics[c]
            shown == SumOf(m.history) + m.this_tick
        IN  /\ shown <= m.total
            /\ ticks <= HISTORY_LEN => shown = m.total

\* The average over a second: none without a call, and otherwise no less than the quickest
\* of the calls may have taken and no more than the slowest.
IsAverageOf(l, calls) ==
    IF calls = 0 THEN l = 0 ELSE \E lo, hi \in Durations : lo <= l /\ l <= hi

\* The columns of the charts are of the same seconds: each latency averages the calls that
\* the counter has in that column (LatencyMetric::tick takes what the engine reported since
\* the last tick), and a second without a frame counts nothing.
ColumnsMatch ==
    \A i \in DOMAIN metrics["frames"].history :
        /\ \A c \in Charted :
              IsAverageOf(latency[c].history[i], metrics[CountedAs[c]].history[i])
        /\ metrics["frames"].history[i] = 0 =>
               \A c \in Counted : metrics[c].history[i] = 0

\* The counters and the histories that App keeps, in calls and in nanoseconds, tell what the
\* store did.  App::draw reads them, and scales a latency to microseconds.
ChartsAreRight == TypeOK /\ AppAgreesWithEngine /\ ChartsAddUp /\ ColumnsMatch

\* A change waits less than an interval for the sync after it, and an interval more for
\* each merge or sync that failed since.
ChangeIsSoonSynced == age < MERGE_INTERVAL_TICKS * (missed + 1)

\* The store is the feed as long as no frame was given up and nothing was counted as
\* skipped: later events overwrite and remove the same key, and no other (lines 71-73).
NothingIsMissedSilently ==
    (\E p \in Posts : store[PostKey(p[1], p[2])] # feed[p])
        => warned \/ metrics["skipped"].total > 0

\* However the program ended, the last changes were synced, or close failed and said so.
EndedIsSynced == main = "ended" /\ missed = 0 => age = NoChange

\* No change is left unsynced, neither while the program runs nor when it ends.
ChangesAreSynced == ChangeIsSoonSynced /\ EndedIsSynced

-----------------------------------------------------------------------------
(* What a message says and a failure refutes.                                *)

\* Line 753, "skipping one frame": what a warning gives up is the frame, not its rest.
FrameIsSkippedWhole == [][main = "ops" /\ log' = Pushed(log, "warning", LOG_LEN) => left = size]_vars
=============================================================================
