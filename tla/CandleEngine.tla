---- MODULE CandleEngine ----
(***************************************************************************)
(* The candle engine for one index and timeframe: the aggregator of the    *)
(* bucket in progress, the subscriber that feeds it, the closer thread     *)
(* that sweeps once a second, and the three places a closed candle goes to *)
(* (Postgres, the last-close key in Redis, the bus).  One lock serialises  *)
(* the two threads from the first look at the aggregator to the last       *)
(* write, so there is one pc for whoever holds it; the process can die at  *)
(* every step, and every write can fail.                                   *)
(***************************************************************************)
EXTENDS Integers, Sequences, FiniteSets, FiniteSetsExt

CONSTANTS
    Step,        \* the width of a bucket in clock steps
    Prices,      \* what a tick can say
    Delay,       \* how late a tick can be delivered after its exchange time
    MaxNow, MaxTicks, MaxCrashes, MaxFaults   \* bounds on the counters

ASSUME CandleAssumption ==
    /\ Step \in Nat \ {0}
    /\ Prices \subseteq Nat \ {0}
    /\ Delay \in Nat
    /\ MaxNow \in Nat /\ MaxTicks \in Nat /\ MaxCrashes \in Nat /\ MaxFaults \in Nat

VARIABLES
    now,         \* the wall clock
    up, crashes, \* the process runs; how often it died
    faults,      \* how many writes failed
    agg,         \* the CandleAggregator's bucket in progress
    pc, job,     \* the holder of the lock: where it is, the candle it emits
    inProgress,  \* the tpp:candle:in_progress key in Redis
    lastClose,   \* the tpp:candle:last_close key in Redis
    pg,          \* the rows of index_candles, by open_ts
    published,   \* the candles sent on the bus
    absorbed,    \* history: the prices the aggregator took in, per bucket
    spoiled      \* history: the buckets a fault, a death or a late tick touched

process == <<up, crashes>>
history == <<absorbed, spoiled>>
redis == <<inProgress, lastClose>>
vars == <<now, process, faults, agg, pc, job, redis, pg, published, history>>

Starts == {s \in 0..MaxNow : s % Step = 0}

Candle == [openTs : Starts, open : Prices, high : Prices, low : Prices,
           close : Prices, count : 1..MaxTicks]

None == [openTs |-> -1, open |-> 0, high |-> 0, low |-> 0, close |-> 0, count |-> 0]

Idle == [candle |-> None, tick |-> FALSE]

\* bucket_for: the start of the bucket of an exchange time, and the end of a bucket.
BucketFor(ts) == (ts \div Step) * Step

CloseTs(c) == c.openTs + Step

\* Mutant of BeginBucket: the range of the bucket before is kept.
BeginBucketKeepsRange(start, ltp) ==
    [openTs |-> start, open |-> ltp, high |-> IF agg = None THEN ltp ELSE Max({agg.high, ltp}),
     low |-> ltp, close |-> ltp, count |-> 1]

\* _begin_bucket and _update_bucket.
BeginBucket(start, ltp) ==
    [openTs |-> start, open |-> ltp, high |-> ltp, low |-> ltp, close |-> ltp, count |-> 1]

UpdateBucket(c, ltp) ==
    [c EXCEPT !.high = Max({@, ltp}), !.low = Min({@, ltp}), !.close = ltp, !.count = @ + 1]

\* What a bucket's candle is, from the prices of its ticks.
Ohlc(start, prices) ==
    LET seen == {prices[n] : n \in 1..Len(prices)}
    IN  [openTs |-> start, open |-> prices[1], high |-> Max(seen), low |-> Min(seen),
         close |-> prices[Len(prices)], count |-> Len(prices)]

Ticks == SumFunction([s \in Starts |-> Len(absorbed[s])])
----
Init ==
    /\ now = 0
    /\ up = TRUE /\ crashes = 0 /\ faults = 0
    /\ agg = None /\ pc = "free" /\ job = Idle
    /\ inProgress = None /\ lastClose = None
    /\ pg = [s \in Starts |-> None]
    /\ published = <<>>
    /\ absorbed = [s \in Starts |-> <<>>]
    /\ spoiled = {}

\* A tick taken in: a bucket that was left before and is begun again is spoiled.
Absorb(start, ltp) ==
    /\ absorbed' = [absorbed EXCEPT ![start] = Append(@, ltp)]
    /\ spoiled' = IF agg.openTs # start /\ absorbed[start] # <<>>
                  THEN spoiled \cup {start} ELSE spoiled

(***************************************************************************)
(* on_tick takes the lock and feeds the aggregator: the first tick of a    *)
(* bucket, one that rolls the bucket over, one for a bucket already past   *)
(* (dropped), one for the bucket in progress.                              *)
(***************************************************************************)
OnTick(ts, ltp) ==
    LET start == BucketFor(ts)
    IN  /\ up /\ pc = "free"
        /\ \/ /\ agg = None
              /\ agg' = BeginBucket(start, ltp)
              /\ pc' = "persist" /\ UNCHANGED job
              /\ Absorb(start, ltp)
           \/ /\ agg # None /\ start > agg.openTs
              /\ agg' = BeginBucket(start, ltp)
              /\ pc' = "insert" /\ job' = [candle |-> agg, tick |-> TRUE]
              /\ Absorb(start, ltp)
           \/ /\ agg # None /\ start < agg.openTs
              /\ pc' = "persist"
              /\ UNCHANGED <<agg, job, history>>
           \/ /\ agg # None /\ start = agg.openTs
              /\ agg' = UpdateBucket(agg, ltp)
              /\ pc' = "persist" /\ UNCHANGED job
              /\ Absorb(start, ltp)
        /\ UNCHANGED <<now, process, faults, redis, pg, published>>

\* Mutant of Sweep: the sweep never closes the bucket that has just ended.
SweepLate ==
    /\ up /\ pc = "free"
    /\ agg # None /\ now > CloseTs(agg)
    /\ agg' = None
    /\ pc' = "insert" /\ job' = [candle |-> agg, tick |-> FALSE]
    /\ UNCHANGED <<now, process, faults, redis, pg, published, history>>

\* The closer's sweep, maybe_close_stale: the bucket has ended and no tick rolled it.
Sweep ==
    /\ up /\ pc = "free"
    /\ agg # None /\ now >= CloseTs(agg)
    /\ agg' = None
    /\ pc' = "insert" /\ job' = [candle |-> agg, tick |-> FALSE]
    /\ UNCHANGED <<now, process, faults, redis, pg, published, history>>
----
(***************************************************************************)
(* _emit_closed: Postgres first, then Redis (last close, then the key in   *)
(* progress), then the bus.  Each failure is logged and swallowed; one of  *)
(* the last close skips the deletion of the key in progress.               *)
(***************************************************************************)
Fault ==
    /\ faults < MaxFaults
    /\ faults' = faults + 1

InsertCandle(ok) ==
    /\ up /\ pc = "insert"
    /\ IF ok THEN /\ pg' = [pg EXCEPT ![job.candle.openTs] = job.candle]
                  /\ UNCHANGED <<faults, spoiled>>
             ELSE /\ Fault
                  /\ spoiled' = spoiled \cup {job.candle.openTs}
                  /\ UNCHANGED pg
    /\ pc' = "last"
    /\ UNCHANGED <<now, process, agg, job, redis, published, absorbed>>

SetLastClose(ok) ==
    /\ up /\ pc = "last"
    /\ IF ok THEN lastClose' = job.candle /\ pc' = "clear" /\ UNCHANGED faults
             ELSE Fault /\ pc' = "publish" /\ UNCHANGED lastClose
    /\ UNCHANGED <<now, process, agg, job, inProgress, pg, published, history>>

ClearInProgress(ok) ==
    /\ up /\ pc = "clear"
    /\ IF ok THEN inProgress' = None /\ UNCHANGED faults
             ELSE Fault /\ UNCHANGED inProgress
    /\ pc' = "publish"
    /\ UNCHANGED <<now, process, agg, job, lastClose, pg, published, history>>

\* A publish that fails is swallowed by the bus; a tick goes on to persist its bucket.
PublishCandle(ok) ==
    /\ up /\ pc = "publish"
    /\ IF ok THEN published' = Append(published, job.candle) /\ UNCHANGED faults
             ELSE Fault /\ UNCHANGED published
    /\ pc' = IF job.tick THEN "persist" ELSE "free"
    /\ job' = Idle
    /\ UNCHANGED <<now, process, agg, redis, pg, history>>

\* _persist_in_progress, the last thing a tick does under the lock.
PersistInProgress(ok) ==
    /\ up /\ pc = "persist"
    /\ IF ok THEN inProgress' = agg /\ UNCHANGED <<faults, spoiled>>
             ELSE /\ Fault
                  /\ spoiled' = spoiled \cup {agg.openTs}
                  /\ UNCHANGED inProgress
    /\ pc' = "free"
    /\ UNCHANGED <<now, process, agg, job, lastClose, pg, published, absorbed>>
----
Tick ==
    /\ now < MaxNow
    /\ now' = now + 1
    /\ UNCHANGED <<process, faults, agg, pc, job, redis, pg, published, history>>

\* The process dies; what memory held and Redis did not is lost.
Crash ==
    /\ up /\ crashes < MaxCrashes
    /\ up' = FALSE /\ crashes' = crashes + 1
    /\ agg' = None /\ pc' = "free" /\ job' = Idle
    /\ spoiled' = IF agg # None /\ agg # inProgress
                  THEN spoiled \cup {agg.openTs} ELSE spoiled
    /\ UNCHANGED <<now, faults, redis, pg, published, absorbed>>

\* Mutant of Recover: a bucket that ended while the process was down is forgotten.
RecoverOpenOnly ==
    /\ ~up
    /\ up' = TRUE
    /\ agg' = IF inProgress # None /\ now < CloseTs(inProgress) THEN inProgress ELSE None
    /\ UNCHANGED <<now, crashes, faults, pc, job, redis, pg, published, history>>

\* Mutant of Recover: a bucket that ended while the process was down is taken up like any other.
RecoverEnded ==
    /\ ~up
    /\ up' = TRUE
    /\ agg' = inProgress
    /\ UNCHANGED <<now, crashes, faults, pc, job, redis, pg, published, history>>

(***************************************************************************)
(* _recover_from_redis, before the threads start: a bucket that ended      *)
(* meanwhile is emitted, any other is taken up again.                      *)
(***************************************************************************)
Recover ==
    /\ ~up
    /\ up' = TRUE
    /\ IF inProgress # None /\ now >= CloseTs(inProgress)
       THEN /\ pc' = "insert" /\ job' = [candle |-> inProgress, tick |-> FALSE]
            /\ UNCHANGED agg
       ELSE /\ agg' = inProgress
            /\ UNCHANGED <<pc, job>>
    /\ UNCHANGED <<now, crashes, faults, redis, pg, published, history>>

EmitClosed(ok) ==
    InsertCandle(ok) \/ SetLastClose(ok) \/ ClearInProgress(ok) \/ PublishCandle(ok)

Next ==
    \/ \E d \in 0..Delay, ltp \in Prices :
            now - d >= 0 /\ Ticks < MaxTicks /\ OnTick(now - d, ltp)
    \/ Sweep
    \/ \E ok \in BOOLEAN : EmitClosed(ok) \/ PersistInProgress(ok)
    \/ Tick \/ Crash \/ Recover

(***************************************************************************)
(* The clock moves, the closer comes round, and whoever holds the lock     *)
(* goes on.  No tick is promised, nor that a dead process is started.      *)
(***************************************************************************)
Fairness ==
    /\ WF_vars(Tick)
    /\ WF_vars(Sweep)
    /\ WF_vars(\E ok \in BOOLEAN : EmitClosed(ok) \/ PersistInProgress(ok))

Spec == Init /\ [][Next]_vars

FairSpec == Spec /\ Fairness
----
(***************************************************************************)
(* Properties.                                                             *)
(***************************************************************************)

TypeOK ==
    /\ now \in 0..MaxNow /\ up \in BOOLEAN /\ crashes \in 0..MaxCrashes
    /\ faults \in 0..MaxFaults
    /\ agg \in Candle \cup {None} /\ job \in [candle : Candle \cup {None}, tick : BOOLEAN]
    /\ pc \in {"free", "insert", "last", "clear", "publish", "persist"}
    /\ inProgress \in Candle \cup {None} /\ lastClose \in Candle \cup {None}
    /\ pg \in [Starts -> Candle \cup {None}]
    /\ published \in Seq(Candle)
    /\ absorbed \in [Starts -> Seq(Prices)] /\ spoiled \subseteq Starts

(***************************************************************************)
(* No candle is stored or announced before its bucket is over: the wall    *)
(* clock has passed its end, or a tick of a later bucket was seen.         *)
(***************************************************************************)
NoEarlyClose ==
    \A c \in {pg[s] : s \in Starts} \cup {published[n] : n \in 1..Len(published)} :
        c # None => \/ now >= CloseTs(c)
                    \/ \E s \in Starts : s > c.openTs /\ absorbed[s] # <<>>

(***************************************************************************)
(* A stored candle is the open, high, low, close and count of all ticks    *)
(* its bucket absorbed, whatever rolled or swept it, and whatever deaths   *)
(* and recoveries came between, unless the bucket is spoiled.              *)
(***************************************************************************)
UnspoiledCandleIsExact ==
    \A s \in Starts \ spoiled : pg[s] # None => pg[s] = Ohlc(s, absorbed[s])

(***************************************************************************)
(* A bucket that absorbed a tick is never forgotten: it is stored, in      *)
(* progress, on its way to Postgres or kept in Redis for the next start,   *)
(* whatever step the process died at, unless it is spoiled.                *)
(***************************************************************************)
NoBucketLost ==
    \A s \in Starts \ spoiled : absorbed[s] # <<>> =>
        \/ pg[s] # None
        \/ agg.openTs = s
        \/ pc = "insert" /\ job.candle.openTs = s
        \/ inProgress.openTs = s

(***************************************************************************)
(* A candle on the bus is already stored: a subscriber that looks it up    *)
(* finds its bucket, unless the insert failed.                             *)
(***************************************************************************)
PublishedIsStored ==
    \A n \in 1..Len(published) :
        published[n].openTs \in spoiled \/ pg[published[n].openTs] # None

(***************************************************************************)
(* "Every tick flushes the in-progress aggregator state to Redis"          *)
(* (README.md:304): whenever no thread is at work, Redis holds exactly the *)
(* bucket in progress, so that a restart resumes where a death left off.   *)
(***************************************************************************)
RedisIsCurrent ==
    up /\ pc = "free" /\ agg # None /\ agg.openTs \notin spoiled => inProgress = agg

(***************************************************************************)
(* A bucket in progress is closed in the end without another tick (the     *)
(* "stale-close sweep"), as long as the process lives.                     *)
(***************************************************************************)
BucketIsClosed ==
    \A s \in Starts :
        (agg.openTs = s /\ s + Step <= MaxNow) ~> (agg.openTs # s)

(***************************************************************************)
(* "Ticks for a past bucket are logged + discarded -- closed candles are   *)
(* immutable" (README.md:309): a stored candle never changes.              *)
(***************************************************************************)
ClosedCandlesAreImmutable ==
    [][\A s \in Starts : pg[s] # None => pg'[s] = pg[s]]_vars

(***************************************************************************)
(* Where they are immutable: a stored candle that is stored once more,     *)
(* after a death between the insert and the clearing of the key, is the    *)
(* same candle, unless its bucket is spoiled.                              *)
(***************************************************************************)
UnspoiledCandlesAreImmutable ==
    [][\A s \in Starts : pg[s] # None /\ s \notin spoiled' => pg'[s] = pg[s]]_vars
====
