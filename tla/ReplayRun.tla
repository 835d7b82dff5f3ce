---- MODULE ReplayRun ----
(***************************************************************************)
(* A replay of recorded ticks (tpp-replay): the write-ahead log in the     *)
(* order of arrival, the rows of Postgres in the order of time, or both    *)
(* merged, run through the aggregators, the greeks and a strategy whose    *)
(* signals pass the cooldown and are appended to the signals.jsonl of the  *)
(* run.  The run can be killed before every line it writes, and be started *)
(* again: the same inputs have the same run id and so the same directory.  *)
(*                                                                         *)
(* A candle keeps the prices of its ticks (its OHLC is a function of them, *)
(* and CandleEngine's business).  The strategy signals each candle and     *)
(* each set of greeks it is given, at their time, as a strategy that       *)
(* reads no clock does.                                                    *)
(***************************************************************************)
EXTENDS Integers, Sequences, FiniteSets, SequencesExt

CONSTANTS
    Widths,            \* the timeframes' bucket widths, in the order they are fed
    Times, Prices,     \* the exchange times and index prices recorded
    Strike, AtmRange,  \* the option's strike, and how far from the spot it is priced
    Cooldown,          \* strategy_cooldown_seconds
    Sources,           \* the values of --source tried
    MaxTicks, MaxRuns  \* bounds: ticks recorded, runs of the replay

ASSUME ReplayAssumption ==
    /\ Widths \in Seq(Nat \ {0})
    /\ Times \subseteq Nat /\ Prices \subseteq Nat
    /\ Strike \in Nat /\ AtmRange \in Nat /\ Cooldown \in Nat
    /\ Sources \subseteq {"wal", "pg", "merged"}
    /\ MaxTicks \in Nat /\ MaxRuns \in Nat

VARIABLES
    source, wal,      \* the --source, and the raw ticks in the log
    phase,            \* no run, the loop over the events, or the end of the run
    rest,             \* what each source has still to yield
    due,              \* the signals of the last event that are not handled yet
    agg, spot, last,  \* the aggregators, the spot, the cooldown's last signals
    lastTs,           \* the time of the last event read
    file,             \* signals.jsonl
    out,              \* history: what this run wrote
    eaten,            \* history: the index ticks this run took in
    built, priced,    \* history: the candles it built, the options it priced
    runs              \* history: what each run wrote, and whether it completed

inputs == <<source, wal>>
engine == <<agg, spot, last, lastTs>>
history == <<eaten, built, priced>>
replayVars == <<inputs, phase, rest, due, engine, file, out, history, runs>>

Timeframes == 1..Len(Widths)

IndexTick == [kind : {"index"}, ts : Times, price : Prices]

OptionTick == [kind : {"option"}, ts : Times]

Tick == IndexTick \cup OptionTick

NoBucket(tf) == [tf |-> tf, openTs |-> -1, ticks |-> <<>>]

\* bucket_for: the start of the bucket of an exchange time.
BucketFor(tf, ts) == (ts \div Widths[tf]) * Widths[tf]

CloseTs(c) == c.openTs + Widths[c.tf]

NoSpot == [ts |-> 0, price |-> 0]

Instruments == {"future", "option"}

\* The elements of a set in the order of a strict total order.
Sorted(S, Op(_, _)) ==
    [n \in 1..Cardinality(S) |-> CHOOSE e \in S : Cardinality({f \in S : Op(f, e)}) = n - 1]

Ascending(S) == Sorted(S, LAMBDA m, n : m < n)
----
(***************************************************************************)
(* What a bucket's candle is, from the ticks in the order they came: the   *)
(* index ticks of the bucket that none of a later bucket preceded.         *)
(***************************************************************************)
InTime(tf, start, ticks, n) ==
    /\ ticks[n].kind = "index" /\ BucketFor(tf, ticks[n].ts) = start
    /\ \A m \in 1..n - 1 : ticks[m].kind = "index" => BucketFor(tf, ticks[m].ts) <= start

CandleOf(tf, start, ticks) ==
    LET places == Ascending({n \in 1..Len(ticks) : InTime(tf, start, ticks, n)})
    IN  [tf |-> tf, openTs |-> start,
         ticks |-> [n \in 1..Len(places) |-> ticks[places[n]].price]]

CandlesOf(tf, ticks) ==
    {c \in {CandleOf(tf, BucketFor(tf, ticks[n].ts), ticks) : n \in 1..Len(ticks)} :
        c.ticks # <<>>}

\* The events of the three kinds.  seq breaks ties: the line in the log, the id of the row.
TickEvent(t, n) == [kind |-> t.kind, ts |-> t.ts, seq |-> n, tick |-> t]

CandleEvent(c, n) == [kind |-> "candle", ts |-> CloseTs(c), seq |-> n, candle |-> c]

KindRank == [candle |-> 1, index |-> 2, option |-> 3]

\* Mutant of Before: the place in the log outranks the time.
BeforeBySeq(e, f) ==
    \/ e.seq < f.seq
    \/ e.seq = f.seq /\ e.ts < f.ts
    \/ e.seq = f.seq /\ e.ts = f.ts /\ KindRank[e.kind] < KindRank[f.kind]

\* The sort key (ts, seq, kind).
Before(e, f) ==
    \/ e.ts < f.ts
    \/ e.ts = f.ts /\ e.seq < f.seq
    \/ e.ts = f.ts /\ e.seq = f.seq /\ KindRank[e.kind] < KindRank[f.kind]

\* WALEventSource: every tick, in the order of the log.
WalEvents == [n \in 1..Len(wal) |-> TickEvent(wal[n], n)]

(***************************************************************************)
(* PostgresEventSource: the rows of the two tick tables and of the candle  *)
(* table, ids in the order of insertion, sorted.  The tables hold what the *)
(* live system stores of these ticks when nothing fails.                   *)
(***************************************************************************)
RowId(n) == Cardinality({m \in 1..n : wal[m].kind = wal[n].kind})

Earlier(c, d) ==
    \/ CloseTs(c) < CloseTs(d)
    \/ CloseTs(c) = CloseTs(d) /\ c.tf < d.tf

PgEvents ==
    LET byId == Sorted(UNION {CandlesOf(tf, wal) : tf \in Timeframes}, Earlier)
        ticks == {TickEvent(wal[n], RowId(n)) : n \in 1..Len(wal)}
        candles == {CandleEvent(byId[n], n) : n \in 1..Len(byId)}
    IN  Sorted(ticks \cup candles, Before)

\* The streams that --source merges.
Streams ==
    CASE source = "wal" -> <<WalEvents>>
      [] source = "pg" -> <<PgEvents>>
      [] source = "merged" -> <<WalEvents, PgEvents>>

\* MergedEventSource, heapq.merge: the stream whose head comes first, the earlier on a tie.
Heads(s) ==
    /\ rest[s] # <<>>
    /\ \A r \in DOMAIN rest \ {s} :
          rest[r] # <<>> => \/ Before(Head(rest[s]), Head(rest[r]))
                            \/ s < r /\ ~Before(Head(rest[r]), Head(rest[s]))
----
\* CandleAggregator.ingest: the first tick of a bucket, one that rolls it over, a late one, one more.
Rolls(tf, t) == agg[tf].openTs >= 0 /\ BucketFor(tf, t.ts) > agg[tf].openTs

\* Mutant of Fed: a late tick is taken into the bucket in progress.
FedLateToo(tf, t) ==
    LET start == BucketFor(tf, t.ts)
    IN  IF start > agg[tf].openTs
        THEN [tf |-> tf, openTs |-> start, ticks |-> <<t.price>>]
        ELSE [agg[tf] EXCEPT !.ticks = Append(@, t.price)]

Fed(tf, t) ==
    LET start == BucketFor(tf, t.ts)
    IN  IF start > agg[tf].openTs
        THEN [tf |-> tf, openTs |-> start, ticks |-> <<t.price>>]
        ELSE [agg[tf] EXCEPT !.ticks = IF start = agg[tf].openTs THEN Append(@, t.price) ELSE @]

\* The buckets one event closes, in the order of the timeframes.
Closed(tfs) ==
    LET order == Ascending(tfs)
    IN  [n \in 1..Len(order) |-> agg[order[n]]]

ClosedByTick(t) == Closed({tf \in Timeframes : Rolls(tf, t)})

\* Mutant of EndsBy: the end of the run is judged by the time of the last event.
EndsByItsTime(tf) == agg[tf].openTs >= 0 /\ lastTs >= CloseTs(agg[tf])

\* maybe_close_stale(last_ts + bucket_ms), for each aggregator.
EndsBy(tf) == agg[tf].openTs >= 0 /\ lastTs + Widths[tf] >= CloseTs(agg[tf])

ClosedAtEnd == Closed({tf \in Timeframes : EndsBy(tf)})

\* An option tick is priced when a spot is known and its strike is near it.
Priced(t) ==
    /\ spot.price > 0
    /\ spot.price - Strike \in -AtmRange..AtmRange

\* The strategy's signals on a sequence of candles and on greeks.
OnCandles(cs) == [n \in 1..Len(cs) |-> [on |-> "future", ts |-> CloseTs(cs[n]), about |-> cs[n].ticks]]

OnGreeks(t) == <<[on |-> "option", ts |-> t.ts, about |-> <<spot.price>>]>>

\* should_suppress: the last signal on the instrument is less than the cooldown away.
Suppressed(l, s) == l[s.on] >= 0 /\ s.ts - l[s.on] < Cooldown

\* The strategy's signals on an event: on the candles it closes, on its greeks, on itself.
SignalsOn(e) ==
    CASE e.kind = "index" -> OnCandles(ClosedByTick(e.tick))
      [] e.kind = "option" -> IF Priced(e.tick) THEN OnGreeks(e.tick) ELSE <<>>
      [] e.kind = "candle" -> OnCandles(<<e.candle>>)
----
ReplayInit ==
    /\ source \in Sources
    /\ wal \in SeqOf(Tick, MaxTicks)
    /\ phase = "stopped"
    /\ rest = <<>> /\ due = <<>>
    /\ agg = [tf \in Timeframes |-> NoBucket(tf)]
    /\ spot = NoSpot /\ last = [i \in Instruments |-> -1] /\ lastTs = -1
    /\ file = <<>> /\ out = <<>>
    /\ eaten = <<>> /\ built = <<>> /\ priced = {}
    /\ runs = <<>>

\* Mutant of Fresh: the cooldown outlives the run.
FreshButCooldown ==
    /\ agg' = [tf \in Timeframes |-> NoBucket(tf)]
    /\ spot' = NoSpot /\ lastTs' = -1
    /\ last' = last

\* What a ReplayEngine has when it is built.
Fresh ==
    /\ agg' = [tf \in Timeframes |-> NoBucket(tf)]
    /\ spot' = NoSpot /\ lastTs' = -1
    /\ last' = [i \in Instruments |-> -1]

\* The command is run: the directory is the one of the run before, the file is opened to append.
StartReplay ==
    /\ phase = "stopped" /\ Len(runs) < MaxRuns
    /\ phase' = "loop"
    /\ rest' = Streams /\ due' = <<>>
    /\ Fresh
    /\ out' = <<>> /\ eaten' = <<>> /\ built' = <<>> /\ priced' = {}
    /\ UNCHANGED <<inputs, file, runs>>

\* The next event is the one at the head of stream s; the strategy is called back and raises signals.
Take(s, kind) ==
    /\ phase = "loop" /\ due = <<>>
    /\ Heads(s) /\ Head(rest[s]).kind = kind
    /\ rest' = [rest EXCEPT ![s] = Tail(@)]
    /\ lastTs' = Head(rest[s]).ts
    /\ due' = SignalsOn(Head(rest[s]))
    /\ UNCHANGED <<inputs, phase, last, file, out, runs>>

\* _on_index_tick: the spot, then every timeframe's aggregator, whose closed candles are dispatched.
OnIndexTick(s) ==
    /\ Take(s, "index")
    /\ LET t == Head(rest[s]).tick
       IN  /\ spot' = [ts |-> t.ts, price |-> t.price]
           /\ agg' = [tf \in Timeframes |-> Fed(tf, t)]
           /\ built' = built \o ClosedByTick(t)
           /\ eaten' = Append(eaten, t)
    /\ UNCHANGED priced

\* _on_option_tick: greeks from the spot the replay knows, if any.
OnOptionTick(s) ==
    /\ Take(s, "option")
    /\ LET t == Head(rest[s]).tick
       IN  priced' = IF Priced(t) THEN priced \cup {[ts |-> t.ts, spotTs |-> spot.ts]} ELSE priced
    /\ UNCHANGED <<agg, spot, eaten, built>>

\* _on_candle: a candle of the source is dispatched, whatever the aggregator does with its ticks.
OnCandle(s) ==
    /\ Take(s, "candle")
    /\ UNCHANGED <<agg, spot, history>>

\* _handle_signal: the cooldown drops the signal, or it is written and synced.
HandleSignal ==
    /\ phase # "stopped" /\ due # <<>>
    /\ due' = Tail(due)
    /\ LET s == Head(due)
       IN  IF Suppressed(last, s) THEN UNCHANGED <<last, file, out>>
           ELSE /\ last' = [last EXCEPT ![s.on] = s.ts]
                /\ file' = Append(file, s) /\ out' = Append(out, s)
    /\ UNCHANGED <<inputs, phase, rest, agg, spot, lastTs, history, runs>>

\* The sources are exhausted: the buckets in progress are closed and dispatched.
CloseBuckets ==
    /\ phase = "loop" /\ due = <<>>
    /\ \A s \in DOMAIN rest : rest[s] = <<>>
    /\ phase' = "end"
    /\ due' = OnCandles(ClosedAtEnd)
    /\ built' = built \o ClosedAtEnd
    /\ agg' = [tf \in Timeframes |-> IF EndsBy(tf) THEN NoBucket(tf) ELSE agg[tf]]
    /\ UNCHANGED <<inputs, rest, spot, last, lastTs, file, out, eaten, priced, runs>>

\* The run is over: what it wrote is on record, complete or not.
Over(done) ==
    /\ phase' = "stopped" /\ due' = <<>>
    /\ runs' = Append(runs, [wrote |-> out, done |-> done, file |-> file])
    /\ UNCHANGED <<inputs, rest, engine, file, out, history>>

\* The file is closed and the summary replaced.
Finish == phase = "end" /\ due = <<>> /\ Over(TRUE)

\* The process is killed between two signals; each line is fsynced.
KillRun == phase # "stopped" /\ Over(FALSE)

ReplayNext ==
    \/ StartReplay \/ HandleSignal \/ CloseBuckets \/ Finish \/ KillRun
    \/ \E s \in DOMAIN rest : OnIndexTick(s) \/ OnOptionTick(s) \/ OnCandle(s)

ReplaySpec == ReplayInit /\ [][ReplayNext]_replayVars
----
\* A bucket or its candle; an event carries the time of what it is about.
Bucket == [tf : Timeframes, openTs : Nat \cup {-1}, ticks : Seq(Prices)]

Event ==
    {e \in [kind : {"index"}, ts : Nat, seq : Nat, tick : IndexTick] : e.ts = e.tick.ts} \cup
    {e \in [kind : {"option"}, ts : Nat, seq : Nat, tick : OptionTick] : e.ts = e.tick.ts} \cup
    {e \in [kind : {"candle"}, ts : Nat, seq : Nat, candle : Bucket] : e.ts = CloseTs(e.candle)}

Signal == [on : Instruments, ts : Nat, about : Seq(Prices \cup {0})]

\* The values each variable takes; an aggregator has a bucket of its timeframe or none.
ReplayTypeOK ==
    /\ source \in Sources /\ wal \in Seq(Tick)
    /\ phase \in {"stopped", "loop", "end"}
    /\ rest \in Seq(Seq(Event)) /\ due \in Seq(Signal)
    /\ agg \in [Timeframes -> Bucket]
    /\ \A tf \in Timeframes : agg[tf].tf = tf /\ (agg[tf].openTs = -1 <=> agg[tf] = NoBucket(tf))
    /\ spot \in [ts : Nat, price : Prices \cup {0}] /\ last \in [Instruments -> Nat \cup {-1}]
    /\ lastTs \in Nat \cup {-1}
    /\ file \in Seq(Signal) /\ out \in Seq(Signal)
    /\ eaten \in Seq(IndexTick) /\ built \in Seq(Bucket) /\ priced \subseteq [ts : Nat, spotTs : Nat]
    /\ runs \in Seq([wrote : Seq(Signal), done : BOOLEAN, file : Seq(Signal)])

(***************************************************************************)
(* The candles a run builds are those of the ticks it has read: at any     *)
(* time it has dispatched, once and in the order of time, exactly the      *)
(* candles of the buckets before the one in progress, late ticks left out  *)
(* (engine.py _on_index_tick, candles.py ingest).                          *)
(***************************************************************************)
BuiltCandlesAreExact ==
    \A tf \in Timeframes :
        /\ {c \in ToSet(built) : c.tf = tf} =
              IF agg[tf] = NoBucket(tf) THEN CandlesOf(tf, eaten)
              ELSE {c \in CandlesOf(tf, eaten) : c.openTs < agg[tf].openTs}
        /\ \A m, n \in 1..Len(built) :
              (m < n /\ built[m].tf = tf /\ built[n].tf = tf) => built[m].openTs < built[n].openTs

(***************************************************************************)
(* A run that completes leaves a bucket undispatched only when its last    *)
(* event is older than the bucket: the end of run closes by the time of    *)
(* the last event, and the log is in the order of arrival                  *)
(* (engine.py run, maybe_close_stale).                                     *)
(***************************************************************************)
OnlyALateEndLeavesABucket ==
    (phase = "stopped" /\ runs # <<>> /\ Last(runs).done) =>
        \A tf \in Timeframes : agg[tf] # NoBucket(tf) => lastTs < agg[tf].openTs

(***************************************************************************)
(* When the ticks were recorded in the order of time, no option is priced  *)
(* with a spot of a later moment, whichever sources are merged             *)
(* (sources.py, the key of the merge).                                     *)
(***************************************************************************)
GreeksSeeNoFuture ==
    (\A n \in 2..Len(wal) : wal[n - 1].ts <= wal[n].ts) => \A p \in priced : p.spotTs <= p.ts

(***************************************************************************)
(* Two runs of the same inputs write the same: all that one has written,   *)
(* killed or not, is the beginning of what a completed one wrote           *)
(* (engine.py, the replay reads no clock and keeps no state between runs). *)
(***************************************************************************)
RunsAgree ==
    \A m, n \in 1..Len(runs) : runs[n].done => IsPrefix(runs[m].wrote, runs[n].wrote)

(***************************************************************************)
(* What README.md:411 says of a replay: the same inputs give the same      *)
(* run_id and a byte-identical signals.jsonl. Two completed runs leave the *)
(* same file behind.                                                       *)
(***************************************************************************)
SameInputsSameFile ==
    \A m, n \in 1..Len(runs) : runs[m].done /\ runs[n].done => runs[m].file = runs[n].file
====
