---- MODULE AlertNotifier ----
(***************************************************************************)
(* From the counters of a process to a message about it: every process has *)
(* a publisher that writes its own counters over one hash in Redis         *)
(* (metrics.py); the UI's process evaluates health from that hash and from *)
(* the time of the last index tick (ui/health.py); its notifier thread     *)
(* sends what is new to the sinks and remembers that in Redis              *)
(* (ui/notifier.py).  Redis may be away for a while, and the UI may be     *)
(* started again, between any two of its calls.                            *)
(***************************************************************************)
EXTENDS Integers, FiniteSets

CONSTANTS
    Rules,          \* the checks that are looked at
    Publishers,     \* the processes with a MetricsPublisher, "ingest" among them
    MinSeverity,    \* notify_min_severity: 1 "warn", 2 "crit"
    Dedup,          \* notify_dedup_seconds, in clock steps
    KeyLife,        \* ex of a last_fired key: at least twice Dedup
    MarkerLife,     \* ex of a resolved_sent key, an hour
    CritGaps, CritStale, MetricsStale,   \* thresholds of health.py
    MaxGaps, MaxFaults     \* bounds

\* "gaps" stands for every check of a published number against a threshold.
ASSUME NotifierAssumption ==
    /\ Rules \subseteq {"redis", "metrics", "gaps", "stale"}
    /\ "ingest" \in Publishers
    /\ MinSeverity \in {1, 2}
    /\ \A n \in {Dedup, CritGaps, CritStale, MetricsStale, MaxGaps, MaxFaults} : n \in Nat
    /\ KeyLife \in Nat /\ KeyLife > Dedup
    /\ MarkerLife \in Nat /\ MarkerLife >= KeyLife

\* Times are kept as ages, which stop growing where they stop to matter.
VARIABLES
    redisUp, faults,       \* Redis is there; outages and restarts so far
    alive, gaps,           \* the ingest process runs; its counter of gaps
    hash, metricsAge,      \* tpp:metrics (gaps) and the age of tpp:metrics:ts
    seenAge,               \* the age of tpp:last_seen of the index
    pc, tickAge, report, young, todo, cur,   \* AlertNotifier.tick
    fired,                 \* last_fired per rule: its age and the life it has left
    marker,                \* resolved_sent per rule: the life it has left
    lastSent, sentAge,     \* history: the last message about a rule, its age
    unrecorded             \* history: the rules whose last message was not recorded

redis == <<redisUp, faults>>
probes == <<alive, gaps, hash, metricsAge, seenAge>>
tick == <<pc, tickAge, report, young, todo, cur>>
keys == <<fired, marker>>
history == <<lastSent, sentAge, unrecorded>>
vars == <<redis, probes, tick, keys, history>>

Absent == -1

NoKey == [age |-> 0, left |-> 0]

Held(r) == fired[r].left > 0

Init ==
    /\ redisUp = TRUE /\ faults = 0
    /\ alive = TRUE /\ gaps = 0
    /\ hash = 0 /\ metricsAge = Absent /\ seenAge = Absent
    /\ pc = "idle" /\ tickAge = 0 /\ cur = "none"
    /\ report = {} /\ young = {} /\ todo = {}
    /\ fired = [r \in Rules |-> NoKey] /\ marker = [r \in Rules |-> 0]
    /\ lastSent = [r \in Rules |-> "none"] /\ sentAge = [r \in Rules |-> 0]
    /\ unrecorded = {}

-----------------------------------------------------------------------------
(* The processes that are watched, and Redis.                              *)

Older(age, limit) == IF age = Absent \/ age > limit THEN age ELSE age + 1

\* A key in Redis ages, and is dropped when its life is over.
Aged(key) ==
    IF key.left <= 1 THEN NoKey
    ELSE [age |-> Older(key.age, Dedup), left |-> key.left - 1]

Clock ==
    /\ metricsAge' = Older(metricsAge, MetricsStale)
    /\ seenAge' = Older(seenAge, CritStale)
    /\ tickAge' = IF pc = "idle" THEN 0 ELSE Older(tickAge, Dedup)
    /\ fired' = [r \in Rules |-> Aged(fired[r])]
    /\ marker' = [r \in Rules |-> IF marker[r] = 0 THEN 0 ELSE marker[r] - 1]
    /\ sentAge' = [r \in Rules |-> Older(sentAge[r], Dedup)]
    /\ UNCHANGED <<redis, alive, gaps, hash, pc, report, young, todo, cur,
                   lastSent, unrecorded>>

RedisDies ==
    /\ redisUp /\ faults < MaxFaults
    /\ redisUp' = FALSE /\ faults' = faults + 1
    /\ UNCHANGED <<probes, tick, keys, history>>

RedisReturns ==
    /\ ~redisUp
    /\ redisUp' = TRUE
    /\ UNCHANGED <<faults, probes, tick, keys, history>>

\* set_index_tick stamps last_seen.
IndexTick ==
    /\ alive /\ redisUp
    /\ seenAge' = 0
    /\ UNCHANGED <<redis, alive, gaps, hash, metricsAge, tick, keys, history>>

\* GapDetector counts a gap.
Gap ==
    /\ alive /\ gaps < MaxGaps
    /\ gaps' = gaps + 1
    /\ UNCHANGED <<redis, alive, hash, metricsAge, seenAge, tick, keys, history>>

\* The feed process dies for good.
IngestDies ==
    /\ alive
    /\ alive' = FALSE
    /\ UNCHANGED <<redis, gaps, hash, metricsAge, seenAge, tick, keys, history>>

\* MetricsPublisher._publish_once: all counters of this process; only the one of
\* ingest ever counts a gap.
Publish(p) ==
    /\ redisUp /\ (p = "ingest" => alive)
    /\ hash' = IF p = "ingest" THEN gaps ELSE 0
    /\ metricsAge' = 0
    /\ UNCHANGED <<redis, alive, gaps, seenAge, tick, keys, history>>

-----------------------------------------------------------------------------
(* evaluate_health.                                                        *)

\* Mutant: the feed counts as fresh while metrics are.
IndexStaleByMetrics == redisUp /\ seenAge # Absent /\ metricsAge >= CritStale

\* _index_staleness in market hours: an index without any tick is idle.
IndexStale == redisUp /\ seenAge >= CritStale

\* _threshold_check, which has no data while Redis is away.
OverThreshold == redisUp /\ metricsAge # Absent /\ hash >= CritGaps

\* _check_metrics_freshness, a warning.
MetricsOld == ~redisUp \/ metricsAge = Absent \/ metricsAge > MetricsStale

\* The alerts of the report that are severe enough.
Eligible ==
    {r \in Rules :
        \/ r = "redis" /\ ~redisUp
        \/ r = "metrics" /\ MinSeverity = 1 /\ MetricsOld
        \/ r = "gaps" /\ OverThreshold
        \/ r = "stale" /\ IndexStale}

-----------------------------------------------------------------------------
(* AlertNotifier.tick, one call to a sink or to Redis at a time.           *)

\* Mutant: the cooldown is over one step early.
YoungShort == {r \in Rules : Held(r) /\ fired[r].age < Dedup}

\* The rules that fired less than the cooldown before the time of this round.
Young == {r \in Rules : Held(r) /\ fired[r].age <= Dedup}

Begin ==
    /\ pc = "idle"
    /\ pc' = "fire" /\ tickAge' = 0
    /\ report' = Eligible /\ todo' = Eligible /\ young' = Young
    /\ UNCHANGED <<redis, probes, keys, history, cur>>

\* A key that is gone by the time its rule is handled cools nothing.
Cooling(r) == Held(r) /\ r \in young

\* A rule that fired lately is passed over.
Skip(r) ==
    /\ pc = "fire" /\ r \in todo /\ redisUp /\ Cooling(r)
    /\ todo' = todo \ {r}
    /\ UNCHANGED <<redis, probes, keys, history, pc, tickAge, young, report, cur>>

\* The sinks get the alert; whether one of them takes it changes nothing below.
Fire(r) ==
    /\ pc = "fire" /\ r \in todo /\ redisUp /\ ~Cooling(r)
    /\ pc' = "mark" /\ cur' = r
    /\ lastSent' = [lastSent EXCEPT ![r] = "fired"]
    /\ sentAge' = [sentAge EXCEPT ![r] = tickAge]
    /\ UNCHANGED <<redis, probes, keys, unrecorded, tickAge, young, report, todo>>

Mark ==
    /\ pc = "mark" /\ redisUp
    /\ fired' = [fired EXCEPT ![cur] = [age |-> tickAge, left |-> KeyLife]]
    /\ pc' = "unmark"
    /\ unrecorded' = unrecorded \ {cur}
    /\ UNCHANGED <<redis, probes, marker, lastSent, sentAge, tickAge, young,
                   report, todo, cur>>

Unmark ==
    /\ pc = "unmark" /\ redisUp
    /\ marker' = [marker EXCEPT ![cur] = 0]
    /\ pc' = "fire" /\ todo' = todo \ {cur} /\ cur' = "none"
    /\ UNCHANGED <<redis, probes, fired, history, tickAge, young, report>>

Fired ==
    /\ pc = "fire" /\ todo = {}
    /\ pc' = "resolve"
    /\ UNCHANGED <<redis, probes, keys, history, tickAge, young, report, todo, cur>>

\* Mutant: the marker of an earlier resolution is not looked at.
ClearedAgain(r) == Held(r) /\ r \notin report

\* _emit_resolutions: a fired rule that is no longer reported and has no marker.
Cleared(r) == Held(r) /\ r \notin report /\ marker[r] = 0

Resolve(r) ==
    /\ pc = "resolve" /\ redisUp /\ Cleared(r)
    /\ pc' = "remark" /\ cur' = r
    /\ lastSent' = [lastSent EXCEPT ![r] = "resolved"]
    /\ UNCHANGED <<redis, probes, keys, sentAge, unrecorded, tickAge, young, report, todo>>

Remark ==
    /\ pc = "remark" /\ redisUp
    /\ marker' = [marker EXCEPT ![cur] = MarkerLife]
    /\ pc' = "forget"
    /\ unrecorded' = unrecorded \ {cur}
    /\ UNCHANGED <<redis, probes, fired, lastSent, sentAge, tickAge, young,
                   report, todo, cur>>

Forget ==
    /\ pc = "forget" /\ redisUp
    /\ fired' = [fired EXCEPT ![cur] = NoKey]
    /\ pc' = "resolve" /\ cur' = "none"
    /\ UNCHANGED <<redis, probes, marker, history, tickAge, young, report, todo>>

Stop ==
    /\ pc' = "idle" /\ cur' = "none" /\ tickAge' = 0
    /\ report' = {} /\ young' = {} /\ todo' = {}
    /\ UNCHANGED <<probes, keys, lastSent, sentAge>>

End ==
    /\ pc = "resolve" /\ redisUp /\ \A r \in Rules : ~Cleared(r)
    /\ Stop
    /\ UNCHANGED <<redis, unrecorded>>

Unrecorded == unrecorded' = IF pc \in {"mark", "remark"} THEN unrecorded \cup {cur} ELSE unrecorded

\* A call to Redis raises: _loop logs that and waits for the next round.
Raise ==
    /\ pc # "idle" /\ ~redisUp /\ ~(pc = "fire" /\ todo = {})
    /\ Stop /\ Unrecorded
    /\ UNCHANGED redis

\* The UI's process ends in the middle of a round and is started again.
Restart ==
    /\ pc # "idle" /\ faults < MaxFaults
    /\ faults' = faults + 1 /\ UNCHANGED redisUp
    /\ Stop /\ Unrecorded

Notify ==
    \/ Begin \/ Mark \/ Unmark \/ Fired \/ Remark \/ Forget \/ End \/ Raise
    \/ \E r \in Rules : Skip(r) \/ Fire(r) \/ Resolve(r)

Next ==
    \/ Clock \/ RedisDies \/ RedisReturns
    \/ IndexTick \/ Gap \/ IngestDies
    \/ \E p \in Publishers : Publish(p)
    \/ Notify \/ Restart

\* Time passes and the notifier's rounds go on.  Nothing else is promised.
Spec == Init /\ [][Next]_vars /\ WF_vars(Clock) /\ WF_vars(Notify)

-----------------------------------------------------------------------------

Age(limit) == Absent..limit + 1

TypeOK ==
    /\ redisUp \in BOOLEAN /\ faults \in 0..MaxFaults
    /\ alive \in BOOLEAN /\ gaps \in 0..MaxGaps /\ hash \in 0..MaxGaps
    /\ metricsAge \in Age(MetricsStale) /\ seenAge \in Age(CritStale)
    /\ pc \in {"idle", "fire", "mark", "unmark", "resolve", "remark", "forget"}
    /\ tickAge \in 0..Dedup + 1 /\ report \subseteq Rules /\ todo \subseteq report
    /\ young \subseteq Rules /\ cur \in Rules \cup {"none"}
    /\ fired \in [Rules -> [age : 0..Dedup + 1, left : 0..KeyLife]]
    /\ marker \in [Rules -> 0..MarkerLife]
    /\ lastSent \in [Rules -> {"none", "fired", "resolved"}]
    /\ sentAge \in [Rules -> 0..Dedup + 1]
    /\ unrecorded \subseteq Rules

\* "An alert re-fires only after its cooldown" (README, notifier.py:3-5): a rule is
\* not sent twice within the cooldown unless its resolution was sent in between, or
\* Redis or the process went away before the first message was recorded.
RefireIsCooled ==
    [][\A r \in Rules :
         Fire(r) => \/ lastSent[r] # "fired"
                    \/ sentAge[r] > Dedup
                    \/ r \in unrecorded]_vars

\* The resolution is one-shot (notifier.py:6-7): it follows an alert, and is sent
\* once, even if the process dies between the marker and the forgotten key.
ResolvedOnce ==
    [][\A r \in Rules :
         Resolve(r) => lastSent[r] = "fired" \/ r \in unrecorded]_vars

\* A feed process that dies in market hours is announced in the end, although the
\* other publishers keep the metrics fresh, provided that it had seen a tick and
\* that Redis is back.
IngestDeathIsAnnounced ==
    <>[](~alive /\ seenAge # Absent /\ redisUp) => <>[](lastSent["stale"] = "fired")

\* README, "dispatches active alerts >= NOTIFY_MIN_SEVERITY to all configured sinks":
\* an outage of Redis that lasts is announced.
OutageIsAnnounced == <>[](~redisUp) => <>(lastSent["redis"] = "fired")

====
