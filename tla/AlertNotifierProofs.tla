---- MODULE AlertNotifierProofs ----
(***************************************************************************)
(* Theorems about AlertNotifier, for every set of rules and publishers,    *)
(* every cooldown, key life, threshold and bound.                          *)
(***************************************************************************)
EXTENDS AlertNotifier, TLAPS

\* What the notifier is about to record, and that it was sent.
PlaceOK ==
    /\ pc \in {"mark", "unmark", "remark", "forget"} => cur \in Rules
    /\ pc \in {"idle", "fire", "resolve"} => cur = "none"
    /\ pc \in {"mark", "unmark"} => lastSent[cur] = "fired"
    /\ pc = "mark" => sentAge[cur] = tickAge
    /\ pc \in {"remark", "forget"} => lastSent[cur] = "resolved"

\* An alert that was sent about a rule, and whose key was written.
Sent(r) ==
    lastSent[r] = "fired" /\ r \notin unrecorded /\ ~(pc = "mark" /\ cur = r)

\* A key lives at least until the cooldown of its alert is over.
KeyOutlivesCooldown(r) ==
    Held(r) => \/ fired[r].age > Dedup
               \/ fired[r].age + fired[r].left >= KeyLife

\* The key of an alert within its cooldown is there, and says when it was sent.
KeyIsExact(r) ==
    Sent(r) /\ sentAge[r] <= Dedup => Held(r) /\ fired[r].age = sentAge[r]

\* A rule the round has still to handle and that is within its cooldown was found so.
YoungIsKnown(r) ==
    (/\ pc \in {"fire", "mark", "unmark"} /\ r \in todo /\ r # cur
     /\ Sent(r) /\ sentAge[r] <= Dedup) => r \in young

\* A resolution that was sent and recorded keeps its marker as long as the key is there.
MarkerOutlivesKey(r) ==
    (/\ Held(r) /\ lastSent[r] = "resolved" /\ r \notin unrecorded
     /\ ~(pc = "remark" /\ cur = r)) => marker[r] >= fired[r].left

RuleOK(r) ==
    /\ KeyOutlivesCooldown(r) /\ KeyIsExact(r) /\ YoungIsKnown(r) /\ MarkerOutlivesKey(r)
    /\ Held(r) => lastSent[r] # "none"

IInv == TypeOK /\ PlaceOK /\ \A r \in Rules : RuleOK(r)
----
\* The constants are numbers, and a key lives longer than the cooldown.
LEMMA Constants ==
    /\ Dedup \in Nat /\ CritGaps \in Nat /\ CritStale \in Nat /\ MetricsStale \in Nat
    /\ MaxGaps \in Nat /\ MaxFaults \in Nat /\ KeyLife \in Nat /\ KeyLife > Dedup
    /\ MarkerLife \in Nat /\ MarkerLife >= KeyLife
BY NotifierAssumption

\* "none" is no rule.
LEMMA NoneIsNoRule == "none" \notin Rules
BY NotifierAssumption

USE Constants

\* An age that may stop growing stays in its range.
LEMMA OlderStays ==
    ASSUME NEW limit \in Nat, NEW age \in Age(limit)
    PROVE  /\ Older(age, limit) \in Age(limit)
           /\ age >= 0 => Older(age, limit) \in 0..limit + 1
BY DEF Older, Age, Absent

\* Nothing was sent yet.
LEMMA InitIInv == Init => IInv
<1> SUFFICES ASSUME Init PROVE IInv
    OBVIOUS
<1>1. TypeOK
    <2>1. NoKey \in [age : 0..Dedup + 1, left : 0..KeyLife]
        BY DEF NoKey
    <2>2. fired \in [Rules -> [age : 0..Dedup + 1, left : 0..KeyLife]]
        BY <2>1 DEF Init
    <2>3. metricsAge \in Age(MetricsStale) /\ seenAge \in Age(CritStale)
        BY DEF Init, Age, Absent
    <2>4. QED
        BY <2>2, <2>3 DEF Init, TypeOK
<1>2. PlaceOK
    BY DEF Init, PlaceOK
<1>3. ASSUME NEW r \in Rules PROVE RuleOK(r)
    BY <1>3 DEF Init, RuleOK, KeyOutlivesCooldown, KeyIsExact, YoungIsKnown, MarkerOutlivesKey,
                Held, Sent, NoKey
<1>4. QED
    BY <1>1, <1>2, <1>3 DEF IInv
----
\* A key that ages is a key.
LEMMA AgedStays ==
    ASSUME NEW key \in [age : 0..Dedup + 1, left : 0..KeyLife]
    PROVE  /\ Aged(key) \in [age : 0..Dedup + 1, left : 0..KeyLife]
           /\ key.left <= 1 => Aged(key).left = 0
           /\ key.left > 1 => /\ Aged(key).left = key.left - 1
                              /\ Aged(key).age = Older(key.age, Dedup)
BY DEF Aged, NoKey, Older, Absent

\* Time passes.
LEMMA ClockKeeps == IInv /\ Clock => IInv'
<1> SUFFICES ASSUME IInv, Clock PROVE IInv'
    OBVIOUS
<1>1. TypeOK'
    <2>1. metricsAge' \in Age(MetricsStale) /\ seenAge' \in Age(CritStale)
        BY OlderStays DEF IInv, TypeOK, Clock
    <2>2. tickAge' \in 0..Dedup + 1
        BY DEF IInv, TypeOK, Clock, Older, Absent
    <2>3. sentAge' \in [Rules -> 0..Dedup + 1]
        BY DEF IInv, TypeOK, Clock, Older, Absent
    <2>4. fired' \in [Rules -> [age : 0..Dedup + 1, left : 0..KeyLife]]
        BY AgedStays DEF IInv, TypeOK, Clock
    <2>5. marker' \in [Rules -> 0..MarkerLife]
        <3>1. marker \in [Rules -> 0..MarkerLife]
            BY DEF IInv, TypeOK
        <3>2. marker' = [r \in Rules |-> IF marker[r] = 0 THEN 0 ELSE marker[r] - 1]
            BY DEF Clock
        <3>3. \A r \in Rules : marker[r] \in 0..MarkerLife
            BY <3>1
        <3>4. QED
            BY <3>2, <3>3
    <2>6. QED
        BY <2>1, <2>2, <2>3, <2>4, <2>5 DEF IInv, TypeOK, Clock, redis
<1>2. PlaceOK'
    <2>1. ASSUME pc = "mark" PROVE sentAge'[cur] = tickAge'
        BY <2>1 DEF IInv, PlaceOK, TypeOK, Clock
    <2>2. QED
        BY <2>1 DEF IInv, PlaceOK, Clock
<1>3. ASSUME NEW r \in Rules PROVE RuleOK(r)'
    <2>1. fired[r] \in [age : 0..Dedup + 1, left : 0..KeyLife] /\ sentAge[r] \in 0..Dedup + 1
          /\ marker[r] \in Nat
        BY DEF IInv, TypeOK
    <2>2. /\ fired'[r].age \in Int /\ fired'[r].left \in Nat
          /\ fired[r].left <= 1 => fired'[r].left = 0
          /\ fired[r].left > 1 => /\ fired'[r].left = fired[r].left - 1
                                  /\ fired'[r].age = Older(fired[r].age, Dedup)
        <3>1. fired'[r] = Aged(fired[r])
            BY DEF Clock
        <3>2. Aged(fired[r]).age \in Int /\ Aged(fired[r]).left \in Nat
            BY <2>1, AgedStays
        <3>3. QED
            BY <2>1, <3>1, <3>2, AgedStays
    <2>3. sentAge'[r] = Older(sentAge[r], Dedup) /\ marker'[r] = IF marker[r] = 0 THEN 0 ELSE marker[r] - 1
        BY DEF Clock
    <2>4. RuleOK(r) /\ Sent(r)' = Sent(r) /\ Held(r)' = (fired'[r].left > 0)
        BY DEF IInv, Clock, Sent, Held
    <2>5. KeyOutlivesCooldown(r)'
        BY <2>1, <2>2, <2>4 DEF RuleOK, KeyOutlivesCooldown, Held, Older, Absent
    <2>6. KeyIsExact(r)'
        BY <2>1, <2>2, <2>3, <2>4 DEF RuleOK, KeyOutlivesCooldown, KeyIsExact, Held, Older, Absent
    <2>7. sentAge'[r] <= Dedup => sentAge[r] <= Dedup
        BY <2>1, <2>3 DEF Older, Absent
    <2>8. YoungIsKnown(r)'
        BY <2>4, <2>7 DEF RuleOK, YoungIsKnown, Clock
    <2>9. MarkerOutlivesKey(r)'
        BY <2>1, <2>2, <2>3, <2>4 DEF RuleOK, MarkerOutlivesKey, Held, Clock
    <2>10. QED
        BY <2>1, <2>2, <2>4, <2>5, <2>6, <2>8, <2>9 DEF RuleOK, Held, Clock
<1>4. QED
    BY <1>1, <1>2, <1>3 DEF IInv

\* Redis, the feed process and the publishers do not touch what the notifier knows.
LEMMA ProbesKeep ==
    IInv /\ (\/ RedisDies \/ RedisReturns \/ IndexTick \/ Gap \/ IngestDies
             \/ \E p \in Publishers : Publish(p)) => IInv'
<1> SUFFICES ASSUME IInv,
                    \/ RedisDies \/ RedisReturns \/ IndexTick \/ Gap \/ IngestDies
                    \/ \E p \in Publishers : Publish(p)
             PROVE  IInv'
    OBVIOUS
<1>1. UNCHANGED <<tick, keys, history>>
    BY DEF RedisDies, RedisReturns, IndexTick, Gap, IngestDies, Publish
<1>2. /\ redisUp' \in BOOLEAN /\ alive' \in BOOLEAN
      /\ faults' \in 0..MaxFaults /\ gaps' \in 0..MaxGaps /\ hash' \in 0..MaxGaps
      /\ metricsAge' \in Age(MetricsStale) /\ seenAge' \in Age(CritStale)
    <2>1. /\ redisUp \in BOOLEAN /\ alive \in BOOLEAN
          /\ faults \in 0..MaxFaults /\ gaps \in 0..MaxGaps /\ hash \in 0..MaxGaps
          /\ metricsAge \in Age(MetricsStale) /\ seenAge \in Age(CritStale)
          /\ 0 \in Age(MetricsStale) /\ 0 \in Age(CritStale)
        BY DEF IInv, TypeOK, Age, Absent
    <2>2. CASE RedisDies \/ RedisReturns
        <3>1. faults' \in 0..MaxFaults
            BY <2>1, <2>2 DEF RedisDies, RedisReturns
        <3>2. redisUp' \in BOOLEAN /\ UNCHANGED probes
            BY <2>2 DEF RedisDies, RedisReturns
        <3>3. QED
            BY <2>1, <3>1, <3>2 DEF probes
    <2>3. CASE IndexTick \/ IngestDies
        BY <2>1, <2>3 DEF IndexTick, IngestDies, redis
    <2>4. CASE Gap
        <3>1. gaps < MaxGaps /\ gaps' = gaps + 1
            BY <2>4 DEF Gap
        <3>2. QED
            BY <2>1, <2>4, <3>1 DEF Gap, redis
    <2>5. CASE \E p \in Publishers : Publish(p)
        <3>1. PICK p \in Publishers : Publish(p)
            BY <2>5
        <3>2. QED
            BY <2>1, <3>1 DEF Publish, redis
    <2>6. QED
        BY <2>2, <2>3, <2>4, <2>5
<1>3. TypeOK'
    BY <1>1, <1>2 DEF IInv, TypeOK, tick, keys, history
<1>4. PlaceOK'
    BY <1>1 DEF IInv, PlaceOK, tick, keys, history
<1>5. ASSUME NEW r \in Rules PROVE RuleOK(r)'
    BY <1>1 DEF IInv, RuleOK, KeyOutlivesCooldown, KeyIsExact, YoungIsKnown, MarkerOutlivesKey,
                Held, Sent, tick, keys, history
<1>6. QED
    BY <1>3, <1>4, <1>5 DEF IInv
----
\* A round begins with what is reported and what is young.
LEMMA BeginKeeps == IInv /\ Begin => IInv'
<1> SUFFICES ASSUME IInv, Begin PROVE IInv'
    OBVIOUS
<1>1. report' \subseteq Rules /\ todo' = report' /\ young' \subseteq Rules
    BY DEF Begin, Eligible, Young
<1>2. TypeOK'
    BY <1>1 DEF IInv, TypeOK, Begin, redis, probes, keys, history
<1>3. PlaceOK'
    BY DEF IInv, PlaceOK, Begin, history
<1>4. ASSUME NEW r \in Rules PROVE RuleOK(r)'
    <2>1. RuleOK(r) /\ Sent(r)' = Sent(r) /\ Held(r)' = Held(r)
        BY DEF IInv, Begin, Sent, Held, keys, history
    <2>2. YoungIsKnown(r)'
        BY <2>1 DEF RuleOK, KeyIsExact, YoungIsKnown, Begin, Young, history
    <2>3. QED
        BY <2>1, <2>2 DEF RuleOK, KeyOutlivesCooldown, KeyIsExact, MarkerOutlivesKey, Begin,
                          keys, history
<1>5. QED
    BY <1>2, <1>3, <1>4 DEF IInv

\* A rule within its cooldown is passed over.
LEMMA SkipKeeps == ASSUME IInv, NEW r \in Rules, Skip(r) PROVE IInv'
<1>1. TypeOK' /\ PlaceOK'
    BY DEF IInv, TypeOK, PlaceOK, Skip, redis, probes, keys, history
<1>2. ASSUME NEW s \in Rules PROVE RuleOK(s)'
    BY DEF IInv, RuleOK, KeyOutlivesCooldown, KeyIsExact, YoungIsKnown, MarkerOutlivesKey,
           Held, Sent, Skip, keys, history
<1>3. QED
    BY <1>1, <1>2 DEF IInv

\* An alert goes out.
LEMMA FireKeeps == ASSUME IInv, NEW r \in Rules, Fire(r) PROVE IInv'
<1>1. TypeOK'
    BY DEF IInv, TypeOK, Fire, redis, probes, keys
<1>2. lastSent'[r] = "fired" /\ sentAge'[r] = tickAge
    BY DEF IInv, TypeOK, Fire
<1>3. PlaceOK'
    BY <1>2 DEF PlaceOK, Fire
<1>4. ASSUME NEW s \in Rules PROVE RuleOK(s)'
    <2>1. CASE s = r
        BY <1>2, <2>1 DEF IInv, RuleOK, KeyOutlivesCooldown, KeyIsExact, YoungIsKnown,
                          MarkerOutlivesKey, Held, Sent, Fire, keys
    <2>2. CASE s # r
        <3>1. lastSent'[s] = lastSent[s] /\ sentAge'[s] = sentAge[s]
            BY <2>2 DEF IInv, TypeOK, Fire
        <3>2. s # cur /\ s # cur'
            BY <2>2, NoneIsNoRule DEF IInv, PlaceOK, Fire
        <3>3. QED
            BY <3>1, <3>2 DEF IInv, RuleOK, KeyOutlivesCooldown, KeyIsExact, YoungIsKnown,
                              MarkerOutlivesKey, Held, Sent, Fire, keys
    <2>3. QED
        BY <2>1, <2>2
<1>5. QED
    BY <1>1, <1>3, <1>4 DEF IInv

\* The key of the alert is written.
LEMMA MarkKeeps == IInv /\ Mark => IInv'
<1> SUFFICES ASSUME IInv, Mark PROVE IInv'
    OBVIOUS
<1>1. cur \in Rules /\ lastSent[cur] = "fired" /\ sentAge[cur] = tickAge
    BY DEF IInv, PlaceOK, Mark
<1>2. TypeOK'
    <2>1. [age |-> tickAge, left |-> KeyLife] \in [age : 0..Dedup + 1, left : 0..KeyLife]
        BY DEF IInv, TypeOK
    <2>2. fired' \in [Rules -> [age : 0..Dedup + 1, left : 0..KeyLife]]
        BY <2>1 DEF IInv, TypeOK, Mark
    <2>3. QED
        BY <2>2 DEF IInv, TypeOK, Mark, redis, probes
<1>3. PlaceOK'
    BY <1>1 DEF PlaceOK, Mark
<1>4. ASSUME NEW s \in Rules PROVE RuleOK(s)'
    <2>1. CASE s = cur
        <3>1. fired'[s].age = tickAge /\ fired'[s].left = KeyLife /\ tickAge \in Nat
            BY <2>1 DEF IInv, TypeOK, Mark
        <3>2. QED
            BY <1>1, <2>1, <3>1 DEF RuleOK, KeyOutlivesCooldown, KeyIsExact, YoungIsKnown,
                                    MarkerOutlivesKey, Held, Sent, Mark
    <2>2. CASE s # cur
        <3>1. fired'[s] = fired[s] /\ (s \in unrecorded' <=> s \in unrecorded)
            BY <2>2 DEF IInv, TypeOK, Mark
        <3>2. QED
            BY <2>2, <3>1 DEF IInv, RuleOK, KeyOutlivesCooldown, KeyIsExact, YoungIsKnown,
                              MarkerOutlivesKey, Held, Sent, Mark
    <2>3. QED
        BY <2>1, <2>2
<1>5. QED
    BY <1>2, <1>3, <1>4 DEF IInv

\* The marker of an earlier resolution is removed.
LEMMA UnmarkKeeps == IInv /\ Unmark => IInv'
<1> SUFFICES ASSUME IInv, Unmark PROVE IInv'
    OBVIOUS
<1>1. cur \in Rules /\ lastSent[cur] = "fired"
    BY DEF IInv, PlaceOK, Unmark
<1>2. TypeOK'
    <2>1. 0 \in 0..MarkerLife /\ marker \in [Rules -> 0..MarkerLife]
        BY DEF IInv, TypeOK
    <2>2. marker' \in [Rules -> 0..MarkerLife]
        BY <2>1 DEF Unmark
    <2>3. QED
        BY <2>2 DEF IInv, TypeOK, Unmark, redis, probes, history
<1>3. PlaceOK'
    BY DEF PlaceOK, Unmark
<1>4. ASSUME NEW s \in Rules PROVE RuleOK(s)'
    <2>1. RuleOK(s) /\ Sent(s)' = Sent(s) /\ Held(s)' = Held(s)
        BY DEF IInv, Unmark, Sent, Held, history
    <2>2. YoungIsKnown(s)'
        BY <2>1, <1>1 DEF RuleOK, YoungIsKnown, Unmark, history
    <2>3. MarkerOutlivesKey(s)'
        <3>1. s # cur => marker'[s] = marker[s]
            BY DEF IInv, TypeOK, Unmark
        <3>2. QED
            BY <1>1, <2>1, <3>1 DEF RuleOK, MarkerOutlivesKey, Unmark, history
    <2>4. QED
        BY <2>1, <2>2, <2>3 DEF RuleOK, KeyOutlivesCooldown, KeyIsExact, Unmark, history
<1>5. QED
    BY <1>2, <1>3, <1>4 DEF IInv

\* The alerts are handled.
LEMMA FiredKeeps == IInv /\ Fired => IInv'
<1> SUFFICES ASSUME IInv, Fired PROVE IInv'
    OBVIOUS
<1>1. TypeOK' /\ PlaceOK'
    BY DEF IInv, TypeOK, PlaceOK, Fired, redis, probes, keys, history
<1>2. ASSUME NEW s \in Rules PROVE RuleOK(s)'
    BY DEF IInv, RuleOK, KeyOutlivesCooldown, KeyIsExact, YoungIsKnown, MarkerOutlivesKey,
           Held, Sent, Fired, keys, history
<1>3. QED
    BY <1>1, <1>2 DEF IInv
----
\* A resolution goes out.
LEMMA ResolveKeeps == ASSUME IInv, NEW r \in Rules, Resolve(r) PROVE IInv'
<1>1. TypeOK'
    BY DEF IInv, TypeOK, Resolve, redis, probes, keys
<1>2. lastSent'[r] = "resolved" /\ \A s \in Rules \ {r} : lastSent'[s] = lastSent[s]
    BY DEF IInv, TypeOK, Resolve
<1>3. PlaceOK'
    BY <1>2 DEF PlaceOK, Resolve
<1>4. ASSUME NEW s \in Rules PROVE RuleOK(s)'
    BY <1>2, NoneIsNoRule DEF IInv, PlaceOK, RuleOK, KeyOutlivesCooldown, KeyIsExact, YoungIsKnown,
                              MarkerOutlivesKey, Held, Sent, Resolve, keys
<1>5. QED
    BY <1>1, <1>3, <1>4 DEF IInv

\* The marker of the resolution is written: it outlives any key.
LEMMA RemarkKeeps == IInv /\ Remark => IInv'
<1> SUFFICES ASSUME IInv, Remark PROVE IInv'
    OBVIOUS
<1>1. cur \in Rules /\ lastSent[cur] = "resolved"
    BY DEF IInv, PlaceOK, Remark
<1>2. TypeOK'
    <2>1. marker' \in [Rules -> 0..MarkerLife] /\ unrecorded' \subseteq Rules
        <3>1. MarkerLife \in 0..MarkerLife /\ marker \in [Rules -> 0..MarkerLife]
              /\ unrecorded \subseteq Rules
            BY DEF IInv, TypeOK
        <3>2. QED
            BY <3>1 DEF Remark
    <2>2. QED
        BY <2>1 DEF IInv, TypeOK, Remark, redis, probes
<1>3. PlaceOK'
    BY <1>1 DEF PlaceOK, Remark
<1>4. ASSUME NEW s \in Rules PROVE RuleOK(s)'
    <2>1. fired[s].left \in 0..KeyLife /\ marker'[s] = (IF s = cur THEN MarkerLife ELSE marker[s])
          /\ (s # cur => (s \in unrecorded' <=> s \in unrecorded))
        BY DEF IInv, TypeOK, Remark
    <2>2. QED
        BY <1>1, <2>1 DEF IInv, RuleOK, KeyOutlivesCooldown, KeyIsExact, YoungIsKnown,
                          MarkerOutlivesKey, Held, Sent, Remark
<1>5. QED
    BY <1>2, <1>3, <1>4 DEF IInv

\* The key is forgotten.
LEMMA ForgetKeeps == IInv /\ Forget => IInv'
<1> SUFFICES ASSUME IInv, Forget PROVE IInv'
    OBVIOUS
<1>1. cur \in Rules /\ lastSent[cur] = "resolved"
    BY DEF IInv, PlaceOK, Forget
<1>2. TypeOK'
    <2>1. NoKey \in [age : 0..Dedup + 1, left : 0..KeyLife]
        BY DEF NoKey
    <2>2. fired' \in [Rules -> [age : 0..Dedup + 1, left : 0..KeyLife]]
        BY <2>1 DEF IInv, TypeOK, Forget
    <2>3. QED
        BY <2>2 DEF IInv, TypeOK, Forget, redis, probes, history
<1>3. PlaceOK'
    BY DEF PlaceOK, Forget
<1>4. ASSUME NEW s \in Rules PROVE RuleOK(s)'
    <2>1. fired'[s] = (IF s = cur THEN NoKey ELSE fired[s]) /\ NoKey.left = 0
        BY DEF IInv, TypeOK, Forget, NoKey
    <2>2. QED
        BY <1>1, <2>1 DEF IInv, RuleOK, KeyOutlivesCooldown, KeyIsExact, YoungIsKnown,
                          MarkerOutlivesKey, Held, Sent, Forget, history
<1>5. QED
    BY <1>2, <1>3, <1>4 DEF IInv

\* A round ends, of itself or with Redis or the process.
LEMMA StopKeeps == IInv /\ (End \/ Raise \/ Restart) => IInv'
<1> SUFFICES ASSUME IInv, End \/ Raise \/ Restart PROVE IInv'
    OBVIOUS
<1>1. Stop /\ redisUp' = redisUp
    BY DEF End, Raise, Restart, redis
<1>2. faults' \in 0..MaxFaults
    BY DEF IInv, TypeOK, End, Raise, Restart, redis
<1>3. unrecorded' \subseteq Rules /\ unrecorded \subseteq unrecorded'
      /\ (pc \in {"mark", "remark"} => cur \in unrecorded')
    BY DEF IInv, TypeOK, PlaceOK, End, Raise, Restart, Unrecorded
<1>4. TypeOK'
    BY <1>1, <1>2, <1>3 DEF IInv, TypeOK, Stop, probes, keys
<1>5. PlaceOK'
    BY <1>1 DEF PlaceOK, Stop
<1>6. ASSUME NEW s \in Rules PROVE RuleOK(s)'
    BY <1>1, <1>3 DEF IInv, RuleOK, KeyOutlivesCooldown, KeyIsExact, YoungIsKnown,
                      MarkerOutlivesKey, Held, Sent, Stop, keys
<1>7. QED
    BY <1>4, <1>5, <1>6 DEF IInv

\* The invariant is inductive.
LEMMA StepKeepsIInv == IInv /\ [Next]_vars => IInv'
<1> SUFFICES ASSUME IInv, [Next]_vars PROVE IInv'
    OBVIOUS
<1>1. CASE Notify
    BY <1>1, BeginKeeps, SkipKeeps, FireKeeps, MarkKeeps, UnmarkKeeps, FiredKeeps, ResolveKeeps,
       RemarkKeeps, ForgetKeeps, StopKeeps DEF Notify
<1>2. CASE UNCHANGED vars
    BY <1>2 DEF vars, redis, probes, tick, keys, history, IInv, TypeOK, PlaceOK, RuleOK,
                KeyOutlivesCooldown, KeyIsExact, YoungIsKnown, MarkerOutlivesKey, Held, Sent
<1>3. QED
    BY <1>1, <1>2, ClockKeeps, ProbesKeep, StopKeeps DEF Next

THEOREM NotifierInvariant == Spec => []IInv
<1>1. QED
    BY InitIInv, StepKeepsIInv, PTL DEF Spec

(***************************************************************************)
(* No rule is announced twice within its cooldown unless its resolution    *)
(* went out in between or the first announcement was never recorded        *)
(* (notifier.py tick: last_fired is written after the sinks were called,   *)
(* and lives twice as long as the cooldown).                               *)
(***************************************************************************)
THEOREM RefiresAreCooled == Spec => RefireIsCooled
<1>1. ASSUME IInv, NEW r \in Rules, Fire(r), lastSent[r] = "fired", sentAge[r] <= Dedup,
             r \notin unrecorded
      PROVE  FALSE
    <2>1. Sent(r) /\ r # cur /\ RuleOK(r) /\ pc = "fire" /\ r \in todo
        BY <1>1, NoneIsNoRule DEF Fire, Sent, IInv, PlaceOK
    <2>2. Held(r) /\ r \in young
        BY <1>1, <2>1 DEF RuleOK, KeyIsExact, YoungIsKnown
    <2>3. QED
        BY <1>1, <2>2 DEF Fire, Cooling
<1>2. ASSUME IInv, NEW r \in Rules, Fire(r)
      PROVE  lastSent[r] # "fired" \/ sentAge[r] > Dedup \/ r \in unrecorded
    <2>1. sentAge[r] \in 0..Dedup + 1
        BY <1>2 DEF IInv, TypeOK
    <2>2. QED
        BY <1>1, <1>2, <2>1
<1>3. IInv => [\A r \in Rules :
                  Fire(r) => \/ lastSent[r] # "fired"
                             \/ sentAge[r] > Dedup
                             \/ r \in unrecorded]_vars
    BY <1>2
<1>4. QED
    BY <1>3, NotifierInvariant, PTL DEF RefireIsCooled

(***************************************************************************)
(* A resolution follows an announcement and is not sent again while it is  *)
(* remembered: its marker outlives the key that would make the rule look   *)
(* as if it were still to be resolved (notifier.py _emit_resolutions).     *)
(***************************************************************************)
THEOREM ResolutionsAreSentOnce == Spec => ResolvedOnce
<1>1. ASSUME IInv, NEW r \in Rules, Resolve(r)
      PROVE  lastSent[r] = "fired" \/ r \in unrecorded
    <2>1. Held(r) /\ marker[r] = 0 /\ RuleOK(r) /\ pc = "resolve"
        BY <1>1 DEF Resolve, Cleared, IInv
    <2>2. lastSent[r] \in {"none", "fired", "resolved"} /\ fired[r].left \in Nat
        BY <1>1 DEF IInv, TypeOK
    <2>3. QED
        BY <2>1, <2>2 DEF RuleOK, MarkerOutlivesKey, Held
<1>2. IInv => [\A r \in Rules :
                  Resolve(r) => lastSent[r] = "fired" \/ r \in unrecorded]_vars
    BY <1>1
<1>3. QED
    BY <1>2, NotifierInvariant, PTL DEF ResolvedOnce
====
