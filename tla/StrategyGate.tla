---- MODULE StrategyGate ----
(***************************************************************************)
(* The strategies' process (strategies/): the way of a signal from the     *)
(* strategy that emits it through the cooldown and the rate limits to the  *)
(* signal log, Postgres and the bus, in that order.  All of it runs on the *)
(* main thread, and so does the handler of SIGTERM, which may stop the     *)
(* engine between any two steps and waits for ever for a lock that the     *)
(* step it interrupted holds.  Cooldown and limits live in memory only.    *)
(***************************************************************************)
EXTENDS Integers, Sequences, FiniteSets

CONSTANTS
    Strategies, Instruments,
    Cooldown,               \* strategy_cooldown_seconds, in clock steps
    Hour, Day,              \* the two windows, in clock steps
    MaxPerHour, MaxPerDay,  \* strategy_max_signals_per_hour and _per_day
    Lateness,               \* how far a strategy may date its signal back
    MaxNow, MaxSignals, MaxStarts, MaxFaults   \* bounds on the counters

ASSUME GateAssumption ==
    /\ Cooldown \in Nat /\ Lateness \in Nat
    /\ Hour \in Nat /\ Day \in Nat /\ Hour + Lateness <= Day
    /\ MaxPerHour \in Nat /\ MaxPerDay \in Nat
    /\ MaxNow \in Nat \ {0} /\ MaxSignals \in Nat /\ MaxStarts \in Nat /\ MaxFaults \in Nat

VARIABLES
    now,             \* the wall clock, from 1 on
    up, starts,      \* the process runs; how often it was started again
    faults,          \* writes that failed
    signals,         \* history: every signal emitted so far
    pc,              \* where the last of them is
    handler,         \* where the handler of SIGTERM is
    last,            \* CooldownManager._last, 0 where there is no entry
    window,          \* RiskEngine._events_by_strategy
    closed,          \* SignalLogger._fh is None
    file, rows, out, \* the signals in the log, in Postgres, on the bus
    admitted,        \* history: the signals of this life that passed both
    refused,         \* history: the signals whose line the disk refused
    late             \* history: the signals that found the log closed

process == <<up, starts>>
gate == <<last, window, admitted>>
sinks == <<file, rows, out>>
losses == <<refused, late>>
vars == <<now, process, faults, signals, pc, handler, gate, closed, sinks, losses>>

Key == Strategies \X Instruments

Signal == [strategy : Strategies, instrument : Instruments, ts : 0..MaxNow]

Number == Len(signals)

This == signals[Number]

KeyOf(s) == <<s.strategy, s.instrument>>

\* The main thread is not in the handler.
Runs == up /\ handler \in {"none", "left"}

Init ==
    /\ now = 1 /\ up = TRUE /\ starts = 0 /\ faults = 0
    /\ signals = <<>> /\ pc = "idle" /\ handler = "none"
    /\ last = [k \in Key |-> 0] /\ window = [s \in Strategies |-> <<>>]
    /\ closed = FALSE /\ file = {} /\ rows = {} /\ out = {}
    /\ admitted = {} /\ refused = {} /\ late = {}

Fault ==
    /\ faults < MaxFaults
    /\ faults' = faults + 1
----
\* Mutant of Cools: a signal dated back counts as long after the last one.
CoolsForward(k, ts) == last[k] # 0 /\ ts >= last[k] /\ ts - last[k] < Cooldown

\* CooldownManager.should_suppress; a signal it lets through starts the cooldown anew.
Cools(k, ts) == last[k] # 0 /\ ts - last[k] < Cooldown

Emit(strategy, instrument, ts) ==
    LET k == <<strategy, instrument>>
    IN  /\ Runs /\ pc = "idle" /\ Number < MaxSignals
        /\ signals' = Append(signals, [strategy |-> strategy, instrument |-> instrument, ts |-> ts])
        /\ IF Cools(k, ts) THEN UNCHANGED <<pc, last>>
                           ELSE pc' = "risk" /\ last' = [last EXCEPT ![k] = ts]
        /\ UNCHANGED <<now, process, faults, handler, window, admitted, closed, sinks, losses>>

\* An action or an index that is not allowed, before the lock of the risk engine.
Disallow ==
    /\ Runs /\ pc = "risk"
    /\ pc' = "idle"
    /\ UNCHANGED <<now, process, faults, signals, handler, gate, closed, sinks, losses>>

LockRisk ==
    /\ Runs /\ pc = "risk"
    /\ pc' = "count"
    /\ UNCHANGED <<now, process, faults, signals, handler, gate, closed, sinks, losses>>

\* The events that RiskEngine.allows keeps: it drops old ones from the left.
Pruned(q, anchor) ==
    LET kept == {k \in 1..(Len(q) + 1) : k > Len(q) \/ q[k] >= anchor - Day}
    IN  SubSeq(q, CHOOSE k \in kept : \A j \in kept : k <= j, Len(q))

InHour(q, anchor) == {k \in DOMAIN q : q[k] >= anchor - Hour}

\* Mutant of WithinLimits: the hour admits one too many.
WithinHourPlusOne(q, anchor) ==
    Cardinality(InHour(q, anchor)) <= MaxPerHour /\ Len(q) < MaxPerDay

WithinLimits(q, anchor) ==
    Cardinality(InHour(q, anchor)) < MaxPerHour /\ Len(q) < MaxPerDay

\* RiskEngine.allows under its lock.
Count ==
    LET s == This.strategy
        q == Pruned(window[s], This.ts)
    IN  /\ Runs /\ pc = "count"
        /\ IF WithinLimits(q, This.ts)
           THEN /\ window' = [window EXCEPT ![s] = Append(q, This.ts)]
                /\ admitted' = admitted \cup {Number}
                /\ pc' = "log"
           ELSE /\ window' = [window EXCEPT ![s] = q]
                /\ pc' = "idle"
                /\ UNCHANGED admitted
        /\ UNCHANGED <<now, process, faults, signals, handler, last, closed, sinks, losses>>
----
(***************************************************************************)
(* SignalLogger.record: the line with its fsync under the logger's lock,   *)
(* then Postgres, then the bus.  Each failure is logged and the next sink  *)
(* is served all the same; so is it when the log is already closed.        *)
(***************************************************************************)
LockLog ==
    /\ Runs /\ pc = "log"
    /\ pc' = "write"
    /\ UNCHANGED <<now, process, faults, signals, handler, gate, closed, sinks, losses>>

\* Mutant of WriteLine: the line is left to a later flush.
WriteLineLater ==
    /\ Runs /\ pc = "write"
    /\ IF closed THEN late' = late \cup {Number} ELSE UNCHANGED late
    /\ pc' = "insert"
    /\ UNCHANGED <<now, process, faults, signals, handler, gate, closed, sinks, refused>>

WriteLine ==
    /\ Runs /\ pc = "write"
    /\ \/ closed /\ late' = late \cup {Number} /\ UNCHANGED <<file, refused, faults>>
       \/ ~closed /\ file' = file \cup {Number} /\ UNCHANGED <<losses, faults>>
       \/ ~closed /\ Fault /\ refused' = refused \cup {Number} /\ UNCHANGED <<file, late>>
    /\ pc' = "insert"
    /\ UNCHANGED <<now, process, signals, handler, gate, closed, rows, out>>

InsertRow ==
    /\ Runs /\ pc = "insert"
    /\ \/ rows' = rows \cup {Number} /\ UNCHANGED faults
       \/ Fault /\ UNCHANGED rows
    /\ pc' = "publish"
    /\ UNCHANGED <<now, process, signals, handler, gate, closed, file, out, losses>>

Publish ==
    /\ Runs /\ pc = "publish"
    /\ \/ out' = out \cup {Number} /\ UNCHANGED faults
       \/ Fault /\ UNCHANGED out
    /\ pc' = "idle"
    /\ UNCHANGED <<now, process, signals, handler, gate, closed, file, rows, losses>>
----
(***************************************************************************)
(* The handler runs shutdown() on the main thread: it closes the log under *)
(* the logger's lock and takes a snapshot under the risk engine's; neither *)
(* lock can be had when the interrupted step holds it.  A second signal    *)
(* finds the engine stopping and does nothing.                             *)
(***************************************************************************)
Terminate ==
    /\ up /\ handler = "none"
    /\ handler' = "close"
    /\ UNCHANGED <<now, process, faults, signals, pc, gate, closed, sinks, losses>>

CloseLog ==
    /\ up /\ handler = "close" /\ pc # "write"
    /\ closed' = TRUE
    /\ handler' = "snapshot"
    /\ UNCHANGED <<now, process, faults, signals, pc, gate, sinks, losses>>

Snapshot ==
    /\ up /\ handler = "snapshot" /\ pc # "count"
    /\ handler' = "left"
    /\ UNCHANGED <<now, process, faults, signals, pc, gate, closed, sinks, losses>>

\* With its bus closed the loop ends between two messages.
Leave ==
    /\ up /\ handler = "left" /\ pc = "idle"
    /\ up' = FALSE
    /\ UNCHANGED <<now, starts, faults, signals, pc, handler, gate, closed, sinks, losses>>

Kill ==
    /\ up
    /\ up' = FALSE
    /\ UNCHANGED <<now, starts, faults, signals, pc, handler, gate, closed, sinks, losses>>

\* A new process knows nothing of the signals before.
Start ==
    /\ ~up /\ starts < MaxStarts
    /\ up' = TRUE /\ starts' = starts + 1
    /\ pc' = "idle" /\ handler' = "none" /\ closed' = FALSE
    /\ last' = [k \in Key |-> 0] /\ window' = [s \in Strategies |-> <<>>] /\ admitted' = {}
    /\ UNCHANGED <<now, faults, signals, sinks, losses>>

Tick ==
    /\ now < MaxNow
    /\ now' = now + 1
    /\ UNCHANGED <<process, faults, signals, pc, handler, gate, closed, sinks, losses>>

Handle ==
    \/ Disallow \/ LockRisk \/ Count
    \/ LockLog \/ WriteLine \/ InsertRow \/ Publish

Next ==
    \/ \E k \in Key, d \in 0..Lateness : now - d >= 1 /\ Emit(k[1], k[2], now - d)
    \/ Handle
    \/ Terminate \/ CloseLog \/ Snapshot \/ Leave
    \/ Kill \/ Start \/ Tick

Spec == Init /\ [][Next]_vars
----
(***************************************************************************)
(* Properties.                                                             *)
(***************************************************************************)

\* The types; a strategy's window never holds more events than a day allows.
TypeOK ==
    /\ now \in 1..MaxNow /\ up \in BOOLEAN /\ starts \in 0..MaxStarts /\ faults \in 0..MaxFaults
    /\ signals \in Seq(Signal)
    /\ pc \in {"idle", "risk", "count", "log", "write", "insert", "publish"}
    /\ handler \in {"none", "close", "snapshot", "left"}
    /\ last \in [Key -> 0..MaxNow]
    /\ window \in [Strategies -> Seq(1..MaxNow)]
    /\ \A s \in Strategies : Len(window[s]) <= MaxPerDay
    /\ closed \in BOOLEAN
    /\ \A sink \in {file, rows, out, admitted, refused, late} : sink \subseteq 1..Number

(***************************************************************************)
(* Two signals of one strategy for one instrument that a process admits    *)
(* are dated at least a cooldown apart, also when a strategy dates one     *)
(* back ("Cooldown per (strategy, instrument)", README.md:364).            *)
(***************************************************************************)
CooldownHolds ==
    \A m, n \in admitted :
        m < n /\ KeyOf(signals[m]) = KeyOf(signals[n])
            => signals[n].ts - signals[m].ts >= Cooldown

Within(s, from, length) ==
    {n \in admitted : signals[n].strategy = s /\ signals[n].ts \in from..(from + length)}

(***************************************************************************)
(* However an hour or a day is laid over the dates of the signals, it      *)
(* holds no more of one strategy than the cap says, although one queue,    *)
(* pruned from one end, serves both ("max signals per hour + per day per   *)
(* strategy", README.md:365).  The day is shorter by what a strategy may   *)
(* date back: a later date has pruned what an earlier one should count.    *)
(***************************************************************************)
RateHolds ==
    \A s \in Strategies, from \in 1..MaxNow :
        /\ Cardinality(Within(s, from, Hour)) <= MaxPerHour
        /\ Cardinality(Within(s, from, Day - Lateness)) <= MaxPerDay

(***************************************************************************)
(* A signal in Postgres or on the bus is in the signal log, whenever the   *)
(* process dies, unless the disk refused its line or the engine was        *)
(* stopping when it was recorded.                                          *)
(***************************************************************************)
LoggedFirst == rows \cup out \subseteq file \cup refused \cup late

(***************************************************************************)
(* "Every admitted signal is appended to signals.jsonl (fsync) before any  *)
(* network call" (README.md:366): also one that is recorded while the      *)
(* engine stops.                                                           *)
(***************************************************************************)
DurableLog == rows \cup out \subseteq file \cup refused
====
