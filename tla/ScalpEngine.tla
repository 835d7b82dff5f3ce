---- MODULE ScalpEngine ----
(***************************************************************************)
(* The critical layer's engine: two threads of one process, without locks, *)
(* over the per-index state of CriticalState.                              *)
(*                                                                         *)
(*   "sub"     runs _dispatch for every pub/sub message: it resets the day *)
(*             counters, exits the held position and, on option ticks,     *)
(*             enters a new one.  An exception ends the message only.      *)
(*   "manage"  runs _manage_loop once a second: it exits a position whose  *)
(*             time stop has passed.  An exception ends the thread.        *)
(*                                                                         *)
(* Each thread is a pc and a job (what it carries between the points where *)
(* the other thread can run).  A step ends where the code touches shared   *)
(* state after a call out: the append to the trades log, the assignment of *)
(* IndexState.position, the loss bookkeeping.                              *)
(***************************************************************************)
EXTENDS TradeLog

CONSTANTS
    MaxConcurrent,   \* cfg.max_concurrent
    CircuitLosses,   \* cfg.circuit_losses
    Cooldown,        \* cfg.cooldown_s, in clock steps
    TimeStop,        \* cfg.time_stop_s, in clock steps
    Midnights,       \* the clock values at which a new local date begins
    MaxNow, MaxTrades, MaxCrashes   \* bounds on the counters

ASSUME IndicesAssumption == Indices # {} /\ IsFiniteSet(Indices)

ASSUME LimitsAssumption ==
    /\ MaxConcurrent \in Nat
    /\ CircuitLosses \in Nat \ {0}
    /\ Cooldown \in Nat
    /\ TimeStop \in Nat
    /\ Midnights \subseteq Nat /\ IsFiniteSet(Midnights)
    /\ MaxNow \in Nat \ {0} /\ MaxTrades \in Nat /\ MaxCrashes \in Nat

VARIABLES
    now,        \* the wall clock; 0 stands for "never" in last_loss_ts_ms
    up,         \* the process runs
    crashes,    \* how often it died
    trades,     \* trades numbered so far
    log,        \* logs/critical/trades.jsonl
    known,      \* the indices with an IndexState
    resetDay,   \* IndexState.day_reset_date, 0 for ""
    position,   \* IndexState.position
    losses,     \* IndexState.consecutive_losses
    lastLoss,   \* IndexState.last_loss_ts_ms
    halted,     \* IndexState.halted_today
    pc, job     \* of the two threads

process == <<up, crashes>>
audit == <<trades, log>>
counters == <<resetDay, losses, lastLoss, halted>>
threads == <<pc, job>>
vars == <<now, process, audit, known, counters, position, threads>>

Thread == {"sub", "manage"}

NoPosition == [trade |-> 0, contract |-> "none", stopAt |-> 0]

Position == [trade : 1..MaxTrades, contract : Contracts, stopAt : Nat]

(***************************************************************************)
(* What a look at the held instrument can give: no usable price, an        *)
(* exception from the market view or the regime client, a price so near    *)
(* the tick floor that the SELL fill rounds to zero and Fill refuses it,   *)
(* or a price at which closing wins, loses, or loses big_loss_rupees.      *)
(***************************************************************************)
Usable == {"win", "loss", "big"}

Priced == Usable \cup {"floor"}

Marks == Priced \cup {"none", "raise"}

Job == [index : Indices, pos : Position \cup {NoPosition}, mark : Marks,
        tick : {"index", "option", "timer"}]

Idle == [index |-> CHOOSE i \in Indices : TRUE, pos |-> NoPosition,
         mark |-> "none", tick |-> "timer"]

Held(i) == position[i] # NoPosition

OpenIndices == {i \in Indices : Held(i)}
----
\* A function with the same value for every index.
All(v) == [i \in Indices |-> v]

\* A started process: CriticalState empty, both threads at the top of their loops.
Init ==
    /\ now = 1
    /\ up = TRUE /\ crashes = 0
    /\ trades = 0 /\ log = <<>>
    /\ known = {} /\ position = All(NoPosition)
    /\ resetDay = All(0) /\ losses = All(0) /\ lastLoss = All(0) /\ halted = All(FALSE)
    /\ pc = [t \in Thread |-> "idle"]
    /\ job = [t \in Thread |-> Idle]

Goto(t, label, j) ==
    /\ pc' = [pc EXCEPT ![t] = label]
    /\ job' = [job EXCEPT ![t] = j]

Finish(t) == Goto(t, "idle", Idle)

\* _dispatch swallows an exception; _manage_loop has no handler and its thread ends.
Raise(t) == Goto(t, IF t = "manage" THEN "dead" ELSE "idle", Idle)
----
(***************************************************************************)
(* IndexState.reset_for_day, called for every IndexState by                *)
(* CriticalState.reset_if_new_day: a state not yet stamped with today is   *)
(* stamped and its counters cleared.                                       *)
(***************************************************************************)
Date(ts) == 1 + Cardinality({m \in Midnights : m <= ts})

Today == Date(now)

DueForReset == {i \in known : resetDay[i] # Today}

ResetIfNewDay ==
    LET cleared(f, v) == [i \in Indices |-> IF i \in DueForReset THEN v ELSE f[i]]
    IN  /\ resetDay' = cleared(resetDay, Today)
        /\ losses'   = cleared(losses, 0)
        /\ lastLoss' = cleared(lastLoss, 0)
        /\ halted'   = cleared(halted, FALSE)

(***************************************************************************)
(* _try_exit up to the call of _close_position, for a held position.  rule *)
(* is whether one of the price and regime rules of exit.evaluate fires;    *)
(* the time stop always does once it has passed.                           *)
(***************************************************************************)
ShouldExit(pos, rule) == rule \/ now >= pos.stopAt

\* After the exit check an option tick goes on to look for an entry; the others are done.
AfterExit(t, i, tick) ==
    IF tick = "option"
    THEN Goto(t, "gate", [Idle EXCEPT !.index = i, !.tick = tick])
    ELSE Finish(t)

\* Mutant of DecideExit: only the price of a fresh option tick closes a position.
DecideExitFresh(t, i, mark, tick) ==
    /\ mark \in Priced /\ tick = "option"
    /\ \E rule \in BOOLEAN : ShouldExit(position[i], rule)
    /\ Goto(t, "sell", [index |-> i, pos |-> position[i], mark |-> mark, tick |-> tick])

DecideExit(t, i, mark, tick) ==
    /\ mark \in Priced
    /\ \E rule \in BOOLEAN : ShouldExit(position[i], rule)
    /\ Goto(t, "sell", [index |-> i, pos |-> position[i], mark |-> mark, tick |-> tick])

KeepPosition(t, i, mark, tick) ==
    /\ mark = "none" \/ (mark \in Priced /\ \E rule \in BOOLEAN : ~ShouldExit(position[i], rule))
    /\ AfterExit(t, i, tick)

TryExit(t, i, mark, tick) ==
    \/ mark = "raise" /\ Raise(t)
    \/ KeepPosition(t, i, mark, tick)
    \/ DecideExit(t, i, mark, tick)
----
(***************************************************************************)
(* _on_index_tick and _on_option_tick up to the first call out.            *)
(***************************************************************************)
OnIndexTick(i) ==
    /\ up /\ pc["sub"] = "idle"
    /\ ResetIfNewDay
    /\ known' = known \cup {i}
    /\ IF Held(i) THEN \E mark \in Marks : TryExit("sub", i, mark, "index")
                  ELSE UNCHANGED threads
    /\ UNCHANGED <<now, process, audit, position>>

OnOptionTick(i) ==
    /\ up /\ pc["sub"] = "idle"
    /\ known' = known \cup {i}
    /\ IF Held(i)
       THEN \E mark \in Marks : TryExit("sub", i, mark, "option")
       ELSE AfterExit("sub", i, "option")
    /\ UNCHANGED <<now, process, audit, counters, position>>

(***************************************************************************)
(* One index of one pass of _manage_loop.                                  *)
(***************************************************************************)
ManagePass(i, mark) ==
    /\ up /\ pc["manage"] = "idle"
    /\ known' = known \cup {i}
    /\ IF Held(i) /\ now >= position[i].stopAt
       THEN TryExit("manage", i, mark, "timer")
       ELSE UNCHANGED threads
    /\ UNCHANGED <<now, process, audit, counters, position>>
----
(***************************************************************************)
(* _close_position, in the steps the other thread can run between:         *)
(* ScalpExecutor.exit with its line in the log, the release of the index,  *)
(* the count of the loss, the circuit breaker.                             *)
(***************************************************************************)
SellPosition(t) ==
    LET j == job[t]
        key == <<j.index, j.pos.contract>>
    IN  /\ up /\ pc[t] = "sell"
        /\ IF j.mark = "floor"
           THEN Raise(t) /\ UNCHANGED log
           ELSE /\ log' = Append(log, ExitLine(key, j.pos.trade, t))
                /\ Goto(t, "clear", [j EXCEPT !.pos = NoPosition])
        /\ UNCHANGED <<now, process, trades, known, counters, position>>

\* Mutant of ClearPosition: a losing position stays with its index.
ClearWinner(t) ==
    /\ up /\ pc[t] = "clear"
    /\ position' = IF job[t].mark = "win"
                   THEN [position EXCEPT ![job[t].index] = NoPosition] ELSE position
    /\ Goto(t, "book", job[t])
    /\ UNCHANGED <<now, process, audit, known, counters>>

ClearPosition(t) ==
    /\ up /\ pc[t] = "clear"
    /\ position' = [position EXCEPT ![job[t].index] = NoPosition]
    /\ Goto(t, "book", job[t])
    /\ UNCHANGED <<now, process, audit, known, counters>>

BookResult(t) ==
    LET i == job[t].index
        lost == job[t].mark # "win"
    IN  /\ up /\ pc[t] = "book"
        /\ losses' = [losses EXCEPT ![i] = IF lost THEN @ + 1 ELSE 0]
        /\ lastLoss' = [lastLoss EXCEPT ![i] = IF lost THEN now ELSE @]
        /\ IF lost THEN Goto(t, "halt", job[t]) ELSE AfterExit(t, i, job[t].tick)
        /\ UNCHANGED <<now, process, audit, known, resetDay, halted, position>>

\* Mutant of HaltIndex: the breaker trips one loss late.
HaltIndexLate(t) ==
    LET i == job[t].index
    IN  /\ up /\ pc[t] = "halt"
        /\ halted' = [halted EXCEPT ![i] =
                        @ \/ job[t].mark = "big" \/ losses[i] > CircuitLosses]
        /\ AfterExit(t, i, job[t].tick)
        /\ UNCHANGED <<now, process, audit, known, resetDay, losses, lastLoss, position>>

\* The streak is read again here, after whatever the other thread made of it.
HaltIndex(t) ==
    LET i == job[t].index
    IN  /\ up /\ pc[t] = "halt"
        /\ halted' = [halted EXCEPT ![i] =
                        @ \/ job[t].mark = "big" \/ losses[i] >= CircuitLosses]
        /\ AfterExit(t, i, job[t].tick)
        /\ UNCHANGED <<now, process, audit, known, resetDay, losses, lastLoss, position>>
----
(***************************************************************************)
(* _try_entry: the risk gate, the entry itself with its line in the log,   *)
(* and the assignment of the new position.                                 *)
(***************************************************************************)
\* Mutants of AllowEntry: the cap, or the check of the index itself, is missing.
AllowEntryUncapped(i) ==
    /\ ~Held(i)
    /\ ~halted[i]
    /\ losses[i] < CircuitLosses
    /\ lastLoss[i] = 0 \/ now - lastLoss[i] >= Cooldown

AllowEntryReplacing(i) ==
    /\ ~halted[i]
    /\ Cardinality(OpenIndices \ {i}) < MaxConcurrent
    /\ losses[i] < CircuitLosses
    /\ lastLoss[i] = 0 \/ now - lastLoss[i] >= Cooldown

AllowEntry(i) ==
    /\ ~Held(i)
    /\ ~halted[i]
    /\ Cardinality(OpenIndices) < MaxConcurrent
    /\ losses[i] < CircuitLosses
    /\ lastLoss[i] = 0 \/ now - lastLoss[i] >= Cooldown

\* The window, the signals, the regime and the choice of an instrument let contract c through.
PassGate(c) ==
    LET i == job["sub"].index
    IN  /\ up /\ pc["sub"] = "gate"
        /\ AllowEntry(i)
        /\ trades < MaxTrades
        /\ trades' = trades + 1
        /\ Goto("sub", "enter",
                [job["sub"] EXCEPT !.pos = [trade |-> trades + 1, contract |-> c,
                                            stopAt |-> now + TimeStop]])
        /\ UNCHANGED <<now, process, log, known, counters, position>>

\* Any of those conditions fails, or one of the calls raises.
NoEntry ==
    /\ up /\ pc["sub"] = "gate"
    /\ Finish("sub")
    /\ UNCHANGED <<now, process, audit, known, counters, position>>

EnterTrade ==
    LET j == job["sub"]
    IN  /\ up /\ pc["sub"] = "enter"
        /\ log' = Append(log, EntryLine(<<j.index, j.pos.contract>>, j.pos.trade))
        /\ Goto("sub", "assign", j)
        /\ UNCHANGED <<now, process, trades, known, counters, position>>

AssignPosition ==
    /\ up /\ pc["sub"] = "assign"
    /\ position' = [position EXCEPT ![job["sub"].index] = job["sub"].pos]
    /\ Finish("sub")
    /\ UNCHANGED <<now, process, audit, known, counters>>
----
\* The wall clock moves on, perhaps past midnight.
Tick ==
    /\ now < MaxNow
    /\ now' = now + 1
    /\ UNCHANGED <<process, audit, known, counters, position, threads>>

\* The process dies: its threads and CriticalState are gone, the log stays.
Crash ==
    /\ up /\ crashes < MaxCrashes
    /\ up' = FALSE /\ crashes' = crashes + 1
    /\ known' = {} /\ position' = All(NoPosition)
    /\ resetDay' = All(0) /\ losses' = All(0) /\ lastLoss' = All(0) /\ halted' = All(FALSE)
    /\ pc' = [t \in Thread |-> "idle"]
    /\ job' = [t \in Thread |-> Idle]
    /\ UNCHANGED <<now, audit>>

\* main(): reconcile_orphan_entries, then the engine's threads start.
Restart ==
    /\ ~up
    /\ up' = TRUE
    /\ \E exits \in SyntheticExits(log) : log' = log \o exits
    /\ UNCHANGED <<now, crashes, trades, known, counters, position, threads>>

Close(t) == SellPosition(t) \/ ClearPosition(t) \/ BookResult(t) \/ HaltIndex(t)

TryEntry == (\E c \in Contracts : PassGate(c)) \/ NoEntry \/ EnterTrade \/ AssignPosition

Next ==
    \/ \E i \in Indices : OnIndexTick(i) \/ OnOptionTick(i)
    \/ \E i \in Indices, mark \in Marks : ManagePass(i, mark)
    \/ \E t \in Thread : Close(t)
    \/ TryEntry
    \/ Tick \/ Crash \/ Restart

(***************************************************************************)
(* The clock moves; a handler that has begun runs on to its end; and the   *)
(* manager, as long as its thread lives, comes back to a due position      *)
(* again and again and in time meets a usable price, since the chain cache *)
(* keeps the last price of a contract whose feed went silent.  No message  *)
(* is ever promised to the subscriber: its feed may be silent.             *)
(***************************************************************************)
Fairness ==
    /\ WF_vars(Tick)
    /\ WF_vars(TryEntry)
    /\ \A t \in Thread : WF_vars(Close(t))
    /\ \A i \in Indices :
        SF_vars(Held(i) /\ now >= position[i].stopAt
                    /\ \E mark \in Usable : ManagePass(i, mark))

Spec == Init /\ [][Next]_vars

FairSpec == Spec /\ Fairness
----
(***************************************************************************)
(* Properties.                                                             *)
(***************************************************************************)

\* The types of the state; counters stay within the bounds the guards set.
TypeOK ==
    /\ now \in 1..MaxNow
    /\ up \in BOOLEAN /\ crashes \in 0..MaxCrashes
    /\ trades \in 0..MaxTrades
    /\ log \in Seq(Line)
    /\ known \subseteq Indices
    /\ resetDay \in [Indices -> Nat]
    /\ position \in [Indices -> Position \cup {NoPosition}]
    /\ losses \in [Indices -> Nat]
    /\ lastLoss \in [Indices -> 0..MaxNow]
    /\ halted \in [Indices -> BOOLEAN]
    /\ pc \in [Thread -> {"idle", "sell", "clear", "book", "halt", "gate", "enter", "assign", "dead"}]
    /\ job \in [Thread -> Job]

(***************************************************************************)
(* At most MaxConcurrent indices hold a position (critical/README.md: "max *)
(* 2 indices open"), although the gate counts them three steps before the  *)
(* new position is assigned and the manager closes positions in between.   *)
(***************************************************************************)
OpenWithinCap == Cardinality(OpenIndices) <= MaxConcurrent

ExitsOf(n) == {m \in 1..Len(log) : log[m].kind = "exit" /\ log[m].trade = n}

(***************************************************************************)
(* A trade the engine still holds has its entry line and no exit line in   *)
(* the audit log, unless a thread is about to release its index: memory    *)
(* and log disagree about a trade for the length of one close only.        *)
(***************************************************************************)
HeldIsUnsold ==
    \A i \in Indices : Held(i) =>
        \/ position[i].trade \in Unexited(log)
        \/ \E t \in Thread : pc[t] = "clear" /\ job[t].index = i

(***************************************************************************)
(* A trade is sold at most once by each thread: a thread that sold a       *)
(* position cannot meet it again, whatever the other thread does (with two *)
(* threads and no lock it can be sold twice, once by each).  And the       *)
(* reconciliation closes no trade that was ever sold.                      *)
(***************************************************************************)
SoldOncePerThread ==
    \A n \in 1..trades : \A l, m \in ExitsOf(n) :
        log[l].by \in {log[m].by, "reconcile"} => l = m

(***************************************************************************)
(* A loss streak at the circuit breaker has halted the index, or the       *)
(* thread that counted the last loss is about to: no interleaving of two   *)
(* closes, each of which reads the streak again after counting, and of a   *)
(* day reset leaves a streak at the limit on an index that is not halted.  *)
(***************************************************************************)
CircuitHalts ==
    \A i \in Indices : losses[i] >= CircuitLosses =>
        halted[i] \/ \E t \in Thread : pc[t] = "halt" /\ job[t].index = i

(***************************************************************************)
(* A halt is lifted only by the first reset that stamps the index with a   *)
(* date it did not carry, or by the death of the process.                  *)
(***************************************************************************)
HaltLiftedByStampOnly ==
    [][\A i \in Indices : halted[i] /\ ~halted'[i] =>
            \/ resetDay[i] # Today /\ resetDay'[i] = Today
            \/ up /\ ~up']_vars

(***************************************************************************)
(* The dictionary walk of _pair_entries and of the UI's trades endpoint    *)
(* finds exactly the entries that are the last line of their key.          *)
(***************************************************************************)
PairingIsLastLine == PairEntries(log) = LastOfKey(log)

(***************************************************************************)
(* After the reconciliation no reader of the log sees an open row, until   *)
(* the restarted process enters a trade.                                   *)
(***************************************************************************)
RestartLeavesNoOpenRow == [][~up /\ up' => PairEntries(log') = {}]_vars

(***************************************************************************)
(* A position whose time stop has passed is released even if the feed is   *)
(* silent for ever (no fairness of "sub"), as long as the manager's thread *)
(* has not died of an exception.                                           *)
(***************************************************************************)
TimeStopFires ==
    \A i \in Indices :
        (Held(i) /\ now >= position[i].stopAt) ~> (~Held(i) \/ pc["manage"] = "dead")

(***************************************************************************)
(* The next three are what the repository says and the code does not do.   *)
(***************************************************************************)

(***************************************************************************)
(* "1 position / index" (critical/README.md:53): at any moment at most one *)
(* trade of an index has been entered and not been exited.                 *)
(***************************************************************************)
OneTradePerIndex ==
    \A m, n \in 1..Len(log) :
        (/\ log[m].key[1] = log[n].key[1]
         /\ log[m].trade \in Unexited(log)
         /\ log[n].trade \in Unexited(log)) => log[m].trade = log[n].trade

(***************************************************************************)
(* The manager's loop "catches time-stops even on a silent feed"           *)
(* (engine.py:429): a position past its time stop is released.             *)
(***************************************************************************)
TimeStopAlwaysFires ==
    \A i \in Indices : (Held(i) /\ now >= position[i].stopAt) ~> ~Held(i)

(***************************************************************************)
(* A halted index is "frozen for the rest of the session" (state.py:89):   *)
(* while the process lives, a step that lifts a halt happens on a later    *)
(* date than the loss that caused it.                                      *)
(***************************************************************************)
HaltLastsTheDay ==
    [][\A i \in Indices :
        (halted[i] /\ ~halted'[i] /\ up') => Date(lastLoss[i]) < Today]_vars

Slots == INSTANCE PositionSlots
            WITH Trades <- 1..MaxTrades,
                 held <- {[index |-> i, trade |-> position[i].trade] : i \in OpenIndices}

\* The engine implements the abstract slots: it never replaces a position it holds.
ImplementsSlots == Slots!Spec
====
