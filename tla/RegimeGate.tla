---- MODULE RegimeGate ----
(***************************************************************************)
(* The scalper's decision on one index, from the tick to the order, with   *)
(* the regime it consults on the way.  Two threads decide: the subscriber  *)
(* ("feed") on every option tick, the manager ("timer") on a position past *)
(* its time stop.  Both ask _regime_for first, which looks in the memory   *)
(* of the process, then in the cache in Redis, then asks the model, a      *)
(* remote call that can take any time, and then the rule of thumb.  The    *)
(* memory is two attributes, a decision and a stamp, read and written one  *)
(* after the other without a lock.                                         *)
(*                                                                         *)
(* What an order does is ScalpEngine's business: here it succeeds.  The    *)
(* cache's life of two weeks exceeds the time modelled.                    *)
(***************************************************************************)
EXTENDS EntryRules

CONSTANTS
    Markets,          \* the looks at the market, see EntryRules
    Answers,          \* what the model can answer
    Interval,         \* regime_interval_s
    Slippage,         \* what a bought contract costs beyond its quote
    MaxNow, MaxMoves, MaxFaults   \* bounds on the counters

ASSUME RegimeAssumption ==
    /\ Interval \in Nat \ {0} /\ Slippage \in Nat
    /\ MaxNow \in Nat /\ MaxMoves \in Nat /\ MaxFaults \in Nat
    /\ \A m \in Markets : m.price \in Int /\ m.oiMove \in Int
    /\ \A d \in Answers : d.bias \in Biases

VARIABLES
    now, market, moves,   \* the clock; the market, and how often it moved
    faults,               \* how many Redis calls failed or the process died
    held,                 \* the position, NoPosition if none
    prevOi,               \* _prev_oi: the open interest at the last evaluation
    lastRegime, lastAt,   \* last_regime, last_regime_update_ms: the decision, its stamp
    crossed,              \* history: the threads came between each other's uses of the two
    cache,                \* tpp:critical:regime_cache: an answer by bucket and prompt
    pc, job               \* where each thread is, and what it has read

world == <<now, market, moves, faults>>
recall == <<lastRegime, lastAt, crossed>>
vars == <<world, held, prevOi, recall, cache, pc, job>>

Threads == {"feed", "timer"}

NoPosition == [side |-> None]

NoRegime == [regime |-> "ranging", bias |-> "neutral", confidence |-> 20]

NothingKnown == [s \in Sides |-> [k \in Strikes |-> 0]]

\* A decision in memory, with, for the properties, as of when it was worked out and when it was stored.
Unasked == [decision |-> NoRegime, asOf |-> -1, stored |-> -1]

\* No stamp: an interval ago at any time.
Never == -Interval

\* What a thread has read so far: the market, the triggers or the position and its quote; when it
\* asked for the regime, and the stamp it found; the market it last looked at; the regime,
\* as of when it was worked out and when it was stored.
NoJob == [kind |-> None, seen |-> None, sigs |-> <<>>, pos |-> NoPosition, ltp |-> 0,
          ts |-> -1, last |-> -1, shown |-> None, regime |-> NoRegime, asOf |-> -1, stored |-> -1]

\* What the prompt says of the market.  The key of the cache is its hash and the interval's number.
Prompt(m) == [spot |-> m.spot, oi |-> m.oi, colours |-> m.colours]

Bucket(ts) == ts \div Interval

Quote == market.quotes[held.side][held.strike].ltp

Faultless == UNCHANGED faults

Fault == faults < MaxFaults /\ faults' = faults + 1
----
Init ==
    /\ now = 0 /\ market \in Markets /\ moves = 0
    /\ faults = 0
    /\ held = NoPosition /\ prevOi = NothingKnown
    /\ lastRegime = Unasked /\ lastAt = Never /\ crossed = FALSE
    /\ cache = <<>>
    /\ pc = [t \in Threads |-> "idle"]
    /\ job = [t \in Threads |-> NoJob]

Clock ==
    /\ now < MaxNow /\ now' = now + 1
    /\ UNCHANGED <<market, moves, faults, held, prevOi, recall, cache, pc, job>>

MarketMoves ==
    /\ moves < MaxMoves /\ moves' = moves + 1
    /\ market' \in Markets \ {market}
    /\ UNCHANGED <<now, faults, held, prevOi, recall, cache, pc, job>>

Step(t, from, to) == pc[t] = from /\ pc' = [pc EXCEPT ![t] = to]

\* Another thread stands at one of these places.
OtherAt(t, places) == \E u \in Threads \ {t} : pc[u] \in places

\* A thread starts with what it has read and asks for the regime.
Ask(t, j) ==
    /\ Step(t, "idle", "ask")
    /\ job' = [job EXCEPT ![t] = [j EXCEPT !.ts = now, !.shown = j.seen]]

\* _try_entry: the triggers, then the regime; the open interest is remembered for the next time.
BeginEntry ==
    /\ held = NoPosition /\ market.spot > 0
    /\ Ask("feed", [NoJob EXCEPT !.kind = "entry", !.seen = market,
                                 !.sigs = Triggers(market, prevOi)])
    /\ prevOi' = market.oi
    /\ UNCHANGED <<world, held, recall, cache>>

\* _try_exit: the quote, then the regime; the manager's is for a position past its time stop.
Overdue == held # NoPosition /\ now >= held.at + TimeStop

BeginExit(t) ==
    /\ held # NoPosition /\ Quote > 0
    /\ t = "timer" => Overdue
    /\ Ask(t, [NoJob EXCEPT !.kind = "exit", !.seen = market, !.pos = held, !.ltp = Quote])
    /\ UNCHANGED <<world, held, prevOi, recall, cache>>

(***************************************************************************)
(* _regime_for: the stamp is read, then the decision.  One that is recent  *)
(* is used; else the market cannot be described, or the classifier is      *)
(* called with it.                                                         *)
(***************************************************************************)
ReadStamp(t) ==
    /\ Step(t, "ask", "recall")
    /\ job' = [job EXCEPT ![t].last = lastAt]
    /\ crossed' = (crossed \/ OtherAt(t, {"mark"}))
    /\ UNCHANGED <<world, held, prevOi, lastRegime, lastAt, cache>>

Recent(t) == lastRegime # Unasked /\ job[t].ts - job[t].last < Interval

Has(t, d, asOf, stored) ==
    job' = [job EXCEPT ![t] = [@ EXCEPT !.regime = d, !.asOf = asOf, !.stored = stored]]

ReadRegime(t) ==
    /\ \/ /\ Step(t, "recall", "decide") /\ Recent(t)
          /\ Has(t, lastRegime.decision, lastRegime.asOf, lastRegime.stored)
       \/ /\ Step(t, "recall", "decide") /\ ~Recent(t) /\ market.spot = 0
          /\ Has(t, NoRegime, now, now)
       \/ /\ Step(t, "recall", "lookup") /\ ~Recent(t) /\ market.spot > 0
          /\ job' = [job EXCEPT ![t].shown = market]
    /\ UNCHANGED <<world, held, prevOi, recall, cache>>
----
Key(t) == <<Bucket(job[t].ts), Prompt(job[t].shown)>>

\* RegimeClient.classify: the cache is read; an answer in it is at most as old as its bucket.
Lookup(t) ==
    /\ \/ /\ Step(t, "lookup", "store") /\ Key(t) \in DOMAIN cache
          /\ Has(t, cache[Key(t)], Bucket(job[t].ts) * Interval, -1)
       \/ /\ Step(t, "lookup", "call") /\ Key(t) \notin DOMAIN cache
          /\ UNCHANGED job
    /\ UNCHANGED <<world, held, prevOi, recall, cache>>

\* Mutant of Call: without an answer the handler gives up and nothing is decided.
CallOrGiveUp(t) ==
    /\ \/ /\ Step(t, "call", "put")
          /\ \E d \in Answers : Has(t, d, job[t].ts, -1)
       \/ /\ Step(t, "call", "idle")
          /\ job' = [job EXCEPT ![t] = NoJob]
    /\ UNCHANGED <<world, held, prevOi, recall, cache>>

\* _call_llm: an answer, or none that can be used (no key, an error, not the JSON asked for).
Call(t) ==
    /\ \/ /\ Step(t, "call", "put")
          /\ \E d \in Answers : Has(t, d, job[t].ts, -1)
       \/ /\ Step(t, "call", "degrade")
          /\ UNCHANGED job
    /\ UNCHANGED <<world, held, prevOi, recall, cache>>

Cached(t, d) ==
    cache' = [k \in DOMAIN cache \cup {Key(t)} |-> IF k = Key(t) THEN d ELSE cache[k]]

\* The answer is cached; if that fails it is not used either.
Put(t) ==
    /\ \/ Step(t, "put", "store") /\ Cached(t, job[t].regime) /\ Faultless
       \/ Step(t, "put", "degrade") /\ Fault /\ UNCHANGED cache
    /\ UNCHANGED <<now, market, moves, held, prevOi, recall, job>>

\* The rule of thumb, cached as well; a failure of the cache is swallowed.
Degrade(t) ==
    /\ Step(t, "degrade", "store")
    /\ Has(t, Fallback(job[t].shown), job[t].ts, -1)
    /\ \/ Cached(t, Fallback(job[t].shown)) /\ Faultless
       \/ Fault /\ UNCHANGED cache
    /\ UNCHANGED <<now, market, moves, held, prevOi, recall>>

\* The decision in memory is replaced: the threads have crossed if the other is between its own
\* two reads or writes, and no longer once one stores alone.
StoreRegime(t) ==
    /\ lastRegime' = [decision |-> job[t].regime, asOf |-> job[t].asOf, stored |-> now]
    /\ Has(t, job[t].regime, job[t].asOf, now)
    /\ crossed' = \/ OtherAt(t, {"recall", "mark"})
                  \/ crossed /\ ~OtherAt(t, {"idle", "dead"})

\* Mutant of Settle: the stamp is written before the decision.
SettleSwapped(t) ==
    /\ \/ Step(t, "store", "mark") /\ lastAt' = job[t].ts /\ UNCHANGED <<lastRegime, crossed, job>>
       \/ Step(t, "mark", "decide") /\ StoreRegime(t) /\ UNCHANGED lastAt
    /\ UNCHANGED <<world, held, prevOi, cache>>

\* A thread has the regime it asked for: the decision in memory is replaced, then the stamp, with
\* the time it asked.
Settle(t) ==
    /\ \/ Step(t, "store", "mark") /\ StoreRegime(t) /\ UNCHANGED lastAt
       \/ /\ Step(t, "mark", "decide") /\ lastAt' = job[t].ts
          /\ UNCHANGED <<lastRegime, crossed, job>>
    /\ UNCHANGED <<world, held, prevOi, cache>>
----
\* The entry: the triggers agree, the regime allows it, and a contract can be bought.
Enters(j) == Combine(j.sigs, j.regime.bias)

MayEnter(j) ==
    /\ Enters(j) # None
    /\ AllowEntry(j.regime, Enters(j))
    /\ Pick(j.seen, Enters(j)) > 0

\* The levels follow the quote, the entry is what the fill cost.
DecideEntry ==
    /\ Step("feed", "decide", "idle") /\ job["feed"].kind = "entry"
    /\ LET j == job["feed"]
           side == Enters(j)
           strike == Pick(j.seen, side)
           quoted == j.seen.quotes[side][strike].ltp
       IN  held' = IF MayEnter(j)
                   THEN [side |-> side, strike |-> strike, at |-> now,
                         quoted |-> quoted, entry |-> quoted + Slippage,
                         resistance |-> PrimaryWall(j.seen.oi["CE"]),
                         support |-> PrimaryWall(j.seen.oi["PE"])]
                   ELSE held
    /\ job' = [job EXCEPT !["feed"] = NoJob]
    /\ UNCHANGED <<world, prevOi, recall, cache>>

\* The exit: evaluate with the quote and spot read at the start and the walls of now.
MustExit(j) ==
    \/ HardExit(j.pos, j.ltp, now)
    \/ SoftExit(j.pos, j.ltp, now, j.regime.bias, j.seen.spot, market.oi)

DecideExit(t) ==
    /\ Step(t, "decide", "idle") /\ job[t].kind = "exit"
    /\ held' = IF MustExit(job[t]) THEN NoPosition ELSE held
    /\ job' = [job EXCEPT ![t] = NoJob]
    /\ UNCHANGED <<world, prevOi, recall, cache>>

(***************************************************************************)
(* A read of Redis raises: of the chain at the start, of the market to     *)
(* describe, of the cache, of the walls after the regime.  Nothing catches *)
(* it but the bus, which drops the tick; the manager's thread ends.  A     *)
(* tick that fails at its start has done nothing yet.                      *)
(***************************************************************************)
Reads(t) ==
    \/ pc[t] = "recall" /\ ~Recent(t)
    \/ pc[t] = "lookup"
    \/ pc[t] = "decide" /\ job[t].kind = "exit"
    \/ t = "timer" /\ pc[t] = "idle" /\ Overdue

Raise(t) ==
    /\ Reads(t) /\ Fault
    /\ pc' = [pc EXCEPT ![t] = IF t = "timer" THEN "dead" ELSE "idle"]
    /\ job' = [job EXCEPT ![t] = NoJob]
    /\ UNCHANGED <<now, market, moves, held, prevOi, recall, cache>>

\* The process dies and comes back: what it held is closed by the reconciliation, the cache remains.
Restart ==
    /\ Fault
    /\ held' = NoPosition /\ prevOi' = NothingKnown
    /\ lastRegime' = Unasked /\ lastAt' = Never /\ crossed' = FALSE
    /\ pc' = [t \in Threads |-> "idle"]
    /\ job' = [t \in Threads |-> NoJob]
    /\ UNCHANGED <<now, market, moves, cache>>

Regime(t) ==
    ReadStamp(t) \/ ReadRegime(t) \/ Lookup(t) \/ Call(t) \/ Put(t) \/ Degrade(t) \/ Settle(t)

Thread(t) == Regime(t) \/ BeginExit(t) \/ DecideExit(t)

Next ==
    \/ Clock \/ MarketMoves \/ Restart
    \/ BeginEntry \/ DecideEntry
    \/ \E t \in Threads : Thread(t) \/ Raise(t)

(***************************************************************************)
(* The manager polls once a second and its calls return: the SDK gives up  *)
(* on a call by itself.  No tick has to come, so that the subscriber is    *)
(* only fair once it has begun.                                            *)
(***************************************************************************)
Fairness ==
    /\ WF_vars(Thread("timer"))
    /\ WF_vars(Regime("feed") \/ DecideEntry \/ DecideExit("feed"))

Spec == Init /\ [][Next]_vars /\ Fairness
----
\* The position and every job are what their thread's place says.
TypeOK ==
    /\ held.side \in Sides \cup {None}
    /\ \A t \in Threads :
          /\ pc[t] \in {"idle", "ask", "recall", "lookup", "call", "put", "degrade",
                       "store", "mark", "decide", "dead"}
          /\ job[t] = NoJob <=> pc[t] \in {"idle", "dead"}
          /\ pc[t] = "decide" => job[t].regime.bias \in Biases

(***************************************************************************)
(* The decision does not prefer a side: triggers and regime turned around  *)
(* give the opposite entry, unless both sides reach agreement under a      *)
(* neutral regime, when calls win (triggers.py combine_signals).           *)
(***************************************************************************)
Tied(j) == /\ \A s \in Sides : Votes(j.sigs, s) >= MinAgreement
           /\ j.regime.bias = "neutral"

EntryIsEvenHanded ==
    LET j == job["feed"]
        mirrored == [n \in 1..Len(j.sigs) |-> Flipped(j.sigs[n])]
    IN  (pc["feed"] = "decide" /\ j.kind = "entry" /\ ~Tied(j)) =>
            Combine(mirrored, FlippedBias(j.regime.bias)) = Flipped(Enters(j))

(***************************************************************************)
(* A regime that is consulted was worked out less than two intervals       *)
(* before the decision asked for it: one in the cache, one more in memory, *)
(* however long a call to the model took (engine.py _regime_for, cache.py).*)
(* It can be older when the threads have crossed: then the decision of a   *)
(* slow call can stand under the stamp of a later one.                     *)
(***************************************************************************)
RegimeIsRecent ==
    crossed \/ \A t \in Threads : pc[t] = "decide" => job[t].ts - job[t].asOf < 2 * Interval

(***************************************************************************)
(* Even then it had been stored less than an interval before the decision  *)
(* asked for it, so that it is older by no more than the call that got it: *)
(* the decision is written before its stamp and read after it, and a stamp *)
(* never runs ahead of what is under it (engine.py:441-454).               *)
(***************************************************************************)
AnswerIsFresh ==
    \A t \in Threads : pc[t] = "decide" => job[t].ts - job[t].stored < Interval

(***************************************************************************)
(* A position past its time stop is sold, whatever the model does, unless  *)
(* an error of Redis killed the manager (engine.py _manage_loop,           *)
(* _try_exit, client.py classify).                                         *)
(***************************************************************************)
OverdueIsSold == Overdue ~> (held = NoPosition \/ pc["timer"] = "dead")

(***************************************************************************)
(* The documentation's claim: a loss of the cap is "hard-killed by Python, *)
(* no LLM consulted".                                                      *)
(***************************************************************************)
CapNeedsNoModel ==
    \A t \in Threads : (pc[t] = "call" /\ job[t].kind = "exit") => job[t].pos.entry - job[t].ltp < MaxLoss

(***************************************************************************)
(* The documentation's claim: every answer is cached "so replays reproduce *)
(* the same decisions": what a decision rests on is what the cache says.   *)
(***************************************************************************)
DecisionsReproduce ==
    \A t \in Threads :
        (pc[t] = "decide" /\ Key(t) \in DOMAIN cache) =>
            job[t].regime = cache[Key(t)]
====
