---- MODULE OrderBook ----
(***************************************************************************)
(* The order process (orders/): what one trading signal goes through, from *)
(* the choice of a side to the position it changes.  The position and the  *)
(* session's realized profit live in memory and, one write after the       *)
(* other, in Redis, from which the next process takes them up; orders and  *)
(* fills go to Postgres before.  Every write can fail and is then skipped; *)
(* the process can die between any two.  One thread does it all.           *)
(*                                                                         *)
(* A fill is a side (1 buys, -1 sells), a quantity and a price, a whole    *)
(* number.  The code rounds an average to six digits; here one that is not *)
(* whole is cut to the next lower one, and leaves a mark.                  *)
(***************************************************************************)
EXTENDS Integers, Sequences, FiniteSets, FiniteSetsExt, SequencesExt

CONSTANTS
    Instruments, Quantities,
    Prices,    \* what an order can be filled at, after slippage and the tick grid
    Fee,       \* the fees of a fill
    MaxSignals, MaxDeaths, MaxFaults   \* bounds on the counters

ASSUME OrderAssumption ==
    /\ Instruments # {} /\ IsFiniteSet(Instruments)
    /\ Quantities \subseteq Nat \ {0} /\ Prices \subseteq Nat \ {0} /\ Fee \in Nat
    /\ MaxSignals \in Nat /\ MaxDeaths \in Nat /\ MaxFaults \in Nat

VARIABLES
    up, deaths,      \* the process runs; how often it died
    faults,          \* writes and reads that failed
    signals,         \* signals delivered so far
    pc,              \* where the handler of the last signal is
    fills,           \* history: every fill of the executor, in order
    orderRows, fillRows, rejected,   \* the tables orders and fills in Postgres
    book, session,   \* PositionBook._positions and _realized_pnl
    redis,           \* tpp:pos:* and tpp:pnl:realized
    told,            \* the fills announced on pnl.tick
    applied, saved,  \* history: the fills behind a position in memory, in Redis
    unstored,        \* history: the fills of which Postgres refused a row
    unsaved,         \* history: the fills Redis refused and no later save brought
    stale,           \* history: the last write of the session to Redis failed
    torn, blind,     \* history: a death split two saves; a start could not read Redis
    rounded          \* history: an average was rounded

process == <<up, deaths>>
postgres == <<orderRows, fillRows, rejected>>
memory == <<book, session, applied>>
disk == <<redis, saved>>
marks == <<unstored, unsaved, stale, torn, blind, rounded>>
vars == <<process, faults, signals, pc, fills, postgres, memory, disk, told, marks>>

Flat == [qty |-> 0, avg |-> 0, realized |-> 0]

Fill == [instrument : Instruments, side : {1, -1}, qty : Quantities, price : Prices]

\* The fill under way is the last one.
Number == Len(fills)

This == fills[Number]

AbsVal(n) == IF n < 0 THEN -n ELSE n

Signed(f) == f.side * f.qty
----
(***************************************************************************)
(* PositionBook.apply_fill: average cost.  A fill in the direction of the  *)
(* position is blended into its average; one against it realizes the       *)
(* difference on what it closes, and turns the position if it is larger.   *)
(***************************************************************************)
SameDirection(pos, f) == pos.qty * f.side >= 0

\* Mutant of Closing: the fill is taken for no larger than the position.
ClosingAll(pos, f) == f.qty

Closing(pos, f) == Min({AbsVal(pos.qty), f.qty})

DeltaRealized(pos, f) ==
    (IF SameDirection(pos, f) THEN 0 ELSE -f.side * (f.price - pos.avg) * Closing(pos, f)) - Fee

NewAverage(pos, f) ==
    IF SameDirection(pos, f)
    THEN (pos.avg * AbsVal(pos.qty) + f.price * f.qty) \div (AbsVal(pos.qty) + f.qty)
    ELSE IF f.qty > AbsVal(pos.qty) THEN f.price
    ELSE IF f.qty = AbsVal(pos.qty) THEN 0 ELSE pos.avg

\* The average of a blend is whole: nothing is rounded away.
StaysWhole(pos, f) ==
    SameDirection(pos, f) =>
        (pos.avg * AbsVal(pos.qty) + f.price * f.qty) % (AbsVal(pos.qty) + f.qty) = 0

AfterFill(pos, f) ==
    [qty |-> pos.qty + Signed(f), avg |-> NewAverage(pos, f),
     realized |-> pos.realized + DeltaRealized(pos, f)]
----
Init ==
    /\ up = TRUE /\ deaths = 0 /\ faults = 0 /\ signals = 0 /\ pc = "idle"
    /\ fills = <<>> /\ orderRows = {} /\ fillRows = {} /\ rejected = 0
    /\ book = [i \in Instruments |-> Flat] /\ session = 0
    /\ redis = [book |-> book, session |-> 0]
    /\ told = {}
    /\ applied = [i \in Instruments |-> <<>>] /\ saved = applied
    /\ unstored = {} /\ unsaved = {} /\ stale = FALSE /\ torn = FALSE /\ blind = FALSE
    /\ rounded = FALSE

Fault ==
    /\ faults < MaxFaults
    /\ faults' = faults + 1

\* A signal is delivered while the handler is free.
Deliver ==
    /\ up /\ pc = "idle" /\ signals < MaxSignals
    /\ signals' = signals + 1

(***************************************************************************)
(* _on_signal up to the executor's answer.  BUY and SELL keep their side,  *)
(* EXIT takes the one against the position; the quantity is the signal's   *)
(* or the default.                                                         *)
(***************************************************************************)
SideOf(action, i) ==
    CASE action = "BUY" -> 1
      [] action = "SELL" -> -1
      [] action = "EXIT" -> IF book[i].qty > 0 THEN -1 ELSE 1

HasEffect(action, i) == action # "EXIT" \/ book[i].qty # 0

ExecuteOrder(i, action, qty, price) ==
    /\ Deliver
    /\ HasEffect(action, i)
    /\ fills' = Append(fills, [instrument |-> i, side |-> SideOf(action, i),
                               qty |-> qty, price |-> price])
    /\ pc' = "order"
    /\ UNCHANGED <<process, faults, postgres, memory, disk, told, marks>>

\* No reference price: the executor refuses, and the order is stored as rejected.
RejectOrder(i, action) ==
    /\ Deliver
    /\ HasEffect(action, i)
    /\ \/ rejected' = rejected + 1 /\ UNCHANGED faults
       \/ Fault /\ UNCHANGED rejected
    /\ UNCHANGED <<process, pc, fills, orderRows, fillRows, memory, disk, told, marks>>

(***************************************************************************)
(* HOLD, an EXIT of nothing, a signal or an order that does not validate,  *)
(* a failing read of the spot, and a SELL so near the tick floor that its  *)
(* fill price rounds to zero, which Fill refuses: the signal is gone.      *)
(***************************************************************************)
IgnoreSignal ==
    /\ Deliver
    /\ UNCHANGED <<process, faults, pc, fills, postgres, memory, disk, told, marks>>

\* _persist_filled and _persist_fill log a failure and go on.
InsertOrder(ok) ==
    /\ up /\ pc = "order"
    /\ pc' = "fill"
    /\ IF ok THEN orderRows' = orderRows \cup {Number} /\ UNCHANGED <<faults, unstored>>
             ELSE Fault /\ unstored' = unstored \cup {Number} /\ UNCHANGED orderRows
    /\ UNCHANGED <<process, signals, fills, fillRows, rejected, memory, disk, told,
                   unsaved, stale, torn, blind, rounded>>

InsertFill(ok) ==
    /\ up /\ pc = "fill"
    /\ pc' = "apply"
    /\ IF ok THEN fillRows' = fillRows \cup {Number} /\ UNCHANGED <<faults, unstored>>
             ELSE Fault /\ unstored' = unstored \cup {Number} /\ UNCHANGED fillRows
    /\ UNCHANGED <<process, signals, fills, orderRows, rejected, memory, disk, told,
                   unsaved, stale, torn, blind, rounded>>

\* apply_fill in memory, under the book's lock.
ApplyFill ==
    LET i == This.instrument
    IN  /\ up /\ pc = "apply"
        /\ book' = [book EXCEPT ![i] = AfterFill(@, This)]
        /\ session' = session + DeltaRealized(book[i], This)
        /\ applied' = [applied EXCEPT ![i] = Append(@, Number)]
        /\ rounded' = (rounded \/ ~StaysWhole(book[i], This))
        /\ pc' = "position"
        /\ UNCHANGED <<process, faults, signals, fills, postgres, disk, told,
                       unstored, unsaved, stale, torn, blind>>

\* Mutant of SavePosition: a position that was closed is not written any more.
SaveOpenPosition(ok) ==
    LET i == This.instrument
    IN  /\ up /\ pc = "position"
        /\ pc' = "session"
        /\ IF ~ok THEN Fault /\ unsaved' = unsaved \cup {Number} /\ UNCHANGED disk
           ELSE /\ IF book[i].qty = 0 THEN UNCHANGED disk
                   ELSE /\ redis' = [redis EXCEPT !.book[i] = book[i]]
                        /\ saved' = [saved EXCEPT ![i] = applied[i]]
                /\ UNCHANGED <<faults, unsaved>>
        /\ UNCHANGED <<process, signals, fills, postgres, memory, told,
                       unstored, stale, torn, blind, rounded>>

\* _persist_pos and _persist_realized: a failure is logged.
SavePosition(ok) ==
    LET i == This.instrument
    IN  /\ up /\ pc = "position"
        /\ pc' = "session"
        /\ IF ok THEN /\ redis' = [redis EXCEPT !.book[i] = book[i]]
                      /\ saved' = [saved EXCEPT ![i] = applied[i]]
                      /\ unsaved' = unsaved \ ToSet(applied[i])
                      /\ UNCHANGED faults
                 ELSE Fault /\ unsaved' = unsaved \cup {Number} /\ UNCHANGED disk
        /\ UNCHANGED <<process, signals, fills, postgres, memory, told,
                       unstored, stale, torn, blind, rounded>>

SaveSession(ok) ==
    /\ up /\ pc = "session"
    /\ pc' = "publish"
    /\ IF ok THEN redis' = [redis EXCEPT !.session = session] /\ stale' = FALSE /\ UNCHANGED faults
             ELSE Fault /\ stale' = TRUE /\ UNCHANGED redis
    /\ UNCHANGED <<process, signals, fills, postgres, memory, saved, told,
                   unstored, unsaved, torn, blind, rounded>>

\* Orders, fills and pnl.tick go out in one step; the bus swallows its failures.
Publish(ok) ==
    /\ up /\ pc = "publish"
    /\ pc' = "idle"
    /\ IF ok THEN told' = told \cup {Number} /\ UNCHANGED faults
             ELSE Fault /\ UNCHANGED told
    /\ UNCHANGED <<process, signals, fills, postgres, memory, disk, marks>>
----
(***************************************************************************)
(* The process dies, or stops between two signals.  What Redis holds is    *)
(* torn if a position there is ahead of the session, or the other way.     *)
(***************************************************************************)
Die ==
    /\ up /\ deaths < MaxDeaths
    /\ deaths' = deaths + 1
    /\ up' = FALSE /\ pc' = "idle"
    /\ torn' = (torn \/ stale \/ unsaved # {} \/ pc = "session")
    /\ stale' = FALSE
    /\ book' = [i \in Instruments |-> Flat] /\ session' = 0
    /\ applied' = [i \in Instruments |-> <<>>]
    /\ UNCHANGED <<faults, signals, fills, postgres, disk, told,
                   unstored, unsaved, blind, rounded>>

\* Mutant of Hydrate: the session's profit starts from zero.
HydratePositions ==
    /\ ~up
    /\ up' = TRUE
    /\ book' = redis.book /\ session' = 0 /\ applied' = saved
    /\ UNCHANGED <<deaths, faults, signals, pc, fills, postgres, disk, told, marks>>

\* _hydrate, when it can read all of Redis.
Hydrate ==
    /\ ~up
    /\ up' = TRUE
    /\ book' = redis.book /\ session' = redis.session /\ applied' = saved
    /\ UNCHANGED <<deaths, faults, signals, pc, fills, postgres, disk, told, marks>>

(***************************************************************************)
(* _hydrate, when a read fails: the exception is logged, and the process   *)
(* trades on with the positions it has read so far and no profit.          *)
(***************************************************************************)
HydrateFails ==
    /\ ~up
    /\ Fault
    /\ up' = TRUE /\ blind' = TRUE
    /\ \E read \in SUBSET Instruments :
            /\ book' = [i \in Instruments |-> IF i \in read THEN redis.book[i] ELSE Flat]
            /\ applied' = [i \in Instruments |-> IF i \in read THEN saved[i] ELSE <<>>]
    /\ session' = 0
    /\ UNCHANGED <<deaths, signals, pc, fills, postgres, disk, told,
                   unstored, unsaved, stale, torn, rounded>>

Actions == {"BUY", "SELL", "EXIT"}

OnSignal ==
    \/ \E i \in Instruments, action \in Actions, qty \in Quantities, price \in Prices :
            ExecuteOrder(i, action, qty, price)
    \/ \E i \in Instruments, action \in Actions : RejectOrder(i, action)
    \/ IgnoreSignal

Next ==
    \/ OnSignal
    \/ \E ok \in BOOLEAN : InsertOrder(ok) \/ InsertFill(ok)
    \/ ApplyFill
    \/ \E ok \in BOOLEAN : SavePosition(ok) \/ SaveSession(ok) \/ Publish(ok)
    \/ Die \/ Hydrate \/ HydrateFails

Spec == Init /\ [][Next]_vars
----
(***************************************************************************)
(* Properties.                                                             *)
(***************************************************************************)

AnyPosition == [qty : Int, avg : 0..Max(Prices), realized : Int]

TypeOK ==
    /\ up \in BOOLEAN /\ deaths \in 0..MaxDeaths /\ faults \in 0..MaxFaults
    /\ signals \in 0..MaxSignals /\ rejected \in 0..MaxSignals
    /\ pc \in {"idle", "order", "fill", "apply", "position", "session", "publish"}
    /\ fills \in Seq(Fill)
    /\ orderRows \subseteq 1..Number /\ fillRows \subseteq 1..Number /\ told \subseteq 1..Number
    /\ book \in [Instruments -> AnyPosition] /\ session \in Int
    /\ redis \in [book : [Instruments -> AnyPosition], session : Int]
    /\ applied \in [Instruments -> Seq(1..Number)] /\ saved \in [Instruments -> Seq(1..Number)]
    /\ unstored \subseteq 1..Number /\ unsaved \subseteq 1..Number
    /\ stale \in BOOLEAN /\ torn \in BOOLEAN /\ blind \in BOOLEAN /\ rounded \in BOOLEAN

(***************************************************************************)
(* Average-cost accounting balances over openings, additions, partial      *)
(* closes, turns and restarts: the quantity is the sum of the fills behind *)
(* a position, and its realized profit is the cash they brought, less      *)
(* their fees, plus what the average says the rest of the position cost,   *)
(* as long as no average was rounded.  The average lies between the prices *)
(* of two of the fills, and a flat position has none.                      *)
(***************************************************************************)
FillsOf(numbers, made) == [k \in DOMAIN numbers |-> made[numbers[k]]]

Balanced(pos, own, exact) ==
    LET paid == SumFunction([k \in DOMAIN own |-> Signed(own[k]) * own[k].price])
    IN  /\ pos.qty = SumFunction([k \in DOMAIN own |-> Signed(own[k])])
        /\ exact => pos.realized = pos.qty * pos.avg - paid - Fee * Len(own)
        /\ IF pos.qty = 0 THEN pos.avg = 0
           ELSE \E k, l \in DOMAIN own : own[k].price <= pos.avg /\ pos.avg <= own[l].price

CostBasis == \A i \in Instruments : Balanced(book[i], FillsOf(applied[i], fills), ~rounded)

(***************************************************************************)
(* The session's profit is the sum of the positions' profits, after any    *)
(* number of restarts, unless a death split the two writes to Redis, a     *)
(* refused write was never repeated, or a start could not read Redis.      *)
(***************************************************************************)
SessionIsSum ==
    torn \/ blind \/ session = SumFunction([i \in Instruments |-> book[i].realized])

Booked == UNION {ToSet(IF up THEN applied[i] ELSE saved[i]) : i \in Instruments}

InHand == IF pc = "idle" THEN {} ELSE {Number}

(***************************************************************************)
(* A death costs the book at most the one fill under way, on top of those  *)
(* Redis refused: the others are in the book that follows, although they   *)
(* were stored as orders and fills before (README.md: "Restart-safe").     *)
(***************************************************************************)
LostFillsAreBounded ==
    blind \/ Cardinality(((1..Number) \ (Booked \cup InHand)) \ unsaved) <= deaths

(***************************************************************************)
(* What was announced on pnl.tick is in the book for good, whenever the    *)
(* process dies, unless Redis refused it or could not be read.             *)
(***************************************************************************)
AnnouncedSurvives == blind \/ told \subseteq Booked \cup unsaved

(***************************************************************************)
(* The book is never ahead of Postgres: a fill in a position, in memory or *)
(* in Redis, has its order and its fill stored, unless the insert failed.  *)
(***************************************************************************)
BookNeverAhead ==
    \A i \in Instruments :
        ToSet(applied[i]) \cup ToSet(saved[i]) \subseteq (orderRows \cap fillRows) \cup unstored
====
