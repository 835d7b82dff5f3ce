---- MODULE ScalpEngineProofs ----
(***************************************************************************)
(* Theorems about ScalpEngine, for every set of indices and contracts,     *)
(* every limit and every bound.                                            *)
(***************************************************************************)
EXTENDS ScalpEngine, FiniteSetTheorems, WellFoundedInduction, TLAPS

Labels == {"idle", "sell", "clear", "book", "halt", "gate", "enter", "assign", "dead"}

(***************************************************************************)
(* What a thread carries fits where it is: a position to sell or to enter  *)
(* is a real one, and only the subscriber, on an option tick, ever looks   *)
(* for an entry.                                                           *)
(***************************************************************************)
ThreadsOK ==
    /\ pc \in [Thread -> Labels]
    /\ job \in [Thread -> Job]
    /\ \A t \in Thread : pc[t] = "sell" => job[t].pos \in Position
    /\ pc["sub"] \in {"enter", "assign"} => job["sub"].pos \in Position
    /\ pc["manage"] \notin {"gate", "enter", "assign"}
    /\ job["manage"].tick = "timer"

\* While the process is down its memory is empty.
DownOK == ~up => /\ pc = [t \in Thread |-> "idle"]
                 /\ position = All(NoPosition)

TypeInv == TypeOK /\ ThreadsOK /\ DownOK

----
\* Idle is the job of a thread that carries nothing.
LEMMA IdleIsJob == Idle \in Job /\ Idle.tick = "timer"
<1>1. (CHOOSE i \in Indices : TRUE) \in Indices
    BY IndicesAssumption
<1>2. QED
    BY <1>1 DEF Idle, Job, Marks

\* No position is not a position.
LEMMA NoPositionIsNone == NoPosition \notin Position
BY DEF NoPosition, Position

\* A thread that moves keeps ThreadsOK when its new job fits its new label.
LEMMA GotoKeepsThreads ==
    ASSUME ThreadsOK, NEW t \in Thread, NEW label \in Labels, NEW j \in Job,
           Goto(t, label, j),
           label \in {"sell", "enter", "assign"} => j.pos \in Position,
           t = "manage" => /\ label \notin {"gate", "enter", "assign"}
                           /\ j.tick = "timer"
    PROVE  ThreadsOK'
BY DEF Goto, ThreadsOK, Thread

\* What AfterExit does to the threads.
LEMMA AfterExitKeepsThreads ==
    ASSUME ThreadsOK, NEW t \in Thread, NEW i \in Indices,
           NEW tick \in {"index", "option", "timer"},
           t = "manage" => tick = "timer",
           AfterExit(t, i, tick)
    PROVE  ThreadsOK'
<1>1. CASE tick = "option"
    <2>1. [Idle EXCEPT !.index = i, !.tick = tick] \in Job
        BY IdleIsJob DEF Job
    <2>2. QED
        BY <1>1, <2>1, GotoKeepsThreads DEF AfterExit, Labels
<1>2. CASE tick # "option"
    BY <1>2, IdleIsJob, GotoKeepsThreads DEF AfterExit, Finish, Labels
<1>3. QED
    BY <1>1, <1>2

\* What TryExit does to the threads: end the handler, look for an entry, or go on to sell.
LEMMA TryExitKeepsThreads ==
    ASSUME TypeOK, ThreadsOK, NEW t \in Thread, NEW i \in Indices, Held(i),
           NEW mark \in Marks, NEW tick \in {"index", "option", "timer"},
           t = "manage" => tick = "timer",
           TryExit(t, i, mark, tick)
    PROVE  ThreadsOK'
<1>1. CASE Raise(t)
    BY <1>1, IdleIsJob, GotoKeepsThreads DEF Raise, Labels
<1>2. CASE KeepPosition(t, i, mark, tick)
    BY <1>2, AfterExitKeepsThreads DEF KeepPosition
<1>3. CASE DecideExit(t, i, mark, tick)
    <2>1. position[i] \in Position
        BY DEF TypeOK, Held
    <2>2. [index |-> i, pos |-> position[i], mark |-> mark, tick |-> tick] \in Job
        BY <2>1 DEF Job
    <2>3. QED
        BY <1>3, <2>1, <2>2, GotoKeepsThreads DEF DecideExit, Labels
<1>4. QED
    BY <1>1, <1>2, <1>3 DEF TryExit
----
\* A line about a key and a trade is a line of the log.
LEMMA LinesAreLines ==
    ASSUME NEW key \in Keys, NEW n \in Nat
    PROVE  /\ EntryLine(key, n) \in Line
           /\ \A who \in Writers : ExitLine(key, n, who) \in Line
BY DEF EntryLine, ExitLine, Line

(***************************************************************************)
(* What the reconciliation appends are exit lines, each about a key and a  *)
(* trade that a line of the log is about.                                  *)
(***************************************************************************)
LEMMA SyntheticExitsAreExits ==
    ASSUME NEW events \in Seq(Line), NEW exits \in SyntheticExits(events)
    PROVE  /\ exits \in Seq(Line)
           /\ \A n \in 1..Len(exits) :
                /\ exits[n].kind = "exit"
                /\ \E m \in 1..Len(events) : exits[n].trade = events[m].trade
<1>1. PICK s \in SetToSeqs(PairEntries(events)) :
        exits = [n \in DOMAIN s |-> ExitLine(events[s[n]].key, events[s[n]].trade, "reconcile")]
    BY DEF SyntheticExits
<1> DEFINE P == PairEntries(events)
<1>2. P \subseteq 1..Len(events) /\ IsFiniteSet(P) /\ Cardinality(P) \in Nat
    <2>1. P \subseteq 1..Len(events)
        BY DEF PairEntries
    <2>2. IsFiniteSet(1..Len(events))
        BY FS_Interval
    <2>3. QED
        BY <2>1, <2>2, FS_Subset, FS_CardinalityType
<1>3. s \in [1..Cardinality(P) -> P]
    BY DEF SetToSeqs
<1>4. \A n \in 1..Cardinality(P) :
        /\ exits[n] \in Line
        /\ exits[n].kind = "exit"
        /\ s[n] \in 1..Len(events) /\ exits[n].trade = events[s[n]].trade
    <2>1. TAKE n \in 1..Cardinality(P)
    <2>2. s[n] \in 1..Len(events)
        BY <1>2, <1>3
    <2>3. events[s[n]].key \in Keys /\ events[s[n]].trade \in Nat
        <3>1. events[s[n]] \in Line
            BY <2>2
        <3>2. QED
            BY <3>1 DEF Line
    <2>4. exits[n] = ExitLine(events[s[n]].key, events[s[n]].trade, "reconcile")
        BY <1>1, <1>3
    <2>5. QED
        <3>1. "reconcile" \in Writers
            BY DEF Writers
        <3>2. QED
            BY <2>2, <2>3, <2>4, <3>1 DEF ExitLine, Line
<1>5. exits \in Seq(Line) /\ Len(exits) = Cardinality(P)
    <2>1. exits \in [1..Cardinality(P) -> Line]
        BY <1>1, <1>3, <1>4
    <2>2. QED
        BY <1>2, <2>1
<1>6. QED
    BY <1>4, <1>5

----
\* Today is a number, and so is every date.
LEMMA DatesAreNumbers == \A ts \in Nat : Date(ts) \in Nat
<1>1. TAKE ts \in Nat
<1>2. {m \in Midnights : m <= ts} \subseteq Midnights /\ IsFiniteSet(Midnights)
    BY LimitsAssumption
<1>3. Cardinality({m \in Midnights : m <= ts}) \in Nat
    BY <1>2, FS_Subset, FS_CardinalityType
<1>4. QED
    BY <1>3 DEF Date

\* The state of a started process is well typed.
LEMMA InitTyped == Init => TypeInv
<1> SUFFICES ASSUME Init PROVE TypeInv
    OBVIOUS
<1>1. ThreadsOK
    BY IdleIsJob DEF Init, ThreadsOK, Thread, Labels
<1>2. DownOK
    BY DEF Init, DownOK
<1>3. TypeOK
    BY <1>1, LimitsAssumption DEF Init, TypeOK, All, ThreadsOK, Labels
<1>4. QED
    BY <1>1, <1>2, <1>3 DEF TypeInv

\* A pub/sub message that finds the subscriber idle keeps the types.
LEMMA MessageTyped ==
    ASSUME TypeInv, NEW i \in Indices, OnIndexTick(i) \/ OnOptionTick(i)
    PROVE  TypeInv'
<1> USE DEF TypeInv
<1>1. ThreadsOK'
    <2>1. CASE OnIndexTick(i)
        <3>1. CASE Held(i)
            <4>1. PICK mark \in Marks : TryExit("sub", i, mark, "index")
                BY <2>1, <3>1 DEF OnIndexTick
            <4>2. QED
                BY <3>1, <4>1, TryExitKeepsThreads DEF Thread
        <3>2. CASE ~Held(i)
            BY <2>1, <3>2 DEF OnIndexTick, threads, ThreadsOK
        <3>3. QED
            BY <3>1, <3>2
    <2>2. CASE OnOptionTick(i)
        <3>1. CASE Held(i)
            <4>1. PICK mark \in Marks : TryExit("sub", i, mark, "option")
                BY <2>2, <3>1 DEF OnOptionTick
            <4>2. QED
                BY <3>1, <4>1, TryExitKeepsThreads DEF Thread
        <3>2. CASE ~Held(i)
            BY <2>2, <3>2, AfterExitKeepsThreads DEF OnOptionTick, Thread
        <3>3. QED
            BY <3>1, <3>2
    <2>3. QED
        BY <2>1, <2>2
<1>2. resetDay' \in [Indices -> Nat] /\ losses' \in [Indices -> Nat]
      /\ lastLoss' \in [Indices -> 0..MaxNow] /\ halted' \in [Indices -> BOOLEAN]
    <2>1. CASE OnIndexTick(i)
        <3>1. Today \in Nat
            BY DatesAreNumbers DEF Today, TypeOK
        <3>2. ResetIfNewDay
            BY <2>1 DEF OnIndexTick
        <3>3. /\ resetDay' = [k \in Indices |-> IF k \in DueForReset THEN Today ELSE resetDay[k]]
              /\ losses' = [k \in Indices |-> IF k \in DueForReset THEN 0 ELSE losses[k]]
              /\ lastLoss' = [k \in Indices |-> IF k \in DueForReset THEN 0 ELSE lastLoss[k]]
              /\ halted' = [k \in Indices |-> IF k \in DueForReset THEN FALSE ELSE halted[k]]
            BY <3>2 DEF ResetIfNewDay
        <3>4. halted' \in [Indices -> BOOLEAN]
            BY <3>3, Zenon DEF TypeOK
        <3>5. resetDay' \in [Indices -> Nat] /\ losses' \in [Indices -> Nat]
              /\ lastLoss' \in [Indices -> 0..MaxNow]
            BY <3>1, <3>3, LimitsAssumption DEF TypeOK
        <3>6. QED
            BY <3>4, <3>5
    <2>2. CASE OnOptionTick(i)
        BY <2>2 DEF OnOptionTick, counters, TypeOK
    <2>3. QED
        BY <2>1, <2>2
<1>3. /\ up /\ UNCHANGED <<now, up, crashes, trades, log, position>>
      /\ known' \subseteq Indices
    BY DEF OnIndexTick, OnOptionTick, process, audit, TypeOK
<1>4. QED
    BY <1>1, <1>2, <1>3 DEF TypeOK, ThreadsOK, DownOK, Labels

\* A pass of the manager keeps the types.
LEMMA ManagePassTyped ==
    ASSUME TypeInv, NEW i \in Indices, NEW mark \in Marks, ManagePass(i, mark)
    PROVE  TypeInv'
<1> USE DEF TypeInv
<1>1. ThreadsOK'
    <2>1. CASE Held(i) /\ now >= position[i].stopAt
        BY <2>1, TryExitKeepsThreads DEF ManagePass, Thread
    <2>2. CASE ~(Held(i) /\ now >= position[i].stopAt)
        BY <2>2 DEF ManagePass, threads, ThreadsOK
    <2>3. QED
        BY <2>1, <2>2
<1>2. QED
    BY <1>1 DEF ManagePass, process, audit, counters, TypeOK, ThreadsOK, DownOK, Labels

\* The steps of a close keep the types.
LEMMA CloseTyped ==
    ASSUME TypeInv, NEW t \in Thread, Close(t)
    PROVE  TypeInv'
<1> USE DEF TypeInv
<1>1. job[t] \in Job /\ job[t].index \in Indices /\ job[t].mark \in Marks
      /\ (t = "manage" => job[t].tick = "timer")
    BY DEF ThreadsOK, Job
<1>2. CASE SellPosition(t)
    <2>1. job[t].pos \in Position
        BY <1>2 DEF SellPosition, ThreadsOK
    <2>2. log' \in Seq(Line)
        <3>1. ExitLine(<<job[t].index, job[t].pos.contract>>, job[t].pos.trade, t) \in Line
            BY <1>1, <2>1, LinesAreLines, LimitsAssumption DEF Position, Keys, Thread, Writers
        <3>2. CASE job[t].mark = "floor"
            BY <1>2, <3>2 DEF SellPosition, TypeOK
        <3>3. CASE job[t].mark # "floor"
            <4>1. log' = Append(log, ExitLine(<<job[t].index, job[t].pos.contract>>,
                                              job[t].pos.trade, t))
                BY <1>2, <3>3 DEF SellPosition
            <4>2. QED
                BY <3>1, <4>1 DEF TypeOK
        <3>4. QED
            BY <3>2, <3>3
    <2>3. ThreadsOK'
        <3>1. CASE Raise(t)
            BY <3>1, IdleIsJob, GotoKeepsThreads DEF Raise, Labels
        <3>2. CASE Goto(t, "clear", [job[t] EXCEPT !.pos = NoPosition])
            <4>1. /\ [job[t] EXCEPT !.pos = NoPosition] \in Job
                  /\ [job[t] EXCEPT !.pos = NoPosition].tick = job[t].tick
                BY <1>1 DEF Job
            <4>2. QED
                BY <1>1, <3>2, <4>1, GotoKeepsThreads DEF Labels
        <3>3. QED
            BY <1>2, <3>1, <3>2 DEF SellPosition
    <2>4. QED
        BY <1>2, <2>2, <2>3
        DEF SellPosition, process, counters, TypeOK, ThreadsOK, DownOK, Labels
<1>3. CASE ClearPosition(t)
    <2>1. ThreadsOK'
        BY <1>1, <1>3, GotoKeepsThreads DEF ClearPosition, Labels
    <2>2. position' \in [Indices -> Position \cup {NoPosition}]
        BY <1>1, <1>3 DEF ClearPosition, TypeOK
    <2>3. QED
        BY <1>3, <2>1, <2>2
        DEF ClearPosition, process, audit, counters, TypeOK, ThreadsOK, DownOK, Labels
<1>4. CASE BookResult(t)
    <2>1. ThreadsOK'
        <3>1. CASE job[t].mark # "win"
            BY <1>1, <1>4, <3>1, GotoKeepsThreads DEF BookResult, Labels
        <3>2. CASE job[t].mark = "win"
            BY <1>1, <1>4, <3>2, AfterExitKeepsThreads DEF BookResult, Job
        <3>3. QED
            BY <3>1, <3>2
    <2>2. losses' \in [Indices -> Nat] /\ lastLoss' \in [Indices -> 0..MaxNow]
        BY <1>1, <1>4, LimitsAssumption DEF BookResult, TypeOK
    <2>3. QED
        BY <1>4, <2>1, <2>2
        DEF BookResult, process, audit, TypeOK, ThreadsOK, DownOK, Labels
<1>5. CASE HaltIndex(t)
    <2>1. ThreadsOK'
        BY <1>1, <1>5, AfterExitKeepsThreads DEF HaltIndex, Job
    <2>2. halted' \in [Indices -> BOOLEAN]
        <3>1. (halted[job[t].index] \/ job[t].mark = "big"
                    \/ losses[job[t].index] >= CircuitLosses) \in BOOLEAN
            OBVIOUS
        <3>2. QED
            BY <1>1, <1>5, <3>1, Zenon DEF HaltIndex, TypeOK
    <2>3. QED
        BY <1>5, <2>1, <2>2
        DEF HaltIndex, process, audit, TypeOK, ThreadsOK, DownOK, Labels
<1>6. QED
    BY <1>2, <1>3, <1>4, <1>5 DEF Close

\* The steps of an entry keep the types.
LEMMA TryEntryTyped ==
    ASSUME TypeInv, TryEntry
    PROVE  TypeInv'
<1> USE DEF TypeInv
<1> DEFINE j == job["sub"]
<1>1. j \in Job /\ j.index \in Indices /\ "sub" \in Thread /\ "sub" # "manage"
    BY DEF ThreadsOK, Job, Thread
<1>2. ASSUME NEW c \in Contracts, PassGate(c)
      PROVE  TypeInv'
    <2> DEFINE pos == [trade |-> trades + 1, contract |-> c, stopAt |-> now + TimeStop]
    <2>1. trades + 1 \in 1..MaxTrades /\ trades' = trades + 1
        BY <1>2, LimitsAssumption DEF PassGate, TypeOK
    <2>2. pos \in Position
        BY <2>1, LimitsAssumption DEF Position, TypeOK
    <2>3. [j EXCEPT !.pos = pos] \in Job /\ [j EXCEPT !.pos = pos].pos = pos
        BY <1>1, <2>2 DEF Job
    <2>4. ThreadsOK'
        BY <1>1, <1>2, <2>2, <2>3, GotoKeepsThreads DEF PassGate, Labels
    <2>5. /\ up /\ up' = up /\ now' = now /\ crashes' = crashes /\ log' = log /\ known' = known
          /\ resetDay' = resetDay /\ losses' = losses /\ lastLoss' = lastLoss
          /\ halted' = halted /\ position' = position
        BY <1>2 DEF PassGate, process, counters
    <2>6. trades' \in 0..MaxTrades
        BY <2>1, LimitsAssumption
    <2>7. TypeOK'
        BY <2>4, <2>5, <2>6, Zenon DEF TypeOK, ThreadsOK, Labels
    <2>8. QED
        BY <2>4, <2>5, <2>7 DEF DownOK
<1>3. CASE NoEntry
    <2>1. ThreadsOK'
        BY <1>1, <1>3, IdleIsJob, GotoKeepsThreads DEF NoEntry, Finish, Labels
    <2>2. QED
        BY <1>3, <2>1
        DEF NoEntry, process, audit, counters, TypeOK, ThreadsOK, DownOK, Labels
<1>4. CASE EnterTrade
    <2>1. j.pos \in Position
        BY <1>4 DEF EnterTrade, ThreadsOK
    <2>2. EntryLine(<<j.index, j.pos.contract>>, j.pos.trade) \in Line
        BY <1>1, <2>1, LinesAreLines, LimitsAssumption DEF Position, Keys
    <2>3. log' \in Seq(Line)
        BY <1>4, <2>2 DEF EnterTrade, TypeOK
    <2>4. ThreadsOK'
        BY <1>1, <1>4, <2>1, GotoKeepsThreads DEF EnterTrade, Labels
    <2>5. QED
        BY <1>4, <2>3, <2>4
        DEF EnterTrade, process, counters, TypeOK, ThreadsOK, DownOK, Labels
<1>5. CASE AssignPosition
    <2>1. j.pos \in Position
        BY <1>5 DEF AssignPosition, ThreadsOK
    <2>2. position' \in [Indices -> Position \cup {NoPosition}]
        BY <1>1, <1>5, <2>1 DEF AssignPosition, TypeOK
    <2>3. ThreadsOK'
        BY <1>1, <1>5, IdleIsJob, GotoKeepsThreads DEF AssignPosition, Finish, Labels
    <2>4. QED
        BY <1>5, <2>2, <2>3
        DEF AssignPosition, process, audit, counters, TypeOK, ThreadsOK, DownOK, Labels
<1>6. QED
    BY <1>2, <1>3, <1>4, <1>5 DEF TryEntry

\* The clock, a crash and a restart keep the types.
LEMMA EnvironmentTyped ==
    ASSUME TypeInv, Tick \/ Crash \/ Restart
    PROVE  TypeInv'
<1> USE DEF TypeInv
<1>1. CASE Tick
    BY <1>1, LimitsAssumption
    DEF Tick, process, audit, counters, threads, TypeOK, ThreadsOK, DownOK
<1>2. CASE Crash
    <2>1. ThreadsOK'
        BY <1>2, IdleIsJob DEF Crash, ThreadsOK, Thread, Labels
    <2>2. halted' \in [Indices -> BOOLEAN]
        BY <1>2, Zenon DEF Crash, All
    <2>3. /\ crashes' \in 0..MaxCrashes
          /\ position' \in [Indices -> Position \cup {NoPosition}]
          /\ resetDay' \in [Indices -> Nat] /\ losses' \in [Indices -> Nat]
          /\ lastLoss' \in [Indices -> 0..MaxNow]
        BY <1>2, LimitsAssumption DEF Crash, All, TypeOK
    <2>4. DownOK'
        BY <1>2 DEF Crash, DownOK, All
    <2>5. QED
        BY <1>2, <2>1, <2>2, <2>3, <2>4 DEF Crash, audit, TypeOK, ThreadsOK, Labels
<1>3. CASE Restart
    <2>1. log' \in Seq(Line)
        BY <1>3, SyntheticExitsAreExits DEF Restart, TypeOK
    <2>2. QED
        BY <1>3, <2>1 DEF Restart, counters, threads, TypeOK, ThreadsOK, DownOK
<1>4. QED
    BY <1>1, <1>2, <1>3

\* Every step keeps the types.
LEMMA StepTyped == TypeInv /\ [Next]_vars => TypeInv'
<1> SUFFICES ASSUME TypeInv, [Next]_vars PROVE TypeInv'
    OBVIOUS
<1>1. CASE UNCHANGED vars
    BY <1>1 DEF vars, process, audit, counters, threads, TypeInv, TypeOK, ThreadsOK, DownOK
<1>2. CASE Next
    BY <1>2, MessageTyped, ManagePassTyped, CloseTyped, TryEntryTyped, EnvironmentTyped
    DEF Next
<1>3. QED
    BY <1>1, <1>2

(***************************************************************************)
(* The state of the critical layer keeps its types, and its two threads    *)
(* carry what their place in the code needs.                               *)
(***************************************************************************)
THEOREM TypeCorrect == Spec => []TypeInv
BY InitTyped, StepTyped, PTL DEF Spec

(***************************************************************************)
(* The type invariant the run checks.                                      *)
(***************************************************************************)
THEOREM TypesHold == Spec => []TypeOK
<1>1. TypeInv => TypeOK
    BY DEF TypeInv
<1>2. QED
    BY <1>1, TypeCorrect, PTL
-----------------------------------------------------------------------------
(***************************************************************************)
(* The safety theorems of ScalpEngine.  Each rests on the type invariant   *)
(* and on what a step of one thread can do to the other's state.           *)
(***************************************************************************)

Entering == {"enter", "assign"}

\* A step in which only thread t moves.
Moves(t) ==
    /\ pc' = [pc EXCEPT ![t] = pc'[t]]
    /\ job' = [job EXCEPT ![t] = job'[t]]

\* The subscriber is not about to enter a trade after the step, or it was before it.
SubQuiet ==
    \/ pc'["sub"] \notin Entering
    \/ pc'["sub"] = pc["sub"] /\ job'["sub"] = job["sub"]

\* A Goto moves one thread.
LEMMA GotoMoves ==
    ASSUME ThreadsOK, NEW t \in Thread, NEW label, NEW j, Goto(t, label, j)
    PROVE  Moves(t) /\ pc'[t] = label /\ job'[t] = j
BY DEF Goto, Moves, ThreadsOK

\* Neither the exit check nor what follows a close enters a trade in the same step.
LEMMA AfterExitMoves ==
    ASSUME ThreadsOK, NEW t \in Thread, NEW i, NEW tick, AfterExit(t, i, tick)
    PROVE  Moves(t) /\ pc'[t] \in {"gate", "idle"}
BY GotoMoves DEF AfterExit, Finish

LEMMA TryExitMoves ==
    ASSUME ThreadsOK, NEW t \in Thread, NEW i \in Indices, NEW mark, NEW tick,
           TryExit(t, i, mark, tick)
    PROVE  /\ Moves(t)
           /\ pc'[t] \in {"gate", "idle", "dead", "sell"}
           /\ pc'[t] = "sell" => /\ job'[t].index = i /\ job'[t].pos = position[i]
<1>1. CASE Raise(t)
    BY <1>1, GotoMoves DEF Raise
<1>2. CASE KeepPosition(t, i, mark, tick)
    BY <1>2, AfterExitMoves DEF KeepPosition
<1>3. CASE DecideExit(t, i, mark, tick)
    BY <1>3, GotoMoves DEF DecideExit
<1>4. QED
    BY <1>1, <1>2, <1>3 DEF TryExit

\* A thread that is not entering a trade after its move leaves the subscriber quiet.
LEMMA MoveIsQuiet ==
    ASSUME ThreadsOK, ThreadsOK', NEW t \in Thread, Moves(t), pc'[t] \notin Entering
    PROVE  SubQuiet
BY DEF Moves, SubQuiet, ThreadsOK, Thread

(***************************************************************************)
(* The steps that touch a position, or bring the subscriber nearer to      *)
(* assigning one, are four; every other step leaves both alone.            *)
(***************************************************************************)
LEMMA StepKinds ==
    ASSUME TypeInv, TypeInv', [Next]_vars
    PROVE  \/ position' = position /\ SubQuiet
           \/ SubQuiet /\ \E t \in Thread : ClearPosition(t)
           \/ \E c \in Contracts : PassGate(c)
           \/ EnterTrade
           \/ AssignPosition
           \/ Crash
<1> USE DEF TypeInv
<1>1. CASE UNCHANGED vars
    BY <1>1 DEF vars, threads, SubQuiet
<1>2. ASSUME NEW i \in Indices, OnIndexTick(i) \/ OnOptionTick(i)
      PROVE  position' = position /\ SubQuiet
    <2>1. position' = position
        BY <1>2 DEF OnIndexTick, OnOptionTick
    <2>2. CASE Held(i)
        <3>1. \E mark \in Marks : TryExit("sub", i, mark, "index")
                               \/ TryExit("sub", i, mark, "option")
            BY <1>2, <2>2 DEF OnIndexTick, OnOptionTick
        <3>2. "sub" \in Thread
            BY DEF Thread
        <3>3. Moves("sub") /\ pc'["sub"] \notin Entering
            BY <3>1, <3>2, TryExitMoves DEF Entering
        <3>4. QED
            BY <2>1, <3>2, <3>3, MoveIsQuiet
    <2>3. CASE ~Held(i)
        <3>1. UNCHANGED threads \/ AfterExit("sub", i, "option")
            BY <1>2, <2>3 DEF OnIndexTick, OnOptionTick
        <3>2. "sub" \in Thread
            BY DEF Thread
        <3>3. CASE AfterExit("sub", i, "option")
            BY <2>1, <3>2, <3>3, AfterExitMoves, MoveIsQuiet DEF Entering
        <3>4. QED
            BY <2>1, <3>1, <3>3 DEF threads, SubQuiet
    <2>4. QED
        BY <2>2, <2>3
<1>3. ASSUME NEW i \in Indices, NEW mark \in Marks, ManagePass(i, mark)
      PROVE  position' = position /\ SubQuiet
    <2>1. position' = position
        BY <1>3 DEF ManagePass
    <2>2. UNCHANGED threads \/ TryExit("manage", i, mark, "timer")
        BY <1>3 DEF ManagePass
    <2>3. CASE TryExit("manage", i, mark, "timer")
        BY <2>1, <2>3, TryExitMoves, MoveIsQuiet DEF Thread, Entering
    <2>4. QED
        BY <2>1, <2>2, <2>3 DEF threads, SubQuiet
<1>4. ASSUME NEW t \in Thread, Close(t)
      PROVE  SubQuiet /\ (position' = position \/ ClearPosition(t))
    <2>1. CASE SellPosition(t)
        BY <2>1, GotoMoves, MoveIsQuiet DEF SellPosition, Raise, Entering
    <2>2. CASE ClearPosition(t)
        BY <2>2, GotoMoves, MoveIsQuiet DEF ClearPosition, Entering
    <2>3. CASE BookResult(t)
        BY <2>3, GotoMoves, AfterExitMoves, MoveIsQuiet DEF BookResult, Entering
    <2>4. CASE HaltIndex(t)
        BY <2>4, AfterExitMoves, MoveIsQuiet DEF HaltIndex, Entering
    <2>5. QED
        BY <1>4, <2>1, <2>2, <2>3, <2>4 DEF Close
<1>5. CASE NoEntry
    BY <1>5, GotoMoves, MoveIsQuiet DEF NoEntry, Finish, Thread, Entering
<1>6. CASE Tick \/ Restart
    BY <1>6 DEF Tick, Restart, threads, SubQuiet
<1>7. QED
    BY <1>1, <1>2, <1>3, <1>4, <1>5, <1>6 DEF Next, TryEntry

----
(***************************************************************************)
(* A trade the risk gate let through still has its room when it is         *)
(* assigned: its index is free and the cap not reached.  Only the          *)
(* subscriber fills an index, and the manager can but make more room.      *)
(***************************************************************************)
EntryHasRoom ==
    pc["sub"] \in Entering =>
        /\ ~Held(job["sub"].index)
        /\ Cardinality(OpenIndices) < MaxConcurrent

CapInv == OpenWithinCap /\ EntryHasRoom

\* The open indices are finitely many.
LEMMA OpenIsFinite == IsFiniteSet(OpenIndices) /\ Cardinality(OpenIndices) \in Nat
BY IndicesAssumption, FS_Subset, FS_CardinalityType DEF OpenIndices

LEMMA CapInit == Init => CapInv
<1> SUFFICES ASSUME Init PROVE CapInv
    OBVIOUS
<1>1. OpenIndices = {}
    BY DEF Init, OpenIndices, Held, All
<1>2. pc["sub"] = "idle"
    BY DEF Init, Thread
<1>3. QED
    BY <1>1, <1>2, FS_EmptySet, LimitsAssumption
    DEF CapInv, OpenWithinCap, EntryHasRoom, Entering

\* A release takes nothing but its own index out of the open ones.
LEMMA ClearShrinks ==
    ASSUME TypeInv, NEW t \in Thread, ClearPosition(t)
    PROVE  OpenIndices' = OpenIndices \ {job[t].index}
<1>1. job[t].index \in Indices
    BY DEF TypeInv, ThreadsOK, Job
<1>2. position' = [position EXCEPT ![job[t].index] = NoPosition]
    BY DEF ClearPosition
<1>3. QED
    BY <1>1, <1>2 DEF OpenIndices, Held, TypeInv, TypeOK

\* An assignment adds its index to the open ones.
LEMMA AssignGrows ==
    ASSUME TypeInv, AssignPosition
    PROVE  OpenIndices' = OpenIndices \cup {job["sub"].index}
<1>1. job["sub"].index \in Indices /\ job["sub"].pos \in Position
    BY DEF AssignPosition, TypeInv, ThreadsOK, Thread, Job
<1>2. position' = [position EXCEPT ![job["sub"].index] = job["sub"].pos]
    BY DEF AssignPosition
<1>3. QED
    BY <1>1, <1>2, NoPositionIsNone DEF OpenIndices, Held, TypeInv, TypeOK

LEMMA CapStep == TypeInv /\ TypeInv' /\ CapInv /\ [Next]_vars => CapInv'
<1> SUFFICES ASSUME TypeInv, TypeInv', CapInv, [Next]_vars PROVE CapInv'
    OBVIOUS
<1>1. CASE position' = position /\ SubQuiet
    BY <1>1 DEF CapInv, OpenWithinCap, EntryHasRoom, OpenIndices, Held, SubQuiet
<1>2. ASSUME NEW t \in Thread, ClearPosition(t), SubQuiet
      PROVE  CapInv'
    <2>1. OpenIndices' = OpenIndices \ {job[t].index}
        BY <1>2, ClearShrinks
    <2>2. Cardinality(OpenIndices') <= Cardinality(OpenIndices)
          /\ Cardinality(OpenIndices') \in Nat
        BY <2>1, OpenIsFinite, FS_Subset, FS_CardinalityType
    <2>3. \A i \in Indices : ~Held(i) => ~Held(i)'
        BY <2>1 DEF OpenIndices
    <2>4. job["sub"].index \in Indices
        BY DEF TypeInv, ThreadsOK, Thread, Job
    <2>5. MaxConcurrent \in Nat
        BY LimitsAssumption
    <2>6. OpenWithinCap'
        BY <2>2, <2>5, OpenIsFinite DEF CapInv, OpenWithinCap
    <2>7. EntryHasRoom'
        <3>1. CASE pc'["sub"] \notin Entering
            BY <3>1 DEF EntryHasRoom
        <3>2. CASE pc'["sub"] \in Entering
            <4>1. pc["sub"] \in Entering /\ job'["sub"] = job["sub"]
                BY <1>2, <3>2 DEF SubQuiet
            <4>2. ~Held(job["sub"].index)'
                BY <2>3, <2>4, <4>1 DEF CapInv, EntryHasRoom, Held
            <4>3. QED
                BY <2>2, <2>5, <4>1, <4>2, OpenIsFinite DEF CapInv, EntryHasRoom, Held
        <3>3. QED
            BY <3>1, <3>2
    <2>8. QED
        BY <2>6, <2>7 DEF CapInv
<1>3. ASSUME NEW c \in Contracts, PassGate(c)
      PROVE  CapInv'
    <2>1. job'["sub"].index = job["sub"].index /\ position' = position
        BY <1>3 DEF PassGate, Goto, TypeInv, ThreadsOK, Thread, Job
    <2>2. ~Held(job["sub"].index) /\ Cardinality(OpenIndices) < MaxConcurrent
        BY <1>3 DEF PassGate, AllowEntry
    <2>3. QED
        BY <2>1, <2>2 DEF CapInv, OpenWithinCap, EntryHasRoom, OpenIndices, Held
<1>4. CASE EnterTrade
    <2>1. job'["sub"] = job["sub"] /\ position' = position /\ pc["sub"] \in Entering
        BY <1>4 DEF EnterTrade, Goto, TypeInv, ThreadsOK, Thread, Entering
    <2>2. QED
        BY <2>1 DEF CapInv, OpenWithinCap, EntryHasRoom, OpenIndices, Held
<1>5. CASE AssignPosition
    <2>1. pc["sub"] \in Entering /\ pc'["sub"] \notin Entering
        BY <1>5 DEF AssignPosition, Finish, Goto, TypeInv, ThreadsOK, Thread, Entering
    <2>2. Cardinality(OpenIndices) < MaxConcurrent /\ job["sub"].index \notin OpenIndices
        BY <2>1 DEF CapInv, EntryHasRoom, OpenIndices
    <2>3. Cardinality(OpenIndices') = Cardinality(OpenIndices) + 1
        BY <1>5, <2>2, AssignGrows, OpenIsFinite, FS_AddElement
    <2>4. QED
        BY <2>1, <2>2, <2>3, OpenIsFinite, LimitsAssumption
        DEF CapInv, OpenWithinCap, EntryHasRoom
<1>6. CASE Crash
    <2>1. OpenIndices' = {} /\ pc'["sub"] \notin Entering
        BY <1>6 DEF Crash, All, OpenIndices, Held, Thread, Entering
    <2>2. QED
        BY <2>1, FS_EmptySet, LimitsAssumption DEF CapInv, OpenWithinCap, EntryHasRoom
<1>7. QED
    BY <1>1, <1>2, <1>3, <1>4, <1>5, <1>6, StepKinds

\* The conjunction of the invariants holds.
LEMMA CapAlways == Spec => [](TypeInv /\ CapInv)
<1>1. Init => TypeInv /\ CapInv
    BY InitTyped, CapInit
<1>2. TypeInv /\ CapInv /\ [Next]_vars => (TypeInv /\ CapInv)'
    BY StepTyped, CapStep
<1>3. QED
    BY <1>1, <1>2, PTL DEF Spec

(***************************************************************************)
(* At most MaxConcurrent indices hold a position, whatever the manager     *)
(* does between the risk gate of an entry and the assignment.              *)
(***************************************************************************)
THEOREM CapHolds == Spec => []OpenWithinCap
<1>1. CapInv => OpenWithinCap
    BY DEF CapInv
<1>2. QED
    BY <1>1, CapAlways, PTL

----
\* A thread at the circuit breaker for index i.
AtBreaker(i) == \E t \in Thread : pc[t] = "halt" /\ job[t].index = i

\* A thread that moves from anywhere but the breaker takes no other thread from it.
LEMMA MoveKeepsBreaker ==
    ASSUME ThreadsOK, NEW t \in Thread, Moves(t), pc[t] # "halt", NEW i, AtBreaker(i)
    PROVE  AtBreaker(i)'
<1>1. PICK u \in Thread : pc[u] = "halt" /\ job[u].index = i
    BY DEF AtBreaker
<1>2. pc'[u] = pc[u] /\ job'[u] = job[u]
    BY <1>1 DEF Moves, ThreadsOK
<1>3. QED
    BY <1>1, <1>2 DEF AtBreaker

\* Every step but the breaker itself keeps the threads that are at it, or empties memory.
LEMMA StepKeepsBreaker ==
    ASSUME TypeInv, [Next]_vars
    PROVE  \/ \E t \in Thread : HaltIndex(t)
           \/ Crash
           \/ \A i \in Indices : AtBreaker(i) => AtBreaker(i)'
<1> USE DEF TypeInv
<1>1. CASE UNCHANGED vars
    BY <1>1 DEF vars, threads, AtBreaker
<1>2. ASSUME NEW i \in Indices, OnIndexTick(i) \/ OnOptionTick(i)
      PROVE  \A k \in Indices : AtBreaker(k) => AtBreaker(k)'
    <2>1. pc["sub"] # "halt" /\ "sub" \in Thread
        BY <1>2 DEF OnIndexTick, OnOptionTick, Thread
    <2>2. UNCHANGED threads \/ Moves("sub")
        <3>1. \/ UNCHANGED threads
              \/ \E mark \in Marks, tick \in {"index", "option"} : TryExit("sub", i, mark, tick)
              \/ AfterExit("sub", i, "option")
            BY <1>2 DEF OnIndexTick, OnOptionTick
        <3>2. QED
            BY <2>1, <3>1, TryExitMoves, AfterExitMoves
    <2>3. QED
        BY <2>1, <2>2, MoveKeepsBreaker DEF threads, AtBreaker
<1>3. ASSUME NEW i \in Indices, NEW mark \in Marks, ManagePass(i, mark)
      PROVE  \A k \in Indices : AtBreaker(k) => AtBreaker(k)'
    <2>1. pc["manage"] # "halt" /\ "manage" \in Thread
        BY <1>3 DEF ManagePass, Thread
    <2>2. UNCHANGED threads \/ Moves("manage")
        BY <1>3, <2>1, TryExitMoves DEF ManagePass
    <2>3. QED
        BY <2>1, <2>2, MoveKeepsBreaker DEF threads, AtBreaker
<1>4. ASSUME NEW t \in Thread, SellPosition(t) \/ ClearPosition(t) \/ BookResult(t)
      PROVE  \A k \in Indices : AtBreaker(k) => AtBreaker(k)'
    <2>1. pc[t] # "halt"
        BY <1>4 DEF SellPosition, ClearPosition, BookResult
    <2>2. Moves(t)
        BY <1>4, GotoMoves, AfterExitMoves
        DEF SellPosition, ClearPosition, BookResult, Raise
    <2>3. QED
        BY <2>1, <2>2, MoveKeepsBreaker
<1>5. ASSUME TryEntry
      PROVE  \A k \in Indices : AtBreaker(k) => AtBreaker(k)'
    <2>1. pc["sub"] # "halt" /\ "sub" \in Thread
        BY <1>5 DEF TryEntry, PassGate, NoEntry, EnterTrade, AssignPosition, Thread
    <2>2. Moves("sub")
        BY <1>5, <2>1, GotoMoves
        DEF TryEntry, PassGate, NoEntry, EnterTrade, AssignPosition, Finish
    <2>3. QED
        BY <2>1, <2>2, MoveKeepsBreaker
<1>6. CASE Tick \/ Restart
    BY <1>6 DEF Tick, Restart, threads, AtBreaker
<1>7. QED
    BY <1>1, <1>2, <1>3, <1>4, <1>5, <1>6 DEF Next, Close

\* The steps that touch the counters of an index: a day reset, the two halves of a booking, a crash.
LEMMA CountersStep ==
    ASSUME [Next]_vars
    PROVE  \/ ResetIfNewDay
           \/ \E t \in Thread : BookResult(t)
           \/ \E t \in Thread : HaltIndex(t)
           \/ Crash
           \/ UNCHANGED counters
BY DEF Next, vars, OnIndexTick, OnOptionTick, ManagePass, Close, SellPosition, ClearPosition,
       TryEntry, PassGate, NoEntry, EnterTrade, AssignPosition, Tick, Restart

\* What a day reset does to each index.
LEMMA ResetEach ==
    ASSUME ResetIfNewDay, NEW i \in Indices
    PROVE  IF i \in DueForReset
           THEN losses'[i] = 0 /\ halted'[i] = FALSE /\ resetDay'[i] = Today
           ELSE losses'[i] = losses[i] /\ halted'[i] = halted[i]
<1>1. /\ resetDay' = [k \in Indices |-> IF k \in DueForReset THEN Today ELSE resetDay[k]]
      /\ losses' = [k \in Indices |-> IF k \in DueForReset THEN 0 ELSE losses[k]]
      /\ halted' = [k \in Indices |-> IF k \in DueForReset THEN FALSE ELSE halted[k]]
    BY DEF ResetIfNewDay
<1>2. QED
    BY <1>1, Zenon

LEMMA BreakerInit == Init => CircuitHalts
BY LimitsAssumption DEF Init, CircuitHalts, All

LEMMA BreakerStep == TypeInv /\ CircuitHalts /\ [Next]_vars => CircuitHalts'
<1> SUFFICES ASSUME TypeInv, CircuitHalts, [Next]_vars, NEW i \in Indices,
                    losses'[i] >= CircuitLosses, ~halted'[i]
             PROVE  AtBreaker(i)'
    BY DEF CircuitHalts, AtBreaker
<1>1. CircuitLosses \in Nat \ {0} /\ losses[i] \in Nat
    BY LimitsAssumption DEF TypeInv, TypeOK
<1>2. losses[i] >= CircuitLosses /\ ~halted[i] => AtBreaker(i)
    BY DEF CircuitHalts, AtBreaker
<1>3. ASSUME losses'[i] = losses[i], halted'[i] = halted[i],
             \A k \in Indices : AtBreaker(k) => AtBreaker(k)'
      PROVE  AtBreaker(i)'
    BY <1>2, <1>3
<1>4. CASE Crash
    BY <1>1, <1>4 DEF Crash, All
<1>5. ASSUME NEW t \in Thread, HaltIndex(t)
      PROVE  AtBreaker(i)'
    <2>1. losses' = losses /\ job[t].index \in Indices /\ Moves(t) /\ pc[t] = "halt"
        BY <1>5, AfterExitMoves DEF HaltIndex, TypeInv, ThreadsOK, Job
    <2>2. halted' = [halted EXCEPT ![job[t].index] =
                        @ \/ job[t].mark = "big" \/ losses[job[t].index] >= CircuitLosses]
        BY <1>5 DEF HaltIndex
    <2>3. i # job[t].index
        BY <2>1, <2>2 DEF TypeInv, TypeOK
    <2>4. halted'[i] = halted[i]
        BY <2>2, <2>3, Zenon DEF TypeInv, TypeOK
    <2>5. PICK u \in Thread : pc[u] = "halt" /\ job[u].index = i
        BY <1>2, <2>1, <2>4 DEF AtBreaker
    <2>6. pc'[u] = pc[u] /\ job'[u] = job[u]
        BY <2>1, <2>3, <2>5 DEF Moves, TypeInv, ThreadsOK
    <2>7. QED
        BY <2>5, <2>6 DEF AtBreaker
<1>6. ASSUME NEW t \in Thread, BookResult(t)
      PROVE  AtBreaker(i)'
    <2>1. job[t].index \in Indices /\ halted' = halted /\ pc[t] # "halt"
        BY <1>6 DEF BookResult, TypeInv, ThreadsOK, Job
    <2>2. Moves(t)
        BY <1>6, GotoMoves, AfterExitMoves DEF BookResult, TypeInv
    <2>3. CASE i # job[t].index
        <3>1. losses'[i] = losses[i]
            BY <1>6, <2>1, <2>3 DEF BookResult, TypeInv, TypeOK
        <3>2. QED
            BY <1>2, <2>1, <2>2, <3>1, MoveKeepsBreaker DEF TypeInv
    <2>4. CASE i = job[t].index
        <3>1. job[t].mark # "win"
            BY <1>1, <1>6, <2>1, <2>4 DEF BookResult, TypeInv, TypeOK
        <3>2. pc'[t] = "halt" /\ job'[t] = job[t]
            BY <1>6, <3>1, GotoMoves DEF BookResult, TypeInv
        <3>3. QED
            BY <2>4, <3>2 DEF AtBreaker
    <2>5. QED
        BY <2>3, <2>4
<1>7. CASE ResetIfNewDay /\ \A k \in Indices : AtBreaker(k) => AtBreaker(k)'
    <2>1. i \notin DueForReset
        <3>1. i \in DueForReset => losses'[i] = 0
            BY <1>7, ResetEach, Zenon
        <3>2. losses'[i] # 0
            BY <1>1
        <3>3. QED
            BY <3>1, <3>2
    <2>2. losses'[i] = losses[i] /\ halted'[i] = halted[i]
        BY <1>7, <2>1, ResetEach
    <2>3. QED
        BY <1>3, <1>7, <2>2
<1>8. CASE UNCHANGED counters /\ \A k \in Indices : AtBreaker(k) => AtBreaker(k)'
    BY <1>3, <1>8 DEF counters
<1>9. QED
    BY <1>4, <1>5, <1>6, <1>7, <1>8, CountersStep, StepKeepsBreaker

(***************************************************************************)
(* A loss streak at the limit has halted its index, or the thread that     *)
(* counted the last loss is about to halt it.                              *)
(***************************************************************************)
THEOREM BreakerHolds == Spec => []CircuitHalts
<1>1. Init => TypeInv /\ CircuitHalts
    BY InitTyped, BreakerInit
<1>2. TypeInv /\ CircuitHalts /\ [Next]_vars => (TypeInv /\ CircuitHalts)'
    BY StepTyped, BreakerStep
<1>3. QED
    BY <1>1, <1>2, PTL DEF Spec

(***************************************************************************)
(* Only a reset that stamps the index with a new date, or the death of the *)
(* process, lifts a halt; no booking does.                                 *)
(***************************************************************************)
THEOREM HaltsAreLiftedByStamps == Spec => HaltLiftedByStampOnly
<1> DEFINE Lifted(i) == halted[i] /\ ~halted'[i]
           Allowed(i) == \/ resetDay[i] # Today /\ resetDay'[i] = Today
                         \/ up /\ ~up'
<1>1. ASSUME TypeInv, [Next]_vars, NEW i \in Indices, Lifted(i)
      PROVE  Allowed(i)
    <2>1. CASE ResetIfNewDay
        <3>1. i \in DueForReset
            BY <1>1, <2>1, ResetEach
        <3>2. QED
            BY <2>1, <3>1, ResetEach DEF DueForReset
    <2>2. ASSUME NEW t \in Thread, BookResult(t)
          PROVE  FALSE
        BY <1>1, <2>2 DEF BookResult
    <2>3. ASSUME NEW t \in Thread, HaltIndex(t)
          PROVE  FALSE
        <3>1. halted' = [halted EXCEPT ![job[t].index] =
                            @ \/ job[t].mark = "big" \/ losses[job[t].index] >= CircuitLosses]
            BY <2>3 DEF HaltIndex
        <3>2. QED
            BY <1>1, <3>1, Zenon DEF TypeInv, TypeOK
    <2>4. CASE Crash
        BY <2>4 DEF Crash
    <2>5. CASE UNCHANGED counters
        BY <1>1, <2>5 DEF counters
    <2>6. QED
        BY <1>1, <2>1, <2>2, <2>3, <2>4, <2>5, CountersStep
<1>2. TypeInv /\ [Next]_vars => [\A i \in Indices : Lifted(i) => Allowed(i)]_vars
    BY <1>1
<1>3. QED
    BY <1>2, TypeCorrect, PTL DEF Spec, HaltLiftedByStampOnly
-----------------------------------------------------------------------------
(***************************************************************************)
(* What memory and the audit log say about one trade, and that the engine  *)
(* implements PositionSlots.                                               *)
(***************************************************************************)

HasEntry(events, n) ==
    \E m \in 1..Len(events) : events[m].kind = "entry" /\ events[m].trade = n

HasExit(events, n) ==
    \E m \in 1..Len(events) : events[m].kind = "exit" /\ events[m].trade = n

\* The set Unexited, as a predicate of one trade.
LEMMA UnexitedIs ==
    ASSUME NEW events, NEW n
    PROVE  n \in Unexited(events) <=> HasEntry(events, n) /\ ~HasExit(events, n)
BY DEF Unexited, HasEntry, HasExit

\* What an appended entry line adds.
LEMMA AppendEntry ==
    ASSUME NEW events \in Seq(Line), NEW key \in Keys, NEW n \in Nat,
           NEW after, after = Append(events, EntryLine(key, n))
    PROVE  /\ \A k : HasEntry(after, k) <=> HasEntry(events, k) \/ k = n
           /\ \A k : HasExit(after, k) <=> HasExit(events, k)
<1>1. /\ Len(events) \in Nat /\ Len(after) = Len(events) + 1
      /\ \A m \in 1..Len(events) : after[m] = events[m]
      /\ after[Len(events) + 1] = EntryLine(key, n)
    BY LinesAreLines
<1>2. \A m \in 1..Len(after) : m \in 1..Len(events) \/ m = Len(events) + 1
    BY <1>1
<1>3. \A m \in 1..Len(events) : m \in 1..Len(after)
    BY <1>1
<1>4. Len(events) + 1 \in 1..Len(after)
    BY <1>1
<1>5. EntryLine(key, n).kind = "entry" /\ EntryLine(key, n).trade = n
    BY DEF EntryLine
<1>6. QED
    BY <1>1, <1>2, <1>3, <1>4, <1>5 DEF HasEntry, HasExit

\* What an appended exit line adds.
LEMMA AppendExit ==
    ASSUME NEW events \in Seq(Line), NEW line \in Line, line.kind = "exit",
           NEW after, after = Append(events, line)
    PROVE  /\ \A k : HasEntry(after, k) <=> HasEntry(events, k)
           /\ \A k : HasExit(after, k) <=> HasExit(events, k) \/ k = line.trade
<1>1. /\ Len(events) \in Nat /\ Len(after) = Len(events) + 1
      /\ \A m \in 1..Len(events) : after[m] = events[m]
      /\ after[Len(events) + 1] = line
    OBVIOUS
<1>2. \A m \in 1..Len(after) : m \in 1..Len(events) \/ m = Len(events) + 1
    BY <1>1
<1>3. \A m \in 1..Len(events) : m \in 1..Len(after)
    BY <1>1
<1>4. Len(events) + 1 \in 1..Len(after)
    BY <1>1
<1>5. QED
    BY <1>1, <1>2, <1>3, <1>4 DEF HasEntry, HasExit

----
(***************************************************************************)
(* A thread that, in one step, stays where it is, or goes from anywhere    *)
(* but a release to a place where it carries no trade, or to a sale of the *)
(* position its index holds.                                               *)
(***************************************************************************)
ThreadQuiet(t) ==
    \/ pc'[t] = pc[t] /\ job'[t] = job[t]
    \/ pc[t] # "clear" /\ pc'[t] \notin Entering \cup {"sell"}
    \/ /\ pc[t] # "clear"
       /\ pc'[t] = "sell"
       /\ Held(job'[t].index)
       /\ job'[t].pos = position[job'[t].index]

QuietStep ==
    /\ UNCHANGED <<position, log, trades>>
    /\ \A t \in Thread : ThreadQuiet(t)

\* A move of one quiet thread is quiet for both.
LEMMA OneQuietThread ==
    ASSUME ThreadsOK, NEW t \in Thread, Moves(t), ThreadQuiet(t)
    PROVE  \A u \in Thread : ThreadQuiet(u)
BY DEF Moves, ThreadsOK, ThreadQuiet

LEMMA TryExitQuiet ==
    ASSUME ThreadsOK, NEW t \in Thread, NEW i \in Indices, NEW mark, NEW tick,
           pc[t] = "idle", Held(i), TryExit(t, i, mark, tick)
    PROVE  \A u \in Thread : ThreadQuiet(u)
BY TryExitMoves, OneQuietThread DEF ThreadQuiet, Entering

LEMMA AfterExitQuiet ==
    ASSUME ThreadsOK, NEW t \in Thread, NEW i, NEW tick,
           pc[t] # "clear", AfterExit(t, i, tick)
    PROVE  \A u \in Thread : ThreadQuiet(u)
BY AfterExitMoves, OneQuietThread DEF ThreadQuiet, Entering

\* A sale whose SELL fill is refused writes nothing; any other appends its exit line.
LEMMA SaleKinds ==
    ASSUME TypeInv, NEW t \in Thread, SellPosition(t)
    PROVE  \/ QuietStep
           \/ /\ log' = Append(log, ExitLine(<<job[t].index, job[t].pos.contract>>,
                                             job[t].pos.trade, t))
              /\ Moves(t) /\ pc[t] = "sell" /\ pc'[t] = "clear"
              /\ job'[t].index = job[t].index
              /\ UNCHANGED <<position, trades>>
<1>1. CASE job[t].mark = "floor"
    <2>1. Raise(t) /\ UNCHANGED <<position, log, trades>> /\ pc[t] = "sell"
        BY <1>1 DEF SellPosition
    <2>2. Moves(t) /\ pc'[t] \in {"idle", "dead"}
        BY <2>1, GotoMoves DEF Raise, TypeInv
    <2>3. ThreadQuiet(t)
        BY <2>1, <2>2 DEF ThreadQuiet, Entering
    <2>4. QED
        BY <2>1, <2>2, <2>3, OneQuietThread DEF QuietStep, TypeInv
<1>2. CASE job[t].mark # "floor"
    <2>1. Goto(t, "clear", [job[t] EXCEPT !.pos = NoPosition])
        BY <1>2 DEF SellPosition
    <2>2. job[t] \in Job
        BY DEF TypeInv, ThreadsOK
    <2>3. Moves(t) /\ pc'[t] = "clear" /\ job'[t].index = job[t].index
        BY <2>1, <2>2, GotoMoves DEF TypeInv, Job
    <2>4. QED
        BY <1>2, <2>3 DEF SellPosition
<1>3. QED
    BY <1>1, <1>2

\* Every step is quiet or is one that moves a trade on.
LEMMA TradeSteps ==
    ASSUME TypeInv, [Next]_vars
    PROVE  \/ QuietStep
           \/ \E t \in Thread : SellPosition(t) \/ ClearPosition(t)
           \/ \E c \in Contracts : PassGate(c)
           \/ EnterTrade
           \/ AssignPosition
           \/ Crash
           \/ Restart
<1> USE DEF TypeInv
<1> "sub" \in Thread /\ "manage" \in Thread
    BY DEF Thread
<1>1. CASE UNCHANGED vars
    BY <1>1 DEF vars, audit, threads, QuietStep, ThreadQuiet
<1>2. ASSUME NEW i \in Indices, OnIndexTick(i) \/ OnOptionTick(i)
      PROVE  QuietStep
    <2>1. pc["sub"] = "idle" /\ UNCHANGED <<position, log, trades>>
        BY <1>2 DEF OnIndexTick, OnOptionTick, audit
    <2>2. \/ UNCHANGED threads
          \/ Held(i) /\ \E mark \in Marks, tick \in {"index", "option"} :
                            TryExit("sub", i, mark, tick)
          \/ AfterExit("sub", i, "option")
        BY <1>2 DEF OnIndexTick, OnOptionTick
    <2>3. \A u \in Thread : ThreadQuiet(u)
        BY <2>1, <2>2, TryExitQuiet, AfterExitQuiet DEF threads, ThreadQuiet
    <2>4. QED
        BY <2>1, <2>3 DEF QuietStep
<1>3. ASSUME NEW i \in Indices, NEW mark \in Marks, ManagePass(i, mark)
      PROVE  QuietStep
    <2>1. pc["manage"] = "idle" /\ UNCHANGED <<position, log, trades>>
        BY <1>3 DEF ManagePass, audit
    <2>2. UNCHANGED threads \/ (Held(i) /\ TryExit("manage", i, mark, "timer"))
        BY <1>3 DEF ManagePass
    <2>3. \A u \in Thread : ThreadQuiet(u)
        BY <2>1, <2>2, TryExitQuiet DEF threads, ThreadQuiet
    <2>4. QED
        BY <2>1, <2>3 DEF QuietStep
<1>4. ASSUME NEW t \in Thread, BookResult(t) \/ HaltIndex(t)
      PROVE  QuietStep
    <2>1. pc[t] \in {"book", "halt"} /\ UNCHANGED <<position, log, trades>>
        BY <1>4 DEF BookResult, HaltIndex, audit
    <2>2. Goto(t, "halt", job[t]) \/ AfterExit(t, job[t].index, job[t].tick)
        BY <1>4 DEF BookResult, HaltIndex
    <2>3. CASE Goto(t, "halt", job[t])
        BY <2>1, <2>3, GotoMoves, OneQuietThread DEF QuietStep, ThreadQuiet, Entering
    <2>4. CASE AfterExit(t, job[t].index, job[t].tick)
        BY <2>1, <2>4, AfterExitQuiet DEF QuietStep
    <2>5. QED
        BY <2>2, <2>3, <2>4
<1>5. CASE NoEntry
    <2>1. Moves("sub") /\ pc'["sub"] = "idle" /\ pc["sub"] = "gate"
        BY <1>5, GotoMoves DEF NoEntry, Finish
    <2>2. QED
        BY <1>5, <2>1, OneQuietThread DEF NoEntry, audit, QuietStep, ThreadQuiet, Entering
<1>6. CASE Tick
    BY <1>6 DEF Tick, audit, threads, QuietStep, ThreadQuiet
<1>7. QED
    BY <1>1, <1>2, <1>3, <1>4, <1>5, <1>6 DEF Next, Close, TryEntry

----
(***************************************************************************)
(* The inductive invariant behind HeldIsUnsold: trade numbers are used     *)
(* once.  A trade about to be entered is the newest and nobody else knows  *)
(* it; two indices never hold the same trade; a thread about to sell a     *)
(* held trade is at that trade's own index; what is held was entered, and  *)
(* was not exited unless a thread is on its way to release it.             *)
(***************************************************************************)
Releasing(i) == \E t \in Thread : pc[t] = "clear" /\ job[t].index = i

NumbersUsed ==
    /\ \A m \in 1..Len(log) : log[m].trade <= trades
    /\ \A i \in Indices : Held(i) => position[i].trade <= trades
    /\ \A t \in Thread : pc[t] = "sell" => job[t].pos.trade <= trades

NewTradeIsNew ==
    pc["sub"] \in Entering =>
        /\ job["sub"].pos.trade = trades
        /\ ~HasExit(log, trades)
        /\ \A i \in Indices : Held(i) => position[i].trade # trades
        /\ \A t \in Thread : pc[t] = "sell" => job[t].pos.trade # trades

OneHolder ==
    \A i, k \in Indices :
        Held(i) /\ Held(k) /\ position[i].trade = position[k].trade => i = k

SellsOwn ==
    \A t \in Thread, i \in Indices :
        pc[t] = "sell" /\ Held(i) /\ position[i].trade = job[t].pos.trade
            => i = job[t].index

HeldIsEntered ==
    /\ \A i \in Indices : Held(i) => HasEntry(log, position[i].trade)
    /\ pc["sub"] = "assign" => HasEntry(log, job["sub"].pos.trade)

ExitedIsReleasing ==
    \A i \in Indices : Held(i) /\ HasExit(log, position[i].trade) => Releasing(i)

TradesInv ==
    /\ NumbersUsed
    /\ NewTradeIsNew
    /\ OneHolder
    /\ SellsOwn
    /\ HeldIsEntered
    /\ ExitedIsReleasing

LEMMA TradesInit == Init => TradesInv
<1> SUFFICES ASSUME Init PROVE TradesInv
    OBVIOUS
<1>1. /\ \A i \in Indices : ~Held(i)
      /\ \A t \in Thread : pc[t] = "idle"
      /\ "sub" \in Thread
      /\ Len(log) = 0
    BY DEF Init, All, Held, Thread
<1>2. QED
    BY <1>1 DEF TradesInv, NumbersUsed, NewTradeIsNew, OneHolder, SellsOwn, HeldIsEntered,
                ExitedIsReleasing, Entering

\* A quiet step: only a sale may begin, of what its index holds.
LEMMA QuietKeepsTrades ==
    ASSUME TypeInv, TypeInv', TradesInv, QuietStep
    PROVE  TradesInv'
<1> USE DEF TradesInv
<1>1. position' = position /\ log' = log /\ trades' = trades
    BY DEF QuietStep
<1>2. \A i : Held(i)' <=> Held(i)
    BY <1>1 DEF Held
<1>3. ASSUME NEW t \in Thread, pc'[t] = "sell"
      PROVE  \/ pc[t] = "sell" /\ job'[t] = job[t]
             \/ /\ job'[t].index \in Indices /\ Held(job'[t].index)
                /\ job'[t].pos = position[job'[t].index]
    BY <1>3 DEF QuietStep, ThreadQuiet, TypeInv, ThreadsOK, Job
<1>4. pc'["sub"] \in Entering => pc["sub"] = pc'["sub"] /\ job'["sub"] = job["sub"]
    BY DEF QuietStep, ThreadQuiet, Thread, Entering
<1>5. NumbersUsed'
    BY <1>1, <1>2, <1>3 DEF NumbersUsed
<1>6. NewTradeIsNew'
    BY <1>1, <1>2, <1>3, <1>4 DEF NewTradeIsNew
<1>7. OneHolder'
    BY <1>1, <1>2 DEF OneHolder
<1>8. SellsOwn'
    BY <1>1, <1>2, <1>3 DEF SellsOwn, OneHolder
<1>9. HeldIsEntered'
    BY <1>1, <1>2, <1>4 DEF HeldIsEntered, Entering
<1>10. \A i : Releasing(i) => Releasing(i)'
    BY DEF QuietStep, ThreadQuiet, Releasing
<1>11. ExitedIsReleasing'
    BY <1>1, <1>2, <1>10 DEF ExitedIsReleasing
<1>12. QED
    BY <1>5, <1>6, <1>7, <1>8, <1>9, <1>11

\* A sale that writes its exit line is on its way to release the trade's own index.
LEMMA SaleKeepsTrades ==
    ASSUME TypeInv, TypeInv', TradesInv, NEW t \in Thread, SellPosition(t)
    PROVE  TradesInv'
<1> USE DEF TradesInv
<1> DEFINE n == job[t].pos.trade
           key == <<job[t].index, job[t].pos.contract>>
<1>0. t \in Writers
    BY DEF Thread, Writers
<1>1. CASE QuietStep
    BY <1>1, QuietKeepsTrades
<1>2. CASE /\ log' = Append(log, ExitLine(key, n, t))
           /\ Moves(t) /\ pc[t] = "sell" /\ pc'[t] = "clear"
           /\ job'[t].index = job[t].index
           /\ UNCHANGED <<position, trades>>
    <2>1. key \in Keys /\ n \in Nat /\ log \in Seq(Line) /\ job[t].index \in Indices
        <3>1. job[t] \in Job /\ job[t].pos \in Position
            BY <1>2 DEF TypeInv, ThreadsOK
        <3>2. job[t].index \in Indices
            BY <3>1 DEF Job
        <3>3. n \in Nat /\ job[t].pos.contract \in Contracts
            BY <3>1, LimitsAssumption DEF Position
        <3>4. log \in Seq(Line)
            BY DEF TypeInv, TypeOK
        <3>5. QED
            BY <3>2, <3>3, <3>4 DEF Keys
    <2>2. /\ \A k : HasEntry(log', k) <=> HasEntry(log, k)
          /\ \A k : HasExit(log', k) <=> HasExit(log, k) \/ k = n
        <3>1. PICK line \in Line : /\ line = ExitLine(key, n, t)
                                   /\ line.kind = "exit" /\ line.trade = n
            BY <1>0, <2>1, LinesAreLines DEF ExitLine
        <3>2. PICK after : after = log'
            OBVIOUS
        <3>3. after = Append(log, line)
            BY <1>2, <3>1, <3>2
        <3> HIDE DEF key, n
        <3>4. /\ \A k : HasEntry(after, k) <=> HasEntry(log, k)
              /\ \A k : HasExit(after, k) <=> HasExit(log, k) \/ k = line.trade
            BY <2>1, <3>1, <3>3, AppendExit
        <3>5. \A k : (HasEntry(log', k) <=> HasEntry(after, k)) /\ (HasExit(log', k) <=> HasExit(after, k))
            BY <3>2 DEF HasEntry, HasExit
        <3>6. QED
            BY <3>1, <3>4, <3>5
    <2>3. \A i : Held(i)' <=> Held(i)
        BY <1>2 DEF Held
    <2>4. \A u \in Thread : u # t => pc'[u] = pc[u] /\ job'[u] = job[u]
        BY <1>2 DEF Moves, TypeInv, ThreadsOK
    <2>5. \A u \in Thread : pc'[u] = "sell" => u # t /\ pc[u] = "sell" /\ job'[u] = job[u]
        BY <1>2, <2>4
    <2>6. pc'["sub"] \in Entering => pc["sub"] = pc'["sub"] /\ job'["sub"] = job["sub"]
        BY <1>2, <2>4 DEF Thread, Entering
    <2>7. NumbersUsed'
        <3>1. n <= trades
            BY <1>2 DEF NumbersUsed
        <3>2. \A m \in 1..Len(log') : m \in 1..Len(log) \/ m = Len(log) + 1
            BY <1>2, <2>1, LinesAreLines
        <3>3. \A m \in 1..Len(log) : log'[m] = log[m]
            BY <1>2, <2>1, LinesAreLines
        <3>4. log'[Len(log) + 1].trade = n
            BY <1>2, <2>1, LinesAreLines DEF ExitLine
        <3>5. \A m \in 1..Len(log') : log'[m].trade <= trades
            BY <3>1, <3>2, <3>3, <3>4 DEF NumbersUsed
        <3>6. QED
            BY <1>2, <2>3, <2>5, <3>5 DEF NumbersUsed
    <2>8. NewTradeIsNew'
        BY <1>2, <2>2, <2>3, <2>5, <2>6 DEF NewTradeIsNew
    <2>9. OneHolder'
        BY <1>2, <2>3 DEF OneHolder
    <2>10. SellsOwn'
        BY <1>2, <2>3, <2>5 DEF SellsOwn
    <2>11. HeldIsEntered'
        BY <1>2, <2>2, <2>3, <2>6 DEF HeldIsEntered, Entering
    <2>12. ExitedIsReleasing'
        <3> SUFFICES ASSUME NEW i \in Indices, Held(i)', HasExit(log', position'[i].trade)
                     PROVE  Releasing(i)'
            BY DEF ExitedIsReleasing
        <3>1. CASE position[i].trade = n
            <4>1. i = job[t].index
                BY <1>2, <2>3, <3>1 DEF SellsOwn
            <4>2. QED
                BY <1>2, <4>1 DEF Releasing
        <3>2. CASE position[i].trade # n
            <4>1. PICK u \in Thread : pc[u] = "clear" /\ job[u].index = i
                BY <1>2, <2>2, <2>3, <3>2 DEF ExitedIsReleasing, Releasing
            <4>2. QED
                BY <1>2, <2>4, <4>1 DEF Releasing
        <3>3. QED
            BY <3>1, <3>2
    <2>13. QED
        BY <2>7, <2>8, <2>9, <2>10, <2>11, <2>12
<1>3. QED
    BY <1>1, <1>2, SaleKinds

\* A release: what its index held is gone, the other indices keep theirs.
LEMMA ReleaseKeepsTrades ==
    ASSUME TypeInv, TypeInv', TradesInv, NEW t \in Thread, ClearPosition(t)
    PROVE  TradesInv'
<1> USE DEF TradesInv
<1>1. log' = log /\ trades' = trades /\ job[t].index \in Indices
    BY DEF ClearPosition, audit, TypeInv, ThreadsOK, Job
<1>2. \A i \in Indices : Held(i)' => /\ Held(i) /\ position'[i] = position[i]
                                     /\ i # job[t].index
    BY <1>1 DEF ClearPosition, Held, TypeInv, TypeOK
<1>3. Moves(t) /\ pc[t] = "clear" /\ pc'[t] = "book"
    BY GotoMoves DEF ClearPosition, TypeInv
<1>4. \A u \in Thread : u # t => pc'[u] = pc[u] /\ job'[u] = job[u]
    BY <1>3 DEF Moves, TypeInv, ThreadsOK
<1>5. \A u \in Thread : pc'[u] = "sell" => pc[u] = "sell" /\ job'[u] = job[u]
    BY <1>3, <1>4
<1>6. pc'["sub"] \in Entering => pc["sub"] = pc'["sub"] /\ job'["sub"] = job["sub"]
    BY <1>3, <1>4 DEF Thread, Entering
<1>7. NumbersUsed'
    BY <1>1, <1>2, <1>5 DEF NumbersUsed
<1>8. NewTradeIsNew'
    BY <1>1, <1>2, <1>5, <1>6 DEF NewTradeIsNew
<1>9. OneHolder'
    BY <1>2 DEF OneHolder
<1>10. SellsOwn'
    BY <1>2, <1>5 DEF SellsOwn
<1>11. HeldIsEntered'
    BY <1>1, <1>2, <1>6 DEF HeldIsEntered, Entering
<1>12. ExitedIsReleasing'
    <2> SUFFICES ASSUME NEW i \in Indices, Held(i)', HasExit(log', position'[i].trade)
                 PROVE  Releasing(i)'
        BY DEF ExitedIsReleasing
    <2>1. PICK u \in Thread : pc[u] = "clear" /\ job[u].index = i
        BY <1>1, <1>2 DEF ExitedIsReleasing, Releasing
    <2>2. u # t
        BY <1>2, <2>1
    <2>3. QED
        BY <1>4, <2>1, <2>2 DEF Releasing
<1>13. QED
    BY <1>7, <1>8, <1>9, <1>10, <1>11, <1>12

\* The gate numbers a new trade.
LEMMA GateKeepsTrades ==
    ASSUME TypeInv, TypeInv', TradesInv, NEW c \in Contracts, PassGate(c)
    PROVE  TradesInv'
<1> USE DEF TradesInv
<1>1. position' = position /\ log' = log /\ trades' = trades + 1 /\ trades \in Nat
    BY LimitsAssumption DEF PassGate, TypeInv, TypeOK
<1>2. \A i : Held(i)' <=> Held(i)
    BY <1>1 DEF Held
<1>3. Moves("sub") /\ pc'["sub"] = "enter" /\ job'["sub"].pos.trade = trades + 1
      /\ "sub" \in Thread
    <2>1. job["sub"] \in Job /\ "sub" \in Thread
        BY DEF TypeInv, ThreadsOK, Thread
    <2>2. PICK j : Goto("sub", "enter", j) /\ j.pos.trade = trades + 1
        BY <2>1 DEF PassGate, Job
    <2>3. QED
        BY <2>1, <2>2, GotoMoves DEF TypeInv
<1>4. \A u \in Thread : u # "sub" => pc'[u] = pc[u] /\ job'[u] = job[u]
    BY <1>3 DEF Moves, TypeInv, ThreadsOK
<1>5. \A u \in Thread : pc'[u] = "sell" => pc[u] = "sell" /\ job'[u] = job[u]
    BY <1>3, <1>4
<1>6. ~HasExit(log, trades + 1)
    BY <1>1 DEF NumbersUsed, HasExit, TypeInv, TypeOK, Line
<1>7. /\ \A i \in Indices : Held(i) => position[i].trade <= trades /\ position[i].trade \in Nat
      /\ \A t \in Thread : pc[t] = "sell" => job[t].pos.trade <= trades
                                             /\ job[t].pos.trade \in Nat
    <2>1. \A pos \in Position : pos.trade \in Nat
        BY LimitsAssumption DEF Position
    <2>2. \A i \in Indices : Held(i) => position[i] \in Position
        BY DEF Held, TypeInv, TypeOK
    <2>3. \A t \in Thread : pc[t] = "sell" => job[t].pos \in Position
        BY DEF TypeInv, ThreadsOK
    <2>4. QED
        BY <2>1, <2>2, <2>3 DEF NumbersUsed
<1>8. NumbersUsed'
    <2>1. \A m \in 1..Len(log) : log[m].trade \in Nat /\ log[m].trade <= trades
        <3>1. \A m \in 1..Len(log) : log[m] \in Line
            BY DEF TypeInv, TypeOK
        <3>2. \A line \in Line : line.trade \in Nat
            BY DEF Line
        <3>3. QED
            BY <3>1, <3>2 DEF NumbersUsed
    <2>2. QED
        BY <1>1, <1>2, <1>5, <1>7, <2>1 DEF NumbersUsed
<1>9. NewTradeIsNew'
    BY <1>1, <1>2, <1>3, <1>5, <1>6, <1>7 DEF NewTradeIsNew
<1>10. OneHolder'
    BY <1>1, <1>2 DEF OneHolder
<1>11. SellsOwn'
    BY <1>1, <1>2, <1>5 DEF SellsOwn
<1>12. HeldIsEntered'
    BY <1>1, <1>2, <1>3 DEF HeldIsEntered
<1>13. pc["sub"] = "gate"
    BY DEF PassGate
<1>14. \A i : Releasing(i) => Releasing(i)'
    BY <1>4, <1>13 DEF Releasing
<1>15. ExitedIsReleasing'
    BY <1>1, <1>2, <1>14 DEF ExitedIsReleasing
<1>16. QED
    BY <1>8, <1>9, <1>10, <1>11, <1>12, <1>15

\* The entry line is the first line about the new trade.
LEMMA EnterKeepsTrades ==
    ASSUME TypeInv, TypeInv', TradesInv, EnterTrade
    PROVE  TradesInv'
<1> USE DEF TradesInv
<1> DEFINE j == job["sub"]
           n == j.pos.trade
           key == <<j.index, j.pos.contract>>
<1>1. /\ position' = position /\ trades' = trades /\ trades \in Nat
      /\ "sub" \in Thread /\ pc["sub"] = "enter"
    BY LimitsAssumption DEF EnterTrade, TypeInv, TypeOK, Thread
<1>2. \A i : Held(i)' <=> Held(i)
    BY <1>1 DEF Held
<1>3. pc'["sub"] = "assign" /\ job' = job
      /\ \A u \in Thread : u # "sub" => pc'[u] = pc[u]
    BY DEF EnterTrade, Goto, TypeInv, ThreadsOK, Thread
<1>4. \A u \in Thread : pc'[u] = "sell" => pc[u] = "sell"
    BY <1>3
<1>5. n \in Nat /\ key \in Keys /\ log \in Seq(Line) /\ n = trades
    <2>1. j.pos \in Position /\ j.index \in Indices
        BY <1>1 DEF TypeInv, ThreadsOK, Job
    <2>2. QED
        BY <1>1, <2>1, LimitsAssumption
        DEF NewTradeIsNew, Entering, Position, Keys, TypeInv, TypeOK
<1>6. log' = Append(log, EntryLine(key, n))
    BY DEF EnterTrade
<1>7. /\ \A k : HasEntry(log', k) <=> HasEntry(log, k) \/ k = n
      /\ \A k : HasExit(log', k) <=> HasExit(log, k)
    <2>1. n \in Nat /\ key \in Keys /\ log \in Seq(Line)
        BY <1>5
    <2>2. log' = Append(log, EntryLine(key, n))
        BY <1>6
    <2> HIDE DEF n, key
    <2>3. QED
        BY <2>1, <2>2, AppendEntry
<1>8. NumbersUsed'
    <2>1. \A m \in 1..Len(log') : m \in 1..Len(log) \/ m = Len(log) + 1
        BY <1>5, <1>6, LinesAreLines
    <2>2. \A m \in 1..Len(log) : log'[m] = log[m]
        BY <1>5, <1>6, LinesAreLines
    <2>3. log'[Len(log) + 1].trade = n
        BY <1>5, <1>6, LinesAreLines DEF EntryLine
    <2>4. \A m \in 1..Len(log') : log'[m].trade <= trades
        BY <1>5, <2>1, <2>2, <2>3 DEF NumbersUsed
    <2>5. QED
        BY <1>1, <1>2, <1>3, <1>4, <2>4 DEF NumbersUsed
<1>9. NewTradeIsNew'
    BY <1>1, <1>2, <1>3, <1>4, <1>7 DEF NewTradeIsNew, Entering
<1>10. OneHolder'
    BY <1>1, <1>2 DEF OneHolder
<1>11. SellsOwn'
    BY <1>1, <1>2, <1>3, <1>4 DEF SellsOwn
<1>12. HeldIsEntered'
    BY <1>1, <1>2, <1>3, <1>7 DEF HeldIsEntered
<1>13. \A i : Releasing(i) => Releasing(i)'
    BY <1>1, <1>3 DEF Releasing
<1>14. ExitedIsReleasing'
    BY <1>1, <1>2, <1>7, <1>13 DEF ExitedIsReleasing
<1>15. QED
    BY <1>8, <1>9, <1>10, <1>11, <1>12, <1>14

\* The assignment makes the new trade a held one: entered, not exited, held nowhere else.
LEMMA AssignKeepsTrades ==
    ASSUME TypeInv, TypeInv', TradesInv, AssignPosition
    PROVE  TradesInv'
<1> USE DEF TradesInv
<1> DEFINE j == job["sub"]
<1>1. /\ log' = log /\ trades' = trades /\ trades \in Nat
      /\ "sub" \in Thread /\ pc["sub"] = "assign" /\ j.index \in Indices
      /\ j.pos \in Position
    BY LimitsAssumption DEF AssignPosition, audit, TypeInv, TypeOK, ThreadsOK, Thread, Job
<1>2. Moves("sub") /\ pc'["sub"] = "idle"
    BY <1>1, GotoMoves DEF AssignPosition, Finish, TypeInv
<1>3. \A u \in Thread : u # "sub" => pc'[u] = pc[u] /\ job'[u] = job[u]
    BY <1>2 DEF Moves, TypeInv, ThreadsOK
<1>4. \A u \in Thread : pc'[u] = "sell" => pc[u] = "sell" /\ job'[u] = job[u]
    BY <1>2, <1>3
<1>5. \A i \in Indices : position'[i] = IF i = j.index THEN j.pos ELSE position[i]
    BY <1>1 DEF AssignPosition, TypeInv, TypeOK
<1>6. \A i \in Indices : Held(i)' => i = j.index \/ Held(i)
    BY <1>5 DEF Held
<1>7. /\ j.pos.trade = trades /\ ~HasExit(log, trades) /\ HasEntry(log, trades)
      /\ \A i \in Indices : Held(i) => position[i].trade # trades
      /\ \A t \in Thread : pc[t] = "sell" => job[t].pos.trade # trades
    BY <1>1 DEF NewTradeIsNew, Entering, HeldIsEntered
<1>8. NumbersUsed'
    BY <1>1, <1>4, <1>5, <1>6, <1>7 DEF NumbersUsed
<1>9. NewTradeIsNew'
    BY <1>2 DEF NewTradeIsNew, Entering
<1>10. OneHolder'
    BY <1>5, <1>6, <1>7 DEF OneHolder
<1>11. SellsOwn'
    BY <1>4, <1>5, <1>6, <1>7 DEF SellsOwn
<1>12. HeldIsEntered'
    BY <1>1, <1>2, <1>5, <1>6, <1>7 DEF HeldIsEntered
<1>13. \A i : Releasing(i) => Releasing(i)'
    BY <1>1, <1>3 DEF Releasing
<1>14. ExitedIsReleasing'
    BY <1>1, <1>5, <1>6, <1>7, <1>13 DEF ExitedIsReleasing
<1>15. QED
    BY <1>8, <1>9, <1>10, <1>11, <1>12, <1>14

\* A crash and a restart: nothing is held and no thread carries a trade.
LEMMA DeathKeepsTrades ==
    ASSUME TypeInv, TypeInv', TradesInv, Crash \/ Restart
    PROVE  TradesInv'
<1> USE DEF TradesInv
<1>1. /\ \A i \in Indices : ~Held(i)'
      /\ \A t \in Thread : pc'[t] = "idle"
      /\ "sub" \in Thread
      /\ trades' = trades
    BY DEF Crash, Restart, TypeInv, DownOK, All, Held, audit, threads, Thread
<1>2. \A m \in 1..Len(log') : log'[m].trade <= trades
    <2>1. CASE Crash
        BY <2>1 DEF Crash, audit, NumbersUsed
    <2>2. CASE Restart
        <3>1. log \in Seq(Line)
            BY DEF TypeInv, TypeOK
        <3>2. PICK exits \in SyntheticExits(log) : log' = log \o exits
            BY <2>2 DEF Restart
        <3>3. /\ exits \in Seq(Line)
              /\ \A n \in 1..Len(exits) : \E m \in 1..Len(log) : exits[n].trade = log[m].trade
            BY <3>1, <3>2, SyntheticExitsAreExits
        <3>4. \A n \in 1..Len(exits) : exits[n].trade <= trades
            BY <3>3 DEF NumbersUsed
        <3>5. ASSUME NEW m \in 1..Len(log')
              PROVE  log'[m].trade <= trades
            <4>1. CASE m \in 1..Len(log)
                BY <3>1, <3>2, <3>3, <4>1 DEF NumbersUsed
            <4>2. CASE m \notin 1..Len(log)
                <5>1. m - Len(log) \in 1..Len(exits) /\ log'[m] = exits[m - Len(log)]
                    BY <3>1, <3>2, <3>3, <4>2
                <5>2. QED
                    BY <3>4, <5>1
            <4>3. QED
                BY <4>1, <4>2
        <3>6. QED
            BY <3>5
    <2>3. QED
        BY <2>1, <2>2
<1>3. QED
    BY <1>1, <1>2 DEF NumbersUsed, NewTradeIsNew, OneHolder, SellsOwn, HeldIsEntered,
                      ExitedIsReleasing, Entering

LEMMA TradesStep == TypeInv /\ TypeInv' /\ TradesInv /\ [Next]_vars => TradesInv'
BY TradeSteps, QuietKeepsTrades, SaleKeepsTrades, ReleaseKeepsTrades, GateKeepsTrades,
   EnterKeepsTrades, AssignKeepsTrades, DeathKeepsTrades

(***************************************************************************)
(* What the engine holds has its entry line and no exit line, unless a     *)
(* thread is about to release its index.                                   *)
(***************************************************************************)
THEOREM HeldTradesAreUnsold == Spec => []HeldIsUnsold
<1>1. Init => TypeInv /\ TradesInv
    BY InitTyped, TradesInit
<1>2. TypeInv /\ TradesInv /\ [Next]_vars => (TypeInv /\ TradesInv)'
    BY StepTyped, TradesStep
<1>3. TradesInv => HeldIsUnsold
    BY UnexitedIs DEF TradesInv, HeldIsEntered, ExitedIsReleasing, Releasing, HeldIsUnsold
<1>4. QED
    BY <1>1, <1>2, <1>3, PTL DEF Spec

----
\* The refinement mapping: the slots that are taken, each with its trade number.
Taken == {[index |-> i, trade |-> position[i].trade] : i \in OpenIndices}

LEMMA TakenIsSmall == IsFiniteSet(Taken) /\ Cardinality(Taken) <= Cardinality(OpenIndices)
<1> DEFINE slot == [i \in OpenIndices |-> [index |-> i, trade |-> position[i].trade]]
<1>1. slot \in Surjection(OpenIndices, Taken)
    BY DEF Taken, Surjection
<1>2. QED
    BY <1>1, OpenIsFinite, FS_Surjection

\* An index with no position has no slot.
LEMMA FreeHasNoSlot == \A i \in Indices, s \in Taken : ~Held(i) => s.index # i
BY DEF Taken, OpenIndices

\* A step that leaves the positions alone leaves the slots alone.
LEMMA SamePositionsSameSlots ==
    ASSUME position' = position
    PROVE  Taken' = Taken
BY DEF Taken, OpenIndices, Held

(***************************************************************************)
(* Every step of the engine is a step of the slots or changes none.        *)
(***************************************************************************)
LEMMA SlotsStep ==
    ASSUME TypeInv, TypeInv', CapInv, [Next]_vars
    PROVE  \/ Taken' = Taken
           \/ /\ \A s \in Taken : s.index # job["sub"].index
              /\ Cardinality(Taken) < MaxConcurrent
              /\ job["sub"].index \in Indices /\ job["sub"].pos.trade \in 1..MaxTrades
              /\ Taken' = Taken \cup {[index |-> job["sub"].index,
                                       trade |-> job["sub"].pos.trade]}
           \/ \E s \in Taken : Taken' = Taken \ {s}
           \/ Taken # {} /\ Taken' = {}
<1>1. CASE position' = position
    BY <1>1, SamePositionsSameSlots
<1>2. ASSUME NEW t \in Thread, ClearPosition(t)
      PROVE  Taken' = Taken \/ \E s \in Taken : Taken' = Taken \ {s}
    <2> DEFINE i == job[t].index
               s == [index |-> i, trade |-> position[i].trade]
    <2>1. OpenIndices' = OpenIndices \ {i}
        BY <1>2, ClearShrinks
    <2>2. i \in Indices /\ position' = [position EXCEPT ![i] = NoPosition]
        BY <1>2 DEF ClearPosition, TypeInv, ThreadsOK, Job
    <2>3. \A k \in OpenIndices' : position'[k] = position[k]
        BY <2>1, <2>2 DEF OpenIndices, TypeInv, TypeOK
    <2>4. Taken' = {[index |-> k, trade |-> position[k].trade] : k \in OpenIndices'}
        BY <2>3 DEF Taken
    <2>5. CASE i \in OpenIndices
        <3>1. s \in Taken
            BY <2>5 DEF Taken
        <3>2. Taken' = Taken \ {s}
            BY <2>1, <2>4 DEF Taken
        <3>3. QED
            BY <3>1, <3>2
    <2>6. CASE i \notin OpenIndices
        BY <2>1, <2>4, <2>6 DEF Taken
    <2>7. QED
        BY <2>5, <2>6
<1>3. CASE AssignPosition
    <2> DEFINE j == job["sub"]
    <2>1. j.index \in Indices /\ j.pos \in Position /\ pc["sub"] \in Entering
        BY <1>3 DEF AssignPosition, TypeInv, ThreadsOK, Thread, Job, Entering
    <2>2. ~Held(j.index) /\ Cardinality(OpenIndices) < MaxConcurrent
        BY <2>1 DEF CapInv, EntryHasRoom
    <2>3. OpenIndices' = OpenIndices \cup {j.index} /\ j.index \notin OpenIndices
        BY <1>3, <2>2, AssignGrows DEF OpenIndices
    <2>4. /\ position' = [position EXCEPT ![j.index] = j.pos]
          /\ \A k \in OpenIndices : k # j.index
        BY <1>3, <2>3 DEF AssignPosition
    <2>5. position'[j.index] = j.pos /\ \A k \in OpenIndices : position'[k] = position[k]
        BY <2>1, <2>4 DEF OpenIndices, TypeInv, TypeOK
    <2>6. Taken' = Taken \cup {[index |-> j.index, trade |-> j.pos.trade]}
        BY <2>3, <2>5 DEF Taken
    <2>7. Cardinality(Taken) < MaxConcurrent
        BY <2>2, TakenIsSmall, OpenIsFinite, FS_CardinalityType, LimitsAssumption
    <2>8. j.pos.trade \in 1..MaxTrades
        BY <2>1 DEF Position
    <2>9. QED
        BY <2>1, <2>2, <2>6, <2>7, <2>8, FreeHasNoSlot
<1>4. CASE Crash
    <2>1. Taken' = {}
        BY <1>4 DEF Crash, All, Taken, OpenIndices, Held
    <2>2. QED
        BY <2>1
<1>5. position' = position \/ (\E t \in Thread : ClearPosition(t)) \/ AssignPosition \/ Crash
    BY StepKinds DEF PassGate, EnterTrade
<1>6. QED
    BY <1>1, <1>2, <1>3, <1>4, <1>5

(***************************************************************************)
(* ScalpEngine implements PositionSlots: an index takes a position only    *)
(* while it is free and below the cap, and never swaps one for another.    *)
(***************************************************************************)
THEOREM EngineImplementsSlots == Spec => ImplementsSlots
<1>1. Init => Slots!Init
    BY DEF Init, Slots!Init, OpenIndices, Held, All
<1>2. TypeInv /\ TypeInv' /\ CapInv /\ [Next]_vars => [Slots!Next]_Taken
    <2> SUFFICES ASSUME TypeInv, TypeInv', CapInv, [Next]_vars, Taken' # Taken
                 PROVE  Slots!Next
        OBVIOUS
    <2>1. CASE \E s \in Taken : Taken' = Taken \ {s}
        BY <2>1 DEF Slots!Next, Slots!Free, Taken
    <2>2. CASE Taken # {} /\ Taken' = {}
        BY <2>2 DEF Slots!Next, Slots!FreeAll, Taken
    <2>3. CASE /\ \A s \in Taken : s.index # job["sub"].index
               /\ Cardinality(Taken) < MaxConcurrent
               /\ job["sub"].index \in Indices /\ job["sub"].pos.trade \in 1..MaxTrades
               /\ Taken' = Taken \cup {[index |-> job["sub"].index,
                                        trade |-> job["sub"].pos.trade]}
        <3>1. Slots!Cardinality(Taken) = Cardinality(Taken)
            BY DEF Slots!Cardinality, Cardinality
        <3>2. PICK i \in Indices, n \in 1..MaxTrades :
                i = job["sub"].index /\ n = job["sub"].pos.trade
            BY <2>3
        <3>3. Slots!Fill(i, n)
            BY <2>3, <3>1, <3>2 DEF Slots!Fill, Taken
        <3>4. QED
            BY <3>3 DEF Slots!Next
    <2>4. QED
        BY <2>1, <2>2, <2>3, SlotsStep
<1>3. QED
    BY <1>1, <1>2, CapAlways, PTL DEF Spec, ImplementsSlots, Slots!Spec, Taken
----
(***************************************************************************)
(* The pairing of entries with exits, and what the restart leaves behind.  *)
(***************************************************************************)

\* Of the first n lines, m is the last one with key k, and an entry.
IsOpen(events, n, k, m) ==
    /\ m \in 1..n
    /\ events[m].kind = "entry" /\ events[m].key = k
    /\ \A l \in (m + 1)..n : events[l].key # k

OpenAt(events, n, k) ==
    IF \E m \in 1..n : IsOpen(events, n, k, m) THEN CHOOSE m \in 1..n : IsOpen(events, n, k, m) ELSE 0

\* Every non-empty set of numbers has a least one: induction for the lemma below.
LEMMA Least ==
    ASSUME NEW T \in SUBSET Nat, T # {}
    PROVE  \E n \in T : \A m \in T : n <= m
<1>1. PICK n \in T : \A m \in T : <<m, n>> \notin OpToRel(<, Nat)
    BY NatLessThanWellFounded, WFMin, Zenon
<1>2. \A m \in T : ~(m < n)
    BY <1>1, Zenon DEF OpToRel
<1>3. QED
    BY <1>2

\* Two open entries of one key would each be the last line of the key.
LEMMA OpenIsUnique ==
    ASSUME NEW events, NEW n \in Nat, NEW k, NEW a, NEW b,
           IsOpen(events, n, k, a), IsOpen(events, n, k, b)
    PROVE  a = b
<1>1. a \in 1..n /\ b \in 1..n /\ events[a].key = k /\ events[b].key = k
    BY DEF IsOpen
<1>2. ~(b \in (a + 1)..n) /\ ~(a \in (b + 1)..n)
    BY <1>1 DEF IsOpen
<1>3. QED
    BY <1>1, <1>2

LEMMA OpenAtIs ==
    ASSUME NEW events, NEW n \in Nat, NEW k
    PROVE  /\ \A m : IsOpen(events, n, k, m) => OpenAt(events, n, k) = m
           /\ (\A m : ~IsOpen(events, n, k, m)) => OpenAt(events, n, k) = 0
<1>1. ASSUME NEW m, IsOpen(events, n, k, m) PROVE OpenAt(events, n, k) = m
    <2> DEFINE c == CHOOSE l \in 1..n : IsOpen(events, n, k, l)
    <2>1. m \in 1..n
        BY <1>1 DEF IsOpen
    <2>2. IsOpen(events, n, k, c)
        BY <1>1, <2>1
    <2>3. OpenAt(events, n, k) = c
        BY <1>1, <2>1 DEF OpenAt
    <2> HIDE DEF c
    <2>4. QED
        BY <1>1, <2>2, <2>3, OpenIsUnique
<1>2. QED
    BY <1>1 DEF OpenAt

\* What one more line does to the open entries.
LEMMA OpenAtStep ==
    ASSUME NEW events \in Seq(Line), NEW n \in 1..Len(events), NEW k \in Keys
    PROVE  OpenAt(events, n, k) =
              IF events[n].key = k THEN IF events[n].kind = "entry" THEN n ELSE 0
              ELSE OpenAt(events, n - 1, k)
<1>1. n \in Nat /\ n - 1 \in Nat /\ n \in 1..n
    OBVIOUS
<1>2. CASE events[n].key = k /\ events[n].kind = "entry"
    <2>1. IsOpen(events, n, k, n)
        BY <1>1, <1>2 DEF IsOpen
    <2>2. QED
        BY <1>1, <1>2, <2>1, OpenAtIs
<1>3. CASE events[n].key = k /\ events[n].kind # "entry"
    <2>1. ASSUME NEW m, IsOpen(events, n, k, m) PROVE FALSE
        <3>1. m \in 1..n /\ m # n
            BY <1>3, <2>1 DEF IsOpen
        <3>2. n \in (m + 1)..n
            BY <1>1, <3>1
        <3>3. QED
            BY <1>3, <2>1, <3>2 DEF IsOpen
    <2>2. QED
        BY <1>1, <1>3, <2>1, OpenAtIs
<1>4. CASE events[n].key # k
    <2>1. ASSUME NEW m PROVE IsOpen(events, n, k, m) <=> IsOpen(events, n - 1, k, m)
        <3>1. ASSUME IsOpen(events, n, k, m) PROVE IsOpen(events, n - 1, k, m)
            <4>1. m \in 1..n /\ m # n
                BY <1>4, <3>1 DEF IsOpen
            <4>2. m \in 1..(n - 1) /\ \A l \in (m + 1)..(n - 1) : l \in (m + 1)..n
                BY <1>1, <4>1
            <4>3. QED
                BY <3>1, <4>2 DEF IsOpen
        <3>2. ASSUME IsOpen(events, n - 1, k, m) PROVE IsOpen(events, n, k, m)
            <4>1. m \in 1..(n - 1)
                BY <3>2 DEF IsOpen
            <4>2. m \in 1..n /\ \A l \in (m + 1)..n : l = n \/ l \in (m + 1)..(n - 1)
                BY <1>1, <4>1
            <4>3. QED
                BY <1>4, <3>2, <4>2 DEF IsOpen
        <3>3. QED
            BY <3>1, <3>2
    <2>2. CASE \E m : IsOpen(events, n, k, m)
        <3>1. PICK m : IsOpen(events, n, k, m)
            BY <2>2
        <3>2. QED
            BY <1>1, <1>4, <2>1, <3>1, OpenAtIs
    <2>3. CASE \A m : ~IsOpen(events, n, k, m)
        BY <1>1, <1>4, <2>1, <2>3, OpenAtIs
    <2>4. QED
        BY <2>2, <2>3
<1>5. QED
    BY <1>2, <1>3, <1>4

(***************************************************************************)
(* The walk over the dictionary, line by line: after n lines it holds, for *)
(* every key, its open entry.                                              *)
(***************************************************************************)
LEMMA WalkIsOpenAt ==
    ASSUME NEW events \in Seq(Line), NEW k \in Keys
    PROVE  OpenByKey(events)[k] = OpenAt(events, Len(events), k)
<1> DEFINE len == Len(events)
           Walks(f) == f = [n \in 0..len |->
                IF n = 0 THEN [j \in Keys |-> 0]
                ELSE [f[n - 1] EXCEPT ![events[n].key] = IF events[n].kind = "entry" THEN n ELSE 0]]
           c == CHOOSE f : Walks(f)
           g == [n \in 0..len |-> [j \in Keys |-> OpenAt(events, n, j)]]
<1>1. len \in Nat /\ \A n \in 1..len : events[n] \in Line /\ events[n].key \in Keys
    <2>1. \A n \in 1..len : events[n] \in Line
        OBVIOUS
    <2>2. QED
        BY <2>1 DEF Line
<1>2. OpenByKey(events) = c[len]
    BY DEF OpenByKey
<1>3. Walks(g)
    <2>1. ASSUME NEW n \in 0..len
          PROVE  g[n] = IF n = 0 THEN [j \in Keys |-> 0]
                        ELSE [g[n - 1] EXCEPT ![events[n].key] = IF events[n].kind = "entry" THEN n ELSE 0]
        <3>1. CASE n = 0
            <4>1. \A j \in Keys : OpenAt(events, 0, j) = 0
                BY OpenAtIs DEF IsOpen
            <4>2. QED
                BY <1>1, <3>1, <4>1
        <3>2. CASE n # 0
            <4>1. n \in 1..len /\ n - 1 \in 0..len
                BY <1>1, <3>2
            <4>2. /\ g[n] = [j \in Keys |-> OpenAt(events, n, j)]
                  /\ g[n - 1] = [j \in Keys |-> OpenAt(events, n - 1, j)]
                BY <4>1
            <4>3. \A j \in Keys : OpenAt(events, n, j) =
                      IF events[n].key = j THEN IF events[n].kind = "entry" THEN n ELSE 0
                      ELSE OpenAt(events, n - 1, j)
                BY <4>1, OpenAtStep
            <4> HIDE DEF g
            <4>4. QED
                BY <1>1, <3>2, <4>1, <4>2, <4>3
        <3>3. QED
            BY <3>1, <3>2
    <2>2. QED
        BY <2>1
<1>4. Walks(c)
    BY <1>3
<1>5. ASSUME NEW f, Walks(f), NEW n \in 0..len
      PROVE  f[n] = IF n = 0 THEN [j \in Keys |-> 0]
                    ELSE [f[n - 1] EXCEPT ![events[n].key] = IF events[n].kind = "entry" THEN n ELSE 0]
    BY <1>5
<1> DEFINE Bad == {n \in 0..len : c[n] # g[n]}
<1>6. ASSUME Bad # {} PROVE FALSE
    <2>1. PICK n \in Bad : \A m \in Bad : n <= m
        <3>1. Bad \in SUBSET Nat
            BY <1>1
        <3> HIDE DEF Bad
        <3>2. QED
            BY <1>6, <3>1, Least
    <2>2. n \in 0..len /\ c[n] # g[n]
        BY <2>1
    <2>3. n = 0 \/ (n - 1 \in 0..len /\ ~(n <= n - 1))
        BY <1>1, <2>2
    <2>4. n = 0 \/ c[n - 1] = g[n - 1]
        BY <2>1, <2>3
    <2>5. c[n] = g[n]
        <3> HIDE DEF c, g, Walks, Bad
        <3>1. c[n] = IF n = 0 THEN [j \in Keys |-> 0]
                     ELSE [c[n - 1] EXCEPT ![events[n].key] = IF events[n].kind = "entry" THEN n ELSE 0]
            BY <1>4, <1>5, <2>2
        <3>2. g[n] = IF n = 0 THEN [j \in Keys |-> 0]
                     ELSE [g[n - 1] EXCEPT ![events[n].key] = IF events[n].kind = "entry" THEN n ELSE 0]
            BY <1>3, <1>5, <2>2
        <3>3. QED
            BY <2>4, <3>1, <3>2
    <2>6. QED
        BY <2>2, <2>5
<1>7. c[len] = g[len]
    <2>1. len \in 0..len
        BY <1>1
    <2> HIDE DEF c, g
    <2>2. QED
        BY <1>6, <2>1
<1>8. QED
    <2>1. g[len][k] = OpenAt(events, len, k)
        BY <1>1
    <2> HIDE DEF c, g, len
    <2>2. QED
        BY <1>2, <1>7, <2>1 DEF len

(***************************************************************************)
(* Both readers of the file, for every file: the rows they show as open    *)
(* are exactly the entries that are the last line of their key             *)
(* (reconcile.py _pair_entries, ui/rest.py).                               *)
(***************************************************************************)
THEOREM PairingIsRight == \A events \in Seq(Line) : PairEntries(events) = LastOfKey(events)
<1>1. TAKE events \in Seq(Line)
<1>2. Len(events) \in Nat /\ \A n \in 1..Len(events) : events[n].key \in Keys
    <2>1. \A n \in 1..Len(events) : events[n] \in Line
        OBVIOUS
    <2>2. QED
        BY <2>1 DEF Line
<1>3. ASSUME NEW n \in 1..Len(events)
      PROVE  OpenByKey(events)[events[n].key] = n <=> IsOpen(events, Len(events), events[n].key, n)
    <2>1. OpenByKey(events)[events[n].key] = OpenAt(events, Len(events), events[n].key)
        BY <1>2, WalkIsOpenAt
    <2>2. CASE \E m : IsOpen(events, Len(events), events[n].key, m)
        BY <1>2, <2>1, <2>2, OpenAtIs
    <2>3. CASE \A m : ~IsOpen(events, Len(events), events[n].key, m)
        <3>1. OpenAt(events, Len(events), events[n].key) = 0
            BY <1>2, <2>3, OpenAtIs
        <3>2. QED
            BY <2>1, <2>3, <3>1
    <2>4. QED
        BY <2>2, <2>3
<1>4. \A n \in 1..Len(events) :
        IsOpen(events, Len(events), events[n].key, n) <=>
            /\ events[n].kind = "entry"
            /\ \A m \in (n + 1)..Len(events) : events[m].key # events[n].key
    BY DEF IsOpen
<1>5. QED
    BY <1>3, <1>4 DEF PairEntries, LastOfKey
----
(***************************************************************************)
(* What the reconciliation appends: one exit line for every open entry, in *)
(* some order.                                                             *)
(***************************************************************************)
LEMMA SyntheticExitsCover ==
    ASSUME NEW events \in Seq(Line), NEW exits \in SyntheticExits(events)
    PROVE  /\ exits \in Seq(Line) /\ Len(exits) \in Nat
           /\ \E s \in [1..Len(exits) -> PairEntries(events)] :
                /\ \A m \in 1..Len(exits) : exits[m] = ExitLine(events[s[m]].key, events[s[m]].trade, "reconcile")
                /\ \A l, m \in 1..Len(exits) : s[l] = s[m] => l = m
                /\ \A n \in PairEntries(events) : \E m \in 1..Len(exits) : s[m] = n
<1> DEFINE P == PairEntries(events)
           c == Cardinality(P)
<1>1. PICK s \in SetToSeqs(P) :
        exits = [n \in DOMAIN s |-> ExitLine(events[s[n]].key, events[s[n]].trade, "reconcile")]
    BY DEF SyntheticExits
<1>2. P \subseteq 1..Len(events) /\ IsFiniteSet(P) /\ c \in Nat
    <2>1. P \subseteq 1..Len(events)
        BY DEF PairEntries
    <2>2. IsFiniteSet(1..Len(events))
        BY FS_Interval
    <2>3. QED
        BY <2>1, <2>2, FS_Subset, FS_CardinalityType
<1> HIDE DEF P, c
<1>3. s \in [1..c -> P] /\ \A l, m \in 1..c : s[l] = s[m] => l = m
    BY DEF SetToSeqs, c
<1>4. /\ exits \in Seq(Line)
      /\ \A n \in 1..Len(exits) :
            /\ exits[n].kind = "exit"
            /\ \E m \in 1..Len(events) : exits[n].trade = events[m].trade
    BY SyntheticExitsAreExits
<1>5. Len(exits) = c /\ \A m \in 1..c : exits[m] = ExitLine(events[s[m]].key, events[s[m]].trade, "reconcile")
    <2>1. DOMAIN exits = 1..c
        BY <1>1, <1>3
    <2>2. DOMAIN exits = 1..Len(exits) /\ Len(exits) \in Nat
        BY <1>4
    <2>3. Len(exits) = c
        BY <1>2, <2>1, <2>2
    <2>4. QED
        BY <1>1, <1>3, <2>3
<1>6. \A n \in P : \E m \in 1..c : s[m] = n
    <2>1. s \in Injection(1..c, P)
        BY <1>3 DEF Injection, IsInjective
    <2>2. IsFiniteSet(1..c) /\ Cardinality(1..c) = c
        BY <1>2, FS_Interval
    <2>3. s \in Surjection(1..c, P)
        BY <1>2, <2>1, <2>2, FS_Injection DEF c
    <2>4. QED
        BY <2>3 DEF Surjection
<1>7. QED
    BY <1>2, <1>3, <1>4, <1>5, <1>6 DEF P

(***************************************************************************)
(* After the reconciliation no reader of the log sees an open row          *)
(* (critical/__main__.py calls reconcile_orphan_entries before the engine  *)
(* starts), whatever the dead process left in it.                          *)
(***************************************************************************)
THEOREM RestartClosesRows == Spec => RestartLeavesNoOpenRow
<1>1. ASSUME TypeInv, TypeInv', [Next]_vars, ~up, up'
      PROVE  PairEntries(log') = {}
    <2>1. Restart
        <3> USE <1>1 DEF process
        <3>1. Restart \/ (up' => up)
            BY DEF Next, OnIndexTick, OnOptionTick, ManagePass, Close, SellPosition, ClearPosition,
                   BookResult, HaltIndex, TryEntry, PassGate, NoEntry, EnterTrade, AssignPosition,
                   Tick, Crash, vars
        <3>2. QED
            BY <3>1
    <2>2. PICK exits \in SyntheticExits(log) : log' = log \o exits
        BY <2>1 DEF Restart
    <2>3. log \in Seq(Line) /\ log' \in Seq(Line)
        BY <1>1 DEF TypeInv, TypeOK
    <2>4. exits \in Seq(Line) /\ Len(exits) \in Nat /\ Len(log) \in Nat
        BY <2>2, <2>3, SyntheticExitsCover
    <2>5. PICK s \in [1..Len(exits) -> PairEntries(log)] :
            /\ \A m \in 1..Len(exits) : exits[m] = ExitLine(log[s[m]].key, log[s[m]].trade, "reconcile")
            /\ \A n \in PairEntries(log) : \E m \in 1..Len(exits) : s[m] = n
        BY <2>2, <2>3, SyntheticExitsCover
    <2>6. /\ Len(log') = Len(log) + Len(exits)
          /\ \A m \in 1..Len(log) : log'[m] = log[m]
          /\ \A m \in 1..Len(exits) : log'[Len(log) + m] = exits[m]
        BY <2>2, <2>3, <2>4
    <2>7. ASSUME NEW n \in LastOfKey(log') PROVE FALSE
        <3>1. /\ n \in 1..Len(log') /\ log'[n].kind = "entry"
              /\ \A m \in (n + 1)..Len(log') : log'[m].key # log'[n].key
            BY <2>7 DEF LastOfKey
        <3>2. n \in 1..Len(log)
            <4>1. ASSUME n \notin 1..Len(log) PROVE FALSE
                <5>1. n - Len(log) \in 1..Len(exits) /\ n = Len(log) + (n - Len(log))
                    BY <2>4, <2>6, <3>1, <4>1
                <5>2. log'[n] = ExitLine(log[s[n - Len(log)]].key, log[s[n - Len(log)]].trade, "reconcile")
                    BY <2>5, <2>6, <5>1
                <5>3. QED
                    BY <3>1, <5>2 DEF ExitLine
            <4>2. QED
                BY <4>1
        <3>3. log'[n] = log[n] /\ \A m \in (n + 1)..Len(log) : m \in (n + 1)..Len(log') /\ log'[m] = log[m]
            BY <2>4, <2>6, <3>2
        <3>4. n \in PairEntries(log)
            <4>1. n \in LastOfKey(log)
                BY <3>1, <3>2, <3>3 DEF LastOfKey
            <4>2. QED
                BY <2>3, <4>1, PairingIsRight
        <3>5. PICK m \in 1..Len(exits) : s[m] = n
            BY <2>5, <3>4
        <3>6. log'[Len(log) + m].key = log[n].key
            <4>1. exits[m] = ExitLine(log[n].key, log[n].trade, "reconcile")
                BY <2>5, <3>5
            <4>2. QED
                BY <2>6, <4>1 DEF ExitLine
        <3>7. Len(log) + m \in (n + 1)..Len(log')
            BY <2>4, <2>6, <3>2, <3>5
        <3>8. QED
            BY <3>1, <3>3, <3>6, <3>7
    <2>8. PairEntries(log') = LastOfKey(log')
        BY <2>3, PairingIsRight
    <2>9. QED
        BY <2>7, <2>8
<1>2. TypeInv /\ TypeInv' /\ [Next]_vars => [~up /\ up' => PairEntries(log') = {}]_vars
    BY <1>1
<1>3. QED
    BY <1>2, TypeCorrect, PTL DEF Spec, RestartLeavesNoOpenRow
----
(***************************************************************************)
(* The inductive invariant behind SoldOncePerThread, in two parts.  The    *)
(* lines of the log: a trade is entered once, and an exit line comes after *)
(* the entry line of its trade and has the same key.                       *)
(***************************************************************************)
EntryIn(events, key, n) == \E m \in 1..Len(events) : events[m] = EntryLine(key, n)

EntriesOnce(events) ==
    \A l, m \in 1..Len(events) :
        events[l].kind = "entry" /\ events[m].kind = "entry" /\ events[l].trade = events[m].trade
            => l = m

ExitsFollow(events) ==
    \A m \in 1..Len(events) : events[m].kind = "exit" =>
        \E l \in 1..(m - 1) : events[l] = EntryLine(events[m].key, events[m].trade)

\* What a thread is about to write about a trade has the key it was entered with.
KeysAgree ==
    /\ \A i \in Indices : Held(i) => EntryIn(log, <<i, position[i].contract>>, position[i].trade)
    /\ \A t \in Thread : pc[t] = "sell" =>
            EntryIn(log, <<job[t].index, job[t].pos.contract>>, job[t].pos.trade)
    /\ pc["sub"] = "assign" =>
            EntryIn(log, <<job["sub"].index, job["sub"].pos.contract>>, job["sub"].pos.trade)

LinesInv ==
    /\ EntriesOnce(log) /\ ExitsFollow(log)
    /\ pc["sub"] = "enter" => ~HasEntry(log, trades)
    /\ KeysAgree

LEMMA AppendedLine ==
    ASSUME NEW events \in Seq(Line), NEW line \in Line, NEW after, after = Append(events, line)
    PROVE  /\ Len(events) \in Nat /\ Len(after) = Len(events) + 1 /\ after \in Seq(Line)
           /\ \A m \in 1..Len(events) : m \in 1..Len(after) /\ after[m] = events[m]
           /\ after[Len(events) + 1] = line
           /\ \A m \in 1..Len(after) : m \in 1..Len(events) \/ m = Len(events) + 1
OBVIOUS

\* An entry, once in the log, stays there.
LEMMA EntryStays ==
    ASSUME NEW events \in Seq(Line), NEW line \in Line, NEW after, after = Append(events, line),
           NEW key, NEW n, EntryIn(events, key, n)
    PROVE  EntryIn(after, key, n)
BY AppendedLine DEF EntryIn

\* A first entry of its trade.
LEMMA EntryKeepsLines ==
    ASSUME NEW events \in Seq(Line), NEW key \in Keys, NEW n \in Nat,
           NEW after, after = Append(events, EntryLine(key, n)),
           EntriesOnce(events), ExitsFollow(events), ~HasEntry(events, n)
    PROVE  EntriesOnce(after) /\ ExitsFollow(after)
<1>1. EntryLine(key, n) \in Line /\ EntryLine(key, n).kind = "entry" /\ EntryLine(key, n).trade = n
    BY DEF EntryLine, Line
<1>2. /\ Len(events) \in Nat /\ Len(after) = Len(events) + 1
      /\ \A m \in 1..Len(events) : m \in 1..Len(after) /\ after[m] = events[m]
      /\ after[Len(events) + 1] = EntryLine(key, n)
      /\ \A m \in 1..Len(after) : m \in 1..Len(events) \/ m = Len(events) + 1
    BY <1>1, AppendedLine
<1>3. \A m \in 1..Len(events) : ~(events[m].kind = "entry" /\ events[m].trade = n)
    BY DEF HasEntry
<1>4. EntriesOnce(after)
    BY <1>1, <1>2, <1>3 DEF EntriesOnce
<1>5. ExitsFollow(after)
    <2> SUFFICES ASSUME NEW m \in 1..Len(after), after[m].kind = "exit"
                 PROVE  \E l \in 1..(m - 1) : after[l] = EntryLine(after[m].key, after[m].trade)
        BY DEF ExitsFollow
    <2>1. m \in 1..Len(events) /\ after[m] = events[m]
        BY <1>1, <1>2
    <2>2. PICK l \in 1..(m - 1) : events[l] = EntryLine(events[m].key, events[m].trade)
        BY <2>1 DEF ExitsFollow
    <2>3. l \in 1..Len(events)
        BY <1>2, <2>1
    <2>4. QED
        BY <1>2, <2>1, <2>2, <2>3
<1>6. QED
    BY <1>4, <1>5

\* Exit lines, each about an entry that is there.
LEMMA ExitsKeepLines ==
    ASSUME NEW events \in Seq(Line), NEW exits \in Seq(Line), NEW after, after = events \o exits,
           EntriesOnce(events), ExitsFollow(events),
           \A m \in 1..Len(exits) : /\ exits[m].kind = "exit"
                                    /\ EntryIn(events, exits[m].key, exits[m].trade)
    PROVE  /\ EntriesOnce(after) /\ ExitsFollow(after)
           /\ \A n : HasEntry(after, n) <=> HasEntry(events, n)
<1>1. /\ Len(events) \in Nat /\ Len(exits) \in Nat /\ Len(after) = Len(events) + Len(exits)
      /\ \A m \in 1..Len(events) : m \in 1..Len(after) /\ after[m] = events[m]
      /\ \A m \in 1..Len(after) : m \in 1..Len(events) \/ (/\ m - Len(events) \in 1..Len(exits)
                                                           /\ after[m] = exits[m - Len(events)])
    OBVIOUS
<1>2. \A m \in 1..Len(after) : after[m].kind = "entry" => m \in 1..Len(events)
    BY <1>1
<1>3. EntriesOnce(after)
    BY <1>1, <1>2 DEF EntriesOnce
<1>4. ExitsFollow(after)
    <2> SUFFICES ASSUME NEW m \in 1..Len(after), after[m].kind = "exit"
                 PROVE  \E l \in 1..(m - 1) : after[l] = EntryLine(after[m].key, after[m].trade)
        BY DEF ExitsFollow
    <2>1. CASE m \in 1..Len(events)
        <3>1. PICK l \in 1..(m - 1) : events[l] = EntryLine(events[m].key, events[m].trade)
            BY <1>1, <2>1 DEF ExitsFollow
        <3>2. l \in 1..Len(events)
            BY <1>1, <2>1
        <3>3. QED
            BY <1>1, <2>1, <3>1, <3>2
    <2>2. CASE m \notin 1..Len(events)
        <3>1. m - Len(events) \in 1..Len(exits) /\ after[m] = exits[m - Len(events)]
            BY <1>1, <2>2
        <3>2. PICK l \in 1..Len(events) : events[l] = EntryLine(after[m].key, after[m].trade)
            BY <3>1 DEF EntryIn
        <3>3. l \in 1..(m - 1)
            BY <1>1, <2>2
        <3>4. QED
            BY <1>1, <3>2, <3>3
    <2>3. QED
        BY <2>1, <2>2
<1>5. QED
    BY <1>1, <1>2, <1>3, <1>4 DEF HasEntry

LEMMA LinesInit == Init => LinesInv
<1> SUFFICES ASSUME Init PROVE LinesInv
    OBVIOUS
<1>1. /\ \A i \in Indices : ~Held(i)
      /\ \A t \in Thread : pc[t] = "idle"
      /\ "sub" \in Thread
      /\ Len(log) = 0
    BY DEF Init, All, Held, Thread
<1>2. QED
    BY <1>1 DEF LinesInv, EntriesOnce, ExitsFollow, KeysAgree

LEMMA QuietKeepsLines ==
    ASSUME TypeInv, TypeInv', LinesInv, QuietStep
    PROVE  LinesInv'
<1>1. position' = position /\ log' = log /\ trades' = trades
    BY DEF QuietStep
<1>2. \A i : Held(i)' <=> Held(i)
    BY <1>1 DEF Held
<1>3. ASSUME NEW t \in Thread, pc'[t] = "sell"
      PROVE  \/ pc[t] = "sell" /\ job'[t] = job[t]
             \/ /\ job'[t].index \in Indices /\ Held(job'[t].index)
                /\ job'[t].pos = position[job'[t].index]
    BY <1>3 DEF QuietStep, ThreadQuiet, TypeInv, ThreadsOK, Job
<1>4. pc'["sub"] \in Entering => pc["sub"] = pc'["sub"] /\ job'["sub"] = job["sub"]
    BY DEF QuietStep, ThreadQuiet, Thread, Entering
<1>5. KeysAgree'
    BY <1>1, <1>2, <1>3, <1>4 DEF LinesInv, KeysAgree, Entering
<1>6. QED
    BY <1>1, <1>4, <1>5 DEF LinesInv, Entering

LEMMA SaleKeepsLines ==
    ASSUME TypeInv, TypeInv', LinesInv, NEW t \in Thread, SellPosition(t)
    PROVE  LinesInv'
<1> DEFINE n == job[t].pos.trade
           key == <<job[t].index, job[t].pos.contract>>
<1> t \in Writers
    BY DEF Thread, Writers
<1>1. CASE QuietStep
    BY <1>1, QuietKeepsLines
<1>2. CASE /\ log' = Append(log, ExitLine(key, n, t))
           /\ Moves(t) /\ pc[t] = "sell" /\ pc'[t] = "clear"
           /\ job'[t].index = job[t].index
           /\ UNCHANGED <<position, trades>>
    <2>1. key \in Keys /\ n \in Nat /\ log \in Seq(Line)
        <3>1. job[t] \in Job /\ job[t].pos \in Position
            BY <1>2 DEF TypeInv, ThreadsOK
        <3>2. job[t].index \in Indices
            BY <3>1 DEF Job
        <3>3. n \in Nat /\ job[t].pos.contract \in Contracts
            BY <3>1, LimitsAssumption DEF Position
        <3>4. QED
            BY <3>2, <3>3 DEF Keys, TypeInv, TypeOK
    <2>2. EntryIn(log, key, n)
        BY <1>2 DEF LinesInv, KeysAgree
    <2>3. log' = Append(log, ExitLine(key, n, t)) /\ EntriesOnce(log) /\ ExitsFollow(log)
        BY <1>2 DEF LinesInv
    <2>4. /\ EntriesOnce(log') /\ ExitsFollow(log')
          /\ \A k : HasEntry(log', k) <=> HasEntry(log, k)
        <3> HIDE DEF n, key
        <3>1. ExitLine(key, n, t) \in Line
            BY <2>1, LinesAreLines
        <3>2. /\ <<ExitLine(key, n, t)>> \in Seq(Line) /\ Len(<<ExitLine(key, n, t)>>) = 1
              /\ <<ExitLine(key, n, t)>>[1] = ExitLine(key, n, t)
              /\ log' = log \o <<ExitLine(key, n, t)>>
            BY <2>1, <2>3, <3>1
        <3>3. \A m \in 1..Len(<<ExitLine(key, n, t)>>) :
                /\ <<ExitLine(key, n, t)>>[m].kind = "exit"
                /\ EntryIn(log, <<ExitLine(key, n, t)>>[m].key, <<ExitLine(key, n, t)>>[m].trade)
            BY <2>2, <3>2 DEF ExitLine
        <3>4. QED
            BY <2>1, <2>3, <3>2, <3>3, ExitsKeepLines
    <2>5. \A u \in Thread : u # t => pc'[u] = pc[u] /\ job'[u] = job[u]
        BY <1>2 DEF Moves, TypeInv, ThreadsOK
    <2>6. \A u \in Thread : pc'[u] = "sell" => pc[u] = "sell" /\ job'[u] = job[u]
        BY <1>2, <2>5
    <2>7. pc'["sub"] \in Entering => pc["sub"] = pc'["sub"] /\ job'["sub"] = job["sub"]
        BY <1>2, <2>5 DEF Thread, Entering
    <2>8. \A k, m : EntryIn(log, k, m) => EntryIn(log', k, m)
        <3>1. ExitLine(key, n, t) \in Line
            BY <2>1, LinesAreLines
        <3> HIDE DEF n, key
        <3>2. QED
            BY <2>1, <2>3, <3>1, EntryStays
    <2>9. \A i : Held(i)' <=> Held(i)
        BY <1>2 DEF Held
    <2>10. KeysAgree'
        BY <1>2, <2>6, <2>7, <2>8, <2>9 DEF LinesInv, KeysAgree, Entering
    <2>11. pc'["sub"] = "enter" => ~HasEntry(log', trades')
        BY <1>2, <2>4, <2>7 DEF LinesInv, Entering
    <2>12. QED
        BY <2>4, <2>10, <2>11 DEF LinesInv
<1>3. QED
    BY <1>1, <1>2, SaleKinds

LEMMA ReleaseKeepsLines ==
    ASSUME TypeInv, LinesInv, NEW t \in Thread, ClearPosition(t)
    PROVE  LinesInv'
<1>1. log' = log /\ trades' = trades /\ job[t].index \in Indices
    BY DEF ClearPosition, audit, TypeInv, ThreadsOK, Job
<1>2. \A i \in Indices : Held(i)' => Held(i) /\ position'[i] = position[i]
    BY <1>1 DEF ClearPosition, Held, TypeInv, TypeOK
<1>3. Moves(t) /\ pc[t] = "clear" /\ pc'[t] = "book"
    BY GotoMoves DEF ClearPosition, TypeInv
<1>4. \A u \in Thread : u # t => pc'[u] = pc[u] /\ job'[u] = job[u]
    BY <1>3 DEF Moves, TypeInv, ThreadsOK
<1>5. \A u \in Thread : pc'[u] = "sell" => pc[u] = "sell" /\ job'[u] = job[u]
    BY <1>3, <1>4
<1>6. pc'["sub"] \in Entering => pc["sub"] = pc'["sub"] /\ job'["sub"] = job["sub"]
    BY <1>3, <1>4 DEF Thread, Entering
<1>7. KeysAgree'
    BY <1>1, <1>2, <1>5, <1>6 DEF LinesInv, KeysAgree, Entering
<1>8. QED
    BY <1>1, <1>6, <1>7 DEF LinesInv, Entering

LEMMA GateKeepsLines ==
    ASSUME TypeInv, TradesInv, LinesInv, NEW c \in Contracts, PassGate(c)
    PROVE  LinesInv'
<1>1. position' = position /\ log' = log /\ trades' = trades + 1 /\ trades \in Nat
    BY LimitsAssumption DEF PassGate, TypeInv, TypeOK
<1>2. \A i : Held(i)' <=> Held(i)
    BY <1>1 DEF Held
<1>3. pc'["sub"] = "enter" /\ \A u \in Thread : u # "sub" => pc'[u] = pc[u] /\ job'[u] = job[u]
    BY DEF PassGate, Goto, TypeInv, ThreadsOK, Thread
<1>4. \A u \in Thread : pc'[u] = "sell" => pc[u] = "sell" /\ job'[u] = job[u]
    BY <1>3
<1>5. ~HasEntry(log, trades + 1)
    <2>1. \A m \in 1..Len(log) : log[m].trade \in Nat /\ log[m].trade <= trades
        <3>1. \A m \in 1..Len(log) : log[m] \in Line
            BY DEF TypeInv, TypeOK
        <3>2. \A line \in Line : line.trade \in Nat
            BY DEF Line
        <3>3. QED
            BY <3>1, <3>2 DEF TradesInv, NumbersUsed
    <2>2. QED
        BY <1>1, <2>1 DEF HasEntry
<1>6. KeysAgree'
    BY <1>1, <1>2, <1>3, <1>4 DEF LinesInv, KeysAgree
<1>7. QED
    BY <1>1, <1>5, <1>6 DEF LinesInv

LEMMA EnterKeepsLines ==
    ASSUME TypeInv, TradesInv, LinesInv, EnterTrade
    PROVE  LinesInv'
<1> DEFINE j == job["sub"]
           n == j.pos.trade
           key == <<j.index, j.pos.contract>>
<1>1. /\ position' = position /\ trades' = trades /\ trades \in Nat
      /\ "sub" \in Thread /\ pc["sub"] = "enter"
    BY LimitsAssumption DEF EnterTrade, TypeInv, TypeOK, Thread
<1>2. \A i : Held(i)' <=> Held(i)
    BY <1>1 DEF Held
<1>3. /\ pc'["sub"] = "assign" /\ job' = job
      /\ \A u \in Thread : u # "sub" => pc'[u] = pc[u]
    BY DEF EnterTrade, Goto, TypeInv, ThreadsOK, Thread
<1>4. \A u \in Thread : pc'[u] = "sell" => pc[u] = "sell"
    BY <1>3
<1>5. n \in Nat /\ key \in Keys /\ log \in Seq(Line) /\ n = trades
    <2>1. j.pos \in Position /\ j.index \in Indices
        BY <1>1 DEF TypeInv, ThreadsOK, Job
    <2>2. QED
        BY <1>1, <2>1, LimitsAssumption
        DEF TradesInv, NewTradeIsNew, Entering, Position, Keys, TypeInv, TypeOK
<1>6. log' = Append(log, EntryLine(key, n)) /\ ~HasEntry(log, n)
    BY <1>1, <1>5 DEF EnterTrade, LinesInv
<1>7. /\ EntriesOnce(log') /\ ExitsFollow(log') /\ EntryIn(log', key, n)
      /\ \A k, m : EntryIn(log, k, m) => EntryIn(log', k, m)
    <2>1. n \in Nat /\ key \in Keys /\ log \in Seq(Line)
        BY <1>5
    <2>2. log' = Append(log, EntryLine(key, n)) /\ ~HasEntry(log, n)
        BY <1>6
    <2> HIDE DEF n, key
    <2>3. EntryLine(key, n) \in Line
        BY <2>1, LinesAreLines
    <2>4. EntriesOnce(log') /\ ExitsFollow(log')
        BY <2>1, <2>2, EntryKeepsLines DEF LinesInv
    <2>5. EntryIn(log', key, n)
        BY <2>1, <2>2, <2>3 DEF EntryIn
    <2>6. QED
        BY <2>1, <2>2, <2>3, <2>4, <2>5, EntryStays
<1>8. KeysAgree'
    BY <1>1, <1>2, <1>3, <1>4, <1>7 DEF LinesInv, KeysAgree
<1>9. QED
    BY <1>3, <1>7, <1>8 DEF LinesInv

LEMMA AssignKeepsLines ==
    ASSUME TypeInv, LinesInv, AssignPosition
    PROVE  LinesInv'
<1> DEFINE j == job["sub"]
<1>1. /\ log' = log /\ trades' = trades /\ "sub" \in Thread /\ pc["sub"] = "assign"
      /\ j.index \in Indices
    BY DEF AssignPosition, audit, TypeInv, ThreadsOK, Thread, Job
<1>2. Moves("sub") /\ pc'["sub"] = "idle"
    BY <1>1, GotoMoves DEF AssignPosition, Finish, TypeInv
<1>3. \A u \in Thread : u # "sub" => pc'[u] = pc[u] /\ job'[u] = job[u]
    BY <1>2 DEF Moves, TypeInv, ThreadsOK
<1>4. \A u \in Thread : pc'[u] = "sell" => pc[u] = "sell" /\ job'[u] = job[u]
    BY <1>2, <1>3
<1>5. \A i \in Indices : position'[i] = IF i = j.index THEN j.pos ELSE position[i]
    BY <1>1 DEF AssignPosition, TypeInv, TypeOK
<1>6. \A i \in Indices : Held(i)' => i = j.index \/ Held(i)
    BY <1>5 DEF Held
<1>7. KeysAgree'
    BY <1>1, <1>2, <1>4, <1>5, <1>6 DEF LinesInv, KeysAgree
<1>8. QED
    BY <1>1, <1>2, <1>7 DEF LinesInv

\* What the reconciliation writes is about entries that are there.
LEMMA SyntheticAboutEntries ==
    ASSUME NEW events \in Seq(Line), NEW exits \in SyntheticExits(events)
    PROVE  \A m \in 1..Len(exits) : /\ exits[m].kind = "exit"
                                    /\ EntryIn(events, exits[m].key, exits[m].trade)
<1>1. PICK s \in [1..Len(exits) -> PairEntries(events)] :
        \A m \in 1..Len(exits) : exits[m] = ExitLine(events[s[m]].key, events[s[m]].trade, "reconcile")
    BY SyntheticExitsCover
<1>2. TAKE m \in 1..Len(exits)
<1>3. s[m] \in LastOfKey(events)
    BY <1>1, PairingIsRight
<1>4. s[m] \in 1..Len(events) /\ events[s[m]].kind = "entry"
    BY <1>3 DEF LastOfKey
<1>5. events[s[m]] = EntryLine(events[s[m]].key, events[s[m]].trade)
    <2>1. events[s[m]] \in Line
        BY <1>4
    <2>2. QED
        BY <1>4, <2>1 DEF Line, EntryLine
<1>6. exits[m].kind = "exit" /\ exits[m].key = events[s[m]].key /\ exits[m].trade = events[s[m]].trade
    <2>1. exits[m] = ExitLine(events[s[m]].key, events[s[m]].trade, "reconcile")
        BY <1>1
    <2>2. QED
        BY <2>1 DEF ExitLine
<1>7. QED
    BY <1>4, <1>5, <1>6 DEF EntryIn

LEMMA DeathKeepsLines ==
    ASSUME TypeInv, LinesInv, Crash \/ Restart
    PROVE  LinesInv'
<1>1. /\ \A i \in Indices : ~Held(i)'
      /\ \A t \in Thread : pc'[t] = "idle"
      /\ "sub" \in Thread
    BY DEF Crash, Restart, TypeInv, DownOK, All, Held, audit, threads, Thread
<1>2. EntriesOnce(log') /\ ExitsFollow(log')
    <2>1. CASE Crash
        BY <2>1 DEF Crash, audit, LinesInv
    <2>2. CASE Restart
        <3>1. log \in Seq(Line)
            BY DEF TypeInv, TypeOK
        <3>2. PICK exits \in SyntheticExits(log) : log' = log \o exits
            BY <2>2 DEF Restart
        <3>3. exits \in Seq(Line)
            BY <3>1, <3>2, SyntheticExitsCover
        <3>4. \A m \in 1..Len(exits) : /\ exits[m].kind = "exit"
                                       /\ EntryIn(log, exits[m].key, exits[m].trade)
            BY <3>1, <3>2, SyntheticAboutEntries
        <3>5. QED
            BY <3>1, <3>2, <3>3, <3>4, ExitsKeepLines DEF LinesInv
    <2>3. QED
        BY <2>1, <2>2
<1>3. QED
    BY <1>1, <1>2 DEF LinesInv, KeysAgree

LEMMA LinesStep == TypeInv /\ TypeInv' /\ TradesInv /\ LinesInv /\ [Next]_vars => LinesInv'
BY TradeSteps, QuietKeepsLines, SaleKeepsLines, ReleaseKeepsLines, GateKeepsLines,
   EnterKeepsLines, AssignKeepsLines, DeathKeepsLines
----
(***************************************************************************)
(* The sales of one trade.  The exit lines of a held trade were written by *)
(* threads that are about to release its index; a thread about to sell a   *)
(* trade has not sold it, nor has the reconciliation; and no writer has    *)
(* written two exit lines of one trade.                                    *)
(***************************************************************************)
ExitsIn(events, n) == {m \in 1..Len(events) : events[m].kind = "exit" /\ events[m].trade = n}

Releases(who, i) == who \in Thread /\ pc[who] = "clear" /\ job[who].index = i

OnceEach(events) ==
    \A n : \A l, m \in ExitsIn(events, n) :
        events[l].by \in {events[m].by, "reconcile"} => l = m

SalesInv ==
    /\ \A i \in Indices : Held(i) =>
            \A m \in ExitsIn(log, position[i].trade) : Releases(log[m].by, i)
    /\ \A t \in Thread : pc[t] = "sell" =>
            \A m \in ExitsIn(log, job[t].pos.trade) : log[m].by \notin {t, "reconcile"}
    /\ OnceEach(log)

LEMMA SalesInit == Init => SalesInv
<1> SUFFICES ASSUME Init PROVE SalesInv
    OBVIOUS
<1>1. /\ \A i \in Indices : ~Held(i)
      /\ \A t \in Thread : pc[t] = "idle"
      /\ Len(log) = 0
    BY DEF Init, All, Held
<1>2. QED
    BY <1>1 DEF SalesInv, OnceEach, ExitsIn

\* A quiet step: only the sale of a held position may begin.
LEMMA QuietKeepsSales ==
    ASSUME TypeInv, TypeInv', SalesInv, QuietStep
    PROVE  SalesInv'
<1>1. position' = position /\ log' = log
    BY DEF QuietStep
<1>2. \A i : Held(i)' <=> Held(i)
    BY <1>1 DEF Held
<1>3. \A who, i : Releases(who, i) => Releases(who, i)'
    BY DEF QuietStep, ThreadQuiet, Releases
<1>4. ASSUME NEW t \in Thread, pc'[t] = "sell", NEW m \in ExitsIn(log, job'[t].pos.trade)
      PROVE  log[m].by \notin {t, "reconcile"}
    <2>1. CASE pc'[t] = pc[t] /\ job'[t] = job[t]
        BY <1>4, <2>1 DEF SalesInv
    <2>2. CASE ~(pc'[t] = pc[t] /\ job'[t] = job[t])
        <3>1. /\ Held(job'[t].index) /\ job'[t].pos = position[job'[t].index]
              /\ pc[t] # "clear"
            BY <1>4, <2>2 DEF QuietStep, ThreadQuiet
        <3>2. job'[t].index \in Indices
            BY DEF TypeInv, ThreadsOK, Job
        <3>3. Releases(log[m].by, job'[t].index)
            BY <1>4, <3>1, <3>2 DEF SalesInv
        <3>4. QED
            BY <3>1, <3>3 DEF Releases, Thread
    <2>3. QED
        BY <2>1, <2>2
<1>5. QED
    BY <1>1, <1>2, <1>3, <1>4 DEF SalesInv

\* What one more line adds to the exit lines of a trade.
LEMMA ExitsAfter ==
    ASSUME NEW events \in Seq(Line), NEW line \in Line, NEW after, after = Append(events, line), NEW n
    PROVE  \A m \in ExitsIn(after, n) :
              \/ m \in ExitsIn(events, n) /\ after[m] = events[m]
              \/ m = Len(events) + 1 /\ after[m] = line /\ line.kind = "exit" /\ line.trade = n
BY AppendedLine DEF ExitsIn

\* The seller has not sold this trade before, so its new line is its first.
LEMMA SaleKeepsSales ==
    ASSUME TypeInv, TypeInv', TradesInv, SalesInv, NEW t \in Thread, SellPosition(t)
    PROVE  SalesInv'
<1>1. CASE QuietStep
    BY <1>1, QuietKeepsSales
<1>2. CASE /\ log' = Append(log, ExitLine(<<job[t].index, job[t].pos.contract>>, job[t].pos.trade, t))
           /\ Moves(t) /\ pc[t] = "sell" /\ pc'[t] = "clear"
           /\ job'[t].index = job[t].index
           /\ UNCHANGED <<position, trades>>
    <2>1. job[t].pos \in Position /\ job[t].index \in Indices /\ log \in Seq(Line)
        BY <1>2 DEF TypeInv, TypeOK, ThreadsOK, Job
    <2>2. PICK n \in Nat, line \in Line :
            /\ n = job[t].pos.trade /\ log' = Append(log, line)
            /\ line.kind = "exit" /\ line.trade = n /\ line.by = t
        <3> DEFINE key == <<job[t].index, job[t].pos.contract>>
                   k == job[t].pos.trade
        <3>1. k \in Nat /\ key \in Keys /\ t \in Writers
            BY <2>1, LimitsAssumption DEF Position, Keys, Thread, Writers
        <3>2. log' = Append(log, ExitLine(key, k, t))
            BY <1>2
        <3> HIDE DEF key
        <3>3. /\ ExitLine(key, k, t) \in Line /\ ExitLine(key, k, t).kind = "exit"
              /\ ExitLine(key, k, t).trade = k /\ ExitLine(key, k, t).by = t
            BY <3>1, LinesAreLines DEF ExitLine
        <3>4. QED
            BY <3>1, <3>2, <3>3
    <2>3. /\ pc[t] = "sell" /\ pc'[t] = "clear" /\ job'[t].index = job[t].index
          /\ position' = position
          /\ \A u \in Thread : u # t => pc'[u] = pc[u] /\ job'[u] = job[u]
        BY <1>2 DEF Moves, TypeInv, ThreadsOK
    <2>4. \A i : Held(i)' <=> Held(i)
        BY <2>3 DEF Held
    <2>5. \A k : \A m \in ExitsIn(log', k) :
            \/ m \in ExitsIn(log, k) /\ log'[m] = log[m]
            \/ m = Len(log) + 1 /\ log'[m] = line /\ k = n
        <3>1. PICK after : after = log'
            OBVIOUS
        <3>2. log \in Seq(Line) /\ after = Append(log, line)
            BY <2>1, <2>2, <3>1
        <3>3. ASSUME NEW k, NEW m \in ExitsIn(after, k)
              PROVE  \/ m \in ExitsIn(log, k) /\ after[m] = log[m]
                     \/ m = Len(log) + 1 /\ after[m] = line /\ line.trade = k
            BY <2>2, <3>2, <3>3, AppendedLine DEF ExitsIn
        <3>4. QED
            BY <2>2, <3>1, <3>3
    <2>6. \A who, i : Releases(who, i) => Releases(who, i)'
        BY <2>3 DEF Releases
    <2>7. ASSUME NEW i \in Indices, Held(i), NEW m \in ExitsIn(log', position[i].trade)
          PROVE  \E who : who = log'[m].by /\ Releases(who, i)'
        <3>1. CASE m \in ExitsIn(log, position[i].trade) /\ log'[m] = log[m]
            BY <2>6, <2>7, <3>1 DEF SalesInv
        <3>2. CASE log'[m] = line /\ position[i].trade = n
            <4>1. i = job[t].index
                BY <2>2, <2>3, <2>7, <3>2 DEF TradesInv, SellsOwn
            <4>2. QED
                BY <2>2, <2>3, <3>2, <4>1 DEF Releases
        <3>3. QED
            BY <2>5, <2>7, <3>1, <3>2
    <2>8. ASSUME NEW u \in Thread, pc'[u] = "sell", NEW m \in ExitsIn(log', job'[u].pos.trade)
          PROVE  log'[m].by \notin {u, "reconcile"}
        <3>1. u # t /\ pc[u] = "sell" /\ job'[u] = job[u]
            BY <2>3, <2>8
        <3>2. CASE m \in ExitsIn(log, job[u].pos.trade) /\ log'[m] = log[m]
            BY <3>1, <3>2 DEF SalesInv
        <3>3. CASE log'[m] = line
            BY <2>2, <3>1, <3>3 DEF Thread
        <3>4. QED
            BY <2>5, <2>8, <3>1, <3>2, <3>3
    <2>9. \A m \in ExitsIn(log, n) : log[m].by \notin {t, "reconcile"}
        BY <2>2, <2>3 DEF SalesInv
    <2>10. ASSUME NEW k, NEW l \in ExitsIn(log', k), NEW m \in ExitsIn(log', k),
                  log'[l].by \in {log'[m].by, "reconcile"}
           PROVE  l = m
        <3>1. CASE l \in ExitsIn(log, k) /\ log'[l] = log[l] /\ m \in ExitsIn(log, k) /\ log'[m] = log[m]
            BY <2>10, <3>1 DEF SalesInv, OnceEach
        <3>2. CASE l \in ExitsIn(log, k) /\ log'[l] = log[l] /\ log'[m] = line /\ k = n
            BY <2>2, <2>9, <2>10, <3>2
        <3>3. CASE m \in ExitsIn(log, k) /\ log'[m] = log[m] /\ log'[l] = line /\ k = n
            <4>1. log[m].by # t /\ t # "reconcile"
                BY <2>9, <3>3 DEF Thread
            <4>2. QED
                BY <2>2, <2>10, <3>3, <4>1
        <3>4. QED
            BY <2>5, <2>10, <3>1, <3>2, <3>3
    <2>11. OnceEach(log')
        BY <2>10 DEF OnceEach
    <2>12. QED
        BY <2>3, <2>4, <2>7, <2>8, <2>11 DEF SalesInv, Releases
<1>3. QED
    BY <1>1, <1>2, SaleKinds

(***************************************************************************)
(* A step in which nobody begins a sale or ends the release of a held      *)
(* position, and which writes no exit line.                                *)
(***************************************************************************)
LEMMA OtherKeepsSales ==
    ASSUME SalesInv,
           \A n : \A m \in ExitsIn(log', n) : m \in ExitsIn(log, n) /\ log'[m] = log[m],
           \A t \in Thread : pc'[t] = "sell" => pc[t] = "sell" /\ job'[t] = job[t],
           \A i \in Indices : Held(i)' =>
                \/ /\ Held(i) /\ position'[i] = position[i]
                   /\ \A who : Releases(who, i) => Releases(who, i)'
                \/ ExitsIn(log, position'[i].trade) = {}
    PROVE  SalesInv'
<1>1. ASSUME NEW i \in Indices, Held(i)', NEW m \in ExitsIn(log', position'[i].trade)
      PROVE  \E who : who = log'[m].by /\ Releases(who, i)'
    <2>1. m \in ExitsIn(log, position'[i].trade) /\ log'[m] = log[m]
        BY <1>1
    <2>2. Held(i) /\ position'[i] = position[i] /\ \A who : Releases(who, i) => Releases(who, i)'
        BY <1>1, <2>1
    <2>3. Releases(log[m].by, i)
        BY <2>1, <2>2 DEF SalesInv
    <2>4. QED
        BY <2>1, <2>2, <2>3
<1>2. OnceEach(log')
    BY DEF SalesInv, OnceEach
<1>3. ASSUME NEW t \in Thread, pc'[t] = "sell", NEW m \in ExitsIn(log', job'[t].pos.trade)
      PROVE  log'[m].by \notin {t, "reconcile"}
    BY <1>3 DEF SalesInv
<1>4. QED
    BY <1>1, <1>2, <1>3 DEF SalesInv, Releases

LEMMA ReleaseKeepsSales ==
    ASSUME TypeInv, SalesInv, NEW t \in Thread, ClearPosition(t)
    PROVE  SalesInv'
<1>1. log' = log /\ job[t].index \in Indices
    BY DEF ClearPosition, audit, TypeInv, ThreadsOK, Job
<1>2. \A i \in Indices : Held(i)' => Held(i) /\ position'[i] = position[i] /\ i # job[t].index
    BY <1>1 DEF ClearPosition, Held, TypeInv, TypeOK
<1>3. Moves(t) /\ pc[t] = "clear" /\ pc'[t] = "book"
    BY GotoMoves DEF ClearPosition, TypeInv
<1>4. \A u \in Thread : u # t => pc'[u] = pc[u] /\ job'[u] = job[u]
    BY <1>3 DEF Moves, TypeInv, ThreadsOK
<1>5. \A u \in Thread : pc'[u] = "sell" => pc[u] = "sell" /\ job'[u] = job[u]
    BY <1>3, <1>4
<1>6. \A i \in Indices : i # job[t].index => \A who : Releases(who, i) => Releases(who, i)'
    BY <1>4 DEF Releases
<1>7. QED
    BY <1>1, <1>2, <1>5, <1>6, OtherKeepsSales

\* The subscriber's steps from the gate to the assignment sell and release nothing.
LEMMA EntryMoves ==
    ASSUME TypeInv, Moves("sub"), pc["sub"] \in {"gate", "enter", "assign"},
           pc'["sub"] \in {"enter", "assign", "idle"}
    PROVE  /\ \A u \in Thread : pc'[u] = "sell" => pc[u] = "sell" /\ job'[u] = job[u]
           /\ \A who, i : Releases(who, i) => Releases(who, i)'
<1>1. \A u \in Thread : u # "sub" => pc'[u] = pc[u] /\ job'[u] = job[u]
    BY DEF Moves, TypeInv, ThreadsOK
<1>2. QED
    BY <1>1 DEF Releases

LEMMA EntryKeepsSales ==
    ASSUME TypeInv, SalesInv, (\E c \in Contracts : PassGate(c)) \/ EnterTrade
    PROVE  SalesInv'
<1>1. PICK j : \/ pc["sub"] = "gate" /\ Goto("sub", "enter", j) /\ log' = log
               \/ /\ pc["sub"] = "enter" /\ Goto("sub", "assign", j)
                  /\ log' = Append(log, EntryLine(<<job["sub"].index, job["sub"].pos.contract>>,
                                                  job["sub"].pos.trade))
    BY DEF PassGate, EnterTrade
<1>2. position' = position
    BY DEF PassGate, EnterTrade
<1>3. Moves("sub") /\ pc'["sub"] \in {"enter", "assign"} /\ pc["sub"] \in {"gate", "enter"}
    BY <1>1, GotoMoves DEF TypeInv, Thread
<1>4. /\ \A u \in Thread : pc'[u] = "sell" => pc[u] = "sell" /\ job'[u] = job[u]
      /\ \A who, i : Releases(who, i) => Releases(who, i)'
    BY <1>3, EntryMoves
<1>5. \A i : Held(i)' <=> Held(i)
    BY <1>2 DEF Held
<1>6. \A n : \A m \in ExitsIn(log', n) : m \in ExitsIn(log, n) /\ log'[m] = log[m]
    <2>1. CASE log' = log
        BY <2>1
    <2>2. CASE /\ pc["sub"] = "enter"
               /\ log' = Append(log, EntryLine(<<job["sub"].index, job["sub"].pos.contract>>,
                                               job["sub"].pos.trade))
        <3> DEFINE key == <<job["sub"].index, job["sub"].pos.contract>>
                   k == job["sub"].pos.trade
        <3>1. job["sub"].pos \in Position /\ job["sub"].index \in Indices /\ log \in Seq(Line)
            BY <2>2 DEF TypeInv, TypeOK, ThreadsOK, Job, Thread
        <3>2. k \in Nat /\ key \in Keys
            BY <3>1, LimitsAssumption DEF Position, Keys
        <3>3. log' = Append(log, EntryLine(key, k))
            BY <2>2
        <3> HIDE DEF key, k
        <3>4. EntryLine(key, k) \in Line /\ EntryLine(key, k).kind # "exit"
            BY <3>2, LinesAreLines DEF EntryLine
        <3>5. PICK line \in Line : line.kind # "exit" /\ log' = Append(log, line)
            BY <3>3, <3>4
        <3>6. PICK after : after = log'
            OBVIOUS
        <3>7. log \in Seq(Line) /\ after = Append(log, line)
            BY <3>1, <3>5, <3>6
        <3>8. QED
            BY <3>5, <3>6, <3>7, ExitsAfter
    <2>3. QED
        BY <1>1, <2>1, <2>2
<1>7. QED
    BY <1>2, <1>4, <1>5, <1>6, OtherKeepsSales

LEMMA AssignKeepsSales ==
    ASSUME TypeInv, TradesInv, SalesInv, AssignPosition
    PROVE  SalesInv'
<1> DEFINE j == job["sub"]
<1>1. log' = log /\ "sub" \in Thread /\ pc["sub"] = "assign" /\ j.index \in Indices
    BY DEF AssignPosition, audit, TypeInv, ThreadsOK, Thread, Job
<1>2. Moves("sub") /\ pc'["sub"] = "idle"
    BY <1>1, GotoMoves DEF AssignPosition, Finish, TypeInv
<1>3. /\ \A u \in Thread : pc'[u] = "sell" => pc[u] = "sell" /\ job'[u] = job[u]
      /\ \A who, i : Releases(who, i) => Releases(who, i)'
    BY <1>1, <1>2, EntryMoves
<1>4. \A i \in Indices : position'[i] = IF i = j.index THEN j.pos ELSE position[i]
    BY <1>1 DEF AssignPosition, TypeInv, TypeOK
<1>5. ExitsIn(log, j.pos.trade) = {}
    BY <1>1 DEF TradesInv, NewTradeIsNew, Entering, HasExit, ExitsIn
<1>6. \A i \in Indices : Held(i)' =>
        \/ /\ Held(i) /\ position'[i] = position[i]
           /\ \A who : Releases(who, i) => Releases(who, i)'
        \/ ExitsIn(log, position'[i].trade) = {}
    BY <1>3, <1>4, <1>5 DEF Held
<1>7. QED
    BY <1>1, <1>3, <1>6, OtherKeepsSales

\* A trade whose entry is open has not been sold.
LEMMA OpenIsUnsold ==
    ASSUME NEW events \in Seq(Line), EntriesOnce(events), ExitsFollow(events),
           NEW l \in PairEntries(events)
    PROVE  ExitsIn(events, events[l].trade) = {}
<1>1. /\ l \in 1..Len(events) /\ events[l].kind = "entry"
      /\ \A m \in (l + 1)..Len(events) : events[m].key # events[l].key
    BY PairingIsRight DEF LastOfKey
<1>2. ASSUME NEW m \in 1..Len(events), events[m].kind = "exit", events[m].trade = events[l].trade
      PROVE  FALSE
    <2>1. PICK e \in 1..(m - 1) : events[e] = EntryLine(events[m].key, events[m].trade)
        BY <1>2 DEF ExitsFollow
    <2>2. e \in 1..Len(events) /\ m \in (e + 1)..Len(events)
        BY <1>2
    <2>3. events[e].kind = "entry" /\ events[e].trade = events[m].trade /\ events[e].key = events[m].key
        BY <2>1 DEF EntryLine
    <2>4. e = l
        BY <1>1, <1>2, <2>2, <2>3 DEF EntriesOnce
    <2>5. QED
        BY <1>1, <2>2, <2>3, <2>4
<1>3. QED
    BY <1>2 DEF ExitsIn

\* The reconciliation sells nothing twice, and nothing that was sold.
LEMMA RestartSellsOnce ==
    ASSUME NEW events \in Seq(Line), EntriesOnce(events), ExitsFollow(events), OnceEach(events),
           NEW exits \in SyntheticExits(events),
           NEW after, after = events \o exits
    PROVE  OnceEach(after)
<1>1. PICK s \in [1..Len(exits) -> PairEntries(events)] :
        /\ \A m \in 1..Len(exits) : exits[m] = ExitLine(events[s[m]].key, events[s[m]].trade, "reconcile")
        /\ \A l, m \in 1..Len(exits) : s[l] = s[m] => l = m
    BY SyntheticExitsCover
<1>2. exits \in Seq(Line) /\ Len(exits) \in Nat /\ Len(events) \in Nat
    BY SyntheticExitsCover
<1>3. \A m \in 1..Len(after) :
        \/ m \in 1..Len(events) /\ after[m] = events[m]
        \/ m - Len(events) \in 1..Len(exits) /\ after[m] = exits[m - Len(events)]
    BY <1>2
<1>4. \A m \in 1..Len(exits) : exits[m].trade = events[s[m]].trade
    <2>1. TAKE m \in 1..Len(exits)
    <2>2. exits[m] = ExitLine(events[s[m]].key, events[s[m]].trade, "reconcile")
        BY <1>1
    <2>3. QED
        BY <2>2 DEF ExitLine
<1>5. \A m \in 1..Len(exits) : ExitsIn(events, exits[m].trade) = {}
    BY <1>1, <1>4, OpenIsUnsold
<1>6. \A m \in 1..Len(exits) : s[m] \in 1..Len(events) /\ events[s[m]].kind = "entry"
    <2>1. \A m \in 1..Len(exits) : s[m] \in LastOfKey(events)
        BY <1>1, PairingIsRight
    <2>2. QED
        BY <2>1 DEF LastOfKey
<1>7. \A l, m \in 1..Len(exits) : exits[l].trade = exits[m].trade => l = m
    <2>1. TAKE l, m \in 1..Len(exits)
    <2>2. HAVE exits[l].trade = exits[m].trade
    <2>3. s[l] = s[m]
        BY <1>4, <1>6, <2>2 DEF EntriesOnce
    <2>4. QED
        BY <1>1, <2>3
<1>8. ASSUME NEW n, NEW l \in ExitsIn(after, n), NEW m \in ExitsIn(after, n),
             after[l].by \in {after[m].by, "reconcile"}
      PROVE  l = m
    <2>1. /\ l \in 1..Len(after) /\ after[l].kind = "exit" /\ after[l].trade = n
          /\ m \in 1..Len(after) /\ after[m].kind = "exit" /\ after[m].trade = n
        BY DEF ExitsIn
    <2>2. CASE l \in 1..Len(events) /\ after[l] = events[l]
        <3>1. l \in ExitsIn(events, n)
            BY <2>1, <2>2 DEF ExitsIn
        <3>2. m \in 1..Len(events) /\ after[m] = events[m]
            BY <1>3, <1>5, <2>1, <3>1
        <3>3. m \in ExitsIn(events, n)
            BY <2>1, <3>2 DEF ExitsIn
        <3>4. QED
            BY <1>8, <2>2, <3>1, <3>2, <3>3 DEF OnceEach
    <2>3. CASE l - Len(events) \in 1..Len(exits) /\ after[l] = exits[l - Len(events)]
        <3>1. ExitsIn(events, n) = {}
            BY <1>5, <2>1, <2>3
        <3>2. m - Len(events) \in 1..Len(exits) /\ after[m] = exits[m - Len(events)]
            BY <1>3, <2>1, <3>1 DEF ExitsIn
        <3>3. l - Len(events) = m - Len(events)
            BY <1>7, <2>1, <2>3, <3>2
        <3>4. QED
            BY <1>2, <2>1, <3>3
    <2>4. QED
        BY <1>3, <2>1, <2>2, <2>3
<1>9. QED
    BY <1>8 DEF OnceEach

LEMMA DeathKeepsSales ==
    ASSUME TypeInv, TypeInv', LinesInv, SalesInv, Crash \/ Restart
    PROVE  SalesInv'
<1>1. (\A i \in Indices : ~Held(i)') /\ (\A t \in Thread : pc'[t] = "idle")
    BY DEF Crash, Restart, TypeInv, DownOK, All, Held, audit, threads
<1>2. log \in Seq(Line)
    BY DEF TypeInv, TypeOK
<1>3. OnceEach(log')
    <2>1. CASE Crash
        BY <2>1 DEF Crash, audit, SalesInv
    <2>2. CASE Restart
        <3>1. PICK exits \in SyntheticExits(log) : log' = log \o exits
            BY <2>2 DEF Restart
        <3>2. QED
            BY <1>2, <3>1, RestartSellsOnce DEF LinesInv, SalesInv
    <2>3. QED
        BY <2>1, <2>2
<1>4. QED
    BY <1>1, <1>3 DEF SalesInv

LEMMA SalesStep ==
    TypeInv /\ TypeInv' /\ TradesInv /\ LinesInv /\ SalesInv /\ [Next]_vars => SalesInv'
BY TradeSteps, QuietKeepsSales, SaleKeepsSales, ReleaseKeepsSales, EntryKeepsSales,
   AssignKeepsSales, DeathKeepsSales

(***************************************************************************)
(* A trade is sold at most once by each thread, whatever the two do to     *)
(* each other without a lock (engine.py _close_position clears the         *)
(* position it may have decided on long before), and a restart sells none  *)
(* that was sold (reconcile.py).                                           *)
(***************************************************************************)
THEOREM SalesAreOncePerThread == Spec => []SoldOncePerThread
<1>1. Init => TypeInv /\ TradesInv /\ LinesInv /\ SalesInv
    BY InitTyped, TradesInit, LinesInit, SalesInit
<1>2. TypeInv /\ TradesInv /\ LinesInv /\ SalesInv /\ [Next]_vars
        => (TypeInv /\ TradesInv /\ LinesInv /\ SalesInv)'
    BY StepTyped, TradesStep, LinesStep, SalesStep
<1>3. SalesInv => SoldOncePerThread
    BY DEF SalesInv, OnceEach, SoldOncePerThread, ExitsOf, ExitsIn
<1>4. QED
    BY <1>1, <1>2, <1>3, PTL DEF Spec
====
