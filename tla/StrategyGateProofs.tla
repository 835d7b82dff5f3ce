---- MODULE StrategyGateProofs ----
(***************************************************************************)
(* Theorems about StrategyGate, for every set of strategies and            *)
(* instruments, every cooldown, window and cap, and every bound.           *)
(***************************************************************************)
EXTENDS StrategyGate, FiniteSetTheorems, SequenceTheorems, WellFoundedInduction, TLAPS

Labels == {"idle", "risk", "count", "log", "write", "insert", "publish"}

\* A step of the handler of a signal has a signal; no signal is dated ahead of the clock.
SignalsOK ==
    /\ pc # "idle" => Number > 0
    /\ \A n \in 1..Number : signals[n].ts \in 1..now

TypeInv == TypeOK /\ SignalsOK
----
(***************************************************************************)
(* What RiskEngine.allows leaves of a queue is its end; everything it      *)
(* drops is older than a day.                                              *)
(***************************************************************************)
LEMMA PrunedIsSuffix ==
    ASSUME NEW q \in Seq(1..MaxNow), NEW anchor \in Int
    PROVE  \E p \in 1..(Len(q) + 1) :
                /\ Pruned(q, anchor) = SubSeq(q, p, Len(q))
                /\ \A k \in 1..(p - 1) : q[k] < anchor - Day
<1> DEFINE kept == {k \in 1..(Len(q) + 1) : k > Len(q) \/ q[k] >= anchor - Day}
           first == CHOOSE k \in kept : \A j \in kept : k <= j
<1>1. Len(q) \in Nat
    BY LenProperties
<1>2. kept \subseteq Nat /\ Len(q) + 1 \in kept
    BY <1>1
<1>3. PICK k \in kept : \A j \in kept : k <= j
    <2> DEFINE R == StrictSubsetOrdering(Nat)
               prefixes == {1..j : j \in kept}
    <2> HIDE DEF kept
    <2>1. prefixes \subseteq FiniteSubsetsOf(Nat) /\ prefixes # {}
        <3>1. ASSUME NEW j \in kept PROVE 1..j \in SUBSET Nat /\ IsFiniteSet(1..j)
            BY <1>2, FS_Interval
        <3>2. QED
            BY <1>2, <3>1 DEF FiniteSubsetsOf
    <2>2. PICK X \in prefixes : \A Y \in prefixes : <<Y, X>> \notin R
        <3> HIDE DEF prefixes, R
        <3>1. IsWellFoundedOn(R, FiniteSubsetsOf(Nat))
            BY FS_StrictSubsetOrderingWellFounded DEF R
        <3>2. QED
            BY <2>1, <3>1, WFMin
    <2>3. PICK k \in kept : X = 1..k
        OBVIOUS
    <2>4. ASSUME NEW j \in kept, j < k PROVE FALSE
        <3>1. j \in Nat /\ k \in Nat
            BY <1>2
        <3>2. 1..j \subseteq 1..k /\ k \in 1..k /\ k \notin 1..j /\ 1..k \subseteq Nat
            BY <2>4, <3>1
        <3>3. <<1..j, 1..k>> \in R
            BY <3>2 DEF StrictSubsetOrdering
        <3>4. QED
            BY <2>2, <2>3, <3>3
    <2>5. QED
        BY <1>2, <2>4
<1>5. first \in kept /\ \A j \in kept : first <= j
    <2> HIDE DEF kept
    <2>1. QED
        BY <1>3
<1>6. \A j \in 1..(first - 1) : q[j] < anchor - Day
    <2> SUFFICES ASSUME NEW j \in 1..(first - 1)
                 PROVE  q[j] < anchor - Day
        OBVIOUS
    <2> HIDE DEF first
    <2>1. first \in 1..(Len(q) + 1) /\ j \notin kept /\ j \in 1..Len(q)
        <3>1. first \in 1..(Len(q) + 1)
            BY <1>5
        <3>2. j \notin kept
            <4> HIDE DEF kept
            <4>1. first \in Int
                BY <3>1, <1>1
            <4>2. QED
                BY <1>5, <4>1
        <3>3. QED
            BY <3>1, <3>2, <1>1
    <2>2. q[j] \in 1..MaxNow
        BY <2>1, ElementOfSeq
    <2>3. QED
        BY <2>1, <2>2, <1>1, GateAssumption
<1>7. first \in 1..(Len(q) + 1)
    BY <1>5
<1>8. Pruned(q, anchor) = SubSeq(q, first, Len(q))
    BY DEF Pruned
<1>9. QED
    BY <1>6, <1>7, <1>8

\* Pruning keeps the type of a queue and makes it no longer.
LEMMA PrunedType ==
    ASSUME NEW q \in Seq(1..MaxNow), NEW anchor \in Int
    PROVE  Pruned(q, anchor) \in Seq(1..MaxNow) /\ Len(Pruned(q, anchor)) <= Len(q)
<1>1. PICK p \in 1..(Len(q) + 1) : Pruned(q, anchor) = SubSeq(q, p, Len(q))
    BY PrunedIsSuffix
<1>2. Len(q) \in Nat /\ \A k \in p..Len(q) : q[k] \in 1..MaxNow
    <2>1. Len(q) \in Nat
        BY LenProperties
    <2>2. ASSUME NEW k \in p..Len(q) PROVE q[k] \in 1..MaxNow
        <3>1. k \in 1..Len(q)
            BY <2>1
        <3>2. QED
            BY <3>1, ElementOfSeq
    <2>3. QED
        BY <2>1, <2>2
<1>3. QED
    BY <1>1, <1>2, SubSeqProperties
----
\* The initial state has its type.
LEMMA InitTypeInv == Init => TypeInv
<1> SUFFICES ASSUME Init PROVE TypeInv
    OBVIOUS
<1>1. signals = <<>> /\ Len(signals) = 0 /\ signals \in Seq(Signal)
    BY EmptySeq DEF Init
<1>2. window \in [Strategies -> Seq(1..MaxNow)] /\ \A s \in Strategies : Len(window[s]) = 0
    BY EmptySeq DEF Init
<1>3. last \in [Key -> 0..MaxNow] /\ now \in 1..MaxNow
    BY GateAssumption DEF Init
<1>4. \A s \in Strategies : Len(window[s]) <= MaxPerDay
    BY <1>2, GateAssumption
<1>5. TypeOK
    <2>1. window \in [Strategies -> Seq(1..MaxNow)]
        BY <1>2
    <2>2. /\ up = TRUE /\ starts = 0 /\ faults = 0 /\ pc = "idle" /\ handler = "none"
          /\ closed = FALSE /\ file = {} /\ rows = {} /\ out = {}
          /\ admitted = {} /\ refused = {} /\ late = {}
        BY DEF Init
    <2>3. \A sink \in {file, rows, out, admitted, refused, late} : sink \subseteq 1..Number
        BY <2>2
    <2>4. signals \in Seq(Signal) /\ starts \in 0..MaxStarts /\ faults \in 0..MaxFaults
        BY <1>1, <2>2, GateAssumption
    <2>5. up \in BOOLEAN /\ closed \in BOOLEAN
        BY <2>2
    <2>6. QED
        BY <1>3, <1>4, <2>1, <2>2, <2>3, <2>4, <2>5, Zenon DEF TypeOK
<1>6. SignalsOK
    BY <1>1 DEF Init, SignalsOK, Number
<1>7. QED
    BY <1>5, <1>6 DEF TypeInv

\* Emitting a signal keeps the types.
LEMMA EmitType ==
    ASSUME TypeInv, NEW s \in Strategies, NEW i \in Instruments, NEW d \in 0..Lateness,
           now - d >= 1, Emit(s, i, now - d)
    PROVE  TypeInv'
<1> DEFINE sig == [strategy |-> s, instrument |-> i, ts |-> now - d]
<1>1. now \in 1..MaxNow /\ now - d \in 1..now /\ now - d \in 0..MaxNow
    BY GateAssumption DEF TypeInv, TypeOK
<1>2. sig \in Signal
    BY <1>1 DEF Signal
<1>3. signals \in Seq(Signal) /\ signals' = Append(signals, sig) /\ Number \in Nat
    BY LenProperties DEF TypeInv, TypeOK, Emit, Number
<1>4. /\ signals' \in Seq(Signal) /\ Number' = Number + 1
      /\ \A n \in 1..Number : signals'[n] = signals[n]
      /\ signals'[Number + 1] = sig
    <2> HIDE DEF sig
    <2>1. QED
        BY <1>2, <1>3 DEF Number
<1>5. \A n \in 1..Number' : signals'[n].ts \in 1..now'
    <2>1. now' = now /\ sig.ts = now - d
        BY DEF Emit
    <2>2. \A n \in 1..Number : signals[n].ts \in 1..now
        BY DEF TypeInv, SignalsOK
    <2> HIDE DEF sig
    <2> SUFFICES ASSUME NEW n \in 1..Number' PROVE signals'[n].ts \in 1..now'
        OBVIOUS
    <2>3. n \in 1..Number \/ n = Number + 1
        BY <1>3, <1>4
    <2>4. CASE n \in 1..Number
        BY <1>4, <2>1, <2>2, <2>4
    <2>5. CASE n = Number + 1
        BY <1>1, <1>4, <2>1, <2>5
    <2>6. QED
        BY <2>3, <2>4, <2>5
<1>6. <<s, i>> \in Key /\ last' \in [Key -> 0..MaxNow]
    BY <1>1 DEF Key, Emit, TypeInv, TypeOK
<1>7. pc' \in Labels
    BY DEF Labels, TypeInv, TypeOK, Emit
<1>8. TypeOK'
    <2>1. /\ now' = now /\ up' = up /\ starts' = starts /\ faults' = faults /\ handler' = handler
          /\ window' = window /\ closed' = closed /\ file' = file /\ rows' = rows /\ out' = out
          /\ admitted' = admitted /\ refused' = refused /\ late' = late
        BY DEF Emit, process, sinks, losses
    <2>2. \A sink \in {file, rows, out, admitted, refused, late} : sink \subseteq 1..Number
        BY DEF TypeInv, TypeOK
    <2>3. 1..Number \subseteq 1..Number'
        BY <1>3, <1>4
    <2>4. \A sink \in {file', rows', out', admitted', refused', late'} : sink \subseteq 1..Number'
        BY <2>1, <2>2, <2>3, Zenon
    <2>5. /\ now' \in 1..MaxNow /\ up' \in BOOLEAN /\ starts' \in 0..MaxStarts
          /\ faults' \in 0..MaxFaults /\ closed' \in BOOLEAN
          /\ handler' \in {"none", "close", "snapshot", "left"}
        BY <2>1, Zenon DEF TypeInv, TypeOK
    <2>6. window' \in [Strategies -> Seq(1..MaxNow)] /\ \A t \in Strategies : Len(window'[t]) <= MaxPerDay
        BY <2>1, Zenon DEF TypeInv, TypeOK
    <2>7. QED
        BY <1>4, <1>6, <1>7, <2>4, <2>5, <2>6, Zenon DEF Labels, TypeOK
<1>9. pc' # "idle" => Number' > 0
    BY <1>3, <1>4
<1>10. QED
    BY <1>5, <1>8, <1>9 DEF TypeInv, SignalsOK

\* Counting a signal keeps the types, and the queue within a day's cap.
LEMMA CountType ==
    ASSUME TypeInv, Count
    PROVE  TypeInv'
<1> DEFINE s == This.strategy
           q == Pruned(window[s], This.ts)
<1>1. Number \in Nat /\ Number > 0 /\ Number \in 1..Number
    BY LenProperties DEF TypeInv, TypeOK, SignalsOK, Count, Number
<1>2. This \in Signal /\ s \in Strategies /\ This.ts \in 1..MaxNow /\ This.ts \in Int
    <2>1. This \in Signal
        BY <1>1, ElementOfSeq DEF TypeInv, TypeOK, This, Number
    <2>2. s \in Strategies
        BY <2>1 DEF Signal
    <2>3. This.ts \in 1..now
        BY <1>1 DEF TypeInv, SignalsOK, This
    <2>4. now \in 1..MaxNow /\ MaxNow \in Nat
        BY GateAssumption DEF TypeInv, TypeOK
    <2>5. This.ts \in 1..MaxNow
        <3> HIDE DEF s
        <3>1. QED
            BY <2>3, <2>4
    <2>6. QED
        BY <2>1, <2>2, <2>4, <2>5
<1>3. window[s] \in Seq(1..MaxNow) /\ Len(window[s]) <= MaxPerDay
    BY <1>2 DEF TypeInv, TypeOK
<1>4. q \in Seq(1..MaxNow) /\ Len(q) <= Len(window[s]) /\ Len(q) \in Nat /\ Len(window[s]) \in Nat
    BY <1>2, <1>3, PrunedType, LenProperties
<1>5. Append(q, This.ts) \in Seq(1..MaxNow) /\ Len(Append(q, This.ts)) = Len(q) + 1
    <2> HIDE DEF q
    <2>1. QED
        BY <1>2, <1>4
<1>6. \/ /\ WithinLimits(q, This.ts)
         /\ window' = [window EXCEPT ![s] = Append(q, This.ts)]
         /\ admitted' = admitted \cup {Number} /\ pc' = "log"
      \/ /\ window' = [window EXCEPT ![s] = q]
         /\ admitted' = admitted /\ pc' = "idle"
    BY DEF Count
<1>7. WithinLimits(q, This.ts) => Len(q) + 1 <= MaxPerDay
    BY <1>4, GateAssumption DEF WithinLimits
<1>8. window' \in [Strategies -> Seq(1..MaxNow)] /\ \A st \in Strategies : Len(window'[st]) <= MaxPerDay
    <2> HIDE DEF q, s
    <2>1. CASE WithinLimits(q, This.ts) /\ window' = [window EXCEPT ![s] = Append(q, This.ts)]
        BY <1>2, <1>5, <1>7, <2>1 DEF TypeInv, TypeOK
    <2>2. CASE window' = [window EXCEPT ![s] = q]
        BY <1>2, <1>3, <1>4, <2>2, GateAssumption DEF TypeInv, TypeOK
    <2>3. QED
        BY <1>6, <2>1, <2>2
<1>9. Number' = Number /\ admitted' \subseteq 1..Number'
    BY <1>1, <1>6 DEF Count, Number, TypeInv, TypeOK
<1>10. QED
    BY <1>1, <1>6, <1>8, <1>9 DEF Count, TypeInv, TypeOK, SignalsOK, Number, process, sinks, losses

\* The other steps of the handler of a signal keep the types.
LEMMA HandleType ==
    ASSUME TypeInv, Handle
    PROVE  TypeInv'
<1>0. Number \in Nat /\ (pc # "idle" => Number \in 1..Number)
    BY LenProperties DEF TypeInv, TypeOK, SignalsOK, Number
<1>1. CASE Disallow \/ LockRisk \/ LockLog
    BY <1>1 DEF Disallow, LockRisk, LockLog, TypeInv, TypeOK, SignalsOK, Number, process, gate, sinks, losses
<1>2. CASE Count
    BY <1>2, CountType
<1>3. CASE WriteLine
    BY <1>0, <1>3, GateAssumption DEF WriteLine, Fault, TypeInv, TypeOK, SignalsOK, Number, process, gate, losses
<1>4. CASE InsertRow
    BY <1>0, <1>4, GateAssumption DEF InsertRow, Fault, TypeInv, TypeOK, SignalsOK, Number, process, gate, losses
<1>5. CASE Publish
    BY <1>0, <1>5, GateAssumption DEF Publish, Fault, TypeInv, TypeOK, SignalsOK, Number, process, gate, losses
<1>6. QED
    BY <1>1, <1>2, <1>3, <1>4, <1>5 DEF Handle

\* The handler of SIGTERM, the life of the process and the clock keep the types.
LEMMA ProcessType ==
    ASSUME TypeInv, Terminate \/ CloseLog \/ Snapshot \/ Leave \/ Kill \/ Start \/ Tick
    PROVE  TypeInv'
<1>1. CASE Terminate \/ CloseLog \/ Snapshot
    BY <1>1 DEF Terminate, CloseLog, Snapshot, TypeInv, TypeOK, SignalsOK, Number, process, gate, sinks, losses
<1>2. CASE Leave \/ Kill
    BY <1>2 DEF Leave, Kill, TypeInv, TypeOK, SignalsOK, Number, gate, sinks, losses
<1>3. CASE Start
    <2>1. window' \in [Strategies -> Seq(1..MaxNow)] /\ \A s \in Strategies : Len(window'[s]) = 0
        BY <1>3, EmptySeq DEF Start
    <2>2. /\ starts' \in 0..MaxStarts /\ last' \in [Key -> 0..MaxNow]
          /\ \A s \in Strategies : Len(window'[s]) <= MaxPerDay
        BY <1>3, <2>1, GateAssumption DEF Start, TypeInv, TypeOK
    <2>3. \A sink \in {file', rows', out', admitted', refused', late'} : sink \subseteq 1..Number'
        BY <1>3 DEF Start, TypeInv, TypeOK, Number, sinks, losses
    <2>4. TypeOK'
        <3>1. window' \in [Strategies -> Seq(1..MaxNow)]
            BY <2>1
        <3>2. now' = now /\ faults' = faults /\ signals' = signals /\ up' = TRUE
              /\ pc' = "idle" /\ handler' = "none" /\ closed' = FALSE
            BY <1>3 DEF Start
        <3>3. QED
            BY <2>2, <2>3, <3>1, <3>2 DEF TypeInv, TypeOK
    <2>5. SignalsOK'
        BY <1>3 DEF Start, TypeInv, SignalsOK, Number
    <2>6. QED
        BY <2>4, <2>5 DEF TypeInv
<1>4. CASE Tick
    <2>1. now' \in 1..MaxNow /\ now < now' /\ now \in 1..MaxNow
        BY <1>4, GateAssumption DEF Tick, TypeInv, TypeOK
    <2>2. \A n \in 1..Number : signals[n].ts \in 1..now'
        BY <2>1 DEF TypeInv, SignalsOK
    <2>3. QED
        BY <1>4, <2>1, <2>2 DEF Tick, TypeInv, TypeOK, SignalsOK, Number, process, gate, sinks, losses
<1>5. QED
    BY <1>1, <1>2, <1>3, <1>4

\* Every step keeps the types.
LEMMA NextTypeInv == TypeInv /\ [Next]_vars => TypeInv'
<1> SUFFICES ASSUME TypeInv, [Next]_vars PROVE TypeInv'
    OBVIOUS
<1>1. CASE \E k \in Key, d \in 0..Lateness : now - d >= 1 /\ Emit(k[1], k[2], now - d)
    <2>1. PICK k \in Key, d \in 0..Lateness : now - d >= 1 /\ Emit(k[1], k[2], now - d)
        BY <1>1
    <2>2. k[1] \in Strategies /\ k[2] \in Instruments
        BY DEF Key
    <2>3. QED
        BY <2>1, <2>2, EmitType
<1>2. CASE UNCHANGED vars
    BY <1>2 DEF vars, TypeInv, TypeOK, SignalsOK, Number, process, gate, sinks, losses
<1>3. QED
    BY <1>1, <1>2, HandleType, ProcessType DEF Next

(***************************************************************************)
(* The type invariant; in particular the queue of a strategy never grows   *)
(* past a day's cap (risk.py:62-83).                                       *)
(***************************************************************************)
THEOREM TypesHold == Spec => []TypeOK
<1>1. TypeInv => TypeOK
    BY DEF TypeInv
<1>2. QED
    BY <1>1, InitTypeInv, NextTypeInv, PTL DEF Spec
----
(***************************************************************************)
(* The cooldown.  While a signal waits for the risk engine, the cooldown's *)
(* clock already shows its date (engine.py:72 before :77), and no signal   *)
(* admitted for its key is nearer than the cooldown; in general the clock  *)
(* of a key is never behind a signal admitted for it.                      *)
(***************************************************************************)
ClockCovers == \A n \in admitted : signals[n].ts <= last[KeyOf(signals[n])]

PendingIsApart ==
    pc \in {"risk", "count"} =>
        /\ Number \notin admitted
        /\ last[KeyOf(This)] = This.ts
        /\ \A n \in admitted :
                KeyOf(signals[n]) = KeyOf(This) => This.ts - signals[n].ts >= Cooldown

CooldownInv == TypeInv /\ CooldownHolds /\ ClockCovers /\ PendingIsApart

\* What there is to know of a signal with a number.
LEMMA SignalType ==
    ASSUME TypeInv, NEW n \in 1..Number
    PROVE  /\ signals[n] \in Signal /\ signals[n].ts \in 1..now /\ signals[n].ts \in 1..MaxNow
           /\ KeyOf(signals[n]) \in Key
<1>1. signals[n] \in Signal
    BY ElementOfSeq DEF TypeInv, TypeOK, Number
<1>2. QED
    BY <1>1 DEF TypeInv, TypeOK, SignalsOK, Signal, Key, KeyOf

LEMMA EmitCools ==
    ASSUME CooldownInv, NEW s \in Strategies, NEW i \in Instruments, NEW d \in 0..Lateness,
           now - d >= 1, Emit(s, i, now - d)
    PROVE  CooldownHolds' /\ ClockCovers' /\ PendingIsApart'
<1> DEFINE sig == [strategy |-> s, instrument |-> i, ts |-> now - d]
           k == <<s, i>>
<1>1. /\ Number \in Nat /\ Number' = Number + 1 /\ admitted' = admitted
      /\ admitted \subseteq 1..Number
      /\ \A n \in 1..Number : signals'[n] = signals[n]
      /\ signals'[Number + 1] = sig
    <2>1. signals \in Seq(Signal) /\ signals' = Append(signals, sig) /\ Number \in Nat
        BY LenProperties DEF CooldownInv, TypeInv, TypeOK, Emit, Number
    <2>2. admitted' = admitted /\ admitted \subseteq 1..Number
        BY DEF Emit, CooldownInv, TypeInv, TypeOK
    <2>3. sig \in Signal
        BY GateAssumption DEF CooldownInv, TypeInv, TypeOK, Signal
    <2> HIDE DEF sig
    <2>4. QED
        BY <2>1, <2>2, <2>3 DEF Number
<1>2. KeyOf(sig) = k /\ k \in Key /\ sig.ts = now - d /\ now - d \in 1..MaxNow /\ Cooldown \in Nat
    BY GateAssumption DEF KeyOf, Key, CooldownInv, TypeInv, TypeOK
<1>3. \A n \in admitted : /\ signals[n].ts \in 1..MaxNow /\ KeyOf(signals[n]) \in Key
                          /\ signals'[n] = signals[n] /\ n \in 1..Number
    BY <1>1, SignalType DEF CooldownInv
<1>4. last \in [Key -> 0..MaxNow]
    BY DEF CooldownInv, TypeInv, TypeOK
<1>5. CooldownHolds'
    BY <1>1, <1>3 DEF CooldownHolds, CooldownInv
<1>6. CASE Cools(k, now - d)
    <2>1. pc' = "idle" /\ last' = last
        BY <1>6 DEF Emit
    <2>2. QED
        BY <1>1, <1>3, <1>5, <2>1 DEF ClockCovers, PendingIsApart, CooldownInv
<1>7. CASE ~Cools(k, now - d)
    <2>1. last' = [last EXCEPT ![k] = now - d]
        BY <1>7 DEF Emit
    <2>2. \A n \in admitted : KeyOf(signals[n]) = k => (now - d) - signals[n].ts >= Cooldown
        <3> SUFFICES ASSUME NEW n \in admitted, KeyOf(signals[n]) = k
                     PROVE  (now - d) - signals[n].ts >= Cooldown
            OBVIOUS
        <3>1. signals[n].ts <= last[k] /\ signals[n].ts \in 1..MaxNow /\ last[k] \in 0..MaxNow
            BY <1>2, <1>3, <1>4 DEF ClockCovers, CooldownInv
        <3>2. last[k] # 0 /\ (now - d) - last[k] >= Cooldown
            BY <1>2, <1>7, <3>1 DEF Cools
        <3>3. QED
            BY <1>2, <3>1, <3>2
    <2>3. ClockCovers'
        <3> SUFFICES ASSUME NEW n \in admitted
                     PROVE  signals[n].ts <= last'[KeyOf(signals[n])]
            BY <1>1, <1>3 DEF ClockCovers
        <3>1. signals[n].ts <= last[KeyOf(signals[n])] /\ signals[n].ts \in 1..MaxNow
              /\ KeyOf(signals[n]) \in Key
            BY <1>3 DEF ClockCovers, CooldownInv
        <3>2. CASE KeyOf(signals[n]) = k
            BY <1>2, <1>4, <2>1, <2>2, <3>1, <3>2
        <3>3. CASE KeyOf(signals[n]) # k
            BY <1>4, <2>1, <3>1, <3>3
        <3>4. QED
            BY <3>2, <3>3
    <2>4. PendingIsApart'
        <3>1. This' = sig
            BY <1>1 DEF This
        <3>2. Number' \notin admitted'
            BY <1>1
        <3>3. last'[k] = now - d
            BY <1>2, <1>4, <2>1
        <3> HIDE DEF sig, k
        <3>4. QED
            BY <1>1, <1>2, <1>3, <2>2, <3>1, <3>2, <3>3 DEF PendingIsApart
    <2>5. QED
        BY <1>5, <2>3, <2>4
<1>8. QED
    BY <1>6, <1>7

LEMMA CountCools ==
    ASSUME CooldownInv, Count
    PROVE  CooldownHolds' /\ ClockCovers' /\ PendingIsApart'
<1>1. /\ signals' = signals /\ last' = last /\ Number' = Number /\ This' = This
      /\ pc' \in {"log", "idle"} /\ pc = "count"
      /\ admitted' \in {admitted, admitted \cup {Number}}
    BY DEF Count, Number, This
<1>2. PendingIsApart'
    BY <1>1 DEF PendingIsApart
<1>3. /\ Number \notin admitted /\ last[KeyOf(This)] = This.ts /\ This = signals[Number]
      /\ \A n \in admitted :
              KeyOf(signals[n]) = KeyOf(This) => This.ts - signals[n].ts >= Cooldown
    BY <1>1 DEF CooldownInv, PendingIsApart, This
<1>4. admitted \subseteq 1..Number /\ Number \in Nat /\ Number > 0
    BY <1>1, LenProperties DEF CooldownInv, TypeInv, TypeOK, SignalsOK, Number
<1>5. This.ts \in 1..MaxNow
    BY <1>3, <1>4, SignalType DEF CooldownInv
<1>6. ClockCovers'
    BY <1>1, <1>3, <1>5, GateAssumption DEF ClockCovers, CooldownInv
<1>7. CooldownHolds'
    <2> SUFFICES ASSUME NEW m \in admitted', NEW n \in admitted', m < n,
                        KeyOf(signals[m]) = KeyOf(signals[n])
                 PROVE  signals[n].ts - signals[m].ts >= Cooldown
        BY <1>1 DEF CooldownHolds
    <2>1. m # Number
        BY <1>1, <1>4
    <2>2. CASE n \in admitted
        BY <1>1, <2>1, <2>2 DEF CooldownHolds, CooldownInv
    <2>3. CASE n = Number
        BY <1>1, <1>3, <2>1, <2>3
    <2>4. QED
        BY <1>1, <2>2, <2>3
<1>8. QED
    BY <1>2, <1>6, <1>7

LEMMA RestCools ==
    ASSUME CooldownInv,
           \/ Handle /\ ~Count
           \/ Terminate \/ CloseLog \/ Snapshot \/ Leave \/ Kill \/ Start \/ Tick
           \/ UNCHANGED vars
    PROVE  CooldownHolds' /\ ClockCovers' /\ PendingIsApart'
<1>1. /\ signals' = signals /\ Number' = Number /\ This' = This
      /\ \/ last' = last /\ admitted' = admitted
         \/ admitted' = {} /\ pc' = "idle"
      /\ pc' \in {"risk", "count"} => pc \in {"risk", "count"}
    BY DEF Handle, Disallow, LockRisk, LockLog, WriteLine, InsertRow, Publish, Terminate, CloseLog,
           Snapshot, Leave, Kill, Start, Tick, vars, gate, Number, This
<1>2. CASE last' = last /\ admitted' = admitted
    BY <1>1, <1>2 DEF CooldownInv, CooldownHolds, ClockCovers, PendingIsApart
<1>3. CASE admitted' = {} /\ pc' = "idle"
    BY <1>3 DEF CooldownHolds, ClockCovers, PendingIsApart
<1>4. QED
    BY <1>1, <1>2, <1>3

LEMMA NextCooldownInv == CooldownInv /\ [Next]_vars => CooldownInv'
<1> SUFFICES ASSUME CooldownInv, [Next]_vars PROVE CooldownInv'
    OBVIOUS
<1>1. TypeInv'
    BY NextTypeInv DEF CooldownInv
<1>2. CASE \E k \in Key, d \in 0..Lateness : now - d >= 1 /\ Emit(k[1], k[2], now - d)
    <2>1. PICK k \in Key, d \in 0..Lateness : now - d >= 1 /\ Emit(k[1], k[2], now - d)
        BY <1>2
    <2>2. k[1] \in Strategies /\ k[2] \in Instruments
        BY DEF Key
    <2>3. QED
        BY <1>1, <2>1, <2>2, EmitCools DEF CooldownInv
<1>3. CASE Count
    BY <1>1, <1>3, CountCools DEF CooldownInv
<1>4. QED
    BY <1>1, <1>2, <1>3, RestCools DEF CooldownInv, Next

(***************************************************************************)
(* Signals that one process admits for one key are a cooldown apart        *)
(* (risk.py:19-25), for every cooldown, also when strategies date back.    *)
(***************************************************************************)
THEOREM CooldownIsKept == Spec => []CooldownHolds
<1>1. Init => CooldownInv
    <2>1. Init => admitted = {} /\ pc = "idle"
        BY DEF Init
    <2>2. QED
        BY <2>1, InitTypeInv DEF CooldownInv, CooldownHolds, ClockCovers, PendingIsApart
<1>2. CooldownInv => CooldownHolds
    BY DEF CooldownInv
<1>3. QED
    BY <1>1, <1>2, NextCooldownInv, PTL DEF Spec
----
(***************************************************************************)
(* The log before the network.  A signal past its line is in the log or    *)
(* among the two exceptions.                                               *)
(***************************************************************************)
LoggedInv ==
    /\ LoggedFirst
    /\ pc \in {"insert", "publish"} => Number \in file \cup refused \cup late

(***************************************************************************)
(* No signal reaches Postgres or the bus before the log, unless the disk   *)
(* refused it or the log was closed (logger.py:50-69).                     *)
(***************************************************************************)
THEOREM LogComesFirst == Spec => []LoggedFirst
<1>1. Init => LoggedInv
    BY DEF Init, LoggedInv, LoggedFirst
<1>2. ASSUME LoggedInv, [Next]_vars PROVE LoggedInv'
    <2>1. CASE \E k \in Key, d \in 0..Lateness : now - d >= 1 /\ Emit(k[1], k[2], now - d)
        BY <1>2, <2>1 DEF Emit, LoggedInv, LoggedFirst, sinks, losses
    <2>2. CASE WriteLine
        BY <1>2, <2>2 DEF WriteLine, LoggedInv, LoggedFirst, losses, Number
    <2>3. CASE InsertRow \/ Publish
        BY <1>2, <2>3 DEF InsertRow, Publish, LoggedInv, LoggedFirst, losses, Number
    <2>4. CASE Disallow \/ LockRisk \/ Count \/ LockLog
        BY <1>2, <2>4 DEF Disallow, LockRisk, Count, LockLog, LoggedInv, LoggedFirst, sinks, losses
    <2>5. CASE \/ Terminate \/ CloseLog \/ Snapshot \/ Leave \/ Kill \/ Start \/ Tick
               \/ UNCHANGED vars
        BY <1>2, <2>5 DEF Terminate, CloseLog, Snapshot, Leave, Kill, Start, Tick, vars,
                          LoggedInv, LoggedFirst, sinks, losses, Number
    <2>6. QED
        BY <1>2, <2>1, <2>2, <2>3, <2>4, <2>5 DEF Next, Handle
<1>3. LoggedInv => LoggedFirst
    BY DEF LoggedInv
<1>4. QED
    BY <1>1, <1>2, <1>3, PTL DEF Spec
----
(***************************************************************************)
(* The rate limits, for every window, cap and lateness.  The risk engine   *)
(* never sees the signals it admitted, only the queue it has pruned; what  *)
(* follows shows that the queue counts enough.                             *)
(***************************************************************************)

\* The events of a queue that are dated c or later.
From(q, c) == {k \in DOMAIN q : q[k] >= c}

\* The admitted signals of a strategy that are dated c or later.
Recent(s, c) == {n \in admitted : signals[n].strategy = s /\ signals[n].ts >= c}

(***************************************************************************)
(* From any date on that is at most a day before the latest signal, the    *)
(* queue of a strategy has an event for every signal admitted.             *)
(***************************************************************************)
QueueCounts ==
    \A s \in Strategies, c \in Int :
        (\A m \in 1..Number : c >= signals[m].ts - Day)
            => Cardinality(Recent(s, c)) <= Cardinality(From(window[s], c))

\* No signal is dated further back than Lateness from an earlier one.
LatenessHolds ==
    \A m, n \in 1..Number : m < n => signals[n].ts >= signals[m].ts - Lateness

RateInv == CooldownInv /\ QueueCounts /\ LatenessHolds /\ RateHolds
----
\* The events of a queue dated c or later are finitely many, at most its length.
LEMMA FromIsFinite ==
    ASSUME NEW q \in Seq(1..MaxNow), NEW c \in Int
    PROVE  /\ IsFiniteSet(From(q, c)) /\ Cardinality(From(q, c)) \in Nat
           /\ Cardinality(From(q, c)) <= Len(q)
<1>1. Len(q) \in Nat /\ DOMAIN q = 1..Len(q)
    BY LenProperties
<1>2. IsFiniteSet(1..Len(q)) /\ Cardinality(1..Len(q)) = Len(q)
    BY <1>1, FS_Interval
<1>3. From(q, c) \subseteq 1..Len(q)
    BY <1>1 DEF From
<1>4. QED
    BY <1>2, <1>3, FS_Subset, FS_CardinalityType

\* Pruning a queue loses no event that is at most a day older than the anchor.
LEMMA PruningKeepsCount ==
    ASSUME NEW q \in Seq(1..MaxNow), NEW anchor \in Int, NEW c \in Int, c >= anchor - Day
    PROVE  Cardinality(From(q, c)) <= Cardinality(From(Pruned(q, anchor), c))
<1> DEFINE r == Pruned(q, anchor)
<1>1. PICK p \in 1..(Len(q) + 1) :
            /\ r = SubSeq(q, p, Len(q))
            /\ \A k \in 1..(p - 1) : q[k] < anchor - Day
    BY PrunedIsSuffix
<1>2. Len(q) \in Nat /\ DOMAIN q = 1..Len(q) /\ \A k \in 1..Len(q) : q[k] \in 1..MaxNow
    BY LenProperties, ElementOfSeq
<1>3. r \in Seq(1..MaxNow)
    BY PrunedType
<1>4. Len(r) = Len(q) - p + 1 /\ \A k \in 1..(Len(q) - p + 1) : r[k] = q[k + p - 1]
    <2>1. \A k \in p..Len(q) : q[k] \in 1..MaxNow
        BY <1>1, <1>2
    <2>2. Len(SubSeq(q, p, Len(q))) = IF p <= Len(q) THEN Len(q) - p + 1 ELSE 0
        BY <1>2, <2>1, SubSeqProperties
    <2>3. \A k \in 1..(Len(q) - p + 1) : SubSeq(q, p, Len(q))[k] = q[p + k - 1]
        BY <1>2, <2>1, SubSeqProperties
    <2> HIDE DEF r
    <2>4. QED
        BY <1>1, <1>2, <2>2, <2>3
<1>5. DOMAIN r = 1..Len(r)
    BY <1>3, LenProperties
<1> DEFINE f == [k \in From(r, c) |-> k + p - 1]
<1>6. f \in Surjection(From(r, c), From(q, c))
    <2> HIDE DEF r
    <2>1. ASSUME NEW k \in From(r, c) PROVE k + p - 1 \in From(q, c)
        <3>1. k \in 1..(Len(q) - p + 1) /\ r[k] >= c
            BY <1>4, <1>5 DEF From
        <3>2. k + p - 1 \in DOMAIN q
            BY <1>1, <1>2, <3>1
        <3>3. q[k + p - 1] >= c
            BY <1>4, <3>1
        <3>4. QED
            BY <3>2, <3>3 DEF From
    <2>2. ASSUME NEW j \in From(q, c) PROVE \E k \in From(r, c) : k + p - 1 = j
        <3>1. j \in 1..Len(q) /\ q[j] >= c /\ q[j] \in 1..MaxNow
            BY <1>2 DEF From
        <3>2. ~(q[j] < anchor - Day)
            BY <3>1, GateAssumption
        <3>3. j \notin 1..(p - 1) /\ j \in p..Len(q)
            BY <1>1, <1>2, <3>1, <3>2
        <3>4. j - p + 1 \in 1..(Len(q) - p + 1) /\ (j - p + 1) + p - 1 = j
            BY <1>2, <3>3
        <3>5. j - p + 1 \in From(r, c)
            BY <1>4, <1>5, <3>1, <3>4 DEF From
        <3>6. QED
            BY <3>4, <3>5
    <2>3. f \in [From(r, c) -> From(q, c)]
        BY <2>1
    <2>4. \A j \in From(q, c) : \E k \in From(r, c) : f[k] = j
        BY <2>2
    <2> HIDE DEF f
    <2>5. QED
        BY <2>3, <2>4 DEF Surjection
<1>7. QED
    <2>1. IsFiniteSet(From(r, c))
        BY <1>3, FromIsFinite
    <2> HIDE DEF f, r
    <2>2. Cardinality(From(q, c)) <= Cardinality(From(r, c))
        BY <1>6, <2>1, FS_Surjection
    <2>3. QED
        BY <2>2 DEF r

\* An event that joins a queue is one more among those dated c or later.
LEMMA AppendCounts ==
    ASSUME NEW q \in Seq(1..MaxNow), NEW t \in 1..MaxNow, NEW c \in Int
    PROVE  Cardinality(From(Append(q, t), c))
                = Cardinality(From(q, c)) + (IF t >= c THEN 1 ELSE 0)
<1>1. Len(q) \in Nat /\ DOMAIN q = 1..Len(q)
    BY LenProperties
<1>2. Append(q, t) \in Seq(1..MaxNow) /\ Len(Append(q, t)) = Len(q) + 1
    OBVIOUS
<1>3. DOMAIN Append(q, t) = 1..(Len(q) + 1)
    BY <1>2, LenProperties
<1>4. /\ \A k \in 1..Len(q) : Append(q, t)[k] = q[k]
      /\ Append(q, t)[Len(q) + 1] = t
    BY <1>1
<1>5. Len(q) + 1 \notin From(q, c)
    BY <1>1 DEF From
<1>6. IsFiniteSet(From(q, c)) /\ Cardinality(From(q, c)) \in Nat
    BY FromIsFinite
<1>7. CASE t >= c
    <2>1. From(Append(q, t), c) = From(q, c) \cup {Len(q) + 1}
        BY <1>1, <1>3, <1>4, <1>7 DEF From
    <2>2. QED
        BY <1>5, <1>6, <1>7, <2>1, FS_AddElement
<1>8. CASE ~(t >= c)
    <2>1. From(Append(q, t), c) = From(q, c)
        BY <1>1, <1>3, <1>4, <1>8 DEF From
    <2>2. QED
        BY <1>6, <1>8, <2>1
<1>9. QED
    BY <1>7, <1>8

\* Admitted signals are finitely many, and so is every part of them.
LEMMA AdmittedIsFinite ==
    ASSUME TypeInv
    PROVE  IsFiniteSet(admitted)
<1>1. Number \in Nat /\ admitted \subseteq 1..Number
    BY LenProperties DEF TypeInv, TypeOK, Number
<1>2. IsFiniteSet(1..Number)
    BY <1>1, FS_Interval
<1>3. QED
    BY <1>1, <1>2, FS_Subset
----
\* Emitting a signal changes neither queue nor count.
LEMMA EmitRate ==
    ASSUME RateInv, NEW s \in Strategies, NEW i \in Instruments, NEW d \in 0..Lateness,
           now - d >= 1, Emit(s, i, now - d)
    PROVE  QueueCounts' /\ LatenessHolds' /\ RateHolds'
<1> DEFINE sig == [strategy |-> s, instrument |-> i, ts |-> now - d]
<1>1. /\ Number \in Nat /\ Number' = Number + 1 /\ admitted' = admitted /\ window' = window
      /\ admitted \subseteq 1..Number
      /\ \A n \in 1..Number : signals'[n] = signals[n]
      /\ signals'[Number + 1] = sig
    <2>1. signals \in Seq(Signal) /\ signals' = Append(signals, sig) /\ Number \in Nat
        BY LenProperties DEF RateInv, CooldownInv, TypeInv, TypeOK, Emit, Number
    <2>2. admitted' = admitted /\ window' = window /\ admitted \subseteq 1..Number
        BY DEF Emit, RateInv, CooldownInv, TypeInv, TypeOK
    <2>3. sig \in Signal
        BY GateAssumption DEF RateInv, CooldownInv, TypeInv, TypeOK, Signal
    <2> HIDE DEF sig
    <2>4. QED
        BY <2>1, <2>2, <2>3 DEF Number
<1>2. \A n \in 1..Number : signals[n].ts \in 1..now
    BY DEF RateInv, CooldownInv, TypeInv, SignalsOK
<1>3. QueueCounts'
    <2> SUFFICES ASSUME NEW st \in Strategies, NEW c \in Int,
                        \A m \in 1..Number' : c >= signals'[m].ts - Day
                 PROVE  Cardinality(Recent(st, c)') <= Cardinality(From(window'[st], c))
        BY DEF QueueCounts
    <2>1. Recent(st, c)' = Recent(st, c)
        BY <1>1 DEF Recent
    <2>2. \A m \in 1..Number : c >= signals[m].ts - Day
        BY <1>1
    <2>3. QED
        BY <1>1, <2>1, <2>2 DEF QueueCounts, RateInv
<1>4. LatenessHolds'
    <2> SUFFICES ASSUME NEW m \in 1..(Number + 1), NEW n \in 1..(Number + 1), m < n
                 PROVE  signals'[n].ts >= signals'[m].ts - Lateness
        BY <1>1 DEF LatenessHolds
    <2>1. m \in 1..Number /\ signals'[m] = signals[m] /\ signals[m].ts \in 1..now
        BY <1>1, <1>2
    <2>2. CASE n \in 1..Number
        BY <1>1, <2>1, <2>2 DEF LatenessHolds, RateInv
    <2>3. CASE n = Number + 1
        <3>1. signals'[n].ts = now - d /\ now \in Int
            BY <1>1, <2>3 DEF RateInv, CooldownInv, TypeInv, TypeOK
        <3>2. QED
            BY <2>1, <3>1, GateAssumption
    <2>4. QED
        BY <1>1, <2>2, <2>3
<1>5. RateHolds'
    <2>1. \A st \in Strategies, from \in 1..MaxNow, length \in Int :
                Within(st, from, length)' = Within(st, from, length)
        BY <1>1 DEF Within
    <2>2. Hour \in Int /\ Day - Lateness \in Int
        BY GateAssumption
    <2>3. QED
        BY <2>1, <2>2 DEF RateHolds, RateInv
<1>6. QED
    BY <1>3, <1>4, <1>5

(***************************************************************************)
(* A window that the signal under way is admitted into stays below a cap   *)
(* that the queue, counted over the window's length, was below before.     *)
(***************************************************************************)
LEMMA WindowStaysBelow ==
    ASSUME RateInv, pc = "count",
           NEW length \in {Hour, Day - Lateness}, NEW cap \in Nat,
           NEW s, s = This.strategy,
           Cardinality(From(Pruned(window[s], This.ts), This.ts - length)) < cap,
           signals' = signals, admitted' = admitted \cup {Number},
           NEW from \in 1..MaxNow,
           Cardinality(Within(s, from, length)) <= cap
    PROVE  Cardinality(Within(s, from, length)') <= cap
<1> DEFINE t == This.ts
           c == t - length
           q == Pruned(window[s], t)
<1>1. /\ Number \in Nat /\ Number \in 1..Number
      /\ s \in Strategies /\ t \in 1..MaxNow /\ window[s] \in Seq(1..MaxNow)
    <2>1. Number \in Nat /\ Number \in 1..Number
        BY LenProperties DEF RateInv, CooldownInv, TypeInv, TypeOK, SignalsOK, Number
    <2>2. This \in Signal /\ This.ts \in 1..MaxNow
        BY <2>1, SignalType DEF RateInv, CooldownInv, This
    <2>3. QED
        BY <2>1, <2>2 DEF Signal, RateInv, CooldownInv, TypeInv, TypeOK
<1>2. length \in Nat /\ length + Lateness <= Day /\ c \in Int
    BY <1>1, GateAssumption
<1>3. \A m \in 1..Number : c >= signals[m].ts - Day
    <2> SUFFICES ASSUME NEW m \in 1..Number PROVE c >= signals[m].ts - Day
        OBVIOUS
    <2>1. signals[m].ts \in 1..MaxNow
        BY SignalType DEF RateInv, CooldownInv
    <2>2. t >= signals[m].ts - Lateness
        <3>1. CASE m = Number
            BY <2>1, <3>1, GateAssumption DEF This
        <3>2. CASE m < Number
            BY <1>1, <3>2 DEF LatenessHolds, RateInv, This
        <3>3. QED
            BY <1>1, <3>1, <3>2
    <2>3. Day \in Nat /\ Lateness \in Nat /\ t \in Int /\ signals[m].ts \in Int
        BY <1>1, <2>1, GateAssumption
    <2> HIDE DEF t
    <2>4. QED
        BY <1>2, <2>2, <2>3
<1>4. Cardinality(Recent(s, c)) < cap
    <2>1. Cardinality(Recent(s, c)) <= Cardinality(From(window[s], c))
        BY <1>1, <1>2, <1>3 DEF QueueCounts, RateInv
    <2>2. c >= t - Day
        BY <1>1, <1>2, GateAssumption
    <2>3. Cardinality(From(window[s], c)) <= Cardinality(From(q, c))
        BY <1>1, <1>2, <2>2, PruningKeepsCount
    <2>4. IsFiniteSet(Recent(s, c))
        BY AdmittedIsFinite, FS_Subset DEF Recent, RateInv, CooldownInv
    <2>5. q \in Seq(1..MaxNow)
        BY <1>1, <1>2, PrunedType
    <2>6. /\ Cardinality(Recent(s, c)) \in Nat /\ Cardinality(From(window[s], c)) \in Nat
          /\ Cardinality(From(q, c)) \in Nat
        <3>1. Cardinality(Recent(s, c)) \in Nat
            BY <2>4, FS_CardinalityType
        <3>2. QED
            BY <1>1, <1>2, <2>5, <3>1, FromIsFinite
    <2>7. QED
        BY <2>1, <2>3, <2>6
<1>5. IsFiniteSet(Within(s, from, length)) /\ IsFiniteSet(Recent(s, c))
    BY AdmittedIsFinite, FS_Subset DEF Within, Recent, RateInv, CooldownInv
<1>6. Within(s, from, length)'
        = {n \in admitted \cup {Number} : signals[n].strategy = s
                                            /\ signals[n].ts \in from..(from + length)}
    BY DEF Within
<1>7. CASE t \in from..(from + length)
    <2>1. Within(s, from, length) \subseteq Recent(s, c)
        <3> SUFFICES ASSUME NEW n \in admitted, signals[n].ts \in from..(from + length)
                     PROVE  signals[n].ts >= c
            BY DEF Within, Recent
        <3>1. QED
            BY <1>1, <1>2, <1>7
    <2>2. Cardinality(Within(s, from, length)) < cap /\ Cardinality(Within(s, from, length)) \in Nat
        <3>1. Cardinality(Within(s, from, length)) <= Cardinality(Recent(s, c))
            BY <1>5, <2>1, FS_Subset
        <3>2. Cardinality(Within(s, from, length)) \in Nat /\ Cardinality(Recent(s, c)) \in Nat
            BY <1>5, FS_CardinalityType
        <3>3. QED
            BY <1>4, <3>1, <3>2
    <2>3. Within(s, from, length)' = Within(s, from, length) \cup {Number}
        BY <1>6, <1>7 DEF Within, This
    <2>4. \/ Cardinality(Within(s, from, length) \cup {Number}) = Cardinality(Within(s, from, length))
          \/ Cardinality(Within(s, from, length) \cup {Number}) = Cardinality(Within(s, from, length)) + 1
        BY <1>5, FS_AddElement
    <2>5. QED
        BY <2>2, <2>3, <2>4
<1>8. CASE t \notin from..(from + length)
    <2>1. Within(s, from, length)' = Within(s, from, length)
        BY <1>6, <1>8 DEF Within, This
    <2>2. QED
        BY <2>1
<1>9. QED
    BY <1>7, <1>8

\* Counting a signal keeps the queue's account, and both caps.
LEMMA CountRate ==
    ASSUME RateInv, Count
    PROVE  QueueCounts' /\ LatenessHolds' /\ RateHolds'
<1> DEFINE s == This.strategy
           t == This.ts
           q == Pruned(window[s], t)
<1>1. /\ signals' = signals /\ Number' = Number /\ pc = "count"
      /\ \/ /\ WithinLimits(q, t)
            /\ window' = [window EXCEPT ![s] = Append(q, t)]
            /\ admitted' = admitted \cup {Number}
         \/ /\ window' = [window EXCEPT ![s] = q]
            /\ admitted' = admitted
    BY DEF Count, Number
<1>2. /\ Number \in Nat /\ Number \in 1..Number /\ Number \notin admitted
      /\ s \in Strategies /\ t \in 1..MaxNow /\ t \in Int /\ window[s] \in Seq(1..MaxNow)
      /\ window \in [Strategies -> Seq(1..MaxNow)]
    <2>1. Number \in Nat /\ Number \in 1..Number
        BY <1>1, LenProperties DEF RateInv, CooldownInv, TypeInv, TypeOK, SignalsOK, Number
    <2>2. This \in Signal /\ This.ts \in 1..MaxNow
        BY <2>1, SignalType DEF RateInv, CooldownInv, This
    <2>3. Number \notin admitted
        BY <1>1 DEF RateInv, CooldownInv, PendingIsApart
    <2>4. QED
        BY <2>1, <2>2, <2>3 DEF Signal, RateInv, CooldownInv, TypeInv, TypeOK
<1>3. q \in Seq(1..MaxNow)
    BY <1>2, PrunedType
<1>4. LatenessHolds'
    BY <1>1 DEF LatenessHolds, RateInv
<1>5. QueueCounts'
    <2> SUFFICES ASSUME NEW st \in Strategies, NEW c \in Int,
                        \A m \in 1..Number : c >= signals[m].ts - Day
                 PROVE  Cardinality(Recent(st, c)') <= Cardinality(From(window'[st], c))
        BY <1>1 DEF QueueCounts
    <2>1. /\ Cardinality(Recent(st, c)) <= Cardinality(From(window[st], c))
          /\ Cardinality(Recent(st, c)) \in Nat /\ Cardinality(From(window[st], c)) \in Nat
          /\ IsFiniteSet(Recent(st, c))
        <3>1. IsFiniteSet(Recent(st, c))
            BY AdmittedIsFinite, FS_Subset DEF Recent, RateInv, CooldownInv
        <3>2. window[st] \in Seq(1..MaxNow)
            BY <1>2
        <3>3. QED
            BY <3>1, <3>2, FromIsFinite, FS_CardinalityType DEF QueueCounts, RateInv
    <2>2. Number \notin Recent(st, c)
        BY <1>2 DEF Recent
    <2>3. c >= t - Day
        BY <1>2 DEF This
    <2>4. /\ Cardinality(From(window[s], c)) <= Cardinality(From(q, c))
          /\ Cardinality(From(q, c)) \in Nat
        BY <1>2, <1>3, <2>3, PruningKeepsCount, FromIsFinite
    <2>5. Cardinality(From(Append(q, t), c)) = Cardinality(From(q, c)) + (IF t >= c THEN 1 ELSE 0)
        BY <1>2, <1>3, AppendCounts
    <2> HIDE DEF q
    <2>6. CASE st # s
        <3>1. window'[st] = window[st]
            BY <1>1, <1>2, <2>6
        <3>2. Recent(st, c)' = Recent(st, c)
            BY <1>1, <2>6 DEF Recent, This
        <3>3. QED
            BY <2>1, <3>1, <3>2
    <2>7. CASE st = s /\ admitted' = admitted /\ window' = [window EXCEPT ![s] = q]
        <3>1. window'[st] = q /\ Recent(st, c)' = Recent(st, c)
            BY <1>1, <1>2, <2>7 DEF Recent
        <3>2. QED
            BY <2>1, <2>4, <2>7, <3>1
    <2>8. CASE st = s /\ admitted' = admitted \cup {Number}
                /\ window' = [window EXCEPT ![s] = Append(q, t)]
        <3>1. window'[st] = Append(q, t)
            BY <1>2, <2>8
        <3>2. Recent(st, c)' = IF t >= c THEN Recent(st, c) \cup {Number} ELSE Recent(st, c)
            BY <1>1, <2>8 DEF Recent, This
        <3>3. Cardinality(Recent(st, c)') = Cardinality(Recent(st, c)) + (IF t >= c THEN 1 ELSE 0)
            BY <2>1, <2>2, <3>2, FS_AddElement
        <3>4. Cardinality(Recent(st, c)) <= Cardinality(From(q, c))
            BY <2>1, <2>4, <2>8
        <3>5. QED
            BY <2>1, <2>4, <2>5, <3>1, <3>3, <3>4
    <2>9. QED
        BY <1>1, <2>6, <2>7, <2>8
<1>6. RateHolds'
    <2>1. CASE admitted' = admitted
        <3>1. \A st \in Strategies, from \in 1..MaxNow, length \in Int :
                    Within(st, from, length)' = Within(st, from, length)
            BY <1>1, <2>1 DEF Within
        <3>2. Hour \in Int /\ Day - Lateness \in Int
            BY GateAssumption
        <3>3. QED
            BY <3>1, <3>2 DEF RateHolds, RateInv
    <2>2. CASE WithinLimits(q, t) /\ admitted' = admitted \cup {Number}
        <3>1. InHour(q, t) = From(q, t - Hour)
            BY DEF InHour, From
        <3>2. Cardinality(From(q, t - Hour)) < MaxPerHour
            BY <2>2, <3>1 DEF WithinLimits
        <3>3. Cardinality(From(q, t - (Day - Lateness))) < MaxPerDay
            <4>1. t - (Day - Lateness) \in Int
                BY <1>2, GateAssumption
            <4>2. /\ Cardinality(From(q, t - (Day - Lateness))) \in Nat
                  /\ Cardinality(From(q, t - (Day - Lateness))) <= Len(q)
                BY <1>3, <4>1, FromIsFinite
            <4>3. Len(q) < MaxPerDay /\ Len(q) \in Nat
                BY <1>3, <2>2, LenProperties DEF WithinLimits
            <4>4. QED
                BY <4>2, <4>3, GateAssumption
        <3> SUFFICES ASSUME NEW st \in Strategies, NEW from \in 1..MaxNow
                     PROVE  /\ Cardinality(Within(st, from, Hour)') <= MaxPerHour
                            /\ Cardinality(Within(st, from, Day - Lateness)') <= MaxPerDay
            BY DEF RateHolds, Within
        <3>4. /\ Cardinality(Within(st, from, Hour)) <= MaxPerHour
              /\ Cardinality(Within(st, from, Day - Lateness)) <= MaxPerDay
            BY DEF RateHolds, RateInv
        <3>5. CASE st = s
            <4>1. /\ Cardinality(From(Pruned(window[st], This.ts), This.ts - Hour)) < MaxPerHour
                  /\ Cardinality(From(Pruned(window[st], This.ts), This.ts - (Day - Lateness))) < MaxPerDay
                BY <3>2, <3>3, <3>5
            <4>2. MaxPerHour \in Nat /\ MaxPerDay \in Nat
                BY GateAssumption
            <4>3. pc = "count" /\ signals' = signals /\ admitted' = admitted \cup {Number}
                BY <1>1, <2>2
            <4> HIDE DEF s, t, q
            <4>4. st = This.strategy
                BY <3>5 DEF s
            <4>5. Cardinality(Within(st, from, Hour)') <= MaxPerHour
                BY <3>4, <4>1, <4>2, <4>3, <4>4, WindowStaysBelow
            <4>6. Cardinality(Within(st, from, Day - Lateness)') <= MaxPerDay
                BY <3>4, <4>1, <4>2, <4>3, <4>4, WindowStaysBelow
            <4>7. QED
                BY <4>5, <4>6
        <3>6. CASE st # s
            <4>1. \A length \in Int : Within(st, from, length)' = Within(st, from, length)
                BY <1>1, <2>2, <3>6 DEF Within, This
            <4>2. Hour \in Int /\ Day - Lateness \in Int
                BY GateAssumption
            <4>3. QED
                BY <3>4, <4>1, <4>2
        <3>7. QED
            BY <3>5, <3>6
    <2>3. QED
        BY <1>1, <2>1, <2>2
<1>7. QED
    BY <1>4, <1>5, <1>6

\* No other step changes a queue or admits a signal; a new process forgets both.
LEMMA RestRate ==
    ASSUME RateInv,
           \/ Handle /\ ~Count
           \/ Terminate \/ CloseLog \/ Snapshot \/ Leave \/ Kill \/ Start \/ Tick
           \/ UNCHANGED vars
    PROVE  QueueCounts' /\ LatenessHolds' /\ RateHolds'
<1>1. /\ signals' = signals /\ Number' = Number
      /\ \/ window' = window /\ admitted' = admitted
         \/ window' = [s \in Strategies |-> <<>>] /\ admitted' = {}
    BY DEF Handle, Disallow, LockRisk, LockLog, WriteLine, InsertRow, Publish, Terminate, CloseLog,
           Snapshot, Leave, Kill, Start, Tick, vars, gate, Number
<1>2. LatenessHolds'
    BY <1>1 DEF LatenessHolds, RateInv
<1>3. CASE window' = window /\ admitted' = admitted
    BY <1>1, <1>2, <1>3 DEF QueueCounts, Recent, RateHolds, Within, RateInv
<1>4. CASE window' = [s \in Strategies |-> <<>>] /\ admitted' = {}
    <2>1. QueueCounts'
        <3> SUFFICES ASSUME NEW s \in Strategies, NEW c \in Int
                     PROVE  Cardinality(Recent(s, c)') <= Cardinality(From(window'[s], c))
            BY DEF QueueCounts
        <3>1. Recent(s, c)' = {}
            BY <1>4 DEF Recent
        <3>2. window'[s] = <<>> /\ <<>> \in Seq(1..MaxNow)
            BY <1>4, EmptySeq
        <3>3. Cardinality(From(window'[s], c)) \in Nat
            BY <3>2, FromIsFinite
        <3>4. QED
            BY <3>1, <3>3, FS_EmptySet
    <2>2. RateHolds'
        <3>1. \A s, from, length : Within(s, from, length)' = {}
            BY <1>4 DEF Within
        <3>2. QED
            BY <3>1, FS_EmptySet, GateAssumption DEF RateHolds
    <2>3. QED
        BY <1>2, <2>1, <2>2
<1>5. QED
    BY <1>1, <1>3, <1>4

LEMMA InitRateInv == Init => RateInv
<1> SUFFICES ASSUME Init PROVE RateInv
    OBVIOUS
<1>1. admitted = {} /\ pc = "idle" /\ signals = <<>> /\ Number = 0
    BY EmptySeq DEF Init, Number
<1>2. CooldownInv
    BY <1>1, InitTypeInv DEF CooldownInv, CooldownHolds, ClockCovers, PendingIsApart
<1>3. LatenessHolds
    BY <1>1 DEF LatenessHolds
<1>4. QueueCounts
    <2> SUFFICES ASSUME NEW s \in Strategies, NEW c \in Int
                 PROVE  Cardinality(Recent(s, c)) <= Cardinality(From(window[s], c))
        BY DEF QueueCounts
    <2>1. Recent(s, c) = {}
        BY <1>1 DEF Recent
    <2>2. window[s] \in Seq(1..MaxNow)
        BY <1>2 DEF CooldownInv, TypeInv, TypeOK
    <2>3. Cardinality(From(window[s], c)) \in Nat
        BY <2>2, FromIsFinite
    <2>4. QED
        BY <2>1, <2>3, FS_EmptySet
<1>5. RateHolds
    <2>1. \A s, from, length : Within(s, from, length) = {}
        BY <1>1 DEF Within
    <2>2. QED
        BY <2>1, FS_EmptySet, GateAssumption DEF RateHolds
<1>6. QED
    BY <1>2, <1>3, <1>4, <1>5 DEF RateInv

LEMMA NextRateInv == RateInv /\ [Next]_vars => RateInv'
<1> SUFFICES ASSUME RateInv, [Next]_vars PROVE RateInv'
    OBVIOUS
<1>1. CooldownInv'
    BY NextCooldownInv DEF RateInv
<1>2. CASE \E k \in Key, d \in 0..Lateness : now - d >= 1 /\ Emit(k[1], k[2], now - d)
    <2>1. PICK k \in Key, d \in 0..Lateness : now - d >= 1 /\ Emit(k[1], k[2], now - d)
        BY <1>2
    <2>2. k[1] \in Strategies /\ k[2] \in Instruments
        BY DEF Key
    <2>3. QED
        BY <1>1, <2>1, <2>2, EmitRate DEF RateInv
<1>3. CASE Count
    BY <1>1, <1>3, CountRate DEF RateInv
<1>4. QED
    BY <1>1, <1>2, <1>3, RestRate DEF RateInv, Next

(***************************************************************************)
(* The caps (risk.py:62-83): no window of an hour, and none of a day less  *)
(* the lateness, holds more signals of a strategy than its cap.            *)
(***************************************************************************)
THEOREM RateIsKept == Spec => []RateHolds
<1>1. RateInv => RateHolds
    BY DEF RateInv
<1>2. QED
    BY <1>1, InitRateInv, NextRateInv, PTL DEF Spec
====
