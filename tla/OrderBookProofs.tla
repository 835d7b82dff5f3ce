---- MODULE OrderBookProofs ----
(***************************************************************************)
(* Theorems about OrderBook, for all instruments, quantities, prices and   *)
(* bounds: what the book, Redis and Postgres owe each other.               *)
(***************************************************************************)
EXTENDS OrderBook, FiniteSetTheorems, SequenceTheorems, WellFoundedInduction, TLAPS

Labels == {"idle", "order", "fill", "apply", "position", "session", "publish"}

\* The fills behind the position of an instrument, in memory or in Redis.
Behind(i) == ToSet(applied[i])

SavedBehind(i) == ToSet(saved[i])

\* The types that matter here.
TypesInv ==
    /\ up \in BOOLEAN /\ deaths \in Nat /\ pc \in Labels
    /\ fills \in Seq(Fill)
    /\ applied \in [Instruments -> Seq(Nat)] /\ saved \in [Instruments -> Seq(Nat)]
    /\ pc # "idle" => up /\ Number > 0

(***************************************************************************)
(* A fill is behind the position of its own instrument only, and behind    *)
(* the one in memory from the moment it was applied.                       *)
(***************************************************************************)
OwnFills ==
    /\ \A i \in Instruments, n \in Nat :
            n \in Behind(i) \cup SavedBehind(i) => n \in 1..Number /\ fills[n].instrument = i
    /\ pc \in {"position", "session", "publish"} => Number \in Behind(This.instrument)

\* What Redis lacks of memory, it has refused or is about to be given.
RedisFollows ==
    \A i \in Instruments :
        Behind(i) \subseteq SavedBehind(i) \cup unsaved \cup (IF pc = "position" THEN {Number} ELSE {})

BookInv == TypesInv /\ OwnFills /\ RedisFollows
----
LEMMA ToSetAppend ==
    ASSUME NEW s \in Seq(Nat), NEW n \in Nat
    PROVE  Append(s, n) \in Seq(Nat) /\ ToSet(Append(s, n)) = ToSet(s) \cup {n}
<1>1. Len(s) \in Nat /\ DOMAIN s = 1..Len(s)
    BY LenProperties
<1>2. Append(s, n) \in Seq(Nat) /\ Len(Append(s, n)) = Len(s) + 1
    OBVIOUS
<1>3. DOMAIN Append(s, n) = 1..(Len(s) + 1)
    BY <1>2, LenProperties
<1>4. /\ \A k \in 1..Len(s) : Append(s, n)[k] = s[k]
      /\ Append(s, n)[Len(s) + 1] = n
    BY <1>1
<1>5. ToSet(Append(s, n)) \subseteq ToSet(s) \cup {n}
    BY <1>1, <1>3, <1>4 DEF ToSet
<1>6. ToSet(s) \subseteq ToSet(Append(s, n))
    BY <1>1, <1>3, <1>4 DEF ToSet
<1>7. n \in ToSet(Append(s, n))
    <2>1. Len(s) + 1 \in DOMAIN Append(s, n)
        BY <1>1, <1>3
    <2>2. QED
        BY <1>4, <2>1 DEF ToSet
<1>8. QED
    BY <1>2, <1>5, <1>6, <1>7

LEMMA ToSetEmpty == <<>> \in Seq(Nat) /\ ToSet(<<>>) = {}
<1>1. <<>> \in Seq(Nat) /\ Len(<<>>) = 0
    BY EmptySeq
<1>2. DOMAIN <<>> = 1..0
    BY <1>1, LenProperties
<1>3. QED
    BY <1>1, <1>2 DEF ToSet

\* The members of a sequence of numbers are numbers.
LEMMA ToSetNat ==
    ASSUME NEW s \in Seq(Nat)
    PROVE  ToSet(s) \subseteq Nat
BY LenProperties, ElementOfSeq DEF ToSet

\* The fill under way, when there is one.
LEMMA NumberType ==
    ASSUME TypesInv
    PROVE  /\ Number \in Nat
           /\ pc # "idle" => Number \in 1..Number /\ This \in Fill /\ This.instrument \in Instruments
<1>1. Number \in Nat
    BY LenProperties DEF TypesInv, Number
<1>2. ASSUME pc # "idle" PROVE Number \in 1..Number /\ This \in Fill
    <2>1. Number \in 1..Number
        BY <1>1, <1>2 DEF TypesInv
    <2>2. QED
        BY <2>1, ElementOfSeq DEF TypesInv, This, Number
<1>3. QED
    BY <1>1, <1>2 DEF Fill
----
LEMMA InitBookInv == Init => BookInv
<1> SUFFICES ASSUME Init PROVE BookInv
    OBVIOUS
<1>1. fills = <<>> /\ fills \in Seq(Fill) /\ Number = 0
    BY EmptySeq DEF Init, Number
<1>2. /\ applied \in [Instruments -> Seq(Nat)] /\ saved = applied
      /\ \A i \in Instruments : Behind(i) = {} /\ SavedBehind(i) = {}
    BY ToSetEmpty DEF Init, Behind, SavedBehind
<1>3. up = TRUE /\ deaths = 0 /\ pc = "idle"
    BY DEF Init
<1>4. TypesInv
    BY <1>1, <1>2, <1>3, Zenon DEF TypesInv, Labels
<1>5. OwnFills /\ RedisFollows
    BY <1>2, <1>3 DEF OwnFills, RedisFollows
<1>6. QED
    BY <1>4, <1>5 DEF BookInv

\* A new fill.
LEMMA ExecuteBook ==
    ASSUME BookInv, NEW i \in Instruments, NEW action \in Actions, NEW qty \in Quantities,
           NEW price \in Prices, ExecuteOrder(i, action, qty, price)
    PROVE  /\ BookInv' /\ Number' = Number + 1 /\ Number \in Nat /\ pc = "idle" /\ up
           /\ \A n \in 1..Number : fills'[n] = fills[n]
<1> DEFINE f == [instrument |-> i, side |-> SideOf(action, i), qty |-> qty, price |-> price]
<1>1. SideOf(action, i) \in {1, -1}
    BY DEF SideOf, Actions
<1>2. f \in Fill
    BY <1>1 DEF Fill
<1>3. fills \in Seq(Fill) /\ fills' = Append(fills, f) /\ Number \in Nat
    BY NumberType DEF BookInv, TypesInv, ExecuteOrder
<1>4. fills' \in Seq(Fill) /\ Number' = Number + 1 /\ \A n \in 1..Number : fills'[n] = fills[n]
    <2> HIDE DEF f
    <2>1. QED
        BY <1>2, <1>3 DEF Number
<1>5. /\ up /\ up' = up /\ deaths' = deaths /\ pc = "idle" /\ pc' = "order"
      /\ applied' = applied /\ saved' = saved /\ unsaved' = unsaved
    BY DEF ExecuteOrder, Deliver, process, memory, disk, marks
<1>6. TypesInv'
    BY <1>3, <1>4, <1>5 DEF BookInv, TypesInv, Labels
<1>7. \A j \in Instruments : Behind(j)' = Behind(j) /\ SavedBehind(j)' = SavedBehind(j)
    BY <1>5 DEF Behind, SavedBehind
<1>8. OwnFills'
    <2>1. \A j \in Instruments, n \in Nat :
                n \in Behind(j)' \cup SavedBehind(j)' => n \in 1..Number' /\ fills'[n].instrument = j
        <3> SUFFICES ASSUME NEW j \in Instruments, NEW n \in Nat, n \in Behind(j)' \cup SavedBehind(j)'
                     PROVE  n \in 1..Number' /\ fills'[n].instrument = j
            OBVIOUS
        <3>1. n \in 1..Number /\ fills[n].instrument = j
            BY <1>7 DEF BookInv, OwnFills
        <3> HIDE DEF f
        <3>2. n \in 1..Number'
            BY <1>3, <1>4, <3>1
        <3>3. QED
            BY <1>4, <3>1, <3>2
    <2>2. QED
        BY <1>5, <2>1 DEF OwnFills
<1>9. RedisFollows'
    BY <1>5, <1>7 DEF BookInv, RedisFollows
<1>10. QED
    BY <1>3, <1>4, <1>5, <1>6, <1>8, <1>9 DEF BookInv

(***************************************************************************)
(* The steps that change neither the fills behind a position nor what      *)
(* Redis refused.                                                          *)
(***************************************************************************)
Elsewhere ==
    \/ \E i \in Instruments, action \in Actions : RejectOrder(i, action)
    \/ IgnoreSignal
    \/ \E ok \in BOOLEAN : InsertOrder(ok) \/ InsertFill(ok) \/ SaveSession(ok) \/ Publish(ok)
    \/ UNCHANGED vars

LEMMA ElsewhereMoves ==
    ASSUME BookInv, Elsewhere
    PROVE  /\ fills' = fills /\ Number' = Number /\ This' = This /\ up' = up /\ deaths' = deaths
           /\ applied' = applied /\ saved' = saved /\ unsaved' = unsaved /\ blind' = blind
           /\ pc' \in Labels
           /\ pc' # "idle" => pc # "idle"
           /\ pc' \in {"session", "publish"} => pc \in {"session", "publish"}
           /\ pc' = "position" <=> pc = "position"
<1>1. CASE \E i \in Instruments, action \in Actions : RejectOrder(i, action)
    BY <1>1 DEF RejectOrder, Fault, Deliver, process, postgres, memory, disk, marks, Number, This,
                BookInv, TypesInv
<1>2. CASE IgnoreSignal
    BY <1>2 DEF IgnoreSignal, Deliver, process, postgres, memory, disk, marks, Number, This,
                BookInv, TypesInv
<1>3. CASE \E ok \in BOOLEAN : InsertOrder(ok) \/ InsertFill(ok)
    BY <1>3 DEF InsertOrder, InsertFill, process, memory, disk, Number, This, Labels
<1>4. CASE \E ok \in BOOLEAN : SaveSession(ok) \/ Publish(ok)
    BY <1>4 DEF SaveSession, Publish, process, memory, disk, marks, Number, This, Labels
<1>5. CASE UNCHANGED vars
    BY <1>5 DEF vars, process, memory, disk, marks, Number, This, BookInv, TypesInv
<1>6. QED
    BY <1>1, <1>2, <1>3, <1>4, <1>5 DEF Elsewhere

LEMMA ElsewhereBook ==
    ASSUME BookInv, Elsewhere
    PROVE  BookInv'
<1>1. TypesInv'
    BY ElsewhereMoves DEF BookInv, TypesInv
<1>2. \A i \in Instruments : Behind(i)' = Behind(i) /\ SavedBehind(i)' = SavedBehind(i)
    BY ElsewhereMoves DEF Behind, SavedBehind
<1>3. OwnFills'
    <2>1. pc' \in {"position", "session", "publish"} => Number' \in Behind(This.instrument)'
        BY ElsewhereMoves DEF BookInv, OwnFills, Behind
    <2>2. QED
        BY <1>2, <2>1, ElsewhereMoves DEF BookInv, OwnFills
<1>4. RedisFollows'
    BY <1>2, ElsewhereMoves DEF BookInv, RedisFollows
<1>5. QED
    BY <1>1, <1>3, <1>4 DEF BookInv

\* The fill under way joins its position.
LEMMA ApplyBook ==
    ASSUME BookInv, ApplyFill
    PROVE  /\ BookInv' /\ Number \in Nat /\ Number' = Number /\ up /\ up' = up
           /\ pc = "apply" /\ pc' = "position"
           /\ \A i \in Instruments : Behind(i)' = IF i = This.instrument THEN Behind(i) \cup {Number}
                                                  ELSE Behind(i)
<1> DEFINE own == This.instrument
<1>1. /\ up /\ up' = up /\ deaths' = deaths /\ pc = "apply" /\ pc' = "position"
      /\ fills' = fills /\ Number' = Number /\ This' = This
      /\ applied' = [applied EXCEPT ![own] = Append(@, Number)]
      /\ saved' = saved /\ unsaved' = unsaved
    BY DEF ApplyFill, process, disk, marks, Number, This
<1>2. Number \in Nat /\ Number \in 1..Number /\ own \in Instruments
    BY <1>1, NumberType DEF BookInv
<1>3. applied \in [Instruments -> Seq(Nat)]
    BY DEF BookInv, TypesInv
<1>4. \A i \in Instruments :
            /\ applied'[i] \in Seq(Nat)
            /\ Behind(i)' = IF i = own THEN Behind(i) \cup {Number} ELSE Behind(i)
            /\ SavedBehind(i)' = SavedBehind(i)
    <2> SUFFICES ASSUME NEW i \in Instruments
                 PROVE  /\ applied'[i] \in Seq(Nat)
                        /\ Behind(i)' = IF i = own THEN Behind(i) \cup {Number} ELSE Behind(i)
                        /\ SavedBehind(i)' = SavedBehind(i)
        OBVIOUS
    <2>1. applied'[i] = IF i = own THEN Append(applied[i], Number) ELSE applied[i]
        BY <1>1, <1>3
    <2>2. applied[i] \in Seq(Nat)
        BY <1>3
    <2>3. SavedBehind(i)' = SavedBehind(i) /\ Behind(i)' = ToSet(applied'[i])
        BY <1>1 DEF Behind, SavedBehind
    <2>4. CASE i = own
        <3>1. applied'[i] = Append(applied[i], Number)
            BY <2>1, <2>4
        <3>2. QED
            BY <1>2, <2>2, <2>3, <2>4, <3>1, ToSetAppend DEF Behind
    <2>5. CASE i # own
        BY <2>1, <2>2, <2>3, <2>5 DEF Behind
    <2>6. QED
        BY <2>4, <2>5
<1>5. TypesInv'
    <2>1. applied' \in [Instruments -> Seq(Nat)]
        BY <1>1, <1>3, <1>4
    <2>2. QED
        BY <1>1, <1>2, <2>1 DEF BookInv, TypesInv, Labels
<1>6. OwnFills'
    <2>1. Number' \in Behind(This.instrument)'
        <3>1. PICK i \in Instruments : i = own
            BY <1>2
        <3>2. Number \in Behind(i)'
            BY <1>4, <3>1
        <3>3. QED
            BY <1>1, <3>1, <3>2 DEF Behind
    <2>2. \A i \in Instruments, n \in Nat :
                n \in Behind(i)' \cup SavedBehind(i)' => n \in 1..Number /\ fills[n].instrument = i
        BY <1>2, <1>4 DEF BookInv, OwnFills, This
    <2>3. QED
        BY <1>1, <2>1, <2>2 DEF OwnFills
<1>7. RedisFollows'
    BY <1>1, <1>4 DEF BookInv, RedisFollows
<1>8. QED
    BY <1>1, <1>2, <1>4, <1>5, <1>6, <1>7 DEF BookInv

\* The position under way is written to Redis, or Redis refuses.
LEMMA SaveBook ==
    ASSUME BookInv, NEW ok \in BOOLEAN, SavePosition(ok)
    PROVE  /\ BookInv' /\ Number' = Number /\ up /\ up' = up /\ pc = "position" /\ pc' = "session"
           /\ \A i \in Instruments : Behind(i)' = Behind(i)
           /\ unsaved \subseteq unsaved' \cup UNION {Behind(i) : i \in Instruments}
<1> DEFINE own == This.instrument
<1>1. /\ up /\ up' = up /\ deaths' = deaths /\ pc = "position" /\ pc' = "session"
      /\ fills' = fills /\ Number' = Number /\ This' = This /\ applied' = applied
    BY DEF SavePosition, process, memory, Number, This
<1>2. Number \in Nat /\ Number \in 1..Number /\ own \in Instruments
    BY <1>1, NumberType DEF BookInv
<1>3. \A i \in Instruments : Behind(i)' = Behind(i)
    BY <1>1 DEF Behind
<1>4. CASE ok
    <2>1. /\ saved' = [saved EXCEPT ![own] = applied[own]]
          /\ unsaved' = unsaved \ Behind(own)
        BY <1>4 DEF SavePosition, Behind
    <2>2. saved' \in [Instruments -> Seq(Nat)]
        BY <1>2, <2>1 DEF BookInv, TypesInv
    <2>3. \A i \in Instruments : SavedBehind(i)' = IF i = own THEN Behind(i) ELSE SavedBehind(i)
        BY <1>2, <2>1 DEF SavedBehind, Behind, BookInv, TypesInv
    <2>4. TypesInv'
        BY <1>1, <2>2 DEF BookInv, TypesInv, Labels
    <2>5. OwnFills'
        <3>1. Number' \in Behind(This.instrument)'
            BY <1>1 DEF BookInv, OwnFills, Behind
        <3>2. QED
            BY <1>1, <1>3, <2>3, <3>1 DEF BookInv, OwnFills
    <2>6. RedisFollows'
        <3> SUFFICES ASSUME NEW i \in Instruments, NEW n \in Behind(i)
                     PROVE  n \in SavedBehind(i)' \cup unsaved'
            BY <1>1, <1>3 DEF RedisFollows
        <3>1. CASE i = own
            BY <2>3, <3>1
        <3>2. CASE i # own
            <4>1. n \in Nat
                BY ToSetNat DEF Behind, BookInv, TypesInv
            <4>2. fills[n].instrument = i
                BY <4>1 DEF BookInv, OwnFills
            <4>3. n # Number
                BY <3>2, <4>2 DEF This
            <4>4. n \notin Behind(own)
                BY <1>2, <3>2, <4>1, <4>2 DEF BookInv, OwnFills
            <4>5. n \in SavedBehind(i) \cup unsaved
                BY <4>3 DEF BookInv, RedisFollows
            <4>6. QED
                BY <2>1, <2>3, <3>2, <4>4, <4>5
        <3>3. QED
            BY <3>1, <3>2
    <2>7. QED
        BY <1>1, <1>2, <1>3, <2>1, <2>4, <2>5, <2>6 DEF BookInv
<1>5. CASE ~ok
    <2>1. saved' = saved /\ unsaved' = unsaved \cup {Number}
        BY <1>5 DEF SavePosition, disk
    <2>2. \A i \in Instruments : SavedBehind(i)' = SavedBehind(i)
        BY <2>1 DEF SavedBehind
    <2>3. TypesInv'
        BY <1>1, <2>1 DEF BookInv, TypesInv, Labels
    <2>4. OwnFills'
        <3>1. Number' \in Behind(This.instrument)'
            BY <1>1 DEF BookInv, OwnFills, Behind
        <3>2. QED
            BY <1>1, <1>3, <2>2, <3>1 DEF BookInv, OwnFills
    <2>5. RedisFollows'
        BY <1>1, <1>3, <2>1, <2>2 DEF BookInv, RedisFollows
    <2>6. QED
        BY <1>1, <1>3, <2>1, <2>3, <2>4, <2>5 DEF BookInv
<1>6. QED
    BY <1>4, <1>5

\* A death empties the memory, a start takes up what Redis gives.
LEMMA LifeBook ==
    ASSUME BookInv, Die \/ Hydrate \/ HydrateFails
    PROVE  BookInv' /\ Number' = Number
<1>1. /\ fills' = fills /\ Number' = Number /\ saved' = saved /\ unsaved' = unsaved
      /\ up' \in BOOLEAN /\ deaths' \in Nat /\ pc' = "idle"
    <2>1. deaths \in Nat /\ (~up => pc = "idle")
        BY DEF BookInv, TypesInv
    <2>2. CASE Die
        <3>1. /\ fills' = fills /\ saved' = saved /\ unsaved' = unsaved
              /\ up' = FALSE /\ deaths' = deaths + 1 /\ pc' = "idle"
            BY <2>2, Zenon DEF Die, disk
        <3>2. deaths' \in Nat /\ Number' = Number
            BY <2>1, <3>1 DEF Number
        <3>3. QED
            BY <3>1, <3>2, Zenon
    <2>3. CASE Hydrate
        BY <2>1, <2>3 DEF Hydrate, disk, marks, Number
    <2>4. CASE HydrateFails
        BY <2>1, <2>4 DEF HydrateFails, disk, Number
    <2>5. QED
        BY <2>2, <2>3, <2>4
<1>2. \A i \in Instruments : /\ applied'[i] \in Seq(Nat)
                             /\ Behind(i)' \in {{}, SavedBehind(i)}
                             /\ SavedBehind(i)' = SavedBehind(i)
    <2>1. CASE Die
        BY <1>1, <2>1, ToSetEmpty DEF Die, Behind, SavedBehind
    <2>2. CASE Hydrate
        BY <1>1, <2>2 DEF Hydrate, Behind, SavedBehind, BookInv, TypesInv
    <2>3. CASE HydrateFails
        <3>1. PICK read \in SUBSET Instruments :
                    applied' = [i \in Instruments |-> IF i \in read THEN saved[i] ELSE <<>>]
            BY <2>3 DEF HydrateFails
        <3>2. QED
            BY <1>1, <3>1, ToSetEmpty DEF Behind, SavedBehind, BookInv, TypesInv
    <2>4. QED
        BY <2>1, <2>2, <2>3
<1>3. applied' \in [Instruments -> Seq(Nat)]
    <2>1. applied' = [i \in Instruments |-> applied'[i]]
        BY DEF Die, Hydrate, HydrateFails, BookInv, TypesInv
    <2>2. QED
        BY <1>2, <2>1
<1>4. TypesInv'
    BY <1>1, <1>3 DEF BookInv, TypesInv, Labels
<1>5. OwnFills' /\ RedisFollows'
    BY <1>1, <1>2 DEF BookInv, OwnFills, RedisFollows
<1>6. QED
    BY <1>1, <1>4, <1>5 DEF BookInv

\* Every step is one of these.
LEMMA StepKinds ==
    ASSUME [Next]_vars
    PROVE  \/ \E i \in Instruments, action \in Actions, qty \in Quantities, price \in Prices :
                    ExecuteOrder(i, action, qty, price)
           \/ Elsewhere \/ ApplyFill
           \/ \E ok \in BOOLEAN : SavePosition(ok)
           \/ Die \/ Hydrate \/ HydrateFails
BY DEF Next, OnSignal, Elsewhere

LEMMA NextBookInv == BookInv /\ [Next]_vars => BookInv'
BY StepKinds, ExecuteBook, ElsewhereBook, ApplyBook, SaveBook, LifeBook
----
(***************************************************************************)
(* The order of the stores: a fill that is applied has been offered to     *)
(* both tables.                                                            *)
(***************************************************************************)
OfferedFirst ==
    /\ pc = "fill" => Number \in orderRows \cup unstored
    /\ pc \in {"apply", "position", "session", "publish"} =>
            Number \in (orderRows \cap fillRows) \cup unstored

StoreInv == BookInv /\ BookNeverAhead /\ OfferedFirst

LEMMA NextStoreInv == StoreInv /\ [Next]_vars => StoreInv'
<1> SUFFICES ASSUME StoreInv, [Next]_vars PROVE StoreInv'
    OBVIOUS
<1>1. BookInv /\ BookInv'
    BY NextBookInv DEF StoreInv
<1> DEFINE Stored == (orderRows \cap fillRows) \cup unstored
<1>2. \A i \in Instruments : Behind(i) \cup SavedBehind(i) \subseteq Stored
    BY DEF StoreInv, BookNeverAhead, Behind, SavedBehind
<1>3. CASE \E i \in Instruments, action \in Actions, qty \in Quantities, price \in Prices :
                ExecuteOrder(i, action, qty, price)
    BY <1>1, <1>3 DEF ExecuteOrder, postgres, memory, disk, marks, StoreInv, BookNeverAhead, OfferedFirst
<1>4. CASE Elsewhere
    <2>1. Stored \subseteq Stored' /\ applied' = applied /\ saved' = saved
        <3>1. applied' = applied /\ saved' = saved
            BY <1>1, <1>4, ElsewhereMoves
        <3>2. Stored \subseteq Stored'
            BY <1>4 DEF Elsewhere, RejectOrder, IgnoreSignal, InsertOrder, InsertFill, SaveSession,
                        Publish, postgres, marks, vars
        <3>3. QED
            BY <3>1, <3>2
    <2>2. OfferedFirst'
        <3>1. CASE \E ok \in BOOLEAN : InsertOrder(ok) \/ InsertFill(ok)
            BY <3>1 DEF InsertOrder, InsertFill, Number, StoreInv, OfferedFirst
        <3>2. CASE \E ok \in BOOLEAN : SaveSession(ok) \/ Publish(ok)
            BY <3>2 DEF SaveSession, Publish, postgres, marks, Number, StoreInv, OfferedFirst
        <3>3. CASE \/ \E i \in Instruments, action \in Actions : RejectOrder(i, action)
                   \/ IgnoreSignal \/ UNCHANGED vars
            BY <3>3 DEF RejectOrder, IgnoreSignal, Deliver, vars, postgres, marks, Number,
                        StoreInv, OfferedFirst
        <3>4. QED
            BY <1>4, <3>1, <3>2, <3>3 DEF Elsewhere
    <2>3. BookNeverAhead'
        BY <2>1 DEF StoreInv, BookNeverAhead
    <2>4. QED
        BY <1>1, <2>2, <2>3 DEF StoreInv
<1>5. CASE ApplyFill
    <2>1. Stored' = Stored /\ Number' = Number /\ saved' = saved /\ pc = "apply"
        BY <1>5 DEF ApplyFill, postgres, disk, marks, Number
    <2>2. \A i \in Instruments : Behind(i)' \subseteq Behind(i) \cup {Number}
        BY <1>1, <1>5, ApplyBook
    <2>3. Number \in Stored
        BY <2>1 DEF StoreInv, OfferedFirst
    <2>4. BookNeverAhead'
        BY <1>2, <2>1, <2>2, <2>3 DEF BookNeverAhead, Behind, SavedBehind
    <2>5. OfferedFirst'
        BY <2>1, <2>3, <1>5 DEF OfferedFirst, ApplyFill
    <2>6. QED
        BY <1>1, <2>4, <2>5 DEF StoreInv
<1>6. CASE \E ok \in BOOLEAN : SavePosition(ok)
    <2>1. PICK ok \in BOOLEAN : SavePosition(ok)
        BY <1>6
    <2>2. /\ Stored' = Stored /\ Number' = Number /\ applied' = applied
          /\ pc = "position" /\ pc' = "session"
        BY <2>1 DEF SavePosition, postgres, memory, Number
    <2>3. \A i \in Instruments : SavedBehind(i)' \in {Behind(i), SavedBehind(i)}
        <3>1. saved' = saved \/ saved' = [saved EXCEPT ![This.instrument] = applied[This.instrument]]
            BY <2>1 DEF SavePosition, disk
        <3>2. QED
            BY <1>1, <3>1 DEF SavedBehind, Behind, BookInv, TypesInv
    <2>4. BookNeverAhead'
        BY <1>2, <2>2, <2>3 DEF BookNeverAhead, Behind, SavedBehind
    <2>5. OfferedFirst'
        BY <2>2 DEF StoreInv, OfferedFirst
    <2>6. QED
        BY <1>1, <2>4, <2>5 DEF StoreInv
<1>7. CASE Die \/ Hydrate \/ HydrateFails
    <2>1. Stored' = Stored /\ saved' = saved /\ pc' = "idle"
        <3>1. ~up => pc = "idle"
            BY <1>1 DEF BookInv, TypesInv
        <3>2. QED
            BY <1>7, <3>1 DEF Die, Hydrate, HydrateFails, postgres, disk, marks
    <2>2. \A i \in Instruments : Behind(i)' \in {{}, SavedBehind(i)}
        <3>1. CASE Die
            BY <3>1, ToSetEmpty DEF Die, Behind, SavedBehind
        <3>2. CASE Hydrate
            BY <3>2 DEF Hydrate, Behind, SavedBehind
        <3>3. CASE HydrateFails
            <4>1. PICK read \in SUBSET Instruments :
                        applied' = [i \in Instruments |-> IF i \in read THEN saved[i] ELSE <<>>]
                BY <3>3 DEF HydrateFails
            <4>2. QED
                BY <4>1, ToSetEmpty DEF Behind, SavedBehind
        <3>4. QED
            BY <1>7, <3>1, <3>2, <3>3
    <2>3. BookNeverAhead'
        BY <1>2, <2>1, <2>2 DEF BookNeverAhead, Behind, SavedBehind
    <2>4. QED
        BY <1>1, <2>1, <2>3 DEF StoreInv, OfferedFirst
<1>8. QED
    BY <1>3, <1>4, <1>5, <1>6, <1>7, StepKinds

(***************************************************************************)
(* A fill in a position, in memory or in Redis, is in Postgres unless an   *)
(* insert failed (orders/engine.py:136-140), whatever dies or fails when.  *)
(***************************************************************************)
THEOREM PostgresIsAhead == Spec => []BookNeverAhead
<1>1. Init => StoreInv
    <2> SUFFICES ASSUME Init PROVE StoreInv
        OBVIOUS
    <2>1. BookInv
        BY InitBookInv
    <2>2. \A i \in Instruments : ToSet(applied[i]) = {} /\ ToSet(saved[i]) = {}
        BY ToSetEmpty DEF Init
    <2>3. pc = "idle"
        BY DEF Init
    <2>4. QED
        BY <2>1, <2>2, <2>3 DEF StoreInv, BookNeverAhead, OfferedFirst
<1>2. StoreInv => BookNeverAhead
    BY DEF StoreInv
<1>3. QED
    BY <1>1, <1>2, NextStoreInv, PTL DEF Spec
----
(***************************************************************************)
(* What was announced is in the book.  The fill under way is announced     *)
(* last, so that a death finds it unannounced wherever Redis lacks it.     *)
(***************************************************************************)
ToldAfterwards == told \subseteq 1..Number /\ (pc # "idle" => Number \notin told)

ToldInv == BookInv /\ ToldAfterwards /\ AnnouncedSurvives

LEMMA NextToldInv == ToldInv /\ [Next]_vars => ToldInv'
<1> SUFFICES ASSUME ToldInv, [Next]_vars PROVE ToldInv'
    OBVIOUS
<1>1. BookInv /\ BookInv' /\ Number \in Nat
    BY NextBookInv, NumberType DEF ToldInv, BookInv
<1>2. told \subseteq 1..Number /\ (pc # "idle" => Number \notin told)
      /\ (blind \/ told \subseteq Booked \cup unsaved)
    BY DEF ToldInv, ToldAfterwards, AnnouncedSurvives
<1>3. CASE \E i \in Instruments, action \in Actions, qty \in Quantities, price \in Prices :
                ExecuteOrder(i, action, qty, price)
    <2>1. PICK i \in Instruments, action \in Actions, qty \in Quantities, price \in Prices :
                ExecuteOrder(i, action, qty, price)
        BY <1>3
    <2>2. Number' = Number + 1
        BY <1>1, <2>1, ExecuteBook
    <2>3. told' = told /\ blind' = blind /\ unsaved' = unsaved /\ Booked' = Booked
        BY <2>1 DEF ExecuteOrder, process, memory, disk, marks, Booked
    <2>4. QED
        BY <1>1, <1>2, <2>2, <2>3 DEF ToldInv, ToldAfterwards, AnnouncedSurvives
<1>4. CASE Elsewhere
    <2>1. /\ Number' = Number /\ unsaved' = unsaved /\ blind' = blind /\ Booked' = Booked
          /\ pc' # "idle" => pc # "idle"
        BY <1>1, <1>4, ElsewhereMoves DEF Booked
    <2>2. CASE told' = told
        BY <1>1, <1>2, <2>1, <2>2 DEF ToldInv, ToldAfterwards, AnnouncedSurvives
    <2>3. CASE told' # told
        <3>1. told' = told \cup {Number} /\ pc = "publish" /\ pc' = "idle" /\ up
            BY <1>4, <2>3 DEF Elsewhere, RejectOrder, IgnoreSignal, InsertOrder, InsertFill,
                              SaveSession, Publish, vars
        <3>2. Number \in 1..Number /\ This.instrument \in Instruments
            BY <1>1, <3>1, NumberType DEF BookInv
        <3>3. Number \in Booked
            BY <1>1, <3>1, <3>2 DEF BookInv, OwnFills, Booked, Behind
        <3>4. QED
            BY <1>1, <1>2, <2>1, <3>1, <3>2, <3>3 DEF ToldInv, ToldAfterwards, AnnouncedSurvives
    <2>4. QED
        BY <2>2, <2>3
<1>5. CASE ApplyFill
    <2>1. told' = told /\ blind' = blind /\ unsaved' = unsaved
        BY <1>5 DEF ApplyFill, marks
    <2>2. /\ Number' = Number /\ up /\ up' = up /\ pc = "apply"
          /\ \A i \in Instruments : Behind(i) \subseteq Behind(i)'
        BY <1>1, <1>5, ApplyBook
    <2>3. Booked \subseteq Booked'
        BY <2>2 DEF Booked, Behind
    <2>4. QED
        BY <1>1, <1>2, <2>1, <2>2, <2>3 DEF ToldInv, ToldAfterwards, AnnouncedSurvives
<1>6. CASE \E ok \in BOOLEAN : SavePosition(ok)
    <2>1. PICK ok \in BOOLEAN : SavePosition(ok)
        BY <1>6
    <2>2. told' = told /\ blind' = blind
        BY <2>1 DEF SavePosition
    <2>3. /\ Number' = Number /\ up /\ up' = up /\ pc = "position"
          /\ \A i \in Instruments : Behind(i)' = Behind(i)
          /\ unsaved \subseteq unsaved' \cup UNION {Behind(i) : i \in Instruments}
        BY <1>1, <2>1, SaveBook
    <2>4. Booked' = Booked /\ Booked = UNION {Behind(i) : i \in Instruments}
        BY <2>3 DEF Booked, Behind
    <2>5. QED
        BY <1>1, <1>2, <2>2, <2>3, <2>4 DEF ToldInv, ToldAfterwards, AnnouncedSurvives
<1>7. CASE Die
    <2>1. /\ told' = told /\ blind' = blind /\ unsaved' = unsaved /\ saved' = saved
          /\ up /\ up' = FALSE /\ pc' = "idle" /\ Number' = Number
        BY <1>7 DEF Die, disk, Number
    <2>2. Booked = UNION {Behind(i) : i \in Instruments}
          /\ Booked' = UNION {SavedBehind(i) : i \in Instruments}
        BY <2>1 DEF Booked, Behind, SavedBehind
    <2>3. Booked \subseteq Booked' \cup unsaved \cup (IF pc = "position" THEN {Number} ELSE {})
        BY <1>1, <2>2 DEF BookInv, RedisFollows
    <2>4. QED
        BY <1>1, <1>2, <2>1, <2>3 DEF ToldInv, ToldAfterwards, AnnouncedSurvives
<1>8. CASE Hydrate \/ HydrateFails
    <2>1. told' = told /\ Number' = Number /\ unsaved' = unsaved /\ pc' = "idle" /\ ~up
        BY <1>1, <1>8 DEF Hydrate, HydrateFails, postgres, disk, marks, Number, BookInv, TypesInv
    <2>2. blind' \/ (blind' = blind /\ Booked' = Booked)
        BY <1>8 DEF Hydrate, HydrateFails, disk, marks, Booked
    <2>3. QED
        BY <1>1, <1>2, <2>1, <2>2 DEF ToldInv, ToldAfterwards, AnnouncedSurvives
<1>9. QED
    BY <1>3, <1>4, <1>5, <1>6, <1>7, <1>8, StepKinds

(***************************************************************************)
(* A fill announced on pnl.tick (orders/engine.py:179) is in the book for  *)
(* good, over any number of deaths, unless Redis refused it or could not   *)
(* be read.                                                                *)
(***************************************************************************)
THEOREM AnnouncedFillsSurvive == Spec => []AnnouncedSurvives
<1>1. Init => ToldInv
    <2>1. Init => told = {} /\ pc = "idle"
        BY DEF Init
    <2>2. QED
        BY <2>1, InitBookInv DEF ToldInv, ToldAfterwards, AnnouncedSurvives
<1>2. ToldInv => AnnouncedSurvives
    BY DEF ToldInv
<1>3. QED
    BY <1>1, <1>2, NextToldInv, PTL DEF Spec
----
(***************************************************************************)
(* The fills that are lost: neither in the book, nor under way, nor among  *)
(* those Redis refused.                                                    *)
(***************************************************************************)
Lost == ((1..Number) \ (Booked \cup InHand)) \ unsaved

LostInv == BookInv /\ LostFillsAreBounded

\* Only a death loses a fill, and at most the one under way.
LEMMA LostSteps ==
    ASSUME BookInv, [Next]_vars
    PROVE  \/ blind'
           \/ Lost' \subseteq Lost /\ deaths' = deaths
           \/ Lost' \subseteq Lost \cup {Number} /\ deaths' = deaths + 1
<1>1. Number \in Nat
    BY NumberType DEF BookInv
<1>2. CASE \E i \in Instruments, action \in Actions, qty \in Quantities, price \in Prices :
                ExecuteOrder(i, action, qty, price)
    <2>1. PICK i \in Instruments, action \in Actions, qty \in Quantities, price \in Prices :
                ExecuteOrder(i, action, qty, price)
        BY <1>2
    <2>2. Number' = Number + 1 /\ pc = "idle" /\ pc' = "order"
        BY <2>1, ExecuteBook DEF ExecuteOrder
    <2>3. deaths' = deaths /\ unsaved' = unsaved /\ Booked' = Booked
        BY <2>1 DEF ExecuteOrder, process, memory, disk, marks, Booked
    <2>4. QED
        BY <1>1, <2>2, <2>3 DEF Lost, InHand
<1>3. CASE Elsewhere
    <2>1. /\ Number' = Number /\ unsaved' = unsaved /\ deaths' = deaths /\ Booked' = Booked
          /\ pc' # "idle" => pc # "idle"
        BY <1>3, ElsewhereMoves DEF Booked
    <2>2. CASE pc' = "idle" /\ pc # "idle"
        <3>1. pc = "publish" /\ up
            BY <1>3, <2>2 DEF Elsewhere, RejectOrder, IgnoreSignal, Deliver, InsertOrder, InsertFill,
                              SaveSession, Publish, vars
        <3>2. This.instrument \in Instruments
            BY <3>1, NumberType DEF BookInv
        <3>3. Number \in Booked
            BY <3>1, <3>2 DEF BookInv, OwnFills, Booked, Behind
        <3>4. QED
            BY <2>1, <2>2, <3>3 DEF Lost, InHand
    <2>3. CASE ~(pc' = "idle" /\ pc # "idle")
        BY <2>1, <2>3 DEF Lost, InHand
    <2>4. QED
        BY <2>2, <2>3
<1>4. CASE ApplyFill
    <2>1. deaths' = deaths /\ unsaved' = unsaved
        BY <1>4 DEF ApplyFill, process, marks
    <2>2. /\ Number' = Number /\ up /\ up' = up /\ pc = "apply" /\ pc' = "position"
          /\ \A i \in Instruments : Behind(i) \subseteq Behind(i)'
        BY <1>4, ApplyBook
    <2>3. Booked \subseteq Booked'
        BY <2>2 DEF Booked, Behind
    <2>4. QED
        BY <2>1, <2>2, <2>3 DEF Lost, InHand
<1>5. CASE \E ok \in BOOLEAN : SavePosition(ok)
    <2>1. PICK ok \in BOOLEAN : SavePosition(ok)
        BY <1>5
    <2>2. /\ Number' = Number /\ up /\ up' = up /\ pc = "position" /\ pc' = "session"
          /\ \A i \in Instruments : Behind(i)' = Behind(i)
          /\ unsaved \subseteq unsaved' \cup UNION {Behind(i) : i \in Instruments}
        BY <2>1, SaveBook
    <2>3. Booked' = Booked /\ Booked = UNION {Behind(i) : i \in Instruments}
        BY <2>2 DEF Booked, Behind
    <2>4. deaths' = deaths
        BY <2>1 DEF SavePosition, process
    <2>5. QED
        BY <2>2, <2>3, <2>4 DEF Lost, InHand
<1>6. CASE Die
    <2>1. /\ unsaved' = unsaved /\ saved' = saved /\ deaths' = deaths + 1
          /\ up /\ up' = FALSE /\ pc' = "idle" /\ Number' = Number
        BY <1>6 DEF Die, disk, Number
    <2>2. Booked = UNION {Behind(i) : i \in Instruments}
          /\ Booked' = UNION {SavedBehind(i) : i \in Instruments}
        BY <2>1 DEF Booked, Behind, SavedBehind
    <2>3. Booked \subseteq Booked' \cup unsaved \cup {Number}
        BY <2>2 DEF BookInv, RedisFollows
    <2>4. QED
        BY <2>1, <2>3 DEF Lost, InHand
<1>7. CASE Hydrate
    <2>1. deaths' = deaths /\ Number' = Number /\ unsaved' = unsaved /\ pc' = pc /\ Booked' = Booked
        BY <1>7 DEF Hydrate, disk, marks, Number, Booked
    <2>2. QED
        BY <2>1 DEF Lost, InHand
<1>8. CASE HydrateFails
    BY <1>8 DEF HydrateFails
<1>9. QED
    BY <1>2, <1>3, <1>4, <1>5, <1>6, <1>7, <1>8, StepKinds

\* A start that could not read Redis is remembered.
LEMMA BlindStays == ASSUME [Next]_vars, blind PROVE blind'
BY StepKinds DEF Elsewhere, ExecuteOrder, RejectOrder, IgnoreSignal, InsertOrder, InsertFill,
                 ApplyFill, SavePosition, SaveSession, Publish, Die, Hydrate, HydrateFails, marks, vars

LEMMA NextLostInv == LostInv /\ [Next]_vars => LostInv'
<1> SUFFICES ASSUME LostInv, [Next]_vars PROVE LostInv'
    OBVIOUS
<1>1. BookInv /\ BookInv'
    BY NextBookInv DEF LostInv
<1>2. CASE blind'
    BY <1>1, <1>2 DEF LostInv, LostFillsAreBounded
<1>3. CASE ~blind'
    <2>1. Cardinality(Lost) <= deaths
        BY <1>3, BlindStays DEF LostInv, LostFillsAreBounded, Lost
    <2>2. IsFiniteSet(Lost) /\ Cardinality(Lost) \in Nat /\ deaths \in Nat
        <3>1. Number \in Nat
            BY <1>1, NumberType DEF BookInv
        <3>2. IsFiniteSet(1..Number)
            BY <3>1, FS_Interval
        <3>3. QED
            BY <1>1, <3>2, FS_Subset, FS_CardinalityType DEF Lost, BookInv, TypesInv
    <2>3. IsFiniteSet(Lost \cup {Number}) /\ Cardinality(Lost \cup {Number}) <= Cardinality(Lost) + 1
        BY <2>2, FS_AddElement
    <2>4. CASE Lost' \subseteq Lost /\ deaths' = deaths
        <3>1. IsFiniteSet(Lost') /\ Cardinality(Lost') <= Cardinality(Lost)
            BY <2>2, <2>4, FS_Subset
        <3>2. Cardinality(Lost') \in Nat
            BY <3>1, FS_CardinalityType
        <3>3. QED
            BY <1>1, <2>1, <2>2, <2>4, <3>1, <3>2 DEF LostInv, LostFillsAreBounded, Lost
    <2>5. CASE Lost' \subseteq Lost \cup {Number} /\ deaths' = deaths + 1
        <3>1. IsFiniteSet(Lost') /\ Cardinality(Lost') <= Cardinality(Lost \cup {Number})
            BY <2>3, <2>5, FS_Subset
        <3>2. Cardinality(Lost') \in Nat /\ Cardinality(Lost \cup {Number}) \in Nat
            BY <2>3, <3>1, FS_CardinalityType
        <3>3. Cardinality(Lost') <= deaths'
            BY <2>1, <2>2, <2>3, <2>5, <3>1, <3>2
        <3>4. QED
            BY <1>1, <3>3 DEF LostInv, LostFillsAreBounded, Lost
    <2>6. QED
        BY <1>1, <1>3, <2>4, <2>5, LostSteps
<1>4. QED
    BY <1>2, <1>3

(***************************************************************************)
(* Of the fills that Redis did not refuse, each death costs the book one   *)
(* at most (book.py:75-122, 37-58).                                        *)
(***************************************************************************)
THEOREM DeathsCostOneFill == Spec => []LostFillsAreBounded
<1>1. Init => LostInv
    <2> SUFFICES ASSUME Init PROVE LostInv
        OBVIOUS
    <2>1. Number = 0 /\ deaths = 0
        BY EmptySeq DEF Init, Number
    <2>2. Lost = {}
        BY <2>1 DEF Lost
    <2>3. QED
        BY <2>1, <2>2, InitBookInv, FS_EmptySet DEF LostInv, LostFillsAreBounded, Lost
<1>2. LostInv => LostFillsAreBounded
    BY DEF LostInv
<1>3. QED
    BY <1>1, <1>2, NextLostInv, PTL DEF Spec
----
(***************************************************************************)
(* The sum of a function over a finite set, step by step: its recursion    *)
(* has a solution, and a change of one value changes the sum by as much.   *)
(* The least number of arguments for which either failed takes the place   *)
(* of induction.                                                           *)
(***************************************************************************)
LEMMA Least ==
    ASSUME NEW T \in SUBSET Nat, T # {}
    PROVE  \E n \in T : \A m \in T : n <= m
<1>1. PICK n \in T : \A m \in T : <<m, n>> \notin OpToRel(<, Nat)
    BY NatLessThanWellFounded, WFMin, Zenon
<1>2. \A m \in T : ~(m < n)
    BY <1>1, Zenon DEF OpToRel
<1>3. QED
    BY <1>2

OneOf(s) == CHOOSE x \in s : TRUE

\* g gives the sum of f over every set of at most n of its arguments.
SumsUpTo(f, n, g) ==
    \A s \in SUBSET DOMAIN f : Cardinality(s) <= n =>
        g[s] = IF s = {} THEN 0 ELSE f[OneOf(s)] + g[s \ {OneOf(s)}]

LEMMA WithoutOne ==
    ASSUME NEW S, IsFiniteSet(S), NEW s \in SUBSET S
    PROVE  /\ IsFiniteSet(s) /\ Cardinality(s) \in Nat /\ Cardinality(s) <= Cardinality(S)
           /\ s = {} <=> Cardinality(s) = 0
           /\ s # {} => /\ OneOf(s) \in s /\ s \ {OneOf(s)} \in SUBSET S
                        /\ Cardinality(s \ {OneOf(s)}) = Cardinality(s) - 1
<1>1. IsFiniteSet(s) /\ Cardinality(s) <= Cardinality(S)
    BY FS_Subset
<1>2. Cardinality(s) \in Nat /\ (s = {} <=> Cardinality(s) = 0)
    BY <1>1, FS_CardinalityType, FS_EmptySet
<1>3. ASSUME s # {}
      PROVE  /\ OneOf(s) \in s /\ s \ {OneOf(s)} \in SUBSET S
             /\ Cardinality(s \ {OneOf(s)}) = Cardinality(s) - 1
    <2>1. OneOf(s) \in s
        BY <1>3 DEF OneOf
    <2>2. QED
        BY <1>1, <2>1, FS_RemoveElement
<1>4. QED
    BY <1>1, <1>2, <1>3

LEMMA SumsExist ==
    ASSUME NEW S, IsFiniteSet(S), NEW f \in [S -> Int]
    PROVE  \E g \in [SUBSET S -> Int] : SumsUpTo(f, Cardinality(S), g)
<1> DEFINE Bad == {n \in 0..Cardinality(S) : ~\E g \in [SUBSET S -> Int] : SumsUpTo(f, n, g)}
<1>1. Cardinality(S) \in Nat /\ DOMAIN f = S
    BY FS_CardinalityType
<1>2. SUFFICES ASSUME Bad # {} PROVE FALSE
    <2>1. Cardinality(S) \in 0..Cardinality(S)
        BY <1>1
    <2>2. Cardinality(S) \notin Bad
        OBVIOUS
    <2>3. QED
        BY <2>1, <2>2
<1>3. PICK n \in Bad : \A m \in Bad : n <= m
    <2>1. Bad \in SUBSET Nat
        BY <1>1
    <2> HIDE DEF Bad
    <2>2. QED
        BY <1>2, <2>1, Least
<1>4. CASE n = 0
    <2> DEFINE g == [s \in SUBSET S |-> 0]
    <2>1. ASSUME NEW s \in SUBSET S, Cardinality(s) <= 0 PROVE s = {}
        <3>1. Cardinality(s) \in Nat
            BY WithoutOne
        <3>2. Cardinality(s) = 0
            BY <2>1, <3>1
        <3>3. QED
            BY <3>2, WithoutOne
    <2>2. SumsUpTo(f, 0, g)
        BY <1>1, <2>1 DEF SumsUpTo
    <2>3. g \in [SUBSET S -> Int]
        OBVIOUS
    <2>4. QED
        BY <1>3, <1>4, <2>2, <2>3
<1>5. CASE n # 0
    <2>1. n \in Nat \ {0} /\ n - 1 \in 0..Cardinality(S) /\ ~(n <= n - 1)
        BY <1>1, <1>3, <1>5
    <2>2. PICK g \in [SUBSET S -> Int] : SumsUpTo(f, n - 1, g)
        BY <1>3, <2>1
    <2> DEFINE Value(s) == IF s = {} THEN 0 ELSE f[OneOf(s)] + g[s \ {OneOf(s)}]
               h == [s \in SUBSET S |-> Value(s)]
    <2>3. \A s \in SUBSET S : Value(s) \in Int
        <3> SUFFICES ASSUME NEW s \in SUBSET S, s # {} PROVE f[OneOf(s)] \in Int /\ g[s \ {OneOf(s)}] \in Int
            OBVIOUS
        <3>1. OneOf(s) \in S /\ s \ {OneOf(s)} \in SUBSET S
            BY WithoutOne
        <3>2. QED
            BY <2>2, <3>1
    <2>4. \A s \in SUBSET S : Cardinality(s) <= n - 1 => g[s] = Value(s)
        BY <1>1, <2>2 DEF SumsUpTo
    <2>5. h \in [SUBSET S -> Int] /\ \A s \in SUBSET S : h[s] = Value(s)
        <3> HIDE DEF Value
        <3>1. QED
            BY <2>3
    <2>6. ASSUME NEW s \in SUBSET S, Cardinality(s) <= n
          PROVE  h[s] = IF s = {} THEN 0 ELSE f[OneOf(s)] + h[s \ {OneOf(s)}]
        <3>1. ASSUME s # {}
              PROVE  s \ {OneOf(s)} \in SUBSET S /\ Cardinality(s \ {OneOf(s)}) <= n - 1
            BY <2>1, <2>6, <3>1, WithoutOne
        <3>2. s # {} => h[s \ {OneOf(s)}] = g[s \ {OneOf(s)}]
            <4> HIDE DEF h, Value
            <4>1. QED
                BY <2>4, <2>5, <3>1
        <3>3. h[s] = Value(s)
            BY <2>5
        <3>4. QED
            BY <3>2, <3>3
    <2>7. SumsUpTo(f, n, h)
        <3> HIDE DEF h
        <3>1. QED
            BY <1>1, <2>6 DEF SumsUpTo
    <2>8. QED
        BY <1>3, <2>5, <2>7
<1>6. QED
    BY <1>4, <1>5

LEMMA SumIs ==
    ASSUME NEW S, IsFiniteSet(S), NEW f \in [S -> Int]
    PROVE  \E g : SumsUpTo(f, Cardinality(S), g) /\ SumFunction(f) = g[S]
<1> DEFINE Sums(g) == g = [s \in SUBSET DOMAIN f |->
                              IF s = {} THEN 0
                              ELSE f[CHOOSE x \in s : TRUE] + g[s \ {CHOOSE x \in s : TRUE}]]
           c == CHOOSE g : Sums(g)
<1>1. SumFunction(f) = c[DOMAIN f]
    BY DEF SumFunction, SumFunctionOnSet, FoldFunctionOnSet, MapThenFoldSet
<1>2. PICK g \in [SUBSET S -> Int] : SumsUpTo(f, Cardinality(S), g)
    BY SumsExist
<1>3. DOMAIN f = S /\ \A s \in SUBSET S : Cardinality(s) <= Cardinality(S)
    BY FS_Subset
<1>4. \A s \in SUBSET S : g[s] = IF s = {} THEN 0 ELSE f[OneOf(s)] + g[s \ {OneOf(s)}]
    BY <1>2, <1>3 DEF SumsUpTo
<1>5. Sums(g)
    BY <1>2, <1>3, <1>4 DEF OneOf
<1>6. Sums(c)
    <2> HIDE DEF Sums
    <2>1. QED
        BY <1>5
<1> HIDE DEF c
<1>7. SumsUpTo(f, Cardinality(S), c)
    BY <1>3, <1>6 DEF SumsUpTo, OneOf
<1>8. QED
    BY <1>1, <1>3, <1>7

LEMMA SumIsZero ==
    ASSUME NEW S, IsFiniteSet(S), NEW f \in [S -> Int], \A x \in S : f[x] = 0
    PROVE  SumFunction(f) = 0
<1>1. PICK g : SumsUpTo(f, Cardinality(S), g) /\ SumFunction(f) = g[S]
    BY SumIs
<1> DEFINE Bad == {n \in Nat : \E s \in SUBSET S : Cardinality(s) = n /\ g[s] # 0}
<1>2. SUFFICES ASSUME Bad # {} PROVE FALSE
    <2>1. Cardinality(S) \in Nat /\ S \in SUBSET S
        BY FS_CardinalityType
    <2>2. QED
        BY <1>1, <2>1
<1>3. PICK n \in Bad : \A m \in Bad : n <= m
    <2>1. Bad \in SUBSET Nat
        OBVIOUS
    <2> HIDE DEF Bad
    <2>2. QED
        BY <1>2, <2>1, Least
<1>4. PICK s \in SUBSET S : Cardinality(s) = n /\ g[s] # 0
    BY <1>3
<1>5. g[s] = IF s = {} THEN 0 ELSE f[OneOf(s)] + g[s \ {OneOf(s)}]
    BY <1>1, WithoutOne DEF SumsUpTo
<1>6. /\ s # {} /\ OneOf(s) \in S /\ s \ {OneOf(s)} \in SUBSET S
      /\ Cardinality(s \ {OneOf(s)}) = n - 1 /\ n - 1 \in Nat /\ ~(n <= n - 1)
    <2>1. s # {}
        BY <1>4, <1>5
    <2>2. Cardinality(s) \in Nat /\ Cardinality(s) # 0
        BY <2>1, WithoutOne
    <2>3. QED
        BY <1>4, <2>1, <2>2, WithoutOne
<1>7. n - 1 \notin Bad
    <2> HIDE DEF Bad
    <2>1. QED
        BY <1>3, <1>6
<1>8. g[s \ {OneOf(s)}] = 0
    BY <1>6, <1>7
<1>9. QED
    BY <1>4, <1>5, <1>6, <1>8

\* A change of one value changes the sum by as much.
LEMMA SumChanges ==
    ASSUME NEW S, IsFiniteSet(S), NEW f \in [S -> Int], NEW h \in [S -> Int], NEW k \in S,
           \A x \in S \ {k} : h[x] = f[x]
    PROVE  SumFunction(f) \in Int /\ SumFunction(h) = SumFunction(f) + (h[k] - f[k])
<1>1. PICK a : SumsUpTo(f, Cardinality(S), a) /\ SumFunction(f) = a[S]
    BY SumIs
<1>2. PICK b : SumsUpTo(h, Cardinality(S), b) /\ SumFunction(h) = b[S]
    BY SumIs
<1> DEFINE Fits(s) == a[s] \in Int /\ b[s] = a[s] + (IF k \in s THEN h[k] - f[k] ELSE 0)
           Bad == {n \in Nat : \E s \in SUBSET S : Cardinality(s) = n /\ ~Fits(s)}
<1>3. SUFFICES ASSUME Bad # {} PROVE FALSE
    <2>1. Cardinality(S) \in Nat /\ S \in SUBSET S
        BY FS_CardinalityType
    <2>2. Bad = {} => Fits(S)
        BY <2>1
    <2> HIDE DEF Bad
    <2>3. QED
        BY <1>1, <1>2, <2>2
<1>4. PICK n \in Bad : \A m \in Bad : n <= m
    <2>1. Bad \in SUBSET Nat
        OBVIOUS
    <2> HIDE DEF Bad
    <2>2. QED
        BY <1>3, <2>1, Least
<1>5. PICK s \in SUBSET S : Cardinality(s) = n /\ ~Fits(s)
    BY <1>4
<1> DEFINE x == OneOf(s)
           less == s \ {x}
<1>6. /\ a[s] = IF s = {} THEN 0 ELSE f[x] + a[less]
      /\ b[s] = IF s = {} THEN 0 ELSE h[x] + b[less]
    BY <1>1, <1>2, WithoutOne DEF SumsUpTo
<1>7. s # {}
    BY <1>5, <1>6
<1>8. /\ x \in s /\ less \in SUBSET S /\ Cardinality(less) = n - 1
      /\ n - 1 \in Nat /\ ~(n <= n - 1)
    <2>1. Cardinality(s) \in Nat /\ Cardinality(s) # 0
        BY <1>7, WithoutOne
    <2>2. QED
        BY <1>5, <1>7, <2>1, WithoutOne
<1>9. n - 1 \notin Bad
    <2> HIDE DEF Bad
    <2>1. QED
        BY <1>4, <1>8
<1>10. Fits(less)
    <2> HIDE DEF Fits, x, less
    <2>1. QED
        BY <1>8, <1>9
<1>11. f[x] \in Int /\ h[x] \in Int /\ f[k] \in Int /\ h[k] \in Int /\ (x # k => h[x] = f[x])
    BY <1>8
<1>12. k \in less <=> k \in s /\ k # x
    OBVIOUS
<1> HIDE DEF x, less
<1>13. Fits(s)
    <2>1. CASE x = k
        BY <1>6, <1>7, <1>8, <1>10, <1>11, <1>12, <2>1
    <2>2. CASE x # k
        BY <1>6, <1>7, <1>8, <1>10, <1>11, <1>12, <2>2
    <2>3. QED
        BY <2>1, <2>2
<1>14. QED
    BY <1>5, <1>13
----
(***************************************************************************)
(* The session's profit.                                                   *)
(***************************************************************************)
Position == [qty : Int, avg : Int, realized : Int]

AmountsInv ==
    /\ book \in [Instruments -> Position] /\ session \in Int
    /\ redis \in [book : [Instruments -> Position], session : Int]
    /\ torn \in BOOLEAN /\ blind \in BOOLEAN /\ stale \in BOOLEAN

Profits(b) == [i \in Instruments |-> b[i].realized]

Profit(b) == SumFunction(Profits(b))

\* Redis has the position of memory, unless it refused it or is about to be given it.
RedisHas(i) ==
    \/ redis.book[i] = book[i]
    \/ Behind(i) \cap unsaved # {}
    \/ pc = "position" /\ i = This.instrument

SessionOK ==
    \/ torn \/ blind
    \/ /\ session = Profit(book)
       /\ up => \A i \in Instruments : RedisHas(i)
       /\ ~up => unsaved = {} /\ ~stale
       /\ unsaved = {} /\ ~stale /\ pc # "session" => redis.session = Profit(redis.book)

SessionInv == BookInv /\ AmountsInv /\ SessionOK

\* What a fill makes of a position.
LEMMA FilledPosition ==
    ASSUME NEW pos \in Position, NEW f \in Fill
    PROVE  /\ AfterFill(pos, f) \in Position /\ DeltaRealized(pos, f) \in Int
           /\ AfterFill(pos, f).realized = pos.realized + DeltaRealized(pos, f)
<1>1. /\ pos.qty \in Int /\ pos.avg \in Int /\ pos.realized \in Int
      /\ f.side \in {1, -1} /\ f.qty \in Nat \ {0} /\ f.price \in Nat \ {0} /\ Fee \in Int
    <2>1. f.side \in {1, -1} /\ f.qty \in Quantities /\ f.price \in Prices
        BY DEF Fill
    <2>2. Quantities \subseteq Nat \ {0} /\ Prices \subseteq Nat \ {0} /\ Fee \in Int
        BY OrderAssumption
    <2>3. QED
        BY <2>1, <2>2 DEF Position
<1>2. AbsVal(pos.qty) \in Nat
    BY <1>1 DEF AbsVal
<1>3. Closing(pos, f) \in Int
    <2>1. \E x \in {AbsVal(pos.qty), f.qty} : \A y \in {AbsVal(pos.qty), f.qty} : x <= y
        BY <1>1, <1>2
    <2>2. Closing(pos, f) \in {AbsVal(pos.qty), f.qty}
        BY <2>1 DEF Closing, Min
    <2>3. QED
        BY <1>1, <1>2, <2>2
<1>4. DeltaRealized(pos, f) \in Int
    <2>1. \A a, b, c \in Int : -a * b * c \in Int
        OBVIOUS
    <2>2. f.side \in Int /\ f.price - pos.avg \in Int
        BY <1>1
    <2>3. -f.side * (f.price - pos.avg) * Closing(pos, f) \in Int
        BY <1>3, <2>1, <2>2
    <2>4. QED
        BY <1>1, <2>3 DEF DeltaRealized
<1>5. NewAverage(pos, f) \in Int
    <2>1. \A a \in Int, b \in Nat \ {0} : a \div b \in Int
        OBVIOUS
    <2>2. AbsVal(pos.qty) + f.qty \in Nat \ {0}
        BY <1>1, <1>2
    <2>3. pos.avg * AbsVal(pos.qty) + f.price * f.qty \in Int
        BY <1>1, <1>2
    <2>4. (pos.avg * AbsVal(pos.qty) + f.price * f.qty) \div (AbsVal(pos.qty) + f.qty) \in Int
        BY <2>1, <2>2, <2>3
    <2>5. QED
        BY <1>1, <2>4 DEF NewAverage
<1>6. pos.qty + Signed(f) \in Int
    BY <1>1 DEF Signed
<1>7. QED
    BY <1>1, <1>4, <1>5, <1>6 DEF AfterFill, Position

LEMMA ProfitType ==
    ASSUME NEW b \in [Instruments -> Position]
    PROVE  Profits(b) \in [Instruments -> Int] /\ Profit(b) \in Int
<1>1. Profits(b) \in [Instruments -> Int]
    BY DEF Profits, Position
<1>2. PICK i \in Instruments : TRUE
    BY OrderAssumption
<1>3. SumFunction(Profits(b)) \in Int
    BY <1>1, <1>2, OrderAssumption, SumChanges
<1>4. QED
    BY <1>1, <1>3 DEF Profit

LEMMA EmptyBook ==
    /\ [i \in Instruments |-> Flat] \in [Instruments -> Position]
    /\ Profit([i \in Instruments |-> Flat]) = 0
<1>1. Flat \in Position
    BY DEF Flat, Position
<1>2. [i \in Instruments |-> Flat] \in [Instruments -> Position]
    BY <1>1
<1>3. \A i \in Instruments : Profits([j \in Instruments |-> Flat])[i] = 0
    BY DEF Profits, Flat
<1>4. QED
    BY <1>2, <1>3, ProfitType, OrderAssumption, SumIsZero DEF Profit

\* The fill under way is added to the book and to the session alike.
LEMMA ApplySession ==
    ASSUME SessionInv, ApplyFill
    PROVE  SessionInv'
<1> DEFINE own == This.instrument
           delta == DeltaRealized(book[own], This)
           filled == AfterFill(book[own], This)
<1>1. /\ own \in Instruments /\ This \in Fill /\ Number \in Nat
      /\ book \in [Instruments -> Position] /\ session \in Int
    BY NumberType DEF SessionInv, BookInv, AmountsInv, ApplyFill
<1>2. /\ pc = "apply" /\ pc' = "position" /\ up /\ up' = up /\ This' = This
      /\ book' = [book EXCEPT ![own] = filled] /\ session' = session + delta
      /\ redis' = redis /\ unsaved' = unsaved /\ torn' = torn /\ blind' = blind /\ stale' = stale
    BY DEF ApplyFill, process, disk, marks, This, Number
<1>3. filled \in Position /\ delta \in Int /\ filled.realized = book[own].realized + delta
    BY <1>1, FilledPosition
<1> HIDE DEF delta, filled
<1>4. book' \in [Instruments -> Position] /\ AmountsInv'
    BY <1>1, <1>2, <1>3 DEF SessionInv, AmountsInv
<1>5. /\ book'[own] = filled /\ book[own].realized \in Int
      /\ \A i \in Instruments \ {own} : book'[i] = book[i]
    BY <1>1, <1>2 DEF Position
<1>6. Profit(book') = Profit(book) + delta
    <2>1. Profits(book) \in [Instruments -> Int] /\ Profits(book') \in [Instruments -> Int]
        BY <1>1, <1>4, ProfitType
    <2>2. \A i \in Instruments \ {own} : Profits(book')[i] = Profits(book)[i]
        BY <1>5 DEF Profits
    <2>3. Profits(book')[own] = book[own].realized + delta /\ Profits(book)[own] = book[own].realized
        BY <1>1, <1>3, <1>5 DEF Profits
    <2>4. /\ SumFunction(Profits(book)) \in Int
          /\ SumFunction(Profits(book')) = SumFunction(Profits(book)) + (Profits(book')[own] - Profits(book)[own])
        BY <1>1, <2>1, <2>2, OrderAssumption, SumChanges
    <2>5. QED
        BY <1>3, <1>5, <2>3, <2>4 DEF Profit
<1>7. BookInv' /\ \A i \in Instruments \ {own} : Behind(i)' = Behind(i)
    BY ApplyBook DEF SessionInv
<1>8. SessionOK'
    <2> SUFFICES ASSUME ~torn, ~blind PROVE SessionOK'
        BY <1>2 DEF SessionOK
    <2>1. \A i \in Instruments : RedisHas(i)'
        <3> SUFFICES ASSUME NEW i \in Instruments PROVE RedisHas(i)'
            OBVIOUS
        <3>1. CASE i = own
            BY <1>2, <3>1 DEF RedisHas
        <3>2. CASE i # own
            <4>1. RedisHas(i)
                BY <1>2 DEF SessionInv, SessionOK
            <4>2. QED
                BY <1>2, <1>5, <1>7, <3>2, <4>1 DEF RedisHas
        <3>3. QED
            BY <3>1, <3>2
    <2>2. session' = Profit(book')
        BY <1>2, <1>6 DEF SessionInv, SessionOK
    <2>3. unsaved' = {} /\ ~stale' => redis'.session = Profit(redis'.book)
        BY <1>2 DEF SessionInv, SessionOK
    <2>4. QED
        BY <1>2, <2>1, <2>2, <2>3 DEF SessionOK, Profit, Profits
<1>9. QED
    BY <1>4, <1>7, <1>8 DEF SessionInv

\* The position under way is written to Redis, or Redis refuses.
LEMMA SaveSessionInv ==
    ASSUME SessionInv, NEW ok \in BOOLEAN, SavePosition(ok)
    PROVE  SessionInv'
<1> DEFINE own == This.instrument
<1>1. /\ own \in Instruments /\ Number \in Behind(own)
      /\ book \in [Instruments -> Position] /\ redis \in [book : [Instruments -> Position], session : Int]
    BY NumberType DEF SessionInv, BookInv, OwnFills, AmountsInv, SavePosition
<1>2. /\ pc = "position" /\ pc' = "session" /\ up /\ up' = up /\ This' = This
      /\ book' = book /\ session' = session
      /\ torn' = torn /\ blind' = blind /\ stale' = stale
    BY DEF SavePosition, process, memory, This, Number
<1>3. \/ redis' = [redis EXCEPT !.book[own] = book[own]] /\ unsaved' = unsaved \ Behind(own)
      \/ redis' = redis /\ unsaved' = unsaved \cup {Number}
    BY DEF SavePosition, disk, Behind
<1>4. /\ redis' \in [book : [Instruments -> Position], session : Int]
      /\ \A i \in Instruments \ {own} : redis'.book[i] = redis.book[i]
      /\ unsaved' = unsaved \ Behind(own) => redis'.book[own] = book[own] \/ Number \in unsaved'
    BY <1>1, <1>3
<1>5. AmountsInv'
    BY <1>2, <1>4 DEF SessionInv, AmountsInv
<1>6. BookInv' /\ \A i \in Instruments : Behind(i)' = Behind(i)
    BY SaveBook DEF SessionInv
<1>7. ASSUME NEW i \in Instruments, up => RedisHas(i) PROVE RedisHas(i)'
    <2>1. CASE i = own
        BY <1>1, <1>2, <1>3, <1>4, <1>6, <2>1 DEF RedisHas
    <2>2. CASE i # own
        <3>1. Behind(i) \cap Behind(own) = {}
            <4>1. \A n \in Behind(i) : n \in Nat
                BY ToSetNat DEF Behind, SessionInv, BookInv, TypesInv
            <4>2. QED
                BY <1>1, <2>2, <4>1 DEF SessionInv, BookInv, OwnFills
        <3>2. Behind(i) \cap unsaved # {} => Behind(i) \cap unsaved' # {}
            BY <1>3, <3>1
        <3>3. QED
            BY <1>2, <1>4, <1>6, <1>7, <2>2, <3>2 DEF RedisHas
    <2>3. QED
        BY <2>1, <2>2
<1>8. SessionOK'
    <2> SUFFICES ASSUME ~torn, ~blind PROVE SessionOK'
        BY <1>2 DEF SessionOK
    <2>1. \A i \in Instruments : RedisHas(i)'
        BY <1>2, <1>7 DEF SessionInv, SessionOK
    <2>2. session' = Profit(book')
        BY <1>2 DEF SessionInv, SessionOK
    <2>3. QED
        BY <1>2, <2>1, <2>2 DEF SessionOK, Profit, Profits
<1>9. QED
    BY <1>5, <1>6, <1>8 DEF SessionInv

\* The session is written to Redis, or Redis refuses.
LEMMA StoreSession ==
    ASSUME SessionInv, NEW ok \in BOOLEAN, SaveSession(ok)
    PROVE  SessionInv'
<1>1. /\ pc = "session" /\ pc' = "publish" /\ up /\ up' = up
      /\ book' = book /\ session' = session /\ applied' = applied /\ unsaved' = unsaved
      /\ torn' = torn /\ blind' = blind
    BY DEF SaveSession, process, memory
<1>2. \/ redis' = [redis EXCEPT !.session = session] /\ stale' = FALSE
      \/ redis' = redis /\ stale' = TRUE
    BY DEF SaveSession
<1>3. book \in [Instruments -> Position] /\ session \in Int
      /\ redis \in [book : [Instruments -> Position], session : Int]
    BY DEF SessionInv, AmountsInv
<1>4. /\ redis' \in [book : [Instruments -> Position], session : Int] /\ redis'.book = redis.book
      /\ ~stale' => redis'.session = session
    BY <1>2, <1>3
<1>5. AmountsInv'
    BY <1>1, <1>2, <1>4 DEF SessionInv, AmountsInv
<1>6. BookInv'
    BY ElsewhereBook DEF SessionInv, Elsewhere
<1>7. SessionOK'
    <2> SUFFICES ASSUME ~torn, ~blind PROVE SessionOK'
        BY <1>1 DEF SessionOK
    <2>1. \A i \in Instruments : redis.book[i] = book[i] \/ Behind(i) \cap unsaved # {}
        BY <1>1 DEF SessionInv, SessionOK, RedisHas
    <2>2. \A i \in Instruments : RedisHas(i)'
        BY <1>1, <1>4, <2>1 DEF RedisHas, Behind
    <2>3. session = Profit(book)
        BY DEF SessionInv, SessionOK
    <2>4. unsaved = {} => redis.book = book
        BY <1>3, <2>1
    <2>5. unsaved' = {} /\ ~stale' => redis'.session = Profit(redis'.book)
        BY <1>1, <1>4, <2>3, <2>4
    <2>6. QED
        BY <1>1, <2>2, <2>3, <2>5 DEF SessionOK, Profit, Profits
<1>8. QED
    BY <1>5, <1>6, <1>7 DEF SessionInv

\* The steps that leave the book, the session and Redis as they are.
LEMMA QuietSession ==
    ASSUME SessionInv, BookInv',
           /\ book' = book /\ session' = session /\ redis' = redis /\ applied' = applied
           /\ unsaved' = unsaved /\ stale' = stale /\ torn' = torn /\ blind' = blind /\ up' = up,
           \/ pc # "position" /\ pc' # "position"
           \/ pc' = pc /\ This' = This,
           pc' # "session" => pc # "session"
    PROVE  SessionInv'
<1>1. AmountsInv'
    BY DEF SessionInv, AmountsInv
<1>2. SessionOK'
    <2> SUFFICES ASSUME ~torn, ~blind PROVE SessionOK'
        BY DEF SessionOK
    <2>1. up => \A i \in Instruments : RedisHas(i)'
        BY DEF SessionInv, SessionOK, RedisHas, Behind
    <2>2. QED
        BY <2>1 DEF SessionInv, SessionOK, Profit, Profits
<1>3. QED
    BY <1>1, <1>2 DEF SessionInv

LEMMA ElsewhereSession ==
    ASSUME SessionInv, Elsewhere
    PROVE  SessionInv'
<1>1. BookInv'
    BY ElsewhereBook DEF SessionInv
<1>2. CASE \E ok \in BOOLEAN : SaveSession(ok)
    BY <1>2, StoreSession
<1>3. CASE (\E i \in Instruments, action \in Actions : RejectOrder(i, action)) \/ IgnoreSignal
    <2>1. /\ book' = book /\ session' = session /\ redis' = redis /\ applied' = applied
          /\ unsaved' = unsaved /\ stale' = stale /\ torn' = torn /\ blind' = blind /\ up' = up
          /\ pc' = pc /\ pc = "idle"
        BY <1>3 DEF RejectOrder, IgnoreSignal, Deliver, process, memory, disk, marks
    <2>2. QED
        BY <1>1, <2>1, QuietSession
<1>4. CASE \E ok \in BOOLEAN : InsertOrder(ok) \/ InsertFill(ok)
    <2>1. /\ book' = book /\ session' = session /\ redis' = redis /\ applied' = applied
          /\ unsaved' = unsaved /\ stale' = stale /\ torn' = torn /\ blind' = blind /\ up' = up
          /\ pc \in {"order", "fill"} /\ pc' \in {"fill", "apply"}
        BY <1>4 DEF InsertOrder, InsertFill, process, memory, disk
    <2>2. QED
        BY <1>1, <2>1, QuietSession
<1>5. CASE \E ok \in BOOLEAN : Publish(ok)
    <2>1. /\ book' = book /\ session' = session /\ redis' = redis /\ applied' = applied
          /\ unsaved' = unsaved /\ stale' = stale /\ torn' = torn /\ blind' = blind /\ up' = up
          /\ pc = "publish" /\ pc' = "idle"
        BY <1>5 DEF Publish, process, memory, disk, marks
    <2>2. QED
        BY <1>1, <2>1, QuietSession
<1>6. CASE UNCHANGED vars
    <2>1. /\ book' = book /\ session' = session /\ redis' = redis /\ applied' = applied
          /\ unsaved' = unsaved /\ stale' = stale /\ torn' = torn /\ blind' = blind /\ up' = up
          /\ pc' = pc /\ This' = This
        BY <1>6 DEF vars, process, memory, disk, marks, This, Number
    <2>2. QED
        BY <1>1, <2>1, QuietSession
<1>7. QED
    BY <1>2, <1>3, <1>4, <1>5, <1>6 DEF Elsewhere

LEMMA ExecuteSession ==
    ASSUME SessionInv, NEW i \in Instruments, NEW action \in Actions, NEW qty \in Quantities,
           NEW price \in Prices, ExecuteOrder(i, action, qty, price)
    PROVE  SessionInv'
<1>1. BookInv'
    BY ExecuteBook DEF SessionInv
<1>2. /\ book' = book /\ session' = session /\ redis' = redis /\ applied' = applied
      /\ unsaved' = unsaved /\ stale' = stale /\ torn' = torn /\ blind' = blind /\ up' = up
      /\ pc = "idle" /\ pc' = "order"
    BY DEF ExecuteOrder, Deliver, process, memory, disk, marks
<1>3. QED
    BY <1>1, <1>2, QuietSession

\* A death that finds the two keys apart says so.
LEMMA DieSession ==
    ASSUME SessionInv, Die
    PROVE  SessionInv'
<1>1. /\ up /\ ~up' /\ pc' = "idle" /\ stale' = FALSE /\ session' = 0
      /\ torn' = (torn \/ stale \/ unsaved # {} \/ pc = "session")
      /\ book' = [i \in Instruments |-> Flat]
      /\ redis' = redis /\ unsaved' = unsaved /\ blind' = blind
    BY Zenon DEF Die, disk
<1>2. AmountsInv'
    <2>1. torn' \in BOOLEAN /\ stale' \in BOOLEAN
        BY <1>1
    <2>2. QED
        BY <1>1, <2>1, EmptyBook DEF SessionInv, AmountsInv
<1>3. SessionOK'
    <2> SUFFICES ASSUME ~torn', ~blind' PROVE SessionOK'
        BY DEF SessionOK
    <2>1. ~torn /\ ~stale /\ unsaved = {} /\ pc # "session" /\ ~blind
        BY <1>1 DEF SessionInv, AmountsInv
    <2>2. redis.session = Profit(redis.book)
        BY <2>1 DEF SessionInv, SessionOK
    <2>3. session' = Profit(book')
        BY <1>1, EmptyBook
    <2>4. QED
        BY <1>1, <2>1, <2>2, <2>3 DEF SessionOK, Profit, Profits
<1>4. QED
    BY <1>2, <1>3, LifeBook DEF SessionInv

\* A start takes both keys up, or notes that it could not read them.
LEMMA HydrateSession ==
    ASSUME SessionInv, Hydrate \/ HydrateFails
    PROVE  SessionInv'
<1>1. redis.book \in [Instruments -> Position] /\ redis.session \in Int
    BY DEF SessionInv, AmountsInv
<1>2. CASE Hydrate
    <2>1. /\ ~up /\ up' /\ pc' = pc /\ stale' = stale
          /\ book' = redis.book /\ session' = redis.session
          /\ torn' = torn /\ redis' = redis /\ unsaved' = unsaved /\ blind' = blind
        BY <1>2 DEF Hydrate, disk, marks
    <2>2. pc = "idle"
        BY <2>1 DEF SessionInv, BookInv, TypesInv
    <2>3. AmountsInv'
        BY <1>1, <2>1 DEF SessionInv, AmountsInv
    <2>4. SessionOK'
        <3> SUFFICES ASSUME ~torn, ~blind PROVE SessionOK'
            BY <2>1 DEF SessionOK
        <3>1. redis.session = Profit(redis.book)
            BY <2>1, <2>2 DEF SessionInv, SessionOK
        <3>2. \A i \in Instruments : RedisHas(i)'
            BY <2>1 DEF RedisHas
        <3>3. QED
            BY <2>1, <3>1, <3>2 DEF SessionOK, Profit, Profits
    <2>5. QED
        BY <1>2, <2>3, <2>4, LifeBook DEF SessionInv
<1>3. CASE HydrateFails
    <2>1. /\ blind' = TRUE /\ session' = 0 /\ redis' = redis /\ torn' = torn /\ stale' = stale
        BY <1>3 DEF HydrateFails, disk
    <2>2. PICK read \in SUBSET Instruments :
                book' = [i \in Instruments |-> IF i \in read THEN redis.book[i] ELSE Flat]
        BY <1>3 DEF HydrateFails
    <2>3. Flat \in Position
        BY DEF Flat, Position
    <2>4. book' \in [Instruments -> Position]
        BY <1>1, <2>2, <2>3
    <2>5. AmountsInv'
        BY <2>1, <2>4 DEF SessionInv, AmountsInv
    <2>6. SessionOK'
        BY <2>1 DEF SessionOK
    <2>7. QED
        BY <1>3, <2>5, <2>6, LifeBook DEF SessionInv
<1>4. QED
    BY <1>2, <1>3

LEMMA InitSessionInv == Init => SessionInv
<1> SUFFICES ASSUME Init PROVE SessionInv
    OBVIOUS
<1>1. /\ book = [i \in Instruments |-> Flat] /\ session = 0 /\ up = TRUE
      /\ redis = [book |-> book, session |-> 0]
      /\ unsaved = {} /\ stale = FALSE /\ torn = FALSE /\ blind = FALSE
    BY DEF Init
<1>2. AmountsInv
    <2>1. book \in [Instruments -> Position] /\ session \in Int
        BY <1>1, EmptyBook
    <2>2. redis \in [book : [Instruments -> Position], session : Int]
        BY <1>1, <2>1
    <2>3. QED
        BY <1>1, <2>1, <2>2 DEF AmountsInv
<1>3. redis.book = book /\ redis.session = 0 /\ Profit(book) = 0
    BY <1>1, EmptyBook
<1>4. SessionOK
    BY <1>1, <1>3 DEF SessionOK, RedisHas
<1>5. QED
    BY <1>2, <1>4, InitBookInv DEF SessionInv

LEMMA NextSessionInv == SessionInv /\ [Next]_vars => SessionInv'
BY StepKinds, ExecuteSession, ElsewhereSession, ApplySession, SaveSessionInv, DieSession, HydrateSession

(***************************************************************************)
(* The session's profit is the sum of the positions' profits, over any     *)
(* number of fills and restarts, unless a death split the two writes to    *)
(* Redis or Redis could not be written or read (book.py:75-122, 37-58).    *)
(***************************************************************************)
THEOREM SessionsAddUp == Spec => []SessionIsSum
<1>1. SessionInv => SessionIsSum
    BY DEF SessionInv, SessionOK, SessionIsSum, Profit, Profits
<1>2. QED
    BY <1>1, InitSessionInv, NextSessionInv, PTL DEF Spec
----
(***************************************************************************)
(* Sums over a sequence.  The order in which the arguments are taken does  *)
(* not matter, hence one more element adds its value.                      *)
(***************************************************************************)
AnyOrder(f, g, s) == g[s] \in Int /\ \A x \in s : g[s] = f[x] + g[s \ {x}]

LEMMA TakeAny ==
    ASSUME NEW S, IsFiniteSet(S), NEW f \in [S -> Int], NEW g, SumsUpTo(f, Cardinality(S), g)
    PROVE  \A s \in SUBSET S : AnyOrder(f, g, s)
<1> DEFINE Fits(s) == AnyOrder(f, g, s)
           Bad == {n \in Nat : \E s \in SUBSET S : Cardinality(s) = n /\ ~Fits(s)}
<1>1. SUFFICES ASSUME Bad # {} PROVE FALSE
    <2> SUFFICES ASSUME NEW s \in SUBSET S, ~Fits(s) PROVE Cardinality(s) \in Bad
        <3> HIDE DEF Fits, Bad
        <3>1. QED
            BY <1>1 DEF Fits
    <2> HIDE DEF Fits
    <2>1. QED
        BY WithoutOne
<1>2. PICK n \in Bad : \A m \in Bad : n <= m
    <2>1. Bad \in SUBSET Nat
        OBVIOUS
    <2> HIDE DEF Bad
    <2>2. QED
        BY <1>1, <2>1, Least
<1>3. PICK s \in SUBSET S : Cardinality(s) = n /\ ~Fits(s)
    BY <1>2
<1>4. ASSUME NEW t \in SUBSET S, Cardinality(t) = n - 1 PROVE Fits(t)
    <2>1. n \in Nat /\ n - 1 \notin Bad
        <3>1. n \in Nat /\ ~(n <= n - 1)
            BY <1>2
        <3> HIDE DEF Bad
        <3>2. QED
            BY <1>2, <3>1
    <2> HIDE DEF Fits
    <2>2. n - 1 \in Nat
        <3> HIDE DEF Bad
        <3>1. Cardinality(t) \in Nat
            BY WithoutOne
        <3>2. QED
            BY <1>4, <3>1
    <2>3. QED
        BY <1>4, <2>1, <2>2
<1>5. \A t \in SUBSET S : \A x \in t : t \ {x} \in SUBSET S /\ Cardinality(t \ {x}) = Cardinality(t) - 1
    <2> HIDE DEF Bad, Fits
    <2>1. ASSUME NEW t \in SUBSET S, NEW x \in t
          PROVE  t \ {x} \in SUBSET S /\ Cardinality(t \ {x}) = Cardinality(t) - 1
        <3>1. IsFiniteSet(t)
            BY WithoutOne
        <3>2. QED
            BY <3>1, FS_RemoveElement
    <2>2. QED
        BY <2>1, Zenon
<1>6. \A t \in SUBSET S : g[t] = IF t = {} THEN 0 ELSE f[OneOf(t)] + g[t \ {OneOf(t)}]
    BY WithoutOne DEF SumsUpTo
<1>7. CASE s = {}
    <2>1. g[s] = 0
        BY <1>6, <1>7
    <2>2. QED
        BY <1>3, <1>7, <2>1 DEF AnyOrder
<1>8. CASE s # {}
    <2> DEFINE y == OneOf(s)
    <2>1. y \in s /\ s \ {y} \in SUBSET S /\ Cardinality(s \ {y}) = n - 1
        BY <1>3, <1>8, WithoutOne
    <2>2. g[s] = f[y] + g[s \ {y}] /\ f[y] \in Int
        BY <1>6, <1>8, <2>1
    <2> HIDE DEF y
    <2>3. Fits(s \ {y})
        BY <1>4, <2>1
    <2>4. ASSUME NEW x \in s, x # y PROVE g[s] = f[x] + g[s \ {x}]
        <3>1. s \ {x} \in SUBSET S /\ Cardinality(s \ {x}) = n - 1
            BY <1>3, <1>5
        <3>2. Fits(s \ {x})
            BY <1>4, <3>1
        <3>3. /\ x \in s \ {y} /\ y \in s \ {x}
              /\ (s \ {x}) \ {y} = (s \ {y}) \ {x}
            BY <2>1, <2>4
        <3> DEFINE both == (s \ {y}) \ {x}
        <3>4. g[s \ {x}] = f[y] + g[both] /\ g[s \ {x}] \in Int
            BY <3>2, <3>3 DEF AnyOrder
        <3>5. g[s \ {y}] = f[x] + g[both] /\ g[s \ {y}] \in Int
            BY <2>3, <3>3 DEF AnyOrder
        <3>6. f[x] \in Int /\ both \in SUBSET S
            BY <2>4
        <3>7. g[both] \in Int
            <4>1. Cardinality(both) = n - 2 /\ both \in SUBSET S /\ n - 2 \in Nat /\ n \in Nat
                <5> HIDE DEF Bad, Fits
                <5>1. Cardinality(both) = Cardinality(s \ {y}) - 1
                    BY <1>5, <2>1, <3>3
                <5>2. Cardinality(both) \in Nat /\ n \in Nat
                    <6> HIDE DEF both
                    <6>1. Cardinality(both) \in Nat
                        BY <3>6, WithoutOne
                    <6>2. IsFiniteSet(s) /\ Cardinality(s) \in Nat
                        BY FS_Subset, FS_CardinalityType
                    <6>3. QED
                        BY <1>3, <6>1, <6>2
                <5> HIDE DEF both
                <5>3. n - 2 = (n - 1) - 1
                    BY <5>2
                <5>4. QED
                    BY <2>1, <3>6, <5>1, <5>2, <5>3
            <4>2. n - 2 \notin Bad
                <5>1. ~(n <= n - 2)
                    BY <4>1
                <5> HIDE DEF Bad
                <5>2. QED
                    BY <1>2, <5>1
            <4>3. QED
                BY <4>1, <4>2 DEF AnyOrder
        <3> HIDE DEF both
        <3>8. QED
            BY <2>2, <3>4, <3>5, <3>6, <3>7
    <2>5. g[s] \in Int
        BY <2>2, <2>3 DEF AnyOrder
    <2>6. Fits(s)
        BY <2>2, <2>4, <2>5 DEF AnyOrder
    <2>7. QED
        BY <1>3, <2>6
<1>9. QED
    BY <1>7, <1>8

LEMMA SumWithout ==
    ASSUME NEW S, IsFiniteSet(S), NEW f \in [S -> Int], NEW g, SumsUpTo(f, Cardinality(S), g),
           NEW x \in S, NEW less, less = S \ {x}
    PROVE  g[S] = f[x] + g[less]
<1>1. AnyOrder(f, g, S)
    BY TakeAny
<1>2. QED
    BY <1>1 DEF AnyOrder

\* One more element.
LEMMA SumAppend ==
    ASSUME NEW n \in Nat, NEW f \in [1..n -> Int], NEW h \in [1..(n + 1) -> Int],
           \A k \in 1..n : h[k] = f[k]
    PROVE  SumFunction(f) \in Int /\ SumFunction(h) = SumFunction(f) + h[n + 1]
<1> DEFINE S == 1..n
           T == 1..(n + 1)
<1>1. IsFiniteSet(S) /\ IsFiniteSet(T) /\ T \ {n + 1} = S /\ n + 1 \in T /\ S \in SUBSET T
    <2>1. IsFiniteSet(1..n) /\ IsFiniteSet(1..(n + 1))
        BY FS_Interval
    <2>2. QED
        BY <2>1
<1>2. PICK a : SumsUpTo(f, Cardinality(S), a) /\ SumFunction(f) = a[S]
    BY <1>1, SumIs
<1>3. PICK b : SumsUpTo(h, Cardinality(T), b) /\ SumFunction(h) = b[T]
    BY <1>1, SumIs
<1> HIDE DEF S, T
<1>4. b[T] = h[n + 1] + b[S]
    <2>1. h \in [T -> Int]
        BY DEF T
    <2>2. IsFiniteSet(T) /\ SumsUpTo(h, Cardinality(T), b) /\ n + 1 \in T /\ S = T \ {n + 1}
        BY <1>1, <1>3
    <2>3. QED
        BY <2>1, <2>2, SumWithout
<1>5. a[S] = b[S] /\ a[S] \in Int
    <2> DEFINE Bad == {m \in Nat : \E s \in SUBSET S : Cardinality(s) = m /\ a[s] # b[s]}
    <2>1. \A s \in SUBSET S : /\ a[s] = IF s = {} THEN 0 ELSE f[OneOf(s)] + a[s \ {OneOf(s)}]
                              /\ b[s] = IF s = {} THEN 0 ELSE h[OneOf(s)] + b[s \ {OneOf(s)}]
        <3> HIDE DEF Bad
        <3>1. \A s \in SUBSET S : Cardinality(s) <= Cardinality(S)
            BY <1>1, FS_Subset
        <3>2. \A s \in SUBSET S : s \in SUBSET T /\ Cardinality(s) <= Cardinality(T)
            BY <1>1, FS_Subset
        <3>3. DOMAIN f = S /\ DOMAIN h = T
            BY DEF S, T
        <3>4. QED
            BY <1>2, <1>3, <3>1, <3>2, <3>3 DEF SumsUpTo
    <2>2. SUFFICES ASSUME Bad # {} PROVE FALSE
        <3>1. Cardinality(S) \in Nat /\ S \in SUBSET S
            BY <1>1, FS_CardinalityType
        <3>2. a[S] \in Int
            <4>1. f \in [S -> Int]
                BY DEF S
            <4>2. AnyOrder(f, a, S)
                BY <1>1, <1>2, <3>1, <4>1, TakeAny
            <4>3. QED
                BY <4>2 DEF AnyOrder
        <3>3. QED
            BY <2>2, <3>1, <3>2
    <2>3. PICK m \in Bad : \A l \in Bad : m <= l
        <3>1. Bad \in SUBSET Nat
            OBVIOUS
        <3> HIDE DEF Bad
        <3>2. QED
            BY <2>2, <3>1, Least
    <2>4. PICK s \in SUBSET S : Cardinality(s) = m /\ a[s] # b[s]
        BY <2>3
    <2>5. s # {}
        BY <2>1, <2>4
    <2>6. /\ OneOf(s) \in S /\ s \ {OneOf(s)} \in SUBSET S /\ Cardinality(s \ {OneOf(s)}) = m - 1
          /\ m - 1 \in Nat /\ ~(m <= m - 1)
        <3> HIDE DEF Bad
        <3>1. Cardinality(s) \in Nat /\ Cardinality(s) # 0
            BY <1>1, <2>5, WithoutOne
        <3>2. /\ OneOf(s) \in s /\ s \ {OneOf(s)} \in SUBSET S
              /\ Cardinality(s \ {OneOf(s)}) = Cardinality(s) - 1
            BY <1>1, <2>5, WithoutOne
        <3>3. m = Cardinality(s)
            BY <2>4
        <3>4. QED
            BY <3>1, <3>2, <3>3
    <2>7. m - 1 \notin Bad
        <3> HIDE DEF Bad
        <3>1. QED
            BY <2>3, <2>6
    <2>8. a[s \ {OneOf(s)}] = b[s \ {OneOf(s)}]
        BY <2>6, <2>7
    <2>9. h[OneOf(s)] = f[OneOf(s)]
        BY <2>6 DEF S
    <2>10. QED
        BY <2>1, <2>4, <2>5, <2>8, <2>9
<1>6. QED
    BY <1>2, <1>3, <1>4, <1>5, <1>1 DEF T
----
(***************************************************************************)
(* One fill: what the position cost changes by the cash of the fill and    *)
(* its fees, and the average stays between the prices.                     *)
(***************************************************************************)
Cost(pos) == pos.qty * pos.avg - pos.realized

LEMMA FillTypes ==
    ASSUME NEW pos \in Position, NEW f \in Fill
    PROVE  /\ pos.qty \in Int /\ pos.avg \in Int /\ pos.realized \in Int
           /\ f.side \in {1, -1} /\ f.qty \in Nat \ {0} /\ f.price \in Nat \ {0} /\ Fee \in Nat
           /\ AbsVal(pos.qty) \in Nat /\ AbsVal(pos.qty) = IF pos.qty < 0 THEN -pos.qty ELSE pos.qty
           /\ Closing(pos, f) = IF f.qty > AbsVal(pos.qty) THEN AbsVal(pos.qty) ELSE f.qty
<1>1. f.side \in {1, -1} /\ f.qty \in Quantities /\ f.price \in Prices
    BY DEF Fill
<1>2. /\ pos.qty \in Int /\ pos.avg \in Int /\ pos.realized \in Int
      /\ f.qty \in Nat \ {0} /\ f.price \in Nat \ {0} /\ Fee \in Nat
    BY <1>1, OrderAssumption DEF Position
<1>3. AbsVal(pos.qty) \in Nat /\ AbsVal(pos.qty) = IF pos.qty < 0 THEN -pos.qty ELSE pos.qty
    BY <1>2 DEF AbsVal
<1> DEFINE a == AbsVal(pos.qty)
           both == {a, f.qty}
<1>4. Closing(pos, f) = CHOOSE x \in both : \A y \in both : x <= y
    BY DEF Closing, Min
<1> HIDE DEF a
<1>5. a \in Nat
    BY <1>3 DEF a
<1>6. \E x \in both : \A y \in both : x <= y
    BY <1>2, <1>5
<1>7. Closing(pos, f) \in both /\ \A y \in both : Closing(pos, f) <= y
    <2> HIDE DEF both
    <2>1. QED
        BY <1>4, <1>6
<1>8. Closing(pos, f) = IF f.qty > a THEN a ELSE f.qty
    BY <1>2, <1>5, <1>7
<1>9. QED
    BY <1>1, <1>2, <1>3, <1>8 DEF a

\* A blend: the quotient times the divisor is the dividend when nothing is left over.
LEMMA WholeQuotient ==
    ASSUME NEW x \in Int, NEW d \in Nat \ {0}
    PROVE  /\ x \div d \in Int
           /\ x % d = 0 => d * (x \div d) = x
           /\ \A m \in Int : m * d <= x => m <= x \div d
           /\ \A m \in Int : x <= m * d => x \div d <= m
<1> DEFINE q == x \div d
           rest == x % d
<1>1. q \in Int /\ rest \in 0..(d - 1) /\ x = d * q + rest
    <2>1. x = d * (x \div d) + (x % d)
        OBVIOUS
    <2>2. QED
        BY <2>1
<1> HIDE DEF q, rest
<1>2. \A m, k \in Int : k + 1 <= m => (k + 1) * d <= m * d
    OBVIOUS
<1>3. d * q \in Int /\ d * q = q * d /\ \A k \in Int : (k + 1) * d = k * d + d /\ k * d \in Int
    BY <1>1
<1>4. ASSUME NEW m \in Int, m * d <= x PROVE m <= q
    <2> SUFFICES ASSUME q + 1 <= m PROVE FALSE
        BY <1>1
    <2>1. q * d + d <= m * d
        BY <1>1, <1>2, <1>3
    <2>2. QED
        BY <1>1, <1>3, <1>4, <2>1
<1>5. ASSUME NEW m \in Int, x <= m * d PROVE q <= m
    <2> SUFFICES ASSUME m + 1 <= q PROVE FALSE
        BY <1>1
    <2>1. m * d + d <= q * d
        BY <1>1, <1>2, <1>3
    <2>2. QED
        BY <1>1, <1>3, <1>5, <2>1
<1>6. QED
    BY <1>1, <1>4, <1>5 DEF q, rest

LEMMA FilledCost ==
    ASSUME NEW pos \in Position, NEW f \in Fill, StaysWhole(pos, f)
    PROVE  Cost(AfterFill(pos, f)) = Cost(pos) + Signed(f) * f.price + Fee
<1> DEFINE a == AbsVal(pos.qty)
           q == pos.qty
           avg == pos.avg
           r == pos.realized
           n == f.qty
           p == f.price
           new == AfterFill(pos, f)
<1>1. /\ q \in Int /\ avg \in Int /\ r \in Int /\ n \in Nat \ {0} /\ p \in Nat \ {0} /\ Fee \in Nat
      /\ f.side \in {1, -1} /\ a \in Nat /\ a = IF q < 0 THEN -q ELSE q
      /\ Closing(pos, f) = IF n > a THEN a ELSE n
    BY FillTypes
<1>2. /\ new.qty = q + f.side * n /\ new.avg = NewAverage(pos, f)
      /\ new.realized = r + DeltaRealized(pos, f)
    BY DEF AfterFill, Signed
<1>3. Cost(new) = new.qty * new.avg - new.realized /\ Cost(pos) = q * avg - r /\ Signed(f) = f.side * n
    BY DEF Cost, Signed
<1>4. CASE SameDirection(pos, f)
    <2>1. new.realized = r - Fee
        BY <1>1, <1>2, <1>4 DEF DeltaRealized
    <2> DEFINE whole == avg * a + p * n
    <2>2. new.avg = whole \div (a + n) /\ whole % (a + n) = 0
        BY <1>2, <1>4 DEF NewAverage, StaysWhole
    <2>3. a + n \in Nat \ {0} /\ whole \in Int
        BY <1>1
    <2>4. new.avg \in Int /\ (a + n) * new.avg = avg * a + p * n
        <3> HIDE DEF whole
        <3>1. new.avg \in Int /\ (a + n) * new.avg = whole
            BY <2>2, <2>3, WholeQuotient
        <3>2. QED
            BY <3>1 DEF whole
    <2>5. q * f.side >= 0
        BY <1>4 DEF SameDirection
    <2> HIDE DEF a, q, avg, r, n, p, new, whole
    <2>6. CASE f.side = 1
        <3>1. q = a /\ new.qty = a + n
            BY <1>1, <1>2, <2>5, <2>6
        <3>2. new.qty * new.avg = avg * q + p * n
            BY <2>4, <3>1
        <3>3. avg * q = q * avg /\ p * n = n * p /\ q * avg \in Int /\ n * p \in Int
            BY <1>1
        <3>4. Signed(f) * p = n * p
            BY <1>1, <1>3, <2>6
        <3>5. QED
            BY <1>1, <1>3, <2>1, <3>2, <3>3, <3>4 DEF p, new
    <2>7. CASE f.side = -1
        <3>1. q = -a /\ new.qty = -(a + n)
            BY <1>1, <1>2, <2>5, <2>7
        <3>2. new.qty * new.avg = -(avg * a + p * n)
            <4>1. \A x, y \in Int : (-x) * y = -(x * y)
                OBVIOUS
            <4>2. QED
                BY <1>1, <2>3, <2>4, <3>1, <4>1
        <3>3. avg * a = -(q * avg) /\ p * n = n * p /\ q * avg \in Int /\ n * p \in Int
            BY <1>1, <3>1
        <3>4. Signed(f) * p = -(n * p)
            BY <1>1, <1>3, <2>7
        <3>5. QED
            BY <1>1, <1>3, <2>1, <3>2, <3>3, <3>4 DEF p, new
    <2>8. QED
        BY <1>1, <2>6, <2>7
<1>5. CASE ~SameDirection(pos, f)
    <2> DEFINE c == IF n > a THEN a ELSE n
    <2>1. new.realized = r + (-f.side * (p - avg) * c - Fee)
        BY <1>1, <1>2, <1>5 DEF DeltaRealized
    <2>2. new.avg = IF n > a THEN p ELSE IF n = a THEN 0 ELSE avg
        BY <1>2, <1>5 DEF NewAverage
    <2>3. ~(q * f.side >= 0)
        BY <1>5 DEF SameDirection
    <2> HIDE DEF a, q, avg, r, n, p, new
    <2>4. CASE f.side = 1
        <3>1. q = -a /\ new.qty = n - a /\ a > 0
            BY <1>1, <1>2, <2>3, <2>4
        <3>2. new.realized = r - (p - avg) * c - Fee
            BY <1>1, <2>1, <2>4
        <3>3. Signed(f) * p = n * p
            BY <1>1, <1>3, <2>4
        <3>4. new.qty * new.avg - new.realized = q * avg - r + n * p + Fee
            BY <1>1, <2>2, <3>1, <3>2
        <3>5. QED
            BY <1>3, <3>3, <3>4 DEF p, new
    <2>5. CASE f.side = -1
        <3>1. q = a /\ new.qty = a - n /\ a > 0
            BY <1>1, <1>2, <2>3, <2>5
        <3>2. new.realized = r + (p - avg) * c - Fee
            BY <1>1, <2>1, <2>5
        <3>3. Signed(f) * p = -(n * p)
            BY <1>1, <1>3, <2>5
        <3>4. new.qty * new.avg - new.realized = q * avg - r - n * p + Fee
            BY <1>1, <2>2, <3>1, <3>2
        <3>5. QED
            BY <1>1, <1>3, <3>3, <3>4 DEF p, new
    <2>6. QED
        BY <1>1, <2>4, <2>5
<1>6. QED
    BY <1>4, <1>5

\* The average stays between any bounds of the price and of the average so far.
LEMMA FilledAverage ==
    ASSUME NEW pos \in Position, NEW f \in Fill, NEW lo \in Int, NEW hi \in Int,
           lo <= f.price /\ f.price <= hi,
           pos.qty # 0 => lo <= pos.avg /\ pos.avg <= hi
    PROVE  /\ AfterFill(pos, f).qty = 0 => AfterFill(pos, f).avg = 0
           /\ AfterFill(pos, f).qty # 0 => lo <= AfterFill(pos, f).avg /\ AfterFill(pos, f).avg <= hi
<1> DEFINE a == AbsVal(pos.qty)
           q == pos.qty
           avg == pos.avg
           n == f.qty
           p == f.price
           new == AfterFill(pos, f)
<1>1. /\ q \in Int /\ avg \in Int /\ n \in Nat \ {0} /\ p \in Nat \ {0}
      /\ f.side \in {1, -1} /\ a \in Nat /\ a = IF q < 0 THEN -q ELSE q
    BY FillTypes
<1>2. new.qty = q + f.side * n /\ new.avg = NewAverage(pos, f)
    BY DEF AfterFill, Signed
<1>3. CASE SameDirection(pos, f)
    <2> DEFINE whole == avg * a + p * n
    <2>1. new.avg = whole \div (a + n) /\ a + n \in Nat \ {0} /\ whole \in Int
        <3>1. new.avg = whole \div (a + n)
            BY <1>2, <1>3 DEF NewAverage
        <3>2. a + n \in Nat \ {0} /\ whole \in Int
            BY <1>1
        <3>3. QED
            BY <3>1, <3>2
    <2>2. q * f.side >= 0
        BY <1>3 DEF SameDirection
    <2>3. new.qty # 0
        BY <1>1, <1>2, <2>2
    <2>4. lo * (a + n) <= whole /\ whole <= hi * (a + n)
        <3>1. lo * n <= p * n /\ p * n <= hi * n
            <4>1. \A x, y \in Int, z \in Nat : x <= y => x * z <= y * z
                OBVIOUS
            <4>2. lo <= p /\ p <= hi
                OBVIOUS
            <4> HIDE DEF p, n
            <4>3. QED
                BY <1>1, <4>1, <4>2
        <3>2. lo * a <= avg * a /\ avg * a <= hi * a
            <4>1. CASE q = 0
                <5>1. a = 0
                    BY <1>1, <4>1
                <5> HIDE DEF a, avg
                <5>2. QED
                    BY <1>1, <5>1
            <4>2. CASE q # 0
                <5>1. \A x, y \in Int, z \in Nat : x <= y => x * z <= y * z
                    OBVIOUS
                <5>2. lo <= avg /\ avg <= hi
                    BY <4>2
                <5> HIDE DEF a, avg
                <5>3. QED
                    BY <1>1, <5>1, <5>2
            <4>3. QED
                BY <4>1, <4>2
        <3> HIDE DEF a, n, avg, p
        <3>3. lo * (a + n) = lo * a + lo * n /\ hi * (a + n) = hi * a + hi * n
            BY <1>1
        <3>4. /\ lo * a \in Int /\ lo * n \in Int /\ hi * a \in Int /\ hi * n \in Int
              /\ avg * a \in Int /\ p * n \in Int
            BY <1>1
        <3>5. QED
            BY <3>1, <3>2, <3>3, <3>4
    <2> HIDE DEF whole, a, n, new
    <2>5. lo <= whole \div (a + n) /\ whole \div (a + n) <= hi
        BY <2>1, <2>4, WholeQuotient
    <2>6. QED
        BY <2>1, <2>3, <2>5 DEF new
<1>4. CASE ~SameDirection(pos, f)
    <2>1. new.avg = IF n > a THEN p ELSE IF n = a THEN 0 ELSE avg
        BY <1>2, <1>4 DEF NewAverage
    <2>2. ~(q * f.side >= 0)
        BY <1>4 DEF SameDirection
    <2>3. q # 0 /\ (new.qty = 0 <=> n = a)
        BY <1>1, <1>2, <2>2
    <2>4. QED
        BY <1>1, <2>1, <2>3
<1>5. QED
    BY <1>3, <1>4

(***************************************************************************)
(* The books balance over one more fill, over none, and over the same      *)
(* fills when they need no longer do so exactly.                           *)
(***************************************************************************)
LEMMA BalancedFill ==
    ASSUME NEW pos \in Position, NEW own \in Seq(Fill), NEW f \in Fill, NEW exact \in BOOLEAN,
           Balanced(pos, own, exact)
    PROVE  Balanced(AfterFill(pos, f), Append(own, f), exact /\ StaysWhole(pos, f))
<1> DEFINE new == AfterFill(pos, f)
           more == Append(own, f)
           n == Len(own)
           Turnover(s) == [k \in DOMAIN s |-> Signed(s[k]) * s[k].price]
           Quantity(s) == [k \in DOMAIN s |-> Signed(s[k])]
           Within(p, s) == IF p.qty = 0 THEN p.avg = 0
                           ELSE \E k, l \in DOMAIN s : s[k].price <= p.avg /\ p.avg <= s[l].price
<1>1. /\ n \in Nat /\ DOMAIN own = 1..n /\ DOMAIN more = 1..(n + 1) /\ Len(more) = n + 1
      /\ more[n + 1] = f /\ \A k \in 1..n : more[k] = own[k] /\ own[k] \in Fill
    <2>1. more \in Seq(Fill)
        OBVIOUS
    <2>2. QED
        BY <2>1, LenProperties, ElementOfSeq, AppendProperties
<1>2. /\ pos.qty \in Int /\ pos.avg \in Int /\ pos.realized \in Int /\ Fee \in Nat
      /\ f.qty \in Nat \ {0} /\ f.price \in Nat \ {0}
    BY FillTypes
<1>3. \A g \in Fill : g.price \in Int /\ Signed(g) \in Int /\ Signed(g) * g.price \in Int
    <2> SUFFICES ASSUME NEW g \in Fill PROVE g.price \in Int /\ Signed(g) \in Int
        OBVIOUS
    <2>1. g.price \in Nat \ {0} /\ g.side \in {1, -1} /\ g.qty \in Nat \ {0}
        BY FillTypes
    <2>2. QED
        BY <2>1 DEF Signed
<1>4. /\ pos.qty = SumFunction(Quantity(own)) /\ Within(pos, own)
      /\ exact => pos.realized = pos.qty * pos.avg - SumFunction(Turnover(own)) - Fee * n
    BY DEF Balanced
<1>5. /\ SumFunction(Quantity(own)) \in Int
      /\ SumFunction(Quantity(more)) = SumFunction(Quantity(own)) + Signed(f)
    <2>1. /\ Quantity(own) \in [1..n -> Int] /\ Quantity(more) \in [1..(n + 1) -> Int]
          /\ Quantity(more)[n + 1] = Signed(f)
          /\ \A k \in 1..n : Quantity(more)[k] = Quantity(own)[k]
        BY <1>1, <1>3
    <2> HIDE DEF Quantity
    <2>2. QED
        BY <1>1, <2>1, SumAppend
<1>6. /\ SumFunction(Turnover(own)) \in Int
      /\ SumFunction(Turnover(more)) = SumFunction(Turnover(own)) + Signed(f) * f.price
    <2>1. /\ Turnover(own) \in [1..n -> Int] /\ Turnover(more) \in [1..(n + 1) -> Int]
          /\ Turnover(more)[n + 1] = Signed(f) * f.price
          /\ \A k \in 1..n : Turnover(more)[k] = Turnover(own)[k]
        <3>1. \A k \in 1..(n + 1) : more[k] \in Fill
            BY <1>1
        <3>2. \A k \in DOMAIN more : Signed(more[k]) * more[k].price \in Int
            BY <1>1, <1>3, <3>1
        <3>3. \A k \in DOMAIN own : Signed(own[k]) * own[k].price \in Int
            BY <1>1, <1>3
        <3>4. QED
            BY <1>1, <3>2, <3>3
    <2> HIDE DEF Turnover
    <2>2. QED
        BY <1>1, <2>1, SumAppend
<1>7. new.qty = SumFunction(Quantity(more))
    <2>1. new.qty = pos.qty + Signed(f)
        BY DEF AfterFill
    <2> HIDE DEF Quantity, new
    <2>2. QED
        BY <1>4, <1>5, <2>1
<1>8. ASSUME exact, StaysWhole(pos, f)
      PROVE  new.realized = new.qty * new.avg - SumFunction(Turnover(more)) - Fee * (n + 1)
    <2>1. /\ new.qty * new.avg - new.realized = pos.qty * pos.avg - pos.realized + Signed(f) * f.price + Fee
          /\ new.qty \in Int /\ new.avg \in Int /\ new.realized \in Int
        BY <1>8, FilledCost, FilledPosition DEF Cost, Position
    <2>2. Fee * (n + 1) = Fee * n + Fee /\ Fee * n \in Int
        BY <1>1, <1>2
    <2> DEFINE worth == new.qty * new.avg
               before == pos.qty * pos.avg
               cash == Signed(f) * f.price
               paid == SumFunction(Turnover(own))
               fees == Fee * n
    <2>3. worth \in Int /\ before \in Int /\ cash \in Int
        <3>1. \A x, y \in Int : x * y \in Int
            OBVIOUS
        <3>2. Signed(f) \in Int /\ f.price \in Int
            BY <1>3
        <3> HIDE DEF new
        <3>3. QED
            BY <1>2, <2>1, <3>1, <3>2
    <2>4. /\ worth - new.realized = before - pos.realized + cash + Fee
          /\ pos.realized = before - paid - fees /\ fees \in Int
          /\ paid \in Int /\ new.realized \in Int /\ pos.realized \in Int /\ Fee \in Int
        BY <1>2, <1>4, <1>6, <1>8, <2>1, <2>2
    <2> HIDE DEF Turnover, new, worth, before, cash, paid, fees
    <2>5. new.realized = worth - (paid + cash) - (fees + Fee)
        BY <2>3, <2>4
    <2>6. QED
        BY <1>6, <2>2, <2>5 DEF worth, fees, paid, cash
<1>9. Within(new, more)
    <2>1. PICK lo \in Int, hi \in Int :
                /\ lo <= f.price /\ f.price <= hi
                /\ pos.qty # 0 => lo <= pos.avg /\ pos.avg <= hi
                /\ \E k \in 1..(n + 1) : more[k].price = lo
                /\ \E k \in 1..(n + 1) : more[k].price = hi
        <3>1. CASE pos.qty = 0
            BY <1>1, <1>2, <3>1
        <3>2. CASE pos.qty # 0
            <4>1. PICK k \in 1..n, l \in 1..n : own[k].price <= pos.avg /\ pos.avg <= own[l].price
                BY <1>1, <1>4, <3>2
            <4>2. /\ more[k].price = own[k].price /\ more[l].price = own[l].price /\ more[n + 1].price = f.price
                  /\ own[k].price \in Int /\ own[l].price \in Int
                  /\ k \in 1..(n + 1) /\ l \in 1..(n + 1) /\ n + 1 \in 1..(n + 1)
                <5>1. own[k] \in Fill /\ own[l] \in Fill
                    BY <1>1
                <5>2. own[k].price \in Int /\ own[l].price \in Int
                    BY <1>3, <5>1
                <5> HIDE DEF more, n
                <5>3. QED
                    BY <1>1, <5>2
            <4>3. f.price \in Int /\ pos.avg \in Int
                BY <1>2
            <4>4. own[k].price \in Int /\ own[l].price \in Int
                BY <4>2
            <4> DEFINE low == IF own[k].price <= f.price THEN own[k].price ELSE f.price
                       high == IF own[l].price >= f.price THEN own[l].price ELSE f.price
            <4>5. /\ low \in Int /\ low <= f.price /\ low <= pos.avg
                  /\ \E m \in 1..(n + 1) : more[m].price = low
                <5>1. CASE own[k].price <= f.price
                    <6>1. low = more[k].price /\ low = own[k].price
                        BY <4>2, <5>1
                    <6> HIDE DEF more, n, low
                    <6>2. QED
                        BY <4>1, <4>2, <4>3, <5>1, <6>1
                <5>2. CASE ~(own[k].price <= f.price)
                    <6>1. low = more[n + 1].price
                        BY <4>2, <5>2
                    <6>2. low = f.price
                        BY <5>2
                    <6> HIDE DEF more, n, low
                    <6>4. low \in Int /\ low <= f.price /\ low <= pos.avg
                        BY <4>1, <4>3, <4>4, <5>2, <6>2
                    <6>5. QED
                        BY <4>2, <6>1, <6>4
                <5>3. QED
                    BY <5>1, <5>2
            <4>6. /\ high \in Int /\ f.price <= high /\ pos.avg <= high
                  /\ \E m \in 1..(n + 1) : more[m].price = high
                <5>1. CASE own[l].price >= f.price
                    <6>1. high = more[l].price /\ high = own[l].price
                        BY <4>2, <5>1
                    <6> HIDE DEF more, n, high
                    <6>2. QED
                        BY <4>1, <4>2, <4>3, <5>1, <6>1
                <5>2. CASE ~(own[l].price >= f.price)
                    <6>1. high = more[n + 1].price
                        BY <4>2, <5>2
                    <6>2. high = f.price
                        BY <5>2
                    <6> HIDE DEF more, n, high
                    <6>4. high \in Int /\ f.price <= high /\ pos.avg <= high
                        BY <4>1, <4>3, <4>4, <5>2, <6>2
                    <6>5. QED
                        BY <4>2, <6>1, <6>4
                <5>3. QED
                    BY <5>1, <5>2
            <4> HIDE DEF low, high
            <4>7. QED
                BY <4>5, <4>6
        <3>3. QED
            BY <3>1, <3>2
    <2>2. /\ new.qty = 0 => new.avg = 0
          /\ new.qty # 0 => lo <= new.avg /\ new.avg <= hi
        BY <2>1, FilledAverage
    <2> HIDE DEF new
    <2>3. QED
        BY <1>1, <2>1, <2>2
<1>10. QED
    BY <1>1, <1>7, <1>8, <1>9 DEF Balanced

LEMMA BalancedNone ==
    ASSUME NEW exact \in BOOLEAN
    PROVE  Balanced(Flat, <<>>, exact)
<1> DEFINE quantity == [k \in DOMAIN <<>> |-> Signed(<<>>[k])]
           turnover == [k \in DOMAIN <<>> |-> Signed(<<>>[k]) * <<>>[k].price]
<1>1. DOMAIN <<>> = {} /\ Len(<<>>) = 0
    OBVIOUS
<1>2. IsFiniteSet({}) /\ quantity \in [{} -> Int] /\ turnover \in [{} -> Int]
    BY <1>1, FS_EmptySet
<1>3. SumFunction(quantity) = 0 /\ SumFunction(turnover) = 0
    <2> HIDE DEF quantity, turnover
    <2>1. QED
        BY <1>2, SumIsZero
<1>4. Fee * 0 = 0
    BY OrderAssumption
<1>5. QED
    BY <1>1, <1>3, <1>4 DEF Balanced, Flat

LEMMA BalancedLess ==
    ASSUME NEW pos, NEW own, NEW exact \in BOOLEAN, NEW less \in BOOLEAN, less => exact,
           Balanced(pos, own, exact)
    PROVE  Balanced(pos, own, less)
BY DEF Balanced

\* The fills of some numbers: those behind a position.
LEMMA FillsOfType ==
    ASSUME NEW made \in Seq(Fill), NEW numbers \in Seq(Nat), ToSet(numbers) \subseteq 1..Len(made)
    PROVE  /\ FillsOf(numbers, made) \in Seq(Fill)
           /\ DOMAIN FillsOf(numbers, made) = DOMAIN numbers
           /\ \A k \in DOMAIN numbers : numbers[k] \in 1..Len(made)
<1> DEFINE n == Len(numbers)
           own == FillsOf(numbers, made)
<1>1. n \in Nat /\ DOMAIN numbers = 1..n /\ Len(made) \in Nat
    BY LenProperties
<1>2. \A k \in DOMAIN numbers : numbers[k] \in 1..Len(made)
    BY DEF ToSet
<1>3. \A k \in 1..Len(made) : made[k] \in Fill
    BY ElementOfSeq
<1>4. own \in [1..n -> Fill]
    BY <1>1, <1>2, <1>3 DEF FillsOf
<1>5. own \in Seq(Fill)
    <2> HIDE DEF own, n
    <2>1. QED
        BY <1>1, <1>4, SeqDef
<1>6. QED
    BY <1>1, <1>2, <1>4, <1>5

LEMMA FillsOfAppend ==
    ASSUME NEW made \in Seq(Fill), NEW numbers \in Seq(Nat), ToSet(numbers) \subseteq 1..Len(made),
           NEW m \in 1..Len(made)
    PROVE  FillsOf(Append(numbers, m), made) = Append(FillsOf(numbers, made), made[m])
<1> DEFINE more == Append(numbers, m)
           own == FillsOf(numbers, made)
           longer == Append(own, made[m])
           n == Len(numbers)
<1>1. /\ own \in Seq(Fill) /\ DOMAIN own = DOMAIN numbers
      /\ n \in Nat /\ DOMAIN numbers = 1..n /\ m \in Nat /\ made[m] \in Fill
    BY FillsOfType, LenProperties, ElementOfSeq
<1>2. /\ DOMAIN more = 1..(n + 1) /\ more[n + 1] = m
      /\ \A k \in 1..n : more[k] = numbers[k]
    <2>1. more \in Seq(Nat) /\ Len(more) = n + 1
        BY <1>1, AppendProperties
    <2>2. QED
        BY <1>1, <2>1, LenProperties, AppendProperties
<1>3. /\ longer \in Seq(Fill) /\ DOMAIN longer = 1..(n + 1) /\ longer[n + 1] = made[m]
      /\ \A k \in 1..n : longer[k] = own[k]
    <2>1. Len(own) = n
        BY <1>1, LenProperties
    <2> HIDE DEF own
    <2>2. longer \in Seq(Fill) /\ Len(longer) = n + 1
        BY <1>1, <2>1, AppendProperties
    <2>3. QED
        BY <1>1, <2>1, <2>2, LenProperties, AppendProperties
<1>4. FillsOf(more, made) = [k \in 1..(n + 1) |-> made[more[k]]]
    BY <1>2 DEF FillsOf
<1>5. \A k \in 1..n : own[k] = made[numbers[k]]
    BY <1>1 DEF FillsOf
<1>6. \A k \in 1..(n + 1) : made[more[k]] = longer[k]
    <2> SUFFICES ASSUME NEW k \in 1..(n + 1) PROVE made[more[k]] = longer[k]
        OBVIOUS
    <2> HIDE DEF more, own, longer, n
    <2>1. CASE k = n + 1
        BY <1>2, <1>3, <2>1
    <2>2. CASE k # n + 1
        <3>1. k \in 1..n
            BY <1>1, <2>2
        <3>2. QED
            BY <1>2, <1>3, <1>5, <3>1
    <2>3. QED
        BY <2>1, <2>2
<1>7. longer = [k \in 1..(n + 1) |-> longer[k]]
    <2> HIDE DEF longer
    <2>1. QED
        BY <1>3
<1>8. QED
    <2> HIDE DEF more, longer
    <2>1. FillsOf(more, made) = longer
        BY <1>4, <1>6, <1>7
    <2>2. QED
        BY <2>1 DEF more, longer

\* More fills made do not change those of earlier numbers.
LEMMA FillsOfMore ==
    ASSUME NEW made \in Seq(Fill), NEW more, \A n \in 1..Len(made) : more[n] = made[n],
           NEW numbers \in Seq(Nat), ToSet(numbers) \subseteq 1..Len(made)
    PROVE  FillsOf(numbers, more) = FillsOf(numbers, made)
<1>1. \A k \in DOMAIN numbers : numbers[k] \in 1..Len(made)
    BY FillsOfType
<1>2. QED
    BY <1>1 DEF FillsOf
----
(***************************************************************************)
(* The books balance in memory and in Redis alike, whence a restart takes  *)
(* them up.                                                                *)
(***************************************************************************)
CostOK ==
    /\ rounded \in BOOLEAN
    /\ \A i \in Instruments : /\ Balanced(book[i], FillsOf(applied[i], fills), ~rounded)
                               /\ Balanced(redis.book[i], FillsOf(saved[i], fills), ~rounded)

CostInv == SessionInv /\ CostOK

\* The numbers behind a position are of fills that were made.
LEMMA BehindType ==
    ASSUME BookInv, NEW i \in Instruments
    PROVE  /\ fills \in Seq(Fill) /\ Number = Len(fills)
           /\ applied[i] \in Seq(Nat) /\ ToSet(applied[i]) \subseteq 1..Len(fills)
           /\ saved[i] \in Seq(Nat) /\ ToSet(saved[i]) \subseteq 1..Len(fills)
<1>1. applied[i] \in Seq(Nat) /\ saved[i] \in Seq(Nat) /\ fills \in Seq(Fill)
    BY DEF BookInv, TypesInv
<1>2. \A n \in ToSet(applied[i]) \cup ToSet(saved[i]) : n \in Nat
    BY <1>1, ToSetNat
<1>3. QED
    BY <1>1, <1>2 DEF BookInv, OwnFills, Behind, SavedBehind, Number

(***************************************************************************)
(* Every step but ApplyFill copies positions with the fills behind them,   *)
(* or leaves a flat one with none.                                         *)
(***************************************************************************)
LEMMA CopiedCost ==
    ASSUME CostInv, rounded' = rounded, \A n \in 1..Number : fills'[n] = fills[n],
           \A i \in Instruments :
                /\ \/ book'[i] = book[i] /\ applied'[i] = applied[i]
                   \/ book'[i] = redis.book[i] /\ applied'[i] = saved[i]
                   \/ book'[i] = Flat /\ applied'[i] = <<>>
                /\ \/ redis'.book[i] = redis.book[i] /\ saved'[i] = saved[i]
                   \/ redis'.book[i] = book[i] /\ saved'[i] = applied[i]
    PROVE  CostOK'
<1>1. rounded \in BOOLEAN /\ (~rounded) \in BOOLEAN
    BY DEF CostInv, CostOK
<1> SUFFICES ASSUME NEW i \in Instruments
             PROVE  /\ Balanced(book'[i], FillsOf(applied'[i], fills'), ~rounded)
                    /\ Balanced(redis'.book[i], FillsOf(saved'[i], fills'), ~rounded)
    BY <1>1 DEF CostOK
<1>2. FillsOf(applied[i], fills') = FillsOf(applied[i], fills) /\ FillsOf(saved[i], fills') = FillsOf(saved[i], fills)
    BY BehindType, FillsOfMore DEF CostInv, SessionInv
<1>3. FillsOf(<<>>, fills') = <<>>
    BY DEF FillsOf
<1>4. Balanced(Flat, <<>>, ~rounded)
    BY <1>1, BalancedNone
<1>5. /\ Balanced(book[i], FillsOf(applied[i], fills), ~rounded)
      /\ Balanced(redis.book[i], FillsOf(saved[i], fills), ~rounded)
    BY DEF CostInv, CostOK
<1>6. Balanced(book'[i], FillsOf(applied'[i], fills'), ~rounded)
    <2>1. CASE book'[i] = book[i] /\ applied'[i] = applied[i]
        BY <1>2, <1>5, <2>1
    <2>2. CASE book'[i] = redis.book[i] /\ applied'[i] = saved[i]
        BY <1>2, <1>5, <2>2
    <2>3. CASE book'[i] = Flat /\ applied'[i] = <<>>
        BY <1>3, <1>4, <2>3
    <2>4. QED
        BY <2>1, <2>2, <2>3
<1>7. Balanced(redis'.book[i], FillsOf(saved'[i], fills'), ~rounded)
    BY <1>2, <1>5
<1>8. QED
    BY <1>6, <1>7

\* A fill is worked into the position of its instrument, and joins those behind it.
LEMMA ApplyCost ==
    ASSUME CostInv, ApplyFill
    PROVE  CostOK'
<1> DEFINE own == This.instrument
           whole == StaysWhole(book[own], This)
<1>1. /\ pc = "apply" /\ fills' = fills /\ redis' = redis /\ saved' = saved
      /\ book' = [book EXCEPT ![own] = AfterFill(@, This)]
      /\ applied' = [applied EXCEPT ![own] = Append(@, Number)]
      /\ rounded' = (rounded \/ ~whole)
    BY DEF ApplyFill, disk
<1>2. BookInv /\ Number \in Nat /\ Number \in 1..Number /\ This \in Fill /\ own \in Instruments
    BY <1>1, NumberType DEF CostInv, SessionInv, BookInv
<1>3. book \in [Instruments -> Position] /\ applied \in [Instruments -> Seq(Nat)]
    BY DEF CostInv, SessionInv, AmountsInv, BookInv, TypesInv
<1>4. rounded \in BOOLEAN /\ whole \in BOOLEAN
    BY DEF CostInv, CostOK, StaysWhole
<1>5. /\ rounded' \in BOOLEAN /\ (~rounded) \in BOOLEAN /\ (~rounded') \in BOOLEAN
      /\ ~rounded' <=> ~rounded /\ whole
    BY <1>1, <1>4
<1> SUFFICES ASSUME NEW i \in Instruments
             PROVE  /\ Balanced(book'[i], FillsOf(applied'[i], fills), ~rounded')
                    /\ Balanced(redis.book[i], FillsOf(saved[i], fills), ~rounded')
    BY <1>1, <1>5 DEF CostOK
<1>6. /\ Balanced(book[i], FillsOf(applied[i], fills), ~rounded)
      /\ Balanced(redis.book[i], FillsOf(saved[i], fills), ~rounded)
    BY DEF CostInv, CostOK
<1> HIDE DEF whole
<1>7. Balanced(redis.book[i], FillsOf(saved[i], fills), ~rounded')
    BY <1>5, <1>6, BalancedLess
<1>8. CASE i # own
    <2>1. book'[i] = book[i] /\ applied'[i] = applied[i]
        BY <1>1, <1>3, <1>8
    <2>2. Balanced(book[i], FillsOf(applied[i], fills), ~rounded')
        BY <1>5, <1>6, BalancedLess
    <2>3. QED
        BY <1>7, <2>1, <2>2
<1>9. CASE i = own
    <2>1. book'[i] = AfterFill(book[i], This) /\ applied'[i] = Append(applied[i], Number)
        BY <1>1, <1>3, <1>9
    <2>2. /\ fills \in Seq(Fill) /\ Number \in 1..Len(fills) /\ This = fills[Number]
          /\ applied[i] \in Seq(Nat) /\ ToSet(applied[i]) \subseteq 1..Len(fills)
        BY <1>2, BehindType DEF This
    <2>3. FillsOf(applied'[i], fills) = Append(FillsOf(applied[i], fills), This)
        BY <2>1, <2>2, FillsOfAppend
    <2>4. FillsOf(applied[i], fills) \in Seq(Fill) /\ book[i] \in Position
        BY <1>3, <2>2, FillsOfType
    <2>5. Balanced(AfterFill(book[i], This), Append(FillsOf(applied[i], fills), This),
                   ~rounded /\ StaysWhole(book[i], This))
        BY <1>2, <1>5, <1>6, <2>4, BalancedFill
    <2>6. (~rounded /\ StaysWhole(book[i], This)) \in BOOLEAN
        OBVIOUS
    <2>7. ~rounded' => ~rounded /\ StaysWhole(book[i], This)
        BY <1>5, <1>9 DEF whole
    <2>8. Balanced(AfterFill(book[i], This), Append(FillsOf(applied[i], fills), This), ~rounded')
        BY <1>5, <2>5, <2>6, <2>7, BalancedLess
    <2>9. QED
        BY <1>7, <2>1, <2>3, <2>8
<1>10. QED
    BY <1>8, <1>9

LEMMA InitCost == Init => CostInv
<1> SUFFICES ASSUME Init PROVE CostInv
    OBVIOUS
<1>1. /\ book = [i \in Instruments |-> Flat] /\ redis = [book |-> book, session |-> 0]
      /\ applied = [i \in Instruments |-> <<>>] /\ saved = applied /\ rounded = FALSE
    BY DEF Init
<1>2. FillsOf(<<>>, fills) = <<>>
    BY DEF FillsOf
<1>3. \A i \in Instruments : /\ book[i] = Flat /\ redis.book[i] = Flat
                             /\ applied[i] = <<>> /\ saved[i] = <<>>
    BY <1>1
<1>4. Balanced(Flat, <<>>, ~rounded)
    BY <1>1, BalancedNone
<1>5. CostOK
    BY <1>1, <1>2, <1>3, <1>4 DEF CostOK
<1>6. QED
    BY <1>5, InitSessionInv DEF CostInv

\* No step but ApplyFill works out a position.
LEMMA CopyingSteps ==
    ASSUME CostInv, [Next]_vars
    PROVE  \/ ApplyFill
           \/ /\ rounded' = rounded /\ \A n \in 1..Number : fills'[n] = fills[n]
              /\ \A i \in Instruments :
                    /\ \/ book'[i] = book[i] /\ applied'[i] = applied[i]
                       \/ book'[i] = redis.book[i] /\ applied'[i] = saved[i]
                       \/ book'[i] = Flat /\ applied'[i] = <<>>
                    /\ \/ redis'.book[i] = redis.book[i] /\ saved'[i] = saved[i]
                       \/ redis'.book[i] = book[i] /\ saved'[i] = applied[i]
<1>1. BookInv
    BY DEF CostInv, SessionInv
<1>2. redis \in [book : [Instruments -> Position], session : Int] /\ saved \in [Instruments -> Seq(Nat)]
    BY DEF CostInv, SessionInv, AmountsInv, BookInv, TypesInv
<1>3. CASE \E i \in Instruments, action \in Actions, qty \in Quantities, price \in Prices :
                ExecuteOrder(i, action, qty, price)
    <2>1. \A n \in 1..Number : fills'[n] = fills[n]
        BY <1>1, <1>3, ExecuteBook
    <2>2. /\ book' = book /\ applied' = applied /\ redis' = redis /\ saved' = saved
          /\ rounded' = rounded
        BY <1>3 DEF ExecuteOrder, memory, disk, marks
    <2>3. QED
        BY <2>1, <2>2
<1>4. CASE Elsewhere
    <2>1. fills' = fills /\ applied' = applied /\ saved' = saved
        BY <1>1, <1>4, ElsewhereMoves
    <2>2. book' = book /\ rounded' = rounded /\ redis'.book = redis.book
        <3>1. CASE \E ok \in BOOLEAN : SaveSession(ok)
            BY <1>2, <3>1 DEF SaveSession, memory
        <3>2. CASE ~ \E ok \in BOOLEAN : SaveSession(ok)
            BY <1>4, <3>2 DEF Elsewhere, RejectOrder, IgnoreSignal, InsertOrder, InsertFill, Publish,
                              vars, memory, disk, marks
        <3>3. QED
            BY <3>1, <3>2
    <2>3. QED
        BY <2>1, <2>2
<1>5. CASE \E ok \in BOOLEAN : SavePosition(ok)
    <2>1. PICK ok \in BOOLEAN : SavePosition(ok)
        BY <1>5
    <2>2. fills' = fills /\ book' = book /\ applied' = applied /\ rounded' = rounded
        BY <2>1 DEF SavePosition, memory
    <2>3. CASE ok
        <3> DEFINE own == This.instrument
        <3>1. /\ redis' = [redis EXCEPT !.book[own] = book[own]]
              /\ saved' = [saved EXCEPT ![own] = applied[own]]
            BY <2>1, <2>3 DEF SavePosition
        <3> HIDE DEF own
        <3>2. \A i \in Instruments : \/ redis'.book[i] = redis.book[i] /\ saved'[i] = saved[i]
                                     \/ redis'.book[i] = book[i] /\ saved'[i] = applied[i]
            BY <1>2, <3>1
        <3>3. QED
            BY <2>2, <3>2
    <2>4. CASE ~ok
        BY <2>1, <2>2, <2>4 DEF SavePosition, disk
    <2>5. QED
        BY <2>3, <2>4
<1>6. CASE Die \/ Hydrate \/ HydrateFails
    <2>1. fills' = fills /\ redis' = redis /\ saved' = saved /\ rounded' = rounded
        BY <1>6, Zenon DEF Die, Hydrate, HydrateFails, disk, marks
    <2>2. ASSUME NEW i \in Instruments
          PROVE  \/ book'[i] = redis.book[i] /\ applied'[i] = saved[i]
                 \/ book'[i] = Flat /\ applied'[i] = <<>>
        <3>1. CASE Die
            BY <3>1 DEF Die
        <3>2. CASE Hydrate
            BY <3>2 DEF Hydrate
        <3>3. CASE HydrateFails
            <4>1. PICK read \in SUBSET Instruments :
                        /\ book' = [j \in Instruments |-> IF j \in read THEN redis.book[j] ELSE Flat]
                        /\ applied' = [j \in Instruments |-> IF j \in read THEN saved[j] ELSE <<>>]
                BY <3>3 DEF HydrateFails
            <4>2. QED
                BY <4>1
        <3>4. QED
            BY <1>6, <3>1, <3>2, <3>3
    <2>3. QED
        BY <2>1, <2>2
<1>7. QED
    BY <1>3, <1>4, <1>5, <1>6, StepKinds

LEMMA NextCost == CostInv /\ [Next]_vars => CostInv'
<1> SUFFICES ASSUME CostInv, [Next]_vars PROVE CostInv'
    OBVIOUS
<1>1. SessionInv'
    BY NextSessionInv DEF CostInv
<1>2. CostOK'
    <2>1. CASE ApplyFill
        BY <2>1, ApplyCost
    <2>2. CASE ~ApplyFill
        BY <2>2, CopyingSteps, CopiedCost
    <2>3. QED
        BY <2>1, <2>2
<1>3. QED
    BY <1>1, <1>2 DEF CostInv

(***************************************************************************)
(* Average-cost accounting balances: over openings, additions, partial     *)
(* closes, turns and restarts, a position is the sum of the fills behind   *)
(* it, its profit is the cash they brought, less their fees, plus the cost *)
(* of what is still open, as long as no average was rounded, and its       *)
(* average lies between the prices of two of them (book.py:75-119).        *)
(***************************************************************************)
THEOREM BooksBalance == Spec => []CostBasis
<1>1. CostInv => CostBasis
    BY DEF CostInv, CostOK, CostBasis
<1>2. QED
    BY <1>1, InitCost, NextCost, PTL DEF Spec
====
