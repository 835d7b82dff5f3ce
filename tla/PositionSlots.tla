---- MODULE PositionSlots ----
(***************************************************************************)
(* What the critical layer promises about the positions it holds: every    *)
(* index is a slot that is free or held, at most MaxConcurrent slots are   *)
(* held, a slot is only ever filled while it is free, and all slots are    *)
(* freed together when the process dies.  ScalpEngine is shown to          *)
(* implement this specification.                                           *)
(***************************************************************************)
EXTENDS Naturals, FiniteSets

CONSTANTS Indices, Trades, MaxConcurrent

VARIABLE held   \* the indices that hold a position, each with its trade number

Slots == [index : Indices, trade : Trades]

Init == held = {}

\* A free index takes a trade that was never held before, below the cap.
Fill(i, n) ==
    /\ \A s \in held : s.index # i
    /\ Cardinality(held) < MaxConcurrent
    /\ held' = held \cup {[index |-> i, trade |-> n]}

\* A held slot is freed.
Free(s) ==
    /\ s \in held
    /\ held' = held \ {s}

\* The process dies with every position it had in memory.
FreeAll ==
    /\ held # {}
    /\ held' = {}

Next ==
    \/ \E i \in Indices, n \in Trades : Fill(i, n)
    \/ \E s \in held : Free(s)
    \/ FreeAll

Spec == Init /\ [][Next]_held
====
