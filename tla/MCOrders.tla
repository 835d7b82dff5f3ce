---- MODULE MCOrders ----
(***************************************************************************)
(* OrderBook on small instances; the cfg files give the constants.  The    *)
(* instruments are interchangeable: the code never compares two of them.   *)
(***************************************************************************)
EXTENDS OrderBook

Symmetry == Permutations(Instruments)
====
