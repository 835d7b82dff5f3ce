---- MODULE MCSignals ----
(***************************************************************************)
(* StrategyGate on small instances; the cfg files give the constants.  The *)
(* instruments are interchangeable: the code never compares two of them.   *)
(***************************************************************************)
EXTENDS StrategyGate, TLC

Symmetry == Permutations(Instruments)
====
