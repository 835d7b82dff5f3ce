---- MODULE MCChain ----
(* One contract of one index for TLC. *)
EXTENDS GreeksEngine
====
