---- MODULE MCCandles ----
(* CandleEngine on small instances; the cfg files give the constants. *)
EXTENDS CandleEngine
====
