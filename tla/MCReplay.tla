---- MODULE MCReplay ----
(***************************************************************************)
(* Instance for model checking: two timeframes, the wider a multiple of    *)
(* the narrower, and an option near one of the two spot prices only.       *)
(***************************************************************************)
EXTENDS ReplayRun

MCWidths == <<2, 4>>
====
