---- MODULE MCScalp ----
(* ScalpEngine on small instances; the cfg files give the constants. *)
EXTENDS ScalpEngine
====
