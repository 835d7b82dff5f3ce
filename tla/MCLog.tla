---- MODULE MCLog ----
(* WriteAheadLog on small instances; the cfg files give the constants. *)
EXTENDS WriteAheadLog
====
