---- MODULE MCAlerts ----
(* The feed process and one other publisher for TLC. *)
EXTENDS AlertNotifier
====
