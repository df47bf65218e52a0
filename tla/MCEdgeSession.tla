---- MODULE MCEdgeSession ----
(* Two devices; only the first has a publish interval. *)
EXTENDS EdgeSession
====
