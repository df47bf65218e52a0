---- MODULE MCClusterManager ----
(* One cluster; accounts are numbered in the order they are created. *)
EXTENDS ClusterManager
====
