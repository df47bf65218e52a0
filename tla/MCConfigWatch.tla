---- MODULE MCConfigWatch ----
(* One field, two requests at a time. *)
EXTENDS ConfigWatch, TLC
====
