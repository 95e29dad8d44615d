---- MODULE MCEmailDelivery ----
(***************************************************************************)
(* Instances of EmailDelivery for TLC.  Workers are interchangeable.       *)
(***************************************************************************)
EXTENDS EmailDelivery, TLC

Interchangeable == Permutations(Worker)
====
