---- MODULE MCOutboxRelay ----
(***************************************************************************)
(* Instances of OutboxRelay for TLC.  Workers are interchangeable, events  *)
(* are not: they are claimed in order.                                     *)
(***************************************************************************)
EXTENDS OutboxRelay, TLC

Interchangeable == Permutations(Worker)
====
