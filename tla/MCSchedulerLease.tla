---- MODULE MCSchedulerLease ----
(***************************************************************************)
(* Instances of SchedulerLease for TLC.  Replicas are interchangeable, and *)
(* so are the ticks of one replica.                                        *)
(***************************************************************************)
EXTENDS SchedulerLease, TLC

Interchangeable == Permutations(Replica) \cup Permutations(Slot)
====
