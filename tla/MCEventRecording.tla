---- MODULE MCEventRecording ----
(***************************************************************************)
(* Instances of EventRecording for TLC.                                    *)
(***************************************************************************)
EXTENDS EventRecording, TLC

Interchangeable ==
  Permutations(Request) \cup Permutations(Key) \cup Permutations(Person)
====
