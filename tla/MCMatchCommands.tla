---- MODULE MCMatchCommands ----
(***************************************************************************)
(* Instances of MatchCommands for TLC.  Requests are interchangeable, and  *)
(* so are the keys and the results.                                        *)
(***************************************************************************)
EXTENDS MatchCommands, TLC

Interchangeable ==
  Permutations(Request) \cup Permutations(Key) \cup Permutations(Result)
====
