---- MODULE MCSeriesLifecycle ----
(***************************************************************************)
(* Instances of SeriesLifecycle for TLC.  Requests are interchangeable,    *)
(* and so are the two sides.                                               *)
(***************************************************************************)
EXTENDS SeriesLifecycle, TLC

Interchangeable == Permutations(Request) \cup Permutations(Side)
====
