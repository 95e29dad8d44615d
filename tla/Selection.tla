------------------------------- MODULE Selection -------------------------------
(***************************************************************************)
(* Parts of a sequence, chosen by position.  SelectSeq is recursive, and   *)
(* the provers have no induction to reason about it; here the k-th element *)
(* of the part is the one at the k-th smallest of the positions.           *)
(***************************************************************************)
EXTENDS Integers, Sequences, FiniteSets

\* The k-th smallest of a finite set of numbers.
Nth(I, k) == CHOOSE i \in I : Cardinality({j \in I : j <= i}) = k

\* What s holds at the positions I, in its order.
Selected(s, I) == [k \in 1..Cardinality(I) |-> s[Nth(I, k)]]

\* A finite set of numbers, the greatest first.
Descending(I) == [k \in 1..Cardinality(I) |-> Nth(I, Cardinality(I) + 1 - k)]
================================================================================
