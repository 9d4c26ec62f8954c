------------------------------- MODULE Orders -------------------------------
(***************************************************************************)
(* Sorting a set: what sort_by makes of elements that all differ.          *)
(***************************************************************************)
EXTENDS Integers, FiniteSets

\* The elements of a finite set, each behind all that come before it.
InOrder(S, Before(_,_)) ==
  [i \in 1 .. Cardinality(S) |->
     CHOOSE x \in S : Cardinality({y \in S : Before(y, x)}) = i - 1]

\* A set of numbers from the least to the greatest.
Ascending(S) == InOrder(S, <)
=============================================================================
