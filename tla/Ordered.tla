------------------------------- MODULE Ordered ------------------------------
(***************************************************************************)
(* What a filter leaves of a list, as the indices of what it leaves.  The  *)
(* loops of the terminal UI that collect them are SelectSeq; this form of  *)
(* it can be reasoned about.                                               *)
(***************************************************************************)
EXTENDS Integers, FiniteSets

(* How many of S come before i, and the elements of S in ascending order.  *)
Before(S, i) == Cardinality({j \in S : j < i})
InOrder(S) ==
  [n \in 1..Cardinality(S) |-> CHOOSE i \in S : Before(S, i) = n - 1]
=============================================================================
