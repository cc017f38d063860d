------------------------------ MODULE Sublists ------------------------------
(***************************************************************************)
(* What is left of a list when some of its places are kept: SelectSeq,     *)
(* without an operator and without recursion, so that it can be reasoned   *)
(* about.                                                                  *)
(***************************************************************************)
EXTENDS Integers, Sequences, FiniteSets

(* How many of the places are not behind k.                                  *)
Rank(places, k) == Cardinality({j \in places : j <= k})

(* The elements of s at these places, in their order.                        *)
Sublist(s, places) ==
  [n \in 1 .. Cardinality(places) |-> s[CHOOSE k \in places : Rank(places, k) = n]]

=============================================================================
