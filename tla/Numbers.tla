--------------------------------- MODULE Numbers ---------------------------------
(***************************************************************************)
(* What the loops of the code do with numbers: adding them up, and taking  *)
(* them in order.                                                          *)
(***************************************************************************)
EXTENDS Integers, FiniteSets, SequencesExt

Sum(s) == FoldLeft(LAMBDA x, y : x + y, 0, s)

\* The numbers of a set, from the smallest to the largest: flush() sorts the key
\* indices of a layer, and a loop over blocks or elements takes them in order.
Ascending(S) ==
  [k \in 1 .. Cardinality(S) |-> CHOOSE x \in S : Cardinality({y \in S : y < x}) = k - 1]
==================================================================================
