-------------------------------- MODULE MCLayers --------------------------------
(* A small instance of Layers for TLC. *)
EXTENDS Layers, TLC
CONSTANTS k1, k2, va, vb, mv, red, redk2

\* k2 is "__layer_red__:k1": the base array k2 is the array k1 of the layer.
MCStorageKey ==
  [l \in {Base, red} |-> [k \in {k1, k2} |->
     IF l = Base THEN k ELSE IF k = k1 THEN k2 ELSE redk2]]

\* The values of arrays are interchangeable.
MCSymmetry == Permutations({va, vb})

\* A bound on the arrays of a dataset; the step that exceeds it is still checked.
MCTwoArrays == Len(arrays) <= 2
================================================================================
