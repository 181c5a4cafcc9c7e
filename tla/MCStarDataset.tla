----------------------------- MODULE MCStarDataset -----------------------------
(* Small instances of StarDataset for TLC. *)
EXTENDS StarDataset, TLC
CONSTANTS k1, k2, va, vb, ve, lz4, gzip, main, copy

\* An array and a codec: every pair but the empty array has a size of its own,
\* so that a change of value or of codec moves what follows it.
MCWeight ==
  [v \in Data |->
     [c \in Codecs |->
        CASE v = ve -> 0
          [] v = va -> IF c = lz4 THEN 2 ELSE 1
          [] v = vb -> IF c = lz4 THEN 5 ELSE 3
          [] OTHER  -> IF c = lz4 THEN 7 ELSE 6]]
\* Index entries that lie about the file: each key at the place of the only or of
\* the first of two arrays, or with blocks and no bytes.
MCMisreads ==
  {[key |-> k, dirty |-> FALSE, data |-> Unloaded, pos |-> at[1], size |-> at[2],
    codec |-> lz4, blocks |-> TRUE] : k \in Keys, at \in {<<3, 2>>, <<4, 2>>, <<4, 0>>}}
\* The fault runs: one of the two files at a time, and no more entries than keys
\* (a misread index may have a key twice).
MCOneFile == disk[main] = Absent \/ disk[copy] = Absent
MCTwoEntries == Len(entries) <= 2
\* save_as: two arrays while there is no copy, one in the presence of a copy.
MCOneArrayBesideCopy ==
  \/ disk[copy] = Absent
  \/ Len(entries) <= 1 /\ \A p \in Paths : disk[p] = Absent \/ Len(disk[p].stored) <= 1
\* The keys are interchangeable.
MCSymmetry == Permutations({k1, k2})
================================================================================
