---------------------------- MODULE MCRecordStore ----------------------------
(* Instances of RecordStore for TLC. *)
EXTENDS RecordStore, TLC

CONSTANTS w1, w2, p, q

Symmetry == Permutations(Worker) \cup Permutations(Pair)
===============================================================================
