-------------------------- MODULE MCBranchOperations --------------------------
(* Instances of BranchOperations for TLC. *)
EXTENDS BranchOperations, TLC

CONSTANTS main, b1, b2, i1, w1, w2

AnyOther == [i \in Issue |-> Branch \ {Main}]
Symmetry == Permutations(Worker) \cup Permutations(Branch \ {Main})
===============================================================================
