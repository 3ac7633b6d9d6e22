-------------------------- MODULE MCBuildCoordinator --------------------------
(* Instances of BuildCoordinator for TLC. *)
EXTENDS BuildCoordinator, TLC

CONSTANTS p1, p2

\* 2 needs 1 and is manual.
ManualNeeds == p1 :> (1 :> {} @@ 2 :> {1})
ManualSet   == p1 :> {2}
ManualMatch == p1 :> {1, 2}

\* 1 needs 2, so that the dependant is saved before the job it needs; the
\* configuration of p2 is invalid.
PairNeeds  == [p \in {p1, p2} |-> 1 :> {2} @@ 2 :> {}]
PairManual == [p \in {p1, p2} |-> {}]
PairMatch  == p1 :> {1, 2} @@ p2 :> {}

Symmetry == Permutations(Thread)
===============================================================================
