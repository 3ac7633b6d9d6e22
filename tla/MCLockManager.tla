------------------------------ MODULE MCLockManager ------------------------------
(* Instances of LockManager for TLC. *)
EXTENDS LockManager, TLC

\* Requests over three keys: overlapping, in both modes, with a duplicate key.
S(k) == [key |-> k, mode |-> "shared"]
X(k) == [key |-> k, mode |-> "exclusive"]
MixedRequests == {{S(1), X(2)}, {X(1)}, {S(2), X(2), S(3)}, {S(1), S(3)}}
Symmetry == Permutations(Client) \cup Permutations(Entry)
==================================================================================
