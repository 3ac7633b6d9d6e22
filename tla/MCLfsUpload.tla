------------------------------ MODULE MCLfsUpload ------------------------------
(* Instances of LfsUpload for TLC. *)
EXTENDS LfsUpload, TLC

CONSTANT large

\* One copy fits the quota below, one in each of two repositories do not.
Sizes == large :> 2
Policy(enabled, object, storage) ==
    [enabled |-> enabled, object |-> object, storage |-> storage]

\* A quota; no quota but an object limit; and LFS switched off.
AnyPolicy == {Policy(TRUE, 0, 3), Policy(TRUE, 1, 0), Policy(FALSE, 0, 3)}
Symmetry == Permutations(Handler)
================================================================================
