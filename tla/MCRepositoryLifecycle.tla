------------------------- MODULE MCRepositoryLifecycle -------------------------
(* An instance of RepositoryLifecycle for TLC. *)
EXTENDS RepositoryLifecycle

CONSTANTS x, y

TwoNames == <<x, y>>
Symmetry == Permutations(Groups)
================================================================================
