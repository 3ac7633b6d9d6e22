-------------------------- MODULE MCControlRepository --------------------------
(* Instances of ControlRepository for TLC. *)
EXTENDS ControlRepository, TLC

CONSTANTS alice, bob, k1, w1, w2, r1, private, public

Unflagged == {FALSE}
Flagged == BOOLEAN
Writers == Permutations(Writer)
================================================================================
