---------------------------- MODULE MCMergeTransaction ----------------------------
(* Instances of MergeTransaction for TLC. *)
EXTENDS MergeTransaction
===================================================================================
