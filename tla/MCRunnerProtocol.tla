---------------------------- MODULE MCRunnerProtocol ----------------------------
(* Instances of RunnerProtocol for TLC. *)
EXTENDS RunnerProtocol, TLC

===================================================================================
