-------------------------------- MODULE MCWarmPool --------------------------------
(* Instances of WarmPool for TLC. *)
EXTENDS WarmPool, TLC

===================================================================================
