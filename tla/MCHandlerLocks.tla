------------------------------ MODULE MCHandlerLocks ------------------------------
(* Instances of HandlerLocks for TLC. *)
EXTENDS HandlerLocks, TLC

AllCalls == Handler \X (1 .. MaxDepth)
RequestsOfPlans ==
    {Exclusive({job}) : job \in Jobs}
    \cup {x.requests : x \in UNION {{P[i] : i \in 1 .. Len(P)} : P \in Plans}}

ASSUME HandlerLocksAssumption
===================================================================================
