-------------------------------- MODULE KeyLocks --------------------------------
(***************************************************************************)
(* What the process-wide lock manager promises: one readers-writer lock    *)
(* per key, whether or not anybody uses it, and an Acquire that takes the  *)
(* keys of its request in ascending order.                                 *)
(***************************************************************************)
EXTENDS LockCalls

ASSUME KeyLocksAssumption ==
    /\ Key \subseteq Nat
    /\ NoClient \notin Client
    /\ Requests \subseteq SUBSET [key : Key, mode : Mode]

VARIABLE lock   \* the lock of each key

vars == <<pc, want, lock>>

\* One entry per key, in the strongest mode any request asks for.
Strongest(R) ==
    [k \in {r.key : r \in R} |->
        IF [key |-> k, mode |-> "exclusive"] \in R THEN "exclusive" ELSE "shared"]
NoWants == Strongest({})

Init ==
    /\ pc = [c \in Client |-> "idle"]
    /\ want = [c \in Client |-> NoWants]
    /\ lock = [k \in Key |-> Unlocked]

Acquire(c, R) ==
    /\ pc[c] = "idle"
    /\ R # {}
    /\ Goto(c, "locking")
    /\ want' = [want EXCEPT ![c] = Strongest(R)]
    /\ UNCHANGED lock

LockNext(c, k) ==
    /\ pc[c] = "locking"
    /\ k \in Wanted(c)
    /\ \A l \in Wanted(c) : l < k => Inside(lock[l], c, want[c][l])
    /\ ~Requested(lock[k], c)
    /\ MayRequest(lock[k], want[c][k])
    /\ lock' = [lock EXCEPT ![k] = AfterRequest(@, c, want[c][k])]
    /\ UNCHANGED <<pc, want>>

Return(c) ==
    /\ pc[c] = "locking"
    /\ \A k \in Wanted(c) : Inside(lock[k], c, want[c][k])
    /\ Goto(c, "held")
    /\ UNCHANGED <<want, lock>>

Release(c) ==
    /\ pc[c] = "held"
    /\ Goto(c, "releasing")
    /\ UNCHANGED <<want, lock>>

UnlockNext(c, k) ==
    /\ pc[c] = "releasing"
    /\ k \in Wanted(c)
    /\ Requested(lock[k], c)
    /\ \A l \in Wanted(c) : l > k => ~Requested(lock[l], c)
    /\ lock' = [lock EXCEPT ![k] = AfterUnlock(@, c, want[c][k])]
    /\ UNCHANGED <<pc, want>>

Done(c) ==
    /\ pc[c] = "releasing"
    /\ \A k \in Wanted(c) : ~Requested(lock[k], c)
    /\ Goto(c, "idle")
    /\ want' = [want EXCEPT ![c] = NoWants]
    /\ UNCHANGED lock

Step(c) ==
    \/ \E k \in Key : LockNext(c, k) \/ UnlockNext(c, k)
    \/ Return(c) \/ Release(c) \/ Done(c)

Next == \E c \in Client : Step(c) \/ \E R \in Requests : Acquire(c, R)

Spec == Init /\ [][Next]_vars
=================================================================================
