------------------------------- MODULE LockManager -------------------------------
(***************************************************************************)
(* The process-wide lock manager (internal/lockmgr/lockmgr.go).            *)
(*                                                                         *)
(* A key has an entry in the map `locks' only while some Acquire call      *)
(* refers to it: Acquire looks the entries up, or makes them, and counts   *)
(* its references under the manager's mutex; the calls then lock the       *)
(* entries they looked up; release unlocks them and, under the mutex       *)
(* again, drops the references and deletes the entries that have none.     *)
(***************************************************************************)
EXTENDS LockCalls, FiniteSets

CONSTANTS
    Entry,    \* *entry pointers
    NoEntry

ASSUME LockManagerAssumption ==
    /\ Key \subseteq Nat
    /\ IsFiniteSet(Client) /\ NoClient \notin Client
    /\ Requests \subseteq SUBSET [key : Key, mode : Mode]
    /\ NoEntry \notin Entry

VARIABLES
    ent,    \* `entries' of each call: the entry of each key
    locks,  \* Manager.locks
    refs,   \* entry.refs
    mutex   \* entry.mutex

mvars == <<pc, want, ent, locks, refs, mutex>>

\* Mutant: the first of two requests for a key decides.
FirstRequestWins(R) ==
    [k \in {r.key : r \in R} |->
        IF [key |-> k, mode |-> "shared"] \in R THEN "shared" ELSE "exclusive"]
\* One entry per key, Exclusive if any request says so.
normalizeRequests(R) ==
    [k \in {r.key : r \in R} |->
        IF [key |-> k, mode |-> "exclusive"] \in R THEN "exclusive" ELSE "shared"]
NoRequest == normalizeRequests({})
NoEntries == [k \in {} |-> NoEntry]

entryLock(c, k) == mutex[ent[c][k]]

NewManager ==
    /\ pc = [c \in Client |-> "idle"]
    /\ want = [c \in Client |-> NoRequest]
    /\ ent = [c \in Client |-> NoEntries]
    /\ locks = [k \in Key |-> NoEntry]
    /\ refs = [e \in Entry |-> 0]
    /\ mutex = [e \in Entry |-> Unlocked]

\* An entry nobody points to any more stands for a newly allocated one.
Unused(e) ==
    /\ \A k \in Key : locks[k] # e
    /\ \A c \in Client : \A k \in DOMAIN ent[c] : ent[c][k] # e

\* The first critical section of Acquire.
Register(c, R) ==
    /\ pc[c] = "idle"
    /\ R # {}
    /\ LET w == normalizeRequests(R)
           missing == {k \in DOMAIN w : locks[k] = NoEntry}
       IN  \E fresh \in [missing -> {e \in Entry : Unused(e)}] :
           /\ \A k, l \in missing : k # l => fresh[k] # fresh[l]
           /\ locks' = [k \in Key |-> IF k \in missing THEN fresh[k] ELSE locks[k]]
           /\ ent' = [ent EXCEPT ![c] = [k \in DOMAIN w |-> locks'[k]]]
           /\ refs' = [e \in Entry |->
                          (IF \E k \in missing : fresh[k] = e THEN 0 ELSE refs[e])
                          + (IF \E k \in DOMAIN w : locks'[k] = e THEN 1 ELSE 0)]
           /\ mutex' = [e \in Entry |->
                          IF \E k \in missing : fresh[k] = e THEN Unlocked ELSE mutex[e]]
           /\ want' = [want EXCEPT ![c] = w]
    /\ Goto(c, "locking")

LockEntry(c, k) ==
    /\ pc[c] = "locking"
    /\ k \in Wanted(c)
    /\ \A l \in Wanted(c) : l < k => Inside(entryLock(c, l), c, want[c][l])
    /\ ~Requested(entryLock(c, k), c)
    /\ MayRequest(entryLock(c, k), want[c][k])
    /\ mutex' = [mutex EXCEPT ![ent[c][k]] = AfterRequest(@, c, want[c][k])]
    /\ UNCHANGED <<pc, want, ent, locks, refs>>

AllLocked(c) ==
    /\ pc[c] = "locking"
    /\ \A k \in Wanted(c) : Inside(entryLock(c, k), c, want[c][k])
    /\ Goto(c, "held")
    /\ UNCHANGED <<want, ent, locks, refs, mutex>>

\* The release function; once.Do makes a second call do nothing.
BeginRelease(c) ==
    /\ pc[c] = "held"
    /\ Goto(c, "releasing")
    /\ UNCHANGED <<want, ent, locks, refs, mutex>>

UnlockEntry(c, k) ==
    /\ pc[c] = "releasing"
    /\ k \in Wanted(c)
    /\ Requested(entryLock(c, k), c)
    /\ \A l \in Wanted(c) : l > k => ~Requested(entryLock(c, l), c)
    /\ mutex' = [mutex EXCEPT ![ent[c][k]] = AfterUnlock(@, c, want[c][k])]
    /\ UNCHANGED <<pc, want, ent, locks, refs>>

\* The references and the map after a release that ...
DeregisterWith(c, Deleted(_), next) ==
    /\ pc[c] = "releasing"
    /\ \A k \in Wanted(c) : ~Requested(entryLock(c, k), c)
    /\ refs' = [e \in Entry |->
                   IF \E k \in Wanted(c) : ent[c][k] = e THEN refs[e] - 1 ELSE refs[e]]
    /\ locks' = [k \in Key |-> IF k \in Wanted(c) /\ Deleted(k) THEN NoEntry ELSE locks[k]]
    /\ want' = [want EXCEPT ![c] = IF next = "idle" THEN NoRequest ELSE @]
    /\ ent' = [ent EXCEPT ![c] = IF next = "idle" THEN NoEntries ELSE @]
    /\ Goto(c, next)
    /\ UNCHANGED mutex
\* Mutant: ... deletes the entries it used, whoever else uses them.
DeregisterDeletes(c) == DeregisterWith(c, LAMBDA k : TRUE, "idle")
\* Mutant: ... never deletes an entry.
DeregisterKeeps(c) == DeregisterWith(c, LAMBDA k : FALSE, "idle")
\* The second critical section.
Deregister(c) ==
    /\ pc[c] = "releasing"
    /\ \A k \in Wanted(c) : ~Requested(entryLock(c, k), c)
    /\ refs' = [e \in Entry |->
                   IF \E k \in Wanted(c) : ent[c][k] = e THEN refs[e] - 1 ELSE refs[e]]
    /\ locks' = [k \in Key |->
                   IF k \in Wanted(c) /\ refs'[ent[c][k]] = 0 THEN NoEntry ELSE locks[k]]
    /\ want' = [want EXCEPT ![c] = NoRequest]
    /\ ent' = [ent EXCEPT ![c] = NoEntries]
    /\ Goto(c, "idle")
    /\ UNCHANGED mutex

ManagerStep(c) ==
    \/ \E k \in Key : LockEntry(c, k) \/ UnlockEntry(c, k)
    \/ AllLocked(c) \/ BeginRelease(c) \/ Deregister(c)

ManagerNext == \E c \in Client : ManagerStep(c) \/ \E R \in Requests : Register(c, R)

ManagerSpec == NewManager /\ [][ManagerNext]_mvars

----------------------------------------------------------------------------------
\* Every variable keeps its type.
TypeOK ==
    /\ pc \in [Client -> {"idle", "locking", "held", "releasing"}]
    /\ want \in [Client -> UNION {[K -> Mode] : K \in SUBSET Key}]
    /\ ent \in [Client -> UNION {[K -> Entry] : K \in SUBSET Key}]
    /\ locks \in [Key -> Entry \cup {NoEntry}]
    /\ refs \in [Entry -> Nat]
    /\ mutex \in [Entry -> RWLock(Client)]

\* The call that waits or holds, and the map, always mean the same entry: no key
\* ever has two locks.
OneLockPerKey ==
    \A c \in Client : \A k \in Wanted(c) : ent[c][k] = locks[k]

\* While a call holds a key Exclusive, nobody else holds that key.
Holds(c, k) == k \in Wanted(c) /\ Inside(entryLock(c, k), c, want[c][k])
MutualExclusion ==
    \A c, d \in Client : \A k \in Key :
        c # d /\ Holds(c, k) /\ Holds(d, k) =>
            want[c][k] = "shared" /\ want[d][k] = "shared"

\* The map holds exactly the entries in use ("unused lock entries were
\* retained" is a test failure), and refs counts their users.
NoEntryLeaks ==
    /\ \A k \in Key : locks[k] # NoEntry <=> \E c \in Client : k \in Wanted(c)
    /\ \A k \in Key : locks[k] # NoEntry =>
          refs[locks[k]] = Cardinality({c \in Client : k \in Wanted(c)})

\* The map of counted entries behaves like one lock for every key.
lockOfKey == [k \in Key |-> IF locks[k] = NoEntry THEN Unlocked ELSE mutex[locks[k]]]
KL == INSTANCE KeyLocks WITH lock <- lockOfKey
ImplementsKeyLocks == KL!Spec
==================================================================================
