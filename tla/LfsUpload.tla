------------------------------- MODULE LfsUpload -------------------------------
(***************************************************************************)
(* Uploads of Git LFS objects into the repositories of one root group      *)
(* (internal/lfs/lfs.go, the PUT branch of Handler.object).                *)
(*                                                                         *)
(* An upload is admitted under the group's LFS lock: it adds up what the   *)
(* group stores, and reserves room for its body.  It then receives the     *)
(* body into a staging file without any lock, locks the group's LFS key    *)
(* and its repository again, repeats every check, adds up once more and    *)
(* renames the file into the repository.                                   *)
(*                                                                         *)
(* Adding up (groupStorageUsage) is a walk over the group's directory: the *)
(* names are read first, then one repository after the other is visited.   *)
(* The locks of an upload keep other uploads of the group and changes of   *)
(* its own repository away; they are Shared for the group, so other        *)
(* repositories may be created, deleted and renamed while the walk goes on *)
(* and a push to control.git, which is Shared for the group as well, may   *)
(* set another policy: an upload works with the policy it read last.       *)
(***************************************************************************)
EXTENDS Integers, FiniteSets, FiniteSetsExt, Functions

CONSTANTS
    Handler,      \* PUT requests that may be in flight together
    Path,         \* repository names, numbers in the order a walk visits them
    First,        \* the repositories at the beginning, a set of names
    OID,          \* objects
    Size,         \* Size[o]: bytes of object o
    Policies,     \* policies an owner may set: [enabled, object, storage]
    UploadLimit,  \* maximumUploadBytes
    MaxBody,      \* bound: bytes in a request body
    None

ASSUME LfsAssumption ==
    /\ Path \subseteq Nat /\ First \subseteq Path
    /\ IsFiniteSet(Handler) /\ IsFiniteSet(Path) /\ IsFiniteSet(OID)
    /\ Size \in [OID -> 0 .. MaxBody]
    /\ \A p \in Policies : p.enabled \in BOOLEAN /\ p.object \in Nat /\ p.storage \in Nat
    /\ UploadLimit \in Nat /\ MaxBody \in Nat
    /\ None \notin Path \cup OID \cup Handler /\ \A objects \in SUBSET OID : None # objects

VARIABLES
    policy,    \* the LFS policy at the tip of the group's control.git
    repos,     \* the published objects of the repository of each name, or None
    reserved,  \* processUploadReservations.bytes of the group
    lock,      \* the handler that holds the group's LFS lock, or None
    up,        \* the handlers
    ruling,    \* history: the policies in force since `lock` was taken
    upset      \* history: what may have upset the accounting: "quota", "rename"

vars == <<policy, repos, reserved, lock, up, ruling, upset>>

Chunked == -1  \* r.ContentLength of a body of unknown length
Idle == [pc |-> "idle", path |-> None, oid |-> None, length |-> Chunked, policy |-> None,
         limit |-> 0, hold |-> 0, staged |-> 0, left |-> {}, usage |-> 0]

Exists(p) == repos[p] # None
Bytes(S) == SumFunctionOnSet(Size, S)
Stored == [p \in Path |-> IF Exists(p) THEN Bytes(repos[p]) ELSE 0]
Usage == SumFunctionOnSet(Stored, Path)

Upload ==
    [pc : {"idle", "arrived", "admission", "staging", "received",
           "publication", "cleanup", "removing", "releasing"},
     path : Path \cup {None}, oid : OID \cup {None},
     length : {Chunked} \cup 0 .. MaxBody, policy : Policies \cup {None},
     limit : Nat, hold : Nat,
     staged : 0 .. MaxBody, left : SUBSET Path, usage : Nat]

TypeOK ==
    /\ policy \in Policies
    /\ repos \in [Path -> {None} \cup SUBSET OID]
    /\ reserved \in Nat
    /\ upset \subseteq {"quota", "rename"}
    /\ ruling \subseteq Policies
    /\ lock \in Handler \cup {None}
    /\ up \in [Handler -> Upload]

Init ==
    /\ policy \in Policies /\ policy.enabled
    /\ repos = [p \in Path |-> IF p \in First THEN {} ELSE None]
    /\ reserved = 0
    /\ lock = None
    /\ up = [h \in Handler |-> Idle]
    /\ ruling = {}
    /\ upset = {}

Set(h, r) == up' = [up EXCEPT ![h] = r]
GiveUp(h) ==
    Set(h, [up[h] EXCEPT !.pc = "removing", !.policy = None, !.left = {}, !.usage = 0])
Lock(h) == lock = None /\ lock' = h /\ ruling' = {policy}
Unlock(h) == lock = h /\ lock' = None /\ ruling' = {}
LockKept == UNCHANGED <<lock, ruling>>

Unlimited(n) == n = 0
Fits(n, limit) == Unlimited(limit) \/ n <= limit

-----------------------------------------------------------------------------
(* groupStorageUsage *)

\* The directory is read once, at the beginning of the walk; without a quota
\* there is none.
StartWalk(h, pc, read) ==
    Set(h, [up[h] EXCEPT !.pc = pc, !.policy = read, !.usage = 0,
              !.left = IF Unlimited(read.storage) THEN {} ELSE {p \in Path : Exists(p)}])

\* The next name read is visited; a repository that is no longer there under
\* that name counts nothing.
Walk(h) ==
    /\ up[h].left # {}
    /\ LET p == Min(up[h].left)
       IN  Set(h, [up[h] EXCEPT !.left = @ \ {p}, !.usage = @ + Stored[p]])
    /\ LockKept /\ UNCHANGED <<policy, repos, reserved>>

Walked(h) == up[h].left = {}

-----------------------------------------------------------------------------
(* The PUT handler. *)

\* The checks without a lock.
Arrive(h) ==
    /\ up[h].pc = "idle" /\ policy.enabled
    /\ \E p \in Path, o \in OID, n \in {Chunked} \cup 0 .. MaxBody :
        /\ Fits(n, policy.object) /\ Fits(n, policy.storage)
        /\ Set(h, [Idle EXCEPT !.pc = "arrived", !.path = p, !.oid = o, !.length = n])
    /\ LockKept /\ UNCHANGED <<policy, repos, reserved>>

StageLimit(read) ==
    IF Unlimited(read.object) THEN UploadLimit ELSE Min({UploadLimit, read.object})

\* The LFS lock, the policy again; a group without quota reserves nothing.
Admit(h) ==
    /\ up[h].pc = "arrived" /\ lock = None
    /\ \/ /\ ~policy.enabled \/ up[h].length > StageLimit(policy)
          /\ Set(h, Idle) /\ LockKept
       \/ /\ policy.enabled /\ up[h].length <= StageLimit(policy)
          /\ IF Unlimited(policy.storage)
             THEN /\ Set(h, [up[h] EXCEPT !.pc = "staging", !.policy = policy,
                                          !.limit = StageLimit(policy)])
                  /\ LockKept
             ELSE StartWalk(h, "admission", policy) /\ Lock(h)
    /\ UNCHANGED <<policy, repos, reserved>>

\* Mutant: uploads that are still being received are not counted.
AvailableUnreserved(quota, usage) == IF usage < quota THEN quota - usage ELSE 0
\* uploadReservations.reserve
Available(quota, usage) ==
    IF usage + reserved < quota THEN quota - usage - reserved ELSE 0

\* The policy is the one of Admit, whatever it has become during the walk.
Reserve(h) ==
    LET available == Available(up[h].policy.storage, up[h].usage)
        n == IF up[h].length = Chunked THEN Min({StageLimit(up[h].policy), available})
             ELSE up[h].length
    IN  /\ up[h].pc = "admission" /\ Walked(h) /\ Unlock(h)
        /\ IF n > available
           THEN Set(h, Idle) /\ UNCHANGED reserved
           ELSE /\ Set(h, [up[h] EXCEPT !.pc = "staging", !.limit = n, !.hold = n,
                                        !.usage = 0])
                /\ reserved' = reserved + n
        /\ UNCHANGED <<policy, repos>>

\* groupStorageUsage could not read a directory.
AdmitFails(h) ==
    /\ up[h].pc = "admission" /\ Unlock(h)
    /\ Set(h, Idle)
    /\ UNCHANGED <<policy, repos, reserved>>

\* stageUpload copies at most limit bytes of the body, however long it is.
Receive(h) ==
    /\ up[h].pc = "staging"
    /\ \E n \in 0 .. MaxBody :
        /\ up[h].length \in {Chunked, n}
        /\ Set(h, [up[h] EXCEPT !.staged = Min({n, up[h].limit}),
                !.pc = IF n <= up[h].limit /\ n = Size[up[h].oid]
                       THEN "received" ELSE "removing"])
    /\ LockKept /\ UNCHANGED <<policy, repos, reserved>>

\* The client disconnects, or the file cannot be written.
ReceiveFails(h) ==
    /\ up[h].pc = "staging"
    /\ \E n \in 0 .. MaxBody :
        n <= up[h].limit /\ Set(h, [up[h] EXCEPT !.staged = n, !.pc = "removing"])
    /\ LockKept /\ UNCHANGED <<policy, repos, reserved>>

\* Mutant: what was read at admission is used to publish.
PolicyOfAdmission(h) == up[h].policy
\* h.policy, once more after the body was received.
CurrentPolicy(h) == policy

Admissible(h, read) ==
    read.enabled /\ Exists(up[h].path) /\ Fits(up[h].staged, read.object)

\* The repository's Shared lock and the LFS lock, and every check again.
\* publishUpload: an object that is there already needs no room.
Locked(h) ==
    LET read == CurrentPolicy(h)
    IN  /\ up[h].pc = "received" /\ lock = None
        /\ \/ ~Admissible(h, read) /\ GiveUp(h) /\ LockKept /\ UNCHANGED reserved
           \/ /\ Admissible(h, read) /\ up[h].oid \in repos[up[h].path]
              /\ Set(h, [up[h] EXCEPT !.pc = "cleanup", !.policy = None, !.hold = 0])
              /\ reserved' = reserved - up[h].hold /\ LockKept
           \/ /\ Admissible(h, read) /\ up[h].oid \notin repos[up[h].path]
              /\ StartWalk(h, "publication", read) /\ Lock(h) /\ UNCHANGED reserved
        /\ UNCHANGED <<policy, repos>>

\* Authorization was withdrawn while the body was received.
Forbidden(h) ==
    /\ up[h].pc = "received" /\ lock = None
    /\ GiveUp(h)
    /\ LockKept /\ UNCHANGED <<policy, repos, reserved>>

Roomy(h) == Fits(up[h].usage + up[h].staged, up[h].policy.storage)

\* The file is renamed and the reservation returned before the lock is.
Publish(h) ==
    /\ up[h].pc = "publication" /\ Walked(h) /\ Roomy(h) /\ Unlock(h)
    /\ repos' = [repos EXCEPT ![up[h].path] = @ \cup {up[h].oid}]
    /\ reserved' = reserved - up[h].hold
    /\ Set(h, Idle)
    /\ UNCHANGED policy

\* No room any more, or a directory cannot be read, or the file not renamed.
PublishFails(h) ==
    /\ up[h].pc = "publication" /\ Unlock(h)
    /\ GiveUp(h)
    /\ UNCHANGED <<policy, repos, reserved>>

\* Deferred calls: the lock has been returned, the staging file is removed ...
Remove(h) ==
    /\ up[h].pc \in {"removing", "cleanup"}
    /\ Set(h, [up[h] EXCEPT !.staged = 0, !.pc = "releasing"])
    /\ LockKept /\ UNCHANGED <<policy, repos, reserved>>

\* Mutant: the reservation is returned only after publication.
ReleaseNothing(h) ==
    /\ up[h].pc = "releasing" /\ Set(h, Idle)
    /\ LockKept /\ UNCHANGED <<policy, repos, reserved>>
\* ... and then its reservation is returned, once.
Release(h) ==
    /\ up[h].pc = "releasing"
    /\ reserved' = reserved - up[h].hold
    /\ Set(h, Idle)
    /\ LockKept /\ UNCHANGED <<policy, repos>>

-----------------------------------------------------------------------------
(* What else happens in the group. *)

\* An owner's push to control.git, which locks the group in Shared mode and the
\* control repository: no lock of an upload delays it.  (The settings form has the
\* group's Exclusive lock; what it does is what a push does while `lock` is free.)
SetPolicy ==
    /\ policy' \in Policies \ {policy}
    /\ ruling' = IF lock = None THEN {} ELSE ruling \cup {policy'}
    /\ upset' = IF policy'.storage # policy.storage THEN upset \cup {"quota"} ELSE upset
    /\ UNCHANGED <<repos, reserved, lock, up>>

\* A repository under an upload's Shared lock stays as it is.
Held(p) == \E h \in Handler : up[h].pc = "publication" /\ up[h].path = p

CreateRepository(p) ==
    /\ ~Exists(p) /\ repos' = [repos EXCEPT ![p] = {}]
    /\ LockKept /\ UNCHANGED <<policy, reserved, up>>
DeleteRepository(p) ==
    /\ Exists(p) /\ ~Held(p) /\ repos' = [repos EXCEPT ![p] = None]
    /\ LockKept /\ UNCHANGED <<policy, reserved, up>>
\* A walk misses a repository that leaves a name it has still to visit.
RenameRepository(p, q) ==
    /\ Exists(p) /\ ~Exists(q) /\ ~Held(p)
    /\ repos' = [repos EXCEPT ![q] = repos[p], ![p] = None]
    /\ upset' = IF \E h \in Handler : p \in up[h].left THEN upset \cup {"rename"} ELSE upset
    /\ LockKept /\ UNCHANGED <<policy, reserved, up>>

Serve(h) ==
    \/ Arrive(h) \/ Admit(h) \/ Walk(h) \/ Reserve(h) \/ AdmitFails(h) \/ Receive(h)
    \/ ReceiveFails(h) \/ Locked(h) \/ Forbidden(h) \/ Publish(h)
    \/ PublishFails(h) \/ Remove(h) \/ Release(h)

Next ==
    \/ (\E h \in Handler : Serve(h)) /\ UNCHANGED upset
    \/ SetPolicy
    \/ (\E p \in Path : CreateRepository(p) \/ DeleteRepository(p)) /\ UNCHANGED upset
    \/ \E p, q \in Path : RenameRepository(p, q)

Spec == Init /\ [][Next]_vars

-----------------------------------------------------------------------------
(* Properties. *)

\* "maximumStorageBytes limits aggregate LFS storage across all repositories in
\* the root group and every subgroup" (README.md): what is published and every
\* file that an unanswered upload has in the staging directory fit the quota
\* together, however many bodies arrive at the same time, until the quota is
\* changed or a repository is renamed past groupStorageUsage.  (An upload of an
\* object that was published meanwhile is answered before its file is removed.)
StagingWithinQuota ==
    LET staged == [h \in Handler |-> up[h].staged]
        open == {h \in Handler : up[h].pc # "cleanup"}
    IN  upset = {} => Fits(Usage + SumFunctionOnSet(staged, open), policy.storage)

\* Every reservation is returned exactly once, whichever way the upload ends
\* and however the policy changed meanwhile: nothing reserved remains when no
\* upload is under way, and the count never falls short of the open ones.
ReservationsReturned ==
    reserved = SumFunctionOnSet([h \in Handler |-> up[h].hold], Handler)

\* An object is published only as one policy allows that was in force after the
\* upload took the locks it publishes under, never as the one it was admitted
\* under while its body was still to come.  All three limits come from the same
\* policy, and what is stored then fits its quota although the walk is no
\* snapshot.  (A push to control.git between h.policy and os.Rename comes too late
\* for this upload, so it need not be the policy of the very moment.)
PublishedUnderPolicy ==
    [][(\E h \in Handler : Publish(h)) =>
         \E read \in ruling :
            /\ read.enabled
            /\ "rename" \notin upset => Fits(Usage', read.storage)
            /\ \A p \in Path : Exists(p) =>
                 \A o \in repos'[p] \ repos[p] : Fits(Size[o], read.object)]_vars
================================================================================
