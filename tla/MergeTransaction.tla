----------------------------- MODULE MergeTransaction -----------------------------
(***************************************************************************)
(* One merge request, from its creation to its merge, and the branches it  *)
(* is about.                                                               *)
(*                                                                         *)
(* Every handler that writes holds the repository's exclusive lock from    *)
(* its first read to its answer, so it is one action here; the exception   *)
(* is the merge itself, whose steps each leave something on disk: the      *)
(* claim, the plan, the moved target branch, the merged record.  A failure *)
(* or the end of the process between two of them leaves a claim that a     *)
(* later handler has to settle from the branches alone.                    *)
(***************************************************************************)
EXTENDS Naturals, FiniteSets

CONSTANTS
    User,           \* the principals that take part in the review
    Author,         \* the one who opened the request
    Maintainer,     \* those who may approve their own request
    Deletable,      \* the branches that are not the default one
    MaxCommit,      \* bound on the commits ever made
    MaxClaim,       \* bound on the merges ever started
    MaxFault        \* bound on the failures and restarts

ASSUME PeopleAssumption == Author \in User /\ Maintainer \subseteq User
ASSUME BoundsAssumption ==
    MaxCommit \in Nat \ {0} /\ MaxClaim \in Nat /\ MaxFault \in Nat

VARIABLES
    refs,      \* the commit of each branch
    stored,    \* the commits in the object store
    known,     \* the commits a client can have: made by one, or fetched from a branch
    made,      \* how many commits were made
    request,   \* the saved record of the merge request
    active,    \* activeMergeClaims, in the memory of the process
    claims,    \* how many claim identifiers were drawn
    merge,     \* the merge handler that holds the repository lock
    reader,    \* a reader that saw an interrupted claim before it asked for the lock
    faults,    \* failures and restarts so far
    reached    \* history: the target branch has contained the planned result

repositoryVars == <<refs, stored, known, made, reached>>
vars == <<refs, stored, known, made, request, active, claims, merge, reader, faults, reached>>

Branch == {"source", "target"}

\* A commit is the set of the commits in its history, itself included, each
\* by its number; a is an ancestor of b, or b itself, when a \subseteq b.
Commit == SUBSET (1 .. MaxCommit)
Root == {1}
NoCommit == {}   \* a missing branch, an empty field of the record

\* MergeClaimID and MergeInProgress: 0 is no claim.
Claim == 0 .. MaxClaim

Request == [state : {"none", "open", "closed", "merged"},
            head : Commit,                  \* HeadCommit
            approvals : [User -> Commit],   \* the commit each user approved
            thread : {"none", "open", "resolved"},  \* one discussion
            claim : Claim,
            claimHead : Commit,             \* MergeHeadCommit
            previous : Commit,              \* MergeTargetCommit
            result : Commit,                \* MergeResultCommit
            merged : Commit]                \* MergedCommit

NewRequest == [state |-> "none", head |-> NoCommit,
               approvals |-> [u \in User |-> NoCommit], thread |-> "none",
               claim |-> 0, claimHead |-> NoCommit, previous |-> NoCommit,
               result |-> NoCommit, merged |-> NoCommit]

\* "claimed": the claim is saved; "planned": the plan is; "updated": the target
\* is at the result; "failed" and "notApplied": the merge returned an error.
Idle == [step |-> "idle", claim |-> 0, head |-> NoCommit,
         previous |-> NoCommit, result |-> NoCommit]

Unlocked == merge.step = "idle"
Fail == faults < MaxFault /\ faults' = faults + 1

-----------------------------------------------------------------------------
(* Branch updates outside merge requests. *)

Reachable(r, c) == \E b \in Branch : r[b] # NoCommit /\ c \subseteq r[b]

\* What maintenance may leave of the object store: everything, when it is skipped
\* or finds the unreachable objects too young, or what the branches reach.
Maintained(r, objects) == {objects, {c \in objects : Reachable(r, c)}}

Contains(c, result) == result # NoCommit /\ result \subseteq c

MayDiscardObjects(b, new) ==
    refs[b] # NoCommit /\ ~(refs[b] \subseteq new)

\* A push moves a branch to a commit of the client: one it has, or a new one on
\* top of one it has.  An edit in the browser and a new branch do the same.
receivePack(b) ==
    /\ Unlocked
    /\ \E base \in known, fresh \in BOOLEAN :
           LET new == IF fresh THEN base \cup {made + 1} ELSE base
               moved == [refs EXCEPT ![b] = new]
               objects == stored \cup {c \in known : c \subseteq new} \cup {new}
           IN  /\ fresh => made < MaxCommit
               /\ new # refs[b]
               /\ refs' = moved
               /\ known' = known \cup {new}
               /\ made' = made + (IF fresh THEN 1 ELSE 0)
               /\ reached' = (reached \/ (b = "target" /\ Contains(new, request.result)))
               /\ stored' \in IF MayDiscardObjects(b, new)
                              THEN Maintained(moved, objects) ELSE {objects}
    /\ UNCHANGED <<request, active, claims, merge, reader, faults>>

\* deleteRepositoryBranch, which never runs maintenance, and a deletion by push,
\* which does.
deleteBranch(b) ==
    /\ Unlocked
    /\ b \in Deletable
    /\ refs[b] # NoCommit
    /\ refs' = [refs EXCEPT ![b] = NoCommit]
    /\ stored' \in Maintained(refs', stored)
    /\ UNCHANGED <<known, made, reached, request, active, claims, merge, reader, faults>>

\* A merge of the two branches without a merge request.
mergeRepositoryBranches ==
    /\ Unlocked
    /\ refs["source"] # NoCommit
    /\ refs["target"] # NoCommit
    /\ ~(refs["source"] \subseteq refs["target"])
    /\ LET fastForward == refs["target"] \subseteq refs["source"]
           new == IF fastForward THEN refs["source"]
                  ELSE refs["source"] \cup refs["target"] \cup {made + 1}
       IN  /\ fastForward \/ made < MaxCommit
           /\ refs' = [refs EXCEPT !["target"] = new]
           /\ stored' = stored \cup {new}
           /\ known' = known \cup {new}
           /\ made' = made + (IF fastForward THEN 0 ELSE 1)
           /\ reached' = (reached \/ Contains(new, request.result))
    /\ UNCHANGED <<request, active, claims, merge, reader, faults>>

-----------------------------------------------------------------------------
(* Recovery of a claim that no merge of this process is working on. *)

Interrupted(r) == r.claim # 0 /\ r.claim \notin active

clearMergeClaim(r) ==
    [r EXCEPT !.claim = 0, !.claimHead = NoCommit, !.previous = NoCommit, !.result = NoCommit]

\* reconcileMergeClaim cannot read the target branch or the planned result.
Unreadable(r) ==
    r.result # NoCommit /\ (refs["target"] = NoCommit \/ r.result \notin stored)

\* Mutant: takes any movement of the target for the merge.
TargetMoved(r) == r.result # NoCommit /\ refs["target"] # r.previous
\* Mutant: misses the result below later commits.
TargetIsResult(r) == r.result # NoCommit /\ r.result = refs["target"]
TargetHasResult(r) == Contains(refs["target"], r.result)

\* Nothing was planned, or the target is where the plan found it, or the update
\* of the target is known to have failed.
CanClear(r, knownHelperFailure) ==
    r.result = NoCommit \/ refs["target"] = r.previous \/ knownHelperFailure

Ambiguous(r, knownHelperFailure) ==
    ~Unreadable(r) /\ ~TargetHasResult(r) /\ ~CanClear(r, knownHelperFailure)

Settles(r, knownHelperFailure) ==
    ~Unreadable(r) /\ ~Ambiguous(r, knownHelperFailure)

Settled(r) ==
    IF TargetHasResult(r)
    THEN clearMergeClaim([r EXCEPT !.state = "merged", !.head = r.claimHead,
                                   !.merged = r.result])
    ELSE clearMergeClaim(r)

\* prepareReviewMutationWithOperationLock: the record a handler goes on with.
Recovers == Interrupted(request) => Settles(request, FALSE)
Recovered == IF Interrupted(request) THEN Settled(request) ELSE request

\* A handler of a review holds the lock, recovers the claim or gives up, and
\* changes the record or refuses and leaves it recovered.
Handler(allowed, change) ==
    /\ Unlocked
    /\ request.state # "none"
    /\ Recovers
    /\ request' = IF allowed THEN change ELSE Recovered
    /\ UNCHANGED <<repositoryVars, active, claims, merge, reader, faults>>

-----------------------------------------------------------------------------
(* The review. *)

createMergeRequest ==
    /\ Unlocked
    /\ request.state = "none"
    /\ refs["source"] # NoCommit
    /\ refs["target"] # NoCommit
    /\ ~(refs["source"] \subseteq refs["target"])   \* ahead > 0
    /\ request' = [NewRequest EXCEPT !.state = "open", !.head = refs["source"]]
    /\ UNCHANGED <<repositoryVars, active, claims, merge, reader, faults>>

createReviewThread ==
    Handler(Recovered.claim = 0 /\ Recovered.state = "open" /\ Recovered.thread = "none",
            [Recovered EXCEPT !.thread = "open"])

updateReviewThread(resolved) ==
    Handler(Recovered.claim = 0 /\ Recovered.state = "open" /\ Recovered.thread # "none",
            [Recovered EXCEPT !.thread = IF resolved THEN "resolved" ELSE "open"])

\* approveMergeRequest; when it leaves the request ready it releases the lock
\* and starts mergeStoredRequest like any other caller.
approveMergeRequest(user, expectedHead) ==
    Handler(/\ Recovered.claim = 0
            /\ Recovered.state = "open"
            /\ user = Author => user \in Maintainer
            /\ expectedHead # NoCommit
            /\ refs["source"] = expectedHead
            /\ refs["target"] # NoCommit,
            [Recovered EXCEPT !.approvals[user] = expectedHead, !.head = expectedHead])

\* updateMergeRequest: a merged request stays merged.
updateMergeRequest(state) ==
    Handler(Recovered.claim = 0 /\ Recovered.state # "merged",
            [Recovered EXCEPT !.state = state])

\* Closing is the one way to give up a claim whose outcome cannot be known.
abandonMergeClaim ==
    /\ Unlocked
    /\ Interrupted(request)
    /\ Ambiguous(request, FALSE)
    /\ request' = [clearMergeClaim(request) EXCEPT !.state = "closed"]
    /\ UNCHANGED <<repositoryVars, active, claims, merge, reader, faults>>

-----------------------------------------------------------------------------
(* The merge. *)

\* RequiredApprovals is always 1.
Approved(r, head) == \E u \in User : r.approvals[u] = head

\* Mutant: counts approvals of earlier source commits.
MayClaimStale(r, head) ==
    /\ r.state = "open"
    /\ r.claim = 0
    /\ head # NoCommit
    /\ refs["source"] = head
    /\ refs["target"] # NoCommit
    /\ \E u \in User : r.approvals[u] # NoCommit
    /\ r.thread # "open"
\* The view and the claim check the same conditions.  Conflicts depend on the
\* contents of the branches: a conflict is a refusal.
MayClaim(r, head) ==
    /\ r.state = "open"
    /\ r.claim = 0
    /\ head # NoCommit
    /\ refs["source"] = head
    /\ refs["target"] # NoCommit
    /\ Approved(r, head)
    /\ r.thread # "open"

\* mergeStoredRequest up to the saved claim.
claimMerge(head) ==
    /\ Unlocked
    /\ claims < MaxClaim /\ made < MaxCommit
    /\ Recovers
    /\ MayClaim(Recovered, head)
    /\ claims' = claims + 1
    /\ request' = [Recovered EXCEPT !.claim = claims', !.claimHead = head]
    /\ active' = active \cup {claims'}
    /\ merge' = [Idle EXCEPT !.step = "claimed", !.claim = claims', !.head = head]
    /\ UNCHANGED <<repositoryVars, reader, faults>>

\* It is refused, or the claim is not saved: the record is left recovered.
refuseMerge ==
    /\ Unlocked
    /\ Interrupted(request)
    /\ Recovers
    /\ request' = Recovered
    /\ UNCHANGED <<repositoryVars, active, claims, merge, reader, faults>>

\* Mutant: goes on without the plan on disk.
PlannedUnsaved(result, step) ==
    /\ merge' = [merge EXCEPT !.step = step, !.previous = refs["target"], !.result = result]
    /\ reached' = Contains(refs["target"], result)
    /\ UNCHANGED <<refs, known, request, active, claims, reader, faults>>
\* mergeRepositoryBranchesAtSource up to the saved plan.
Planned(result, step) ==
    /\ request' = [request EXCEPT !.previous = refs["target"], !.result = result]
    /\ merge' = [merge EXCEPT !.step = step, !.previous = refs["target"], !.result = result]
    /\ reached' = Contains(refs["target"], result)
    /\ UNCHANGED <<refs, known, active, claims, reader, faults>>

planUpToDate ==
    /\ merge.step = "claimed"
    /\ merge.head \subseteq refs["target"]
    /\ Planned(refs["target"], "updated")
    /\ UNCHANGED <<stored, made>>

planFastForward ==
    /\ merge.step = "claimed"
    /\ ~(merge.head \subseteq refs["target"])
    /\ refs["target"] \subseteq merge.head
    /\ Planned(merge.head, "planned")
    /\ UNCHANGED <<stored, made>>

mergeCommit == merge.head \cup refs["target"] \cup {made + 1}

planMergeCommit ==
    /\ merge.step = "claimed"
    /\ ~(merge.head \subseteq refs["target"])
    /\ ~(refs["target"] \subseteq merge.head)
    /\ made' = made + 1
    /\ stored' = stored \cup {mergeCommit}
    /\ Planned(mergeCommit, "planned")

\* CheckAndSetReference, and the build it schedules.
updateTarget ==
    /\ merge.step = "planned"
    /\ refs["target"] = merge.previous
    /\ refs' = [refs EXCEPT !["target"] = merge.result]
    /\ known' = known \cup {merge.result}
    /\ reached' = TRUE
    /\ merge' = [merge EXCEPT !.step = "updated"]
    /\ UNCHANGED <<stored, made, request, active, claims, reader, faults>>

\* ErrReferenceHasChanged: mergeNotAppliedError.
targetHasChanged ==
    /\ merge.step = "planned"
    /\ refs["target"] # merge.previous
    /\ active' = active \ {merge.claim}
    /\ merge' = [merge EXCEPT !.step = "notApplied"]
    /\ UNCHANGED <<repositoryVars, request, claims, reader, faults>>

recordMerged ==
    /\ merge.step = "updated"
    /\ request' = clearMergeClaim([request EXCEPT !.state = "merged", !.head = merge.head,
                                                  !.merged = merge.result])
    /\ active' = active \ {merge.claim}
    /\ merge' = Idle
    /\ UNCHANGED <<repositoryVars, claims, reader, faults>>

\* The merge returned an error: its handler settles its own claim, or leaves it.
reconcileFailure ==
    /\ merge.step \in {"failed", "notApplied"}
    /\ LET notApplied == merge.step = "notApplied"
       IN  request' = IF request.claim = merge.claim /\ Settles(request, notApplied)
                      THEN Settled(request) ELSE request
    /\ merge' = Idle
    /\ UNCHANGED <<repositoryVars, active, claims, reader, faults>>

-----------------------------------------------------------------------------
(* Failures. *)

\* Before the target is touched: a conflict, an unreadable object, a plan that
\* could not be saved.
planFails ==
    /\ Fail
    /\ merge.step = "claimed"
    /\ active' = active \ {merge.claim}
    /\ merge' = [merge EXCEPT !.step = "failed"]
    /\ UNCHANGED <<repositoryVars, request, claims, reader>>

\* The update of the target fails for another reason than its value, with the
\* new value written or not.
updateTargetFails ==
    /\ Fail
    /\ merge.step = "planned"
    /\ refs["target"] = merge.previous
    /\ \E written \in BOOLEAN :
           IF written
           THEN /\ refs' = [refs EXCEPT !["target"] = merge.result]
                /\ known' = known \cup {merge.result}
                /\ reached' = TRUE
           ELSE UNCHANGED <<refs, known, reached>>
    /\ active' = active \ {merge.claim}
    /\ merge' = [merge EXCEPT !.step = "failed"]
    /\ UNCHANGED <<stored, made, request, claims, reader>>

\* The record of the merge, or of the failed merge, is not saved.
saveFails ==
    /\ Fail
    /\ merge.step \in {"updated", "failed", "notApplied"}
    /\ active' = active \ {merge.claim}
    /\ merge' = Idle
    /\ UNCHANGED <<repositoryVars, request, claims, reader>>

\* Another process, which knows nothing of the locks, moves the target.
moveOutside ==
    /\ Fail
    /\ \E new \in known \ {refs["target"]} :
           /\ refs["target"] # NoCommit
           /\ refs' = [refs EXCEPT !["target"] = new]
           /\ stored' = stored \cup {c \in known : c \subseteq new}
           /\ reached' = (reached \/ Contains(new, request.result))
    /\ UNCHANGED <<known, made, request, active, claims, merge, reader>>

\* The process ends and starts again: what was in memory is gone.
Restart ==
    /\ Fail
    /\ merge' = Idle
    /\ active' = {}
    /\ reader' = 0
    /\ UNCHANGED <<repositoryVars, request, claims>>

-----------------------------------------------------------------------------
(* Readers: getMergeRequest and listMergeRequests look at the claim without *)
(* the lock and wait for it only when the claim looks interrupted.          *)

seeInterrupted ==
    /\ reader = 0
    /\ Interrupted(request)
    /\ reader' = request.claim
    /\ UNCHANGED <<repositoryVars, request, active, claims, merge, faults>>

\* Under the lock everything is read again.
recoverInterrupted ==
    /\ Unlocked
    /\ reader # 0
    /\ reader' = 0
    /\ request' = IF Interrupted(request) /\ Settles(request, FALSE)
                  THEN Settled(request) ELSE request
    /\ UNCHANGED <<repositoryVars, active, claims, merge, faults>>

-----------------------------------------------------------------------------
Init ==
    /\ refs = [b \in Branch |-> Root]
    /\ stored = {Root}
    /\ known = {Root}
    /\ made = 1
    /\ request = NewRequest
    /\ active = {}
    /\ claims = 0
    /\ merge = Idle
    /\ reader = 0
    /\ faults = 0
    /\ reached = FALSE

Next ==
    \/ \E b \in Branch : receivePack(b) \/ deleteBranch(b)
    \/ mergeRepositoryBranches
    \/ createMergeRequest
    \/ createReviewThread
    \/ \E resolved \in BOOLEAN : updateReviewThread(resolved)
    \/ \E user \in User : approveMergeRequest(user, refs["source"])
    \/ \E state \in {"open", "closed"} : updateMergeRequest(state)
    \/ abandonMergeClaim
    \/ claimMerge(refs["source"])
    \/ refuseMerge
    \/ planUpToDate \/ planFastForward \/ planMergeCommit
    \/ updateTarget \/ targetHasChanged \/ recordMerged \/ reconcileFailure
    \/ planFails \/ updateTargetFails \/ saveFails \/ moveOutside \/ Restart
    \/ seeInterrupted \/ recoverInterrupted

Spec == Init /\ [][Next]_vars

-----------------------------------------------------------------------------
(* Properties. *)

\* Every variable has its type.
TypeOK ==
    /\ refs \in [Branch -> Commit]
    /\ stored \subseteq Commit
    /\ known \subseteq Commit
    /\ made \in 1 .. MaxCommit
    /\ reached \in BOOLEAN
    /\ request \in Request
    /\ active \subseteq Claim
    /\ claims \in Claim
    /\ merge \in [step : {"idle", "claimed", "planned", "updated", "failed", "notApplied"},
                  claim : Claim, head : Commit,
                  previous : Commit, result : Commit]
    /\ reader \in Claim
    /\ faults \in 0 .. MaxFault

\* What is merged, and what a claim commits to merge, is a source commit that
\* somebody approved as such, with no discussion left open, and the merged
\* commit contains it: no push, review or recovery slips in between.
MergedWasApproved ==
    /\ request.state = "merged" =>
           /\ Approved(request, request.head)
           /\ request.thread # "open"
           /\ request.head \subseteq request.merged
    /\ request.claim # 0 =>
           /\ request.state = "open"
           /\ Approved(request, request.claimHead)
           /\ request.thread # "open"

\* A request is marked as merged only if the target branch did reach the commit
\* it names, whoever wrote the mark and after whichever interruption.
MergedReachedTarget == request.state = "merged" => reached

\* While a merge is under way its claim is the one on disk and in memory, and
\* the plan it carries out is the one saved: no reader takes the claim for
\* interrupted and no handler changes it.
ActiveClaimUndisturbed ==
    merge.step \in {"claimed", "planned", "updated"} =>
        /\ request.state = "open"
        /\ request.claim = merge.claim
        /\ request.claim \in active
        /\ request.claimHead = merge.head
        /\ request.previous = merge.previous
        /\ request.result = merge.result

\* A claim that disappears without a merge was not carried out: as far as the
\* branches tell, the target does not contain the planned result.
AppliedMergeKept ==
    [][request.claim # 0 /\ request'.claim # request.claim /\ request'.state # "merged"
       => \/ request.result = NoCommit
          \/ refs["target"] # NoCommit /\ ~(request.result \subseteq refs["target"])]_vars

\* A merge request whose interrupted merge has an unknown outcome, because the
\* target branch moved on to a history without the planned result, can be closed.
AmbiguousCanBeClosed ==
    /\ Unlocked
    /\ Interrupted(request)
    /\ request.result # NoCommit
    /\ refs["target"] # NoCommit
    /\ refs["target"] # request.previous
    /\ ~TargetHasResult(request)
    => Settles(request, FALSE) \/ Ambiguous(request, FALSE)
===================================================================================
