-------------------------- MODULE MergeTransactionProofs --------------------------
(***************************************************************************)
(* Proofs about MergeTransaction, for any people, any number of commits,   *)
(* merges and failures: only what was approved is merged, a request is     *)
(* marked as merged only if the target had the result, a merge that is     *)
(* under way is left alone, and a merge that was carried out is never      *)
(* taken for one that was not.                                             *)
(***************************************************************************)
EXTENDS MergeTransaction, TLAPS

\* What a record says of its claim: without one nothing of a plan is left; with
\* one the request is open, approved and discussed to the end, and the planned
\* result contains the commit that is merged.
ClaimRecord(r) ==
    /\ r.claim = 0 => r.claimHead = NoCommit /\ r.previous = NoCommit /\ r.result = NoCommit
    /\ r.claim # 0 => r.state = "open" /\ Approved(r, r.claimHead) /\ r.thread # "open"
    /\ r.result # NoCommit => r.claimHead \subseteq r.result

\* What it says of a merge that is done.
MergedRecord(r) ==
    r.state = "merged" =>
        /\ Approved(r, r.head)
        /\ r.thread # "open"
        /\ r.head \subseteq r.merged
        /\ reached

\* The history variable does not miss the planned result on the target.
ReachedSeen(r) == TargetHasResult(r) => reached

RecordOK(r) == r \in Request /\ ClaimRecord(r) /\ MergedRecord(r) /\ ReachedSeen(r)

\* The merge that holds the lock: its claim is on disk and in memory, its commit
\* is in the planned result, and the target had the result once it was updated.
UnderWay ==
    /\ merge.step \in {"claimed", "planned", "updated"} =>
           /\ request.state = "open"
           /\ request.claim = merge.claim
           /\ request.claim # 0
           /\ request.claim \in active
           /\ request.claimHead = merge.head
           /\ request.previous = merge.previous
           /\ request.result = merge.result
           /\ merge.head # NoCommit
    /\ merge.step = "claimed" => made < MaxCommit
    /\ merge.step \in {"planned", "updated"} => merge.head \subseteq merge.result
    /\ merge.step = "updated" => reached

IInv == TypeOK /\ RecordOK(request) /\ UnderWay

-----------------------------------------------------------------------------------
(* The record. *)

LEMMA Constants == 0 \in Claim /\ NoCommit \in Commit /\ Root \in Commit
BY BoundsAssumption DEF Claim, NoCommit, Commit, Root

\* Settling a claim gives a record without one: marked as merged if the target
\* has the planned result, otherwise as it was.
LEMMA SettledOK ==
    ASSUME IInv
    PROVE  /\ RecordOK(Settled(request))
           /\ Settled(request).claim = 0
PROOF
<1> USE DEF IInv, RecordOK
<1> DEFINE r == Settled(request)
<1>1. r \in Request
      BY Constants DEF Settled, clearMergeClaim, Request
<1>2. r.claim = 0 /\ r.claimHead = NoCommit /\ r.previous = NoCommit /\ r.result = NoCommit
      BY DEF Settled, clearMergeClaim, Request
<1>3. CASE TargetHasResult(request)
  <2>1. request.result # NoCommit /\ reached /\ request.claim # 0
        BY <1>3 DEF TargetHasResult, Contains, ReachedSeen, ClaimRecord
  <2>2. /\ r.state = "merged" /\ r.head = request.claimHead /\ r.merged = request.result
        /\ r.approvals = request.approvals /\ r.thread = request.thread
        BY <1>3 DEF Settled, clearMergeClaim, Request
  <2>3. MergedRecord(r)
        BY <2>1, <2>2 DEF MergedRecord, ClaimRecord, Approved
  <2> QED BY <1>1, <1>2, <2>3 DEF ClaimRecord, ReachedSeen, TargetHasResult, Contains
<1>4. CASE ~TargetHasResult(request)
  <2>1. /\ r.state = request.state /\ r.head = request.head /\ r.merged = request.merged
        /\ r.approvals = request.approvals /\ r.thread = request.thread
        BY <1>4 DEF Settled, clearMergeClaim, Request
  <2>2. MergedRecord(r)
        BY <2>1 DEF MergedRecord, Approved
  <2> QED BY <1>1, <1>2, <2>2 DEF ClaimRecord, ReachedSeen, TargetHasResult, Contains
<1> QED BY <1>3, <1>4

LEMMA RecoveredOK ==
    ASSUME IInv
    PROVE  RecordOK(Recovered)
BY SettledOK DEF IInv, Recovered

\* A handler that leaves a good record, while nobody merges, keeps the invariant.
LEMMA RecordKept ==
    ASSUME IInv, Unlocked, RecordOK(request'),
           UNCHANGED <<repositoryVars, active, claims, merge, reader, faults>>
    PROVE  IInv'
PROOF
<1>1. TypeOK'
      BY DEF IInv, TypeOK, RecordOK, repositoryVars
<1>2. RecordOK(request)'
      BY DEF RecordOK, ClaimRecord, MergedRecord, ReachedSeen, TargetHasResult, repositoryVars
<1>3. UnderWay'
      BY DEF UnderWay, Unlocked
<1> QED BY <1>1, <1>2, <1>3 DEF IInv

LEMMA HandlerKept ==
    ASSUME IInv, NEW allowed \in BOOLEAN, NEW change, Handler(allowed, change),
           allowed => RecordOK(change)
    PROVE  IInv'
BY RecoveredOK, RecordKept DEF Handler

-----------------------------------------------------------------------------------
(* The branches. *)

LEMMA FreshCommit ==
    ASSUME made \in 1 .. MaxCommit, made < MaxCommit, NEW c \in Commit, NEW d \in Commit
    PROVE  /\ c \cup {made + 1} \in Commit
           /\ c \cup d \cup {made + 1} \in Commit
           /\ made + 1 \in 1 .. MaxCommit
BY BoundsAssumption DEF Commit

\* A record stands when the branches move, as long as the history notes it.
LEMMA BranchesMoved ==
    ASSUME IInv, request' = request, reached => reached',
           Contains(refs'["target"], request.result) => reached'
    PROVE  RecordOK(request)'
BY DEF IInv, RecordOK, ClaimRecord, MergedRecord, ReachedSeen, TargetHasResult

LEMMA PushKept ==
    ASSUME IInv, NEW b \in Branch, receivePack(b)
    PROVE  IInv'
PROOF
<1>1. PICK base \in known, fresh \in BOOLEAN : receivePack(b)!2!(base, fresh)
      BY DEF receivePack
<1> DEFINE new == IF fresh THEN base \cup {made + 1} ELSE base
           objects == stored \cup {c \in known : c \subseteq new} \cup {new}
<1>2. new \in Commit /\ made' \in 1 .. MaxCommit
  <2>1. base \in Commit /\ made \in 1 .. MaxCommit
        BY DEF IInv, TypeOK
  <2>2. CASE fresh
        BY <1>1, <2>1, <2>2, FreshCommit
  <2>3. CASE ~fresh
        BY <1>1, <2>1, <2>3
  <2> QED BY <2>2, <2>3
<1>3. refs' = [refs EXCEPT ![b] = new] /\ known' = known \cup {new}
      BY <1>1
<1>4. stored' \subseteq objects
  <2>1. stored' \in IF MayDiscardObjects(b, new)
                    THEN Maintained([refs EXCEPT ![b] = new], objects) ELSE {objects}
        BY <1>1
  <2> HIDE DEF objects, new
  <2> QED BY <2>1 DEF Maintained
<1>5. reached' = (reached \/ (b = "target" /\ Contains(new, request.result)))
      BY <1>1
<1> HIDE DEF new
<1>6. TypeOK'
  <2>1. refs' \in [Branch -> Commit]
        BY <1>2, <1>3 DEF IInv, TypeOK
  <2>2. stored' \subseteq Commit /\ known' \subseteq Commit
        BY <1>2, <1>3, <1>4 DEF IInv, TypeOK
  <2>3. reached' \in BOOLEAN
        BY <1>5
  <2> QED BY <1>2, <2>1, <2>2, <2>3 DEF IInv, TypeOK, receivePack
<1>7. RecordOK(request)'
  <2>1. request' = request
        BY DEF receivePack
  <2>2. Contains(refs'["target"], request.result) => reached'
    <3>1. CASE b = "target"
          BY <1>3, <1>5, <3>1 DEF IInv, TypeOK, Branch
    <3>2. CASE b # "target"
      <4>1. refs'["target"] = refs["target"]
            BY <1>3, <3>2 DEF IInv, TypeOK, Branch
      <4> QED BY <4>1, <1>5, <3>2 DEF IInv, RecordOK, ReachedSeen, TargetHasResult
    <3> QED BY <3>1, <3>2
  <2> QED BY <2>1, <2>2, <1>5, BranchesMoved
<1>8. UnderWay'
      BY DEF UnderWay, Unlocked, receivePack
<1> QED BY <1>6, <1>7, <1>8 DEF IInv

LEMMA DeleteKept ==
    ASSUME IInv, NEW b \in Branch, deleteBranch(b)
    PROVE  IInv'
PROOF
<1>1. refs' = [refs EXCEPT ![b] = NoCommit] /\ request' = request /\ reached' = reached
      BY DEF deleteBranch
<1>2. stored' \subseteq stored
      BY DEF deleteBranch, Maintained
<1>3. TypeOK'
      BY <1>1, <1>2, Constants DEF IInv, TypeOK, deleteBranch
<1>4. RecordOK(request)'
  <2>1. Contains(refs'["target"], request.result) => reached'
    <3>1. refs'["target"] = refs["target"] \/ refs'["target"] = NoCommit
          BY <1>1 DEF IInv, TypeOK, Branch
    <3>2. ~Contains(NoCommit, request.result)
          BY DEF Contains, NoCommit
    <3> QED BY <3>1, <3>2, <1>1 DEF IInv, RecordOK, ReachedSeen, TargetHasResult
  <2> QED BY <1>1, <2>1, BranchesMoved
<1>5. UnderWay'
      BY DEF UnderWay, Unlocked, deleteBranch
<1> QED BY <1>3, <1>4, <1>5 DEF IInv

LEMMA BranchMergeKept ==
    ASSUME IInv, mergeRepositoryBranches
    PROVE  IInv'
PROOF
<1> DEFINE fastForward == refs["target"] \subseteq refs["source"]
           new == IF fastForward THEN refs["source"]
                  ELSE refs["source"] \cup refs["target"] \cup {made + 1}
<1>1. /\ fastForward \/ made < MaxCommit
      /\ refs' = [refs EXCEPT !["target"] = new]
      /\ stored' = stored \cup {new}
      /\ known' = known \cup {new}
      /\ made' = made + (IF fastForward THEN 0 ELSE 1)
      /\ reached' = (reached \/ Contains(new, request.result))
      BY DEF mergeRepositoryBranches
<1>2. new \in Commit /\ made' \in 1 .. MaxCommit
  <2>1. refs["source"] \in Commit /\ refs["target"] \in Commit /\ made \in 1 .. MaxCommit
        BY DEF IInv, TypeOK, Branch
  <2>2. CASE fastForward
        BY <1>1, <2>1, <2>2
  <2>3. CASE ~fastForward
        BY <1>1, <2>1, <2>3, FreshCommit
  <2> QED BY <2>2, <2>3
<1> HIDE DEF new, fastForward
<1>3. TypeOK'
  <2>1. refs' \in [Branch -> Commit] /\ stored' \subseteq Commit /\ known' \subseteq Commit
        BY <1>1, <1>2 DEF IInv, TypeOK
  <2>2. reached' \in BOOLEAN
        BY <1>1
  <2> QED BY <1>2, <2>1, <2>2 DEF IInv, TypeOK, mergeRepositoryBranches
<1>4. RecordOK(request)'
  <2>1. refs'["target"] = new
        BY <1>1 DEF IInv, TypeOK, Branch
  <2>2. request' = request
        BY DEF mergeRepositoryBranches
  <2> QED BY <1>1, <2>1, <2>2, BranchesMoved
<1>5. UnderWay'
      BY DEF UnderWay, Unlocked, mergeRepositoryBranches
<1> QED BY <1>3, <1>4, <1>5 DEF IInv

LEMMA OutsideKept ==
    ASSUME IInv, moveOutside
    PROVE  IInv'
PROOF
<1>1. PICK new \in known \ {refs["target"]} : moveOutside!2!(new)
      BY DEF moveOutside
<1>2. new \in Commit
      BY DEF IInv, TypeOK
<1>3. TypeOK'
  <2>1. refs' \in [Branch -> Commit] /\ stored' \subseteq Commit
        BY <1>1, <1>2 DEF IInv, TypeOK
  <2>2. reached' \in BOOLEAN
        BY <1>1
  <2>3. faults' \in 0 .. MaxFault
        BY BoundsAssumption DEF moveOutside, Fail, IInv, TypeOK
  <2> QED BY <2>1, <2>2, <2>3 DEF IInv, TypeOK, moveOutside
<1>4. RecordOK(request)'
  <2>1. refs'["target"] = new
        BY <1>1 DEF IInv, TypeOK, Branch
  <2>2. request' = request
        BY DEF moveOutside
  <2> QED BY <1>1, <2>1, <2>2, BranchesMoved
<1>5. UnderWay'
      BY <1>1 DEF IInv, UnderWay, moveOutside
<1> QED BY <1>3, <1>4, <1>5 DEF IInv

-----------------------------------------------------------------------------------
(* The handlers of the review. *)

LEMMA CreateKept ==
    ASSUME IInv, createMergeRequest
    PROVE  IInv'
PROOF
<1> DEFINE r == [NewRequest EXCEPT !.state = "open", !.head = refs["source"]]
<1>1. refs["source"] \in Commit
      BY DEF IInv, TypeOK, Branch
<1>2. /\ r \in Request
      /\ r.state = "open" /\ r.claim = 0 /\ r.claimHead = NoCommit
      /\ r.previous = NoCommit /\ r.result = NoCommit
      BY <1>1, Constants DEF NewRequest, Request
<1>3. RecordOK(r)
      BY <1>2 DEF RecordOK, ClaimRecord, MergedRecord, ReachedSeen, TargetHasResult, Contains
<1> QED BY <1>3, RecordKept DEF createMergeRequest

\* The discussion changes only while the request is open and has no claim.
LEMMA ThreadKept ==
    ASSUME IInv, NEW t \in {"open", "resolved"},
           Recovered.claim = 0, Recovered.state = "open"
    PROVE  RecordOK([Recovered EXCEPT !.thread = t])
BY RecoveredOK DEF RecordOK, Request, ClaimRecord, MergedRecord, ReachedSeen,
                   TargetHasResult, Contains

LEMMA ApproveKept ==
    ASSUME IInv, NEW user \in User, approveMergeRequest(user, refs["source"])
    PROVE  IInv'
PROOF
<1> DEFINE h == refs["source"]
           r == [Recovered EXCEPT !.approvals[user] = h, !.head = h]
<1>1. h \in Commit
      BY DEF IInv, TypeOK, Branch
<1>2. ASSUME Recovered.claim = 0, Recovered.state = "open"
      PROVE  RecordOK(r)
  <2>1. RecordOK(Recovered)
        BY RecoveredOK
  <2>2. r \in Request
        BY <1>1, <2>1 DEF RecordOK, Request
  <2>3. /\ r.claim = 0 /\ r.state = "open" /\ r.claimHead = Recovered.claimHead
        /\ r.previous = Recovered.previous /\ r.result = Recovered.result
        BY <1>2, <2>1 DEF RecordOK, Request
  <2> QED BY <2>1, <2>2, <2>3, <1>2 DEF RecordOK, ClaimRecord, MergedRecord, ReachedSeen,
                                        TargetHasResult, Contains
<1> QED BY <1>2, HandlerKept DEF approveMergeRequest

LEMMA UpdateKept ==
    ASSUME IInv, NEW state \in {"open", "closed"}, updateMergeRequest(state)
    PROVE  IInv'
PROOF
<1>1. ASSUME Recovered.claim = 0, Recovered.state # "merged"
      PROVE  RecordOK([Recovered EXCEPT !.state = state])
      BY <1>1, RecoveredOK DEF RecordOK, Request, ClaimRecord, MergedRecord, ReachedSeen,
                               TargetHasResult, Contains
<1> QED BY <1>1, HandlerKept DEF updateMergeRequest

LEMMA AbandonKept ==
    ASSUME IInv, abandonMergeClaim
    PROVE  IInv'
PROOF
<1> DEFINE r == [clearMergeClaim(request) EXCEPT !.state = "closed"]
<1>1. r \in Request /\ r.state = "closed" /\ r.claim = 0 /\ r.claimHead = NoCommit
      /\ r.previous = NoCommit /\ r.result = NoCommit
      BY Constants DEF IInv, RecordOK, Request, clearMergeClaim
<1>2. RecordOK(r)
      BY <1>1 DEF RecordOK, ClaimRecord, MergedRecord, ReachedSeen, TargetHasResult, Contains
<1> QED BY <1>2, RecordKept DEF abandonMergeClaim

LEMMA ReviewKept ==
    ASSUME IInv,
           \/ createMergeRequest \/ createReviewThread
           \/ \E resolved \in BOOLEAN : updateReviewThread(resolved)
           \/ \E user \in User : approveMergeRequest(user, refs["source"])
           \/ \E state \in {"open", "closed"} : updateMergeRequest(state)
           \/ abandonMergeClaim \/ refuseMerge
    PROVE  IInv'
PROOF
<1>1. CASE createMergeRequest
      BY <1>1, CreateKept
<1>2. CASE createReviewThread
      BY <1>2, ThreadKept, HandlerKept DEF createReviewThread
<1>3. ASSUME NEW resolved \in BOOLEAN, updateReviewThread(resolved)
      PROVE  IInv'
  <2> DEFINE t == IF resolved THEN "resolved" ELSE "open"
  <2>1. t \in {"open", "resolved"}
        OBVIOUS
  <2> HIDE DEF t
  <2>2. Handler(Recovered.claim = 0 /\ Recovered.state = "open" /\ Recovered.thread # "none",
                [Recovered EXCEPT !.thread = t])
        BY <1>3 DEF updateReviewThread, t
  <2> QED BY <2>1, <2>2, ThreadKept, HandlerKept
<1>4. ASSUME NEW user \in User, approveMergeRequest(user, refs["source"])
      PROVE  IInv'
      BY <1>4, ApproveKept
<1>5. ASSUME NEW state \in {"open", "closed"}, updateMergeRequest(state)
      PROVE  IInv'
      BY <1>5, UpdateKept
<1>6. CASE abandonMergeClaim
      BY <1>6, AbandonKept
<1>7. CASE refuseMerge
      BY <1>7, RecoveredOK, RecordKept DEF refuseMerge
<1> QED BY <1>1, <1>2, <1>3, <1>4, <1>5, <1>6, <1>7

-----------------------------------------------------------------------------------
(* The merge. *)

LEMMA ClaimKept ==
    ASSUME IInv, claimMerge(refs["source"])
    PROVE  IInv'
PROOF
<1> DEFINE h == refs["source"]
           r == [Recovered EXCEPT !.claim = claims + 1, !.claimHead = h]
           m == [Idle EXCEPT !.step = "claimed", !.claim = claims + 1, !.head = h]
<1>1. h \in Commit /\ h # NoCommit /\ claims + 1 \in Claim /\ claims + 1 # 0
      BY BoundsAssumption DEF claimMerge, MayClaim, IInv, TypeOK, Branch, Claim
<1>2. RecordOK(Recovered) /\ MayClaim(Recovered, h)
      BY RecoveredOK DEF claimMerge
<1>3. /\ m \in [step : {"idle", "claimed", "planned", "updated", "failed", "notApplied"},
                claim : Claim, head : Commit, previous : Commit, result : Commit]
      /\ m.step = "claimed" /\ m.claim = claims + 1 /\ m.head = h
      /\ m.previous = NoCommit /\ m.result = NoCommit
      BY <1>1, Constants DEF Idle
<1>4. /\ r \in Request
      /\ r.claim = claims + 1 /\ r.claimHead = h
      /\ r.previous = NoCommit /\ r.result = NoCommit
      /\ r.state = "open" /\ r.thread = Recovered.thread /\ r.approvals = Recovered.approvals
      BY <1>1, <1>2 DEF RecordOK, Request, ClaimRecord, MayClaim
<1>5. RecordOK(r)
      BY <1>1, <1>2, <1>4 DEF RecordOK, ClaimRecord, MergedRecord, ReachedSeen,
                              TargetHasResult, Contains, MayClaim, Approved
<1>6. request' = r /\ merge' = m /\ claims' = claims + 1 /\ active' = active \cup {claims + 1}
      /\ made < MaxCommit
      BY DEF claimMerge
<1> HIDE DEF r, m
<1>7. TypeOK'
  <2>1. active' \subseteq Claim /\ claims' \in Claim /\ request' \in Request
        BY <1>1, <1>4, <1>6 DEF IInv, TypeOK
  <2> QED BY <1>3, <1>6, <2>1 DEF IInv, TypeOK, claimMerge, repositoryVars
<1>8. RecordOK(request)'
      BY <1>5, <1>6 DEF RecordOK, ClaimRecord, MergedRecord, ReachedSeen, TargetHasResult,
                        claimMerge, repositoryVars
<1>9. UnderWay'
      BY <1>1, <1>3, <1>4, <1>6 DEF UnderWay, claimMerge, repositoryVars
<1> QED BY <1>7, <1>8, <1>9 DEF IInv

\* A plan whose result contains the claimed commit; an update is not needed when
\* the target is the result.
LEMMA PlannedKept ==
    ASSUME IInv, merge.step = "claimed", NEW c \in Commit, NEW step \in {"planned", "updated"},
           Planned(c, step), merge.head \subseteq c,
           step = "updated" => c = refs["target"],
           stored' \subseteq Commit, made' \in 1 .. MaxCommit
    PROVE  IInv'
PROOF
<1> DEFINE r == [request EXCEPT !.previous = refs["target"], !.result = c]
           m == [merge EXCEPT !.step = step, !.previous = refs["target"], !.result = c]
<1>1. request' = r /\ merge' = m /\ reached' = Contains(refs["target"], c)
      BY DEF Planned
<1>2. refs["target"] \in Commit
      BY DEF IInv, TypeOK, Branch
<1>3. /\ m \in [step : {"idle", "claimed", "planned", "updated", "failed", "notApplied"},
                claim : Claim, head : Commit, previous : Commit, result : Commit]
      /\ m.step = step /\ m.claim = merge.claim /\ m.head = merge.head
      /\ m.previous = refs["target"] /\ m.result = c
      BY <1>2 DEF IInv, TypeOK
<1>4. /\ r \in Request
      /\ r.claim = request.claim /\ r.claimHead = request.claimHead
      /\ r.previous = refs["target"] /\ r.result = c
      /\ r.state = request.state /\ r.thread = request.thread /\ r.approvals = request.approvals
      BY <1>2 DEF IInv, RecordOK, Request
<1>5. /\ request.state = "open" /\ request.claim = merge.claim /\ request.claim # 0
      /\ request.claim \in active /\ request.claimHead = merge.head
      /\ merge.head # NoCommit
      BY DEF IInv, UnderWay
<1>6. c # NoCommit
      BY <1>5 DEF NoCommit
<1> HIDE DEF r, m
<1>7. TypeOK'
  <2>1. reached' \in BOOLEAN
        BY <1>1 DEF Contains
  <2> QED BY <1>1, <1>3, <1>4, <2>1 DEF IInv, TypeOK, Planned
<1>8. RecordOK(request)'
  <2>1. ClaimRecord(r)
        BY <1>4, <1>5 DEF IInv, RecordOK, ClaimRecord, Approved
  <2>2. refs' = refs
        BY DEF Planned
  <2> QED BY <1>1, <1>4, <1>5, <2>1, <2>2 DEF RecordOK, ClaimRecord, MergedRecord, ReachedSeen,
                                              TargetHasResult
<1>9. UnderWay'
  <2>1. step = "updated" => reached'
        BY <1>1, <1>6 DEF Contains
  <2> QED BY <1>1, <1>3, <1>4, <1>5, <2>1 DEF UnderWay, Planned
<1> QED BY <1>7, <1>8, <1>9 DEF IInv

LEMMA PlanKept ==
    ASSUME IInv, planUpToDate \/ planFastForward \/ planMergeCommit
    PROVE  IInv'
PROOF
<1>1. refs["target"] \in Commit /\ merge.head \in Commit /\ stored \subseteq Commit
      /\ made \in 1 .. MaxCommit
      BY DEF IInv, TypeOK, Branch
<1>2. CASE planUpToDate
      BY <1>1, <1>2, PlannedKept DEF planUpToDate
<1>3. CASE planFastForward
      BY <1>1, <1>3, PlannedKept DEF planFastForward
<1>4. CASE planMergeCommit
  <2>1. made < MaxCommit
        BY <1>4 DEF IInv, UnderWay, planMergeCommit
  <2>2. mergeCommit \in Commit /\ made + 1 \in 1 .. MaxCommit
        BY <1>1, <2>1, FreshCommit DEF mergeCommit
  <2>3. merge.head \subseteq mergeCommit
        BY DEF mergeCommit
  <2> QED BY <1>1, <1>4, <2>2, <2>3, PlannedKept DEF planMergeCommit
<1> QED BY <1>2, <1>3, <1>4

LEMMA UpdateTargetKept ==
    ASSUME IInv, updateTarget
    PROVE  IInv'
PROOF
<1>1. /\ merge.step = "planned" /\ merge' = [merge EXCEPT !.step = "updated"]
      /\ refs' = [refs EXCEPT !["target"] = merge.result] /\ reached' = TRUE
      /\ known' = known \cup {merge.result} /\ request' = request
      BY DEF updateTarget
<1>2. TypeOK'
      BY <1>1 DEF IInv, TypeOK, updateTarget
<1>3. RecordOK(request)'
      BY <1>1, BranchesMoved
<1>4. UnderWay'
      BY <1>1 DEF IInv, TypeOK, UnderWay, updateTarget
<1> QED BY <1>2, <1>3, <1>4 DEF IInv

\* A merge that is over, or has failed, leaves the lock to nobody's claim.
LEMMA MergeOver ==
    ASSUME IInv, NEW m \in {Idle, [merge EXCEPT !.step = "failed"],
                             [merge EXCEPT !.step = "notApplied"]},
           merge' = m
    PROVE  /\ merge' \in [step : {"idle", "claimed", "planned", "updated", "failed", "notApplied"},
                          claim : Claim, head : Commit, previous : Commit, result : Commit]
           /\ UnderWay'
PROOF
<1>1. /\ m \in [step : {"idle", "claimed", "planned", "updated", "failed", "notApplied"},
                claim : Claim, head : Commit, previous : Commit, result : Commit]
      /\ m.step \in {"idle", "failed", "notApplied"}
  <2>1. CASE m = Idle
        BY <2>1, Constants DEF Idle
  <2>2. CASE m = [merge EXCEPT !.step = "failed"]
        BY <2>2 DEF IInv, TypeOK
  <2>3. CASE m = [merge EXCEPT !.step = "notApplied"]
        BY <2>3 DEF IInv, TypeOK
  <2> QED BY <2>1, <2>2, <2>3
<1> QED BY <1>1 DEF UnderWay

LEMMA RecordMergedKept ==
    ASSUME IInv, recordMerged
    PROVE  IInv'
PROOF
<1> DEFINE r == clearMergeClaim([request EXCEPT !.state = "merged", !.head = merge.head,
                                                !.merged = merge.result])
<1>1. merge.step = "updated" /\ request' = r /\ merge' = Idle
      /\ active' = active \ {merge.claim}
      BY DEF recordMerged
<1>2. merge.head \in Commit /\ merge.result \in Commit
      BY DEF IInv, TypeOK
<1>3. /\ r \in Request
      /\ r.state = "merged" /\ r.head = merge.head /\ r.merged = merge.result
      /\ r.thread = request.thread /\ r.approvals = request.approvals
      /\ r.claim = 0 /\ r.claimHead = NoCommit /\ r.previous = NoCommit /\ r.result = NoCommit
      BY <1>2, Constants DEF IInv, RecordOK, Request, clearMergeClaim
<1>4. RecordOK(r)
  <2>1. MergedRecord(r)
        BY <1>1, <1>3 DEF IInv, RecordOK, ClaimRecord, MergedRecord, UnderWay, Approved
  <2> QED BY <1>3, <2>1 DEF RecordOK, ClaimRecord, ReachedSeen, TargetHasResult, Contains
<1> HIDE DEF r
<1>5. RecordOK(request)'
      BY <1>1, <1>4 DEF RecordOK, ClaimRecord, MergedRecord, ReachedSeen, TargetHasResult,
                        recordMerged, repositoryVars
<1>6. TypeOK'
      BY <1>1, <1>3, MergeOver DEF IInv, TypeOK, recordMerged, repositoryVars
<1> QED BY <1>1, <1>5, <1>6, MergeOver DEF IInv

LEMMA ReconcileKept ==
    ASSUME IInv, reconcileFailure
    PROVE  IInv'
PROOF
<1>1. request' = Settled(request) \/ request' = request
      BY DEF reconcileFailure
<1>2. RecordOK(request')
      BY <1>1, SettledOK DEF IInv
<1>3. RecordOK(request)'
      BY <1>2 DEF RecordOK, ClaimRecord, MergedRecord, ReachedSeen, TargetHasResult,
                  reconcileFailure, repositoryVars
<1>4. merge' = Idle
      BY DEF reconcileFailure
<1>5. TypeOK'
      BY <1>2, <1>4, MergeOver DEF IInv, TypeOK, RecordOK, reconcileFailure, repositoryVars
<1> QED BY <1>3, <1>4, <1>5, MergeOver DEF IInv

\* The failures that leave the branches and the record alone.
LEMMA FailureKept ==
    ASSUME IInv, planFails \/ saveFails \/ targetHasChanged \/ Restart
    PROVE  IInv'
PROOF
<1>1. /\ UNCHANGED <<repositoryVars, request, claims>>
      /\ active' \subseteq active
      /\ merge' \in {Idle, [merge EXCEPT !.step = "failed"], [merge EXCEPT !.step = "notApplied"]}
      /\ reader' \in {reader, 0}
      BY DEF planFails, saveFails, targetHasChanged, Restart
<1>2. faults' \in 0 .. MaxFault
      BY BoundsAssumption DEF planFails, saveFails, targetHasChanged, Restart, Fail, IInv, TypeOK
<1>3. TypeOK'
      BY <1>1, <1>2, MergeOver, Constants DEF IInv, TypeOK, repositoryVars
<1>4. RecordOK(request)'
      BY <1>1 DEF IInv, RecordOK, ClaimRecord, MergedRecord, ReachedSeen, TargetHasResult,
                  repositoryVars
<1> QED BY <1>1, <1>3, <1>4, MergeOver DEF IInv

LEMMA UpdateFailsKept ==
    ASSUME IInv, updateTargetFails
    PROVE  IInv'
PROOF
<1>1. PICK written \in BOOLEAN : updateTargetFails!4!(written)
      BY DEF updateTargetFails
<1>2. /\ merge' = [merge EXCEPT !.step = "failed"]
      /\ active' = active \ {merge.claim} /\ request' = request
      BY DEF updateTargetFails
<1>3. /\ refs' \in [Branch -> Commit] /\ known' \subseteq Commit
      /\ reached' \in BOOLEAN /\ (reached => reached')
      /\ Contains(refs'["target"], request.result) => reached'
  <2>1. CASE written
        BY <1>1, <2>1 DEF IInv, TypeOK
  <2>2. CASE ~written
        BY <1>1, <2>2 DEF IInv, TypeOK, RecordOK, ReachedSeen, TargetHasResult
  <2> QED BY <2>1, <2>2
<1>4. faults' \in 0 .. MaxFault
      BY BoundsAssumption DEF updateTargetFails, Fail, IInv, TypeOK
<1>5. TypeOK'
      BY <1>2, <1>3, <1>4, MergeOver DEF IInv, TypeOK, updateTargetFails
<1>6. RecordOK(request)'
      BY <1>2, <1>3, BranchesMoved
<1> QED BY <1>2, <1>5, <1>6, MergeOver DEF IInv

LEMMA ReaderKept ==
    ASSUME IInv, seeInterrupted \/ recoverInterrupted
    PROVE  IInv'
PROOF
<1>1. CASE seeInterrupted
  <2>1. TypeOK'
        BY <1>1 DEF IInv, TypeOK, RecordOK, Request, seeInterrupted, repositoryVars
  <2>2. RecordOK(request)'
        BY <1>1 DEF IInv, RecordOK, ClaimRecord, MergedRecord, ReachedSeen, TargetHasResult,
                    seeInterrupted, repositoryVars
  <2>3. UnderWay'
        BY <1>1 DEF IInv, UnderWay, seeInterrupted, repositoryVars
  <2> QED BY <2>1, <2>2, <2>3 DEF IInv
<1>2. CASE recoverInterrupted
  <2>1. RecordOK(request')
        BY <1>2, SettledOK DEF IInv, recoverInterrupted
  <2>2. TypeOK'
        BY <1>2, <2>1, Constants DEF IInv, TypeOK, RecordOK, recoverInterrupted, repositoryVars
  <2>3. RecordOK(request)'
        BY <1>2, <2>1 DEF RecordOK, ClaimRecord, MergedRecord, ReachedSeen, TargetHasResult,
                          recoverInterrupted, repositoryVars
  <2>4. UnderWay'
        BY <1>2 DEF UnderWay, Unlocked, recoverInterrupted
  <2> QED BY <2>2, <2>3, <2>4 DEF IInv
<1> QED BY <1>1, <1>2

-----------------------------------------------------------------------------------
(* The theorems. *)

LEMMA InitIInv == Init => IInv
PROOF
<1> SUFFICES ASSUME Init PROVE IInv
    OBVIOUS
<1>1. TypeOK
  <2>1. request \in Request
        BY Constants DEF Init, NewRequest, Request
  <2>2. merge \in [step : {"idle", "claimed", "planned", "updated", "failed", "notApplied"},
                   claim : Claim, head : Commit, previous : Commit, result : Commit]
        BY Constants DEF Init, Idle
  <2>3. refs \in [Branch -> Commit] /\ stored \subseteq Commit /\ known \subseteq Commit
        BY Constants DEF Init
  <2>4. made \in 1 .. MaxCommit /\ faults \in 0 .. MaxFault
        BY BoundsAssumption DEF Init
  <2> QED BY <2>1, <2>2, <2>3, <2>4, Constants DEF Init, TypeOK
<1>2. RecordOK(request)
      BY <1>1 DEF Init, NewRequest, TypeOK, RecordOK, ClaimRecord, MergedRecord, ReachedSeen,
                  TargetHasResult, Contains
<1>3. UnderWay
      BY DEF Init, Idle, UnderWay
<1> QED BY <1>1, <1>2, <1>3 DEF IInv

LEMMA NextIInv == IInv /\ [Next]_vars => IInv'
PROOF
<1> SUFFICES ASSUME IInv, [Next]_vars PROVE IInv'
    OBVIOUS
<1>1. ASSUME NEW b \in Branch, receivePack(b) \/ deleteBranch(b)
      PROVE  IInv'
      BY <1>1, PushKept, DeleteKept
<1>2. CASE mergeRepositoryBranches
      BY <1>2, BranchMergeKept
<1>3. CASE \/ createMergeRequest \/ createReviewThread
           \/ \E resolved \in BOOLEAN : updateReviewThread(resolved)
           \/ \E user \in User : approveMergeRequest(user, refs["source"])
           \/ \E state \in {"open", "closed"} : updateMergeRequest(state)
           \/ abandonMergeClaim \/ refuseMerge
      BY <1>3, ReviewKept
<1>4. CASE claimMerge(refs["source"])
      BY <1>4, ClaimKept
<1>5. CASE planUpToDate \/ planFastForward \/ planMergeCommit
      BY <1>5, PlanKept
<1>6. CASE updateTarget
      BY <1>6, UpdateTargetKept
<1>7. CASE recordMerged
      BY <1>7, RecordMergedKept
<1>8. CASE reconcileFailure
      BY <1>8, ReconcileKept
<1>9. CASE planFails \/ saveFails \/ targetHasChanged \/ Restart
      BY <1>9, FailureKept
<1>10. CASE updateTargetFails
      BY <1>10, UpdateFailsKept
<1>11. CASE moveOutside
      BY <1>11, OutsideKept
<1>12. CASE seeInterrupted \/ recoverInterrupted
      BY <1>12, ReaderKept
<1>13. CASE UNCHANGED vars
      BY <1>13 DEF vars, IInv, TypeOK, RecordOK, ClaimRecord, MergedRecord, ReachedSeen,
                   TargetHasResult, UnderWay
<1> QED
    BY <1>1, <1>2, <1>3, <1>4, <1>5, <1>6, <1>7, <1>8, <1>9, <1>10, <1>11, <1>12, <1>13 DEF Next

\* The invariant that the others rest on: what the record, the branches and the
\* merge that is under way say of each other.
THEOREM Invariant == Spec => []IInv
BY InitIInv, NextIInv, PTL DEF Spec

\* Every variable of the merge keeps its type.
THEOREM TypeCorrect == Spec => []TypeOK
PROOF
<1>1. IInv => TypeOK
      BY DEF IInv
<1> QED BY <1>1, Invariant, PTL

\* What is merged, and what a claim commits to merge, was approved as it is, with
\* no open discussion, and is contained in the merged commit: mergeStoredRequest,
\* its failures, the recovery of its claims, pushes and reviews in any order.
THEOREM OnlyApprovedIsMerged == Spec => []MergedWasApproved
PROOF
<1>1. IInv => MergedWasApproved
      BY DEF IInv, RecordOK, ClaimRecord, MergedRecord, MergedWasApproved
<1> QED BY <1>1, Invariant, PTL

\* Whoever marks a request as merged, the merge itself or the recovery of an
\* interrupted claim by reconcileMergeClaim, the target did reach the result.
THEOREM MergedMarkIsTrue == Spec => []MergedReachedTarget
PROOF
<1>1. IInv => MergedReachedTarget
      BY DEF IInv, RecordOK, MergedRecord, MergedReachedTarget
<1> QED BY <1>1, Invariant, PTL

\* While mergeStoredRequest is under way nobody disturbs its claim or its plan,
\* on disk or in activeMergeClaims.
THEOREM ActiveClaimSafe == Spec => []ActiveClaimUndisturbed
PROOF
<1>1. IInv => ActiveClaimUndisturbed
      BY DEF IInv, UnderWay, ActiveClaimUndisturbed
<1> QED BY <1>1, Invariant, PTL

\* What settles a claim without marking a merge saw a target without the result.
LEMMA ClearedUnapplied ==
    ASSUME IInv, NEW k, Settles(request, k), Settled(request).state # "merged"
    PROVE  \/ request.result = NoCommit
           \/ refs["target"] # NoCommit /\ ~(request.result \subseteq refs["target"])
PROOF
<1>1. ~TargetHasResult(request)
      BY DEF Settled, clearMergeClaim, IInv, RecordOK, Request
<1> QED BY <1>1 DEF Settles, Unreadable, TargetHasResult, Contains

\* A handler of a review that drops a claim has settled it.
LEMMA HandlerDrops ==
    ASSUME IInv, NEW allowed \in BOOLEAN, NEW change, Handler(allowed, change),
           allowed => Recovered.claim = 0 /\ (Recovered.state = "merged" => change.state = "merged"),
           request.claim # 0, request'.claim # request.claim, request'.state # "merged"
    PROVE  \/ request.result = NoCommit
           \/ refs["target"] # NoCommit /\ ~(request.result \subseteq refs["target"])
PROOF
<1>1. Recovered # request /\ Recovered.state # "merged"
      BY DEF Handler
<1>2. Interrupted(request) /\ Recovered = Settled(request)
      BY <1>1 DEF Recovered
<1>3. Settles(request, FALSE)
      BY <1>2 DEF Handler, Recovers
<1> QED BY <1>1, <1>2, <1>3, ClearedUnapplied

\* A claim that disappears without a merge was not carried out, for all that
\* reconcileMergeClaim and the handlers that call it can see of the branches.
THEOREM AppliedMergeIsKept == Spec => AppliedMergeKept
PROOF
<1> DEFINE Unapplied == \/ request.result = NoCommit
                        \/ refs["target"] # NoCommit /\ ~(request.result \subseteq refs["target"])
           Kept == request.claim # 0 /\ request'.claim # request.claim /\ request'.state # "merged"
                   => Unapplied
<1>1. IInv /\ [Next]_vars => [Kept]_vars
  <2> SUFFICES ASSUME IInv, Next,
                      request.claim # 0, request'.claim # request.claim, request'.state # "merged"
               PROVE  Unapplied
      OBVIOUS
  <2>1. request' # request /\ request.state = "open"
        BY DEF IInv, RecordOK, ClaimRecord
  <2>2. ASSUME NEW b \in Branch, receivePack(b) \/ deleteBranch(b)
        PROVE  FALSE
        BY <2>1, <2>2 DEF receivePack, deleteBranch
  <2>3. CASE mergeRepositoryBranches \/ createMergeRequest \/ updateTarget \/ targetHasChanged
             \/ planFails \/ updateTargetFails \/ saveFails \/ moveOutside \/ Restart \/ seeInterrupted
        BY <2>1, <2>3 DEF mergeRepositoryBranches, createMergeRequest, updateTarget,
               targetHasChanged, planFails, updateTargetFails, saveFails, moveOutside, Restart,
               seeInterrupted
  <2>4. RecordOK(Recovered)
        BY RecoveredOK
  <2>5. CASE createReviewThread
    <3>1. Recovered.state = "open" => [Recovered EXCEPT !.thread = "open"].state = "open"
          BY <2>4 DEF RecordOK, Request
    <3> QED BY <2>5, <3>1, HandlerDrops DEF createReviewThread
  <2>6. ASSUME NEW resolved \in BOOLEAN, updateReviewThread(resolved)
        PROVE  Unapplied
        BY <2>6, HandlerDrops DEF updateReviewThread
  <2>7. ASSUME NEW user \in User, approveMergeRequest(user, refs["source"])
        PROVE  Unapplied
        BY <2>7, HandlerDrops DEF approveMergeRequest
  <2>8. ASSUME NEW state \in {"open", "closed"}, updateMergeRequest(state)
        PROVE  Unapplied
        BY <2>8, HandlerDrops DEF updateMergeRequest
  <2>9. CASE abandonMergeClaim
        BY <2>9 DEF abandonMergeClaim, Ambiguous, Unreadable, TargetHasResult, Contains
  <2>10. ASSUME claimMerge(refs["source"])
         PROVE  Unapplied
    <3>1. Recovered.claim = 0 /\ Recovered.state = "open" /\ Recovers
          BY <2>10 DEF claimMerge, MayClaim
    <3>2. Interrupted(request) /\ Recovered = Settled(request)
          BY <3>1 DEF Recovered
    <3> QED BY <3>1, <3>2, ClearedUnapplied DEF Recovers
  <2>11. CASE refuseMerge
        BY <2>11, ClearedUnapplied DEF refuseMerge, Recovers, Recovered
  <2>12. CASE planUpToDate \/ planFastForward \/ planMergeCommit
    <3>1. request'.claim = request.claim
          BY <2>12 DEF planUpToDate, planFastForward, planMergeCommit, Planned, IInv, RecordOK, Request
    <3> QED BY <3>1
  <2>13. CASE recordMerged
    <3>1. request'.state = "merged"
          BY <2>13 DEF recordMerged, clearMergeClaim, IInv, RecordOK, Request
    <3> QED BY <3>1
  <2>14. CASE reconcileFailure
        BY <2>1, <2>14, ClearedUnapplied DEF reconcileFailure
  <2>15. CASE recoverInterrupted
        BY <2>1, <2>15, ClearedUnapplied DEF recoverInterrupted
  <2> QED
      BY <2>2, <2>3, <2>5, <2>6, <2>7, <2>8, <2>9, <2>10, <2>11, <2>12, <2>13, <2>14, <2>15 DEF Next
<1> QED BY <1>1, Invariant, PTL DEF Spec, AppliedMergeKept
===================================================================================
