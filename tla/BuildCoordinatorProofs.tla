------------------------ MODULE BuildCoordinatorProofs ------------------------
(* Machine-checked proofs about the build queue, for any number of handlers,  *)
(* runners, pushes, jobs, reruns, attempts and faults.                        *)
EXTENDS BuildCoordinator, TLAPS

-----------------------------------------------------------------------------
(* The inductive invariant: what the locks and the call records guarantee.    *)

\* The label of a handler and the request it serves agree.
CallShape ==
    \A t \in Thread :
        /\ pc[t] = "idle" => call[t].op = "none"
        /\ pc[t] = "locked" => call[t].op \in {"start", "cancel", "complete"}
        /\ call[t].op \in {"start", "cancel", "complete"} => own(t) \in JobId
        /\ call[t].op \in {"none", "schedule", "claim", "grant"} => own(t) = NoJob
        /\ pc[t] \in {"pending", "collect"} => call[t].op = "claim"
        /\ pc[t] = "grant" => call[t].op = "grant"
        /\ pc[t] = "saving" => call[t].op = "schedule"
        /\ pc[t] \in {"scan", "want", "update"} => call[t].op # "none"
        /\ pc[t] \in {"want", "update"} => upd[t] \in JobId

\* While one handler holds a lock in Exclusive mode, the others are outside.
ExclusiveAlone ==
    \A t, u \in Thread :
        t # u /\ Exclusive(t) /\ pc[t] # "pending" => pc[u] \in {"idle", "pending"}

\* What ScheduleLocked still has to save does not exist yet.
SavingFresh ==
    \A t \in Thread : pc[t] = "saving" =>
        \A j \in todo[t] : name(j) \in Name /\ jobs[j].status = "absent"

\* What Claim still may grant is queued, or running on an expired lease.
GrantCurrent ==
    \A t \in Thread : call[t].op = "grant" =>
        \A j \in todo[t] : \/ jobs[j].status = "queued"
                           \/ jobs[j].status = "running" /\ jobs[j].lease = "expired"

\* A handler that reconciles has moved its own job out of the reach of every
\* reconciliation.
OwnSettled ==
    \A t \in Thread : pc[t] \in {"scan", "want", "update"} /\ own(t) \in JobId =>
        jobs[own(t)].status \notin {"waiting", "manual"}

\* The running jobs are the leased ones.
LeaseShape == \A j \in JobId : jobs[j].status = "running" <=> jobs[j].lease # "none"

IInv ==
    /\ TypeOK
    /\ CallShape
    /\ ExclusiveAlone
    /\ SavingFresh
    /\ GrantCurrent
    /\ OwnSettled
    /\ DependenciesSucceeded
    /\ NoCircularWait
    /\ LeaseShape

(* The components of job identifiers. *)
LEMMA JobIdFacts ==
    /\ \A p \in Push, n \in Name \cup {ConfigName} : <<p, n, 0>> \in JobId
    /\ \A j \in JobId : push(j) \in Push /\ name(j) \in Name \cup {ConfigName}
  BY ConstantsAssumption DEF JobId, push, name

(* Records written by the handlers are job records. *)
LEMMA NewJobType ==
    ASSUME NEW c \in Nat, NEW s \in Status, NEW needs \in SUBSET JobId, NEW e \in Cause,
           clock \in Nat
    PROVE  /\ NewJob(s, needs, e) \in Job
           /\ [NewJob(s, needs, e) EXCEPT !.created = c] \in Job
  BY DEF NewJob, Job

\* The record ScheduleLocked saves for a configured job is a job record.
LEMMA ConfiguredJobType ==
    ASSUME NEW p \in Push, NEW n \in Name, clock \in Nat
    PROVE  ConfiguredJob(p, n) \in Job
<1> DEFINE needs == {<<p, d, 0>> : d \in Needs[p][n] \cap Matches[p]}
<1>1. needs \in SUBSET JobId
  BY ConstantsAssumption, JobIdFacts
<1>2. /\ "failed" \in Status /\ "manual" \in Status
      /\ "waiting" \in Status /\ "queued" \in Status
      /\ "configuration" \in Cause /\ NoError \in Cause
  BY DEF Status, Cause
<1>3. /\ NewJob("failed", needs, "configuration") \in Job
      /\ NewJob("manual", needs, NoError) \in Job
      /\ NewJob("waiting", needs, NoError) \in Job
      /\ NewJob("queued", {}, NoError) \in Job
  <2> HIDE DEF needs
  <2> QED BY <1>1, <1>2, NewJobType
<1> QED BY <1>3 DEF ConfiguredJob

\* The record Start, Cancel or Complete saves for its own job is a job
\* record.
LEMMA OwnRecordType ==
    ASSUME TypeOK, NEW c \in Call, c.job \in JobId
    PROVE  OwnRecord(c) \in Job
<1>1. jobs[c.job] \in Job
  BY DEF TypeOK
<1>2. c.error \in BuildError \cup {NoError} /\ c.error \in Cause
  BY DEF Call, Cause
<1> QED
  BY <1>1, <1>2 DEF OwnRecord, StartedJob, CanceledJob, CompletedJob, Job, Status, Cause

\* The record a reconciliation saves is a job record.
LEMMA ReconciledType ==
    ASSUME NEW J \in [JobId -> Job], NEW j \in JobId
    PROVE  Reconciled(J, j) \in Job
<1>1. J[j] \in Job
  OBVIOUS
<1>2. /\ [J[j] EXCEPT !.status = "failed", !.error = "dependency"] \in Job
      /\ [J[j] EXCEPT !.status = "queued"] \in Job
  BY <1>1 DEF Job, Status, Cause
<1> QED BY <1>2 DEF Reconciled

\* A reconciliation updates jobs of the repository only.
LEMMA UpdatesType == \A J : Updates(J) \subseteq JobId
  BY DEF Updates, Failing, Promotable, Chain

\* An idle handler serves no call.
LEMMA NoCallType == NoCall \in Call
  BY DEF NoCall, Call

-----------------------------------------------------------------------------
(* Every behaviour of the queue keeps its type, the job records included. *)
LEMMA TypeInit == Init => TypeOK
  BY NoCallType, ConstantsAssumption
  DEF Init, TypeOK, NoRecord, Job, Status, Cause, Label

\* Leasing, failing, renewing and expiring keep a record a job record.
LEMMA LeaseTypes ==
    ASSUME NEW j \in Job, NEW r \in Runner \cup {NoRunner}
    PROVE  /\ [j EXCEPT !.status = "running", !.runner = r, !.attempt = @ + 1,
                        !.lease = "live"] \in Job
           /\ [j EXCEPT !.status = "failed", !.error = "configuration",
                        !.lease = "none"] \in Job
           /\ [j EXCEPT !.lease = "live"] \in Job
           /\ [j EXCEPT !.lease = "expired"] \in Job
<1>1. "running" \in Status /\ "failed" \in Status /\ "configuration" \in Cause
  BY DEF Status, Cause
<1>2. j.attempt + 1 \in Nat
  BY DEF Job
<1>3. [j EXCEPT !.status = "running", !.runner = r, !.attempt = @ + 1, !.lease = "live"] \in Job
  BY <1>1, <1>2 DEF Job
<1>4. [j EXCEPT !.status = "failed", !.error = "configuration", !.lease = "none"] \in Job
  BY <1>1 DEF Job
<1>5. [j EXCEPT !.lease = "live"] \in Job /\ [j EXCEPT !.lease = "expired"] \in Job
  BY DEF Job
<1> QED BY <1>3, <1>4, <1>5

(* Only jobs that wait or are manual are ever updated by a reconciliation. *)
LEMMA UpdatesReconcilable == \A J : \A j \in Updates(J) : j \in JobId /\ Reconcilable(J, j)
  BY DEF Updates, Failing, Promotable, Chain

\* A reconciliation fails a job, or queues one that is ready; it changes
\* neither its needs nor its lease.
LEMMA ReconciledStatus ==
    ASSUME NEW J \in [JobId -> Job], NEW j \in Updates(J)
    PROVE  /\ Reconciled(J, j).needs = J[j].needs
           /\ Reconciled(J, j).lease = J[j].lease
           /\ Reconciled(J, j).status \in {"failed", "queued"}
           /\ Reconciled(J, j).status = "queued" =>
                 \A d \in J[j].needs : J[d].status = "succeeded"
<1>1. J[j] \in Job
  BY UpdatesReconcilable
<1>2. /\ [J[j] EXCEPT !.status = "failed", !.error = "dependency"].needs = J[j].needs
      /\ [J[j] EXCEPT !.status = "failed", !.error = "dependency"].status = "failed"
      /\ [J[j] EXCEPT !.status = "failed", !.error = "dependency"].lease = J[j].lease
      /\ [J[j] EXCEPT !.status = "queued"].lease = J[j].lease
      /\ [J[j] EXCEPT !.status = "queued"].needs = J[j].needs
      /\ [J[j] EXCEPT !.status = "queued"].status = "queued"
  BY <1>1 DEF Job
<1>3. CASE j \in Failing(J)
  BY <1>2, <1>3 DEF Reconciled
<1>4. CASE j \notin Failing(J)
  <2>1. Ready(J, j)
    BY <1>4 DEF Updates, Promotable
  <2> QED BY <1>2, <1>4, <2>1 DEF Reconciled, Ready
<1> QED BY <1>3, <1>4

(* Writing one job keeps the dependency order if the job had not succeeded,   *)
(* and enters the queue only when all it needs has succeeded.                 *)
LEMMA DependenciesKept ==
    ASSUME TypeOK, DependenciesSucceeded, NEW j \in JobId, NEW rec \in Job,
           jobs' = [jobs EXCEPT ![j] = rec],
           jobs[j].status # "succeeded",
           rec.status \in {"queued", "running", "succeeded"} =>
               \A d \in rec.needs : jobs[d].status = "succeeded"
    PROVE  DependenciesSucceeded'
<1> SUFFICES ASSUME NEW i \in JobId, jobs'[i].status \in {"queued", "running", "succeeded"},
                    NEW d \in jobs'[i].needs
             PROVE  jobs'[d].status = "succeeded"
  BY DEF DependenciesSucceeded
<1>1. /\ jobs'[j] = rec
      /\ \A k \in JobId \ {j} : jobs'[k] = jobs[k]
      /\ jobs'[i] \in Job
  BY DEF TypeOK
<1>2. d \in JobId
  BY <1>1 DEF Job
<1>3. jobs[d].status = "succeeded"
  BY <1>1 DEF DependenciesSucceeded
<1> QED BY <1>1, <1>2, <1>3

(* A written job keeps the leases right if its own status and lease agree. *)
LEMMA LeaseKept ==
    ASSUME TypeOK, LeaseShape, NEW j \in JobId, NEW rec, jobs' = [jobs EXCEPT ![j] = rec],
           rec.status = "running" <=> rec.lease # "none"
    PROVE  LeaseShape'
  BY DEF TypeOK, LeaseShape

\* The empty queue satisfies the invariant.
LEMMA InitInv == Init => IInv
<1> SUFFICES ASSUME Init PROVE IInv
  OBVIOUS
<1>1. TypeOK
  BY TypeInit
<1> QED BY <1>1 DEF Init, IInv, CallShape, own, NoCall, NoRecord, ExclusiveAlone, SavingFresh, GrantCurrent,
      OwnSettled, DependenciesSucceeded, NoCircularWait, LeaseShape

\* Recording an unusable configuration (failedConfigurationJob) keeps the
\* invariant.
LEMMA ScheduleInvalidStep ==
    ASSUME IInv, NEW p \in Push, ScheduleInvalid(p)
    PROVE  IInv'
<1> USE DEF IInv
<1>1. TypeOK'
  <2>1. <<p, ConfigName, 0>> \in JobId
    BY JobIdFacts
  <2>2. [NewJob("failed", {}, "configuration") EXCEPT !.created = clock'] \in Job
    <3>1. clock' \in Nat /\ clock \in Nat /\ {} \in SUBSET JobId
      BY DEF ScheduleInvalid, TypeOK
    <3>2. "failed" \in Status /\ "configuration" \in Cause
      BY DEF Status, Cause
    <3> QED BY <3>1, <3>2, NewJobType
  <2> QED BY <2>1, <2>2 DEF ScheduleInvalid, TypeOK
<1>2. CallShape'
  BY DEF ScheduleInvalid, NewJob, CallShape, own, TypeOK
<1>3. ExclusiveAlone'
  BY DEF ScheduleInvalid, NewJob, ExclusiveAlone, Exclusive, TypeOK
<1>4. SavingFresh'
  BY DEF ScheduleInvalid, NewJob, SavingFresh, ExclusiveGranted, TypeOK
<1>5. GrantCurrent'
  BY DEF ScheduleInvalid, NewJob, GrantCurrent, TypeOK
<1>6. OwnSettled'
  BY DEF ScheduleInvalid, NewJob, OwnSettled, own, TypeOK
<1>7. DependenciesSucceeded'
  BY DEF ScheduleInvalid, NewJob, DependenciesSucceeded, TypeOK
<1>8. NoCircularWait'
  BY DEF ScheduleInvalid, NewJob, NoCircularWait, HoldsJob, own, TypeOK
<1>9. LeaseShape'
  BY DEF ScheduleInvalid, NewJob, LeaseShape, TypeOK
<1> QED BY <1>1, <1>2, <1>3, <1>4, <1>5, <1>6, <1>7, <1>8, <1>9

\* Entering ScheduleLocked keeps the invariant.
LEMMA ScheduleBeginStep ==
    ASSUME IInv, NEW t \in Thread, NEW p \in Push, ScheduleBegin(t, p)
    PROVE  IInv'
<1> USE DEF IInv
<1>1. TypeOK'
  <2>1. {<<p, n, 0>> : n \in Matches[p]} \in SUBSET JobId
    BY JobIdFacts, ConstantsAssumption
  <2>2. [NoCall EXCEPT !.op = "schedule"] \in Call
    BY DEF NoCall, Call
  <2> QED BY <2>1, <2>2 DEF ScheduleBegin, TypeOK, Label
<1>2. CallShape'
  BY DEF ScheduleBegin, CallShape, own, TypeOK, NoCall
<1>3. ExclusiveAlone'
  BY DEF ScheduleBegin, ExclusiveAlone, Exclusive, ExclusiveGranted, TypeOK
<1>4. SavingFresh'
  <2>1. \A n \in Matches[p] : /\ n \in Name /\ <<p, n, 0>> \in JobId
                              /\ push(<<p, n, 0>>) = p /\ name(<<p, n, 0>>) = n
    BY JobIdFacts, ConstantsAssumption DEF push, name
  <2>2. \A j \in {<<p, n, 0>> : n \in Matches[p]} : name(j) \in Name /\ jobs[j].status = "absent"
    BY <2>1 DEF ScheduleBegin
  <2> QED BY <2>2 DEF ScheduleBegin, SavingFresh, TypeOK
<1>5. GrantCurrent'
  BY DEF ScheduleBegin, GrantCurrent, TypeOK
<1>6. OwnSettled'
  BY DEF ScheduleBegin, OwnSettled, own, TypeOK
<1>7. DependenciesSucceeded'
  BY DEF ScheduleBegin, DependenciesSucceeded, TypeOK
<1>8. NoCircularWait'
  BY DEF ScheduleBegin, NoCircularWait, HoldsJob, own, TypeOK
<1>9. LeaseShape'
  BY DEF ScheduleBegin, LeaseShape, TypeOK
<1> QED BY <1>1, <1>2, <1>3, <1>4, <1>5, <1>6, <1>7, <1>8, <1>9

\* Saving one scheduled job keeps the invariant: nothing needs it to have
\* succeeded yet.
LEMMA ScheduleSaveStep ==
    ASSUME IInv, NEW t \in Thread, ScheduleSave(t)
    PROVE  IInv'
<1> USE DEF IInv
<1> PICK j \in todo[t] :
      /\ jobs' = [jobs EXCEPT ![j] = ConfiguredJob(push(j), name(j))]
      /\ todo' = [todo EXCEPT ![t] = @ \ {j}]
      /\ pc' = [pc EXCEPT ![t] = IF todo[t] = {j} THEN "scan" ELSE "saving"]
  BY DEF ScheduleSave
<1>a. /\ j \in JobId /\ pc[t] = "saving" /\ jobs[j].status = "absent"
      /\ ConfiguredJob(push(j), name(j)) \in Job
  BY JobIdFacts, ConfiguredJobType DEF ScheduleSave, SavingFresh, TypeOK
<1>1. TypeOK'
  BY <1>a DEF ScheduleSave, TypeOK, Label
<1>2. CallShape'
  BY DEF ScheduleSave, CallShape, own, TypeOK
<1>3. ExclusiveAlone'
  BY DEF ScheduleSave, ExclusiveAlone, Exclusive, TypeOK
<1>4. SavingFresh'
  BY DEF ScheduleSave, SavingFresh, Exclusive, TypeOK, CallShape, ExclusiveAlone
<1>5. GrantCurrent'
  BY DEF ScheduleSave, GrantCurrent, Exclusive, TypeOK, CallShape, ExclusiveAlone
<1>6. OwnSettled'
  <2>1. own(t) \notin JobId /\ \A u \in Thread \ {t} : pc[u] \in {"idle", "pending"}
    BY <1>a, ConstantsAssumption DEF CallShape, ExclusiveAlone, Exclusive
  <2> QED BY <1>a, <2>1 DEF ScheduleSave, OwnSettled, own, TypeOK
<1>7. DependenciesSucceeded'
  <2> DEFINE rec == ConfiguredJob(push(j), name(j))
  <2>1. rec.status \in {"failed", "manual", "waiting"} \/ rec.needs = {}
    BY DEF ConfiguredJob, NewJob
  <2> QED BY <1>a, <2>1, DependenciesKept
<1>8. NoCircularWait'
  BY DEF ScheduleSave, NoCircularWait, HoldsJob, own, TypeOK
<1>9. LeaseShape'
  <2> DEFINE rec == ConfiguredJob(push(j), name(j))
  <2>1. rec.status # "running" /\ rec.lease = "none"
    BY DEF ConfiguredJob, NewJob
  <2> QED BY <1>a, <2>1, LeaseKept
<1> QED BY <1>1, <1>2, <1>3, <1>4, <1>5, <1>6, <1>7, <1>8, <1>9

\* Taking the locks of Start, Cancel or Complete keeps the invariant.
LEMMA BeginStep ==
    ASSUME IInv, NEW t \in Thread, NEW c \in Call, c.op \in {"start", "cancel", "complete"}, c.job \in JobId, Begin(t, c)
    PROVE  IInv'
<1> USE DEF IInv
<1>1. TypeOK'
  BY NoCallType DEF Begin, TypeOK, Label
<1>2. CallShape'
  BY DEF Begin, CallShape, own, TypeOK
<1>3. ExclusiveAlone'
  BY DEF Begin, ExclusiveAlone, Exclusive, SharedGranted, TypeOK
<1>4. SavingFresh'
  BY DEF Begin, SavingFresh, TypeOK
<1>5. GrantCurrent'
  BY DEF Begin, GrantCurrent, TypeOK
<1>6. OwnSettled'
  BY DEF Begin, OwnSettled, own, TypeOK
<1>7. DependenciesSucceeded'
  BY DEF Begin, DependenciesSucceeded, TypeOK
<1>8. NoCircularWait'
  BY DEF Begin, NoCircularWait, HoldsJob, own, TypeOK
<1>9. LeaseShape'
  BY DEF Begin, LeaseShape, TypeOK
<1> QED BY <1>1, <1>2, <1>3, <1>4, <1>5, <1>6, <1>7, <1>8, <1>9

\* Saving the own job keeps the invariant: it leaves the reach of every scan
\* before the handler scans.
LEMMA SaveOwnStep ==
    ASSUME IInv, NEW t \in Thread, SaveOwn(t)
    PROVE  IInv'
<1> USE DEF IInv
<1> DEFINE rec == OwnRecord(call[t])
<1>a. own(t) \in JobId /\ call[t] \in Call /\ rec \in Job
  BY OwnRecordType DEF SaveOwn, CallShape, TypeOK, own
<1>b. jobs[own(t)] \in Job /\ jobs[own(t)].status # "succeeded"
  BY <1>a DEF SaveOwn, Accepted, StartAccepted, CancelAccepted, CompleteAccepted, TypeOK, own
<1>c. /\ rec.status \notin {"waiting", "manual", "running"} /\ rec.lease = "none"
      /\ rec.needs = jobs[own(t)].needs
      /\ rec.status \in {"queued", "running", "succeeded"} =>
             \A d \in rec.needs : jobs[d].status = "succeeded"
  <2>1. CASE call[t].op = "start"
    <3>1. rec = [jobs[own(t)] EXCEPT !.status = "queued"] /\ Ready(jobs, own(t))
      BY <2>1 DEF OwnRecord, StartedJob, SaveOwn, Accepted, StartAccepted, own
    <3>2. jobs[own(t)].lease = "none"
      BY <1>a, <2>1 DEF SaveOwn, Accepted, StartAccepted, LeaseShape, own
    <3> QED BY <1>b, <3>1, <3>2 DEF Ready, Job
  <2>2. CASE call[t].op = "cancel"
    <3>1. rec = [jobs[own(t)] EXCEPT !.status = "canceled", !.lease = "none", !.error = NoError]
      BY <2>2 DEF OwnRecord, CanceledJob, own
    <3> QED BY <1>b, <3>1 DEF Job
  <2>3. CASE call[t].op = "complete"
    <3>1. /\ rec = [jobs[own(t)] EXCEPT
                      !.status = IF call[t].error = NoError THEN "succeeded" ELSE "failed",
                      !.lease = "none", !.error = call[t].error]
          /\ jobs[own(t)].status = "running"
      BY <2>3 DEF OwnRecord, CompletedJob, SaveOwn, Accepted, CompleteAccepted, own
    <3> QED BY <1>a, <1>b, <3>1 DEF Job, DependenciesSucceeded
  <2> QED BY <2>1, <2>2, <2>3 DEF SaveOwn, CallShape
<1>1. TypeOK'
  BY <1>a DEF SaveOwn, Goto, TypeOK, Label
<1>2. CallShape'
  BY DEF SaveOwn, Goto, CallShape, own, TypeOK
<1>3. ExclusiveAlone'
  BY DEF SaveOwn, Goto, ExclusiveAlone, Exclusive, TypeOK
<1>4. SavingFresh'
  BY DEF SaveOwn, Goto, SavingFresh, Exclusive, TypeOK, CallShape, ExclusiveAlone
<1>5. GrantCurrent'
  BY DEF SaveOwn, Goto, GrantCurrent, Exclusive, TypeOK, CallShape, ExclusiveAlone
<1>6. OwnSettled'
  BY <1>a, <1>c DEF SaveOwn, Goto, OwnSettled, own, TypeOK
<1>7. DependenciesSucceeded'
  BY <1>a, <1>b, <1>c, DependenciesKept DEF SaveOwn
<1>8. NoCircularWait'
  BY DEF SaveOwn, Goto, NoCircularWait, HoldsJob, own, TypeOK
<1>9. LeaseShape'
  BY <1>a, <1>c, LeaseKept DEF SaveOwn
<1> QED BY <1>1, <1>2, <1>3, <1>4, <1>5, <1>6, <1>7, <1>8, <1>9

\* An early return keeps the invariant.
LEMMA RefuseStep ==
    ASSUME IInv, NEW t \in Thread, Refuse(t)
    PROVE  IInv'
<1> USE DEF IInv
<1>1. TypeOK'
  BY NoCallType DEF Refuse, Finish, TypeOK, Label
<1>2. CallShape'
  BY DEF Refuse, Finish, CallShape, own, TypeOK, NoCall
<1>3. ExclusiveAlone'
  BY DEF Refuse, Finish, ExclusiveAlone, Exclusive, TypeOK
<1>4. SavingFresh'
  BY DEF Refuse, Finish, SavingFresh, TypeOK
<1>5. GrantCurrent'
  BY DEF Refuse, Finish, GrantCurrent, TypeOK
<1>6. OwnSettled'
  BY DEF Refuse, Finish, OwnSettled, own, TypeOK
<1>7. DependenciesSucceeded'
  BY DEF Refuse, Finish, DependenciesSucceeded, TypeOK
<1>8. NoCircularWait'
  BY DEF Refuse, Finish, NoCircularWait, HoldsJob, own, TypeOK
<1>9. LeaseShape'
  BY DEF Refuse, Finish, LeaseShape, TypeOK
<1> QED BY <1>1, <1>2, <1>3, <1>4, <1>5, <1>6, <1>7, <1>8, <1>9

\* Selecting a job to update keeps the invariant: it is nobody's own job
\* beyond its first save.
LEMMA ScanStep ==
    ASSUME IInv, NEW t \in Thread, Scan(t)
    PROVE  IInv'
<1> USE DEF IInv
<1> PICK u \in FirstListed(jobs, Updates(jobs)) :
      /\ upd' = [upd EXCEPT ![t] = u]
      /\ pc' = [pc EXCEPT ![t] = IF u = own(t) THEN "update" ELSE "want"]
  BY DEF Scan
<1>a. u \in JobId /\ jobs[u].status \in {"waiting", "manual"}
  BY UpdatesReconcilable DEF FirstListed, Reconcilable
<1>1. TypeOK'
  BY <1>a DEF Scan, TypeOK, Label
<1>2. CallShape'
  BY <1>a DEF Scan, CallShape, own, TypeOK
<1>3. ExclusiveAlone'
  BY DEF Scan, ExclusiveAlone, Exclusive, TypeOK
<1>4. SavingFresh'
  BY DEF Scan, SavingFresh, TypeOK
<1>5. GrantCurrent'
  BY DEF Scan, GrantCurrent, TypeOK
<1>6. OwnSettled'
  BY DEF Scan, OwnSettled, own, TypeOK
<1>7. DependenciesSucceeded'
  BY DEF Scan, DependenciesSucceeded, TypeOK
<1>8. NoCircularWait'
  <2> SUFFICES ASSUME NEW D \in (SUBSET Thread) \ {{}}
               PROVE  \E v \in D : ~ (pc'[v] = "want" /\ \E w \in D : HoldsJob(w, upd[v])')
    BY DEF NoCircularWait
  <2>1. \A v \in Thread \ {t} : pc'[v] = pc[v] /\ upd'[v] = upd[v]
    BY DEF Scan, TypeOK
  <2>2. CASE \E v \in D : pc'[v] # "want"
    BY <2>2
  <2>3. CASE t \in D /\ \A v \in D : pc'[v] = "want"
    <3>1. pc'[t] = "want" /\ upd'[t] = u /\ u # own(t)
      BY <2>3 DEF TypeOK
    <3>2. \A w \in D : own(w) # u
      BY <1>a, <2>1, <2>3, <3>1 DEF OwnSettled
    <3>3. \A w \in D : ~HoldsJob(w, upd[t])'
      BY <2>3, <3>1, <3>2 DEF HoldsJob, own, Scan
    <3> QED BY <2>3, <3>3
  <2>4. CASE t \notin D
    BY <2>1, <2>4 DEF NoCircularWait, HoldsJob, own, Scan
  <2> QED BY <2>2, <2>3, <2>4
<1>9. LeaseShape'
  BY DEF Scan, LeaseShape, TypeOK
<1> QED BY <1>1, <1>2, <1>3, <1>4, <1>5, <1>6, <1>7, <1>8, <1>9

\* Ending a reconciliation keeps the invariant.
LEMMA ScanDoneStep ==
    ASSUME IInv, NEW t \in Thread, ScanDone(t)
    PROVE  IInv'
<1> USE DEF IInv
<1>1. TypeOK'
  BY NoCallType DEF ScanDone, Goto, Finish, TypeOK, Label
<1>2. CallShape'
  BY DEF ScanDone, Goto, Finish, CallShape, own, TypeOK, NoCall
<1>3. ExclusiveAlone'
  BY DEF ScanDone, Goto, Finish, ExclusiveAlone, Exclusive, TypeOK
<1>4. SavingFresh'
  BY DEF ScanDone, Goto, Finish, SavingFresh, TypeOK
<1>5. GrantCurrent'
  BY DEF ScanDone, Goto, Finish, GrantCurrent, TypeOK
<1>6. OwnSettled'
  BY DEF ScanDone, Goto, Finish, OwnSettled, own, TypeOK
<1>7. DependenciesSucceeded'
  BY DEF ScanDone, Goto, Finish, DependenciesSucceeded, TypeOK
<1>8. NoCircularWait'
  BY DEF ScanDone, Goto, Finish, NoCircularWait, HoldsJob, own, TypeOK
<1>9. LeaseShape'
  BY DEF ScanDone, Goto, Finish, LeaseShape, TypeOK
<1> QED BY <1>1, <1>2, <1>3, <1>4, <1>5, <1>6, <1>7, <1>8, <1>9

\* Taking the lock of the selected job keeps the invariant.
LEMMA LockUpdateStep ==
    ASSUME IInv, NEW t \in Thread, LockUpdate(t)
    PROVE  IInv'
<1> USE DEF IInv
<1>1. TypeOK'
  BY NoCallType DEF LockUpdate, Goto, TypeOK, Label
<1>2. CallShape'
  BY DEF LockUpdate, Goto, CallShape, own, TypeOK
<1>3. ExclusiveAlone'
  BY DEF LockUpdate, Goto, ExclusiveAlone, Exclusive, TypeOK
<1>4. SavingFresh'
  BY DEF LockUpdate, Goto, SavingFresh, TypeOK
<1>5. GrantCurrent'
  BY DEF LockUpdate, Goto, GrantCurrent, TypeOK
<1>6. OwnSettled'
  BY DEF LockUpdate, Goto, OwnSettled, own, TypeOK
<1>7. DependenciesSucceeded'
  BY DEF LockUpdate, Goto, DependenciesSucceeded, TypeOK
<1>8. NoCircularWait'
  BY DEF LockUpdate, Goto, NoCircularWait, HoldsJob, own, TypeOK
<1>9. LeaseShape'
  BY DEF LockUpdate, Goto, LeaseShape, TypeOK
<1> QED BY <1>1, <1>2, <1>3, <1>4, <1>5, <1>6, <1>7, <1>8, <1>9

\* Saving the recomputed update keeps the invariant.
LEMMA UpdateStep ==
    ASSUME IInv, NEW t \in Thread, Update(t)
    PROVE  IInv'
<1> USE DEF IInv
<1> DEFINE rec == Reconciled(jobs, upd[t])
<1>a. upd[t] \in JobId /\ jobs \in [JobId -> Job] /\ jobs[upd[t]] \in Job
  BY DEF Update, CallShape, TypeOK
<1>b. CASE upd[t] \notin Updates(jobs)
  BY <1>b DEF Update, Goto, TypeOK, Label, CallShape, own, ExclusiveAlone, Exclusive, SavingFresh,
       GrantCurrent, OwnSettled, DependenciesSucceeded, NoCircularWait, HoldsJob, LeaseShape
<1> SUFFICES ASSUME upd[t] \in Updates(jobs) PROVE IInv'
  BY <1>b
<1>c. /\ jobs' = [jobs EXCEPT ![upd[t]] = rec] /\ rec \in Job
      /\ jobs[upd[t]].status \in {"waiting", "manual"}
      /\ rec.status \in {"failed", "queued"} /\ rec.lease = jobs[upd[t]].lease
      /\ rec.status = "queued" => \A d \in rec.needs : jobs[d].status = "succeeded"
  BY <1>a, ReconciledType, ReconciledStatus, UpdatesReconcilable DEF Update, Reconcilable
<1>1. TypeOK'
  BY <1>a, <1>c DEF Update, Goto, TypeOK, Label
<1>2. CallShape'
  BY DEF Update, Goto, CallShape, own, TypeOK
<1>3. ExclusiveAlone'
  BY DEF Update, Goto, ExclusiveAlone, Exclusive, TypeOK
<1>4. SavingFresh'
  BY <1>a, <1>c DEF Update, Goto, SavingFresh, TypeOK
<1>5. GrantCurrent'
  BY <1>a, <1>c DEF Update, Goto, GrantCurrent, TypeOK
<1>6. OwnSettled'
  BY <1>a, <1>c DEF Update, Goto, OwnSettled, own, TypeOK
<1>7. DependenciesSucceeded'
  BY <1>a, <1>c, DependenciesKept DEF Update
<1>8. NoCircularWait'
  BY DEF Update, Goto, NoCircularWait, HoldsJob, own, TypeOK
<1>9. LeaseShape'
  BY <1>a, <1>c, LeaseKept DEF LeaseShape
<1> QED BY <1>1, <1>2, <1>3, <1>4, <1>5, <1>6, <1>7, <1>8, <1>9

\* Asking for the Exclusive catalog lock keeps the invariant.
LEMMA ClaimBeginStep ==
    ASSUME IInv, NEW t \in Thread, NEW r \in Runner, ClaimBegin(t, r)
    PROVE  IInv'
<1> USE DEF IInv
<1>1. TypeOK'
  BY NoCallType DEF ClaimBegin, TypeOK, Label, Call
<1>2. CallShape'
  BY DEF ClaimBegin, CallShape, own, TypeOK, NoCall
<1>3. ExclusiveAlone'
  BY DEF ClaimBegin, ExclusiveAlone, Exclusive, TypeOK
<1>4. SavingFresh'
  BY DEF ClaimBegin, SavingFresh, TypeOK
<1>5. GrantCurrent'
  BY DEF ClaimBegin, GrantCurrent, TypeOK
<1>6. OwnSettled'
  BY DEF ClaimBegin, OwnSettled, own, TypeOK
<1>7. DependenciesSucceeded'
  BY DEF ClaimBegin, DependenciesSucceeded, TypeOK
<1>8. NoCircularWait'
  BY DEF ClaimBegin, NoCircularWait, HoldsJob, own, TypeOK
<1>9. LeaseShape'
  BY DEF ClaimBegin, LeaseShape, TypeOK
<1> QED BY <1>1, <1>2, <1>3, <1>4, <1>5, <1>6, <1>7, <1>8, <1>9

\* Getting the Exclusive catalog lock keeps the invariant.
LEMMA ClaimEnterStep ==
    ASSUME IInv, NEW t \in Thread, ClaimEnter(t)
    PROVE  IInv'
<1> USE DEF IInv
<1>1. TypeOK'
  BY NoCallType DEF ClaimEnter, Goto, TypeOK, Label
<1>2. CallShape'
  BY DEF ClaimEnter, Goto, CallShape, own, TypeOK
<1>3. ExclusiveAlone'
  BY DEF ClaimEnter, Goto, ExclusiveAlone, Exclusive, TypeOK
<1>4. SavingFresh'
  BY DEF ClaimEnter, Goto, SavingFresh, TypeOK
<1>5. GrantCurrent'
  BY DEF ClaimEnter, Goto, GrantCurrent, TypeOK
<1>6. OwnSettled'
  BY ConstantsAssumption DEF ClaimEnter, Goto, OwnSettled, CallShape, own, TypeOK
<1>7. DependenciesSucceeded'
  BY DEF ClaimEnter, Goto, DependenciesSucceeded, TypeOK
<1>8. NoCircularWait'
  BY DEF ClaimEnter, Goto, NoCircularWait, HoldsJob, own, TypeOK
<1>9. LeaseShape'
  BY DEF ClaimEnter, Goto, LeaseShape, TypeOK
<1> QED BY <1>1, <1>2, <1>3, <1>4, <1>5, <1>6, <1>7, <1>8, <1>9

\* Listing the candidates of a claim keeps the invariant.
LEMMA ClaimCollectStep ==
    ASSUME IInv, NEW t \in Thread, ClaimCollect(t)
    PROVE  IInv'
<1> USE DEF IInv
<1>1. TypeOK'
  BY NoCallType DEF ClaimCollect, candidates, Claimable, TypeOK, Label, Call
<1>2. CallShape'
  BY DEF ClaimCollect, candidates, Claimable, CallShape, own, TypeOK
<1>3. ExclusiveAlone'
  BY DEF ClaimCollect, candidates, Claimable, ExclusiveAlone, Exclusive, TypeOK, CallShape
<1>4. SavingFresh'
  BY DEF ClaimCollect, candidates, Claimable, SavingFresh, TypeOK
<1>5. GrantCurrent'
  <2>1. \A j \in candidates(jobs) :
            \/ jobs[j].status = "queued"
            \/ jobs[j].status = "running" /\ jobs[j].lease = "expired"
    <3>1. \A j \in JobId : jobs[j].lease \in {"none", "live", "expired"}
      BY DEF TypeOK, Job
    <3>2. \A j \in JobId : jobs[j].status = "running" => jobs[j].lease # "none"
      BY DEF LeaseShape
    <3> QED BY <3>1, <3>2 DEF candidates, Claimable
  <2> QED BY <2>1 DEF ClaimCollect, GrantCurrent, TypeOK
<1>6. OwnSettled'
  BY DEF ClaimCollect, candidates, Claimable, OwnSettled, own, TypeOK
<1>7. DependenciesSucceeded'
  BY DEF ClaimCollect, candidates, Claimable, DependenciesSucceeded, TypeOK
<1>8. NoCircularWait'
  BY DEF ClaimCollect, candidates, Claimable, NoCircularWait, HoldsJob, own, TypeOK
<1>9. LeaseShape'
  BY DEF ClaimCollect, candidates, Claimable, LeaseShape, TypeOK
<1> QED BY <1>1, <1>2, <1>3, <1>4, <1>5, <1>6, <1>7, <1>8, <1>9

\* Leasing a candidate keeps the invariant: it is still queued or expired.
LEMMA ClaimGrantStep ==
    ASSUME IInv, NEW t \in Thread, ClaimGrant(t)
    PROVE  IInv'
<1> USE DEF IInv
<1> PICK j \in todo[t] : jobs' = [jobs EXCEPT ![j] = LeasedJob(j, call[t].runner)]
  BY DEF ClaimGrant, FirstCandidate
<1> DEFINE rec == LeasedJob(j, call[t].runner)
<1>a. /\ j \in JobId /\ jobs[j] \in Job /\ rec \in Job
      /\ jobs[j].status \in {"queued", "running"}
      /\ rec.status = "running" /\ rec.lease = "live" /\ rec.needs = jobs[j].needs
  <2>1. j \in JobId /\ jobs[j] \in Job /\ call[t].runner \in Runner \cup {NoRunner}
    BY DEF TypeOK, Call
  <2>2. jobs[j].status \in {"queued", "running"}
    BY DEF ClaimGrant, CallShape, GrantCurrent
  <2> QED BY <2>1, <2>2, LeaseTypes DEF LeasedJob, Job
<1>1. TypeOK'
  BY <1>a, NoCallType DEF ClaimGrant, Finish, TypeOK, Label
<1>2. CallShape'
  BY DEF ClaimGrant, Finish, LeasedJob, FirstCandidate, CallShape, own, TypeOK, NoCall
<1>3. ExclusiveAlone'
  BY DEF ClaimGrant, Finish, LeasedJob, FirstCandidate, ExclusiveAlone, Exclusive, TypeOK
<1>4. SavingFresh'
  BY DEF ClaimGrant, Finish, LeasedJob, FirstCandidate, SavingFresh, Exclusive, TypeOK, CallShape, ExclusiveAlone
<1>5. GrantCurrent'
  BY DEF ClaimGrant, Finish, LeasedJob, FirstCandidate, GrantCurrent, Exclusive, TypeOK, CallShape, ExclusiveAlone
<1>6. OwnSettled'
  BY DEF ClaimGrant, Finish, LeasedJob, FirstCandidate, OwnSettled, own, TypeOK
<1>7. DependenciesSucceeded'
  BY <1>a, DependenciesKept DEF DependenciesSucceeded
<1>8. NoCircularWait'
  BY DEF ClaimGrant, Finish, LeasedJob, FirstCandidate, NoCircularWait, HoldsJob, own, TypeOK
<1>9. LeaseShape'
  BY <1>a, LeaseKept
<1> QED BY <1>1, <1>2, <1>3, <1>4, <1>5, <1>6, <1>7, <1>8, <1>9

\* Failing a candidate without configuration keeps the invariant.
LEMMA ClaimUnpreparedStep ==
    ASSUME IInv, NEW t \in Thread, ClaimUnprepared(t)
    PROVE  IInv'
<1> USE DEF IInv
<1> PICK j \in todo[t] : jobs' = [jobs EXCEPT ![j] = UnpreparedJob(j)]
  BY DEF ClaimUnprepared, FirstCandidate
<1> DEFINE rec == UnpreparedJob(j)
<1>a. /\ j \in JobId /\ jobs[j] \in Job /\ rec \in Job
      /\ jobs[j].status \in {"queued", "running"}
      /\ rec.status = "failed" /\ rec.lease = "none" /\ rec.needs = jobs[j].needs
  <2>1. j \in JobId /\ jobs[j] \in Job /\ call[t].runner \in Runner \cup {NoRunner}
    BY DEF TypeOK, Call
  <2>2. jobs[j].status \in {"queued", "running"}
    BY DEF ClaimUnprepared, CallShape, GrantCurrent
  <2> QED BY <2>1, <2>2, LeaseTypes DEF UnpreparedJob, Job
<1>1. TypeOK'
  BY <1>a, NoCallType DEF ClaimUnprepared, TypeOK, Label
<1>2. CallShape'
  BY DEF ClaimUnprepared, UnpreparedJob, FirstCandidate, CallShape, own, TypeOK
<1>3. ExclusiveAlone'
  BY DEF ClaimUnprepared, UnpreparedJob, FirstCandidate, ExclusiveAlone, Exclusive, TypeOK
<1>4. SavingFresh'
  BY DEF ClaimUnprepared, UnpreparedJob, FirstCandidate, SavingFresh, Exclusive, TypeOK, CallShape, ExclusiveAlone
<1>5. GrantCurrent'
  BY DEF ClaimUnprepared, UnpreparedJob, FirstCandidate, GrantCurrent, Exclusive, TypeOK, CallShape, ExclusiveAlone
<1>6. OwnSettled'
  BY <1>a, ConstantsAssumption DEF ClaimUnprepared, OwnSettled, CallShape, own, TypeOK
<1>7. DependenciesSucceeded'
  BY <1>a, DependenciesKept DEF DependenciesSucceeded
<1>8. NoCircularWait'
  BY DEF ClaimUnprepared, UnpreparedJob, FirstCandidate, NoCircularWait, HoldsJob, own, TypeOK
<1>9. LeaseShape'
  BY <1>a, LeaseKept
<1> QED BY <1>1, <1>2, <1>3, <1>4, <1>5, <1>6, <1>7, <1>8, <1>9

\* A claim that finds nothing keeps the invariant.
LEMMA ClaimNothingStep ==
    ASSUME IInv, NEW t \in Thread, ClaimNothing(t)
    PROVE  IInv'
<1> USE DEF IInv
<1>1. TypeOK'
  BY NoCallType DEF ClaimNothing, Finish, TypeOK, Label
<1>2. CallShape'
  BY DEF ClaimNothing, Finish, CallShape, own, TypeOK, NoCall
<1>3. ExclusiveAlone'
  BY DEF ClaimNothing, Finish, ExclusiveAlone, Exclusive, TypeOK
<1>4. SavingFresh'
  BY DEF ClaimNothing, Finish, SavingFresh, TypeOK
<1>5. GrantCurrent'
  BY DEF ClaimNothing, Finish, GrantCurrent, TypeOK
<1>6. OwnSettled'
  BY DEF ClaimNothing, Finish, OwnSettled, own, TypeOK
<1>7. DependenciesSucceeded'
  BY DEF ClaimNothing, Finish, DependenciesSucceeded, TypeOK
<1>8. NoCircularWait'
  BY DEF ClaimNothing, Finish, NoCircularWait, HoldsJob, own, TypeOK
<1>9. LeaseShape'
  BY DEF ClaimNothing, Finish, LeaseShape, TypeOK
<1> QED BY <1>1, <1>2, <1>3, <1>4, <1>5, <1>6, <1>7, <1>8, <1>9

\* A heartbeat or log upload keeps the invariant.
LEMMA RenewStep ==
    ASSUME IInv, NEW j \in JobId, NEW r \in Runner, Renew(j, r)
    PROVE  IInv'
<1> USE DEF IInv
<1>1. TypeOK'
  BY LeaseTypes DEF Renew, TypeOK
<1>2. CallShape'
  BY DEF Renew, CallShape, own, TypeOK
<1>3. ExclusiveAlone'
  BY DEF Renew, ExclusiveAlone, Exclusive, TypeOK
<1>4. SavingFresh'
  BY DEF Renew, SavingFresh, TypeOK
<1>5. GrantCurrent'
  BY DEF Renew, GrantCurrent, SharedGranted, Exclusive, TypeOK, CallShape
<1>6. OwnSettled'
  BY DEF Renew, OwnSettled, own, TypeOK
<1>7. DependenciesSucceeded'
  BY DEF Renew, DependenciesSucceeded, TypeOK
<1>8. NoCircularWait'
  BY DEF Renew, NoCircularWait, HoldsJob, own, TypeOK
<1>9. LeaseShape'
  BY DEF Renew, LeaseShape, TypeOK
<1> QED BY <1>1, <1>2, <1>3, <1>4, <1>5, <1>6, <1>7, <1>8, <1>9

\* A rerun keeps the invariant: its needs are successful runs.
LEMMA RerunStep ==
    ASSUME IInv, NEW j \in JobId, NEW k \in JobId, Rerun(j, k)
    PROVE  IInv'
<1> USE DEF IInv
<1> DEFINE needs == successfulDependencies(push(j), name(j))
<1> DEFINE rec == [NewJob("queued", needs, NoError) EXCEPT !.created = clock']
<1>a. /\ needs \in SUBSET JobId
      /\ \A d \in needs : jobs[d].status = "succeeded"
  BY DEF successfulDependencies, SuccessfulRuns, FirstListed
<1>b. /\ rec \in Job /\ rec.status = "queued" /\ rec.lease = "none" /\ rec.needs = needs
      /\ jobs[k].status = "absent" /\ jobs' = [jobs EXCEPT ![k] = rec] /\ clock' \in Nat
  <2>1. clock' \in Nat /\ clock \in Nat
    BY DEF Rerun, TypeOK
  <2>2. "queued" \in Status /\ NoError \in Cause
    BY DEF Status, Cause
  <2>3. rec \in Job
    <3> HIDE DEF needs
    <3> QED BY <1>a, <2>1, <2>2, NewJobType
  <2>4. rec.status = "queued" /\ rec.lease = "none" /\ rec.needs = needs
    BY DEF NewJob
  <2> QED BY <2>1, <2>3, <2>4 DEF Rerun
<1> HIDE DEF rec, needs
<1>1. TypeOK'
  BY <1>b DEF Rerun, TypeOK
<1>2. CallShape'
  BY DEF Rerun, NewJob, CallShape, own, TypeOK
<1>3. ExclusiveAlone'
  BY DEF Rerun, NewJob, ExclusiveAlone, Exclusive, TypeOK
<1>4. SavingFresh'
  BY DEF Rerun, NewJob, SavingFresh, SharedGranted, Exclusive, TypeOK, CallShape
<1>5. GrantCurrent'
  BY DEF Rerun, NewJob, GrantCurrent, TypeOK
<1>6. OwnSettled'
  BY DEF Rerun, NewJob, OwnSettled, own, TypeOK
<1>7. DependenciesSucceeded'
  BY <1>a, <1>b, DependenciesKept
<1>8. NoCircularWait'
  BY DEF Rerun, NewJob, NoCircularWait, HoldsJob, own, TypeOK
<1>9. LeaseShape'
  BY <1>b, LeaseKept
<1> QED BY <1>1, <1>2, <1>3, <1>4, <1>5, <1>6, <1>7, <1>8, <1>9

\* The end of a lease keeps the invariant.
LEMMA LeaseExpiresStep ==
    ASSUME IInv, NEW j \in JobId, LeaseExpires(j)
    PROVE  IInv'
<1> USE DEF IInv
<1>1. TypeOK'
  BY LeaseTypes DEF LeaseExpires, TypeOK
<1>2. CallShape'
  BY DEF LeaseExpires, CallShape, own, TypeOK
<1>3. ExclusiveAlone'
  BY DEF LeaseExpires, ExclusiveAlone, Exclusive, TypeOK
<1>4. SavingFresh'
  BY DEF LeaseExpires, SavingFresh, TypeOK
<1>5. GrantCurrent'
  BY DEF LeaseExpires, GrantCurrent, TypeOK
<1>6. OwnSettled'
  BY DEF LeaseExpires, OwnSettled, own, TypeOK
<1>7. DependenciesSucceeded'
  BY DEF LeaseExpires, DependenciesSucceeded, TypeOK
<1>8. NoCircularWait'
  BY DEF LeaseExpires, NoCircularWait, HoldsJob, own, TypeOK
<1>9. LeaseShape'
  BY DEF LeaseExpires, LeaseShape, TypeOK
<1> QED BY <1>1, <1>2, <1>3, <1>4, <1>5, <1>6, <1>7, <1>8, <1>9

\* Pruning an abandoned commit keeps the invariant.
LEMMA PruneStep ==
    ASSUME IInv, NEW p \in Push, Prune(p)
    PROVE  IInv'
<1> USE DEF IInv
<1>1. TypeOK'
  BY NoCallType DEF Prune, TypeOK, Label
<1>2. CallShape'
  BY DEF Prune, CallShape, own, TypeOK
<1>3. ExclusiveAlone'
  BY DEF Prune, ExclusiveAlone, Exclusive, TypeOK
<1>4. SavingFresh'
  BY DEF Prune, SavingFresh, TypeOK
<1>5. GrantCurrent'
  BY DEF Prune, GrantCurrent, TypeOK
<1>6. OwnSettled'
  BY DEF Prune, OwnSettled, own, TypeOK
<1>7. DependenciesSucceeded'
  BY DEF Prune, DependenciesSucceeded, TypeOK
<1>8. NoCircularWait'
  BY DEF Prune, NoCircularWait, HoldsJob, own, TypeOK
<1>9. LeaseShape'
  BY DEF Prune, LeaseShape, TypeOK
<1> QED BY <1>1, <1>2, <1>3, <1>4, <1>5, <1>6, <1>7, <1>8, <1>9

\* A handler that returns on an I/O error keeps the invariant.
LEMMA IOErrorStep ==
    ASSUME IInv, NEW t \in Thread, IOError(t)
    PROVE  IInv'
<1> USE DEF IInv
<1>1. TypeOK'
  BY NoCallType DEF IOError, Finish, TypeOK, Label
<1>2. CallShape'
  BY DEF IOError, Finish, CallShape, own, TypeOK, NoCall
<1>3. ExclusiveAlone'
  BY DEF IOError, Finish, ExclusiveAlone, Exclusive, TypeOK
<1>4. SavingFresh'
  BY DEF IOError, Finish, SavingFresh, TypeOK
<1>5. GrantCurrent'
  BY DEF IOError, Finish, GrantCurrent, TypeOK
<1>6. OwnSettled'
  BY DEF IOError, Finish, OwnSettled, own, TypeOK
<1>7. DependenciesSucceeded'
  BY DEF IOError, Finish, DependenciesSucceeded, TypeOK
<1>8. NoCircularWait'
  BY DEF IOError, Finish, NoCircularWait, HoldsJob, own, TypeOK
<1>9. LeaseShape'
  BY DEF IOError, Finish, LeaseShape, TypeOK
<1> QED BY <1>1, <1>2, <1>3, <1>4, <1>5, <1>6, <1>7, <1>8, <1>9

\* A restart of the server keeps the invariant.
LEMMA CrashStep ==
    ASSUME IInv, Crash
    PROVE  IInv'
<1> USE DEF IInv
<1>1. TypeOK'
  BY NoCallType DEF Crash, TypeOK, Label
<1>2. CallShape'
  BY DEF Crash, CallShape, own, TypeOK, NoCall
<1>3. ExclusiveAlone'
  BY DEF Crash, ExclusiveAlone, Exclusive, TypeOK
<1>4. SavingFresh'
  BY DEF Crash, SavingFresh, TypeOK
<1>5. GrantCurrent'
  BY DEF Crash, GrantCurrent, TypeOK
<1>6. OwnSettled'
  BY DEF Crash, OwnSettled, own, TypeOK
<1>7. DependenciesSucceeded'
  BY DEF Crash, DependenciesSucceeded, TypeOK
<1>8. NoCircularWait'
  BY DEF Crash, NoCircularWait, HoldsJob, own, TypeOK
<1>9. LeaseShape'
  BY DEF Crash, LeaseShape, TypeOK
<1> QED BY <1>1, <1>2, <1>3, <1>4, <1>5, <1>6, <1>7, <1>8, <1>9

\* Every step keeps the invariant.
LEMMA NextStep == IInv /\ [Next]_vars => IInv'
<1> SUFFICES ASSUME IInv, [Next]_vars PROVE IInv'
  OBVIOUS
<1>1. CASE UNCHANGED vars
  BY <1>1 DEF vars, IInv, TypeOK, CallShape, own, ExclusiveAlone, Exclusive, SavingFresh,
       GrantCurrent, OwnSettled, DependenciesSucceeded, NoCircularWait, HoldsJob, LeaseShape
<1>2. ASSUME NEW t \in Thread, Resume(t) PROVE IInv'
  BY <1>2, ScheduleSaveStep, SaveOwnStep, RefuseStep, ScanStep, ScanDoneStep, LockUpdateStep,
     UpdateStep, ClaimEnterStep, ClaimCollectStep, ClaimGrantStep, ClaimUnpreparedStep,
     ClaimNothingStep DEF Resume
<1>3. ASSUME NEW t \in Thread, NEW j \in JobId, BeginStart(t, j) \/ BeginCancel(t, j) PROVE IInv'
  <2>1. /\ [NoCall EXCEPT !.op = "start", !.job = j] \in Call
        /\ [NoCall EXCEPT !.op = "cancel", !.job = j] \in Call
    BY DEF NoCall, Call
  <2> QED BY <1>3, <2>1, BeginStep DEF BeginStart, BeginCancel, NoCall
<1>4. ASSUME NEW t \in Thread, NEW j \in JobId, NEW r \in Runner,
             NEW e \in BuildError \cup {NoError}, BeginComplete(t, j, r, e) PROVE IInv'
  <2>1. [op |-> "complete", job |-> j, runner |-> r, error |-> e] \in Call
    BY DEF Call
  <2> QED BY <1>4, <2>1, BeginStep DEF BeginComplete
<1> QED
  BY <1>1, <1>2, <1>3, <1>4, ScheduleInvalidStep, ScheduleBeginStep, ClaimBeginStep, RenewStep,
     RerunStep, LeaseExpiresStep, PruneStep, IOErrorStep, CrashStep DEF Next

\* The invariant holds in every state of the queue.
THEOREM Invariance == Spec => []IInv
  BY InitInv, NextStep, PTL DEF Spec

(* The model's variables keep their types in every behaviour of the queue.    *)
THEOREM TypeCorrect == Spec => []TypeOK
  BY Invariance, PTL DEF IInv

(* A job enters the queue, runs and succeeds only after all its needs did.    *)
THEOREM DependencyOrder == Spec => []DependenciesSucceeded
  BY Invariance, PTL DEF IInv

(* The unordered, nested job locks of the reconciliations never deadlock,     *)
(* however many handlers run: a handler that waits has already moved its own  *)
(* job out of the reach of every later scan.                                  *)
THEOREM DeadlockFree == Spec => []NoCircularWait
  BY Invariance, PTL DEF IInv

(* A handler never changes a job that has finished.                           *)
LEMMA TerminalStep ==
    IInv /\ [Next]_vars =>
        [\A j \in JobId : terminalStatus(jobs[j].status) => jobs'[j] = jobs[j]]_vars
<1> SUFFICES ASSUME IInv, Next, NEW j \in JobId, terminalStatus(jobs[j].status)
             PROVE  jobs'[j] = jobs[j]
  OBVIOUS
<1> USE DEF IInv, terminalStatus
<1>1. ASSUME NEW t \in Thread, Resume(t) PROVE jobs'[j] = jobs[j]
  <2>1. CASE ScheduleSave(t)
    BY <2>1 DEF ScheduleSave, SavingFresh, TypeOK
  <2>2. CASE SaveOwn(t)
    <3>1. jobs[own(t)].status \in {"manual", "waiting", "queued", "running"}
      BY <2>2 DEF SaveOwn, Accepted, StartAccepted, CancelAccepted, CompleteAccepted, own
    <3> QED BY <2>2, <3>1 DEF SaveOwn, TypeOK
  <2>3. CASE Update(t)
    <3>1. upd[t] \in Updates(jobs) => upd[t] # j
      BY UpdatesReconcilable DEF Reconcilable
    <3> QED BY <2>3, <3>1 DEF Update, TypeOK
  <2>4. CASE ClaimGrant(t) \/ ClaimUnprepared(t)
    <3>1. call[t].op = "grant"
      BY <2>4 DEF ClaimGrant, ClaimUnprepared, CallShape
    <3>2. PICK i \in todo[t] : \E rec : jobs' = [jobs EXCEPT ![i] = rec]
      BY <2>4 DEF ClaimGrant, ClaimUnprepared, FirstCandidate
    <3> QED BY <3>1, <3>2 DEF GrantCurrent, TypeOK
  <2>5. CASE \/ Refuse(t) \/ Scan(t) \/ ScanDone(t) \/ LockUpdate(t) \/ ClaimEnter(t)
            \/ ClaimCollect(t) \/ ClaimNothing(t)
    BY <2>5 DEF Refuse, Scan, ScanDone, LockUpdate, ClaimEnter, ClaimCollect, ClaimNothing
  <2> QED BY <1>1, <2>1, <2>2, <2>3, <2>4, <2>5 DEF Resume
<1>2. ASSUME NEW i \in JobId, LeaseExpires(i) PROVE jobs'[j] = jobs[j]
  BY <1>2 DEF LeaseExpires, LeaseShape, TypeOK
<1>3. ASSUME NEW i \in JobId, NEW r \in Runner, Renew(i, r) PROVE jobs'[j] = jobs[j]
  BY <1>3 DEF Renew, TypeOK
<1>4. ASSUME NEW i \in JobId, NEW k \in JobId, Rerun(i, k) PROVE jobs'[j] = jobs[j]
  BY <1>4 DEF Rerun, TypeOK
<1>5. ASSUME NEW p \in Push, ScheduleInvalid(p) PROVE jobs'[j] = jobs[j]
  BY <1>5 DEF ScheduleInvalid, TypeOK
<1>6. CASE UNCHANGED jobs
  BY <1>6
<1> QED
  BY <1>1, <1>2, <1>3, <1>4, <1>5, <1>6
  DEF Next, ScheduleBegin, BeginStart, BeginCancel, BeginComplete, Begin, ClaimBegin, Prune,
      IOError, Crash

(* No completion, cancellation, reconciliation or claim replaces a result.    *)
THEOREM ResultsAreFinal == Spec => TerminalStable
  BY Invariance, TerminalStep, PTL DEF TerminalStable, Spec

\* Only the grant of a claim changes the attempt of a running job, and what it
\* may grant is running on an expired lease.
LEMMA LeaseStep ==
    IInv /\ [Next]_vars =>
        [\A j \in JobId : jobs[j].status = "running" /\ jobs'[j].attempt # jobs[j].attempt =>
                              jobs[j].lease = "expired"]_vars
<1> SUFFICES ASSUME IInv, Next, NEW j \in JobId, jobs[j].status = "running",
                    jobs'[j].attempt # jobs[j].attempt
             PROVE  jobs[j].lease = "expired"
  OBVIOUS
<1>1. jobs \in [JobId -> Job] /\ jobs[j] \in Job
  BY DEF IInv, TypeOK
<1> USE DEF IInv
<1>2. ASSUME NEW t \in Thread, Resume(t) PROVE jobs[j].lease = "expired"
  <2>1. CASE ScheduleSave(t)
    BY <2>1 DEF ScheduleSave, SavingFresh, TypeOK
  <2>2. CASE SaveOwn(t)
    <3>1. OwnRecord(call[t]).attempt = jobs[own(t)].attempt \/ own(t) # j
      BY <1>1, <2>2 DEF OwnRecord, StartedJob, CanceledJob, CompletedJob, own, Job
    <3> QED BY <1>1, <2>2, <3>1 DEF SaveOwn
  <2>3. CASE Update(t)
    <3>1. upd[t] \in Updates(jobs) => upd[t] # j
      BY UpdatesReconcilable DEF Reconcilable
    <3> QED BY <2>3, <3>1 DEF Update, TypeOK
  <2>4. CASE ClaimGrant(t) \/ ClaimUnprepared(t)
    <3>1. call[t].op = "grant"
      BY <2>4 DEF ClaimGrant, ClaimUnprepared, CallShape
    <3>2. PICK i \in todo[t] : \E rec : jobs' = [jobs EXCEPT ![i] = rec]
      BY <2>4 DEF ClaimGrant, ClaimUnprepared, FirstCandidate
    <3>3. i = j
      BY <1>1, <3>2
    <3> QED BY <3>1, <3>3 DEF GrantCurrent
  <2>5. CASE \/ Refuse(t) \/ Scan(t) \/ ScanDone(t) \/ LockUpdate(t) \/ ClaimEnter(t)
            \/ ClaimCollect(t) \/ ClaimNothing(t)
    BY <2>5 DEF Refuse, Scan, ScanDone, LockUpdate, ClaimEnter, ClaimCollect, ClaimNothing
  <2> QED BY <1>2, <2>1, <2>2, <2>3, <2>4, <2>5 DEF Resume
<1>3. ASSUME NEW i \in JobId, LeaseExpires(i) PROVE FALSE
  BY <1>1, <1>3 DEF LeaseExpires, Job
<1>4. ASSUME NEW i \in JobId, NEW r \in Runner, Renew(i, r) PROVE FALSE
  BY <1>1, <1>4 DEF Renew, Job
<1>5. ASSUME NEW i \in JobId, NEW k \in JobId, Rerun(i, k) PROVE FALSE
  BY <1>1, <1>5 DEF Rerun
<1>6. ASSUME NEW p \in Push, ScheduleInvalid(p) PROVE FALSE
  BY <1>1, <1>6 DEF ScheduleInvalid
<1>7. ~ UNCHANGED jobs
  OBVIOUS
<1> QED
  BY <1>2, <1>3, <1>4, <1>5, <1>6, <1>7
  DEF Next, ScheduleBegin, BeginStart, BeginCancel, BeginComplete, Begin, ClaimBegin, Prune,
      IOError, Crash

\* A claim takes a running job from its runner only once the lease has expired,
\* although it lists its candidates some steps before it grants one.
THEOREM LeasesHold == Spec => LeaseRespected
  BY Invariance, LeaseStep, PTL DEF LeaseRespected, Spec

-----------------------------------------------------------------------------
(* Jobs that were failed for their dependencies. *)

run(j) == j[3]

\* Only a reconciliation gives this cause, and it fails the job.
DependencyFails ==
    \A j \in JobId : jobs[j].error = "dependency" => jobs[j].status = "failed"

\* A job needs named jobs of its own push, and those that are not there are first
\* runs: a rerun is never waited for before it exists.
NeedsShape ==
    \A j \in JobId : \A d \in jobs[j].needs :
        /\ push(d) = push(j)
        /\ name(d) \in Name
        /\ jobs[d].status = "absent" => run(d) = 0

FirstRunFirst ==
    \A j \in JobId : jobs[j].status # "absent" =>
        jobs[<<push(j), name(j), 0>>].status # "absent"

\* While ScheduleLocked saves the jobs of a push, those it has not saved yet are
\* the ones it still has to, and none of the others was failed meanwhile.
SavingWhole ==
    \A t \in Thread : pc[t] = "saving" =>
        \A j \in todo[t] :
            /\ run(j) = 0
            /\ \A n \in Matches[push(j)] :
                   \/ <<push(j), n, 0>> \in todo[t]
                   \/ jobs[<<push(j), n, 0>>].status # "absent"
            /\ \A i \in JobId : push(i) = push(j) => jobs[i].error # "dependency"

\* A needed job is missing only while it is about to be saved, or after a fault.
NeedsExist ==
    \A j \in JobId : \A d \in jobs[j].needs :
        jobs[d].status = "absent" =>
            faults > 0 \/ \E t \in Thread : pc[t] = "saving" /\ d \in todo[t]

CauseInv ==
    /\ DependencyFails
    /\ NeedsShape
    /\ FirstRunFirst
    /\ SavingWhole
    /\ NeedsExist
    /\ FailedForCause

\* What is not there was never leased.
AbsentUnleased == \A j \in JobId : jobs[j].status = "absent" => jobs[j].attempt = 0

\* When Claim has listed its candidates nothing is left to promote, and every
\* queued job that can be prepared is still among them.
GrantWhole ==
    \A t \in Thread :
        /\ pc[t] = "collect" \/ call[t].op = "grant" => Promotable(jobs) = {}
        /\ call[t].op = "grant" =>
              \A j \in JobId : jobs[j].status = "queued" /\ jobConfig(j) => j \in todo[t]

OrderInv == AbsentUnleased /\ GrantWhole

-----------------------------------------------------------------------------
(* The least set of the jobs that a listing fails. *)

\* A job with a broken need, or a need that fails, fails.
LEMMA FailingClosed == \A J : Closed(J, Failing(J))
  BY DEF Closed, Failing

\* A job fails only for a need: without one it could be left out of the set.
LEMMA FailingHasCause ==
    ASSUME NEW J, NEW j \in Failing(J)
    PROVE  \E d \in J[j].needs : Broken(J, d) \/ d \in Failing(J)
<1> SUFFICES ASSUME ~ \E d \in J[j].needs : Broken(J, d) \/ d \in Failing(J)
             PROVE  FALSE
  OBVIOUS
<1> DEFINE S == Failing(J) \ {j}
<1>1. S \in SUBSET Chain(J)
  BY DEF Failing
<1>2. Closed(J, S)
  <2> SUFFICES ASSUME NEW x \in Chain(J), NEW d \in J[x].needs, Broken(J, d) \/ d \in S
               PROVE  x \in S
    BY DEF Closed
  <2>1. x \in Failing(J)
    BY FailingClosed DEF Closed
  <2> QED BY <2>1
<1>3. j \in S
  BY <1>1, <1>2 DEF Failing
<1> QED BY <1>3

\* From one listing to the next the jobs of Q that fail still do, or have failed,
\* if those that fail keep their needs and what was broken for them still is.
LEMMA FailingKept ==
    ASSUME NEW J, NEW K, NEW Q,
           \A x \in Chain(J) \cap Q : J[x].needs \subseteq Q,
           \A x \in Failing(J) \cap Q :
               /\ Broken(K, x) \/ (x \in Chain(K) /\ K[x].needs = J[x].needs)
               /\ \A d \in J[x].needs : Broken(J, d) => Broken(K, d)
    PROVE  \A x \in Failing(J) \cap Q : x \in Failing(K) \/ Broken(K, x)
<1> SUFFICES ASSUME NEW f \in Failing(J) \cap Q, ~Broken(K, f),
                    NEW T \in SUBSET Chain(K), Closed(K, T)
             PROVE  f \in Chain(K) /\ f \in T
  BY DEF Failing
<1>1. f \in Chain(K)
  OBVIOUS
<1> DEFINE S == {x \in Chain(J) : x \in Q => x \in Failing(J) /\ (x \in T \/ Broken(K, x))}
<1>2. Closed(J, S)
  <2> SUFFICES ASSUME NEW x \in Chain(J), x \in Q,
                      NEW d \in J[x].needs, Broken(J, d) \/ d \in S
               PROVE  x \in Failing(J) /\ (x \in T \/ Broken(K, x))
    BY DEF Closed
  <2>1. d \in Q
    OBVIOUS
  <2>2. x \in Failing(J)
    BY <2>1, FailingClosed DEF Closed
  <2>3. Broken(K, d) \/ d \in T
    BY <2>1, <2>2
  <2>4. ASSUME ~Broken(K, x) PROVE x \in T
    <3>1. x \in Chain(K) /\ d \in K[x].needs
      BY <2>2, <2>4
    <3> QED BY <2>3, <3>1 DEF Closed
  <2> QED BY <2>2, <2>4
<1>3. S \in SUBSET Chain(J)
  OBVIOUS
<1>4. f \in S
  BY <1>2, <1>3 DEF Failing
<1> QED BY <1>1, <1>4

-----------------------------------------------------------------------------
(* Steps that rewrite jobs, and steps that add one. *)

LEMMA JobIdParts ==
    /\ \A j \in JobId : run(j) = 0 => <<push(j), name(j), 0>> = j
    /\ \A j \in JobId : <<push(j), name(j), 0>> \in JobId
    /\ \A p, n : push(<<p, n, 0>>) = p /\ name(<<p, n, 0>>) = n /\ run(<<p, n, 0>>) = 0
  BY ConstantsAssumption DEF JobId, push, name, run

\* What every step that adds no job does to the jobs.
Rewrites ==
    \A j \in JobId :
        /\ jobs'[j].needs = jobs[j].needs
        /\ jobs'[j].status = "absent" <=> jobs[j].status = "absent"
        /\ terminalStatus(jobs[j].status) => jobs'[j] = jobs[j]
        /\ j \in Failing(jobs) => jobs'[j].status \in {"waiting", "manual", "failed", "canceled"}
        /\ jobs'[j].error = "dependency" =>
               \/ jobs'[j].status = jobs[j].status /\ jobs'[j].error = jobs[j].error
               \/ /\ j \in Failing(jobs) /\ jobs'[j].status = "failed"
                  /\ \A t \in Thread : pc[t] # "saving"

\* What it does to a ScheduleLocked that is saving.
SavingGoesOn ==
    /\ \A t \in Thread : pc'[t] = "saving" => pc[t] = "saving" /\ todo'[t] = todo[t]
    /\ \A t \in Thread : pc[t] = "saving" =>
          faults' > 0 \/ (pc'[t] = "saving" /\ todo'[t] = todo[t])
    /\ faults > 0 => faults' > 0

LEMMA RewritesFailing ==
    ASSUME TypeOK, TypeOK', Rewrites, NEW x \in Failing(jobs)
    PROVE  x \in Failing(jobs') \/ jobs'[x].status \in {"failed", "canceled"}
<1>1. \A d \in JobId : Broken(jobs, d) => Broken(jobs', d)
  BY DEF Rewrites, Broken, terminalStatus
<1>2. \A y \in Failing(jobs) : y \in JobId /\ Reconcilable(jobs, y) /\ jobs[y].needs \subseteq JobId
  BY DEF Failing, Chain, TypeOK, Job
<1>3. \A y \in Failing(jobs) : Broken(jobs', y) \/ y \in Chain(jobs')
  BY <1>2 DEF Rewrites, Broken, Chain, Reconcilable
<1>4. x \in Failing(jobs') \/ Broken(jobs', x)
  <2>1. \A y \in Chain(jobs) \cap JobId : jobs[y].needs \subseteq JobId
    BY DEF TypeOK, Job
  <2>2. \A y \in Failing(jobs) \cap JobId :
            /\ Broken(jobs', y) \/ (y \in Chain(jobs') /\ jobs'[y].needs = jobs[y].needs)
            /\ \A d \in jobs[y].needs : Broken(jobs, d) => Broken(jobs', d)
    BY <1>1, <1>2, <1>3 DEF Rewrites
  <2> QED BY <1>2, <2>1, <2>2, FailingKept
<1>5. jobs'[x].status # "absent"
  BY <1>2 DEF Rewrites, Reconcilable
<1> QED BY <1>4, <1>5 DEF Broken

LEMMA RewritesKeepCause ==
    ASSUME TypeOK, TypeOK', CauseInv, Rewrites, SavingGoesOn
    PROVE  CauseInv'
<1> USE DEF CauseInv
<1>1. DependencyFails'
  BY DEF DependencyFails, Rewrites
<1>2. jobs \in [JobId -> Job] /\ jobs' \in [JobId -> Job]
      /\ \A j \in JobId : jobs[j].needs \subseteq JobId /\ jobs'[j].needs \subseteq JobId
  BY DEF TypeOK, Job
<1>3. NeedsShape'
  BY <1>2 DEF NeedsShape, Rewrites
<1>4. FirstRunFirst'
  BY JobIdParts DEF FirstRunFirst, Rewrites
<1>5. SavingWhole'
  <2> SUFFICES ASSUME NEW t \in Thread, pc'[t] = "saving", NEW j \in todo'[t]
               PROVE  /\ run(j) = 0
                      /\ \A n \in Matches[push(j)] :
                             \/ <<push(j), n, 0>> \in todo'[t]
                             \/ jobs'[<<push(j), n, 0>>].status # "absent"
                      /\ \A i \in JobId : push(i) = push(j) => jobs'[i].error # "dependency"
    BY DEF SavingWhole
  <2>1. pc[t] = "saving" /\ todo'[t] = todo[t] /\ j \in JobId
    BY DEF SavingGoesOn, TypeOK
  <2>2. \A n \in Matches[push(j)] : <<push(j), n, 0>> \in JobId
    BY <2>1, JobIdFacts, ConstantsAssumption
  <2>3. \A i \in JobId : push(i) = push(j) => jobs'[i].error # "dependency"
    BY <2>1 DEF SavingWhole, Rewrites
  <2> QED BY <2>1, <2>2, <2>3 DEF SavingWhole, Rewrites
<1>6. NeedsExist'
  BY <1>2 DEF NeedsExist, Rewrites, SavingGoesOn
<1>7. FailedForCause'
  <2> SUFFICES ASSUME NEW j \in JobId, jobs'[j].error = "dependency"
               PROVE  \E d \in jobs'[j].needs :
                          \/ jobs'[d].status \in {"failed", "canceled"}
                          \/ d \in Failing(jobs')
                          \/ jobs'[d].status = "absent" /\ faults' > 0
    BY DEF FailedForCause
  <2>1. \A d \in JobId : jobs[d].status \in {"failed", "canceled"} =>
                             jobs'[d].status \in {"failed", "canceled"}
    BY DEF Rewrites, terminalStatus
  <2>2. \A d \in Failing(jobs) : d \in Failing(jobs') \/ jobs'[d].status \in {"failed", "canceled"}
    BY RewritesFailing
  <2>3. jobs'[j].needs = jobs[j].needs /\ jobs[j].needs \subseteq JobId
    BY <1>2 DEF Rewrites
  <2>4. \A d \in JobId : jobs[d].status = "absent" => jobs'[d].status = "absent"
    BY DEF Rewrites
  <2>5. CASE jobs[j].error = "dependency"
    <3>1. PICK d \in jobs[j].needs :
                   \/ jobs[d].status \in {"failed", "canceled"}
                   \/ d \in Failing(jobs)
                   \/ jobs[d].status = "absent" /\ faults > 0
      BY <2>5 DEF FailedForCause
    <3> QED BY <2>1, <2>2, <2>3, <2>4, <3>1 DEF SavingGoesOn
  <2>6. CASE jobs[j].error # "dependency"
    <3>1. j \in Failing(jobs) /\ \A t \in Thread : pc[t] # "saving"
      BY <2>6 DEF Rewrites
    <3>2. PICK d \in jobs[j].needs : Broken(jobs, d) \/ d \in Failing(jobs)
      BY <3>1, FailingHasCause
    <3>3. jobs[d].status = "absent" => faults > 0
      BY <3>1 DEF NeedsExist
    <3> QED BY <2>1, <2>2, <2>3, <2>4, <3>2, <3>3 DEF SavingGoesOn, Broken
  <2> QED BY <2>5, <2>6
<1> QED BY <1>1, <1>3, <1>4, <1>5, <1>6, <1>7

\* One job is rewritten that had not finished.
LEMMA RewritesOne ==
    ASSUME TypeOK, NEW j \in JobId, NEW rec \in Job, jobs' = [jobs EXCEPT ![j] = rec],
           rec.needs = jobs[j].needs, rec.status # "absent",
           jobs[j].status # "absent", ~terminalStatus(jobs[j].status),
           j \in Failing(jobs) => rec.status \in {"waiting", "manual", "failed", "canceled"},
           rec.error = "dependency" =>
               /\ j \in Failing(jobs) /\ rec.status = "failed"
               /\ \A t \in Thread : pc[t] # "saving"
    PROVE  Rewrites
<1>1. jobs'[j] = rec /\ \A i \in JobId \ {j} : jobs'[i] = jobs[i]
  BY DEF TypeOK
<1>2. \A i \in Failing(jobs) : jobs[i].status \in {"waiting", "manual"}
  BY DEF Failing, Chain, Reconcilable
<1> SUFFICES ASSUME NEW i \in JobId
             PROVE  /\ jobs'[i].needs = jobs[i].needs
                    /\ jobs'[i].status = "absent" <=> jobs[i].status = "absent"
                    /\ terminalStatus(jobs[i].status) => jobs'[i] = jobs[i]
                    /\ i \in Failing(jobs) =>
                           jobs'[i].status \in {"waiting", "manual", "failed", "canceled"}
                    /\ jobs'[i].error = "dependency" =>
                           \/ jobs'[i].status = jobs[i].status /\ jobs'[i].error = jobs[i].error
                           \/ /\ i \in Failing(jobs) /\ jobs'[i].status = "failed"
                              /\ \A t \in Thread : pc[t] # "saving"
  BY DEF Rewrites
<1>3. CASE i = j
  BY <1>1, <1>3
<1>4. CASE i # j
  BY <1>1, <1>2, <1>4
<1> QED BY <1>3, <1>4

\* The jobs are left as they are.
LEMMA RewritesNone ==
    ASSUME jobs' = jobs
    PROVE  Rewrites
<1>1. \A i \in Failing(jobs) : jobs[i].status \in {"waiting", "manual"}
  BY DEF Failing, Chain, Reconcilable
<1> QED BY <1>1 DEF Rewrites

\* Nobody saves while a handler that holds no lock in Exclusive mode reconciles.
LEMMA NobodySaves ==
    ASSUME IInv, NEW t \in Thread, pc[t] \notin {"idle", "pending", "saving"}
    PROVE  \A u \in Thread : pc[u] # "saving"
  BY DEF IInv, CallShape, ExclusiveAlone, Exclusive

LEMMA SaveOwnCause ==
    ASSUME IInv, TypeOK', CauseInv, NEW t \in Thread, SaveOwn(t)
    PROVE  CauseInv'
<1> USE DEF IInv, CauseInv
<1> DEFINE c == call[t]
           j == own(t)
           rec == OwnRecord(c)
<1>1. j \in JobId /\ c \in Call /\ pc[t] = "locked" /\ Accepted(c)
      /\ c.op \in {"start", "cancel", "complete"} /\ j = c.job
  BY DEF SaveOwn, CallShape, own, TypeOK
<1>2. rec \in Job /\ jobs[j] \in Job
  BY <1>1, OwnRecordType DEF TypeOK
<1>3. jobs' = [jobs EXCEPT ![j] = rec]
  BY DEF SaveOwn
<1>4. jobs[j].status \in {"manual", "waiting", "queued", "running"}
  BY <1>1 DEF Accepted, StartAccepted, CancelAccepted, CompleteAccepted
<1>5. jobs[j].error # "dependency"
  BY <1>1, <1>4 DEF DependencyFails
<1>6. /\ rec.needs = jobs[j].needs
      /\ rec.error # "dependency"
      /\ rec.status # "absent"
      /\ c.op = "cancel" => rec.status = "canceled"
  <2>1. CASE c.op = "start"
    BY <1>1, <1>2, <1>5, <2>1 DEF OwnRecord, StartedJob, Job
  <2>2. CASE c.op = "cancel"
    BY <1>1, <1>2, <2>2, ConstantsAssumption DEF OwnRecord, CanceledJob, Job
  <2>3. CASE c.op = "complete"
    <3>1. c.error # "dependency"
      BY <1>1, ConstantsAssumption DEF Call
    <3> QED BY <1>1, <1>2, <2>3, <3>1 DEF OwnRecord, CompletedJob, Job
  <2> QED BY <1>1, <2>1, <2>2, <2>3
<1>7. j \in Failing(jobs) => rec.status \in {"waiting", "manual", "failed", "canceled"}
  <2> SUFFICES ASSUME j \in Failing(jobs) PROVE c.op = "cancel"
    BY <1>6
  <2>1. \A i \in Failing(jobs) : jobs[i].status \in {"waiting", "manual"}
    BY DEF Failing, Chain, Reconcilable
  <2>2. ~ Ready(jobs, j)
    <3>1. PICK d \in jobs[j].needs : Broken(jobs, d) \/ d \in Failing(jobs)
      BY FailingHasCause
    <3> QED BY <2>1, <3>1 DEF Ready, Broken
  <2> QED BY <1>1, <2>1, <2>2 DEF Accepted, StartAccepted, CompleteAccepted
<1>8. Rewrites
  <2> HIDE DEF j, rec
  <2> QED BY <1>1, <1>2, <1>3, <1>4, <1>6, <1>7, RewritesOne DEF terminalStatus
<1>9. SavingGoesOn
  BY <1>1 DEF SaveOwn, Goto, SavingGoesOn, TypeOK
<1> QED BY <1>8, <1>9, RewritesKeepCause

LEMMA UpdateCause ==
    ASSUME IInv, TypeOK', CauseInv, NEW t \in Thread, Update(t)
    PROVE  CauseInv'
<1> USE DEF IInv, CauseInv
<1> DEFINE j == upd[t]
           rec == Reconciled(jobs, j)
<1>1. pc[t] = "update"
  BY DEF Update
<1>2. SavingGoesOn
  BY <1>1 DEF Update, Goto, SavingGoesOn, TypeOK
<1>3. CASE j \in Updates(jobs)
  <2>1. j \in JobId /\ Reconcilable(jobs, j) /\ rec \in Job
    BY <1>3, UpdatesReconcilable, ReconciledType DEF TypeOK
  <2>2. rec.needs = jobs[j].needs /\ rec.status \in {"failed", "queued"}
    BY <1>3, ReconciledStatus DEF TypeOK
  <2>3. j \in Failing(jobs) => rec.status = "failed"
    BY <2>1 DEF Reconciled, TypeOK, Job
  <2>4. rec.error = "dependency" => j \in Failing(jobs)
    <3>1. jobs[j].error # "dependency"
      BY <2>1 DEF DependencyFails, Reconcilable
    <3> QED BY <2>1, <3>1 DEF Reconciled, TypeOK, Job
  <2>5. \A u \in Thread : pc[u] # "saving"
    BY <1>1, NobodySaves
  <2>6. jobs' = [jobs EXCEPT ![j] = rec]
    BY <1>3 DEF Update
  <2>7. jobs[j].status \in {"waiting", "manual"}
    BY <2>1 DEF Reconcilable
  <2>8. Rewrites
    <3> HIDE DEF j, rec
    <3> QED BY <2>1, <2>2, <2>3, <2>4, <2>5, <2>6, <2>7, RewritesOne DEF terminalStatus
  <2> QED BY <1>2, <2>8, RewritesKeepCause
<1>4. CASE j \notin Updates(jobs)
  BY <1>2, <1>4, RewritesNone, RewritesKeepCause DEF Update
<1> QED BY <1>3, <1>4

\* Leasing a job, or failing one that cannot be prepared, and the leases that
\* are renewed or expire.
LEMMA LeaseCause ==
    ASSUME IInv, TypeOK', CauseInv, SavingGoesOn, NEW j \in JobId, NEW rec \in Job,
           jobs' = [jobs EXCEPT ![j] = rec], jobs[j].status \in {"queued", "running"},
           rec.needs = jobs[j].needs, rec.status # "absent",
           rec.error \in {jobs[j].error, "configuration"}
    PROVE  CauseInv'
<1>1. j \notin Failing(jobs)
  BY DEF Failing, Chain, Reconcilable
<1>2. jobs[j].error # "dependency"
  BY DEF CauseInv, DependencyFails
<1>3. Rewrites
  BY <1>1, <1>2, RewritesOne DEF IInv, terminalStatus
<1> QED BY <1>3, RewritesKeepCause DEF IInv

LEMMA ClaimCause ==
    ASSUME IInv, TypeOK', CauseInv, NEW t \in Thread, ClaimGrant(t) \/ ClaimUnprepared(t)
    PROVE  CauseInv'
<1> USE DEF IInv
<1>1. pc[t] = "grant" /\ call[t].op = "grant" /\ call[t] \in Call
  BY DEF ClaimGrant, ClaimUnprepared, CallShape, TypeOK
<1>2. SavingGoesOn
  BY <1>1 DEF ClaimGrant, ClaimUnprepared, Finish, SavingGoesOn, TypeOK
<1>3. PICK j \in todo[t] : \/ jobs' = [jobs EXCEPT ![j] = LeasedJob(j, call[t].runner)]
                          \/ jobs' = [jobs EXCEPT ![j] = UnpreparedJob(j)]
  BY DEF ClaimGrant, ClaimUnprepared, FirstCandidate
<1>4. j \in JobId /\ jobs[j].status \in {"queued", "running"} /\ jobs[j] \in Job
  BY <1>1 DEF GrantCurrent, TypeOK
<1>5. LeasedJob(j, call[t].runner) \in Job /\ UnpreparedJob(j) \in Job
  <2>1. call[t].runner \in Runner \cup {NoRunner}
    BY <1>1 DEF Call
  <2>2. LeasedJob(j, call[t].runner) \in Job
    <3>1. jobs[j].attempt + 1 \in Nat /\ "running" \in Status
      BY <1>4 DEF Job, Status
    <3> QED BY <1>4, <2>1, <3>1 DEF LeasedJob, Job
  <2>3. UnpreparedJob(j) \in Job
    BY <1>4 DEF UnpreparedJob, Job, Status, Cause
  <2> QED BY <2>2, <2>3
<1>6. /\ LeasedJob(j, call[t].runner).needs = jobs[j].needs
      /\ LeasedJob(j, call[t].runner).status = "running"
      /\ LeasedJob(j, call[t].runner).error = jobs[j].error
  BY <1>4 DEF LeasedJob, Job
<1>7. /\ UnpreparedJob(j).needs = jobs[j].needs
      /\ UnpreparedJob(j).status = "failed"
      /\ UnpreparedJob(j).error = "configuration"
  BY <1>4 DEF UnpreparedJob, Job
<1>8. CASE jobs' = [jobs EXCEPT ![j] = LeasedJob(j, call[t].runner)]
  BY <1>2, <1>4, <1>5, <1>6, <1>8, LeaseCause
<1>9. CASE jobs' = [jobs EXCEPT ![j] = UnpreparedJob(j)]
  BY <1>2, <1>4, <1>5, <1>7, <1>9, LeaseCause
<1> QED BY <1>3, <1>8, <1>9

LEMMA ClockCause ==
    ASSUME IInv, TypeOK', CauseInv, NEW j \in JobId,
           LeaseExpires(j) \/ \E r \in Runner : Renew(j, r)
    PROVE  CauseInv'
<1> USE DEF IInv
<1>1. SavingGoesOn
  BY DEF LeaseExpires, Renew, SavingGoesOn
<1>2. jobs[j] \in Job /\ jobs[j].status = "running"
  BY DEF LeaseExpires, Renew, LeaseShape, TypeOK
<1>3. PICK l \in {"live", "expired"} : jobs' = [jobs EXCEPT ![j] = [jobs[j] EXCEPT !.lease = l]]
  <2>1. CASE LeaseExpires(j)
    BY <2>1 DEF LeaseExpires
  <2>2. CASE \E r \in Runner : Renew(j, r)
    BY <2>2 DEF Renew
  <2> QED BY <2>1, <2>2
<1>4. /\ [jobs[j] EXCEPT !.lease = l] \in Job
      /\ [jobs[j] EXCEPT !.lease = l].needs = jobs[j].needs
      /\ [jobs[j] EXCEPT !.lease = l].status = "running"
      /\ [jobs[j] EXCEPT !.lease = l].error = jobs[j].error
  BY <1>2 DEF Job
<1> HIDE DEF IInv
<1> QED BY <1>1, <1>2, <1>3, <1>4, LeaseCause

\* A job is added that no job of the same push needs which was failed for its
\* dependencies.
LEMMA AddedCause ==
    ASSUME TypeOK, TypeOK', CauseInv, NEW k \in JobId, NEW rec \in Job,
           jobs' = [jobs EXCEPT ![k] = rec], jobs[k].status = "absent",
           rec.status # "absent", rec.error # "dependency",
           \A j, x \in JobId : jobs[j].error = "dependency" /\ push(x) = push(j) =>
                                 k \notin jobs[x].needs,
           faults' = faults
    PROVE  DependencyFails' /\ FailedForCause'
<1> USE DEF CauseInv
<1>1. jobs'[k] = rec /\ \A i \in JobId \ {k} : jobs'[i] = jobs[i]
  BY DEF TypeOK
<1>2. DependencyFails'
  BY <1>1 DEF DependencyFails
<1>3. \A i \in JobId : jobs[i].needs \subseteq JobId
  BY DEF TypeOK, Job
<1>4. FailedForCause'
  <2> SUFFICES ASSUME NEW j \in JobId, jobs'[j].error = "dependency"
               PROVE  \E d \in jobs'[j].needs :
                          \/ jobs'[d].status \in {"failed", "canceled"}
                          \/ d \in Failing(jobs')
                          \/ jobs'[d].status = "absent" /\ faults' > 0
    BY DEF FailedForCause
  <2>1. j # k /\ jobs[j].error = "dependency" /\ jobs'[j].needs = jobs[j].needs
    BY <1>1
  <2>2. PICK d \in jobs[j].needs :
                 \/ jobs[d].status \in {"failed", "canceled"}
                 \/ d \in Failing(jobs)
                 \/ jobs[d].status = "absent" /\ faults > 0
    BY <2>1 DEF FailedForCause
  <2>3. d \in JobId \ {k} /\ push(d) = push(j)
    BY <1>3, <2>1 DEF NeedsShape
  <2>4. jobs'[d] = jobs[d]
    BY <1>1, <2>3
  <2>5. CASE d \in Failing(jobs)
    <3> DEFINE Q == {x \in JobId : push(x) = push(j)}
    <3>1. \A x \in Chain(jobs) \cap Q : jobs[x].needs \subseteq Q
      BY <1>3 DEF NeedsShape
    <3>2. \A x \in Failing(jobs) : x \in JobId /\ x # k /\ Reconcilable(jobs, x)
      BY DEF Failing, Chain, Reconcilable
    <3>3. \A x \in Failing(jobs) : x \in Chain(jobs') /\ jobs'[x].needs = jobs[x].needs
      BY <1>1, <3>2 DEF Chain, Reconcilable
    <3>4. \A x \in Failing(jobs) \cap Q : \A b \in jobs[x].needs :
              Broken(jobs, b) => Broken(jobs', b)
      <4> TAKE x \in Failing(jobs) \cap Q
      <4> TAKE b \in jobs[x].needs
      <4>1. b \in JobId \ {k}
        BY <1>3, <2>1, <3>2
      <4> QED BY <1>1, <4>1 DEF Broken
    <3>5. d \in Failing(jobs') \/ Broken(jobs', d)
      <4>1. d \in Failing(jobs) \cap Q
        BY <2>3, <2>5
      <4> HIDE DEF Q
      <4> QED BY <3>1, <3>3, <3>4, <4>1, FailingKept
    <3>6. ~ Broken(jobs', d)
      BY <2>4, <2>5, <3>2 DEF Broken, Reconcilable
    <3> QED BY <2>1, <3>5, <3>6
  <2> QED BY <2>1, <2>2, <2>4, <2>5
<1> QED BY <1>2, <1>4

\* Recording an unusable configuration: nobody needs the job that records it.
LEMMA ScheduleInvalidCause ==
    ASSUME IInv, TypeOK', CauseInv, NEW p \in Push, ScheduleInvalid(p)
    PROVE  CauseInv'
<1> USE DEF IInv, CauseInv
<1> DEFINE k == <<p, ConfigName, 0>>
           rec == [NewJob("failed", {}, "configuration") EXCEPT !.created = clock']
<1>1. k \in JobId /\ name(k) \notin Name /\ run(k) = 0 /\ push(k) = p /\ name(k) = ConfigName
  BY JobIdFacts, ConstantsAssumption DEF push, name, run
<1>2. /\ jobs' = [jobs EXCEPT ![k] = rec] /\ jobs[k].status = "absent"
      /\ UNCHANGED <<pc, todo, faults>> /\ ExclusiveGranted
  BY DEF ScheduleInvalid
<1>3. rec.status = "failed" /\ rec.error = "configuration" /\ rec.needs = {}
  BY DEF NewJob
<1>4. rec \in Job
  BY <1>1, <1>2 DEF TypeOK
<1>5. jobs'[k] = rec /\ \A i \in JobId \ {k} : jobs'[i] = jobs[i]
  BY <1>1, <1>2 DEF TypeOK
<1>6. \A i \in JobId : k \notin jobs[i].needs
  BY <1>1 DEF NeedsShape
<1> HIDE DEF k, rec
<1>7. DependencyFails' /\ FailedForCause'
  BY <1>1, <1>2, <1>3, <1>4, <1>6, AddedCause
<1>8. \A i \in JobId : jobs[i].needs \subseteq JobId \ {k}
  BY <1>6 DEF TypeOK, Job
<1>9. NeedsShape'
  BY <1>3, <1>5, <1>8 DEF NeedsShape
<1>10. FirstRunFirst'
  <2>1. <<push(k), name(k), 0>> = k
    BY <1>1 DEF k
  <2> QED BY <1>3, <1>5, <2>1, JobIdParts DEF FirstRunFirst
<1>11. SavingWhole'
  BY <1>2 DEF SavingWhole, ExclusiveGranted
<1>12. NeedsExist'
  BY <1>2, <1>3, <1>5, <1>8 DEF NeedsExist
<1> QED BY <1>7, <1>9, <1>10, <1>11, <1>12

\* A rerun needs runs that have succeeded, and nobody needs it.
LEMMA RerunCause ==
    ASSUME IInv, TypeOK', CauseInv, NEW j \in JobId, NEW k \in JobId, Rerun(j, k)
    PROVE  CauseInv'
<1> USE DEF IInv, CauseInv
<1> DEFINE needs == successfulDependencies(push(j), name(j))
           rec == [NewJob("queued", needs, NoError) EXCEPT !.created = clock']
<1>1. /\ jobs' = [jobs EXCEPT ![k] = rec] /\ jobs[k].status = "absent"
      /\ push(k) = push(j) /\ name(k) = name(j) /\ terminalStatus(jobs[j].status)
      /\ name(j) \in Name /\ push(j) \in Push
      /\ UNCHANGED <<pc, todo, faults>> /\ SharedGranted
  BY JobIdFacts DEF Rerun, jobConfig
<1>2. rec.status = "queued" /\ rec.error = NoError /\ rec.needs = needs
  BY DEF NewJob
<1>3. \A d \in needs : /\ d \in JobId /\ push(d) = push(j) /\ name(d) \in Name
                       /\ jobs[d].status = "succeeded"
  <2>1. Needs[push(j)][name(j)] \subseteq Name
    BY <1>1, ConstantsAssumption
  <2> QED BY <2>1 DEF successfulDependencies, FirstListed, SuccessfulRuns
<1> HIDE DEF needs
<1>4. rec \in Job
  BY <1>1 DEF TypeOK
<1>5. jobs'[k] = rec /\ \A i \in JobId \ {k} : jobs'[i] = jobs[i]
  BY <1>1 DEF TypeOK
<1>6. run(k) # 0
  <2>1. jobs[<<push(k), name(k), 0>>].status # "absent"
    BY <1>1 DEF FirstRunFirst, terminalStatus
  <2>2. SUFFICES ASSUME run(k) = 0 PROVE FALSE
    OBVIOUS
  <2>3. <<push(k), name(k), 0>> = k
    BY <2>2, JobIdParts
  <2> QED BY <1>1, <2>1, <2>3
<1>7. \A i \in JobId : jobs[i].needs \subseteq JobId \ {k}
  BY <1>1, <1>6 DEF NeedsShape, TypeOK, Job
<1>8. k \notin needs /\ "dependency" # NoError
  BY <1>1, <1>3, ConstantsAssumption
<1> HIDE DEF rec
<1>9. DependencyFails' /\ FailedForCause'
  BY <1>1, <1>2, <1>4, <1>7, <1>8, AddedCause
<1>10. NeedsShape'
  <2> SUFFICES ASSUME NEW i \in JobId, NEW d \in jobs'[i].needs
               PROVE  /\ push(d) = push(i) /\ name(d) \in Name
                      /\ jobs'[d].status = "absent" => run(d) = 0
    BY DEF NeedsShape
  <2>1. CASE i = k
    BY <1>1, <1>2, <1>3, <1>5, <1>8, <2>1
  <2>2. CASE i # k
    BY <1>5, <1>7, <2>2 DEF NeedsShape
  <2> QED BY <2>1, <2>2
<1>11. FirstRunFirst'
  <2>1. jobs[<<push(k), name(k), 0>>].status # "absent" /\ <<push(k), name(k), 0>> \in JobId
    BY <1>1, JobIdParts DEF FirstRunFirst, terminalStatus
  <2> QED BY <1>1, <1>2, <1>5, <2>1, JobIdParts DEF FirstRunFirst
<1>12. SavingWhole'
  <2>1. \A t \in Thread : pc[t] # "saving"
    BY <1>1 DEF SharedGranted, Exclusive, CallShape
  <2> QED BY <1>1, <2>1 DEF SavingWhole
<1>13. NeedsExist'
  <2> SUFFICES ASSUME NEW i \in JobId, NEW d \in jobs'[i].needs, jobs'[d].status = "absent"
               PROVE  faults' > 0 \/ \E t \in Thread : pc'[t] = "saving" /\ d \in todo'[t]
    BY DEF NeedsExist
  <2>1. CASE i = k
    BY <1>2, <1>3, <1>5, <1>8, <2>1
  <2>2. CASE i # k
    BY <1>1, <1>5, <1>7, <2>2 DEF NeedsExist
  <2> QED BY <2>1, <2>2
<1> QED BY <1>9, <1>10, <1>11, <1>12, <1>13

\* What ScheduleLocked saves for a job: it needs first runs of its push whose
\* branch filter matches.
LEMMA ConfiguredJobShape ==
    ASSUME NEW p \in Push, NEW n \in Name
    PROVE  LET rec == ConfiguredJob(p, n) IN
           /\ rec.status \in {"failed", "manual", "waiting", "queued"}
           /\ rec.error \in {"configuration", NoError}
           /\ \A d \in rec.needs : \E m \in Matches[p] : d = <<p, m, 0>>
<1> DEFINE needs == {<<p, d, 0>> : d \in Needs[p][n] \cap Matches[p]}
<1>1. \A d \in needs : \E m \in Matches[p] : d = <<p, m, 0>>
  OBVIOUS
<1> HIDE DEF needs
<1> QED BY <1>1 DEF ConfiguredJob, NewJob, needs

LEMMA ScheduleSaveCause ==
    ASSUME IInv, TypeOK', CauseInv, NEW t \in Thread, ScheduleSave(t)
    PROVE  CauseInv'
<1> USE DEF IInv, CauseInv
<1>1. PICK k \in todo[t] : ScheduleSave(t)!2!(k)
  BY DEF ScheduleSave
<1> DEFINE p == push(k)
           rec == ConfiguredJob(p, name(k))
<1>2. /\ k \in JobId /\ p \in Push /\ name(k) \in Name /\ run(k) = 0
      /\ pc[t] = "saving" /\ jobs[k].status = "absent"
      /\ UNCHANGED faults
  BY JobIdFacts DEF ScheduleSave, SavingFresh, SavingWhole, TypeOK
<1>3. /\ jobs' = [jobs EXCEPT ![k] = rec]
      /\ todo' = [todo EXCEPT ![t] = @ \ {k}]
      /\ pc' = [pc EXCEPT ![t] = IF todo[t] = {k} THEN "scan" ELSE "saving"]
  BY <1>1
<1>4. rec \in Job
  BY <1>2, ConfiguredJobType DEF TypeOK
<1>5. /\ rec.status # "absent" /\ rec.error # "dependency"
      /\ \A d \in rec.needs : \E m \in Matches[p] : d = <<p, m, 0>>
  BY <1>2, ConfiguredJobShape, ConstantsAssumption
<1>6. jobs'[k] = rec /\ \A i \in JobId \ {k} : jobs'[i] = jobs[i]
  BY <1>2, <1>3 DEF TypeOK
<1>7. \A i \in JobId : jobs[i].needs \subseteq JobId
  BY DEF TypeOK, Job
<1>8. \A i \in JobId : push(i) = p => jobs[i].error # "dependency"
  BY <1>2 DEF SavingWhole
<1>9. \A u \in Thread : u # t => pc[u] # "saving" /\ pc'[u] # "saving"
  BY <1>2, <1>3 DEF CallShape, ExclusiveAlone, Exclusive, TypeOK
<1>10. \A m \in Matches[p] :
          /\ <<p, m, 0>> \in JobId /\ m \in Name
          /\ push(<<p, m, 0>>) = p /\ name(<<p, m, 0>>) = m /\ run(<<p, m, 0>>) = 0
          /\ <<p, m, 0>> \in todo[t] \/ jobs[<<p, m, 0>>].status # "absent"
  <2> TAKE m \in Matches[p]
  <2>1. m \in Name
    BY <1>2, ConstantsAssumption
  <2>2. <<p, m, 0>> \in JobId
    BY <1>2, <2>1, JobIdFacts
  <2>3. push(<<p, m, 0>>) = p /\ name(<<p, m, 0>>) = m /\ run(<<p, m, 0>>) = 0
    BY DEF push, name, run
  <2>4. <<p, m, 0>> \in todo[t] \/ jobs[<<p, m, 0>>].status # "absent"
    BY <1>2 DEF SavingWhole
  <2> QED BY <2>1, <2>2, <2>3, <2>4
<1> HIDE DEF rec
<1>11. DependencyFails' /\ FailedForCause'
  <2>1. \A j, x \in JobId : jobs[j].error = "dependency" /\ push(x) = push(j) =>
                              k \notin jobs[x].needs
    BY <1>8 DEF NeedsShape
  <2> QED BY <1>2, <1>3, <1>4, <1>5, <2>1, AddedCause
<1>12. NeedsShape'
  <2> SUFFICES ASSUME NEW i \in JobId, NEW d \in jobs'[i].needs
               PROVE  /\ push(d) = push(i) /\ name(d) \in Name
                      /\ jobs'[d].status = "absent" => run(d) = 0
    BY DEF NeedsShape
  <2>1. CASE i = k
    BY <1>5, <1>6, <1>10, <2>1
  <2>2. CASE i # k
    BY <1>5, <1>6, <1>7, <2>2 DEF NeedsShape
  <2> QED BY <2>1, <2>2
<1>13. FirstRunFirst'
  <2>1. <<push(k), name(k), 0>> = k
    BY <1>2, JobIdParts
  <2>2. \A j \in JobId : jobs[j].status # "absent" => jobs'[j].status # "absent"
    BY <1>5, <1>6
  <2> QED BY <1>5, <1>6, <2>1, <2>2, JobIdParts DEF FirstRunFirst
<1>14. \A m \in Matches[p] : <<p, m, 0>> \in todo'[t] \/ jobs'[<<p, m, 0>>].status # "absent"
  BY <1>3, <1>5, <1>6, <1>10 DEF TypeOK
<1>15. SavingWhole'
  <2> SUFFICES ASSUME NEW j \in todo'[t], pc'[t] = "saving"
               PROVE  /\ run(j) = 0
                      /\ \A n \in Matches[push(j)] :
                             \/ <<push(j), n, 0>> \in todo'[t]
                             \/ jobs'[<<push(j), n, 0>>].status # "absent"
                      /\ \A i \in JobId : push(i) = push(j) => jobs'[i].error # "dependency"
    BY <1>9 DEF SavingWhole
  <2>1. j \in todo[t] /\ j # k /\ j \in JobId /\ push(j) \in Push
    BY <1>3, JobIdFacts DEF TypeOK
  <2>2. run(j) = 0 /\ \A i \in JobId : push(i) = push(j) => jobs'[i].error # "dependency"
    BY <1>2, <1>5, <1>6, <2>1 DEF SavingWhole
  <2>3. ASSUME NEW n \in Matches[push(j)]
        PROVE  \/ <<push(j), n, 0>> \in todo'[t]
               \/ jobs'[<<push(j), n, 0>>].status # "absent"
    <3>1. <<push(j), n, 0>> \in JobId
      BY <2>1, JobIdFacts, ConstantsAssumption
    <3>2. <<push(j), n, 0>> \in todo[t] \/ jobs[<<push(j), n, 0>>].status # "absent"
      BY <1>2, <2>1, <2>3 DEF SavingWhole
    <3> QED BY <1>3, <1>5, <1>6, <3>1, <3>2 DEF TypeOK
  <2> QED BY <2>2, <2>3
<1>16. NeedsExist'
  <2> SUFFICES ASSUME NEW i \in JobId, NEW d \in jobs'[i].needs, jobs'[d].status = "absent",
                      ~ (faults' > 0)
               PROVE  pc'[t] = "saving" /\ d \in todo'[t]
    BY DEF NeedsExist
  <2>1. d \in todo'[t]
    <3>1. CASE i = k
      BY <1>5, <1>6, <1>14, <3>1
    <3>2. CASE i # k
      <4>1. d \in jobs[i].needs /\ d \in JobId /\ d # k
        BY <1>5, <1>6, <1>7, <3>2
      <4>2. d \in todo[t]
        BY <1>2, <1>6, <1>9, <4>1 DEF NeedsExist
      <4> QED BY <1>3, <4>1, <4>2 DEF TypeOK
    <3> QED BY <3>1, <3>2
  <2>2. todo[t] # {k} /\ pc'[t] = "saving"
    BY <1>3, <2>1 DEF TypeOK
  <2> QED BY <2>1, <2>2
<1> QED BY <1>11, <1>12, <1>13, <1>15, <1>16

LEMMA ScheduleBeginCause ==
    ASSUME IInv, TypeOK', CauseInv, NEW t \in Thread, NEW p \in Push, ScheduleBegin(t, p)
    PROVE  CauseInv'
<1> USE DEF IInv, CauseInv
<1>1. /\ UNCHANGED <<jobs, faults>> /\ \A u \in Thread : pc[u] = "idle"
      /\ \A j \in JobId : push(j) = p => jobs[j].status = "absent"
      /\ pc' = [pc EXCEPT ![t] = "saving"]
      /\ todo' = [todo EXCEPT ![t] = {<<p, n, 0>> : n \in Matches[p]}]
  BY DEF ScheduleBegin, ExclusiveGranted
<1>2. DependencyFails' /\ NeedsShape' /\ FirstRunFirst' /\ FailedForCause'
  BY <1>1 DEF DependencyFails, NeedsShape, FirstRunFirst, FailedForCause
<1>3. NeedsExist'
  BY <1>1 DEF NeedsExist
<1>4. SavingWhole'
  <2> SUFFICES ASSUME NEW j \in todo'[t]
               PROVE  /\ run(j) = 0
                      /\ \A n \in Matches[push(j)] : <<push(j), n, 0>> \in todo'[t]
                      /\ \A i \in JobId : push(i) = push(j) => jobs'[i].error # "dependency"
    BY <1>1 DEF SavingWhole, TypeOK
  <2>1. todo'[t] = {<<p, n, 0>> : n \in Matches[p]}
    BY <1>1 DEF TypeOK
  <2>2. PICK m \in Matches[p] : j = <<p, m, 0>>
    BY <2>1
  <2>3. push(j) = p /\ run(j) = 0
    BY <2>2 DEF push, run
  <2>4. \A i \in JobId : push(i) = p => jobs'[i].error # "dependency"
    BY <1>1 DEF DependencyFails
  <2> QED BY <2>1, <2>3, <2>4
<1> QED BY <1>2, <1>3, <1>4

\* The steps that leave the jobs as they are.
LEMMA QuietCause ==
    ASSUME IInv, TypeOK', CauseInv, jobs' = jobs, SavingGoesOn
    PROVE  CauseInv'
  BY RewritesNone, RewritesKeepCause DEF IInv

LEMMA CauseStep == IInv /\ CauseInv /\ [Next]_vars => CauseInv'
<1> SUFFICES ASSUME IInv, CauseInv, [Next]_vars
             PROVE  CauseInv'
  OBVIOUS
<1>1. TypeOK /\ TypeOK' /\ CallShape
  BY NextStep DEF IInv
<1>2. faults + 1 > 0
  BY <1>1 DEF TypeOK
<1>4. ASSUME NEW t \in Thread, Resume(t) PROVE CauseInv'
  <2>1. CASE ScheduleSave(t)
    BY <1>1, <2>1, ScheduleSaveCause
  <2>2. CASE SaveOwn(t)
    BY <1>1, <2>2, SaveOwnCause
  <2>3. CASE Update(t)
    BY <1>1, <2>3, UpdateCause
  <2>4. CASE ClaimGrant(t) \/ ClaimUnprepared(t)
    BY <1>1, <2>4, ClaimCause
  <2>5. CASE \/ Refuse(t) \/ Scan(t) \/ ScanDone(t) \/ LockUpdate(t) \/ ClaimEnter(t)
            \/ ClaimCollect(t) \/ ClaimNothing(t)
    <3>1. jobs' = jobs
      BY <2>5 DEF Refuse, Scan, ScanDone, LockUpdate, ClaimEnter, ClaimCollect, ClaimNothing
    <3>2. SavingGoesOn
      BY <1>1, <2>5 DEF Refuse, Scan, ScanDone, LockUpdate, ClaimEnter, ClaimCollect,
                        ClaimNothing, Finish, Goto, SavingGoesOn, TypeOK
    <3> QED BY <1>1, <3>1, <3>2, QuietCause
  <2> QED BY <1>4, <2>1, <2>2, <2>3, <2>4, <2>5 DEF Resume
<1>5. ASSUME NEW t \in Thread, NEW p \in Push, ScheduleBegin(t, p) PROVE CauseInv'
  BY <1>1, <1>5, ScheduleBeginCause
<1>6. ASSUME NEW t \in Thread, NEW c, Begin(t, c) PROVE CauseInv'
  <2>1. jobs' = jobs /\ SavingGoesOn
    BY <1>1, <1>6 DEF Begin, SavingGoesOn, TypeOK
  <2> QED BY <1>1, <2>1, QuietCause
<1>7. ASSUME NEW t \in Thread, NEW r \in Runner, ClaimBegin(t, r) PROVE CauseInv'
  <2>1. jobs' = jobs /\ SavingGoesOn
    BY <1>1, <1>7 DEF ClaimBegin, SavingGoesOn, TypeOK
  <2> QED BY <1>1, <2>1, QuietCause
<1>8. ASSUME NEW j \in JobId, LeaseExpires(j) \/ \E r \in Runner : Renew(j, r) PROVE CauseInv'
  BY <1>1, <1>8, ClockCause
<1>9. ASSUME NEW j \in JobId, NEW k \in JobId, Rerun(j, k) PROVE CauseInv'
  BY <1>1, <1>9, RerunCause
<1>10. ASSUME NEW p \in Push, ScheduleInvalid(p) PROVE CauseInv'
  BY <1>1, <1>10, ScheduleInvalidCause
<1>11. CASE (\E p \in Push : Prune(p)) \/ UNCHANGED vars
  <2>1. jobs' = jobs /\ SavingGoesOn
    BY <1>11 DEF Prune, vars, SavingGoesOn
  <2> QED BY <1>1, <2>1, QuietCause
<1>12. CASE (\E t \in Thread : IOError(t)) \/ Crash
  <2>1. jobs' = jobs /\ faults' = faults + 1
    BY <1>12 DEF IOError, Crash
  <2>2. SavingGoesOn
    BY <1>1, <1>2, <1>12, <2>1 DEF IOError, Crash, Finish, SavingGoesOn, TypeOK
  <2> QED BY <1>1, <2>1, <2>2, QuietCause
<1>13. ASSUME NEW t \in Thread, NEW j \in JobId, BeginStart(t, j) \/ BeginCancel(t, j)
       PROVE  CauseInv'
  <2>1. CASE BeginStart(t, j)
    BY <1>6, <2>1 DEF BeginStart
  <2>2. CASE BeginCancel(t, j)
    BY <1>6, <2>2 DEF BeginCancel
  <2> QED BY <1>13, <2>1, <2>2
<1>14. ASSUME NEW t \in Thread, NEW j \in JobId, NEW r \in Runner,
              NEW e \in BuildError \cup {NoError}, BeginComplete(t, j, r, e)
       PROVE  CauseInv'
  BY <1>6, <1>14 DEF BeginComplete
<1> QED
  BY <1>4, <1>5, <1>7, <1>8, <1>9, <1>10, <1>11, <1>12, <1>13, <1>14 DEF Next

LEMMA CauseInit == Init => CauseInv
<1> SUFFICES ASSUME Init PROVE CauseInv
  OBVIOUS
<1>1. \A j \in JobId : /\ jobs[j].status = "absent" /\ jobs[j].needs = {}
                       /\ jobs[j].error # "dependency"
  BY ConstantsAssumption DEF Init, NoRecord
<1>2. \A t \in Thread : pc[t] = "idle"
  BY DEF Init
<1> QED BY <1>1, <1>2 DEF CauseInv, DependencyFails, NeedsShape, FirstRunFirst, SavingWhole,
                          NeedsExist, FailedForCause

\* A job that reconcileJobDependencies fails for a need has a need that did fail,
\* was canceled, is about to be failed, or was lost to a fault: no handler, in
\* whatever order the reconciliations of several run, fails a job without cause.
THEOREM FailuresHaveCause == Spec => []FailedForCause
<1>1. CauseInv => FailedForCause
  BY DEF CauseInv
<1>2. Spec => []CauseInv
  BY CauseInit, CauseStep, Invariance, PTL DEF Spec
<1> QED BY <1>1, <1>2, PTL

-----------------------------------------------------------------------------
(* The order in which jobs are claimed. *)

\* Nothing becomes ready to be promoted as long as no job succeeds or starts to
\* wait.
LEMMA NothingPromoted ==
    ASSUME TypeOK, Promotable(jobs) = {},
           \A i \in JobId : /\ jobs'[i].needs = jobs[i].needs
                            /\ jobs'[i].status = "waiting" => jobs[i].status = "waiting"
                            /\ jobs'[i].status = "succeeded" => jobs[i].status = "succeeded"
    PROVE  Promotable(jobs') = {}
<1>1. \A i \in JobId : jobs[i].needs \subseteq JobId
  BY DEF TypeOK, Job
<1> QED BY <1>1 DEF Promotable, Reconcilable, Ready

\* While a claim lists or grants, every other handler is outside.
LEMMA ClaimAlone ==
    ASSUME IInv, NEW t \in Thread, pc[t] = "collect" \/ call[t].op = "grant"
    PROVE  /\ pc[t] \notin {"idle", "pending", "saving", "locked"}
           /\ Exclusive(t) /\ ~SharedGranted /\ ~ExclusiveGranted
           /\ \A u \in Thread \ {t} : pc[u] \in {"idle", "pending"}
  BY DEF IInv, CallShape, ExclusiveAlone, Exclusive, SharedGranted, ExclusiveGranted

\* What the listing of a claim says stays true while its own steps go on.
LEMMA GrantResumes ==
    ASSUME IInv, OrderInv, NEW t \in Thread, Resume(t), pc'[t] = "collect" \/ call'[t].op = "grant"
    PROVE  /\ Promotable(jobs') = {}
           /\ call'[t].op = "grant" =>
                 \A j \in JobId : jobs'[j].status = "queued" /\ jobConfig(j)' => j \in todo'[t]
<1> USE DEF IInv, OrderInv
<1>1. pc \in [Thread -> Label] /\ call \in [Thread -> Call] /\ upd \in [Thread -> JobId \cup {NoJob}]
      /\ todo \in [Thread -> SUBSET JobId] /\ jobs \in [JobId -> Job]
  BY DEF TypeOK
<1>2. CASE ScheduleSave(t) \/ SaveOwn(t) \/ ClaimEnter(t)
  BY <1>1, <1>2 DEF ScheduleSave, SaveOwn, ClaimEnter, Goto, CallShape
<1>3. CASE Refuse(t) \/ ClaimGrant(t) \/ ClaimNothing(t)
  BY <1>1, <1>3 DEF Refuse, ClaimGrant, ClaimNothing, Finish, NoCall
<1>4. CASE Scan(t) \/ LockUpdate(t)
  BY <1>1, <1>4 DEF Scan, LockUpdate, Goto, GrantWhole, jobConfig
<1>5. CASE ScanDone(t)
  <2>1. jobs' = jobs /\ pruned' = pruned /\ Promotable(jobs) = {}
    BY <1>5 DEF ScanDone, Updates
  <2>2. CASE call[t].op = "claim"
    BY <1>1, <1>5, <2>1, <2>2 DEF ScanDone, Goto
  <2>3. CASE call[t].op = "grant"
    BY <1>1, <1>5, <2>1, <2>3 DEF ScanDone, Goto, GrantWhole, jobConfig
  <2>4. CASE call[t].op \notin {"claim", "grant"}
    BY <1>1, <1>5, <2>4 DEF ScanDone, Finish, NoCall
  <2> QED BY <2>2, <2>3, <2>4
<1>6. CASE Update(t)
  <2>1. call[t].op = "grant" /\ call' = call /\ todo' = todo /\ pruned' = pruned
    BY <1>1, <1>6 DEF Update, Goto, CallShape
  <2>2. Promotable(jobs) = {}
    BY <2>1 DEF GrantWhole
  <2>3. \A i \in JobId : /\ jobs'[i].needs = jobs[i].needs
                         /\ jobs'[i].status # jobs[i].status => jobs'[i].status = "failed"
    <3>1. CASE upd[t] \in Updates(jobs)
      <4>1. upd[t] \in JobId /\ upd[t] \in Failing(jobs)
        BY <2>2, <3>1, UpdatesReconcilable DEF Updates
      <4>2. jobs' = [jobs EXCEPT ![upd[t]] = [jobs[upd[t]] EXCEPT !.status = "failed",
                                                                  !.error = "dependency"]]
        BY <1>6, <3>1, <4>1 DEF Update, Reconciled
      <4> QED BY <1>1, <4>1, <4>2 DEF Job
    <3>2. CASE upd[t] \notin Updates(jobs)
      BY <1>6, <3>2 DEF Update
    <3> QED BY <3>1, <3>2
  <2>4. Promotable(jobs') = {}
    BY <2>2, <2>3, NothingPromoted
  <2>5. \A j \in JobId : jobs'[j].status = "queued" /\ jobConfig(j)' => j \in todo'[t]
    BY <2>1, <2>3 DEF GrantWhole, jobConfig
  <2> QED BY <2>4, <2>5
<1>7. CASE ClaimCollect(t)
  <2>1. jobs' = jobs /\ todo'[t] = candidates(jobs) /\ Promotable(jobs) = {}
    BY <1>1, <1>7 DEF ClaimCollect, GrantWhole
  <2> QED BY <2>1 DEF candidates, Claimable
<1>8. CASE ClaimUnprepared(t)
  <2>1. call[t].op = "grant" /\ call' = call /\ pruned' = pruned
    BY <1>8 DEF ClaimUnprepared, CallShape
  <2>2. PICK k \in todo[t] : /\ ~jobConfig(k)
                            /\ jobs' = [jobs EXCEPT ![k] = UnpreparedJob(k)]
                            /\ todo' = [todo EXCEPT ![t] = @ \ {k}]
    BY <1>8 DEF ClaimUnprepared, FirstCandidate
  <2>3. \A i \in JobId : /\ jobs'[i].needs = jobs[i].needs
                         /\ jobs'[i].status # jobs[i].status => jobs'[i].status = "failed"
    BY <1>1, <2>2 DEF UnpreparedJob, Job
  <2>4. Promotable(jobs') = {}
    BY <2>1, <2>3, NothingPromoted DEF GrantWhole
  <2>5. \A j \in JobId : jobs'[j].status = "queued" /\ jobConfig(j)' => j \in todo'[t]
    BY <1>1, <2>1, <2>2, <2>3 DEF GrantWhole, jobConfig
  <2> QED BY <2>4, <2>5
<1> QED BY <1>2, <1>3, <1>4, <1>5, <1>6, <1>7, <1>8 DEF Resume

LEMMA GrantStep ==
    ASSUME IInv, OrderInv, [Next]_vars
    PROVE  GrantWhole'
<1> USE DEF IInv, OrderInv
<1> SUFFICES ASSUME NEW t \in Thread, pc'[t] = "collect" \/ call'[t].op = "grant"
             PROVE  /\ Promotable(jobs') = {}
                    /\ call'[t].op = "grant" =>
                          \A j \in JobId : jobs'[j].status = "queued" /\ jobConfig(j)' => j \in todo'[t]
  BY DEF GrantWhole
<1> DEFINE Goal == /\ Promotable(jobs') = {}
                   /\ call'[t].op = "grant" =>
                         \A j \in JobId : jobs'[j].status = "queued" /\ jobConfig(j)' => j \in todo'[t]
<1>1. pc \in [Thread -> Label] /\ call \in [Thread -> Call]
      /\ todo \in [Thread -> SUBSET JobId] /\ jobs \in [JobId -> Job]
  BY DEF TypeOK
<1>2. ASSUME pc'[t] = pc[t], call'[t] = call[t]
      PROVE  /\ pc[t] \notin {"idle", "pending", "saving", "locked"}
             /\ Exclusive(t) /\ ~SharedGranted /\ ~ExclusiveGranted
             /\ \A u \in Thread \ {t} : pc[u] \in {"idle", "pending"}
  BY <1>2, ClaimAlone
<1>3. ASSUME UNCHANGED <<jobs, pruned>>, pc'[t] = pc[t], call'[t] = call[t], todo'[t] = todo[t]
      PROVE  Goal
  BY <1>3 DEF GrantWhole, jobConfig
<1>4. ASSUME NEW u \in Thread, Resume(u) PROVE Goal
  <2>1. CASE u = t
    BY <1>4, <2>1, GrantResumes
  <2>2. CASE u # t
    <3>1. pc'[t] = pc[t] /\ call'[t] = call[t]
      BY <1>1, <1>4, <2>2 DEF Resume, ScheduleSave, SaveOwn, Refuse, Scan, ScanDone, LockUpdate,
           Update, ClaimEnter, ClaimCollect, ClaimGrant, ClaimUnprepared, ClaimNothing, Goto, Finish
    <3>2. pc[u] \in {"idle", "pending"} /\ pc[t] \notin {"idle", "pending"}
      BY <1>2, <2>2, <3>1
    <3> QED BY <1>4, <3>2 DEF Resume, ScheduleSave, SaveOwn, Refuse, Scan, ScanDone, LockUpdate,
           Update, ClaimEnter, ClaimCollect, ClaimGrant, ClaimUnprepared, ClaimNothing
  <2> QED BY <2>1, <2>2
<1>5. ASSUME NEW u \in Thread, NEW p \in Push, ScheduleBegin(u, p) PROVE FALSE
  <2>1. CASE u = t
    BY <1>1, <1>5, <2>1 DEF ScheduleBegin, NoCall
  <2>2. CASE u # t
    BY <1>1, <1>2, <1>5, <2>2 DEF ScheduleBegin
  <2> QED BY <2>1, <2>2
<1>6. ASSUME NEW u \in Thread, NEW c, Begin(u, c), c.op # "grant" PROVE FALSE
  <2>1. CASE u = t
    BY <1>1, <1>6, <2>1 DEF Begin
  <2>2. CASE u # t
    BY <1>1, <1>2, <1>6, <2>2 DEF Begin
  <2> QED BY <2>1, <2>2
<1>7. ASSUME NEW u \in Thread, NEW r \in Runner, ClaimBegin(u, r) PROVE Goal
  <2>1. CASE u = t
    BY <1>1, <1>7, <2>1 DEF ClaimBegin, NoCall
  <2>2. CASE u # t
    BY <1>1, <1>3, <1>7, <2>2 DEF ClaimBegin
  <2> QED BY <2>1, <2>2
<1>8. ASSUME NEW j \in JobId, LeaseExpires(j) PROVE Goal
  <2>1. pc' = pc /\ call' = call /\ todo' = todo /\ pruned' = pruned
    BY <1>8 DEF LeaseExpires
  <2>2. \A i \in JobId : jobs'[i].needs = jobs[i].needs /\ jobs'[i].status = jobs[i].status
    BY <1>1, <1>8 DEF LeaseExpires, Job
  <2>3. Promotable(jobs') = {}
    BY <2>1, <2>2, NothingPromoted DEF GrantWhole
  <2> QED BY <2>1, <2>2, <2>3 DEF GrantWhole, jobConfig
<1>9. ASSUME NEW j \in JobId, (\E r \in Runner : Renew(j, r)) \/ (\E k \in JobId : Rerun(j, k))
      PROVE  FALSE
  BY <1>2, <1>9 DEF Renew, Rerun
<1>10. ASSUME NEW p \in Push, ScheduleInvalid(p) \/ Prune(p) PROVE FALSE
  BY <1>2, <1>10 DEF ScheduleInvalid, Prune
<1>11. ASSUME NEW u \in Thread, IOError(u) PROVE FALSE
  <2>1. CASE u = t
    BY <1>1, <1>11, <2>1 DEF IOError, Finish, NoCall
  <2>2. CASE u # t
    BY <1>1, <1>2, <1>11, <2>2 DEF IOError, Finish
  <2> QED BY <2>1, <2>2
<1>12. ASSUME Crash PROVE Goal
  BY <1>12 DEF Crash, NoCall
<1>13. ASSUME UNCHANGED vars PROVE Goal
  BY <1>3, <1>13 DEF vars
<1>14. ASSUME NEW u \in Thread, NEW j \in JobId, BeginStart(u, j) \/ BeginCancel(u, j)
       PROVE  FALSE
  <2>1. CASE BeginStart(u, j)
    BY <1>6, <2>1 DEF BeginStart, NoCall
  <2>2. CASE BeginCancel(u, j)
    BY <1>6, <2>2 DEF BeginCancel, NoCall
  <2> QED BY <1>14, <2>1, <2>2
<1>15. ASSUME NEW u \in Thread, NEW j \in JobId, NEW r \in Runner,
              NEW e \in BuildError \cup {NoError}, BeginComplete(u, j, r, e)
       PROVE  FALSE
  BY <1>6, <1>15 DEF BeginComplete
<1> HIDE DEF Goal, IInv, OrderInv
<1>16. Goal
  BY <1>4, <1>5, <1>7, <1>8, <1>9, <1>10, <1>11, <1>12, <1>13, <1>14, <1>15 DEF Next
<1> QED BY <1>16 DEF Goal

\* The steps that write a job.
LEMMA JobWriters ==
    ASSUME [Next]_vars
    PROVE  \/ \E t \in Thread : Resume(t)
           \/ \E k \in JobId : LeaseExpires(k)
           \/ \E k \in JobId, r \in Runner : Renew(k, r)
           \/ \E l, k \in JobId : Rerun(l, k)
           \/ \E p \in Push : ScheduleInvalid(p)
           \/ UNCHANGED jobs
<1>1. ASSUME NEW t \in Thread, NEW j \in JobId, BeginStart(t, j) \/ BeginCancel(t, j)
      PROVE  UNCHANGED jobs
  BY <1>1 DEF BeginStart, BeginCancel, Begin
<1>2. ASSUME NEW t \in Thread, NEW j \in JobId, NEW r \in Runner,
             NEW e \in BuildError \cup {NoError}, BeginComplete(t, j, r, e)
      PROVE  UNCHANGED jobs
  BY <1>2 DEF BeginComplete, Begin
<1>3. ASSUME NEW t \in Thread, NEW p \in Push, ScheduleBegin(t, p) PROVE UNCHANGED jobs
  BY <1>3 DEF ScheduleBegin
<1>4. ASSUME NEW t \in Thread, NEW r \in Runner, ClaimBegin(t, r) PROVE UNCHANGED jobs
  BY <1>4 DEF ClaimBegin
<1>5. ASSUME NEW p \in Push, Prune(p) PROVE UNCHANGED jobs
  BY <1>5 DEF Prune
<1>6. ASSUME NEW t \in Thread, IOError(t) PROVE UNCHANGED jobs
  BY <1>6 DEF IOError
<1>7. ASSUME Crash \/ UNCHANGED vars PROVE UNCHANGED jobs
  BY <1>7 DEF Crash, vars
<1> QED BY <1>1, <1>2, <1>3, <1>4, <1>5, <1>6, <1>7 DEF Next

\* A job is only ever added: what is absent was so before.
LEMMA AbsentStep ==
    ASSUME IInv, [Next]_vars, NEW j \in JobId, jobs'[j].status = "absent"
    PROVE  jobs'[j] = jobs[j]
<1> USE DEF IInv
<1>1. jobs \in [JobId -> Job] /\ jobs[j] \in Job
  BY DEF TypeOK
<1>2. ASSUME NEW t \in Thread, Resume(t) PROVE jobs'[j] = jobs[j]
  <2>1. CASE ScheduleSave(t)
    <3>1. PICK k \in todo[t] : jobs' = [jobs EXCEPT ![k] = ConfiguredJob(push(k), name(k))]
      BY <2>1 DEF ScheduleSave
    <3>2. k \in JobId /\ push(k) \in Push /\ name(k) \in Name
      BY <2>1, JobIdFacts DEF ScheduleSave, SavingFresh, TypeOK
    <3>3. ConfiguredJob(push(k), name(k)).status # "absent"
      BY <3>2, ConfiguredJobShape
    <3> QED BY <1>1, <3>1, <3>2, <3>3
  <2>2. CASE SaveOwn(t)
    <3>1. own(t) \in JobId /\ call[t].op \in {"start", "cancel", "complete"}
      BY <2>2 DEF SaveOwn, CallShape
    <3>2. jobs[own(t)] \in Job
      BY <1>1, <3>1
    <3>3. OwnRecord(call[t]).status # "absent"
      BY <3>1, <3>2 DEF OwnRecord, StartedJob, CanceledJob, CompletedJob, own, Job
    <3> QED BY <1>1, <2>2, <3>1, <3>3 DEF SaveOwn
  <2>3. CASE Update(t)
    <3>1. upd[t] \in Updates(jobs) => Reconciled(jobs, upd[t]).status # "absent"
      BY <1>1, ReconciledStatus
    <3> QED BY <1>1, <2>3, <3>1 DEF Update
  <2>4. CASE ClaimGrant(t) \/ ClaimUnprepared(t)
    <3>1. PICK k \in todo[t] : \/ jobs' = [jobs EXCEPT ![k] = LeasedJob(k, call[t].runner)]
                              \/ jobs' = [jobs EXCEPT ![k] = UnpreparedJob(k)]
      BY <2>4 DEF ClaimGrant, ClaimUnprepared, FirstCandidate
    <3>2. k \in JobId /\ jobs[k] \in Job
      BY <1>1 DEF TypeOK
    <3>3. /\ LeasedJob(k, call[t].runner).status = "running"
          /\ UnpreparedJob(k).status = "failed"
      BY <3>2 DEF LeasedJob, UnpreparedJob, Job
    <3> QED BY <1>1, <3>1, <3>2, <3>3
  <2>5. CASE \/ Refuse(t) \/ Scan(t) \/ ScanDone(t) \/ LockUpdate(t) \/ ClaimEnter(t)
            \/ ClaimCollect(t) \/ ClaimNothing(t)
    BY <2>5 DEF Refuse, Scan, ScanDone, LockUpdate, ClaimEnter, ClaimCollect, ClaimNothing
  <2> QED BY <1>2, <2>1, <2>2, <2>3, <2>4, <2>5 DEF Resume
<1>3. ASSUME NEW i \in JobId, LeaseExpires(i) PROVE jobs'[j] = jobs[j]
  BY <1>1, <1>3 DEF LeaseExpires, LeaseShape, Job
<1>4. ASSUME NEW i \in JobId, NEW r \in Runner, Renew(i, r) PROVE jobs'[j] = jobs[j]
  BY <1>1, <1>4 DEF Renew, Job
<1>5. ASSUME NEW i \in JobId, NEW k \in JobId, Rerun(i, k) PROVE jobs'[j] = jobs[j]
  BY <1>1, <1>5 DEF Rerun, NewJob
<1>6. ASSUME NEW p \in Push, ScheduleInvalid(p) PROVE jobs'[j] = jobs[j]
  BY <1>1, <1>6 DEF ScheduleInvalid, NewJob
<1>7. CASE UNCHANGED jobs
  BY <1>7
<1> HIDE DEF IInv
<1> QED
  BY <1>2, <1>3, <1>4, <1>5, <1>6, <1>7, JobWriters

LEMMA OrderStep == IInv /\ OrderInv /\ [Next]_vars => OrderInv'
  BY GrantStep, AbsentStep DEF OrderInv, AbsentUnleased

LEMMA OrderInit == Init => OrderInv
  BY DEF Init, OrderInv, AbsentUnleased, GrantWhole, NoRecord, NoCall

\* No job comes before itself, and of two jobs only one comes before the other.
LEMMA OlderThanOrders ==
    ASSUME TypeOK, NEW i \in JobId, NEW j \in JobId, i = j \/ OlderThan(jobs, j, i)
    PROVE  ~OlderThan(jobs, i, j)
<1>1. jobs[i].created \in Nat /\ jobs[j].created \in Nat
  BY DEF TypeOK, Job
<1>2. name(i) \in Nat /\ name(j) \in Nat
  <2>1. Name \subseteq Nat /\ ConfigName \in Nat
    <3>1. \A n \in Name : n \in Nat
      BY ConstantsAssumption
    <3> QED BY <3>1 DEF ConfigName
  <2>2. name(i) \in Name \cup {ConfigName} /\ name(j) \in Name \cup {ConfigName}
    BY JobIdFacts
  <2> QED BY <2>1, <2>2
<1> QED BY <1>1, <1>2 DEF OlderThan

\* Only the grant of a claim changes an attempt, and it takes the oldest of its
\* candidates, among which is every queued job that it can prepare.
LEMMA GrantsOldest ==
    IInv /\ OrderInv /\ [Next]_vars =>
        [\A j \in JobId : jobs'[j].attempt # jobs[j].attempt =>
            \A i \in JobId : jobs[i].status = "queued" /\ jobConfig(i) =>
                                ~OlderThan(jobs, i, j)]_vars
<1> SUFFICES ASSUME IInv, OrderInv, Next, NEW j \in JobId, jobs'[j].attempt # jobs[j].attempt,
                    NEW i \in JobId, jobs[i].status = "queued", jobConfig(i)
             PROVE  ~OlderThan(jobs, i, j)
  OBVIOUS
<1>1. jobs \in [JobId -> Job] /\ jobs[j] \in Job
  BY DEF IInv, TypeOK
<1> USE DEF IInv, OrderInv
<1>2. ASSUME NEW t \in Thread, Resume(t) PROVE ~OlderThan(jobs, i, j)
  <2>1. CASE ScheduleSave(t)
    <3>1. PICK k \in todo[t] : jobs' = [jobs EXCEPT ![k] = ConfiguredJob(push(k), name(k))]
      BY <2>1 DEF ScheduleSave
    <3>2. k \in JobId /\ jobs[k].attempt = 0
      BY <2>1 DEF ScheduleSave, SavingFresh, AbsentUnleased, TypeOK
    <3>3. ConfiguredJob(push(k), name(k)).attempt = 0
      BY DEF ConfiguredJob, NewJob
    <3> QED BY <1>1, <3>1, <3>2, <3>3
  <2>2. CASE SaveOwn(t)
    <3>1. OwnRecord(call[t]).attempt = jobs[own(t)].attempt \/ own(t) # j
      BY <1>1, <2>2 DEF OwnRecord, StartedJob, CanceledJob, CompletedJob, own, Job
    <3> QED BY <1>1, <2>2, <3>1 DEF SaveOwn
  <2>3. CASE Update(t)
    <3>1. Reconciled(jobs, j).attempt = jobs[j].attempt
      BY <1>1 DEF Reconciled, Job
    <3> QED BY <1>1, <2>3, <3>1 DEF Update
  <2>4. CASE ClaimGrant(t)
    <3>1. PICK k \in FirstCandidate(jobs, todo[t]) :
                   jobs' = [jobs EXCEPT ![k] = LeasedJob(k, call[t].runner)]
      BY <2>4 DEF ClaimGrant
    <3>2. k = j
      BY <1>1, <3>1
    <3>3. i \in todo[t]
      BY <2>4 DEF ClaimGrant, CallShape, GrantWhole
    <3>4. i = j \/ OlderThan(jobs, j, i)
      BY <3>1, <3>2, <3>3 DEF FirstCandidate
    <3> QED BY <3>4, OlderThanOrders
  <2>5. CASE ClaimUnprepared(t)
    <3>1. PICK k \in todo[t] : jobs' = [jobs EXCEPT ![k] = UnpreparedJob(k)]
      BY <2>5 DEF ClaimUnprepared, FirstCandidate
    <3>2. UnpreparedJob(j).attempt = jobs[j].attempt
      BY <1>1 DEF UnpreparedJob, Job
    <3> QED BY <1>1, <3>1, <3>2
  <2>6. CASE \/ Refuse(t) \/ Scan(t) \/ ScanDone(t) \/ LockUpdate(t) \/ ClaimEnter(t)
            \/ ClaimCollect(t) \/ ClaimNothing(t)
    BY <2>6 DEF Refuse, Scan, ScanDone, LockUpdate, ClaimEnter, ClaimCollect, ClaimNothing
  <2> QED BY <1>2, <2>1, <2>2, <2>3, <2>4, <2>5, <2>6 DEF Resume
<1>3. ASSUME NEW k \in JobId, LeaseExpires(k) PROVE FALSE
  BY <1>1, <1>3 DEF LeaseExpires, Job
<1>4. ASSUME NEW k \in JobId, NEW r \in Runner, Renew(k, r) PROVE FALSE
  BY <1>1, <1>4 DEF Renew, Job
<1>5. ASSUME NEW l \in JobId, NEW k \in JobId, Rerun(l, k) PROVE FALSE
  BY <1>1, <1>5 DEF Rerun, NewJob, AbsentUnleased
<1>6. ASSUME NEW p \in Push, ScheduleInvalid(p) PROVE FALSE
  BY <1>1, <1>6, JobIdFacts DEF ScheduleInvalid, NewJob, AbsentUnleased
<1>7. ~ UNCHANGED jobs
  OBVIOUS
<1> HIDE DEF IInv, OrderInv
<1> QED
  BY <1>2, <1>3, <1>4, <1>5, <1>6, <1>7, JobWriters

\* "Claim the oldest queued or expired build lease": Claim passes over a queued
\* job for a younger one only if it cannot read the job's configuration any more,
\* however many candidates it has failed and reconciled since it listed them.
THEOREM ClaimsInOrder == Spec => OldestFirst
<1>1. Spec => []OrderInv
  BY OrderInit, OrderStep, Invariance, PTL DEF Spec
<1> QED BY <1>1, GrantsOldest, Invariance, PTL DEF Spec, OldestFirst
=============================================================================
