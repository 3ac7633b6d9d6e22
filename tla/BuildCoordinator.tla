--------------------------- MODULE BuildCoordinator ---------------------------
(***************************************************************************)
(* The durable build queue of the GitOne web server                        *)
(* (internal/runner/coordinator.go, dependencies.go, store.go,             *)
(* operations.go) for one repository.                                      *)
(*                                                                         *)
(* Every job is one JSON file below <repository>.build; `jobs' is that     *)
(* directory.  HTTP handlers run concurrently as threads.  Start, Cancel   *)
(* and Complete hold the catalog, group and repository locks in Shared     *)
(* mode plus the Exclusive lock of their own job, save that job, and then  *)
(* reconcile the dependent jobs, taking the lock of each job they update.  *)
(* ScheduleLocked runs under the Exclusive repository lock of the handler  *)
(* that moved the branch, Claim under the Exclusive catalog lock.          *)
(*                                                                         *)
(* A lease is the outcome of comparing LeaseExpiresAt with the clock:      *)
(* "live" until LeaseExpires makes it "expired".                           *)
(***************************************************************************)
EXTENDS Integers, FiniteSets

CONSTANTS
    Thread,       \* request handlers that may be in flight together
    Runner,       \* runner IDs
    Push,         \* branch updates (a branch at a commit) that schedule some job
    Name,         \* job names, numbers so that they have an order
    Needs,        \* Needs[p][n]: the jobs that job n of push p needs
    Manual,       \* Manual[p]: the jobs of push p marked manual: true
    Matches,      \* Matches[p]: the jobs whose branch filter matches
    ValidConfig,  \* the pushes whose .gitone.yaml is readable and valid
    BuildError,   \* error texts a runner may report
    MaxRun,       \* bound: reruns of one named job
    MaxAttempt,   \* bound: leases of one job that may expire, plus one
    MaxFault,     \* bound: crashes and I/O errors
    NoRunner, NoJob, NoError

VARIABLES
    jobs,    \* the job files, by ID
    pruned,  \* pushes whose commit has been removed from the object store
    clock,   \* stands for time.Now() where it stamps CreatedAt
    pc,      \* where each handler is
    call,    \* the request each handler serves
    upd,     \* the job selected by the handler's dependency scan
    todo,    \* names still to save (Schedule), candidates left (Claim)
    faults   \* crashes and I/O errors so far

vars == <<jobs, pruned, clock, pc, call, upd, todo, faults>>

ConfigName == 0
JobId == Push \X (Name \cup {ConfigName}) \X (0 .. MaxRun)
push(j) == j[1]
name(j) == j[2]

Status == {"absent", "manual", "waiting", "queued", "running",
           "succeeded", "failed", "canceled"}
terminalStatus(s) == s \in {"succeeded", "failed", "canceled"}
Cause == BuildError \cup {NoError, "dependency", "configuration"}

Job == [status : Status, needs : SUBSET JobId, runner : Runner \cup {NoRunner},
        attempt : Nat, lease : {"none", "live", "expired"}, error : Cause,
        created : Nat]

NewJob(status, needs, error) ==
    [status |-> status, needs |-> needs, runner |-> NoRunner, attempt |-> 0,
     lease |-> "none", error |-> error, created |-> clock]

NoRecord == [status |-> "absent", needs |-> {}, runner |-> NoRunner,
             attempt |-> 0, lease |-> "none", error |-> NoError, created |-> 0]

Call == [op : {"none", "start", "cancel", "complete", "schedule", "claim", "grant"},
         job : JobId \cup {NoJob}, runner : Runner \cup {NoRunner},
         error : BuildError \cup {NoError}]
NoCall == [op |-> "none", job |-> NoJob, runner |-> NoRunner, error |-> NoError]

ASSUME ConstantsAssumption ==
    /\ Name \subseteq Nat \ {ConfigName}
    /\ Needs \in [Push -> [Name -> SUBSET Name]]
    /\ Manual \in [Push -> SUBSET Name]
    /\ Matches \in [Push -> SUBSET Name]
    /\ \A p \in ValidConfig : Matches[p] # {}
    /\ MaxRun \in Nat /\ MaxAttempt \in Nat /\ MaxFault \in Nat
    /\ NoRunner \notin Runner /\ NoJob \notin JobId /\ NoError \notin BuildError
    \* The causes that the server writes are told apart from what a runner reports.
    /\ {"dependency", "configuration"} \cap (BuildError \cup {NoError}) = {}

Init ==
    /\ jobs = [j \in JobId |-> NoRecord]
    /\ pruned = {}
    /\ clock = 0
    /\ pc = [t \in Thread |-> "idle"]
    /\ call = [t \in Thread |-> NoCall]
    /\ upd = [t \in Thread |-> NoJob]
    /\ todo = [t \in Thread |-> {}]
    /\ faults = 0

-----------------------------------------------------------------------------
(* Locks held by the handlers, by where they are. *)

own(t) == call[t].job

\* acquireRepositoryBuildLock(..., id) and the nested JobRequest lock.
HoldsJob(t, j) ==
    \/ pc[t] # "idle" /\ own(t) = j
    \/ pc[t] = "update" /\ upd[t] = j
JobLockFree(j) == \A t \in Thread : ~HoldsJob(t, j)

\* Claim holds the catalog, the scheduling handler the repository, Exclusive.
Exclusive(t) == pc[t] # "idle" /\ call[t].op \in {"schedule", "claim", "grant"}
\* Mutant: Claim locks out no other handler.
NoBarrier == TRUE
\* A writer waiting for the RWMutex of the catalog ("pending") already blocks
\* every new reader; both kinds of handler start by locking the catalog.
SharedGranted == \A t \in Thread : ~Exclusive(t)
ExclusiveGranted == \A t \in Thread : pc[t] = "idle"

Finish(t) ==
    /\ pc' = [pc EXCEPT ![t] = "idle"]
    /\ call' = [call EXCEPT ![t] = NoCall]
    /\ upd' = [upd EXCEPT ![t] = NoJob]
    /\ todo' = [todo EXCEPT ![t] = {}]

Goto(t, label) ==
    /\ pc' = [pc EXCEPT ![t] = label]
    /\ UNCHANGED <<call, upd, todo>>

-----------------------------------------------------------------------------
(* The dependency rules of dependencies.go, over a directory listing J. *)

\* reconcileJobDependencies looks only at these jobs.
Reconcilable(J, j) == J[j].needs # {} /\ J[j].status \in {"waiting", "manual"}

\* Mutant: a dependency that is being built counts as broken.
BrokenRunning(J, d) == J[d].status \in {"absent", "failed", "canceled", "running"}
\* dependencyReadiness: a dependency that makes the job fail ...
Broken(J, d) == J[d].status \in {"absent", "failed", "canceled"}
\* ... and a job all of whose dependencies have succeeded.
Ready(J, j) == \A d \in J[j].needs : J[d].status = "succeeded"

\* The madeProgress loop fails whole chains of dependants in memory: the least
\* set of jobs that holds each one with a dependency broken or in the set.
Chain(J) == {j \in JobId : Reconcilable(J, j)}
Closed(J, S) ==
    \A j \in Chain(J) : (\E d \in J[j].needs : Broken(J, d) \/ d \in S) => j \in S
Failing(J) ==
    {j \in Chain(J) : \A S \in SUBSET Chain(J) : Closed(J, S) => j \in S}

Promotable(J) ==
    {j \in JobId : Reconcilable(J, j) /\ J[j].status = "waiting" /\ Ready(J, j)}

\* The updates reconcileJobDependencies returns.
Updates(J) == Failing(J) \cup Promotable(J)

\* The record it returns for one of them.
Reconciled(J, j) ==
    IF j \in Failing(J)
    THEN [J[j] EXCEPT !.status = "failed",
                      !.error = "dependency"]
    ELSE [J[j] EXCEPT !.status = "queued"]

\* Store.List: newest first, then by name.
ListedBefore(J, i, j) ==
    \/ J[i].created > J[j].created
    \/ J[i].created = J[j].created /\ name(i) < name(j)
FirstListed(J, S) == {j \in S : \A i \in S \ {j} : ListedBefore(J, j, i)}

\* Coordinator.candidates: oldest first, then by name.
OlderThan(J, i, j) ==
    \/ J[i].created < J[j].created
    \/ J[i].created = J[j].created /\ name(i) < name(j)
Claimable(J, j) ==
    \/ J[j].status = "queued"
    \/ J[j].status = "running" /\ J[j].lease # "live"
candidates(J) == {j \in JobId : Claimable(J, j)}
\* Mutant: the order of the listing, newest first.
NewestCandidate(J, S) == {j \in S : \A i \in S \ {j} : ListedBefore(J, j, i)}
FirstCandidate(J, S) == {j \in S : \A i \in S \ {j} : OlderThan(J, j, i)}

\* jobConfig: the commit's .gitone.yaml still names the job.
jobConfig(j) ==
    /\ push(j) \in ValidConfig \ pruned
    /\ name(j) \in Name

-----------------------------------------------------------------------------
(* ScheduleLocked, called by the handler that moved a branch. *)

\* configuredJobs: the initial record of job n of push p.
ConfiguredJob(p, n) ==
    LET needs == {<<p, d, 0>> : d \in Needs[p][n] \cap Matches[p]} IN
    IF ~ (Needs[p][n] \subseteq Matches[p]) THEN NewJob("failed", needs, "configuration")
    ELSE IF n \in Manual[p] THEN NewJob("manual", needs, NoError)
    ELSE IF needs # {} THEN NewJob("waiting", needs, NoError)
    ELSE NewJob("queued", {}, NoError)

\* failedConfigurationJob: one failed job records an unusable configuration.
ScheduleInvalid(p) ==
    /\ ExclusiveGranted
    /\ p \notin ValidConfig
    /\ jobs[<<p, ConfigName, 0>>].status = "absent"
    /\ clock' = clock + 1
    /\ jobs' = [jobs EXCEPT ![<<p, ConfigName, 0>>] =
                    [NewJob("failed", {}, "configuration") EXCEPT !.created = clock']]
    /\ UNCHANGED <<pruned, pc, call, upd, todo, faults>>

\* Each branch update is scheduled once (its job IDs are fresh).
ScheduleBegin(t, p) ==
    /\ ExclusiveGranted
    /\ p \in ValidConfig \ pruned
    /\ \A j \in JobId : push(j) = p => jobs[j].status = "absent"
    /\ clock' = clock + 1
    /\ pc' = [pc EXCEPT ![t] = "saving"]
    /\ call' = [call EXCEPT ![t] = [NoCall EXCEPT !.op = "schedule"]]
    /\ todo' = [todo EXCEPT ![t] = {<<p, n, 0>> : n \in Matches[p]}]
    /\ UNCHANGED <<jobs, pruned, upd, faults>>

\* The jobs are saved one file at a time, in name order.
ScheduleSave(t) ==
    /\ pc[t] = "saving"
    /\ \E j \in todo[t] :
       /\ \A i \in todo[t] : name(j) <= name(i)
       /\ jobs' = [jobs EXCEPT ![j] = ConfiguredJob(push(j), name(j))]
       /\ todo' = [todo EXCEPT ![t] = @ \ {j}]
       /\ pc' = [pc EXCEPT ![t] = IF todo[t] = {j} THEN "scan" ELSE "saving"]
    /\ UNCHANGED <<pruned, clock, call, upd, faults>>

-----------------------------------------------------------------------------
(* Start, Cancel and Complete: acquire the locks, save the own job, then   *)
(* reconcile.  An early return releases the locks and changes nothing.     *)

\* For an ID without a file, Get answers ErrBuildNotFound.
Begin(t, c) ==
    /\ pc[t] = "idle"
    /\ jobs[c.job].status # "absent"
    /\ SharedGranted
    /\ JobLockFree(c.job)
    /\ pc' = [pc EXCEPT ![t] = "locked"]
    /\ call' = [call EXCEPT ![t] = c]
    /\ UNCHANGED <<jobs, pruned, clock, upd, todo, faults>>

BeginStart(t, j)  == Begin(t, [NoCall EXCEPT !.op = "start", !.job = j])
BeginCancel(t, j) == Begin(t, [NoCall EXCEPT !.op = "cancel", !.job = j])
BeginComplete(t, j, r, e) ==
    Begin(t, [op |-> "complete", job |-> j, runner |-> r, error |-> e])

StartAccepted(j) ==
    /\ jobs[j].status = "manual"
    /\ jobConfig(j)
    /\ name(j) \in Manual[push(j)]
    /\ Ready(jobs, j)
StartedJob(j) == [jobs[j] EXCEPT !.status = "queued"]

CancelAccepted(j) == jobs[j].status \in {"waiting", "queued", "running"}
CanceledJob(j) ==
    [jobs[j] EXCEPT !.status = "canceled", !.lease = "none", !.error = NoError]

\* Mutant: also accepts the result of a job canceled meanwhile.
CompleteAnyOwned(j, r) == jobs[j].status \in {"running", "canceled"} /\ jobs[j].runner = r
CompleteAccepted(j, r) == jobs[j].status = "running" /\ jobs[j].runner = r
CompletedJob(j, e) ==
    [jobs[j] EXCEPT !.status = IF e = NoError THEN "succeeded" ELSE "failed",
                    !.lease = "none", !.error = e]

Accepted(c) ==
    \/ c.op = "start" /\ StartAccepted(c.job)
    \/ c.op = "cancel" /\ CancelAccepted(c.job)
    \/ c.op = "complete" /\ CompleteAccepted(c.job, c.runner)

OwnRecord(c) ==
    CASE c.op = "start" -> StartedJob(c.job)
      [] c.op = "cancel" -> CanceledJob(c.job)
      [] OTHER -> CompletedJob(c.job, c.error)

SaveOwn(t) ==
    /\ pc[t] = "locked"
    /\ Accepted(call[t])
    /\ jobs' = [jobs EXCEPT ![own(t)] = OwnRecord(call[t])]
    /\ Goto(t, "scan")
    /\ UNCHANGED <<pruned, clock, faults>>

Refuse(t) ==
    /\ pc[t] = "locked"
    /\ ~Accepted(call[t])
    /\ Finish(t)
    /\ UNCHANGED <<jobs, pruned, clock, faults>>

-----------------------------------------------------------------------------
(* reconcileDependenciesWithLockedJob.  The scan only selects a job; the   *)
(* update is recomputed under that job's lock.                             *)

Scan(t) ==
    /\ pc[t] = "scan"
    /\ \E u \in FirstListed(jobs, Updates(jobs)) :
       /\ upd' = [upd EXCEPT ![t] = u]
       /\ pc' = [pc EXCEPT ![t] = IF u = own(t) THEN "update" ELSE "want"]
    /\ UNCHANGED <<jobs, pruned, clock, call, todo, faults>>

\* No update is left: Start, Cancel, Complete and ScheduleLocked return.
ScanDone(t) ==
    /\ pc[t] = "scan"
    /\ Updates(jobs) = {}
    /\ CASE call[t].op = "claim" -> Goto(t, "collect")
         [] call[t].op = "grant" -> Goto(t, "grant")
         [] OTHER -> Finish(t)
    /\ UNCHANGED <<jobs, pruned, clock, faults>>

LockUpdate(t) ==
    /\ pc[t] = "want"
    /\ JobLockFree(upd[t])
    /\ Goto(t, "update")
    /\ UNCHANGED <<jobs, pruned, clock, faults>>

Update(t) ==
    /\ pc[t] = "update"
    /\ jobs' = IF upd[t] \in Updates(jobs)
               THEN [jobs EXCEPT ![upd[t]] = Reconciled(jobs, upd[t])]
               ELSE jobs
    /\ Goto(t, "scan")
    /\ UNCHANGED <<pruned, clock, faults>>

-----------------------------------------------------------------------------
(* Claim: reconcile, list the candidates, grant the oldest one that still  *)
(* has a configuration; a candidate without one fails on the way.          *)

ClaimBegin(t, r) ==
    /\ pc[t] = "idle"
    /\ pc' = [pc EXCEPT ![t] = "pending"]
    /\ call' = [call EXCEPT ![t] = [NoCall EXCEPT !.op = "claim", !.runner = r]]
    /\ UNCHANGED <<jobs, pruned, clock, upd, todo, faults>>

\* The Exclusive catalog lock is granted once the handlers inside have left.
ClaimEnter(t) ==
    /\ pc[t] = "pending"
    /\ \A u \in Thread : pc[u] \in {"idle", "pending"}
    /\ Goto(t, "scan")
    /\ UNCHANGED <<jobs, pruned, clock, faults>>

ClaimCollect(t) ==
    /\ pc[t] = "collect"
    /\ todo' = [todo EXCEPT ![t] = candidates(jobs)]
    /\ call' = [call EXCEPT ![t].op = "grant"]
    /\ pc' = [pc EXCEPT ![t] = "grant"]
    /\ UNCHANGED <<jobs, pruned, clock, upd, faults>>

LeasedJob(j, r) ==
    [jobs[j] EXCEPT !.status = "running", !.runner = r,
                    !.attempt = @ + 1, !.lease = "live"]
\* Mutant: skips a candidate it cannot prepare.
SkippedJob(j) == jobs[j]
UnpreparedJob(j) ==
    [jobs[j] EXCEPT !.status = "failed", !.error = "configuration", !.lease = "none"]

ClaimGrant(t) ==
    /\ pc[t] = "grant"
    /\ \E j \in FirstCandidate(jobs, todo[t]) :
       /\ jobConfig(j)
       /\ jobs' = [jobs EXCEPT ![j] = LeasedJob(j, call[t].runner)]
    /\ Finish(t)
    /\ UNCHANGED <<pruned, clock, faults>>

ClaimUnprepared(t) ==
    /\ pc[t] = "grant"
    /\ \E j \in FirstCandidate(jobs, todo[t]) :
       /\ ~jobConfig(j)
       /\ jobs' = [jobs EXCEPT ![j] = UnpreparedJob(j)]
       /\ todo' = [todo EXCEPT ![t] = @ \ {j}]
    /\ pc' = [pc EXCEPT ![t] = "scan"]
    /\ UNCHANGED <<pruned, clock, call, upd, faults>>

ClaimNothing(t) ==
    /\ pc[t] = "grant"
    /\ todo[t] = {}
    /\ Finish(t)
    /\ UNCHANGED <<jobs, pruned, clock, faults>>

-----------------------------------------------------------------------------
(* Handlers without nested locks: one critical section each. *)

\* HeartbeatState and AppendLog both renew the lease of a running job.
Renew(j, r) ==
    /\ SharedGranted /\ JobLockFree(j)
    /\ jobs[j].runner = r /\ jobs[j].status = "running"
    /\ jobs[j].lease # "live"
    /\ jobs' = [jobs EXCEPT ![j].lease = "live"]
    /\ UNCHANGED <<pruned, clock, pc, call, upd, todo, faults>>

\* Mutant: any run of the needed job.
AnyRuns(p, d) == {k \in JobId : push(k) = p /\ name(k) = d /\ jobs[k].status # "absent"}
\* successfulDependencies: the newest successful run of needed job d.
SuccessfulRuns(p, d) ==
    {k \in JobId : push(k) = p /\ name(k) = d /\ jobs[k].status = "succeeded"}
successfulDependencies(p, n) ==
    {k \in JobId : \E d \in Needs[p][n] : k \in FirstListed(jobs, SuccessfulRuns(p, d))}

Rerun(j, k) ==
    /\ SharedGranted /\ JobLockFree(j)
    /\ terminalStatus(jobs[j].status)
    /\ jobConfig(j)
    /\ \A d \in Needs[push(j)][name(j)] : SuccessfulRuns(push(j), d) # {}
    /\ push(k) = push(j) /\ name(k) = name(j) /\ jobs[k].status = "absent"
    /\ clock' = clock + 1
    /\ jobs' = [jobs EXCEPT ![k] =
            [NewJob("queued", successfulDependencies(push(j), name(j)), NoError)
                EXCEPT !.created = clock']]
    /\ UNCHANGED <<pruned, pc, call, upd, todo, faults>>

-----------------------------------------------------------------------------
(* Time, the object store, and failures. *)

LeaseExpires(j) ==
    /\ jobs[j].lease = "live"
    /\ jobs[j].attempt < MaxAttempt
    /\ jobs' = [jobs EXCEPT ![j].lease = "expired"]
    /\ UNCHANGED <<pruned, clock, pc, call, upd, todo, faults>>

\* maintainRepositoryObjects, under the Exclusive repository lock of a push
\* that abandoned the commit.
Prune(p) ==
    /\ ExclusiveGranted
    /\ p \notin pruned
    /\ \E j \in JobId : push(j) = p /\ jobs[j].status # "absent"
    /\ pruned' = pruned \cup {p}
    /\ UNCHANGED <<jobs, clock, pc, call, upd, todo, faults>>

\* A failed read or save returns from the handler and releases its locks.
IOError(t) ==
    /\ pc[t] \notin {"idle", "pending", "want"}
    /\ faults < MaxFault
    /\ faults' = faults + 1
    /\ Finish(t)
    /\ UNCHANGED <<jobs, pruned, clock>>

\* The server stops and starts: handlers vanish, the job files stay.
Crash ==
    /\ ~ExclusiveGranted
    /\ faults < MaxFault
    /\ faults' = faults + 1
    /\ pc' = [t \in Thread |-> "idle"]
    /\ call' = [t \in Thread |-> NoCall]
    /\ upd' = [t \in Thread |-> NoJob]
    /\ todo' = [t \in Thread |-> {}]
    /\ UNCHANGED <<jobs, pruned, clock>>

-----------------------------------------------------------------------------
Resume(t) ==
    \/ ScheduleSave(t) \/ SaveOwn(t) \/ Refuse(t)
    \/ Scan(t) \/ ScanDone(t) \/ LockUpdate(t) \/ Update(t)
    \/ ClaimEnter(t) \/ ClaimCollect(t) \/ ClaimGrant(t) \/ ClaimUnprepared(t) \/ ClaimNothing(t)

Next ==
    \/ \E t \in Thread : Resume(t)
    \/ \E t \in Thread, p \in Push : ScheduleBegin(t, p)
    \/ \E t \in Thread, j \in JobId : BeginStart(t, j) \/ BeginCancel(t, j)
    \/ \E t \in Thread, j \in JobId, r \in Runner, e \in BuildError \cup {NoError} :
          BeginComplete(t, j, r, e)
    \/ \E t \in Thread, r \in Runner : ClaimBegin(t, r)
    \/ \E j \in JobId, r \in Runner : Renew(j, r)
    \/ \E j, k \in JobId : Rerun(j, k)
    \/ \E p \in Push : ScheduleInvalid(p) \/ Prune(p)
    \/ \E j \in JobId : LeaseExpires(j)
    \/ \E t \in Thread : IOError(t)
    \/ Crash

Spec == Init /\ [][Next]_vars

\* A handler in flight runs on: goroutines are scheduled, and sync.RWMutex
\* grants a free lock.  Runners poll for ever, and the server starts a handler
\* for each request, so some claim is always made again.
Fairness ==
    /\ \A t \in Thread : WF_vars(Resume(t))
    /\ SF_vars(\E t \in Thread, r \in Runner : ClaimBegin(t, r))

FairSpec == Spec /\ Fairness

-----------------------------------------------------------------------------
Label == {"idle", "saving", "locked", "scan", "want", "update",
          "pending", "collect", "grant"}

\* Every variable keeps its type.
TypeOK ==
    /\ jobs \in [JobId -> Job]
    /\ pruned \subseteq Push
    /\ clock \in Nat
    /\ pc \in [Thread -> Label]
    /\ call \in [Thread -> Call]
    /\ upd \in [Thread -> JobId \cup {NoJob}]
    /\ todo \in [Thread -> SUBSET JobId]
    /\ faults \in Nat

\* A job is in the queue, running, or succeeded only if everything it needs has
\* succeeded, whatever Start, Cancel, Complete, Rerun, Claim and the
\* reconciliations of several handlers do meanwhile, and after any crash.
DependenciesSucceeded ==
    \A j \in JobId :
        jobs[j].status \in {"queued", "running", "succeeded"} =>
            \A d \in jobs[j].needs : jobs[d].status = "succeeded"

\* A job that reconciliation failed for its dependencies did have a broken one:
\* a need that failed or was canceled, or that the next reconciliation will
\* fail; a need is missing altogether only after a fault cut a Schedule short.
FailedForCause ==
    \A j \in JobId : jobs[j].error = "dependency" =>
        \E d \in jobs[j].needs :
            \/ jobs[d].status \in {"failed", "canceled"}
            \/ d \in Failing(jobs)
            \/ jobs[d].status = "absent" /\ faults > 0

\* The nested job locks of reconcileDependenciesWithLockedJob are taken in no
\* order, yet no set of handlers ever waits only on each other.
NoCircularWait ==
    \A D \in (SUBSET Thread) \ {{}} :
        \E t \in D : ~ (pc[t] = "want" /\ \E u \in D : HoldsJob(u, upd[t]))

\* A finished job is never written again: no completion, cancellation,
\* reconciliation or claim replaces a result ("cannot overwrite the canceled
\* result").
TerminalStable ==
    [][\A j \in JobId : terminalStatus(jobs[j].status) => jobs'[j] = jobs[j]]_vars

\* A running job changes hands only when its lease has run out.
LeaseRespected ==
    [][\A j \in JobId :
          jobs[j].status = "running" /\ jobs'[j].attempt # jobs[j].attempt =>
              jobs[j].lease = "expired"]_vars

\* A claim passes over a queued job for a younger one only if the job's
\* configuration can no longer be read, although the candidates were listed
\* some steps earlier ("Claim the oldest queued or expired build lease").
OldestFirst ==
    [][\A j \in JobId : jobs'[j].attempt # jobs[j].attempt =>
          \A i \in JobId : jobs[i].status = "queued" /\ jobConfig(i) =>
                              ~OlderThan(jobs, i, j)]_vars

\* A job waits although all it needs has ended, or some of it failed or is gone.
Overdue(j) ==
    /\ jobs[j].status = "waiting"
    /\ Ready(jobs, j) \/ \E d \in jobs[j].needs : Broken(jobs, d)
Unserved(j) == jobs[j].status = "queued" \/ Overdue(j)

\* While runners poll, no queued job stays queued for ever, and no dependant is left
\* waiting when a fault came between a handler's save of its own result and its
\* reconciliation, or between two saves of a schedule.
QueueDrains == \A j \in JobId : Unserved(j) ~> ~Unserved(j)
=============================================================================
