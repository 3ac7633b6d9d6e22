------------------------------- MODULE HandlerLocks -------------------------------
(***************************************************************************)
(* How the request handlers of the web server nest their Acquire calls.    *)
(*                                                                         *)
(* The lock manager orders the keys of one call; a handler that holds the  *)
(* result of one call and makes another is on its own.  Each handler below *)
(* is the list of the steps of one kind of request that matter to the      *)
(* locks, over a root group `a' with a subgroup `a/b' that holds one       *)
(* repository with two build jobs.  Which job a reconciliation locks is    *)
(* decided by the stored jobs it lists, so the steps that save jobs are    *)
(* part of the plans.                                                      *)
(***************************************************************************)
EXTENDS KeyLocks, Sequences

CONSTANTS Handler, Plans

VARIABLES
    plan,      \* the steps each handler still has to take
    undecided  \* the jobs that are stored as waiting or manual

hvars == <<pc, want, lock, plan, undecided>>

(* The lock keys, in the order of their strings. *)
Catalog == 0          \* 00-catalog
GroupA == 10          \* 10-group a
GroupB == 11          \* 10-group a/b
Repository == 20      \* 20-repository
Lfs == 30             \* 30-lfs a
Queue == 40           \* 40-runner-queue
Job1 == 41            \* 41-runner-job
Job2 == 42
ReviewCatalog == 49   \* 49-review-catalog
ReviewA == 50         \* 50-review-group
ReviewB == 51
ReviewRepository == 52
IssueCatalog == 53
IssueA == 54
IssueB == 55
IssueRepository == 56
Merge == 60           \* 60-merge
Jobs == {Job1, Job2}

HandlerKeys == {Catalog, GroupA, GroupB, Repository, Lfs, Queue, Job1, Job2, ReviewCatalog,
                ReviewA, ReviewB, ReviewRepository, IssueCatalog, IssueA, IssueB,
                IssueRepository, Merge}

Shared(K) == [key : K, mode : {"shared"}]
Exclusive(K) == [key : K, mode : {"exclusive"}]

\* Mutant: forgets the ancestry of groups.
RepositoryRequestsAlone(mode) ==
    Shared({Catalog}) \cup [key : {Repository}, mode : {mode}]
RepositoryRequests(mode) ==
    Shared({Catalog, GroupA, GroupB}) \cup [key : {Repository}, mode : {mode}]
GroupRequests(group) ==
    Shared({Catalog, GroupA}) \cup Exclusive({group})
\* LFS quota belongs to the root group.
LFSRequests == Shared({Catalog, GroupA}) \cup Exclusive({Lfs})
ReviewRepositoryRequests ==
    Shared({ReviewCatalog, ReviewA, ReviewB}) \cup Exclusive({ReviewRepository})
ReviewGroupRequests(group) == Shared({ReviewCatalog, ReviewA}) \cup Exclusive({group})
IssueRepositoryRequests ==
    Shared({IssueCatalog, IssueA, IssueB}) \cup Exclusive({IssueRepository})
IssueGroupRequests(group) == Shared({IssueCatalog, IssueA}) \cup Exclusive({group})

\* The steps of a plan.
acquire(requests) == [step |-> "acquire", requests |-> requests]
release == [step |-> "release", requests |-> {}]      \* of the innermost Acquire
create == [step |-> "create", requests |-> {}]        \* stores the jobs of a push
save == [step |-> "save", requests |-> {}]            \* of the job locked first
reconcile == [step |-> "reconcile", requests |-> {}]  \* the jobs that depend on others
update == [step |-> "update", requests |-> {}]        \* of the job locked last

-----------------------------------------------------------------------------
(* The handlers. *)

\* Mutant: calls Schedule, which locks the repository again.
scheduleBuildRelocks ==
    <<acquire(RepositoryRequests("shared")), create, reconcile, release>>
\* scheduleBuild calls ScheduleLocked, which does not lock the repository again.
scheduleBuild == <<create, reconcile>>

\* receivePack, and the file and branch editors.
receivePack == <<acquire(RepositoryRequests("exclusive"))>> \o scheduleBuild \o <<release>>

\* openLockedReviewRepository and one store update.
reviewUpdate ==
    <<acquire(RepositoryRequests("exclusive")), acquire(ReviewRepositoryRequests),
      release, release>>

createIssueBranch ==
    <<acquire(RepositoryRequests("exclusive")), acquire(IssueRepositoryRequests), release>>
    \o scheduleBuild \o <<release>>

\* Takes the review locks inside the merge lock, against the order of the keys.
mergeStoredRequest ==
    <<acquire(RepositoryRequests("exclusive")), acquire(Exclusive({Merge})),
      acquire(ReviewRepositoryRequests), release>>
    \o scheduleBuild
    \o <<acquire(ReviewRepositoryRequests), release, release, release>>

\* repositoryCounts: the stores' readers take the store locks only.
repositoryCounts ==
    <<acquire(ReviewRepositoryRequests), release, acquire(IssueRepositoryRequests), release>>

\* Mutant: reconciles before the job itself is saved.
jobUpdateUnsaved(job) ==
    <<acquire(RepositoryRequests("shared") \cup Exclusive({job})), reconcile, save, release>>
\* Start, Cancel, Complete: the own job, then the jobs that depend on others,
\* whatever their keys.
jobUpdate(job) ==
    <<acquire(RepositoryRequests("shared") \cup Exclusive({job})), save, reconcile, release>>

Claim == <<acquire(Exclusive({Catalog, Queue})), reconcile, release>>

\* Reserve quota, then publish the object.
lfsUpload ==
    <<acquire(LFSRequests), release,
      acquire(RepositoryRequests("shared") \cup LFSRequests), release>>

\* Create, import, delete or rename a repository: withSidecarRepositoryLocks.
repositoryChange ==
    <<acquire(RepositoryRequests("exclusive")), acquire(ReviewRepositoryRequests),
      acquire(IssueRepositoryRequests), release, release, release>>

\* renameGroup, with the rollback that locks the issue store a second time.
groupChange(group, reviewGroup, issueGroup) ==
    <<acquire(GroupRequests(group)), acquire(ReviewGroupRequests(reviewGroup)),
      acquire(IssueGroupRequests(issueGroup)), release,
      acquire(IssueGroupRequests(issueGroup)), release, release, release>>
groupChangeA == groupChange(GroupA, ReviewA, IssueA)
groupChangeB == groupChange(GroupB, ReviewB, IssueB)

AllPlans ==
    {receivePack, reviewUpdate, createIssueBranch, mergeStoredRequest, repositoryCounts,
     jobUpdate(Job1), jobUpdate(Job2), Claim, lfsUpload, repositoryChange, groupChangeA, groupChangeB}

-----------------------------------------------------------------------------
(* A handler's calls are the clients <<h, 1>>, <<h, 2>>, ... of the lock manager. *)

MaxDepth == 3

\* The calls and keys of the lock manager are those of the handlers.
HandlerLocksAssumption ==
    /\ Client = Handler \X (1 .. MaxDepth) /\ NoClient \notin Client
    /\ Key = HandlerKeys
    /\ Plans \subseteq AllPlans
    /\ Requests = {Exclusive({job}) : job \in Jobs}
          \cup {x.requests : x \in UNION {{P[i] : i \in 1 .. Len(P)} : P \in Plans}}

Depth(h) == CHOOSE d \in 0 .. MaxDepth :
                \A e \in 1 .. MaxDepth : pc[<<h, e>>] # "idle" <=> e <= d
Steady(h) == \A e \in 1 .. MaxDepth : pc[<<h, e>>] \in {"idle", "held"}

HInit ==
    /\ Init
    /\ plan = [h \in Handler |-> <<>>]
    /\ undecided \in SUBSET Jobs

Begin(h, P) ==
    /\ plan[h] = <<>> /\ Depth(h) = 0
    /\ plan' = [plan EXCEPT ![h] = P]
    /\ UNCHANGED <<vars, undecided>>

\* h has finished the step before, and its next one is called name.
AtStep(h, name) == plan[h] # <<>> /\ Steady(h) /\ Head(plan[h]).step = name
StepDone(h) == plan' = [plan EXCEPT ![h] = Tail(@)]

Call(h) ==
    /\ AtStep(h, "acquire") /\ StepDone(h)
    /\ Acquire(<<h, Depth(h) + 1>>, Head(plan[h]).requests)
    /\ UNCHANGED undecided

CallRelease(h) ==
    /\ AtStep(h, "release") /\ StepDone(h)
    /\ Release(<<h, Depth(h)>>)
    /\ UNCHANGED undecided

\* ScheduleLocked saves the new jobs; those of an earlier push are forgotten, and
\* their keys stand for new jobs.
Create(h) ==
    /\ AtStep(h, "create") /\ StepDone(h)
    /\ undecided' \in {U \in SUBSET Jobs : undecided \subseteq U}
    /\ UNCHANGED vars

\* The handler's own job becomes queued, or ends.
Save(h) ==
    /\ AtStep(h, "save") /\ StepDone(h)
    /\ undecided' = undecided \ Wanted(<<h, 1>>)
    /\ UNCHANGED vars

\* One round of reconcileDependenciesWithLockedJob lists the jobs and finds that
\* this one has an update.  It is locked, unless it is the own job.
reconcileJob(job) == <<acquire(Exclusive({job})), update, release>>
Reconcile(h, job) ==
    /\ AtStep(h, "reconcile")
    /\ job \in undecided
    /\ IF job \in Wanted(<<h, 1>>)
       THEN undecided' = undecided \ {job} /\ UNCHANGED plan
       ELSE plan' = [plan EXCEPT ![h] = reconcileJob(job) \o @] /\ UNCHANGED undecided
    /\ UNCHANGED vars

\* The jobs are listed again under the lock; the update is saved if it still is one.
Update(h) ==
    /\ AtStep(h, "update") /\ StepDone(h)
    /\ undecided' = undecided \ Wanted(<<h, Depth(h)>>)
    /\ UNCHANGED vars

\* No job has an update: the undecided ones still wait for others.
NothingToReconcile(h) ==
    /\ AtStep(h, "reconcile") /\ StepDone(h)
    /\ UNCHANGED <<vars, undecided>>

Lock(h) ==
    /\ \E d \in 1 .. MaxDepth : \E k \in Wanted(<<h, d>>) : LockNext(<<h, d>>, k)
    /\ UNCHANGED <<plan, undecided>>

Unlock(h) ==
    /\ \E d \in 1 .. MaxDepth : \E k \in Wanted(<<h, d>>) : UnlockNext(<<h, d>>, k)
    /\ UNCHANGED <<plan, undecided>>

Continue(h) ==
    /\ \E d \in 1 .. MaxDepth : Return(<<h, d>>) \/ Done(<<h, d>>)
    /\ UNCHANGED <<plan, undecided>>

Proceed(h) ==
    \/ Call(h) \/ CallRelease(h) \/ Create(h) \/ Save(h)
    \/ (\E job \in Jobs : Reconcile(h, job)) \/ Update(h) \/ NothingToReconcile(h)
    \/ Unlock(h) \/ Continue(h)

HNext == \E h \in Handler : Proceed(h) \/ Lock(h) \/ \E P \in Plans : Begin(h, P)

HSpec == HInit /\ [][HNext]_hvars

\* Goroutines run on, and sync.Mutex, which serialises writers, starves nobody.
HFairSpec ==
    /\ HSpec
    /\ \A h \in Handler :
          /\ WF_hvars(Proceed(h))
          /\ SF_hvars(Lock(h))

-----------------------------------------------------------------------------
\* The handlers whose locks the call <<h, d>> needs next.
BlockedBy(c, k) ==
    LET l == lock[k] IN
    IF ~Requested(l, c) THEN IF want[c][k] = "exclusive" THEN {l.writer} \ {NoClient} ELSE {}
    ELSE IF want[c][k] = "exclusive" THEN l.readers
    ELSE IF c \in l.blocked THEN {l.writer} ELSE {}
WaitsFor(h, g) ==
    \E d, e \in 1 .. MaxDepth :
        /\ pc[<<h, d>>] = "locking"
        /\ \E k \in Wanted(<<h, d>>) :
              /\ \A m \in Wanted(<<h, d>>) : m < k => Inside(lock[m], <<h, d>>, want[<<h, d>>][m])
              /\ <<g, e>> \in BlockedBy(<<h, d>>, k)

\* No handler waits for itself (a lock taken twice), and no handlers wait for
\* each other, although the nested calls do not follow the order of the keys: a
\* merge takes review locks, and two handlers of jobs may each lock the jobs that
\* depend on theirs.  They never want each other's own jobs, because each saves its
\* job before it looks for others to lock.
NoDeadlock ==
    \A D \in (SUBSET Handler) \ {{}} : \E h \in D : \A g \in D : ~WaitsFor(h, g)

\* While a handler changes a group, holding the innermost lock of groupChange,
\* nobody works on anything below that group: its repositories, builds, objects,
\* reviews and issues move with its directory.
Works(h, K) ==
    \E d \in 1 .. MaxDepth : pc[<<h, d>>] = "held" /\ K \cap Wanted(<<h, d>>) # {}
ChangesGroup(h) ==
    \E d \in 1 .. MaxDepth, k \in {IssueA, IssueB} :
        /\ pc[<<h, d>>] = "held" /\ k \in Wanted(<<h, d>>)
        /\ want[<<h, d>>][k] = "exclusive"
GroupMovesAlone ==
    \A h, g \in Handler :
        h # g /\ ChangesGroup(h) =>
            ~Works(g, {Repository, Queue, Job1, Job2, ReviewRepository, IssueRepository, Merge})

\* Every request is served: a handler that has begun finishes.
HandlersFinish ==
    \A h \in Handler : plan[h] # <<>> ~> plan[h] = <<>> /\ Depth(h) = 0
=================================================================================
