# GitOne: TLA+ specifications, model checking and proofs

GitOne is a Git server written in Go. One process keeps bare repositories in
nested groups on the local disk and serves Git over HTTP, Git LFS, merge
requests, issues, a browser, and a queue of builds that runners fetch over HTTP
and execute in virtual machines. It uses no database: all durable state is
files and Git references, and what keeps concurrent requests apart is an
in-process lock manager.

This directory holds TLA+ modules that model the parts of the server where
correctness depends on an order of events, TLC runs that check them on small
instances, and TLAPS proofs for any size.

* `PROJECT.json` lists the components, runs, mutants, hazards and theorems, and
  maps every definition to the lines of the source it models.
* Source files are named below relative to `src/`.

## 1. Inventory

| Component | State it keeps | Operations | What makes it correct |
|---|---|---|---|
| Lock manager (`internal/lockmgr`) | a table of reference-counted `sync.RWMutex` entries by key | `Acquire`, release | one lock per key although entries come and go; no entry outlives its users; every call returns |
| Lock use of the handlers (`internal/httpapi`, `githttp`, `storage`, `lfs`, `review`, `issue`, `runner`) | the locks a request holds | nested `Acquire` calls | no deadlock, although the nesting does not follow the order of the keys; nobody works below a group while it moves |
| Build queue (`internal/runner/coordinator.go`, `dependencies.go`, `store.go`, `operations.go`) | one JSON file per job | schedule, start, rerun, cancel, claim, heartbeat, log, complete, reconcile | a job runs only after what it needs; results are final; leases are respected; oldest first; nothing is stuck |
| Merge requests (`internal/httpapi/reviews.go`, `merge.go`, `internal/review`) | one JSON file per request, branches, the claims active in memory | create, discuss, approve, merge, close, recover | what is merged was approved; the record agrees with the branch after any failure |
| Git smart HTTP (`internal/githttp`) | references, objects, a quarantine per push | upload-pack, receive-pack, maintenance | a failed push leaves nothing; each moved branch is scheduled; quota |
| Repository and group storage (`internal/storage`, `internal/httpapi/api.go`) | up to five directories per repository, directories of groups | create, import, rename, delete, with rollback | the directories move together or not at all |
| Git LFS (`internal/lfs`) | objects, reservations per root group, upload tokens | batch, upload, verify, download | the quota holds for concurrent uploads; an object is published whole |
| Issues (`internal/issue`, `internal/httpapi/issues.go`) | one JSON file per issue | create, comment, assign, close, branch | numbers are unique; records follow their repository |
| Remote runner (`internal/runner/remote.go`, `runner.go`, `executor.go`) | the leased job, unsent log chunks | poll, heartbeat, log, result, with retries | a result belongs to the attempt it was made in; a canceled job stops |
| Warm pool (`internal/runner/libvirt_executor.go`) | idle, reserved, running and dying machines | preheat, reserve, assign, run, release, shutdown | the pool never exceeds its size, a machine serves one job, all are destroyed |
| Authentication and control repository (`internal/auth`, `internal/control`) | attempt counters, sessions, a cached control file | log in, authorise | limits hold under concurrency; stale permissions are not served |
| Build configuration (`internal/repoconfig`) | none | parse, validate | needs are acyclic and known |
| Imports, browser, archives, server, TLS, web UI | staging directories; otherwise none | mostly reading and rendering | |

**Interactions.** Handlers call each other in process. A push, an edit, a
branch creation and a merge each move a branch under the Exclusive lock of the
repository and call the build queue (`ScheduleLocked`) under that lock. The
review and issue stores are called inside the repository lock by writers and
without it by some readers. Runners talk to the build queue by HTTP requests
that can be late, lost or repeated. Renaming a repository or group moves the
directories of all other components.

**What is hard.** Handlers run concurrently and nest locks up to three deep.
Every durable change is one file rename or one reference update, so a crash may
fall between any two of them, and the server has no journal: the state after a
restart must explain itself. Leases expire while their runner still works.
`PROJECT.json` lists the hazards at their lines.

## 2. Modules

| Module | Models | Composed with |
|---|---|---|
| `RWMutex` | Go's `sync.RWMutex` (external): readers, one writer, a waiting writer blocks new readers and lets those before it go first | used by the next three |
| `LockCalls` | the `Acquire` calls in progress and what each wants | extended by the next two |
| `KeyLocks` | abstract specification: one such lock per key, a call locks its keys in order | implemented by `LockManager`, used by `HandlerLocks` |
| `LockManager` | `lockmgr.go`: entries found, made and counted under the table's mutex, locked in order, released in reverse, deleted at count zero | refines `KeyLocks` |
| `HandlerLocks` | each kind of request handler as its nested `Acquire` and release calls | composes `KeyLocks` |
| `BuildCoordinator` | the build queue of one repository | |
| `MergeTransaction` | one merge request and the two branches it is about | |
| `WarmPool` | the pool of virtual machines of a runner, with the workers that use it | |
| `RunnerProtocol` | the requests of a runner about one build and the coordinator's answers, over a connection that loses and delays them | the lease and log side of `BuildCoordinator` |
| `RepositoryCatalog` | abstract specification: a repository's data appears, moves and disappears as one | implemented by `RepositoryLifecycle` |
| `RepositoryLifecycle` | create, import, rename and delete of repositories and groups, directory by directory, with rollback and crashes | refines `RepositoryCatalog` |
| `LfsUpload` | uploads of LFS objects under the quota of a root group | |
| `ReceivePack` | a push: commands, quarantine, validation, promotion, references, maintenance, report | |
| `ControlRepository` | the control document of a root group, its cache, pushes and settings | |
| `RecordStore` | the JSON records of merge requests and of issues | |
| `BranchOperations` | edits, branches, the default branch and the branches of issues | `RecordStore`'s operations are atomic here |
| `LockManagerProofs` (with `HandlerLocks`), `BuildCoordinatorProofs`, `RunnerProtocolProofs` (with `WarmPool`), `RepositoryLifecycleProofs`, `RecordStoreProofs` (with `BranchOperations`), `LfsUploadProofs`, `MergeTransactionProofs`, `ReceivePackProofs` (with `ControlRepository`) | the theorems | |
| `MC...` | instances of these modules for TLC | |

Definitions keep the names of the functions they model. An operator whose
comment begins with `Mutant:` is never used by a specification: it is a version of
the definition below it with a plausible bug in it, kept to show that a property
depends on the code (`mutants` in `PROJECT.json`).

### 2.1 RWMutex, KeyLocks, LockManager

`Acquire` first merges its requests (`normalizeRequests`: one per key, the
stronger mode, sorted), then under the table's mutex finds or makes an entry for
each key and counts itself in: that is one action, `Register`. It locks the
entries one at a time (`LockEntry`); asking for an RWMutex and getting it are two
steps, since a writer that waits already turns new readers away. The
release function unlocks in reverse (`UnlockEntry`) and then, under the
table's mutex again, counts itself out and deletes entries at zero
(`Deregister`). An entry is a model value: two entries for one key are two
different locks, which is exactly the danger. `KeyLocks` has the same calls and
no entries. The refinement maps the state of a key's lock to that of its
current entry, or to a free lock when there is none.

### 2.2 HandlerLocks

A handler is a list of steps: `acquire` with its requests, `release` of the innermost
call, and the steps on job files that decide which jobs it locks next. The world
is a root group, a subgroup, a repository with two jobs, and the seventeen lock keys
these have, numbered in the order of their strings. Two nestings go against that order.
A merge holds the merge lock (60) when it takes the review locks (49 to 52) and those of
jobs (41, 42); it also holds the repository exclusively, so no other handler that
nests is inside. And `reconcileDependenciesWithLockedJob` locks the first job that
has an update, whatever its key: two handlers that each hold their own job (`Start`,
`Cancel`, `Complete`) may look for others at the same time, one upwards and one
downwards. Locks alone do not exclude that these want each other's; the job files do,
and so they are modelled as far as that needs. `undecided` are the jobs stored as
waiting or manual, the only ones a reconciliation can update.

| Actions | Code |
|---|---|
| `Call`, `CallRelease`, `Lock`, `Unlock`, `Continue` | `Acquire` and its result, over `KeyLocks` |
| `Create` | `ScheduleLocked` saves the jobs of a push |
| `Save` | `Start`, `Cancel` or `Complete` saves its own job, then queued or ended |
| `Reconcile` | one round: any undecided job may have an update; it is put in front of the plan (`reconcileJob`), or decided at once if it is the own job |
| `Update` | the update under the job's lock |
| `NothingToReconcile` | the listing finds no update |

`Reconcile` over-approximates: dependencies, and with them which undecided job has an
update, are left to `BuildCoordinator`, and so are failed reads and saves, which end
a handler earlier. The other handlers of a job (`HeartbeatState`,
`AppendLog`, `SourceJob`, `Rerun`, and every refusal) make the first call of
`jobUpdate` and release it. `scheduleBuild` is called with the repository locked
exclusively and must not lock it again; it uses `ScheduleLocked`. (The exported
`Coordinator.Schedule` locks the repository in Shared mode; no handler calls it.)

### 2.3 BuildCoordinator

`jobs` is the directory of job files. A job is identified by its push (a branch
at a commit), its name, and the number of its rerun. Handlers are threads with a
program counter. The locks are not variables: which locks a handler holds
follows from where it is (`HoldsJob`, `Exclusive`), and the guards
`SharedGranted`, `ExclusiveGranted` and `JobLockFree` say when a lock is granted.

| Action | Code |
|---|---|
| `ScheduleBegin`, `ScheduleSave`, `ScheduleInvalid` | `ScheduleLocked`: each job file is a step of its own |
| `BeginStart`, `BeginCancel`, `BeginComplete`, `SaveOwn`, `Refuse` | `Start`, `Cancel`, `Complete`: lock, check, save the own job |
| `Scan`, `LockUpdate`, `Update`, `ScanDone` | `reconcileDependenciesWithLockedJob`: pick an update without its lock, take the lock, compute it again, save |
| `ClaimBegin`, `ClaimEnter`, `ClaimCollect`, `ClaimGrant`, `ClaimUnprepared`, `ClaimNothing` | `Claim` |
| `Renew` | `HeartbeatState`, `AppendLog` |
| `Rerun` | `Rerun` |
| `LeaseExpires`, `Prune`, `IOError`, `Crash` | time, `maintainRepositoryObjects`, a failed read or save, the end of the process |

The in-memory loop of `reconcileJobDependencies` fails whole chains of
dependants; its result is the least set closed under "needs a broken job or one
in the set", which `Failing` states directly. Time is abstract: a lease is live
until `LeaseExpires`, and `clock` counts the moments that stamp `CreatedAt`. Each push is
scheduled once; every handler that moves a branch calls `ScheduleLocked` once
per moved branch. The jobs a claim has listed stay valid although it
reconciles in between, because it holds the catalog exclusively and
reconciliation writes only waiting and manual jobs.

### 2.4 MergeTransaction

A commit is the set of the commits in its history, so that "is an ancestor of"
is `\subseteq` and a merge of two commits is their union with one new number.
`stored` are the commits in the object store, `known` those a client has a copy
of: a planned merge commit becomes known only when a branch has shown it.
`active` is `activeMergeClaims`, lost in a restart.

Handlers hold the repository exclusively from their first read to their answer,
so each is one action, save the merge, whose steps each leave something on
disk: `claimMerge` (claim saved), `planFastForward`, `planMergeCommit` or
`planUpToDate` (plan saved), `updateTarget` (`CheckAndSetReference`),
`recordMerged`. Failures are `planFails`, `updateTargetFails`, `saveFails`,
`targetHasChanged` (after `moveOutside`, a Git process that does not take the
server's locks) and `Restart`. Every later handler first recovers an interrupted claim
(`Recovered`, over `Settles` and `Settled`), and `seeInterrupted` with
`recoverInterrupted` is the reader that decides before it has the lock.
Writing a record ends in a rename, so a failed save leaves the old record. The
end of the process is modelled, loss of power is not (directories are not
synced). Maintenance is either skipped or prunes everything unreachable, the
two extremes of what its age limit allows. Roles: two
users, one of them the author; one discussion; one approval required.

### 2.5 WarmPool

A runner keeps `IdleCount` machines ready and never more than `MaxInstances` in
all. Every action is one critical section of `LibvirtExecutor.mu`, or the end
of a call that runs outside it. The goroutines are the workers of `Remote.Run`
(`worker`), the reconciliation (`rec`), and one `runReconcileCreate` per machine
in the making (`maker`); `asleep` holds those that wait on the channel
`changed`, and `signalLocked` empties it.

| Actions | Code |
|---|---|
| `StartPreheat`, `PreheatCreate`, `StartSucceeds`, `StartFails`, `PrepareFails` | `Start`, `preheat`, `cleanupStartup` |
| `Reserve`, `ReserveSleeps`, `Healthy`, `Unhealthy`, `CheckCanceled` | `Reserve`, in front of and behind `CheckReady` |
| `ClaimNothing`, `ClaimRefused`, `PollAgain`, `WorkerCanceled` | `Remote.worker` |
| `Assign`, `Run`, `destroyReleased`, `Released`, `ReleaseFails` | the reservation, from `Assign` to the end of `Release` |
| `ReconcileCreate`, `ReconcileDestroy`, `ReconcileSleeps`, `ReconcileStops` | the four answers of `nextReconcileAction` |
| `Reconciled`, `ReconcileFails`, `ReconcileRetry` | `reconcileDestroy` and the delay after a failure |
| `Created`, `CreateFails`, `CreateLeavesRemains`, `Removed`, `RemoveFails`, `CountRetained`, `MakerEnds` | `reconcileCreate`, `runReconcileCreate` |
| `Interrupt`, `Shutdown`, `ShutdownDestroys`, `Destroyed`, `DestroyFails`, `Cleanup` | a signal, and the end of `Remote.Run` |
| `ProcessEnds` | the process is killed, or ends because `Shutdown` waited too long |

The hypervisor is modelled by the outcomes of its calls, as the provider returns them:
`Create` yields a machine, nothing, or remains; `Destroy` succeeds or leaves
the machine; `CheckReady` says yes or no; `Cleanup` removes everything or fails
in between. `vms` is what the hypervisor really has. It survives a crash,
and the next `Start` clears it (`Prepare`). Machine names are random; a name
that is used again in the model stands for a new one. `Shutdown` is called by
`Remote.Run` alone, after all of its workers have returned, so the branches of
`Reserve`, `returnIdle` and `Run` for a pool that is shut down under a worker
are never taken.

### 2.6 RunnerProtocol

One build, the runners that may have it, and `net`, the requests sent and not
served. A runner has two goroutines: `runLease` (claim, log chunks, source,
result: `SendClaim`, `SendLog`, `SendSource`, `SendComplete`, `EndBuild`) and
`heartbeat` (`SendBeat`, `Stop`). The coordinator serves a request in one step
under the lock of the build (`ServeClaim`, `ServeBeat`, `ServeLog`,
`ServeSource`, `ServeComplete`), or fails without effect (`ServeFails`,
`ServeClaimFails`). A client that gives up waiting (`TimeOut`, `Crash`) leaves its
request behind, and it may still be served at any later time. The coordinator
knows a lease by its runner alone; the attempt that a request belongs to is in
the model only for the properties. A log chunk carries the offset at which its
writer believes the log to end, which is what rejects late and repeated ones.

### 2.7 RepositoryCatalog, RepositoryLifecycle

The catalog says what a client may see: under each path either nothing, or the
data of one repository, whose records name that path. `RepositoryLifecycle` has
the directories. A request is a list of steps (`op.todo`), each a
rename or a rewrite; when one fails those done are undone in reverse
(`op.done`), and undoing may fail too. The refinement maps `dir` to
`catalog`, but for as long as an operation is under way it shows the state from
before it (`op.snap`): the handlers hold the paths exclusively, so nobody sees it. A
record store is rewritten by building a new directory, setting the old one aside
and renaming (`Hide`, `Publish`, `Unhide`), whose two renames are two steps. An
import is staged without any lock (`importStage`) and adopted under it. A step may
fail, undoing it may fail, and the process may end at any point; `dirty` counts the
operations that ended half way, which is what undoing that fails and crashes have
in common, and the bound on it is `MaxDirty`; it is at least one, so that
there is always room for the first.

### 2.8 LfsUpload

`up` are the PUT requests. Each is admitted (`Admit`, `Reserve`) and published
(`Locked`, `Publish`) under the LFS lock of its root group, and receives its body in
between without a lock. Adding up what the group stores is a walk: the names
are read first (`StartWalk`) and visited one after the other (`Walk`), while
other repositories are created, deleted and renamed under locks that do not
exclude it. The totals are sums over finite functions (`Bytes`, `Stored`, `Usage`).

The policy may change at any moment (`SetPolicy`). The settings form has the group
Exclusive and waits for uploads, but a push to `control.git` locks the group in Shared
mode and the control repository (`githttp/handler.go:259`), which no lock of an
upload excludes. An upload therefore has the policy it read last in a field of its
own: the one of `Admit` goes into the reservation, the one of `Locked`
(`CurrentPolicy`) into the checks and the quota of the publication.

Two history variables: `ruling` holds the policies in force since the LFS lock was
taken; `upset` records that the quota was changed, or that a repository was renamed
away from a name a walk had still to visit.

### 2.9 ReceivePack

A push holds its repository exclusively from `Begin` to `Report`; other changes of
the repository (`Upload`, `MoveRef`) come before or after it. But readers take no
lock and a crash may come between any two steps, so the promotion of a pack
(`PromoteIndex`, `PromotePack`), each command (`Apply`) and maintenance are steps
of their own. Objects are commits and files, some of them LFS pointers;
validation walks what no reference has yet (`History`, `Referenced`, `Readable`),
as in `lfs_validation.go`.

### 2.10 ControlRepository

`main` is a commit of `control.git` with its document: members with their roles,
tokens with the hashes of their secrets, and the policy. Readers do `Load` in
three steps (`ReadRef`, `LookUp`, `Store`), since it takes no operation lock. Writers
exclude one another; a push is authorized at the door (`ArrivePush`) and again
inside (`Owner`), a change of the settings inside only. A secret is the number
of its generation, so that a hash is never reused by accident.

### 2.11 RecordStore

`file[id]` is `Absent`, `Damaged` or a record. A request takes the store's lock,
chooses a number (`Number`) or reads and changes a record (`Change`), writes a
temporary file (`Write`) and renames it (`Rename`). `OneOpen` tells merge
requests from issues. From outside, a record may be damaged (`Spoil`), the
wall clock set in either direction (`SetClock`), and the process ended (`Crash`).

### 2.12 BranchOperations

A tip is the set of changes in its history. A request begins with what its user
was shown (`Look`, `LookAtIssue`) and gets the repository's lock later
(`Enter`). The editor and the branch manager compare what they find with what
was shown (`AsSeen`); a push compares and sets. Creating the branch of an issue
is two writes, the reference and the record (`CreateIssueBranch`, `SaveIssue`),
with a rollback that may itself fail (`RollBack`). A push may delete the default
branch, as in Git; nothing else can. A repository is created with a first commit on
the default branch or, without a README and a description, with none: its HEAD names
a branch that does not exist until a push brings it. `unborn` records that the
default branch has had no commit since, or was deleted by a push.

## 3. Runs

Run them with `tlc -workers 2 -config <run>.cfg <module>`; the times are for two
workers. Deadlock is checked in all of them but `storage_faults`, which
ends when the repositories of the model are used up: each has an
identity of its own, so that data can be told apart.

| Run | Module | Checks | Time |
|---|---|---|---|
| `queue_reruns` | `MCBuildCoordinator` | `DependenciesSucceeded`, `TerminalStable`, `OldestFirst`, `LeaseRespected` | 70 s |
| `queue_progress` | `MCBuildCoordinator` | `FailedForCause`, `QueueDrains` | 100 s |
| `locks_safety` | `MCLockManager` | `MutualExclusion`, `NoEntryLeaks`, `ImplementsKeyLocks` | 60 s |
| `handlers_finish` | `MCHandlerLocks` | `NoDeadlock`, `GroupMovesAlone`, `HandlersFinish` | 120 s |
| `merge_safety` | `MCMergeTransaction` | `MergedWasApproved`, `MergedReachedTarget`, `ActiveClaimUndisturbed`, `AppliedMergeKept` | 50 s |
| `merge_abandon` | `MCMergeTransaction` | `AmbiguousCanBeClosed`, violated: section 5 | 10 s |
| `pool_progress` | `MCWarmPool` | `HardCap`, `OneBuildPerMachine`, `DestroyedByOwner`, `ShutdownLeavesNothing`, `ReserveReturns`, `ShutdownEnds` | 120 s |
| `runner_log` | `MCRunnerProtocol` | `LogInOrder`, `SuccessHasWholeLog`, `ConfirmedResultStands`, `LostBuildStops`, `BuildEnds` | 30 s |
| `storage_faults` | `MCRepositoryLifecycle` | `NeverMixed`, `StrandedGroupEmpty`, `AtomicUntilDirty`, `NothingLost` | 120 s |
| `push_fork` | `MCReceivePack` | `RefsComplete`, `ReportTrue`, `ObjectsValidated` | 35 s |
| `lfs_quota` | `MCLfsUpload` | `StagingWithinQuota`, `ReservationsReturned`, `PublishedUnderPolicy` | 55 s |
| `records_changes` | `MCRecordStore` | `OneOpenPerPair`, `AcknowledgedKept`, `NothingOverwritten` | 110 s |

Each module states its type invariant as `TypeOK`; it is proved where a
`TypeCorrect` theorem says so (section 4). The four files `control_roles.cfg`,
`control_tokens.cfg`, `branches_shared.cfg` and `branches_issue.cfg` are instances
of `ControlRepository` and `BranchOperations` to explore with TLC; they are not in
the list of runs, because all that they check is proved for every instance.

**Build queue.** `DependenciesSucceeded`: no job is queued, running or succeeded
before everything it needs has succeeded, whatever the handlers do at the same
time. `FailedForCause`: a job failed for its dependencies has a broken one; a
reconciliation between two saves of a schedule would break this, which is why
scheduling needs the repository exclusively. `NoCircularWait`: the job locks
taken in no order cannot form a cycle, because a handler that waits for another
job's lock has already saved its own job in a state that no reconciliation
selects (a theorem, section 4). `LeaseRespected`: a running job changes hands only when its lease
has run out. `TerminalStable`: the README says a late result "cannot overwrite the canceled result";
this holds for every terminal state. `OldestFirst`: README:432, "Claim the oldest
queued or expired build lease". `QueueDrains`: no job stays queued for ever, even one
whose commit is gone, and a dependant that a failed handler left waiting on jobs that
have ended (`Overdue`) is found by a later claim. A job of a push that was never
scheduled is not in it: nothing in the code makes up for that.

Bounds. Two handlers already give every pair of racing operations; what holds for
more is proved. `queue_reruns` has one rerun of each of two jobs, a manual one,
pruning, and one expiry (`MaxAttempt` 2), so that a claim can pass over a job that
cannot be prepared and a late result can meet a newer attempt. `queue_progress`
has a job that needs another, a second push with an unusable configuration, builds
that fail, and one fault at any step.

**Locks.** `ImplementsKeyLocks` is the refinement of `KeyLocks`;
`MutualExclusion` and `NoEntryLeaks` are what deleting entries at count zero puts at
risk. Four callers and three keys let an entry be deleted and made anew while
two others are between their two critical sections. `NoDeadlock` and
`HandlersFinish` are about the nesting of whole handlers, `GroupMovesAlone`
about the ancestry that `RepositoryRequests` includes. What breaks them are a
handler of a job that reconciles before it has saved its own (`jobUpdateUnsaved`),
a push that calls `Schedule` instead of `ScheduleLocked` (`scheduleBuildRelocks`) and a
repository locked without its ancestry (`RepositoryRequestsAlone`). Two handlers of
any of the twelve plans have every pair of nestings, the two jobs against each
other in both orders included; circles through more handlers are excluded by
proof (section 4).

**Merge requests.** `MergedWasApproved`: README:158, "Approvals are bound to the
exact source commit"; it covers claims on disk too. `MergedReachedTarget` and
`AppliedMergeKept` are the two directions of recovery: nothing is recorded as
merged that never reached the target, and no applied merge is forgotten.
`ActiveClaimUndisturbed`: nobody settles a claim under the merge that is at
work. Four commits are a base, one on each branch and the merge of the two;
two claims and two faults let a recovery itself be interrupted, and a second
merge follow an interrupted one. `known` keeps clients from
pushing a commit they cannot have seen.

**Warm pool.** `HardCap`: README:311, "Hard cap across creating, idle, and
assigned VMs". It is stated over what the hypervisor has, not over what the pool
has counted. `OneBuildPerMachine`: README:323, "Each assigned VM is used once,
even if source download or execution fails". `DestroyedByOwner`: four kinds of
goroutine destroy machines; no two of them the same one, and none a machine in
use. `ShutdownLeavesNothing`: a
`Shutdown` without error leaves no machine and no goroutine that could still
make one. `ReserveReturns`: no wake-up is lost, and capacity lost to failures
comes back. `ShutdownEnds`: nothing that `Shutdown` waits for waits for ever.
Two workers, an idle target of one and a cap of two make the cap bind while one
machine is checked and another in the making; three names leave one for it; two
failures let the retry of a failed destruction fail as well.

**Runner.** `LogInOrder`: no chunk twice, none out of order, none of an earlier
attempt behind one of a later. `SuccessHasWholeLog`: a chunk whose fate the
runner does not know makes the attempt fail, so a success has its whole log.
`ConfirmedResultStands`: what the coordinator has confirmed to a runner is what
it keeps, although it cannot tell the attempts of one runner apart.
`LostBuildStops`: README, "its remote executor stops when the next lease
heartbeat observes the cancellation". `BuildEnds`: no build is left running for
a runner that has forgotten it. Two runners let a lease change hands; three chunks and one lost or late request,
at any point, let a retry follow what was already done.

**Storage.** `AtomicUntilDirty` is the refinement of `RepositoryCatalog`: as long as
undoing works, each request is all or nothing. After a crash or a failed undoing that
is not so and no document says it is; then `NeverMixed`, `NothingLost` and
`StrandedGroupEmpty` say what remains true. Two names give a rename a destination
that may be taken, two root groups a group that may exist already; the two kinds of
record stores with Git data are the shortest list of steps in which one fails
between two others. The remaining kinds, LFS and builds, move like Git data and
are left to `Sidecars`. Subgroups (`Rooted` FALSE) take the same steps without the
control document.

**LFS.** `StagingWithinQuota` counts what is published and what is being
received. `ReservationsReturned` holds although the policy changes and repositories
come, go and are renamed during an upload. `PublishedUnderPolicy`: the enabling, the
object limit and the quota that let an object in belong to one policy, and that
policy was in force after the upload took the locks it publishes under. It need not
be the policy of the moment of the rename: a push to `control.git` can come in between
(with `{policy}` in place of `ruling` TLC finds that behaviour). The mutant that
publishes under the policy of admission breaks it.
`lfs_quota` has room for one of two uploads, a policy with an object limit instead
of a quota and one that switches LFS off; bodies are of any length, or chunked.

**Pushes.** `RefsComplete`: README, "Git pushes are rejected before references
move when newly pushed history contains an LFS pointer whose object is missing";
it must hold in every state, because clones do not lock. It rests on what earlier
pushes left behind, so one push alone does not show it. `ReportTrue`: two
commands may name one reference and each may fail on its own. A fork of
three commits with two files and a pointer, and packs that lack one of them, are
enough for a tip that is complete above a commit that is not.

**Control repository.** `LoadIsCurrent`: README, "all descendants immediately use
the updated settings". `OwnersGovern` and `RetiredSecretsStayRetired` are what
the second check and `validateControlUpdate` are for. They are proved (section 4).

**Records.** `NothingOverwritten` with `Spoil` is the reason `nextRecordID` looks
at the files again after the scan. `OneOpenPerPair` needs the check of `Update` as
well as that of `Create`. `AcknowledgedKept`: what was answered is on disk after any
crash, and no comment is lost to another. Two writers, two numbers and one comment
let a writer be overtaken at every step; the clock has two values, so that it can
be set back.

**Branches.** `NoWorkLost`: a branch loses changes only to somebody who saw
exactly what is given up. `AnswerTrue`: an answer is true also when one of the two
writes, or the rollback, failed. `IssueKeepsBranch`: README:156, "The issue
permanently records the branch name". `HeadStands`: deletion and choice of the
default branch race, and a repository may start without any branch. They are proved
(section 4).

**Fairness.** A handler in flight runs on (weak fairness of its steps):
goroutines are scheduled and no handler waits for a client while it holds a lock
in these models. A call that keeps finding a lock free gets it (strong fairness of
`Lock` in `HandlerLocks`): `sync.Mutex`, on which writers of a `sync.RWMutex` queue, is
starvation-free by its documentation. Runners poll (strong fairness of
`ClaimBegin`): `remote.go` polls in an endless loop. In the pool, every call of
the hypervisor, of the server and of a build has a timeout, so each of its
goroutines runs on; a worker that waits and again and again finds an idle
machine gets one (strong fairness of `Reserve`), since whoever gives a machine
back unused then pauses for a poll interval. Of runners (`ProtocolSpec`): they
poll, beat, and react to what a beat was told, the server serves what
arrives, and leases run out (weak fairness); a result that is retried between
the beats it shares a mutex with is sent in the end (strong fairness of
`SendComplete`: `sync.Mutex` hands over to a waiter that starves). Only
`BuildEnds` assumes that the build itself goes on (`Executor`), as every build has a
timeout; `LostBuildStops` does without. Nothing is assumed of users,
pushes, lease expiry or faults.

## 4. Proofs

`tlapm <module>.tla` checks them, in one to five minutes for each of the eight
modules whose names end in `Proofs`. They hold for all
values of the constants that satisfy the named assumptions: any dependency
graphs, any number of handlers, jobs, keys, calls, machines, workers, commits and
packs, and any number of faults. The bounds (`MaxRun`, `MaxAttempt`,
`MaxFault`, `MaxBreakdown`, `MaxDirty`, `MaxCommit`, `MaxCommand`) may be any numbers.

**BuildCoordinatorProofs** (from `ConstantsAssumption`): `TypeCorrect`,
`DependencyOrder` (`DependenciesSucceeded`), `DeadlockFree` (`NoCircularWait`),
`ResultsAreFinal` (`TerminalStable`), `LeasesHold` (`LeaseRespected`),
`FailuresHaveCause` (`FailedForCause`), `ClaimsInOrder` (`OldestFirst`). None of
these is inductive by itself. The inductive invariant `IInv` adds

* `CallShape`: what a handler is doing fits its place in the code, so that one
  in "scan" or "want" has an own job exactly if it is a Start, Cancel or Complete;
* `ExclusiveAlone`: a handler with an Exclusive lock is alone, so that nothing
  changes between listing the candidates and granting one;
* `SavingFresh`: what a schedule has still to save does not exist yet, so no
  save replaces a result;
* `GrantCurrent`: the candidates a claim has still to look at are still
  candidates;
* `OwnSettled`: a handler that reconciles has saved its own job in a state that no
  scan selects. This is the heart of `NoCircularWait`: a job some handler waits
  for is reconcilable when chosen, and its lock's holder, had it saved, would have
  made it not so; a waiting handler therefore never waits for one that waits;
* `LeaseShape`: a job has a lease exactly while it runs.

One lemma per action shows that it keeps `IInv` (`Invariance`).

`FailedForCause` needs more, `CauseInv`, which is inductive under `IInv`. A job may be
failed because a job it needs is missing, and a missing job may be created later, so
the property rests on nobody looking while `ScheduleLocked` saves the jobs of a push
in several steps: `SavingWhole` and `NeedsExist` (what is missing is still to be
saved, or there was a fault), `FirstRunFirst` and `NeedsShape` (a rerun is created
only with what it needs), `DependencyFails`. The reconciliation decides over the whole directory
and writes one file at a time, so each write must leave the reason for the next one:
`FailingClosed`, `FailingHasCause` and `FailingKept` say of `Failing`, a least fixed
point, that it is closed, that each member has a need that put it there, and that
jobs that fail still do so after one of them was written. The assumption that
"dependency" and "configuration" are not errors a runner may report keeps the two
sources of `error` apart. `OldestFirst` rests on `OrderInv`: when `Claim` has listed
its candidates, no job is left that could be promoted to queued (`Promotable` is
empty), and until it grants one every queued job with a usable configuration is
still on its list; what a job that is not there may not have is a lease
(`AbsentUnleased`).

**LockManagerProofs** (from `LockManagerAssumption`): `TypeCorrect`,
`EntriesCounted` (`NoEntryLeaks`), `ExclusiveIsExclusive` (`MutualExclusion`) and
`Refinement` (`ImplementsKeyLocks`). The inductive invariant adds
`EntriesOfCalls` (a call has an entry for each key it wants), `OneLockPerKey`
(it is the entry in the table), `EntriesDistinct` (two keys never share one)
and `RequestedByUsers` (only calls that want a key have asked for its lock, so a
deleted entry is free). `OneLockPerKey` needs the count to be exact: an entry
may leave the table only when nobody refers to it.

**HandlerLocks**, in the second part of `LockManagerProofs` (`HandlerLocksAssumption`,
which says that the calls, keys and requests are those of the handlers, is a hypothesis of
each theorem): `GroupsMoveAlone` (`GroupMovesAlone`) and `HandlersDeadlockFree` (`NoDeadlock`), for any number of handlers.
The calls a handler has open are a stack of three requests. `Good(p, s)` says that
a handler may have the plan `p` before it and the calls `s` open: every place the
plan goes through is in order (`Local`), and each of the twelve plans is good from its
beginning (`PlansGood`), also after a reconciliation has put a job in front of it
(`ChosenGood`). To be in order, the stack is `Sound`, a condition on requests alone:
nested calls climb in `Rank`, which is the order of the keys but for the merge lock, put
after the repository lock, and for the jobs, which all have the same rank
(`Climbs`); who has the issues of a group exclusively has the group and its reviews so
too (`MovesAll`); the outermost call of whoever works below a group shares its
ancestry or excludes everybody (`WorksProtected`); and a job is locked alone, as the
last key of its call (`JobsAlone`). And the step that comes next saves the own job before
any other is chosen (`SavesFirst`). The inductive invariant `HandlersInv` says
that each handler is at some place of a plan with exactly the calls of that place open
(`Serving`), and of the locks that what is asked of them is what calls want
(`OwnersOK`) and how far each call has come (`CallOK`). `GroupMovesAlone` is then a
clash of two requests.

For `NoDeadlock`, whoever waits for a handler waits at a lower level than it does, or
for the own job of a handler that is after another job, at the same level
(`LevelsClimb`): the level is twice the rank of the key, plus one for a writer that is
past the writers before it and waits for readers. Handlers that all wait for one another
would therefore contain some that wait for each other's own jobs, each having chosen
the own job of the next. `JobsInv` excludes that circle (`NoCircle`): a handler
chooses only an undecided job; one that still holds it undecided has yet to save it
(`HasSaved`, `WillSave`), and who has yet to save has chosen nothing (`ChosenSaved`). So
each choice leads to a handler that has none, and closes no circle
(`NoNewCircle`).

**WarmPool**, in the second part of `RunnerProtocolProofs` (from `PoolAssumption`): `CapHolds` (`HardCap`), `SingleUse`
(`OneBuildPerMachine`), `OwnersDestroy` (`DestroyedByOwner`) and `ShutdownIsClean`
(`ShutdownLeavesNothing`). The inductive
invariant has two parts. `Ownership` says who answers for each machine: `Held`
and `Apart` (the state of a worker's machine follows from the worker's place, and no
two share one), `ReconcilerOwns`, `MakerOwns`, `Unused`, `PhaseShape` (what each
phase leaves in memory) and `Present` (the hypervisor has exactly the tracked
machines and those being made). `Capacity` counts: `creating` is the number of
goroutines that still count (`CountExact`), and the machines that are tracked
or counted (`Occupied`) are at most `MaxInstances`. `HardCap` alone is not
inductive: `nextReconcileAction` looks only at its own counts, so it must be
known that no machine is outside both. Most steps keep `Counted` and only give
room back (`Shrinks`); the few that take room or count anew have lemmas of
their own. `ShutdownIsClean` adds `NothingLeft` (stopped without an error, the hypervisor
has nothing): the step that stops the pool leaves nothing behind unless a call failed
(`StopsEmpty`), and once stopped only `Start` makes machines (`StoppedIsStill`).

**ControlRepository**, in the second part of `ReceivePackProofs`, which instantiates it as
`Control` (`ControlAssumption`, a hypothesis of each theorem): `ControlTypeCorrect`,
`LoadCurrent` (`LoadIsCurrent`), `RetiredStay` (`RetiredSecretsStayRetired`) and
`Governed` (`OwnersGovern`). The inductive invariant adds `CacheTrue` and
`ReadTrue` (a commit in the cache or in a reader's hands is at most as new as
`main`, and if it has main's number it has main's document), `ActorKnown`,
and `HashesTrue` (the hashes in the document and the retired ones were generated
before, so the next secret is none of them). `LoadIsCurrent` rests on `Hit`
comparing commits and not on the invalidation: the cache may be filled late
with an old document at any time.

**RecordStoreProofs** (from `RecordAssumption`): `TypeCorrect`, `SingleOpen`
(`OneOpenPerPair`), `Durable` (`AcknowledgedKept`) and `NeverOverwritten`
(`NothingOverwritten`). The inductive invariant says what the holder of the
lock has established and nobody else can undo: the number it chose is still
free, the record it is about to write differs from the file only by its own
change, and no other open record has its pair. `Spoil` and `SetClock` happen
inside the lock too, so each of these has to be robust against them.

**BranchOperations**, in the second part of `RecordStoreProofs`, which instantiates it as
`Git` (`BranchAssumption`, a hypothesis of each theorem): `BranchTypeCorrect`, `AnswersTrue`
(`AnswerTrue`), `HeadAlwaysStands` (`HeadStands`), `NoLoss` (`NoWorkLost`) and
`IssueBranchKept` (`IssueKeepsBranch`). The inductive invariant relates a request
to the repository by its place in the code: `Entered` (the branch is as it was
when the lock was granted), `Editing`, `Branching` (the new branch of an issue is
there, the record does not name it, and HEAD does not point to it unless it was
unborn, so that taking it back is safe) and `Answered`. The requests that do not
hold the lock have not started (`OthersWait`), so a step only has to be
examined for the request that takes it (`Step`, `Inside`, `SettleStep`).

**LfsUploadProofs** (from `LfsAssumption`): `TypeCorrect`, `QuotaKept`
(`StagingWithinQuota`), `ReservationsExact` (`ReservationsReturned`) and
`PolicyAtPublication` (`PublishedUnderPolicy`). All speak of sums over finite sets, which
are folds, and what a fold computes is a fact about every set: the first part of the
module proves that a sum is a natural number, that an element can be taken out or
changed, and that sums are monotone. Each is shown by a smallest counterexample:
were there a set for which the law fails there would be a minimal one, since the
subsets of a finite set are well-founded (`MinimalSubset`), and one element less
gives the contradiction. The inductive invariant says of each upload how far it is
(`Upright`: the lock is held exactly while it walks or publishes, what it staged is
within what it holds; it works with a policy of `ruling`, and at publication that
policy was checked). `WalkCovers` relates the
walk to what changes under it: what has been added up and what is still to be visited
cover everything stored, unless a repository was renamed past the walk. So the
check at the end of the walk is on the safe side and `RoomKept` (stored and reserved
bytes fit the quota together) is kept although the sum is never the sum of one moment.

**MergeTransactionProofs** (from `PeopleAssumption`, `BoundsAssumption`):
`TypeCorrect`, `OnlyApprovedIsMerged` (`MergedWasApproved`), `MergedMarkIsTrue`
(`MergedReachedTarget`), `ActiveClaimSafe` (`ActiveClaimUndisturbed`) and
`AppliedMergeIsKept` (`AppliedMergeKept`). The inductive invariant has a part about the
record alone and one about the merge at work. `RecordOK` is what a reader of the
file may rely on after any interruption: `ClaimRecord` (no claim, no remains of a
plan; with a claim the request is open, approved at the claimed commit, and the
planned result contains that commit), `MergedRecord`, and `ReachedSeen` (if the target has
the planned result, it reached it). Because this does not mention the merge at
work, every recovery, whoever starts it, needs one lemma (`SettledOK`,
`RecoveredOK`), and so does every handler that changes a record (`HandlerKept`).
`UnderWay` ties the steps of the merge in memory to the record: the claim on disk is
its own, it is active, and plan and record agree. `AppliedMergeKept` follows from
the steps that clear a claim being those that found the result absent from the
target (`ClearedUnapplied`, `HandlerDrops`).

**ReceivePackProofs** (from `ReceiveAssumption`): `TypeCorrect`, `ReferencesComplete`
(`RefsComplete`), `ReportIsTrue` (`ReportTrue`) and `OnlyValidatedObjects`
(`ObjectsValidated`). Commits, their parents and their files are arbitrary, cycles
included. The argument for `RefsComplete` is that of `validateLFSPointerUpdates`:
validation stops at commits that references reach, and what it does not read belongs to
the histories of the references (`HistorySplit`), which are whole by the invariant
(`ValidIsWhole`). The inductive invariant carries this through the push:
`Waiting` and `Validated` (nothing the validation read has changed until promotion),
`WholePush` (from promotion on each new commit is whole among the visible objects,
so that any subset of the commands may be applied and the process may end between
any two), `WholeRefs`, and `Applied` (each reference is where the commands applied
so far put it), which gives `ReportTrue`. Maintenance keeps what references reach
(`MaintainedWhole`).

**RunnerProtocolProofs** (from `ProtocolAssumption`): `LogStaysInOrder` (`LogInOrder`),
`SuccessIsLogged` (`SuccessHasWholeLog`) and `ConfirmedStays` (`ConfirmedResultStands`).
A request outlives the goroutine that sent it, so none of the three is inductive: each
depends on what requests nobody waits for may still ask. `RequestOK` says it of every
request in `net`, late or awaited: everything in the log up to the offset of a chunk
comes before that chunk (`Follows`), so wherever `OffsetMatches` lets it be stored it is in
order; and a result of success comes from an attempt whose chunks are all in the log
(`Wrote`). Both facts survive a log that only grows (`LogKept`, `FollowsKept`,
`WroteKept`), which is why a request may be served at any later time. `WorkOK` says the same
of what a worker has not sent yet: a worker whose chunk may have been lost is doomed, or
the chunk was the banner, so it cannot succeed without a whole log (`SkippedOK`).
`Expects` ties an awaited request to its sender, one per goroutine, so that an answer
finds the worker it was meant for (`AnswerKeeps`). `ConfirmedResultStands` needs only that a
queued or running build has confirmed nothing (`NothingConfirmed`). The runs' `TypeOK` is
not proved: its bound on attempts counts the faults that free a lease; `IInv` has the
types the proofs need.

**RepositoryLifecycleProofs** (from `LifecycleAssumption`, and `WalkAssumption` for the last): `LifecycleTypeCorrect`
(`TypeOK`), `DataNeverMixed` (`NeverMixed`), `StrandedGroupsAreEmpty`
(`StrandedGroupEmpty`) and `DataIsNeverLost` (`NothingLost`), for any groups, names and
repositories, wherever steps and their rollbacks fail and the process ends; and
`RequestsAreAtomic` (`AtomicUntilDirty`), below. `NeverMixed`
speaks of what lies under one path, and while an operation is under way that is half of
one layout and half of another; no condition on the layout alone is inductive.
The invariant `IInv` therefore says two different things:

* between two operations (`op = Idle`) the layout is `Sound`: nothing is mixed but for
  the issues an import may find, every repository on show is used (so that a new one is
  not), none of them is still staged, and until the first operation ended halfway only
  a repository that is there has issues;
* during an operation the layout it began with, `op.snap`, is sound, and what is on disk
  is derived from it (`Operation`): each path holds some of what one path of `op.snap` held,
  or what the operation itself made. Each kind of operation has its own such relation
  (`Creating`, `Deleting`, `Renaming`, `Moving`), with the steps it has still
  to do, or to undo, among those of its kind.

So a crash needs no argument of its own, nor does a rollback that fails: to stop at any
point leaves a sound layout. The steps still to do or to undo are any sequence of
steps of the operation's kind; of their order only two things matter. A creation and
a rename first check that their path is `Vacant` and then take it, `git` first. And while
no operation has ended halfway (`dirty = 0`) issues never outlive their repository
(`Anchored`), since the Git directory moves before them and comes back after them;
this is what makes an import, which does not look for issues, safe until then.
`Lively` (groups that cannot be used hold nothing, also among what is hidden) gives
`StrandedGroupEmpty`, because a group rename carries everything in one step.
`NothingLost` is the lemma `KeptConserved`, step by step, under the
same invariant.

`RequestsAreAtomic` (`AtomicUntilDirty`) is the refinement of `RepositoryCatalog`, for
every instance. It also uses `WalkAssumption`, that a directory lists a name once, so
that no record store is rewritten twice by one rename. What `IInv` deliberately forgets,
the exact order of the steps and of their undoing, is what it depends on, so it has an
invariant of its own, `Atomic`, which is only claimed while `dirty = 0` (TLC checked it
on the instance of `storage_faults`, for root groups and for subgroups, before it was
proved). It says, besides that all records name their path between two operations:

* **how far an operation is is read off its lists**: what is still in `op.todo` is at
  the old place and what is not is at the new one (`Halfway` for a repository, `Moved`
  for a group, and likewise `Created` and `Deleted`), but for the one store that is set
  aside;
* **the other list undoes exactly that**: `op.done` has the reversal of a step if and
  only if the step had something to move and is not left to do (`Trail`, `Undoes`).

A failure therefore turns the one relation into the same relation with the places
exchanged, and a list that has been worked off leaves everything at one place: a finished operation
is one step of the catalog or changes nothing (`CreatedEnds`, `DeletedEnds`,
`RenamedEnds`, `GroupedEnds`, `RelocatedEnds`), and no other step of it is seen from
outside. A group rename is the hard case. It takes back merge requests before the directory and
issues after it when a merge request fails, everything in reverse order when
an issue fails, and runs again from the start in the other direction when the control
document cannot be written. `Ordered` keeps rewrites in the old
directory before the move and those in the new one after it, and the last two lines of
`Undoes` say that merge requests are rewritten only after all issues, and stand
before them in `op.done`: so `ReviewsDone` takes back all that was done in the merge
requests, and to relabel every name's issues afterwards takes back just what was
done in them.

**Only model-checked.** Liveness (`QueueDrains`, `HandlersFinish`,
`ReserveReturns`, `ShutdownEnds`, `LostBuildStops`, `BuildEnds`), which the prover
does not handle. `RunnerProtocol`'s `TypeOK`, and `WarmPool`'s `PoolTypeOK`, whose
queue of idle machines is filtered with `SelectSeq`, of which the library of the
prover has no theorem (the types the proofs need are in `IInv`). **Only proved:** `NoCircularWait` and everything about
`ControlRepository` and `BranchOperations`.

## 5. Findings

`merge_abandon` shows a disagreement between code and tests. When the process
ends after a merge saved its plan and before it moved the target, and the target
then moves on, the outcome is called ambiguous and the request is meant to stay
listed and to be closable
(`TestMergeRequestAmbiguousRecoveryCanBeListedAndClosed`,
`internal/httpapi/reviews_test.go:1598`, with "ambiguous merge request was not
closed" at 1719). But the planned merge commit is on no branch, so a force push
that runs object maintenance prunes it once it is old enough.
`reconcileMergeClaim` then fails at
`reviews.go:1201` ("could not read the planned merge result") before it reaches
the ambiguous case, and the request can be neither read, merged nor closed.

Two more places where the code falls short of what its documents say were found
while the models were written. No run shows them; the properties except them
explicitly.

* Deleting a repository moves its directories to the trash one by one. If the
  process ends before the issue store was moved, it stays under the old path.
  `createRepository` refuses such a path (`storage.go:506`, all five kinds), but
  `prepareImportDestination` (`import_archive.go:234`) looks for Git, LFS, build
  and review data only, so an import under the old name adopts the issues of the
  deleted repository. The tests state the rule for the other kinds ("orphaned
  build data was accepted as an import destination",
  `internal/storage/import_archive_additional_test.go:424`). This is the
  exception in `NeverMixed`: without its last two disjuncts TLC finds the
  behaviour.
* `groupStorageUsage` reads the names of the group's directories and then visits
  them; one that is gone by then counts as empty (`lfs.go:673`). A repository
  renamed in between to a name already passed is not counted, and a rename takes
  the group's lock in Shared mode, as uploads do. If this happens in both walks
  of an upload the object is published above the quota, against README:691,
  "`maximumStorageBytes` limits aggregate LFS storage across all repositories in
  the root group and every subgroup". This is what "rename" in `upset` excepts
  from `StagingWithinQuota` and `PublishedUnderPolicy`.

Three consequences of the design that no document contradicts, and that are
therefore not findings: an LFS policy pushed to `control.git` between the second
reading of the policy (`lfs.go:445`) and the rename (`lfs.go:468`) does not stop
that upload; a crash between two saves of `ScheduleLocked` leaves
jobs that fail for a missing dependency, and a crash between the update of the
target and `scheduleBuild` loses the build of that merge.

## 6. Plan

In this order; each item is a module with its runs, then its proofs.

1. `LockManager`, `BuildCoordinator` with proofs; `HandlerLocks`,
   `MergeTransaction` with runs (done).
2. `WarmPool` with proofs (done).
3. `RepositoryLifecycle` with its abstract `RepositoryCatalog`, `RunnerProtocol`,
   `LfsUpload` and `ReceivePack` with runs (done).
4. `ControlRepository`, `RecordStore` and `BranchOperations` with proofs (done).
5. Proofs of `MergeTransaction`, `ReceivePack`, `RunnerProtocol`, `FailedForCause`,
   `OldestFirst`, `ShutdownLeavesNothing`, `LfsUpload`, `HandlerLocks`, and
   `RepositoryLifecycle` with its refinement of `RepositoryCatalog` (done).
6. Next: the limiter of authentication attempts (`internal/auth/limit.go`): the backoff
   of a name and an address, the sweep of the table and its overflow entry.
7. The validation of `repoconfig` (acyclic needs) as an algorithm with a
   reference definition.

## 7. Not modelled

Contents of files and logs, rendering, the web UI, LDAP, cookies, TLS, and
the libvirt XML and transport change no state whose order matters here or
are calls to libraries. The merge of trees and texts is a pure algorithm on
contents; `MergeTransaction` knows only whether it succeeds. The LFS batch
negotiation, downloads, `upload-pack`, archives and comparisons only read.
The limiter of authentication attempts is not modelled yet (section 6).
The LFS objects of an import are stored without a check of the quota, which
README:705 promises for uploads only. Loss of power is not modelled, only the end of
the process; the servers' data directory is written by one process.
