-------------------------------- MODULE WarmPool --------------------------------
(***************************************************************************)
(* The warm pool of virtual machines of a build runner                     *)
(* (internal/runner/libvirt_executor.go) with the workers of remote.go     *)
(* that use it.                                                            *)
(*                                                                         *)
(* Every step between two calls of the hypervisor is one critical section  *)
(* of LibvirtExecutor.mu.  Create, Destroy and CheckReady run outside it   *)
(* and end in any order.  Whoever finds nothing to do sleeps on the        *)
(* channel `changed', which signalLocked closes.  A machine that the       *)
(* hypervisor no longer has gives its name back: a name used again stands  *)
(* for a new random one.                                                   *)
(***************************************************************************)
EXTENDS Integers, Sequences, FiniteSets

CONSTANTS
    VM,            \* names of machines
    BuildWorker,        \* the runner's workers
    IdleCount,     \* LibvirtConfig.IdleCount
    MaxInstances,  \* LibvirtConfig.MaxInstances
    MaxBreakdown,      \* bound: failures of the hypervisor and crashes
    NoVM,
    Reconciler     \* the reconcile goroutine, where it sleeps like a worker

\* normalizeLibvirtConfig; NewRemote takes as many workers as machines.
ASSUME PoolAssumption ==
    /\ IsFiniteSet(VM) /\ IsFiniteSet(BuildWorker)
    /\ IdleCount \in Nat \ {0} /\ MaxInstances \in Nat /\ IdleCount <= MaxInstances
    /\ MaxBreakdown \in Nat
    /\ NoVM \notin VM /\ Reconciler \notin BuildWorker

VARIABLES
    vms,         \* machines the hypervisor has, or is making
    instances,   \* pooledVM.state by name, "absent" for no entry
    inProgress,  \* pooledVM.destroyInProgress
    idle,        \* the queue of idle names
    creating,    \* Create calls in flight, as the pool counts them
    maker,       \* the goroutine that makes each machine
    rec,         \* the reconcile goroutine
    worker,      \* the workers
    asleep,      \* who waits for signalLocked
    phase,       \* the executor's life
    doomed,      \* what Shutdown, or a failed Start, has still to destroy
    canceled,    \* contexts canceled: "workers", "pool"
    failed,      \* the running Shutdown, or the failed Start, has an error
    used,        \* history: machines that were assigned to a build
    breakdowns

poolVars == <<vms, instances, inProgress, idle, creating>>
lifeVars == <<phase, doomed, canceled, failed>>
pvars == <<vms, instances, inProgress, idle, creating, maker, rec, worker, asleep,
          phase, doomed, canceled, failed, used, breakdowns>>

Tracked == {v \in VM : instances[v] # "absent"}
Breakdown == breakdowns < MaxBreakdown /\ breakdowns' = breakdowns + 1

\* close(e.changed) wakes everyone.
signalLocked == asleep' = {}

Off == [at |-> "off", vm |-> NoVM]

\* The memory of a process that is not running, but for its last goroutines.
NoMemory ==
    /\ instances' = [v \in VM |-> "absent"]
    /\ inProgress' = {}
    /\ idle' = <<>>
    /\ creating' = 0
    /\ rec' = Off
    /\ worker' = [w \in BuildWorker |-> Off]
    /\ asleep' = {}
    /\ doomed' = {}
    /\ canceled' = {}

PoolInit ==
    /\ vms = {}
    /\ instances = [v \in VM |-> "absent"]
    /\ inProgress = {}
    /\ idle = <<>>
    /\ creating = 0
    /\ maker = [v \in VM |-> "none"]
    /\ rec = Off
    /\ worker = [w \in BuildWorker |-> Off]
    /\ asleep = {}
    /\ phase = "ended"
    /\ doomed = {}
    /\ canceled = {}
    /\ failed = FALSE
    /\ used = {}
    /\ breakdowns = 0

----------------------------------------------------------------------------------
(* The hypervisor, by its outcomes. *)

\* Create returns a machine; or it failed and removed what it had made; or it
\* failed and returns what is left of it.
Create == {"ready", "gone", "remains"}

\* A Destroy that succeeds.  One that fails may have stopped the machine; the
\* whole operation is tried again.
Destroy(v) == vms' = vms \ {v}

\* Removes every machine of the runner, known to the pool or not.
cleanupOwnedResources == vms' = {}

\* The name of a new machine is random, and nobody uses it.
Fresh(v) ==
    /\ v \notin vms \cup Tracked
    /\ maker[v] = "none"
    /\ \A w \in BuildWorker : worker[w].vm # v

----------------------------------------------------------------------------------
(* Start. *)

\* Prepare, or the cleanup that follows its failure, may have removed some of
\* what an earlier process left behind.
PrepareFails ==
    /\ phase \in {"ended", "stopped"}
    /\ Breakdown
    /\ vms' \in SUBSET vms
    /\ phase' = "stopped"
    /\ failed' = TRUE
    /\ UNCHANGED <<instances, inProgress, idle, creating, maker, rec, worker, asleep, doomed,
                   canceled, used>>

\* Prepare first removes what an earlier process left behind; then preheat
\* begins all the Create calls at once.
StartPreheat(S) ==
    /\ phase \in {"ended", "stopped"}
    /\ Cardinality(S) = IdleCount
    /\ vms' = S
    /\ creating' = IdleCount
    /\ maker' = [v \in VM |-> IF v \in S THEN "preheating" ELSE "none"]
    /\ phase' = "preheating"
    /\ failed' = FALSE
    /\ used' = {}
    /\ UNCHANGED <<instances, inProgress, idle, rec, worker, asleep, doomed, canceled, breakdowns>>

\* The first Create that fails cancels the others.
PreheatCreate(v, outcome) ==
    /\ phase = "preheating" /\ maker[v] = "preheating"
    /\ outcome # "ready" =>
           \/ "pool" \in canceled /\ UNCHANGED breakdowns
           \/ \E x \in VM : maker[x] \in {"gone", "remains"} /\ UNCHANGED breakdowns
           \/ Breakdown
    /\ outcome = "ready" => "pool" \notin canceled /\ UNCHANGED breakdowns
    /\ maker' = [maker EXCEPT ![v] = outcome]
    /\ vms' = IF outcome = "gone" THEN vms \ {v} ELSE vms
    /\ UNCHANGED <<instances, inProgress, idle, creating, rec, worker, asleep, lifeVars, used>>

Preheated == phase = "preheating" /\ \A v \in VM : maker[v] # "preheating"

\* All machines are ready: the pool is started, and Remote.Run starts the workers.
StartSucceeds ==
    /\ Preheated
    /\ {v \in VM : maker[v] = "ready"} = vms /\ Cardinality(vms) = IdleCount
    /\ instances' = [v \in VM |-> IF v \in vms THEN "idle" ELSE "absent"]
    /\ idle' \in {s \in [1 .. IdleCount -> vms] : \A v \in vms : \E i \in 1 .. IdleCount : s[i] = v}
    /\ creating' = 0
    /\ maker' = [v \in VM |-> "none"]
    /\ rec' = [Off EXCEPT !.at = "loop"]
    /\ worker' = [w \in BuildWorker |-> [Off EXCEPT !.at = "reserve"]]
    /\ phase' = "running"
    /\ signalLocked
    /\ UNCHANGED <<vms, inProgress, doomed, canceled, failed, used, breakdowns>>

\* cleanupStartup destroys whatever was returned.
StartFails ==
    /\ Preheated
    /\ \E v \in VM : maker[v] \in {"gone", "remains"}
    /\ doomed' = {v \in VM : maker[v] \in {"ready", "remains"}}
    /\ creating' = 0
    /\ maker' = [v \in VM |-> "none"]
    /\ phase' = "destroying"
    /\ failed' = TRUE
    /\ signalLocked
    /\ UNCHANGED <<vms, instances, inProgress, idle, rec, worker, canceled, used, breakdowns>>

----------------------------------------------------------------------------------
(* A worker: reserve a machine, ask for a job, run it, release. *)

Goto(w, label) == worker' = [worker EXCEPT ![w].at = label]
Stops(w) == worker' = [worker EXCEPT ![w] = [Off EXCEPT !.at = "stopped"]]
Stopping == "workers" \in canceled
Machine(w) == worker[w].vm

\* Reserve takes the first name whose machine is idle and drops those before it.
FirstIdle(i) ==
    /\ i \in DOMAIN idle
    /\ instances[idle[i]] = "idle"
    /\ \A j \in 1 .. i - 1 : instances[idle[j]] # "idle"
Reserve(w) ==
    /\ worker[w].at = "reserve" /\ w \notin asleep
    /\ ~Stopping
    /\ \E v \in VM, i \in DOMAIN idle :
       /\ FirstIdle(i) /\ v = idle[i]
       /\ idle' = SubSeq(idle, i + 1, Len(idle))
       /\ instances' = [instances EXCEPT ![v] = "reserved"]
       /\ worker' = [worker EXCEPT ![w] = [at |-> "checking", vm |-> v]]
    /\ UNCHANGED <<vms, inProgress, creating, maker, rec, asleep, lifeVars, used, breakdowns>>

ReserveSleeps(w) ==
    /\ worker[w].at = "reserve" /\ w \notin asleep
    /\ ~Stopping
    /\ \A i \in DOMAIN idle : ~FirstIdle(i)
    /\ idle' = <<>>
    /\ asleep' = asleep \cup {w}
    /\ UNCHANGED <<vms, instances, inProgress, creating, maker, rec, worker, lifeVars, used, breakdowns>>

\* The context ends Reserve, asleep or not, and the wait between two polls.
WorkerCanceled(w) ==
    /\ worker[w].at \in {"reserve", "polling"}
    /\ Stopping
    /\ Stops(w)
    /\ asleep' = asleep \ {w}
    /\ UNCHANGED <<poolVars, maker, rec, lifeVars, used, breakdowns>>

\* returnIdle, and Reserve when its context ended during the check.
returnIdle(w) ==
    /\ instances' = [instances EXCEPT ![Machine(w)] = "idle"]
    /\ idle' = Append(idle, Machine(w))
    /\ signalLocked

\* Between the check and here nobody else changes a reserved machine: the
\* "no longer available" answers of Reserve and Run are not taken.
Healthy(w) ==
    /\ worker[w].at = "checking"
    /\ ~Stopping
    /\ Goto(w, "claiming")
    /\ UNCHANGED <<poolVars, maker, rec, asleep, lifeVars, used, breakdowns>>

Unhealthy(w) ==
    /\ worker[w].at = "checking"
    /\ ~Stopping
    /\ Breakdown
    /\ instances' = [instances EXCEPT ![Machine(w)] = "destroying"]
    /\ worker' = [worker EXCEPT ![w] = [Off EXCEPT !.at = "reserve"]]
    /\ signalLocked
    /\ UNCHANGED <<vms, inProgress, idle, creating, maker, rec, lifeVars, used>>

CheckCanceled(w) ==
    /\ worker[w].at = "checking"
    /\ Stopping
    /\ returnIdle(w)
    /\ Stops(w)
    /\ UNCHANGED <<vms, inProgress, creating, maker, rec, lifeVars, used, breakdowns>>

\* No job, or no answer: the machine goes back unused.
ClaimNothing(w) ==
    /\ worker[w].at = "claiming"
    /\ returnIdle(w)
    /\ worker' = [worker EXCEPT ![w] = [Off EXCEPT !.at = "polling"]]
    /\ UNCHANGED <<vms, inProgress, creating, maker, rec, lifeVars, used, breakdowns>>

\* The server refuses the token: this worker ends, and ends the others.
ClaimRefused(w) ==
    /\ worker[w].at = "claiming"
    /\ returnIdle(w)
    /\ Stops(w)
    /\ canceled' = canceled \cup {"workers"}
    /\ UNCHANGED <<vms, inProgress, creating, maker, rec, phase, doomed, failed, used, breakdowns>>

PollAgain(w) ==
    /\ worker[w].at = "polling"
    /\ Goto(w, "reserve")
    /\ UNCHANGED <<poolVars, maker, rec, asleep, lifeVars, used, breakdowns>>

Assign(w) ==
    /\ worker[w].at = "claiming"
    /\ instances' = [instances EXCEPT ![Machine(w)] =
                        IF @ = "reserved" THEN "leased" ELSE @]
    /\ Goto(w, "assigned")
    /\ used' = used \cup {Machine(w)}
    /\ signalLocked
    /\ UNCHANGED <<vms, inProgress, idle, creating, maker, rec, lifeVars, breakdowns>>

Run(w) ==
    /\ worker[w].at = "assigned"
    /\ instances[Machine(w)] = "leased"
    /\ Goto(w, "building")
    /\ UNCHANGED <<poolVars, maker, rec, asleep, lifeVars, used, breakdowns>>

removeIdleLocked(v) == SelectSeq(idle, LAMBDA x : x # v)

\* Mutant: puts the machine back.
ReleaseIdle(w) ==
    /\ worker[w].at \in {"assigned", "building"}
    /\ returnIdle(w)
    /\ worker' = [worker EXCEPT ![w] = [Off EXCEPT !.at = "reserve"]]
    /\ UNCHANGED <<vms, inProgress, creating, maker, rec, lifeVars, used, breakdowns>>
\* Release of an assigned machine, whether or not the build ever ran on it.
destroyReleased(w) ==
    /\ worker[w].at \in {"assigned", "building"}
    /\ instances' = [instances EXCEPT ![Machine(w)] = "destroying"]
    /\ inProgress' = inProgress \cup {Machine(w)}
    /\ idle' = removeIdleLocked(Machine(w))
    /\ Goto(w, "releasing")
    /\ signalLocked
    /\ UNCHANGED <<vms, creating, maker, rec, lifeVars, used, breakdowns>>

\* What follows a Destroy call: the entry goes, or can be tried again.
Forget(v) ==
    /\ Destroy(v)
    /\ instances' = [instances EXCEPT ![v] = "absent"]
    /\ inProgress' = inProgress \ {v}
    /\ idle' = removeIdleLocked(v)
\* Mutant: the machine is forgotten although it is still there.
KeepForgotten(v) ==
    /\ instances' = [instances EXCEPT ![v] = "absent"]
    /\ inProgress' = inProgress \ {v}
    /\ UNCHANGED <<vms, idle>>
Keep(v) ==
    /\ inProgress' = inProgress \ {v}
    /\ UNCHANGED <<vms, instances, idle>>

\* Mutant: forgets the machine and wakes nobody.
ReleasedSilently(w) ==
    /\ worker[w].at = "releasing"
    /\ Forget(Machine(w))
    /\ worker' = [worker EXCEPT ![w] = [Off EXCEPT !.at = "reserve"]]
    /\ UNCHANGED <<creating, maker, rec, asleep, lifeVars, used, breakdowns>>
Released(w) ==
    /\ worker[w].at = "releasing"
    /\ Forget(Machine(w))
    /\ worker' = [worker EXCEPT ![w] = [Off EXCEPT !.at = "reserve"]]
    /\ signalLocked
    /\ UNCHANGED <<creating, maker, rec, lifeVars, used, breakdowns>>

ReleaseFails(w) ==
    /\ worker[w].at = "releasing"
    /\ Breakdown
    /\ Keep(Machine(w))
    /\ worker' = [worker EXCEPT ![w] = [Off EXCEPT !.at = "reserve"]]
    /\ signalLocked
    /\ UNCHANGED <<creating, maker, rec, lifeVars, used>>

----------------------------------------------------------------------------------
(* The reconcile goroutine. *)

RecAt(label) == rec.at = label /\ Reconciler \notin asleep

availableCapacity == Len(idle) + Cardinality({v \in VM : instances[v] = "reserved"})
MayCreate ==
    /\ availableCapacity + creating < IdleCount
    /\ Cardinality(Tracked) + creating < MaxInstances
Destroyable == {v \in VM : instances[v] = "destroying" /\ v \notin inProgress}

\* nextReconcileAction: create ...
ReconcileCreate(v) ==
    /\ RecAt("loop") /\ phase = "running"
    /\ MayCreate
    /\ Fresh(v)
    /\ creating' = creating + 1
    /\ maker' = [maker EXCEPT ![v] = "creating"]
    /\ vms' = vms \cup {v}
    /\ used' = used \ {v}
    /\ signalLocked
    /\ UNCHANGED <<instances, inProgress, idle, rec, worker, lifeVars, breakdowns>>

\* ... destroy ...
ReconcileDestroy(v) ==
    /\ RecAt("loop") /\ phase = "running"
    /\ ~MayCreate
    /\ v \in Destroyable
    /\ inProgress' = inProgress \cup {v}
    /\ rec' = [at |-> "destroying", vm |-> v]
    /\ UNCHANGED <<vms, instances, idle, creating, maker, worker, asleep, lifeVars, used, breakdowns>>

\* ... wait ...
ReconcileSleeps ==
    /\ RecAt("loop") /\ phase = "running"
    /\ ~MayCreate
    /\ Destroyable = {}
    /\ asleep' = asleep \cup {Reconciler}
    /\ UNCHANGED <<poolVars, maker, rec, worker, lifeVars, used, breakdowns>>

\* ... or stop; a canceled context ends both of its waits.
ReconcileStops ==
    /\ \/ RecAt("loop") /\ phase = "stopping"
       \/ Reconciler \in asleep /\ "pool" \in canceled
       \/ rec.at = "retry" /\ "pool" \in canceled
    /\ rec' = Off
    /\ asleep' = asleep \ {Reconciler}
    /\ UNCHANGED <<poolVars, maker, worker, lifeVars, used, breakdowns>>

Reconciled ==
    /\ rec.at = "destroying"
    /\ Forget(rec.vm)
    /\ rec' = [Off EXCEPT !.at = "loop"]
    /\ signalLocked
    /\ UNCHANGED <<creating, maker, worker, lifeVars, used, breakdowns>>

ReconcileFails ==
    /\ rec.at = "destroying"
    /\ Breakdown
    /\ Keep(rec.vm)
    /\ rec' = [Off EXCEPT !.at = "retry"]
    /\ signalLocked
    /\ UNCHANGED <<creating, maker, worker, lifeVars, used>>

ReconcileRetry ==
    /\ rec.at = "retry"
    /\ rec' = [Off EXCEPT !.at = "loop"]
    /\ UNCHANGED <<poolVars, maker, worker, asleep, lifeVars, used, breakdowns>>

----------------------------------------------------------------------------------
(* runReconcileCreate, one goroutine for each machine in the making. *)

Created(v) ==
    /\ maker[v] = "creating"
    /\ instances' = [instances EXCEPT ![v] = "idle"]
    /\ idle' = Append(idle, v)
    /\ maker' = [maker EXCEPT ![v] = "created"]
    /\ signalLocked
    /\ UNCHANGED <<vms, inProgress, creating, rec, worker, lifeVars, used, breakdowns>>

CanceledOrBreakdown == IF "pool" \in canceled THEN UNCHANGED breakdowns ELSE Breakdown

\* Create failed and removed what it had made.
CreateFails(v) ==
    /\ maker[v] = "creating"
    /\ CanceledOrBreakdown
    /\ Destroy(v)
    /\ maker' = [maker EXCEPT ![v] = "failed"]
    /\ signalLocked
    /\ UNCHANGED <<instances, inProgress, idle, creating, rec, worker, lifeVars, used>>

\* retainFailedCleanup: the remains are tracked, and take up capacity.
retainFailedCleanup(v) ==
    /\ instances' = [instances EXCEPT ![v] = "destroying"]
    /\ inProgress' = inProgress \cup {v}
    /\ maker' = [maker EXCEPT ![v] = "retained"]

\* Create failed and could not remove what it had made: destroyUntracked tries
\* once more, unless the pool is being shut down.
CreateLeavesRemains(v) ==
    /\ maker[v] = "creating"
    /\ Breakdown
    /\ IF "pool" \in canceled THEN retainFailedCleanup(v)
       ELSE maker' = [maker EXCEPT ![v] = "removing"] /\ UNCHANGED <<instances, inProgress>>
    /\ signalLocked
    /\ UNCHANGED <<vms, idle, creating, rec, worker, lifeVars, used>>

Removed(v) ==
    /\ maker[v] = "removing"
    /\ Destroy(v)
    /\ maker' = [maker EXCEPT ![v] = "failed"]
    /\ UNCHANGED <<instances, inProgress, idle, creating, rec, worker, asleep, lifeVars, used, breakdowns>>

RemoveFails(v) ==
    /\ maker[v] = "removing"
    /\ Breakdown
    /\ retainFailedCleanup(v)
    /\ signalLocked
    /\ UNCHANGED <<vms, idle, creating, rec, worker, lifeVars, used>>

\* The remains are counted as an instance; no longer as in the making.
CountRetained(v) ==
    /\ maker[v] = "retained"
    /\ creating' = creating - 1
    /\ maker' = [maker EXCEPT ![v] = "waiting"]
    /\ signalLocked
    /\ UNCHANGED <<vms, instances, inProgress, idle, rec, worker, lifeVars, used, breakdowns>>

\* The end of the goroutine, after a failure when the retry delay is over.
MakerEnds(v) ==
    /\ maker[v] \in {"created", "failed", "waiting"}
    /\ creating' = IF maker[v] = "waiting" THEN creating ELSE creating - 1
    /\ inProgress' = IF maker[v] = "waiting" THEN inProgress \ {v} ELSE inProgress
    /\ maker' = [maker EXCEPT ![v] = "none"]
    /\ signalLocked
    /\ UNCHANGED <<vms, instances, idle, rec, worker, lifeVars, used, breakdowns>>

----------------------------------------------------------------------------------
(* The end of Remote.Run. *)

\* A signal cancels the context of the workers and of the reconciliation.
Interrupt ==
    /\ phase \in {"preheating", "running"}
    /\ canceled' = {"workers", "pool"}
    /\ canceled # canceled'
    /\ UNCHANGED <<poolVars, maker, rec, worker, asleep, phase, doomed, failed, used, breakdowns>>

WorkersDone == \A w \in BuildWorker : worker[w].at = "stopped"

\* Mutant: does not wait for the workers.
ShutdownAtOnce ==
    /\ phase = "running" /\ Stopping
    /\ phase' = "stopping"
    /\ canceled' = {"workers", "pool"}
    /\ failed' = FALSE
    /\ signalLocked
    /\ UNCHANGED <<poolVars, maker, rec, worker, doomed, used, breakdowns>>
\* Mutant: does not stop the reconciliation.
ShutdownSilently ==
    /\ phase = "running" /\ WorkersDone
    /\ phase' = "stopping"
    /\ failed' = FALSE
    /\ UNCHANGED <<poolVars, maker, rec, worker, asleep, doomed, canceled, used, breakdowns>>
\* Run waits for its workers, then calls Shutdown.
Shutdown ==
    /\ phase = "running" /\ WorkersDone
    /\ phase' = "stopping"
    /\ canceled' = {"workers", "pool"}
    /\ failed' = FALSE
    /\ signalLocked
    /\ UNCHANGED <<poolVars, maker, rec, worker, doomed, used, breakdowns>>

\* Mutant: waits for the reconciliation, not for the machines it is making.
MakersForgotten == rec.at = "off"
\* e.wg.Wait()
ProvisioningDone == rec.at = "off" /\ \A v \in VM : maker[v] = "none"
ShutdownDestroys ==
    /\ phase = "stopping"
    /\ ProvisioningDone
    /\ doomed' = Tracked
    /\ phase' = "destroying"
    /\ UNCHANGED <<poolVars, maker, rec, worker, asleep, canceled, failed, used, breakdowns>>

Destroyed(v) ==
    /\ phase = "destroying" /\ v \in doomed
    /\ doomed' = doomed \ {v}
    /\ Destroy(v)
    /\ UNCHANGED <<instances, inProgress, idle, creating, maker, rec, worker, asleep, phase,
                   canceled, failed, used, breakdowns>>

DestroyFails(v) ==
    /\ phase = "destroying" /\ v \in doomed
    /\ Breakdown
    /\ doomed' = doomed \ {v}
    /\ failed' = TRUE
    /\ UNCHANGED <<poolVars, maker, rec, worker, asleep, phase, canceled, used>>

\* cleanupProvider: removes everything the runner owns, or fails in between.
Cleanup(fails) ==
    /\ phase = "destroying" /\ doomed = {}
    /\ IF fails THEN Breakdown /\ vms' \in SUBSET vms ELSE cleanupOwnedResources /\ UNCHANGED breakdowns
    /\ failed' = (failed \/ fails)
    /\ phase' = "stopped"
    /\ NoMemory
    /\ UNCHANGED <<maker, used>>

\* The process ends: killed, or because Shutdown waited too long.
ProcessEnds ==
    /\ phase \notin {"ended", "stopped"}
    /\ Breakdown
    /\ NoMemory
    /\ maker' = [v \in VM |-> "none"]
    /\ phase' = "ended"
    /\ failed' = FALSE
    /\ UNCHANGED <<vms, used>>

----------------------------------------------------------------------------------
WorkerStep(w) ==
    \/ ReserveSleeps(w) \/ WorkerCanceled(w)
    \/ Healthy(w) \/ Unhealthy(w) \/ CheckCanceled(w)
    \/ ClaimNothing(w) \/ ClaimRefused(w) \/ PollAgain(w) \/ Assign(w) \/ Run(w)
    \/ destroyReleased(w) \/ Released(w) \/ ReleaseFails(w)

ReconcileStep ==
    \/ \E v \in VM : ReconcileCreate(v) \/ ReconcileDestroy(v)
    \/ ReconcileSleeps \/ ReconcileStops \/ Reconciled \/ ReconcileFails \/ ReconcileRetry

MakerStep(v) ==
    \/ Created(v) \/ CreateFails(v) \/ CreateLeavesRemains(v) \/ Removed(v) \/ RemoveFails(v)
    \/ CountRetained(v) \/ MakerEnds(v)

RunStep ==
    \/ \E v \in VM, outcome \in Create : PreheatCreate(v, outcome)
    \/ StartSucceeds \/ StartFails
    \/ Shutdown \/ ShutdownDestroys
    \/ \E v \in VM : Destroyed(v) \/ DestroyFails(v)
    \/ \E fails \in BOOLEAN : Cleanup(fails)

PoolNext ==
    \/ PrepareFails
    \/ \E S \in SUBSET VM : StartPreheat(S)
    \/ \E w \in BuildWorker : Reserve(w) \/ WorkerStep(w)
    \/ ReconcileStep
    \/ \E v \in VM : MakerStep(v)
    \/ RunStep
    \/ Interrupt
    \/ ProcessEnds

PoolSpec == PoolInit /\ [][PoolNext]_pvars

\* Goroutines run on, and every call of the hypervisor, the server and the build
\* has a timeout.  A waiting worker that again and again finds a machine gets one:
\* whoever gives an unused machine back pauses for a poll interval.
FairSpec ==
    /\ PoolSpec
    /\ \A w \in BuildWorker : WF_pvars(WorkerStep(w)) /\ SF_pvars(Reserve(w))
    /\ WF_pvars(ReconcileStep)
    /\ \A v \in VM : WF_pvars(MakerStep(v))
    /\ WF_pvars(RunStep)

----------------------------------------------------------------------------------
\* Every variable keeps its type.
PoolTypeOK ==
    /\ vms \subseteq VM
    /\ instances \in [VM -> {"absent", "idle", "reserved", "leased", "destroying"}]
    /\ inProgress \subseteq VM
    /\ idle \in Seq(VM)
    /\ creating \in Nat
    /\ maker \in [VM -> {"none", "preheating", "ready", "gone", "remains", "creating", "created",
                         "removing", "failed", "retained", "waiting"}]
    /\ rec \in [at : {"off", "loop", "destroying", "retry"}, vm : VM \cup {NoVM}]
    /\ worker \in [BuildWorker -> [at : {"off", "reserve", "checking", "claiming", "polling",
                                    "assigned", "building", "releasing", "stopped"},
                              vm : VM \cup {NoVM}]]
    /\ asleep \subseteq BuildWorker \cup {Reconciler}
    /\ phase \in {"ended", "preheating", "running", "stopping", "destroying", "stopped"}
    /\ doomed \subseteq VM
    /\ canceled \subseteq {"workers", "pool"}
    /\ failed \in BOOLEAN
    /\ used \subseteq VM
    /\ breakdowns \in 0 .. MaxBreakdown

\* "Hard cap across creating, idle, and assigned VMs": while a runner runs, the
\* hypervisor never has more machines of it than MaxInstances, whichever calls
\* fail and leave machines behind.
HardCap == Cardinality(vms) <= MaxInstances

\* "Each assigned VM is used once, even if source download or execution fails":
\* no machine that was given to a build is ever offered again, and no two
\* workers have the same one.
OneBuildPerMachine ==
    /\ \A v \in VM : instances[v] \in {"idle", "reserved"} => v \notin used
    /\ \A w, x \in BuildWorker : w # x /\ Machine(w) # NoVM => Machine(w) # Machine(x)

Destroying(v) ==
    {<<"worker", w>> : w \in {x \in BuildWorker : worker[x] = [at |-> "releasing", vm |-> v]}}
    \cup (IF rec = [at |-> "destroying", vm |-> v] THEN {<<"reconcile", v>>} ELSE {})
    \cup (IF maker[v] = "removing" THEN {<<"maker", v>>} ELSE {})
    \cup (IF v \in doomed THEN {<<"shutdown", v>>} ELSE {})

\* Nobody destroys a machine that a worker holds, checks or builds on, and
\* no two goroutines destroy the same machine at once.
DestroyedByOwner ==
    \A v \in VM :
        /\ Cardinality(Destroying(v)) <= 1
        /\ (\E w \in BuildWorker : worker[w].vm = v /\ worker[w].at # "releasing") =>
               Destroying(v) = {} /\ v \in vms

\* When Shutdown returns without an error, nothing is left, and nothing comes
\* into being afterwards.
ShutdownLeavesNothing ==
    phase = "stopped" /\ ~failed => vms = {} /\ \A v \in VM : maker[v] = "none"

\* A worker that waits for a machine gets one, or is told to stop: nobody sleeps
\* through the signal that was for him, and capacity lost to failures comes back.
ReserveReturns == \A w \in BuildWorker : worker[w].at = "reserve" ~> worker[w].at # "reserve"

\* A runner that is told to stop does.
ShutdownEnds == Stopping ~> phase \in {"stopped", "ended"}
==================================================================================
