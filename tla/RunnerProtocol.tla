---------------------------- MODULE RunnerProtocol ----------------------------
(***************************************************************************)
(* The conversation between the remote runner (internal/runner/remote.go)  *)
(* and the build coordinator behind /api/runner (internal/httpapi/         *)
(* runner.go) about one build.                                             *)
(*                                                                         *)
(* A worker of the runner claims the build and then runs two goroutines:   *)
(* runLease itself, which sends log chunks, downloads the source and sends *)
(* the result, and heartbeat, which renews the lease.  Every request is an *)
(* HTTP POST that the coordinator serves in one step, under the lock of    *)
(* the build.  The answer belongs to the same step: a client that gives up *)
(* waiting (a timeout, a lost answer, a canceled context, a dead process)  *)
(* leaves its request behind as a late one, which the coordinator may      *)
(* still serve at any later moment, or which never arrives.                *)
(*                                                                         *)
(* The coordinator knows a lease by runner ID only; attempts are numbered  *)
(* in requests here so that properties can tell them apart.                *)
(***************************************************************************)
EXTENDS Integers, Sequences, FiniteSets, SequencesExt

CONSTANTS
    Worker,     \* runner IDs, one worker goroutine each
    Errors,     \* texts of build errors
    Chunks,     \* log chunks of a complete build: header, source, output ...
    LogLimit,   \* MaximumStoredLogBytes, in chunks
    MaxFault,   \* bound: timeouts, crashes, I/O errors, leases lost while alive
    NoWorker

Banner == 0      \* "[runner ... reclaimed build for attempt ...]"
Header == 1
Downloaded == 2  \* "downloaded source at ..."; output follows
Success == "success"
Results == {Success} \cup Errors

ASSUME ProtocolAssumption ==
    /\ Chunks \in Nat /\ Chunks > Downloaded
    /\ LogLimit \in Nat /\ MaxFault \in Nat
    /\ NoWorker \notin Worker /\ Success \notin Errors /\ Errors # {}

VARIABLES
    job,     \* the build's job file, and by: the attempt whose result it holds
    log,     \* the build's log file: which attempt wrote which chunk
    work,    \* the workers
    net,     \* requests sent and not served
    acked,   \* results the coordinator has confirmed to the attempt sending them
    faults

vars == <<job, log, work, net, acked, faults>>

Attempts == 0 .. MaxFault + 1
Kinds == {"claim", "log", "source", "complete", "beat"}
Idle == [pc |-> "idle", attempt |-> 0, offset |-> 0, next |-> Header,
         sourced |-> FALSE, doomed |-> FALSE, result |-> Success,
         ctx |-> FALSE, beat |-> "done"]
\* Each request carries what its handler reads; the attempt is not sent.
Blank == [offset |-> 0, n |-> 0, result |-> Success]
Request(w, kind) ==
    [kind |-> kind, worker |-> w, attempt |-> work[w].attempt, late |-> 0,
     body |-> CASE kind = "log" -> [Blank EXCEPT !.offset = work[w].offset,
                                                 !.n = work[w].next]
                [] kind = "complete" -> [Blank EXCEPT !.result = work[w].result]
                [] OTHER -> Blank]

TypeOK ==
    /\ job \in [status : {"queued", "running", "canceled", "succeeded", "failed"},
                runner : Worker \cup {NoWorker}, attempt : Attempts,
                lease : {"none", "live", "expired"}, result : Results,
                by : Attempts]
    /\ log \in Seq([attempt : Attempts, n : Banner .. Chunks])
    /\ work \in [Worker ->
            [pc : {"idle", "claiming", "building", "waiting", "built", "completing"},
             attempt : Attempts, offset : Nat, next : Banner .. Chunks + 1,
             sourced : BOOLEAN, doomed : BOOLEAN, result : Results,
             ctx : BOOLEAN, beat : {"ticking", "sent", "done"}]]
    /\ \A q \in net : q.kind \in Kinds /\ q.worker \in Worker /\ q.late \in Nat
    /\ acked \subseteq Attempts \X Results
    /\ faults \in 0 .. MaxFault

Init ==
    /\ job = [status |-> "queued", runner |-> NoWorker, attempt |-> 0,
              lease |-> "none", result |-> Success, by |-> 0]
    /\ log = <<>>
    /\ work = [w \in Worker |-> Idle]
    /\ net = {}
    /\ acked = {}
    /\ faults = 0

Fault == faults < MaxFault /\ faults' = faults + 1
NoFault == faults' = faults

Set(w, r) == work' = [work EXCEPT ![w] = r]

-----------------------------------------------------------------------------
(* The coordinator. *)

terminal == job.status \in {"canceled", "succeeded", "failed"}
\* Mutant: only queued builds are candidates.
ClaimableQueued == job.status = "queued"
\* candidates
Claimable == job.status = "queued" \/ (job.status = "running" /\ job.lease # "live")
\* ownedJob
Owned(q) == job.runner = q.worker
\* ownedRunningJob
OwnedRunning(q) == Owned(q) /\ job.status = "running"

Claim(q) ==
    job' = [job EXCEPT !.status = "running", !.runner = q.worker,
                       !.attempt = @ + 1, !.lease = "live"]

Extend == job' = [job EXCEPT !.lease = "live"]

\* Mutant: the log is appended to whatever its size is.
OffsetUnchecked(q) == TRUE
OffsetMatches(q) == q.body.offset = Len(log)
\* appendLog drops what exceeds MaximumStoredLogBytes and still succeeds.
Appended(q) ==
    IF Len(log) >= LogLimit THEN log
    ELSE Append(log, [attempt |-> q.attempt, n |-> q.body.n])

\* Complete: the first result of a running build is saved ...
Records(q) == OwnedRunning(q)
Record(q) ==
    job' = [job EXCEPT !.status = IF q.body.result = Success THEN "succeeded" ELSE "failed",
                       !.lease = "none", !.result = q.body.result, !.by = q.attempt]
\* Mutant: any second result is confirmed.
ConfirmsAny(q) == Owned(q) /\ terminal
\* ... and repeating it, or completing a canceled build, changes nothing.
Confirms(q) ==
    /\ Owned(q)
    /\ \/ job.status = "canceled"
       \/ job.status \in {"succeeded", "failed"} /\ job.result = q.body.result

\* A user cancels the build, whoever runs it.
Cancel ==
    /\ ~terminal
    /\ job' = [job EXCEPT !.status = "canceled", !.lease = "none"]
    /\ UNCHANGED <<log, work, net, acked, faults>>

-----------------------------------------------------------------------------
(* What an answer does to the worker that waits for it. *)

\* runLease begins; a reclaimed build with a log starts with the banner.
Leased(w) ==
    Set(w, [Idle EXCEPT !.pc = "building", !.attempt = job.attempt + 1,
                        !.offset = Len(log), !.ctx = TRUE, !.beat = "ticking",
                        !.next = IF log = <<>> THEN Header ELSE Banner])

Building(w) == [work[w] EXCEPT !.pc = "building"]
Built(w, e) == [Idle EXCEPT !.pc = "built", !.result = e, !.ctx = TRUE,
                            !.attempt = work[w].attempt, !.beat = work[w].beat]

\* remoteLogWriter.Write
Written(w, offset) ==
    Set(w, [Building(w) EXCEPT !.offset = offset, !.next = @ + 1])
\* Mutant: every failed write is ignored.
NotWrittenIgnored(w) == Set(w, [Building(w) EXCEPT !.next = @ + 1])
\* The banner's error is ignored, the header's and the source line's end the
\* build, and the executor fails later although its other stream may go on.
NotWritten(w) ==
    CASE work[w].next = Banner -> Set(w, [Building(w) EXCEPT !.next = @ + 1])
      [] work[w].next \in {Header, Downloaded} -> \E e \in Errors : Set(w, Built(w, e))
      [] OTHER -> Set(w, [Building(w) EXCEPT !.next = @ + 1, !.doomed = TRUE])

\* runLease returns once the result is confirmed or refused for good.
Returned(w) == Set(w, Idle)
\* Giving up makes a request a late one; a late download changes nothing.
Awaited(q, w, kinds) == q.worker = w /\ q.late = 0 /\ q.kind \in kinds
Abandon(w, kinds) ==
    {IF Awaited(q, w, kinds) THEN [q EXCEPT !.late = faults + 1] ELSE q :
        q \in {r \in net : ~Awaited(r, w, {"source"} \cap kinds)}}

\* An error other than a conflict: the runner cannot know what was done.
Unanswered(w, kind) ==
    CASE kind = "claim"    -> Set(w, Idle)
      [] kind = "log"      -> NotWritten(w)
      [] kind = "source"   -> \E e \in Errors : Set(w, Built(w, e))
      [] kind = "complete" -> Set(w, [work[w] EXCEPT !.pc = "built"])
      [] kind = "beat"     -> Set(w, [work[w] EXCEPT !.ctx = FALSE, !.beat = "done"])
\* A conflict (409): a completion is not repeated.
Refused(w, kind) ==
    IF kind = "complete" THEN Returned(w) ELSE Unanswered(w, kind)

\* A late request is answered to nobody.
Answer(q, A) == IF q.late = 0 THEN A ELSE work' = work

-----------------------------------------------------------------------------
(* Requests served by the coordinator. *)

Deliver(q) == net' = net \ {q}

ServeClaim(q) ==
    /\ q.kind = "claim" /\ Deliver(q)
    /\ \/ Claimable /\ Claim(q) /\ Answer(q, Leased(q.worker))
       \/ ~Claimable /\ job' = job /\ Answer(q, Set(q.worker, Idle))
    /\ UNCHANGED <<log, acked, faults>>

\* Mutant: the answer does not mention the cancellation.
ToldNothing(w) == [work[w] EXCEPT !.beat = "ticking"]
\* HeartbeatState: a finished build answers too, and says when it was canceled.
Told(w) ==
    IF job.status = "canceled" THEN [work[w] EXCEPT !.ctx = FALSE, !.beat = "done"]
    ELSE [work[w] EXCEPT !.beat = "ticking"]
ServeBeat(q) ==
    /\ q.kind = "beat" /\ Deliver(q)
    /\ \/ OwnedRunning(q) /\ Extend
          /\ Answer(q, Set(q.worker, Told(q.worker)))
       \/ Owned(q) /\ terminal /\ job' = job
          /\ Answer(q, Set(q.worker, Told(q.worker)))
       \/ ~Owned(q) /\ job' = job /\ Answer(q, Refused(q.worker, "beat"))
    /\ UNCHANGED <<log, acked, faults>>

ServeLog(q) ==
    /\ q.kind = "log" /\ Deliver(q)
    /\ \/ OwnedRunning(q) /\ OffsetMatches(q) /\ Extend /\ log' = Appended(q)
          /\ Answer(q, Written(q.worker, Len(log')))
       \/ ~(OwnedRunning(q) /\ OffsetMatches(q)) /\ UNCHANGED <<job, log>>
          /\ Answer(q, Refused(q.worker, "log"))
    /\ UNCHANGED <<acked, faults>>

\* runnerSource; the extracted archive is outside the model.
ServeSource(q) ==
    /\ q.kind = "source" /\ Deliver(q) /\ job' = job
    /\ \/ OwnedRunning(q)
          /\ Answer(q, Set(q.worker, [Building(q.worker) EXCEPT !.sourced = TRUE]))
       \/ ~OwnedRunning(q) /\ Answer(q, Refused(q.worker, "source"))
    /\ UNCHANGED <<log, acked, faults>>

Confirmed(q) ==
    /\ Answer(q, Returned(q.worker))
    /\ acked' = IF q.late = 0 THEN acked \cup {<<q.attempt, q.body.result>>} ELSE acked

ServeComplete(q) ==
    /\ q.kind = "complete" /\ Deliver(q)
    /\ \/ Records(q) /\ Record(q) /\ Confirmed(q)
       \/ ~Records(q) /\ Confirms(q) /\ job' = job /\ Confirmed(q)
       \/ ~Records(q) /\ ~Confirms(q) /\ UNCHANGED <<job, acked>>
          /\ Answer(q, Refused(q.worker, "complete"))
    /\ UNCHANGED <<log, faults>>

Serve(q) ==
    ServeClaim(q) \/ ServeBeat(q) \/ ServeLog(q) \/ ServeSource(q) \/ ServeComplete(q)

\* An I/O error of the coordinator, a conflict to the worker: it comes before
\* anything is saved, or between the log and the job file, or between the
\* result and the jobs that depend on it.
ServeFails(q) ==
    /\ Fault /\ Deliver(q) /\ q.kind # "claim"
    /\ \/ UNCHANGED <<job, log>>
       \/ /\ q.kind = "log" /\ OwnedRunning(q) /\ OffsetMatches(q)
          /\ log' = Appended(q) /\ job' = job
       \/ q.kind = "complete" /\ Records(q) /\ Record(q) /\ log' = log
    /\ Answer(q, Refused(q.worker, q.kind))
    /\ UNCHANGED acked

\* Claim saves the lease and then fails to read the size of the log, or fails
\* before that: 500 Internal Server Error.
ServeClaimFails(q) ==
    /\ Fault /\ Deliver(q) /\ q.kind = "claim"
    /\ job' = job \/ (Claimable /\ Claim(q))
    /\ Answer(q, Set(q.worker, Idle))
    /\ UNCHANGED <<log, acked>>

-----------------------------------------------------------------------------
(* The runner. *)

Send(w, kind, r) == net' = net \cup {Request(w, kind)} /\ Set(w, r)
Local == UNCHANGED <<job, log, acked, faults>>

SendClaim(w) ==
    /\ work[w].pc = "idle"
    /\ Send(w, "claim", [work[w] EXCEPT !.pc = "claiming"])
    /\ Local

WantsSource(w) == work[w].next = Downloaded /\ ~work[w].sourced
SendLog(w) ==
    /\ work[w].pc = "building" /\ work[w].ctx
    /\ work[w].next <= Chunks /\ ~WantsSource(w)
    /\ Send(w, "log", [work[w] EXCEPT !.pc = "waiting"])
    /\ Local

SendSource(w) ==
    /\ work[w].pc = "building" /\ work[w].ctx /\ WantsSource(w)
    /\ Send(w, "source", [work[w] EXCEPT !.pc = "waiting"])
    /\ Local

\* executor.Run returns: with success only if every write succeeded, with an
\* error at any time after the source was there.
EndBuild(w) ==
    /\ work[w].pc = "building" /\ work[w].ctx
    /\ \/ work[w].next > Chunks /\ ~work[w].doomed /\ Set(w, Built(w, Success))
       \/ work[w].sourced /\ \E e \in Errors : Set(w, Built(w, e))
    /\ UNCHANGED net /\ Local

\* completeWithHeartbeat takes the mutex that a heartbeat holds while it is sent.
SendComplete(w) ==
    /\ work[w].pc = "built" /\ work[w].ctx /\ work[w].beat # "sent"
    /\ Send(w, "complete", [work[w] EXCEPT !.pc = "completing"])
    /\ Local

\* heartbeat, on a tick, unless a completion holds the mutex.
SendBeat(w) ==
    /\ work[w].beat = "ticking" /\ work[w].ctx /\ work[w].pc # "completing"
    /\ Send(w, "beat", [work[w] EXCEPT !.beat = "sent"])
    /\ Local

\* The heartbeat canceled the context: whatever runLease was doing fails, no
\* result is sent, and the worker goes back to claiming.
Stop(w) ==
    /\ work[w].pc \in {"building", "waiting", "built", "completing"} /\ ~work[w].ctx
    /\ Set(w, Idle)
    /\ net' = Abandon(w, Kinds)
    /\ Local

\* A request is not answered in time.
AwaitedKinds(w) ==
    {k \in Kinds : \E q \in net : q.worker = w /\ q.kind = k /\ q.late = 0}
TimeOut(w) ==
    /\ Fault
    /\ \E k \in AwaitedKinds(w) : Unanswered(w, k) /\ net' = Abandon(w, {k})
    /\ UNCHANGED <<job, log, acked>>

\* The runner's process dies and is started again with the same ID.
Crash(w) ==
    /\ Fault /\ work[w] # Idle
    /\ Set(w, Idle) /\ net' = Abandon(w, Kinds)
    /\ UNCHANGED <<job, log, acked>>

-----------------------------------------------------------------------------
(* Time. *)

\* The worker of the lease still renews it.
Renewed == \E w \in Worker :
    work[w].attempt = job.attempt /\ work[w].ctx /\ job.runner = w
Expire == job.lease = "live" /\ job' = [job EXCEPT !.lease = "expired"]
                             /\ UNCHANGED <<log, work, net, acked>>
LeaseRunsOut == ~Renewed /\ Expire /\ NoFault
\* Heartbeats are sent every third of the lease; they may still come too late.
RenewedTooLate == Renewed /\ Expire /\ Fault

ServeKind(w, k) == \E q \in net : q.worker = w /\ q.kind = k /\ q.late = 0 /\ Serve(q)
ServeLate == \E q \in net : q.late # 0 /\ Serve(q)

Next ==
    \/ Cancel \/ LeaseRunsOut \/ RenewedTooLate \/ ServeLate
    \/ \E q \in net : ServeFails(q) \/ ServeClaimFails(q)
    \/ \E w \in Worker :
        \/ \E k \in Kinds : ServeKind(w, k)
        \/ SendClaim(w) \/ SendLog(w) \/ SendSource(w) \/ EndBuild(w)
        \/ SendComplete(w) \/ SendBeat(w) \/ Stop(w) \/ TimeOut(w) \/ Crash(w)

Spec == Init /\ [][Next]_vars

\* Goroutines run, tickers tick, a request that is waited for is served, and a
\* lease that nobody renews runs out.  The mutex that a completion shares with
\* the heartbeats is sync.Mutex, which hands itself over to a starving waiter.  Late requests and users owe nothing, and
\* nothing is assumed of the executor while its context lives.
Protocol ==
    /\ WF_vars(LeaseRunsOut)
    /\ \A w \in Worker :
        /\ \A k \in Kinds : WF_vars(ServeKind(w, k))
        /\ WF_vars(SendClaim(w)) /\ SF_vars(SendComplete(w))
        /\ WF_vars(SendBeat(w)) /\ WF_vars(Stop(w))
ProtocolSpec == Spec /\ Protocol

\* The build's timeout ends every executor; until then it writes its log.
Executor ==
    \A w \in Worker :
        WF_vars(SendLog(w)) /\ WF_vars(SendSource(w)) /\ WF_vars(EndBuild(w))

-----------------------------------------------------------------------------
(* Properties. *)

\* The offsets of remoteLogWriter and the check in Store.appendLog keep the log
\* in order: no chunk is stored twice, none overtakes an earlier one of its
\* attempt, and an attempt writes nothing once a later attempt has written,
\* whatever requests were given up and served late.
LogInOrder ==
    \A i, j \in DOMAIN log : i < j =>
        \/ log[i].attempt < log[j].attempt
        \/ log[i].attempt = log[j].attempt /\ log[i].n < log[j].n

\* A build recorded as succeeded has the complete output of the attempt whose
\* result was recorded in its log, up to the log's limit: a chunk whose fate the
\* runner does not know makes the attempt fail, and a result of an earlier
\* attempt that arrives after the same runner reclaimed the build is still the
\* result of a build with a complete log.
SuccessHasWholeLog ==
    job.status = "succeeded" =>
        \/ Len(log) >= LogLimit
        \/ \A n \in Header .. Chunks : Contains(log, [attempt |-> job.by, n |-> n])

\* A result the coordinator has confirmed to a runner is the one it keeps,
\* unless the build was canceled: retried, late and reclaimed completions never
\* leave a runner believing in a result that is not recorded.
ConfirmedResultStands ==
    \A a \in acked : job.status = "canceled"
                      \/ (job.status \in {"succeeded", "failed"} /\ job.result = a[2])

\* "its remote executor stops when the next lease heartbeat observes the
\* cancellation" (README.md), and likewise when another runner has reclaimed
\* the build: the worker gives up its attempt although the build itself would
\* never end.
Lost(w) == job.status = "canceled" \/ job.runner # w
LostBuildStops ==
    \A w \in Worker : work[w].pc \in {"building", "waiting"} /\ Lost(w)
                       ~> work[w].pc \notin {"building", "waiting"}

\* A queued build ends if its executors do: whatever requests, leases, processes
\* and writes fail on the way (finitely often), it is completed or canceled,
\* never left running for a runner that has forgotten it.
BuildEnds == Executor => (job.status = "queued" ~> terminal)
===============================================================================
