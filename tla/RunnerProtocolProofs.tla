------------------------- MODULE RunnerProtocolProofs -------------------------
(***************************************************************************)
(* What RunnerProtocol promises, for any workers, errors, chunks and log   *)
(* limit, and any number of faults.                                        *)
(*                                                                         *)
(* Requests outlive their senders, so the invariant speaks of every        *)
(* request that may still be served, not only of those somebody waits for: *)
(* a chunk may be written where its sender believes the log ends, because  *)
(* everything up to there comes before it, and a success may be recorded   *)
(* whenever it arrives, because the log that makes it true only grows.     *)
(*                                                                         *)
(* The second part is about the machines of a runner that makes its own:   *)
(* what WarmPool promises.                                                 *)
(***************************************************************************)
EXTENDS RunnerProtocol, WarmPool, FiniteSetTheorems, TLAPS

\* A chunk of the log comes before chunk n of attempt a.
Before(e, a, n) == e.attempt < a \/ (e.attempt = a /\ e.n < n)
\* Whoever sees the log end at offset may write chunk n of attempt a there.
Follows(offset, a, n) ==
    offset <= Len(log) /\ \A i \in DOMAIN log : i <= offset => Before(log[i], a, n)
\* The chunks of attempt a below m are in the log, or the log is full.
Wrote(a, m) ==
    \/ Len(log) >= LogLimit
    \/ \A n \in Header .. (m - 1) : \E i \in DOMAIN log : log[i] = [attempt |-> a, n |-> n]

JobType ==
    [status : {"queued", "running", "canceled", "succeeded", "failed"},
     runner : Worker \cup {NoWorker}, attempt : Nat,
     lease : {"none", "live", "expired"}, result : Results, by : Nat]
ChunkType == [attempt : Nat, n : Nat]
WorkType ==
    [pc : {"idle", "claiming", "building", "waiting", "built", "completing"},
     attempt : Nat, offset : Nat, next : Banner .. (Chunks + 1),
     sourced : BOOLEAN, doomed : BOOLEAN, result : Results,
     ctx : BOOLEAN, beat : {"ticking", "sent", "done"}]
RequestType ==
    [kind : Kinds, worker : Worker, attempt : Nat, late : Nat,
     body : [offset : Nat, n : Banner .. (Chunks + 1), result : Results]]

\* What the coordinator has on disk.
ServerOK ==
    /\ job \in JobType
    /\ log \in Seq(ChunkType)
    /\ \A i \in DOMAIN log : log[i].attempt <= job.attempt
    /\ LogInOrder
    /\ job.status = "succeeded" => Wrote(job.by, Chunks + 1)
    /\ ConfirmedResultStands

\* What a worker in state r may do next is in order.
WorkOK(r) ==
    /\ r \in WorkType
    /\ r.attempt <= job.attempt
    /\ r.pc \in {"building", "waiting"} =>
           /\ Follows(r.offset, r.attempt, r.next)
           /\ ~r.doomed => Wrote(r.attempt, r.next)
    /\ r.pc \in {"built", "completing"} /\ r.result = Success => Wrote(r.attempt, Chunks + 1)
    /\ r.pc \in {"idle", "claiming"} => r.beat = "done"
    /\ r.pc = "completing" => r.beat # "sent"

\* Whatever a request asks for is still in order whenever it is served.
RequestOK(q) ==
    /\ q \in RequestType
    /\ q.attempt <= job.attempt
    /\ q.kind = "log" => q.body.n <= Chunks /\ Follows(q.body.offset, q.attempt, q.body.n)
    /\ q.kind = "complete" /\ q.body.result = Success => Wrote(q.attempt, Chunks + 1)

\* A worker in state r waits for q.
Expects(r, q) ==
    /\ q.kind = "claim" => r.pc = "claiming"
    /\ q.kind = "log" =>
           /\ r.pc = "waiting" /\ r.attempt = q.attempt
           /\ r.offset = q.body.offset /\ r.next = q.body.n
    /\ q.kind = "source" => r.pc = "waiting"
    /\ q.kind = "complete" => r.pc = "completing"
    /\ q.kind = "beat" => r.beat = "sent"

IsBeat(q) == q.kind = "beat"
\* runLease and heartbeat wait for one request each.
NetOK ==
    /\ \A q \in net : RequestOK(q)
    /\ \A q \in net : q.late = 0 => Expects(work[q.worker], q)
    /\ \A q, p \in net :
          q.late = 0 /\ p.late = 0 /\ q.worker = p.worker /\ (IsBeat(q) <=> IsBeat(p)) => q = p

IInv ==
    /\ ServerOK /\ NetOK /\ faults \in Nat
    /\ DOMAIN work = Worker /\ \A w \in Worker : WorkOK(work[w])

-----------------------------------------------------------------------------
(* The log only grows. *)

Grows ==
    /\ log \in Seq(ChunkType)
    /\ log' = log \/ \E e \in ChunkType : log' = Append(log, e)
    /\ job.attempt \in Nat /\ job'.attempt \in Nat /\ job.attempt <= job'.attempt

LEMMA LogKept ==
  ASSUME Grows
  PROVE  /\ log' \in Seq(ChunkType)
         /\ Len(log) \in Nat /\ Len(log') \in Nat /\ Len(log) <= Len(log')
         /\ \A i \in DOMAIN log : i \in DOMAIN log' /\ log'[i] = log[i]
         /\ \A i \in DOMAIN log' : i \in Nat /\ (i <= Len(log) => i \in DOMAIN log)
  <1>1. CASE log' = log
    BY <1>1 DEF Grows
  <1>2. ASSUME NEW e \in ChunkType, log' = Append(log, e)
        PROVE  /\ log' \in Seq(ChunkType)
               /\ Len(log) \in Nat /\ Len(log') \in Nat /\ Len(log) <= Len(log')
               /\ \A i \in DOMAIN log : i \in DOMAIN log' /\ log'[i] = log[i]
               /\ \A i \in DOMAIN log' : i \in Nat /\ (i <= Len(log) => i \in DOMAIN log)
    BY <1>2 DEF Grows
  <1> QED
    BY <1>1, <1>2 DEF Grows

LEMMA FollowsKept ==
  ASSUME Grows, NEW o \in Nat, NEW a, NEW n, Follows(o, a, n)
  PROVE  Follows(o, a, n)'
  <1>1. o <= Len(log')
    BY LogKept DEF Follows
  <1>2. ASSUME NEW i \in DOMAIN log', i <= o
        PROVE  Before(log'[i], a, n)
    <2>1. i \in DOMAIN log /\ log'[i] = log[i]
      BY <1>2, LogKept DEF Follows
    <2> QED
      BY <2>1, <1>2 DEF Follows
  <1> QED
    BY <1>1, <1>2 DEF Follows, Before

LEMMA WroteKept ==
  ASSUME Grows, NEW a, NEW m, Wrote(a, m)
  PROVE  Wrote(a, m)'
  <1>1. LogLimit \in Nat
    BY ProtocolAssumption
  <1>2. CASE Len(log) >= LogLimit
    BY <1>1, <1>2, LogKept DEF Wrote
  <1>3. ASSUME NEW n \in Header .. (m - 1), NEW i \in DOMAIN log,
               log[i] = [attempt |-> a, n |-> n]
        PROVE  \E j \in DOMAIN log' : log'[j] = [attempt |-> a, n |-> n]
    BY <1>3, LogKept
  <1> QED
    BY <1>2, <1>3 DEF Wrote

LEMMA WorkKept ==
  ASSUME Grows, NEW r, WorkOK(r)
  PROVE  WorkOK(r)'
  <1>1. r.attempt \in Nat /\ r.offset \in Nat
    BY DEF WorkOK, WorkType
  <1>2. r.attempt <= job'.attempt
    BY <1>1 DEF WorkOK, Grows
  <1> QED
    BY <1>1, <1>2, FollowsKept, WroteKept DEF WorkOK

LEMMA RequestKept ==
  ASSUME Grows, NEW q, RequestOK(q)
  PROVE  RequestOK(q)'
  <1>1. q.attempt \in Nat /\ q.body.offset \in Nat
    BY DEF RequestOK, RequestType
  <1>2. q.attempt <= job'.attempt
    BY <1>1 DEF RequestOK, Grows
  <1> QED
    BY <1>1, <1>2, FollowsKept, WroteKept DEF RequestOK


-----------------------------------------------------------------------------
(* What the coordinator does to its files. *)

LEMMA ServerIdle ==
  ASSUME ServerOK, UNCHANGED <<job, log, acked>>
  PROVE  ServerOK' /\ Grows
  <1>1. Grows
    BY DEF ServerOK, JobType, Grows
  <1>2. LogInOrder' /\ ConfirmedResultStands'
    BY DEF ServerOK, LogInOrder, ConfirmedResultStands
  <1>3. job.status = "succeeded" => Wrote(job.by, Chunks + 1)'
    BY DEF ServerOK, Wrote
  <1> QED
    BY <1>1, <1>2, <1>3 DEF ServerOK

\* A running or queued build has confirmed nothing.
LEMMA NothingConfirmed ==
  ASSUME ServerOK, job.status \in {"queued", "running"}
  PROVE  acked = {}
  BY DEF ServerOK, ConfirmedResultStands

\* A new lease, a renewed or expired one, and a cancellation.
LEMMA ServerKeepsLog ==
  ASSUME ServerOK, log' = log, acked' = acked, job' \in JobType,
         job.attempt <= job'.attempt,
         \/ job'.status = job.status /\ job'.by = job.by /\ job'.result = job.result
         \/ /\ job.status \in {"queued", "running"}
            /\ job'.status \in {"queued", "running", "canceled"}
  PROVE  ServerOK' /\ Grows
  <1>1. Grows
    BY DEF ServerOK, JobType, Grows
  <1>2. LogInOrder'
    BY DEF ServerOK, LogInOrder
  <1>3. ConfirmedResultStands'
    <2>1. CASE job'.status = job.status /\ job'.by = job.by /\ job'.result = job.result
      BY <2>1 DEF ServerOK, ConfirmedResultStands
    <2>2. CASE job.status \in {"queued", "running"}
      BY <2>2, NothingConfirmed DEF ConfirmedResultStands
    <2> QED
      BY <2>1, <2>2
  <1>4. job'.status = "succeeded" => Wrote(job.by, Chunks + 1)'
    <2> SUFFICES ASSUME job'.status = "succeeded"
                 PROVE  Wrote(job.by, Chunks + 1)'
      OBVIOUS
    <2>1. job.status = "succeeded" /\ job'.by = job.by
      OBVIOUS
    <2> QED
      BY <2>1 DEF ServerOK, Wrote
  <1>5. \A i \in DOMAIN log' : log'[i].attempt <= job'.attempt
    <2>1. \A i \in DOMAIN log : log[i] \in ChunkType
      BY DEF ServerOK
    <2> QED
      BY <2>1 DEF ServerOK, JobType, ChunkType
  <1> QED
    BY <1>1, <1>2, <1>3, <1>4, <1>5 DEF ServerOK

LEMMA ClaimServed ==
  ASSUME ServerOK, NEW q \in RequestType, Claimable, Claim(q), log' = log, acked' = acked
  PROVE  /\ ServerOK' /\ Grows
         /\ job'.attempt = job.attempt + 1
  <1>0. q.worker \in Worker /\ job \in JobType /\ job.attempt + 1 \in Nat
    BY DEF ServerOK, JobType, RequestType
  <1>1. job' \in JobType /\ job'.attempt = job.attempt + 1 /\ job'.status = "running"
    BY <1>0 DEF JobType, Claim
  <1>2. job.attempt <= job'.attempt /\ job.status \in {"queued", "running"}
    BY <1>1 DEF ServerOK, JobType, Claimable
  <1> QED
    BY <1>1, <1>2, ServerKeepsLog

LEMMA ExtendServed ==
  ASSUME ServerOK, Extend, log' = log, acked' = acked
  PROVE  ServerOK' /\ Grows
  <1>1. /\ job' \in JobType /\ job'.attempt = job.attempt /\ job'.status = job.status
        /\ job'.by = job.by /\ job'.result = job.result /\ job.attempt <= job'.attempt
    BY DEF ServerOK, JobType, Extend
  <1> QED
    BY <1>1, ServerKeepsLog

LEMMA ExpireServed ==
  ASSUME ServerOK, Expire
  PROVE  ServerOK' /\ Grows
  <1>1. /\ job' \in JobType /\ job'.attempt = job.attempt /\ job'.status = job.status
        /\ job'.by = job.by /\ job'.result = job.result /\ job.attempt <= job'.attempt
    BY DEF ServerOK, JobType, Expire
  <1>2. log' = log /\ acked' = acked
    BY DEF Expire
  <1> QED
    BY <1>1, <1>2, ServerKeepsLog

LEMMA CancelServed ==
  ASSUME ServerOK, Cancel
  PROVE  ServerOK' /\ Grows
  <1>1. job' \in JobType /\ job'.attempt = job.attempt /\ job'.status = "canceled"
    BY DEF ServerOK, JobType, Cancel
  <1>2. job.attempt <= job'.attempt /\ job.status \in {"queued", "running"}
    BY <1>1 DEF ServerOK, JobType, Cancel, terminal
  <1>3. log' = log /\ acked' = acked
    BY DEF Cancel
  <1> QED
    BY <1>1, <1>2, <1>3, ServerKeepsLog

\* A chunk at the end its writer knows: after everything that it follows.
LEMMA LogServed ==
  ASSUME ServerOK, NEW q, RequestOK(q), q.kind = "log", OffsetMatches(q), log' = Appended(q),
         acked' = acked, job.status = "running",
         Extend \/ job' = job
  PROVE  ServerOK' /\ Grows
  <1>1. /\ job' \in JobType /\ job'.attempt = job.attempt /\ job'.status = job.status
        /\ job'.by = job.by /\ job'.result = job.result /\ job.attempt <= job'.attempt
    BY DEF ServerOK, JobType, Extend
  <1>2. CASE Len(log) >= LogLimit
    <2>1. log' = log
      BY <1>2 DEF Appended
    <2> QED
      BY <1>1, <2>1, ServerKeepsLog
  <1>3. CASE ~(Len(log) >= LogLimit)
    <2> DEFINE e == [attempt |-> q.attempt, n |-> q.body.n]
    <2>1. log' = Append(log, e)
      BY <1>3 DEF Appended
    <2>2. e \in ChunkType /\ e.attempt = q.attempt /\ e.n = q.body.n
      BY ProtocolAssumption DEF RequestOK, RequestType, ChunkType, Banner
    <2>3. q.attempt <= job.attempt /\ Follows(Len(log), q.attempt, q.body.n)
      BY DEF RequestOK, OffsetMatches
    <2> HIDE DEF e
    <2>4. Grows
      BY <1>1, <2>1, <2>2 DEF ServerOK, JobType, Grows
    <2>5. /\ log \in Seq(ChunkType) /\ log' \in Seq(ChunkType)
          /\ DOMAIN log = 1 .. Len(log) /\ DOMAIN log' = 1 .. Len(log) + 1
          /\ Len(log) \in Nat
          /\ \A i \in 1 .. Len(log) : log'[i] = log[i]
          /\ log'[Len(log) + 1] = e
      BY <2>1, <2>2 DEF ServerOK
    <2>6. \A i \in DOMAIN log' : log'[i].attempt <= job'.attempt
      BY <1>1, <2>2, <2>3, <2>5 DEF ServerOK
    <2>7. LogInOrder'
      <3> SUFFICES ASSUME NEW i \in DOMAIN log', NEW j \in DOMAIN log', i < j
                   PROVE  \/ log'[i].attempt < log'[j].attempt
                          \/ log'[i].attempt = log'[j].attempt /\ log'[i].n < log'[j].n
        BY DEF LogInOrder
      <3>1. CASE j \in 1 .. Len(log)
        BY <3>1, <2>5 DEF ServerOK, LogInOrder
      <3>2. CASE j = Len(log) + 1
        <4>1. i \in 1 .. Len(log)
          BY <3>2, <2>5
        <4>2. Before(log[i], q.attempt, q.body.n)
          BY <4>1, <2>3, <2>5 DEF Follows
        <4> QED
          BY <4>1, <4>2, <3>2, <2>2, <2>5 DEF Before
      <3> QED
        BY <3>1, <3>2, <2>5
    <2>8. ConfirmedResultStands'
      BY NothingConfirmed DEF ConfirmedResultStands
    <2> QED
      BY <1>1, <2>4, <2>5, <2>6, <2>7, <2>8 DEF ServerOK
  <1> QED
    BY <1>2, <1>3

\* The first result of a running build.
LEMMA ResultServed ==
  ASSUME ServerOK, NEW q, RequestOK(q), q.kind = "complete", Records(q), Record(q), log' = log,
         acked' = acked \/ acked' = acked \cup {<<q.attempt, q.body.result>>}
  PROVE  ServerOK' /\ Grows
  <1>0. q \in RequestType /\ q.body.result \in Results /\ q.attempt \in Nat
    BY DEF RequestOK, RequestType
  <1>1. /\ job' \in JobType /\ job'.attempt = job.attempt
        /\ job'.status = IF q.body.result = Success THEN "succeeded" ELSE "failed"
        /\ job'.by = q.attempt /\ job'.result = q.body.result
    BY <1>0 DEF ServerOK, JobType, Record
  <1>2. Grows
    BY <1>1 DEF ServerOK, JobType, Grows
  <1>3. LogInOrder'
    BY DEF ServerOK, LogInOrder
  <1>4. acked = {}
    BY NothingConfirmed DEF Records, OwnedRunning
  <1>5. ConfirmedResultStands'
    BY <1>1, <1>4 DEF ConfirmedResultStands
  <1>6. job'.status = "succeeded" => Wrote(q.attempt, Chunks + 1)'
    BY <1>1, <1>2, WroteKept DEF RequestOK
  <1>7. \A i \in DOMAIN log' : log'[i].attempt <= job'.attempt
    BY <1>1 DEF ServerOK
  <1>8. job'.status = "succeeded" => Wrote(job.by, Chunks + 1)'
    BY <1>1, <1>6 DEF Wrote
  <1> QED
    BY <1>1, <1>2, <1>3, <1>5, <1>7, <1>8 DEF ServerOK

\* A result that is there already.
LEMMA RepeatServed ==
  ASSUME ServerOK, NEW q, Confirms(q), UNCHANGED <<job, log>>,
         acked' = acked \/ acked' = acked \cup {<<q.attempt, q.body.result>>}
  PROVE  ServerOK' /\ Grows
  <1>1. Grows
    BY DEF ServerOK, JobType, Grows
  <1>2. LogInOrder'
    BY DEF ServerOK, LogInOrder
  <1>3. ConfirmedResultStands'
    BY DEF ServerOK, ConfirmedResultStands, Confirms
  <1>4. job.status = "succeeded" => Wrote(job.by, Chunks + 1)'
    BY DEF ServerOK, Wrote
  <1> QED
    BY <1>1, <1>2, <1>3, <1>4 DEF ServerOK

-----------------------------------------------------------------------------
(* What an answer, or its absence, does to a worker. *)

\* Nobody learns of what the coordinator did, or nothing was sent.
LEMMA NobodyTold ==
  ASSUME IInv, ServerOK', Grows, faults' \in Nat, work' = work, net' \subseteq net
  PROVE  IInv'
  <1>1. \A w \in Worker : WorkOK(work[w])'
    <2> SUFFICES ASSUME NEW w \in Worker
                 PROVE  WorkOK(work[w])'
      OBVIOUS
    <2>1. PICK r : r = work[w]
      OBVIOUS
    <2>2. WorkOK(r)'
      BY <2>1, WorkKept DEF IInv
    <2> QED
      BY <2>1, <2>2 DEF WorkOK, Follows, Before, Wrote
  <1>2. ASSUME NEW q \in net'
        PROVE  RequestOK(q)'
    BY RequestKept DEF IInv, NetOK
  <1>3. NetOK'
    BY <1>2 DEF IInv, NetOK, Expects, IsBeat
  <1> QED
    BY <1>1, <1>3 DEF IInv

\* How worker w may go on as r once its request, a heartbeat or not, is over: the
\* other goroutine's request is still expected.
Fits(w, beat, r) ==
    /\ ~beat /\ work[w].beat = "sent" => r.beat = "sent"
    /\ beat => /\ r.pc = work[w].pc /\ r.attempt = work[w].attempt
               /\ r.offset = work[w].offset /\ r.next = work[w].next

LEMMA OthersKept ==
  ASSUME IInv, ServerOK', Grows, NEW w \in Worker, NEW r, WorkOK(r)', Set(w, r)
  PROVE  /\ DOMAIN work' = Worker
         /\ work'[w] = r
         /\ \A v \in Worker : v # w => work'[v] = work[v]
         /\ \A v \in Worker : WorkOK(work[v])'
  <1>1. /\ DOMAIN work' = Worker
        /\ work'[w] = r
        /\ \A v \in Worker : v # w => work'[v] = work[v]
    BY DEF IInv, Set
  <1>2. ASSUME NEW v \in Worker
        PROVE  WorkOK(work[v])'
    <2>1. PICK x : x = work'[v]
      OBVIOUS
    <2>2. WorkOK(x)'
      <3>1. CASE v = w
        BY <3>1, <2>1, <1>1
      <3>2. CASE v # w
        BY <3>2, <2>1, <1>1, WorkKept DEF IInv
      <3> QED
        BY <3>1, <3>2
    <2> QED
      BY <2>1, <2>2 DEF WorkOK, Follows, Before, Wrote
  <1> QED
    BY <1>1, <1>2

\* A request that w expects is over; it may stay behind as a late one.
LEMMA AnswerKeeps ==
  ASSUME IInv, ServerOK', Grows, faults' \in Nat,
         NEW q \in net, q.late = 0, NEW r, WorkOK(r)', Set(q.worker, r),
         Fits(q.worker, IsBeat(q), r),
         \A p \in net' : \/ p \in net \ {q}
                         \/ p.late # 0 /\ RequestOK(p)'
  PROVE  IInv'
  <1>0. q.worker \in Worker
    BY DEF IInv, NetOK, RequestOK, RequestType
  <1>1. /\ DOMAIN work' = Worker
        /\ work'[q.worker] = r
        /\ \A v \in Worker : v # q.worker => work'[v] = work[v]
        /\ \A v \in Worker : WorkOK(work[v])'
    BY <1>0, OthersKept
  <1>2. ASSUME NEW p \in net'
        PROVE  RequestOK(p)'
    BY RequestKept DEF IInv, NetOK
  <1>3. ASSUME NEW p \in net', p.late = 0
        PROVE  Expects(work'[p.worker], p)
    <2>1. p \in net /\ p # q
      BY <1>3
    <2>2. Expects(work[p.worker], p) /\ p.worker \in Worker
      BY <2>1, <1>3 DEF IInv, NetOK, RequestOK, RequestType
    <2>3. CASE p.worker # q.worker
      BY <2>2, <2>3, <1>1
    <2>4. CASE p.worker = q.worker
      <3>1. ~(IsBeat(p) <=> IsBeat(q))
        BY <2>1, <2>4, <1>3 DEF IInv, NetOK
      <3> QED
        BY <3>1, <2>2, <2>4, <1>1 DEF Expects, Fits, IsBeat
    <2> QED
      BY <2>3, <2>4
  <1>4. ASSUME NEW p1 \in net', NEW p2 \in net', p1.late = 0, p2.late = 0,
               p1.worker = p2.worker, IsBeat(p1) <=> IsBeat(p2)
        PROVE  p1 = p2
    BY <1>4 DEF IInv, NetOK
  <1>5. NetOK'
    BY <1>2, <1>3, <1>4 DEF NetOK, Expects, IsBeat
  <1> QED
    BY <1>1, <1>5 DEF IInv

\* A request that was given up is as good as it was.
LEMMA LateOK ==
  ASSUME IInv, Grows, NEW q \in net, NEW f \in Nat, f # 0
  PROVE  LET p == [q EXCEPT !.late = f]
         IN  p.late # 0 /\ RequestOK(p)'
  <1> DEFINE p == [q EXCEPT !.late = f]
  <1>1. RequestOK(q)'
    BY RequestKept DEF IInv, NetOK
  <1>2. q \in RequestType
    BY DEF IInv, NetOK, RequestOK
  <1>3. /\ p \in RequestType /\ p.late = f /\ p.kind = q.kind
        /\ p.attempt = q.attempt /\ p.body = q.body
    BY <1>2 DEF RequestType
  <1> HIDE DEF p
  <1>4. RequestOK(p)'
    BY <1>1, <1>3 DEF RequestOK
  <1> QED
    BY <1>3, <1>4 DEF p

-----------------------------------------------------------------------------
(* What the worker makes of an answer. *)

LEMMA IdleOK ==
  ASSUME ServerOK
  PROVE  WorkOK(Idle)
  <1>1. Idle \in WorkType
    BY ProtocolAssumption DEF Idle, WorkType, Results, Header, Banner, Downloaded
  <1>2. /\ Idle.pc = "idle" /\ Idle.attempt = 0 /\ Idle.beat = "done"
    BY DEF Idle
  <1> QED
    BY <1>1, <1>2 DEF WorkOK, ServerOK, JobType

LEMMA BuiltOK ==
  ASSUME ServerOK, NEW w, WorkOK(work[w]), NEW e \in Errors
  PROVE  WorkOK(Built(w, e)) /\ Built(w, e).beat = work[w].beat
  <1> DEFINE r == Built(w, e)
  <1>1. work[w].attempt \in Nat /\ work[w].beat \in {"ticking", "sent", "done"}
    BY DEF WorkOK, WorkType
  <1>2. Idle \in WorkType
    BY IdleOK DEF WorkOK
  <1>3. e \in Results /\ e # Success
    BY ProtocolAssumption DEF Results
  <1>4. /\ r \in WorkType /\ r.pc = "built" /\ r.result = e
        /\ r.attempt = work[w].attempt /\ r.beat = work[w].beat
    BY <1>1, <1>2, <1>3 DEF Built, WorkType
  <1> HIDE DEF r
  <1>5. WorkOK(r)
    BY <1>3, <1>4 DEF WorkOK
  <1> QED
    BY <1>4, <1>5 DEF r

LEMMA FollowsNext ==
  ASSUME log \in Seq(ChunkType), NEW o, NEW a, NEW n \in Nat, Follows(o, a, n)
  PROVE  Follows(o, a, n + 1)
  <1>1. ASSUME NEW i \in DOMAIN log
        PROVE  log[i].n \in Nat
    <2>1. log[i] \in ChunkType
      OBVIOUS
    <2> QED
      BY <2>1 DEF ChunkType
  <1> QED
    BY <1>1 DEF Follows, Before

\* The worker goes on without knowing what became of its chunk.
LEMMA SkippedOK ==
  ASSUME ServerOK, NEW x, WorkOK(x), x.pc = "waiting", x.next <= Chunks,
         NEW r \in WorkType, r.pc = "building", r.attempt = x.attempt, r.offset = x.offset,
         r.next = x.next + 1, x.next = Banner \/ r.doomed
  PROVE  WorkOK(r)
  <1>1. x.next \in Nat /\ r.doomed \in BOOLEAN
    BY ProtocolAssumption DEF WorkOK, WorkType, Banner
  <1>2. Follows(x.offset, x.attempt, x.next + 1)
    BY <1>1, FollowsNext DEF WorkOK, ServerOK
  <1>3. x.next = Banner => Wrote(x.attempt, x.next + 1)
    BY DEF Wrote, Banner, Header
  <1> QED
    BY <1>1, <1>2, <1>3 DEF WorkOK

\* However a request ends without its effect being known, its worker goes on.
LEMMA Unserved ==
  ASSUME IInv, NEW q \in net, q.late = 0,
         Unanswered(q.worker, q.kind) \/ Refused(q.worker, q.kind)
  PROVE  \E r : Set(q.worker, r) /\ WorkOK(r) /\ Fits(q.worker, IsBeat(q), r)
  <1> DEFINE w == q.worker
             x == work[w]
  <1>0. w \in Worker /\ q.kind \in Kinds
    BY DEF IInv, NetOK, RequestOK, RequestType
  <1>1. ServerOK /\ WorkOK(x) /\ Expects(x, q) /\ RequestOK(q)
    BY <1>0 DEF IInv, NetOK
  <1>2. x \in WorkType
    BY <1>1 DEF WorkOK
  <1>3. CASE q.kind = "claim"
    <2>1. Set(w, Idle)
      BY <1>3 DEF Unanswered, Refused
    <2>2. x.beat = "done"
      BY <1>1, <1>3 DEF Expects, WorkOK
    <2> QED
      BY <2>1, <2>2, <1>1, <1>3, IdleOK DEF Fits, IsBeat
  <1>4. ASSUME NEW e \in Errors, Set(w, Built(w, e)), ~IsBeat(q)
        PROVE  \E r : Set(w, r) /\ WorkOK(r) /\ Fits(w, IsBeat(q), r)
    <2>1. WorkOK(Built(w, e)) /\ Built(w, e).beat = x.beat
      BY <1>1, BuiltOK
    <2> QED
      BY <2>1, <1>4 DEF Fits
  <1>5. CASE q.kind = "log"
    <2>1. NotWritten(w)
      BY <1>5 DEF Unanswered, Refused
    <2>2. x.pc = "waiting" /\ x.next <= Chunks /\ x.next \in Banner .. (Chunks + 1)
      BY <1>1, <1>2, <1>5 DEF Expects, RequestOK, WorkType
    <2>3. Chunks \in Nat /\ x.next + 1 \in Banner .. (Chunks + 1)
      BY <2>2, ProtocolAssumption DEF Banner
    <2>4. CASE x.next = Banner
      <3> DEFINE r == [x EXCEPT !.pc = "building", !.next = @ + 1]
      <3>1. x.next \notin {Header, Downloaded}
        BY <2>4 DEF Banner, Header, Downloaded
      <3>2. Set(w, [Building(w) EXCEPT !.next = @ + 1])
        BY <2>1, <2>4, <3>1 DEF NotWritten
      <3>3. Set(w, r)
        BY <3>2, <1>2 DEF Building, Set, WorkType
      <3>4. /\ r \in WorkType /\ r.pc = "building" /\ r.attempt = x.attempt
            /\ r.offset = x.offset /\ r.next = x.next + 1 /\ r.beat = x.beat
        BY <1>2, <2>3 DEF WorkType
      <3> HIDE DEF r
      <3>5. WorkOK(r)
        BY <3>4, <2>2, <2>4, <1>1, SkippedOK
      <3> QED
        BY <3>3, <3>4, <3>5, <1>5 DEF Fits, IsBeat
    <2>5. CASE x.next \in {Header, Downloaded}
      <3>1. PICK e \in Errors : Set(w, Built(w, e))
        BY <2>1, <2>5 DEF NotWritten, Banner, Header, Downloaded
      <3> QED
        BY <3>1, <1>4, <1>5 DEF IsBeat
    <2>6. CASE x.next # Banner /\ x.next \notin {Header, Downloaded}
      <3> DEFINE r == [x EXCEPT !.pc = "building", !.next = @ + 1, !.doomed = TRUE]
      <3>1. Set(w, r)
        BY <2>1, <2>6, <1>2 DEF NotWritten, Building, Set, WorkType
      <3>2. /\ r \in WorkType /\ r.pc = "building" /\ r.attempt = x.attempt
            /\ r.offset = x.offset /\ r.next = x.next + 1 /\ r.beat = x.beat /\ r.doomed
        BY <1>2, <2>3 DEF WorkType
      <3> HIDE DEF r
      <3>3. WorkOK(r)
        BY <3>2, <2>2, <1>1, SkippedOK
      <3> QED
        BY <3>1, <3>2, <3>3, <1>5 DEF Fits, IsBeat
    <2> QED
      BY <2>4, <2>5, <2>6
  <1>6. CASE q.kind = "source"
    <2>1. PICK e \in Errors : Set(w, Built(w, e))
      BY <1>6 DEF Unanswered, Refused
    <2> QED
      BY <2>1, <1>4, <1>6 DEF IsBeat
  <1>7. CASE q.kind = "complete"
    <2>0. x.pc = "completing" /\ x.beat # "sent"
      BY <1>1, <1>7 DEF Expects, WorkOK
    <2>1. CASE Set(w, Idle)
      BY <2>0, <2>1, <1>1, <1>7, IdleOK DEF Fits, IsBeat
    <2>2. CASE Set(w, [x EXCEPT !.pc = "built"])
      <3> DEFINE r == [x EXCEPT !.pc = "built"]
      <3>1. /\ r \in WorkType /\ r.pc = "built" /\ r.attempt = x.attempt
            /\ r.result = x.result /\ r.beat = x.beat
        BY <1>2 DEF WorkType
      <3> HIDE DEF r
      <3>2. WorkOK(r)
        BY <3>1, <2>0, <1>1 DEF WorkOK
      <3> QED
        BY <3>1, <3>2, <2>2, <1>7 DEF Fits, IsBeat, r
    <2> QED
      BY <2>1, <2>2, <1>7 DEF Unanswered, Refused, Returned
  <1>8. CASE q.kind = "beat"
    <2> DEFINE r == [x EXCEPT !.ctx = FALSE, !.beat = "done"]
    <2>1. Set(w, r)
      BY <1>8 DEF Unanswered, Refused
    <2>2. /\ r \in WorkType /\ r.pc = x.pc /\ r.attempt = x.attempt /\ r.offset = x.offset
          /\ r.next = x.next /\ r.doomed = x.doomed /\ r.result = x.result /\ r.beat = "done"
      BY <1>2 DEF WorkType
    <2> HIDE DEF r
    <2>3. WorkOK(r)
      BY <2>2, <1>1 DEF WorkOK
    <2> QED
      BY <2>1, <2>2, <2>3, <1>8 DEF Fits, IsBeat
  <1> QED
    BY <1>0, <1>3, <1>5, <1>6, <1>7, <1>8 DEF Kinds

\* The answer to a chunk: the log ends where the worker now believes it does.
LEMMA WrittenOK ==
  ASSUME IInv, ServerOK', Grows, NEW q \in net, q.late = 0, q.kind = "log",
         OffsetMatches(q), log' = Appended(q), NEW r,
         r = [Building(q.worker) EXCEPT !.offset = Len(log'), !.next = @ + 1]
  PROVE  WorkOK(r)' /\ Fits(q.worker, FALSE, r)
  <1> DEFINE w == q.worker
  <1>0. PICK x : x = work[w]
    OBVIOUS
  <1>1. w \in Worker /\ RequestOK(q) /\ Expects(x, q) /\ WorkOK(x)
    BY <1>0 DEF IInv, NetOK, RequestOK, RequestType
  <1>2. /\ x \in WorkType /\ q \in RequestType /\ x.pc = "waiting" /\ x.attempt = q.attempt
        /\ x.offset = q.body.offset /\ x.next = q.body.n /\ q.body.n <= Chunks
        /\ Follows(Len(log), q.attempt, q.body.n)
    BY <1>1 DEF RequestOK, Expects, WorkOK, OffsetMatches
  <1>3. /\ x.next \in Nat /\ Chunks \in Nat /\ x.next + 1 \in Banner .. (Chunks + 1)
        /\ Len(log') \in Nat /\ Len(log) \in Nat /\ q.attempt \in Nat /\ LogLimit \in Nat
    BY <1>2, ProtocolAssumption, LogKept DEF WorkType, RequestType, Banner
  <1>4. /\ r \in WorkType /\ r.pc = "building" /\ r.attempt = q.attempt
        /\ r.offset = Len(log') /\ r.next = q.body.n + 1 /\ r.beat = x.beat
        /\ r.doomed = x.doomed
    BY <1>0, <1>2, <1>3 DEF WorkType, Building
  <1> DEFINE e == [attempt |-> q.attempt, n |-> q.body.n]
  <1>5. \/ Len(log) >= LogLimit /\ log' = log
        \/ log' = Append(log, e)
    BY DEF Appended
  <1>6. e \in ChunkType /\ e.attempt = q.attempt /\ e.n = q.body.n
    BY <1>2, <1>3 DEF ChunkType
  <1>7. Follows(Len(log), q.attempt, q.body.n + 1)
    BY <1>2, <1>3, FollowsNext DEF IInv, ServerOK
  <1>8. Follows(r.offset, r.attempt, r.next)'
    <2>1. CASE log' = log
      BY <2>1, <1>3, <1>4, <1>7 DEF Follows, Before
    <2>2. CASE log' = Append(log, e)
      <3> HIDE DEF e
      <3>1. /\ DOMAIN log = 1 .. Len(log) /\ DOMAIN log' = 1 .. Len(log) + 1
            /\ \A i \in 1 .. Len(log) : log'[i] = log[i]
            /\ log'[Len(log) + 1] = e
        BY <2>2, <1>6 DEF IInv, ServerOK
      <3>2. ASSUME NEW i \in DOMAIN log'
            PROVE  Before(log'[i], q.attempt, q.body.n + 1)
        <4>1. CASE i = Len(log) + 1
          BY <4>1, <3>1, <1>2, <1>3, <1>6 DEF Before
        <4>2. CASE i \in 1 .. Len(log)
          BY <4>2, <3>1, <1>3, <1>7 DEF Follows
        <4> QED
          BY <4>1, <4>2, <3>1, <1>3
      <3> QED
        BY <3>2, <1>3, <1>4 DEF Follows, Before
    <2> QED
      BY <1>5, <2>1, <2>2
  <1>9. ASSUME ~r.doomed
        PROVE  Wrote(r.attempt, r.next)'
    <2>1. Wrote(q.attempt, q.body.n)'
      <3>1. Wrote(q.attempt, q.body.n)
        BY <1>1, <1>2, <1>4, <1>9 DEF WorkOK
      <3> QED
        BY <3>1, WroteKept
    <2>2. CASE Len(log') >= LogLimit
      BY <2>2 DEF Wrote
    <2>3. CASE ~(Len(log') >= LogLimit)
      <3>1. log' = Append(log, e)
        BY <2>3, <1>5
      <3>2. Len(log) + 1 \in DOMAIN log' /\ log'[Len(log) + 1] = e
        BY <3>1, <1>6 DEF IInv, ServerOK
      <3>3. ASSUME NEW n \in Header .. q.body.n
            PROVE  \E i \in DOMAIN log' : log'[i] = [attempt |-> q.attempt, n |-> n]
        <4>1. CASE n = q.body.n
          BY <4>1, <3>2
        <4>2. CASE n # q.body.n
          <5>1. n \in Header .. (q.body.n - 1)
            BY <4>2, <1>2, <1>3 DEF Header
          <5> QED
            BY <5>1, <2>1, <2>3 DEF Wrote
        <4> QED
          BY <4>1, <4>2
      <3>4. r.next - 1 = q.body.n
        BY <1>2, <1>3, <1>4
      <3> QED
        BY <3>3, <3>4, <1>4 DEF Wrote
    <2> QED
      BY <2>2, <2>3
  <1>10. WorkOK(r)'
    <2>1. q.attempt <= job'.attempt
      BY <1>1, <1>3 DEF RequestOK, Grows
    <2> QED
      BY <2>1, <1>4, <1>8, <1>9 DEF WorkOK
  <1> QED
    BY <1>0, <1>4, <1>10 DEF Fits

\* The lease: the next attempt writes behind everything there is.
LEMMA LeasedOK ==
  ASSUME IInv, ServerOK', Grows, job'.attempt = job.attempt + 1, log' = log,
         NEW r, r = [Idle EXCEPT !.pc = "building", !.attempt = job.attempt + 1,
                        !.offset = Len(log), !.ctx = TRUE, !.beat = "ticking",
                        !.next = IF log = <<>> THEN Header ELSE Banner]
  PROVE  WorkOK(r)'
  <1>1. job.attempt \in Nat /\ job.attempt + 1 \in Nat /\ Len(log) \in Nat
    BY DEF Grows
  <1>2. Header \in Banner .. (Chunks + 1) /\ Banner \in Banner .. (Chunks + 1)
    BY ProtocolAssumption DEF Header, Banner, Downloaded
  <1>3. Idle \in WorkType
    BY IdleOK DEF WorkOK, IInv
  <1>4. /\ r \in WorkType /\ r.pc = "building" /\ r.attempt = job'.attempt
        /\ r.offset = Len(log) /\ r.next \in {Header, Banner}
    BY <1>1, <1>2, <1>3 DEF WorkType
  <1>5. ASSUME NEW i \in DOMAIN log
        PROVE  log[i].attempt < job'.attempt
    <2>1. log[i] \in ChunkType
      BY DEF Grows
    <2> QED
      BY <2>1, <1>1 DEF ChunkType, IInv, ServerOK
  <1>6. Follows(r.offset, r.attempt, r.next)'
    BY <1>1, <1>4, <1>5 DEF Follows, Before
  <1>7. Wrote(r.attempt, r.next)'
    BY <1>4 DEF Wrote, Header, Banner
  <1> QED
    BY <1>1, <1>4, <1>6, <1>7 DEF WorkOK

-----------------------------------------------------------------------------
(* Requests served. *)

\* A request whose worker does not learn what was done.
LEMMA UnservedStep ==
  ASSUME IInv, ServerOK', Grows, faults' \in Nat, NEW q \in net, q.late = 0, Deliver(q),
         Unanswered(q.worker, q.kind) \/ Refused(q.worker, q.kind)
  PROVE  IInv'
  <1>1. PICK r : Set(q.worker, r) /\ WorkOK(r) /\ Fits(q.worker, IsBeat(q), r)
    BY Unserved
  <1>2. WorkOK(r)'
    BY <1>1, WorkKept
  <1>3. \A p \in net' : p \in net \ {q}
    BY DEF Deliver
  <1> QED
    BY <1>1, <1>2, <1>3, AnswerKeeps

\* A request whose worker has given up waiting.
LEMMA LateStep ==
  ASSUME IInv, ServerOK', Grows, faults' \in Nat, NEW q \in net, Deliver(q), work' = work
  PROVE  IInv'
  <1>1. net' \subseteq net
    BY DEF Deliver
  <1> QED
    BY <1>1, NobodyTold

\* A request whose worker goes on as r.
LEMMA AnsweredStep ==
  ASSUME IInv, ServerOK', Grows, faults' \in Nat, NEW q \in net, q.late = 0, Deliver(q),
         NEW r, Set(q.worker, r), WorkOK(r)', Fits(q.worker, IsBeat(q), r)
  PROVE  IInv'
  <1>1. \A p \in net' : p \in net \ {q}
    BY DEF Deliver
  <1> QED
    BY <1>1, AnswerKeeps

LEMMA InvFacts ==
  ASSUME IInv
  PROVE  /\ ServerOK /\ faults \in Nat
         /\ \A w \in Worker : WorkOK(work[w]) /\ work[w] \in WorkType
         /\ \A q \in net : /\ RequestOK(q) /\ q \in RequestType /\ q.worker \in Worker
                           /\ WorkOK(work[q.worker]) /\ work[q.worker] \in WorkType
                           /\ q.late = 0 => Expects(work[q.worker], q)
  <1>1. \A q \in net : RequestOK(q) /\ q \in RequestType /\ q.worker \in Worker
    BY DEF IInv, NetOK, RequestOK, RequestType
  <1>2. \A w \in Worker : WorkOK(work[w]) /\ work[w] \in WorkType
    BY DEF IInv, WorkOK
  <1> QED
    BY <1>1, <1>2 DEF IInv, NetOK

\* A worker that waits for its claim hears that there is nothing to build.
LEMMA IdleStep ==
  ASSUME IInv, ServerOK', Grows, faults' \in Nat, NEW q \in net, q.kind = "claim",
         Deliver(q), Answer(q, Set(q.worker, Idle))
  PROVE  IInv'
  <1>1. CASE q.late # 0
    BY <1>1, LateStep DEF Answer
  <1>2. CASE q.late = 0
    <2>1. Set(q.worker, Idle)
      BY <1>2 DEF Answer
    <2>2. Unanswered(q.worker, q.kind)
      BY <2>1 DEF Unanswered
    <2> QED
      BY <1>2, <2>2, UnservedStep
  <1> QED
    BY <1>1, <1>2

LEMMA ServeClaimStep ==
  ASSUME IInv, NEW q \in net, ServeClaim(q)
  PROVE  IInv'
  <1>1. /\ ServerOK /\ faults' \in Nat /\ q \in RequestType /\ Deliver(q)
        /\ q.kind = "claim" /\ log' = log /\ acked' = acked
        /\ q.worker \in Worker
    BY InvFacts DEF ServeClaim
  <1>2. CASE Claimable /\ Claim(q) /\ Answer(q, Leased(q.worker))
    <2>1. ServerOK' /\ Grows /\ job'.attempt = job.attempt + 1
      BY <1>1, <1>2, ClaimServed
    <2>2. CASE q.late # 0
      BY <1>1, <1>2, <2>1, <2>2, LateStep DEF Answer
    <2>3. CASE q.late = 0
      <3>1. PICK r : r = [Idle EXCEPT !.pc = "building", !.attempt = job.attempt + 1,
                        !.offset = Len(log), !.ctx = TRUE, !.beat = "ticking",
                        !.next = IF log = <<>> THEN Header ELSE Banner]
        OBVIOUS
      <3>2. WorkOK(r)'
        BY <1>1, <2>1, <3>1, LeasedOK
      <3>3. Set(q.worker, r)
        BY <1>2, <2>3, <3>1 DEF Answer, Leased, Set
      <3>4. work[q.worker].beat = "done"
        BY <1>1, <2>3, InvFacts DEF Expects, WorkOK
      <3>5. Fits(q.worker, IsBeat(q), r)
        BY <1>1, <3>4 DEF Fits, IsBeat
      <3> QED
        BY <1>1, <2>1, <2>3, <3>2, <3>3, <3>5, AnsweredStep
    <2> QED
      BY <2>2, <2>3
  <1>3. CASE job' = job /\ Answer(q, Set(q.worker, Idle))
    <2>1. ServerOK' /\ Grows
      BY <1>1, <1>3, ServerIdle
    <2> QED
      BY <1>1, <1>3, <2>1, IdleStep
  <1> QED
    BY <1>2, <1>3 DEF ServeClaim

\* What a heartbeat tells its worker.
LEMMA ToldOK ==
  ASSUME IInv, Grows, NEW q \in net, q.late = 0, q.kind = "beat", NEW r, r = Told(q.worker)
  PROVE  WorkOK(r)' /\ Fits(q.worker, IsBeat(q), r)
  <1>0. PICK x : x = work[q.worker]
    OBVIOUS
  <1>1. x \in WorkType /\ WorkOK(x) /\ x.beat = "sent"
    BY <1>0, InvFacts DEF Expects
  <1>2. /\ r \in WorkType /\ r.pc = x.pc /\ r.attempt = x.attempt /\ r.offset = x.offset
        /\ r.next = x.next /\ r.doomed = x.doomed /\ r.result = x.result /\ r.beat # "sent"
    BY <1>0, <1>1 DEF Told, WorkType
  <1>3. x.pc \notin {"idle", "claiming"}
    BY <1>1 DEF WorkOK
  <1>4. WorkOK(r)
    BY <1>1, <1>2, <1>3 DEF WorkOK
  <1> QED
    BY <1>0, <1>2, <1>4, WorkKept DEF Fits, IsBeat

LEMMA ServeBeatStep ==
  ASSUME IInv, NEW q \in net, ServeBeat(q)
  PROVE  IInv'
  <1>1. /\ ServerOK /\ faults' \in Nat /\ Deliver(q) /\ q.kind = "beat"
        /\ log' = log /\ acked' = acked
    BY InvFacts DEF ServeBeat
  <1>2. job' = job \/ Extend
    BY DEF ServeBeat
  <1>3. ServerOK' /\ Grows
    BY <1>1, <1>2, ServerIdle, ExtendServed
  <1>4. \/ Answer(q, Set(q.worker, Told(q.worker)))
        \/ Answer(q, Refused(q.worker, "beat"))
    BY DEF ServeBeat
  <1>5. CASE q.late # 0
    BY <1>1, <1>3, <1>4, <1>5, LateStep DEF Answer
  <1>6. CASE q.late = 0 /\ Set(q.worker, Told(q.worker))
    <2>1. PICK r : r = Told(q.worker)
      OBVIOUS
    <2>2. WorkOK(r)' /\ Fits(q.worker, IsBeat(q), r)
      BY <1>1, <1>3, <1>6, <2>1, ToldOK
    <2>3. Set(q.worker, r)
      BY <1>6, <2>1
    <2> QED
      BY <1>1, <1>3, <1>6, <2>2, <2>3, AnsweredStep
  <1>7. CASE q.late = 0 /\ Refused(q.worker, "beat")
    BY <1>1, <1>3, <1>7, UnservedStep
  <1> QED
    BY <1>4, <1>5, <1>6, <1>7 DEF Answer

LEMMA ServeLogStep ==
  ASSUME IInv, NEW q \in net, ServeLog(q)
  PROVE  IInv'
  <1>1. /\ ServerOK /\ faults' \in Nat /\ Deliver(q) /\ q.kind = "log" /\ RequestOK(q)
        /\ acked' = acked
    BY InvFacts DEF ServeLog
  <1>2. CASE /\ OwnedRunning(q) /\ OffsetMatches(q) /\ Extend /\ log' = Appended(q)
             /\ Answer(q, Written(q.worker, Len(log')))
    <2>1. ServerOK' /\ Grows
      BY <1>1, <1>2, LogServed DEF OwnedRunning
    <2>2. CASE q.late # 0
      BY <1>1, <1>2, <2>1, <2>2, LateStep DEF Answer
    <2>3. CASE q.late = 0
      <3>1. PICK r : r = [Building(q.worker) EXCEPT !.offset = Len(log'), !.next = @ + 1]
        OBVIOUS
      <3>2. WorkOK(r)' /\ Fits(q.worker, FALSE, r)
        BY <1>1, <1>2, <2>1, <2>3, <3>1, WrittenOK
      <3>3. Set(q.worker, r)
        BY <1>2, <2>3, <3>1 DEF Answer, Written, Set
      <3>4. IsBeat(q) = FALSE
        BY <1>1 DEF IsBeat
      <3> QED
        BY <1>1, <2>1, <2>3, <3>2, <3>3, <3>4, AnsweredStep
    <2> QED
      BY <2>2, <2>3
  <1>3. CASE UNCHANGED <<job, log>> /\ Answer(q, Refused(q.worker, "log"))
    <2>1. ServerOK' /\ Grows
      BY <1>1, <1>3, ServerIdle
    <2>2. CASE q.late # 0
      BY <1>1, <1>3, <2>1, <2>2, LateStep DEF Answer
    <2>3. CASE q.late = 0
      BY <1>1, <1>3, <2>1, <2>3, UnservedStep DEF Answer
    <2> QED
      BY <2>2, <2>3
  <1> QED
    BY <1>2, <1>3 DEF ServeLog

LEMMA ServeSourceStep ==
  ASSUME IInv, NEW q \in net, ServeSource(q)
  PROVE  IInv'
  <1>1. /\ ServerOK /\ faults' \in Nat /\ Deliver(q) /\ q.kind = "source"
        /\ UNCHANGED <<job, log, acked>>
    BY InvFacts DEF ServeSource
  <1>2. ServerOK' /\ Grows
    BY <1>1, ServerIdle
  <1>3. \/ Answer(q, Set(q.worker, [Building(q.worker) EXCEPT !.sourced = TRUE]))
        \/ Answer(q, Refused(q.worker, "source"))
    BY DEF ServeSource
  <1>4. CASE q.late # 0
    BY <1>1, <1>2, <1>3, <1>4, LateStep DEF Answer
  <1>5. CASE q.late = 0 /\ Set(q.worker, [Building(q.worker) EXCEPT !.sourced = TRUE])
    <2>0. PICK x : x = work[q.worker]
      OBVIOUS
    <2>1. x \in WorkType /\ WorkOK(x) /\ x.pc = "waiting"
      BY <1>1, <1>5, <2>0, InvFacts DEF Expects
    <2>2. PICK r : r = [Building(q.worker) EXCEPT !.sourced = TRUE]
      OBVIOUS
    <2>3. /\ r \in WorkType /\ r.pc = "building" /\ r.attempt = x.attempt
          /\ r.offset = x.offset /\ r.next = x.next /\ r.doomed = x.doomed
          /\ r.result = x.result /\ r.beat = x.beat
      BY <2>0, <2>1, <2>2 DEF Building, WorkType
    <2>4. WorkOK(r)
      BY <2>1, <2>3 DEF WorkOK
    <2>5. WorkOK(r)' /\ Fits(q.worker, IsBeat(q), r)
      BY <1>1, <1>2, <2>0, <2>3, <2>4, WorkKept DEF Fits, IsBeat
    <2>6. Set(q.worker, r)
      BY <1>5, <2>2
    <2> QED
      BY <1>1, <1>2, <1>5, <2>5, <2>6, AnsweredStep
  <1>6. CASE q.late = 0 /\ Refused(q.worker, "source")
    BY <1>1, <1>2, <1>6, UnservedStep
  <1> QED
    BY <1>3, <1>4, <1>5, <1>6 DEF Answer

\* The worker forgets the build: its result is confirmed, or refused for good.
LEMMA ReturnedStep ==
  ASSUME IInv, ServerOK', Grows, faults' \in Nat, NEW q \in net, q.kind = "complete",
         Deliver(q), Answer(q, Returned(q.worker))
  PROVE  IInv'
  <1>1. CASE q.late # 0
    BY <1>1, LateStep DEF Answer
  <1>2. CASE q.late = 0
    <2>1. Refused(q.worker, q.kind)
      BY <1>2 DEF Answer, Refused
    <2> QED
      BY <1>2, <2>1, UnservedStep
  <1> QED
    BY <1>1, <1>2

LEMMA ServeCompleteStep ==
  ASSUME IInv, NEW q \in net, ServeComplete(q)
  PROVE  IInv'
  <1>1. /\ ServerOK /\ faults' \in Nat /\ Deliver(q) /\ q.kind = "complete" /\ RequestOK(q)
        /\ log' = log
    BY InvFacts DEF ServeComplete
  <1>2. Answer(q, Returned(q.worker))
    BY DEF ServeComplete, Confirmed, Refused
  <1>3. ServerOK' /\ Grows
    <2>1. CASE Records(q) /\ Record(q) /\ Confirmed(q)
      BY <1>1, <2>1, ResultServed DEF Confirmed
    <2>2. CASE Confirms(q) /\ job' = job /\ Confirmed(q)
      BY <1>1, <2>2, RepeatServed DEF Confirmed
    <2>3. CASE UNCHANGED <<job, acked>>
      BY <1>1, <2>3, ServerIdle
    <2> QED
      BY <2>1, <2>2, <2>3 DEF ServeComplete
  <1> QED
    BY <1>1, <1>2, <1>3, ReturnedStep

LEMMA ServeStep ==
  ASSUME IInv, NEW q \in net, Serve(q)
  PROVE  IInv'
  BY ServeClaimStep, ServeBeatStep, ServeLogStep, ServeSourceStep, ServeCompleteStep DEF Serve

LEMMA ServeFailsStep ==
  ASSUME IInv, NEW q \in net, ServeFails(q)
  PROVE  IInv'
  <1>1. /\ ServerOK /\ faults' \in Nat /\ Deliver(q) /\ RequestOK(q) /\ acked' = acked
        /\ Answer(q, Refused(q.worker, q.kind))
    BY InvFacts DEF ServeFails, Fault
  <1>2. ServerOK' /\ Grows
    <2>1. CASE UNCHANGED <<job, log>>
      BY <1>1, <2>1, ServerIdle
    <2>2. CASE /\ q.kind = "log" /\ OwnedRunning(q) /\ OffsetMatches(q)
               /\ log' = Appended(q) /\ job' = job
      BY <1>1, <2>2, LogServed DEF OwnedRunning
    <2>3. CASE q.kind = "complete" /\ Records(q) /\ Record(q) /\ log' = log
      BY <1>1, <2>3, ResultServed
    <2> QED
      BY <2>1, <2>2, <2>3 DEF ServeFails
  <1>3. CASE q.late # 0
    BY <1>1, <1>2, <1>3, LateStep DEF Answer
  <1>4. CASE q.late = 0
    BY <1>1, <1>2, <1>4, UnservedStep DEF Answer
  <1> QED
    BY <1>3, <1>4

LEMMA ServeClaimFailsStep ==
  ASSUME IInv, NEW q \in net, ServeClaimFails(q)
  PROVE  IInv'
  <1>1. /\ ServerOK /\ faults' \in Nat /\ Deliver(q) /\ q \in RequestType
        /\ log' = log /\ acked' = acked /\ q.kind = "claim"
        /\ Answer(q, Set(q.worker, Idle))
    BY InvFacts DEF ServeClaimFails, Fault
  <1>2. ServerOK' /\ Grows
    BY <1>1, ServerIdle, ClaimServed DEF ServeClaimFails
  <1> QED
    BY <1>1, <1>2, IdleStep

-----------------------------------------------------------------------------
(* Requests sent. *)

LEMMA RequestSent ==
  ASSUME IInv, NEW w \in Worker, NEW kind \in Kinds, NEW q, q = Request(w, kind)
  PROVE  /\ q \in RequestType /\ q.kind = kind /\ q.worker = w /\ q.late = 0
         /\ q.attempt = work[w].attempt /\ q.attempt <= job.attempt
         /\ kind = "log" => q.body.offset = work[w].offset /\ q.body.n = work[w].next
         /\ kind = "complete" => q.body.result = work[w].result
  <1> DEFINE Body == [offset : Nat, n : Banner .. (Chunks + 1), result : Results]
  <1>1. work[w] \in WorkType /\ work[w].attempt <= job.attempt
    BY InvFacts DEF WorkOK
  <1>2. work[w].offset \in Nat /\ work[w].next \in Banner .. (Chunks + 1)
        /\ work[w].result \in Results /\ work[w].attempt \in Nat
    BY <1>1 DEF WorkType
  <1>3. 0 \in Banner .. (Chunks + 1) /\ Success \in Results
    BY ProtocolAssumption DEF Banner, Results
  <1>4. Blank \in Body
    BY <1>3 DEF Blank
  <1>5. /\ q.kind = kind /\ q.worker = w /\ q.late = 0 /\ q.attempt = work[w].attempt
        /\ q = [kind |-> kind, worker |-> w, attempt |-> work[w].attempt, late |-> 0,
                body |-> q.body]
    BY DEF Request
  <1>6. CASE kind = "log"
    <2>1. q.body = [Blank EXCEPT !.offset = work[w].offset, !.n = work[w].next]
      BY <1>6 DEF Request
    <2>2. q.body \in Body /\ q.body.offset = work[w].offset /\ q.body.n = work[w].next
      BY <2>1, <1>2, <1>4
    <2> QED
      BY <2>2, <1>1, <1>2, <1>5, <1>6 DEF RequestType
  <1>7. CASE kind = "complete"
    <2>1. q.body = [Blank EXCEPT !.result = work[w].result]
      BY <1>7 DEF Request
    <2>2. q.body \in Body /\ q.body.result = work[w].result
      BY <2>1, <1>2, <1>4
    <2> QED
      BY <2>2, <1>1, <1>2, <1>5, <1>7 DEF RequestType
  <1>8. CASE kind \notin {"log", "complete"}
    <2>1. q.body = Blank
      BY <1>8 DEF Request
    <2> QED
      BY <2>1, <1>1, <1>2, <1>4, <1>5, <1>8 DEF RequestType
  <1> QED
    BY <1>6, <1>7, <1>8

\* Worker w goes on as r, waiting for q, and waits for nothing else in the
\* goroutine that sent it.
LEMMA SendStep ==
  ASSUME IInv, NEW w \in Worker, NEW kind \in Kinds, NEW q, q = Request(w, kind),
         NEW r, Send(w, kind, r), Local, WorkOK(r), Fits(w, IsBeat(q), r),
         RequestOK(q), Expects(r, q),
         \A p \in net : p.late = 0 /\ p.worker = w => ~(IsBeat(p) <=> IsBeat(q))
  PROVE  IInv'
  <1>1. ServerOK' /\ Grows /\ faults' \in Nat
    BY InvFacts, ServerIdle DEF Local
  <1>2. WorkOK(r)' /\ RequestOK(q)'
    BY <1>1, WorkKept, RequestKept
  <1>3. Set(w, r) /\ net' = net \cup {q} /\ q.worker = w /\ q.late = 0
    BY RequestSent DEF Send
  <1>4. /\ DOMAIN work' = Worker
        /\ work'[w] = r
        /\ \A v \in Worker : v # w => work'[v] = work[v]
        /\ \A v \in Worker : WorkOK(work[v])'
    BY <1>1, <1>2, <1>3, OthersKept
  <1>5. ASSUME NEW p \in net'
        PROVE  RequestOK(p)'
    <2>1. CASE p \in net
      BY <2>1, <1>1, RequestKept, InvFacts
    <2> QED
      BY <2>1, <1>2, <1>3
  <1>6. ASSUME NEW p \in net', p.late = 0
        PROVE  Expects(work'[p.worker], p)
    <2>1. CASE p = q
      BY <2>1, <1>3, <1>4
    <2>2. CASE p \in net /\ p.worker # w
      BY <2>2, <1>4, <1>6, InvFacts
    <2>3. CASE p \in net /\ p.worker = w
      <3>1. Expects(work[w], p) /\ ~(IsBeat(p) <=> IsBeat(q))
        BY <2>3, <1>6, InvFacts
      <3> QED
        BY <3>1, <2>3, <1>4 DEF Expects, Fits, IsBeat
    <2> QED
      BY <2>1, <2>2, <2>3, <1>3
  <1>7. ASSUME NEW p1 \in net', NEW p2 \in net', p1.late = 0, p2.late = 0,
               p1.worker = p2.worker, IsBeat(p1) <=> IsBeat(p2)
        PROVE  p1 = p2
    BY <1>3, <1>7 DEF IInv, NetOK
  <1>8. NetOK'
    BY <1>5, <1>6, <1>7 DEF NetOK, Expects, IsBeat
  <1> QED
    BY <1>1, <1>4, <1>8 DEF IInv

\* The requests a worker in a given state may be waiting for.
LEMMA WaitsFor ==
  ASSUME IInv, NEW w \in Worker
  PROVE  /\ work[w].pc \notin {"claiming", "waiting", "completing"} =>
                \A p \in net : p.late = 0 /\ p.worker = w => IsBeat(p)
         /\ work[w].beat # "sent" =>
                \A p \in net : p.late = 0 /\ p.worker = w => ~IsBeat(p)
  <1>1. ASSUME NEW p \in net, p.late = 0, p.worker = w
        PROVE  p.kind \in Kinds /\ Expects(work[w], p)
    BY <1>1, InvFacts DEF RequestType
  <1> QED
    BY <1>1 DEF Expects, IsBeat, Kinds

LEMMA SendClaimStep ==
  ASSUME IInv, NEW w \in Worker, SendClaim(w)
  PROVE  IInv'
  <1>0. PICK x, q, r : x = work[w] /\ q = Request(w, "claim") /\ r = [x EXCEPT !.pc = "claiming"]
    OBVIOUS
  <1>1. x \in WorkType /\ WorkOK(x) /\ x.pc = "idle" /\ "claim" \in Kinds
    BY <1>0, InvFacts DEF SendClaim, Kinds
  <1>2. q.kind = "claim" /\ RequestOK(q)
    BY <1>0, <1>1, RequestSent DEF RequestOK
  <1>3. r \in WorkType /\ r.pc = "claiming" /\ r.attempt = x.attempt /\ r.beat = x.beat
    BY <1>0, <1>1 DEF WorkType
  <1>4. WorkOK(r) /\ Fits(w, IsBeat(q), r) /\ Expects(r, q)
    BY <1>0, <1>1, <1>2, <1>3 DEF WorkOK, Fits, Expects, IsBeat
  <1>5. \A p \in net : p.late = 0 /\ p.worker = w => ~(IsBeat(p) <=> IsBeat(q))
    BY <1>0, <1>1, <1>2, WaitsFor DEF IsBeat
  <1> QED
    BY <1>0, <1>1, <1>2, <1>4, <1>5, SendStep DEF SendClaim

LEMMA SendLogStep ==
  ASSUME IInv, NEW w \in Worker, SendLog(w)
  PROVE  IInv'
  <1>0. PICK x, q, r : x = work[w] /\ q = Request(w, "log") /\ r = [x EXCEPT !.pc = "waiting"]
    OBVIOUS
  <1>1. /\ x \in WorkType /\ WorkOK(x) /\ x.pc = "building" /\ x.next <= Chunks
        /\ "log" \in Kinds
    BY <1>0, InvFacts DEF SendLog, Kinds
  <1>2. q.kind = "log" /\ RequestOK(q) /\ q.attempt = x.attempt
        /\ q.body.offset = x.offset /\ q.body.n = x.next
    BY <1>0, <1>1, RequestSent DEF RequestOK, WorkOK
  <1>3. r \in WorkType /\ r.pc = "waiting" /\ r.attempt = x.attempt /\ r.beat = x.beat
        /\ r.offset = x.offset /\ r.next = x.next /\ r.doomed = x.doomed
    BY <1>0, <1>1 DEF WorkType
  <1>4. WorkOK(r) /\ Fits(w, IsBeat(q), r) /\ Expects(r, q)
    BY <1>0, <1>1, <1>2, <1>3 DEF WorkOK, Fits, Expects, IsBeat
  <1>5. \A p \in net : p.late = 0 /\ p.worker = w => ~(IsBeat(p) <=> IsBeat(q))
    BY <1>0, <1>1, <1>2, WaitsFor DEF IsBeat
  <1> QED
    BY <1>0, <1>1, <1>2, <1>4, <1>5, SendStep DEF SendLog

LEMMA SendSourceStep ==
  ASSUME IInv, NEW w \in Worker, SendSource(w)
  PROVE  IInv'
  <1>0. PICK x, q, r : x = work[w] /\ q = Request(w, "source") /\ r = [x EXCEPT !.pc = "waiting"]
    OBVIOUS
  <1>1. x \in WorkType /\ WorkOK(x) /\ x.pc = "building" /\ "source" \in Kinds
    BY <1>0, InvFacts DEF SendSource, Kinds
  <1>2. q.kind = "source" /\ RequestOK(q)
    BY <1>0, <1>1, RequestSent DEF RequestOK
  <1>3. r \in WorkType /\ r.pc = "waiting" /\ r.attempt = x.attempt /\ r.beat = x.beat
        /\ r.offset = x.offset /\ r.next = x.next /\ r.doomed = x.doomed
    BY <1>0, <1>1 DEF WorkType
  <1>4. WorkOK(r) /\ Fits(w, IsBeat(q), r) /\ Expects(r, q)
    BY <1>0, <1>1, <1>2, <1>3 DEF WorkOK, Fits, Expects, IsBeat
  <1>5. \A p \in net : p.late = 0 /\ p.worker = w => ~(IsBeat(p) <=> IsBeat(q))
    BY <1>0, <1>1, <1>2, WaitsFor DEF IsBeat
  <1> QED
    BY <1>0, <1>1, <1>2, <1>4, <1>5, SendStep DEF SendSource

LEMMA SendCompleteStep ==
  ASSUME IInv, NEW w \in Worker, SendComplete(w)
  PROVE  IInv'
  <1>0. PICK x, q, r : /\ x = work[w] /\ q = Request(w, "complete")
                       /\ r = [x EXCEPT !.pc = "completing"]
    OBVIOUS
  <1>1. /\ x \in WorkType /\ WorkOK(x) /\ x.pc = "built" /\ x.beat # "sent"
        /\ "complete" \in Kinds
    BY <1>0, InvFacts DEF SendComplete, Kinds
  <1>2. q.kind = "complete" /\ RequestOK(q)
    BY <1>0, <1>1, RequestSent DEF RequestOK, WorkOK
  <1>3. r \in WorkType /\ r.pc = "completing" /\ r.attempt = x.attempt /\ r.beat = x.beat
        /\ r.result = x.result
    BY <1>0, <1>1 DEF WorkType
  <1>4. WorkOK(r) /\ Fits(w, IsBeat(q), r) /\ Expects(r, q)
    BY <1>0, <1>1, <1>2, <1>3 DEF WorkOK, Fits, Expects, IsBeat
  <1>5. \A p \in net : p.late = 0 /\ p.worker = w => ~(IsBeat(p) <=> IsBeat(q))
    BY <1>0, <1>1, <1>2, WaitsFor DEF IsBeat
  <1> QED
    BY <1>0, <1>1, <1>2, <1>4, <1>5, SendStep DEF SendComplete

LEMMA SendBeatStep ==
  ASSUME IInv, NEW w \in Worker, SendBeat(w)
  PROVE  IInv'
  <1>0. PICK x, q, r : x = work[w] /\ q = Request(w, "beat") /\ r = [x EXCEPT !.beat = "sent"]
    OBVIOUS
  <1>1. /\ x \in WorkType /\ WorkOK(x) /\ x.pc # "completing" /\ x.beat = "ticking"
        /\ "beat" \in Kinds
    BY <1>0, InvFacts DEF SendBeat, Kinds
  <1>2. q.kind = "beat" /\ RequestOK(q)
    BY <1>0, <1>1, RequestSent DEF RequestOK
  <1>3. r \in WorkType /\ r.pc = x.pc /\ r.attempt = x.attempt /\ r.beat = "sent"
        /\ r.offset = x.offset /\ r.next = x.next /\ r.doomed = x.doomed /\ r.result = x.result
    BY <1>0, <1>1 DEF WorkType
  <1>4. WorkOK(r) /\ Fits(w, IsBeat(q), r) /\ Expects(r, q)
    BY <1>0, <1>1, <1>2, <1>3 DEF WorkOK, Fits, Expects, IsBeat
  <1>5. \A p \in net : p.late = 0 /\ p.worker = w => ~(IsBeat(p) <=> IsBeat(q))
    BY <1>0, <1>1, <1>2, WaitsFor DEF IsBeat
  <1> QED
    BY <1>0, <1>1, <1>2, <1>4, <1>5, SendStep DEF SendBeat

-----------------------------------------------------------------------------
(* The build ends, and requests given up. *)

LEMMA EndBuildStep ==
  ASSUME IInv, NEW w \in Worker, EndBuild(w)
  PROVE  IInv'
  <1>0. PICK x : x = work[w]
    OBVIOUS
  <1>1. x \in WorkType /\ WorkOK(x) /\ x.pc = "building" /\ ServerOK
    BY <1>0, InvFacts DEF EndBuild
  <1>2. ServerOK' /\ Grows /\ faults' \in Nat
    BY InvFacts, ServerIdle DEF EndBuild, Local
  <1>3. PICK r : Set(w, r) /\ WorkOK(r) /\ r.pc = "built" /\ r.beat = x.beat
    <2>1. CASE x.next > Chunks /\ ~x.doomed /\ Set(w, Built(w, Success))
      <3>1. PICK r : r = Built(w, Success)
        OBVIOUS
      <3>2. Idle \in WorkType /\ Success \in Results
        BY <1>1, IdleOK DEF WorkOK, Results
      <3>3. x.attempt \in Nat /\ x.beat \in {"ticking", "sent", "done"}
            /\ x.next \in Banner .. (Chunks + 1) /\ Chunks \in Nat
        BY <1>1, ProtocolAssumption DEF WorkType
      <3>4. /\ r \in WorkType /\ r.pc = "built" /\ r.result = Success
            /\ r.attempt = x.attempt /\ r.beat = x.beat
        BY <3>1, <3>2, <3>3, <1>0 DEF Built, WorkType
      <3>5. x.next = Chunks + 1
        BY <2>1, <3>3 DEF Banner
      <3>6. WorkOK(r)
        BY <1>1, <2>1, <3>4, <3>5 DEF WorkOK
      <3> QED
        BY <2>1, <3>1, <3>4, <3>6
    <2>2. ASSUME NEW e \in Errors, Set(w, Built(w, e))
          PROVE  \E r : Set(w, r) /\ WorkOK(r) /\ r.pc = "built" /\ r.beat = x.beat
      <3>1. WorkOK(Built(w, e)) /\ Built(w, e).beat = x.beat
        BY <1>0, <1>1, BuiltOK
      <3>2. Built(w, e).pc = "built"
        BY DEF Built, Idle
      <3> QED
        BY <2>2, <3>1, <3>2
    <2> QED
      BY <1>0, <2>1, <2>2 DEF EndBuild
  <1>4. WorkOK(r)'
    BY <1>2, <1>3, WorkKept
  <1>5. /\ DOMAIN work' = Worker
        /\ work'[w] = r
        /\ \A v \in Worker : v # w => work'[v] = work[v]
        /\ \A v \in Worker : WorkOK(work[v])'
    BY <1>2, <1>3, <1>4, OthersKept
  <1>6. net' = net
    BY DEF EndBuild
  <1>7. ASSUME NEW p \in net'
        PROVE  RequestOK(p)'
    BY <1>2, <1>6, RequestKept, InvFacts
  <1>8. ASSUME NEW p \in net', p.late = 0
        PROVE  Expects(work'[p.worker], p)
    <2>1. CASE p.worker # w
      BY <2>1, <1>5, <1>6, <1>8, InvFacts
    <2>2. CASE p.worker = w
      <3>1. Expects(x, p) /\ IsBeat(p)
        BY <2>2, <1>0, <1>1, <1>6, <1>8, WaitsFor, InvFacts
      <3> QED
        BY <3>1, <2>2, <1>3, <1>5 DEF Expects, IsBeat
    <2> QED
      BY <2>1, <2>2
  <1>9. NetOK'
    BY <1>6, <1>7, <1>8 DEF IInv, NetOK, Expects, IsBeat
  <1> QED
    BY <1>2, <1>5, <1>9 DEF IInv

\* Giving up leaves the other requests alone and makes the worker's own late.
LEMMA Abandoned ==
  ASSUME IInv, Grows, NEW w, NEW kinds, net' = Abandon(w, kinds)
  PROVE  \A p \in net' : \/ p \in net /\ ~Awaited(p, w, kinds)
                         \/ p.late # 0 /\ RequestOK(p)'
  <1> SUFFICES ASSUME NEW p \in net'
               PROVE  \/ p \in net /\ ~Awaited(p, w, kinds)
                      \/ p.late # 0 /\ RequestOK(p)'
    OBVIOUS
  <1>1. PICK q \in net :
           p = IF Awaited(q, w, kinds) THEN [q EXCEPT !.late = faults + 1] ELSE q
    BY DEF Abandon
  <1>2. faults + 1 \in Nat /\ faults + 1 # 0
    BY InvFacts
  <1>3. CASE Awaited(q, w, kinds)
    BY <1>1, <1>2, <1>3, LateOK
  <1> QED
    BY <1>1, <1>3

\* The worker starts over, and waits for nothing.
LEMMA AbandonStep ==
  ASSUME IInv, NEW w \in Worker, Set(w, Idle), net' = Abandon(w, Kinds),
         UNCHANGED <<job, log, acked>>, faults' \in Nat
  PROVE  IInv'
  <1>1. ServerOK' /\ Grows
    BY InvFacts, ServerIdle
  <1>2. WorkOK(Idle)'
    BY <1>1, InvFacts, IdleOK, WorkKept
  <1>3. /\ DOMAIN work' = Worker
        /\ \A v \in Worker : v # w => work'[v] = work[v]
        /\ \A v \in Worker : WorkOK(work[v])'
    <2>1. PICK r : r = Idle
      OBVIOUS
    <2>2. WorkOK(r)' /\ Set(w, r)
      BY <2>1, <1>2 DEF WorkOK, Follows, Before, Wrote
    <2> QED
      BY <2>2, <1>1, OthersKept
  <1>4. \A p \in net' : \/ p \in net /\ ~Awaited(p, w, Kinds)
                        \/ p.late # 0 /\ RequestOK(p)'
    BY <1>1, Abandoned
  <1>5. ASSUME NEW p \in net'
        PROVE  RequestOK(p)'
    BY <1>1, <1>4, RequestKept, InvFacts
  <1>6. ASSUME NEW p \in net', p.late = 0
        PROVE  p \in net /\ p.worker # w
    BY <1>4, <1>6, InvFacts DEF Awaited, RequestType
  <1>7. ASSUME NEW p \in net', p.late = 0
        PROVE  Expects(work'[p.worker], p)
    BY <1>3, <1>6, <1>7, InvFacts
  <1>8. ASSUME NEW p1 \in net', NEW p2 \in net', p1.late = 0, p2.late = 0,
               p1.worker = p2.worker, IsBeat(p1) <=> IsBeat(p2)
        PROVE  p1 = p2
    BY <1>6, <1>8 DEF IInv, NetOK
  <1>9. NetOK'
    BY <1>5, <1>7, <1>8 DEF NetOK, Expects, IsBeat
  <1> QED
    BY <1>1, <1>3, <1>9 DEF IInv

LEMMA TimeOutStep ==
  ASSUME IInv, NEW w \in Worker, TimeOut(w)
  PROVE  IInv'
  <1>1. ServerOK' /\ Grows /\ faults' \in Nat
    BY InvFacts, ServerIdle DEF TimeOut, Fault
  <1>2. PICK k \in AwaitedKinds(w) : Unanswered(w, k) /\ net' = Abandon(w, {k})
    BY DEF TimeOut
  <1>3. PICK q \in net : q.worker = w /\ q.kind = k /\ q.late = 0
    BY <1>2 DEF AwaitedKinds
  <1>4. PICK r : Set(w, r) /\ WorkOK(r) /\ Fits(w, IsBeat(q), r)
    BY <1>2, <1>3, Unserved
  <1>5. WorkOK(r)'
    BY <1>1, <1>4, WorkKept
  <1>6. \A p \in net' : \/ p \in net /\ ~Awaited(p, w, {k})
                        \/ p.late # 0 /\ RequestOK(p)'
    BY <1>1, <1>2, Abandoned
  <1>7. Awaited(q, w, {k})
    BY <1>3 DEF Awaited
  <1>8. \A p \in net' : p \in net \ {q} \/ (p.late # 0 /\ RequestOK(p)')
    BY <1>6, <1>7
  <1> QED
    BY <1>1, <1>3, <1>4, <1>5, <1>8, AnswerKeeps

-----------------------------------------------------------------------------
(* The invariant. *)

LEMMA InitOK ==
  ASSUME Init
  PROVE  IInv
  <1>1. job \in JobType /\ job.attempt = 0 /\ job.status = "queued"
    BY DEF Init, JobType, Results
  <1>2. log = <<>> /\ log \in Seq(ChunkType) /\ DOMAIN log = {} /\ acked = {}
    BY DEF Init
  <1>3. ServerOK
    BY <1>1, <1>2 DEF ServerOK, LogInOrder, ConfirmedResultStands
  <1>4. WorkOK(Idle)
    BY <1>3, IdleOK
  <1> QED
    BY <1>3, <1>4 DEF Init, IInv, NetOK

LEMMA StepOK ==
  ASSUME IInv, [Next]_vars
  PROVE  IInv'
  <1>1. CASE UNCHANGED vars
    <2>1. ServerOK' /\ Grows /\ faults' \in Nat
      BY <1>1, InvFacts, ServerIdle DEF vars
    <2> QED
      BY <1>1, <2>1, NobodyTold DEF vars
  <1>2. CASE Cancel
    <2>1. ServerOK' /\ Grows /\ faults' \in Nat
      BY <1>2, InvFacts, CancelServed DEF Cancel
    <2> QED
      BY <1>2, <2>1, NobodyTold DEF Cancel
  <1>3. CASE LeaseRunsOut \/ RenewedTooLate
    <2>1. Expire /\ faults' \in Nat
      BY <1>3, InvFacts DEF LeaseRunsOut, RenewedTooLate, Fault, NoFault
    <2>2. ServerOK' /\ Grows
      BY <2>1, InvFacts, ExpireServed
    <2> QED
      BY <2>1, <2>2, NobodyTold DEF Expire
  <1>4. ASSUME NEW q \in net, Serve(q)
        PROVE  IInv'
    BY <1>4, ServeStep
  <1>5. ASSUME NEW q \in net, ServeFails(q) \/ ServeClaimFails(q)
        PROVE  IInv'
    BY <1>5, ServeFailsStep, ServeClaimFailsStep
  <1>6. ASSUME NEW w \in Worker,
               \/ SendClaim(w) \/ SendLog(w) \/ SendSource(w) \/ EndBuild(w)
               \/ SendComplete(w) \/ SendBeat(w) \/ TimeOut(w)
        PROVE  IInv'
    BY <1>6, SendClaimStep, SendLogStep, SendSourceStep, EndBuildStep, SendCompleteStep,
       SendBeatStep, TimeOutStep
  <1>7. ASSUME NEW w \in Worker, Stop(w) \/ Crash(w)
        PROVE  IInv'
    <2>1. /\ Set(w, Idle) /\ net' = Abandon(w, Kinds) /\ UNCHANGED <<job, log, acked>>
          /\ faults' \in Nat
      BY <1>7, InvFacts DEF Stop, Crash, Local, Fault
    <2> QED
      BY <2>1, AbandonStep
  <1> QED
    BY <1>1, <1>2, <1>3, <1>4, <1>5, <1>6, <1>7 DEF Next, ServeLate, ServeKind

\* The inductive invariant: the coordinator's files, the workers and every
\* request that may still be served agree.
THEOREM ConversationInvariant == Spec => []IInv
  <1> QED
    BY InitOK, StepOK, PTL DEF Spec

\* Log chunks are stored in the order in which they were written, attempt after
\* attempt, whatever requests were given up and served late (LogInOrder).
THEOREM LogStaysInOrder == Spec => []LogInOrder
  <1>1. IInv => LogInOrder
    BY DEF IInv, ServerOK
  <1> QED
    BY <1>1, ConversationInvariant, PTL

\* A build recorded as succeeded has its whole log, up to the limit
\* (SuccessHasWholeLog).
THEOREM SuccessIsLogged == Spec => []SuccessHasWholeLog
  <1>1. IInv => SuccessHasWholeLog
    <2> SUFFICES ASSUME IInv, job.status = "succeeded", ~(Len(log) >= LogLimit),
                        NEW n \in Header .. Chunks
                 PROVE  Contains(log, [attempt |-> job.by, n |-> n])
      BY DEF SuccessHasWholeLog
    <2>1. (Chunks + 1) - 1 = Chunks
      BY ProtocolAssumption
    <2>2. PICK i \in DOMAIN log : log[i] = [attempt |-> job.by, n |-> n]
      BY <2>1 DEF IInv, ServerOK, Wrote
    <2> QED
      BY <2>2 DEF Contains, IInv, ServerOK
  <1> QED
    BY <1>1, ConversationInvariant, PTL

\* A result that was confirmed to a runner is the one the coordinator keeps
\* (ConfirmedResultStands).
THEOREM ConfirmedStays == Spec => []ConfirmedResultStands
  <1>1. IInv => ConfirmedResultStands
    BY DEF IInv, ServerOK
  <1> QED
    BY <1>1, ConversationInvariant, PTL

-----------------------------------------------------------------------------
(***************************************************************************)
(* The machines these workers build in: what WarmPool promises, for any    *)
(* number of machines and workers, any limits and any number of failures:  *)
(* the hard cap, the single use of a machine, that only its owner destroys *)
(* it, and what Shutdown leaves.                                           *)
(***************************************************************************)

\* The types the argument needs; the queue of idle names is not among them,
\* because Reserve looks at the state of the machine it names.
Types ==
    /\ vms \subseteq VM
    /\ instances \in [VM -> {"absent", "idle", "reserved", "leased", "destroying"}]
    /\ inProgress \subseteq VM
    /\ creating \in Nat
    /\ maker \in [VM -> {"none", "preheating", "ready", "gone", "remains", "creating", "created",
                         "removing", "failed", "retained", "waiting"}]
    /\ rec \in [at : {"off", "loop", "destroying", "retry"}, vm : VM \cup {NoVM}]
    /\ worker \in [BuildWorker -> [at : {"off", "reserve", "checking", "claiming", "polling",
                                    "assigned", "building", "releasing", "stopped"},
                              vm : VM \cup {NoVM}]]
    /\ phase \in {"ended", "preheating", "running", "stopping", "destroying", "stopped"}
    /\ doomed \subseteq VM
    /\ used \subseteq VM

\* A worker's machine is in the state that its place in the code says, and no
\* other worker has it.
Held ==
    \A w \in BuildWorker :
        /\ worker[w].at \in {"off", "reserve", "polling", "stopped"} => Machine(w) = NoVM
        /\ worker[w].at \in {"checking", "claiming"} =>
               Machine(w) \in VM /\ instances[Machine(w)] = "reserved"
        /\ worker[w].at \in {"assigned", "building"} =>
               Machine(w) \in VM /\ instances[Machine(w)] = "leased"
        /\ worker[w].at = "releasing" =>
               /\ Machine(w) \in inProgress
               /\ instances[Machine(w)] = "destroying"
Apart ==
    \A w, x \in BuildWorker : w # x /\ Machine(w) # NoVM => Machine(w) # Machine(x)

\* The machine that the reconciliation destroys is nobody else's.
ReconcilerOwns ==
    /\ rec.at # "destroying" => rec.vm = NoVM
    /\ rec.at = "destroying" =>
          /\ rec.vm \in inProgress
          /\ instances[rec.vm] = "destroying"
          /\ \A w \in BuildWorker : Machine(w) # rec.vm

Preheat == {"preheating", "ready", "gone", "remains"}

\* A machine in the making is not in the pool; the remains of one are there, and
\* are nobody else's.
MakerOwns ==
    \A v \in VM :
        /\ maker[v] \in Preheat \cup {"creating", "removing", "failed"} =>
               instances[v] = "absent"
        /\ maker[v] \in {"creating", "removing"} => v \notin used
        /\ maker[v] \in {"retained", "waiting"} =>
               /\ v \in inProgress
               /\ instances[v] = "destroying"
               /\ \A w \in BuildWorker : Machine(w) # v
               /\ rec.vm # v

Unused == \A v \in VM : instances[v] \in {"idle", "reserved"} => v \notin used

\* What each phase leaves in memory.
PhaseShape ==
    /\ phase \notin {"running", "stopping"} =>
          /\ rec.at = "off"
          /\ \A w \in BuildWorker : worker[w].at \in {"off", "stopped"}
    /\ phase # "destroying" => doomed = {}
    /\ phase \in {"preheating", "ended", "stopped"} => Tracked = {}
    /\ phase = "preheating" => used = {} /\ \A v \in VM : maker[v] \in Preheat \cup {"none"}
    /\ phase \in {"running", "stopping"} => \A v \in VM : maker[v] \notin Preheat
    /\ phase \in {"destroying", "ended", "stopped"} => \A v \in VM : maker[v] = "none"
    /\ phase = "stopping" => \A w \in BuildWorker : worker[w].at \in {"off", "stopped"}

\* What the hypervisor has is what the pool knows of.
Present ==
    /\ phase = "preheating" => vms \subseteq {v \in VM : maker[v] \in Preheat}
    /\ phase \in {"running", "stopping"} =>
           vms = Tracked \cup {v \in VM : maker[v] \in {"creating", "removing"}}

\* The machines in the making as the pool counts them.
Counted == {v \in VM : maker[v] \notin {"none", "waiting"}}
CountExact == creating = Cardinality(Counted)
\* Every machine takes up capacity, known or still in the making.
Occupied == Tracked \cup Counted
Capacity ==
    /\ CountExact
    /\ Cardinality(Occupied) <= MaxInstances
    /\ HardCap

Ownership ==
    /\ Types
    /\ Held
    /\ Apart
    /\ ReconcilerOwns
    /\ MakerOwns
    /\ Unused
    /\ PhaseShape
    /\ Present

PoolIInv ==
    /\ Ownership
    /\ Capacity

-----------------------------------------------------------------------------------
(* Counting. *)

\* Every set of machines is finite.
LEMMA Finite ==
    ASSUME NEW S \in SUBSET VM
    PROVE  IsFiniteSet(S) /\ Cardinality(S) \in Nat
  BY FS_Subset, FS_CardinalityType, PoolAssumption

\* Fewer machines need no more room.
LEMMA Fewer ==
    ASSUME NEW S \in SUBSET VM, NEW T \in SUBSET S
    PROVE  Cardinality(T) <= Cardinality(S)
  BY FS_Subset, Finite

\* One more machine needs no more than one more place.
LEMMA OneMore ==
    ASSUME NEW S \in SUBSET VM, NEW T \in SUBSET VM, NEW v \in VM
    PROVE  Cardinality((S \cup T) \cup {v}) <= Cardinality(S) + Cardinality(T) + 1
  <1>1. /\ IsFiniteSet(S) /\ IsFiniteSet(T) /\ IsFiniteSet(S \cup T)
        /\ Cardinality(S) \in Nat /\ Cardinality(T) \in Nat
        /\ Cardinality(S \cup T) \in Nat /\ Cardinality(S \cap T) \in Nat
    BY Finite
  <1>2. Cardinality(S \cup T) = Cardinality(S) + Cardinality(T) - Cardinality(S \cap T)
    BY <1>1, FS_Union
  <1>3. Cardinality((S \cup T) \cup {v}) =
            IF v \in S \cup T THEN Cardinality(S \cup T) ELSE Cardinality(S \cup T) + 1
    BY <1>1, FS_AddElement, Zenon
  <1>4. Cardinality((S \cup T) \cup {v}) \in Nat
    BY Finite
  <1> QED BY <1>1, <1>2, <1>3, <1>4

\* What most steps do: they give room back or leave it alone.
Shrinks ==
    /\ creating' = creating /\ Counted' = Counted
    /\ Occupied' \subseteq Occupied
    /\ vms' \subseteq vms

\* ... and so they keep the limits.
LEMMA ShrinksCapacity ==
    ASSUME PoolIInv, Shrinks
    PROVE  Capacity'
  <1>1. vms \in SUBSET VM /\ Occupied \in SUBSET VM
    BY DEF PoolIInv, Ownership, Types, Occupied, Tracked, Counted
  <1>2. Cardinality(vms') <= Cardinality(vms) /\ Cardinality(Occupied') <= Cardinality(Occupied)
    BY <1>1, Fewer DEF Shrinks
  <1>3. /\ Cardinality(vms) \in Nat /\ Cardinality(vms') \in Nat
        /\ Cardinality(Occupied) \in Nat /\ Cardinality(Occupied') \in Nat
    BY <1>1, Finite DEF Shrinks
  <1>4. CountExact'
    BY DEF PoolIInv, Capacity, CountExact, Shrinks
  <1> QED BY <1>2, <1>3, <1>4, PoolAssumption DEF PoolIInv, Capacity, HardCap, Shrinks

-----------------------------------------------------------------------------------
(* The steps that take no room. *)

Keeps == Ownership' /\ Shrinks

\* Steps that change only the queue, who sleeps and what is canceled.
LEMMA CalmKeeps ==
    ASSUME PoolIInv,
           UNCHANGED <<vms, instances, inProgress, creating, maker, rec, worker, phase, doomed, used>>
    PROVE  Keeps
  <1> USE PoolAssumption DEF PoolIInv, Ownership, Types, Held, Apart, ReconcilerOwns, MakerOwns, Unused,
                             PhaseShape, Present, Machine, Tracked, Counted, Occupied, Preheat,
                             Shrinks, Keeps
  <1> QED OBVIOUS

\* Whatever names the queue holds, Reserve takes an idle machine.
LEMMA ReserveTakes ==
    ASSUME NEW w \in BuildWorker, Reserve(w)
    PROVE  \E v \in VM : /\ instances[v] = "idle"
                         /\ instances' = [instances EXCEPT ![v] = "reserved"]
                         /\ worker' = [worker EXCEPT ![w] = [at |-> "checking", vm |-> v]]
  <1>1. PICK v \in VM, i \in DOMAIN idle :
            /\ FirstIdle(i) /\ v = idle[i]
            /\ instances' = [instances EXCEPT ![v] = "reserved"]
            /\ worker' = [worker EXCEPT ![w] = [at |-> "checking", vm |-> v]]
    BY Zenon DEF Reserve
  <1>2. instances[v] = "idle"
    BY <1>1, Zenon DEF FirstIdle
  <1> QED BY <1>1, <1>2

\* A worker hands its machine on, or keeps it.
LEMMA WorkerKeeps ==
    ASSUME PoolIInv, NEW w \in BuildWorker, Reserve(w) \/ WorkerStep(w)
    PROVE  Keeps
  <1> USE PoolAssumption DEF PoolIInv, Ownership, Types, Held, Apart, ReconcilerOwns, MakerOwns, Unused,
                             PhaseShape, Present, Machine, Tracked, Counted, Occupied, Preheat,
                             Shrinks, Keeps
  <1>1. CASE Reserve(w)
    <2>1. PICK v \in VM : /\ instances[v] = "idle"
                          /\ instances' = [instances EXCEPT ![v] = "reserved"]
                          /\ worker' = [worker EXCEPT ![w] = [at |-> "checking", vm |-> v]]
      BY <1>1, ReserveTakes
    <2>2. /\ worker[w].at = "reserve"
          /\ UNCHANGED <<vms, inProgress, creating, maker, rec, phase, doomed, used>>
      BY <1>1 DEF Reserve, lifeVars
    <2>3. Types' /\ Held' /\ Apart' /\ ReconcilerOwns'
      BY <2>1, <2>2
    <2>4. MakerOwns' /\ Unused'
      BY <2>1, <2>2
    <2>5. PhaseShape' /\ Present'
      BY <2>1, <2>2
    <2>6. Shrinks
      BY <2>1, <2>2
    <2> QED BY <2>3, <2>4, <2>5, <2>6
  <1>2. CASE WorkerCanceled(w)
    BY <1>2 DEF WorkerCanceled, Stops, Off, poolVars, lifeVars
  <1>3. CASE Healthy(w)
    BY <1>3 DEF Healthy, Goto, poolVars, lifeVars
  <1>4. CASE Unhealthy(w)
    BY <1>4 DEF Unhealthy, Off, lifeVars
  <1>5. CASE CheckCanceled(w)
    BY <1>5 DEF CheckCanceled, returnIdle, Stops, Off, lifeVars
  <1>6. CASE ClaimNothing(w)
    BY <1>6 DEF ClaimNothing, returnIdle, Off, lifeVars
  <1>7. CASE ClaimRefused(w)
    BY <1>7 DEF ClaimRefused, returnIdle, Stops, Off
  <1>8. CASE PollAgain(w)
    BY <1>8 DEF PollAgain, Goto, poolVars, lifeVars
  <1>9. CASE Assign(w)
    BY <1>9 DEF Assign, Goto, lifeVars
  <1>10. CASE Run(w)
    BY <1>10 DEF Run, Goto, poolVars, lifeVars
  <1>11. CASE destroyReleased(w)
    BY <1>11 DEF destroyReleased, Goto, lifeVars
  <1>12. CASE Released(w)
    BY <1>12 DEF Released, Forget, Destroy, Off, lifeVars
  <1>13. CASE ReleaseFails(w)
    BY <1>13 DEF ReleaseFails, Keep, Off, lifeVars
  <1>14. CASE ReserveSleeps(w)
    BY <1>14, CalmKeeps DEF ReserveSleeps, lifeVars
  <1> QED BY <1>1, <1>2, <1>3, <1>4, <1>5, <1>6, <1>7, <1>8, <1>9, <1>10, <1>11, <1>12,
             <1>13, <1>14 DEF WorkerStep

\* The reconciliation destroys what nobody else does.
LEMMA ReconcileKeeps ==
    ASSUME PoolIInv, ReconcileStep, \A v \in VM : ~ReconcileCreate(v)
    PROVE  Keeps
  <1> USE PoolAssumption DEF PoolIInv, Ownership, Types, Held, Apart, ReconcilerOwns, MakerOwns, Unused,
                             PhaseShape, Present, Machine, Tracked, Counted, Occupied, Preheat,
                             Shrinks, Keeps
  <1>1. ASSUME NEW v \in VM, ReconcileDestroy(v) PROVE Keeps
    BY <1>1 DEF ReconcileDestroy, RecAt, Destroyable, lifeVars
  <1>2. CASE ReconcileStops
    BY <1>2 DEF ReconcileStops, RecAt, Off, poolVars, lifeVars
  <1>3. CASE Reconciled
    BY <1>3 DEF Reconciled, Forget, Destroy, Off, lifeVars
  <1>4. CASE ReconcileFails
    BY <1>4 DEF ReconcileFails, Keep, Off, lifeVars
  <1>5. CASE ReconcileRetry
    BY <1>5 DEF ReconcileRetry, Off, poolVars, lifeVars
  <1>6. CASE ReconcileSleeps
    BY <1>6, CalmKeeps DEF ReconcileSleeps, poolVars, lifeVars
  <1> QED BY <1>1, <1>2, <1>3, <1>4, <1>5, <1>6 DEF ReconcileStep

\* A machine that was made, or its remains, stay in the room they were counted in.
LEMMA MakerKeeps ==
    ASSUME PoolIInv, NEW v \in VM, MakerStep(v), ~CountRetained(v), ~MakerEnds(v)
    PROVE  Keeps
  <1> USE PoolAssumption DEF PoolIInv, Ownership, Types, Held, Apart, ReconcilerOwns, MakerOwns, Unused,
                             PhaseShape, Present, Machine, Tracked, Counted, Occupied, Preheat,
                             Shrinks, Keeps
  <1>1. CASE Created(v)
    BY <1>1 DEF Created, lifeVars
  <1>2. CASE CreateFails(v)
    BY <1>2 DEF CreateFails, Destroy, lifeVars
  <1>3. CASE CreateLeavesRemains(v)
    <2>1. CASE "pool" \in canceled
      BY <1>3, <2>1 DEF CreateLeavesRemains, retainFailedCleanup, lifeVars
    <2>2. CASE "pool" \notin canceled
      BY <1>3, <2>2 DEF CreateLeavesRemains, lifeVars
    <2> QED BY <2>1, <2>2
  <1>4. CASE Removed(v)
    BY <1>4 DEF Removed, Destroy, lifeVars
  <1>5. CASE RemoveFails(v)
    BY <1>5 DEF RemoveFails, retainFailedCleanup, lifeVars
  <1> QED BY <1>1, <1>2, <1>3, <1>4, <1>5 DEF MakerStep

\* Starting and shutting down.
LEMMA RunKeeps ==
    ASSUME PoolIInv, RunStep \/ PrepareFails,
           ~StartSucceeds, ~StartFails, \A fails \in BOOLEAN : ~Cleanup(fails)
    PROVE  Keeps
  <1> USE PoolAssumption DEF PoolIInv, Ownership, Types, Held, Apart, ReconcilerOwns, MakerOwns, Unused,
                             PhaseShape, Present, Machine, Tracked, Counted, Occupied, Preheat,
                             Shrinks, Keeps
  <1>1. ASSUME NEW v \in VM, NEW outcome \in Create,
               PreheatCreate(v, outcome)
        PROVE  Keeps
    BY <1>1 DEF PreheatCreate, Create, Breakdown, lifeVars
  <1>2. CASE Shutdown
    BY <1>2 DEF Shutdown, poolVars, WorkersDone
  <1>3. CASE ShutdownDestroys
    BY <1>3 DEF ShutdownDestroys, poolVars, ProvisioningDone
  <1>4. ASSUME NEW v \in VM, Destroyed(v) PROVE Keeps
    BY <1>4 DEF Destroyed, Destroy
  <1>5. ASSUME NEW v \in VM, DestroyFails(v) PROVE Keeps
    BY <1>5 DEF DestroyFails, poolVars
  <1>6. CASE PrepareFails
    BY <1>6 DEF PrepareFails
  <1> QED BY <1>1, <1>2, <1>3, <1>4, <1>5, <1>6 DEF RunStep

-----------------------------------------------------------------------------------
(* The steps that take room, or count anew. *)

\* Whoever forgets everything counts nothing.
LEMMA ForgottenCapacity ==
    ASSUME PoolIInv, creating' = 0, Counted' = {}, Occupied' \subseteq vms, vms' \subseteq vms
    PROVE  Capacity'
  <1>1. vms \in SUBSET VM
    BY DEF PoolIInv, Ownership, Types
  <1>2. Cardinality(vms') <= Cardinality(vms) /\ Cardinality(Occupied') <= Cardinality(vms)
    BY <1>1, Fewer
  <1>3. /\ Cardinality(vms) \in Nat /\ Cardinality(vms') \in Nat
        /\ Cardinality(Occupied') \in Nat
    BY <1>1, Finite
  <1> QED BY <1>2, <1>3, FS_EmptySet, PoolAssumption DEF PoolIInv, Capacity, CountExact, HardCap

\* Start makes as many machines as it counts.
LEMMA StartPreheatInv ==
    ASSUME PoolIInv, NEW S \in SUBSET VM, StartPreheat(S)
    PROVE  PoolIInv'
  <1> USE PoolAssumption DEF PoolIInv, Ownership, PhaseShape, Preheat, Tracked, StartPreheat
  <1>1. Ownership'
    BY DEF Types, Held, Apart, ReconcilerOwns, MakerOwns, Unused, Present, Machine
  <1>2. Counted' = S /\ Occupied' = S /\ vms' = S
    BY DEF Counted, Occupied, Types
  <1>3. Cardinality(S) = IdleCount /\ creating' = IdleCount
    OBVIOUS
  <1> QED BY <1>1, <1>2, <1>3 DEF Capacity, CountExact, HardCap

\* Start ends with the machines in the pool, or with all of them to be destroyed.
LEMMA StartEndsInv ==
    ASSUME PoolIInv, StartSucceeds \/ StartFails
    PROVE  PoolIInv'
  <1> USE PoolAssumption DEF PoolIInv, Ownership, PhaseShape, Types, Preheat, Tracked, Preheated,
                             StartSucceeds, StartFails
  <1>1. Ownership'
    BY DEF Held, Apart, ReconcilerOwns, MakerOwns, Unused, Present, Machine, Off
  <1>2. Counted' = {} /\ Occupied' \subseteq vms /\ vms' = vms /\ creating' = 0
    BY DEF Counted, Occupied
  <1> QED BY <1>1, <1>2, ForgottenCapacity

\* A process that ended has no goroutines; its machines may still be there.
LEMMA EndInv ==
    ASSUME PoolIInv, ProcessEnds \/ \E fails \in BOOLEAN : Cleanup(fails)
    PROVE  PoolIInv'
  <1> USE PoolAssumption DEF PoolIInv, Ownership, PhaseShape, Types, Preheat, Tracked, NoMemory, ProcessEnds,
                             Cleanup, cleanupOwnedResources
  <1>1. Ownership'
    BY DEF Held, Apart, ReconcilerOwns, MakerOwns, Unused, Present, Machine, Off
  <1>2. Counted' = {} /\ Occupied' \subseteq vms /\ vms' \subseteq vms /\ creating' = 0
    BY DEF Counted, Occupied
  <1> QED BY <1>1, <1>2, ForgottenCapacity

\* nextReconcileAction counts every machine at most twice, and leaves room for one.
LEMMA ReconcileCreateInv ==
    ASSUME PoolIInv, NEW v \in VM, ReconcileCreate(v)
    PROVE  PoolIInv'
  <1> USE PoolAssumption DEF PoolIInv, Ownership, PhaseShape, Types, Preheat, Tracked, ReconcileCreate,
                             RecAt, Fresh, lifeVars
  <1>1. Ownership'
    BY DEF Held, Apart, ReconcilerOwns, MakerOwns, Unused, Present, Machine
  <1>2. /\ Counted \in SUBSET VM /\ v \notin Counted /\ Counted' = Counted \cup {v}
        /\ Tracked \in SUBSET VM /\ Occupied' = (Tracked \cup Counted) \cup {v}
    BY DEF Counted, Occupied
  <1>3. vms' \subseteq Occupied' /\ Occupied' \in SUBSET VM /\ vms' \in SUBSET VM
    BY DEF Present, Counted, Occupied
  <1> HIDE DEF Tracked
  <1>4. /\ IsFiniteSet(Counted) /\ Cardinality(Counted) \in Nat
        /\ Cardinality(Tracked) \in Nat
        /\ Cardinality(Occupied') \in Nat /\ Cardinality(vms') \in Nat
    BY <1>2, <1>3, Finite
  <1>5. CountExact'
    BY <1>2, <1>4, FS_AddElement DEF Capacity, CountExact
  <1>6. Cardinality(Occupied') <= Cardinality(Tracked) + Cardinality(Counted) + 1
    BY <1>2, OneMore
  <1>7. Cardinality(Occupied') <= MaxInstances
    BY <1>4, <1>6 DEF MayCreate, Capacity, CountExact
  <1>8. Cardinality(vms') <= Cardinality(Occupied')
    BY <1>3, Fewer
  <1> QED BY <1>1, <1>4, <1>5, <1>7, <1>8 DEF Capacity, HardCap

\* A goroutine that ends is counted down once.
LEMMA MakerEndsInv ==
    ASSUME PoolIInv, NEW v \in VM, CountRetained(v) \/ MakerEnds(v)
    PROVE  PoolIInv'
  <1> USE PoolAssumption DEF PoolIInv, Ownership, CountRetained, MakerEnds, lifeVars
  <1>1. /\ Counted \in SUBSET VM
        /\ Counted' = Counted \ {v}
        /\ creating' = IF v \in Counted THEN creating - 1 ELSE creating
    BY DEF Counted, Types
  <1>2. IsFiniteSet(Counted) /\ IsFiniteSet(Counted')
        /\ Cardinality(Counted) \in Nat /\ Cardinality(Counted') \in Nat
    BY <1>1, Finite
  <1>3. CountExact'
    BY <1>1, <1>2, FS_RemoveElement DEF Capacity, CountExact
  <1>4. creating' \in Nat
    BY <1>2, <1>3 DEF CountExact
  <1>5. Ownership'
    BY <1>4 DEF Types, Held, Apart, ReconcilerOwns, MakerOwns, Unused, PhaseShape, Present, Machine,
                Tracked, Preheat
  <1>6. Occupied' \in SUBSET Occupied /\ Occupied \in SUBSET VM /\ vms' = vms
    BY <1>1 DEF Occupied, Tracked, Types
  <1>7. /\ Cardinality(Occupied') <= Cardinality(Occupied)
        /\ Cardinality(Occupied') \in Nat /\ Cardinality(Occupied) \in Nat
    BY <1>6, Fewer, Finite
  <1> QED BY <1>3, <1>5, <1>6, <1>7 DEF Capacity, HardCap

-----------------------------------------------------------------------------------
\* Nothing exists and nothing is counted.
LEMMA InitInv == PoolInit => PoolIInv
  <1> SUFFICES ASSUME PoolInit PROVE PoolIInv
    OBVIOUS
  <1> USE PoolAssumption DEF PoolInit, Tracked, Off
  <1>1. Ownership
    BY DEF Ownership, Types, Held, Apart, ReconcilerOwns, MakerOwns, Unused, PhaseShape, Present,
           Machine, Preheat
  <1>2. Counted = {} /\ Occupied = {}
    BY DEF Counted, Occupied
  <1> QED BY <1>1, <1>2, FS_EmptySet DEF PoolIInv, Capacity, CountExact, HardCap

\* Every step keeps the invariant.
LEMMA NextInv == PoolIInv /\ [PoolNext]_pvars => PoolIInv'
  <1> SUFFICES ASSUME PoolIInv, [PoolNext]_pvars PROVE PoolIInv'
    OBVIOUS
  <1>0. ASSUME Keeps PROVE PoolIInv'
    BY <1>0, ShrinksCapacity DEF Keeps, PoolIInv
  <1>1. CASE UNCHANGED pvars
    BY <1>0, <1>1, CalmKeeps DEF pvars
  <1>2. ASSUME NEW S \in SUBSET VM, StartPreheat(S) PROVE PoolIInv'
    BY <1>2, StartPreheatInv
  <1>3. ASSUME NEW w \in BuildWorker, Reserve(w) \/ WorkerStep(w) PROVE PoolIInv'
    BY <1>0, <1>3, WorkerKeeps
  <1>4. CASE ReconcileStep
    BY <1>0, <1>4, ReconcileKeeps, ReconcileCreateInv
  <1>5. ASSUME NEW v \in VM, MakerStep(v) PROVE PoolIInv'
    BY <1>0, <1>5, MakerKeeps, MakerEndsInv
  <1>6. CASE RunStep \/ PrepareFails
    BY <1>0, <1>6, RunKeeps, StartEndsInv, EndInv
  <1>7. CASE Interrupt
    BY <1>0, <1>7, CalmKeeps DEF Interrupt, poolVars
  <1>8. CASE ProcessEnds
    BY <1>8, EndInv
  <1> QED BY <1>1, <1>2, <1>3, <1>4, <1>5, <1>6, <1>7, <1>8 DEF PoolNext

\* The pool's books agree with its goroutines and with the hypervisor.
THEOREM PoolInvariance == PoolSpec => []PoolIInv
  BY InitInv, NextInv, PTL DEF PoolSpec

\* README: "Hard cap across creating, idle, and assigned VMs".  However many
\* calls of the hypervisor fail and whatever they leave behind, a runner never
\* has more than MaxInstances machines.
THEOREM CapHolds == PoolSpec => []HardCap
  <1>1. PoolIInv => HardCap
    BY DEF PoolIInv, Capacity
  <1> QED BY <1>1, PoolInvariance, PTL

\* README: "Each assigned VM is used once, even if source download or execution
\* fails"; and no two workers have the same one.
THEOREM SingleUse == PoolSpec => []OneBuildPerMachine
  <1>1. PoolIInv => OneBuildPerMachine
    BY DEF PoolIInv, Ownership, Unused, Apart, OneBuildPerMachine
  <1> QED BY <1>1, PoolInvariance, PTL

\* No two goroutines destroy the same machine, and none destroys one in use.
THEOREM OwnersDestroy == PoolSpec => []DestroyedByOwner
  <1>1. ASSUME PoolIInv, NEW v \in VM, NEW w \in BuildWorker, worker[w].vm = v, worker[w].at # "releasing"
        PROVE  Destroying(v) = {} /\ v \in vms
    BY <1>1, PoolAssumption DEF PoolIInv, Ownership, Types, Held, Apart, ReconcilerOwns, MakerOwns,
       PhaseShape, Present, Machine, Tracked, Preheat, Destroying
  <1>2. ASSUME PoolIInv, NEW v \in VM PROVE \E x : Destroying(v) \subseteq {x}
    <2> USE <1>2, PoolAssumption DEF PoolIInv, Ownership, Types, Held, Apart, ReconcilerOwns,
            MakerOwns, PhaseShape, Machine, Tracked, Preheat, Destroying
    <2>1. ASSUME NEW w \in BuildWorker, worker[w] = [at |-> "releasing", vm |-> v]
          PROVE  Destroying(v) \subseteq {<<"worker", w>>}
      BY <2>1
    <2>2. CASE rec = [at |-> "destroying", vm |-> v]
      <3>1. Destroying(v) \subseteq {<<"reconcile", v>>}
        BY <2>2
      <3> QED BY <3>1
    <2>3. CASE maker[v] = "removing"
      <3>1. Destroying(v) \subseteq {<<"maker", v>>}
        BY <2>3
      <3> QED BY <3>1
    <2>4. CASE /\ \A w \in BuildWorker : worker[w] # [at |-> "releasing", vm |-> v]
               /\ rec # [at |-> "destroying", vm |-> v]
               /\ maker[v] # "removing"
      <3>1. Destroying(v) \subseteq {<<"shutdown", v>>}
        BY <2>4
      <3> QED BY <3>1
    <2> HIDE DEF Destroying
    <2> QED BY <2>1, <2>2, <2>3, <2>4
  <1>3. ASSUME PoolIInv, NEW v \in VM PROVE Cardinality(Destroying(v)) <= 1
    <2>1. PICK x : Destroying(v) \in SUBSET {x}
      BY <1>3, <1>2
    <2>2. Cardinality(Destroying(v)) <= Cardinality({x})
      BY <2>1, FS_Singleton, FS_Subset
    <2> QED BY <2>2, FS_Singleton
  <1>4. PoolIInv => DestroyedByOwner
    BY <1>1, <1>3 DEF DestroyedByOwner
  <1> QED BY <1>4, PoolInvariance, PTL

-----------------------------------------------------------------------------------
(* The end of the runner. *)

\* A runner that has ended without an error has left no machine behind.
NothingLeft == phase = "stopped" /\ ~failed => vms = {}

\* Once stopped only Start changes what the hypervisor has: no worker, no
\* reconciliation and no goroutine that makes a machine is left.
LEMMA StoppedIsStill ==
    ASSUME PoolIInv, PoolNext, phase = "stopped", phase' = "stopped"
    PROVE  (vms' = vms /\ failed' = failed) \/ failed' = TRUE
  <1> USE DEF PoolIInv, Ownership, PhaseShape
  <1>1. /\ rec.at = "off" /\ \A v \in VM : maker[v] = "none"
        /\ \A w \in BuildWorker : worker[w].at \in {"off", "stopped"}
    OBVIOUS
  <1>2. CASE PrepareFails
    BY <1>2 DEF PrepareFails
  <1>3. ASSUME NEW S \in SUBSET VM, StartPreheat(S) PROVE FALSE
    BY <1>3 DEF StartPreheat
  <1>4. ASSUME NEW w \in BuildWorker, Reserve(w) \/ WorkerStep(w) PROVE FALSE
    BY <1>1, <1>4 DEF Reserve, WorkerStep, ReserveSleeps, WorkerCanceled, Healthy, Unhealthy,
       CheckCanceled, ClaimNothing, ClaimRefused, PollAgain, Assign, Run, destroyReleased, Released,
       ReleaseFails
  <1>5. CASE ReconcileStep
    BY <1>1, <1>5 DEF ReconcileStep, ReconcileCreate, ReconcileDestroy, ReconcileSleeps,
       ReconcileStops, Reconciled, ReconcileFails, ReconcileRetry, RecAt, poolVars, lifeVars
  <1>6. ASSUME NEW v \in VM, MakerStep(v) PROVE FALSE
    BY <1>1, <1>6 DEF MakerStep, Created, CreateFails, CreateLeavesRemains, Removed, RemoveFails,
       CountRetained, MakerEnds
  <1>7. CASE RunStep
    BY <1>7 DEF RunStep, PreheatCreate, Preheated, StartSucceeds, StartFails, Shutdown,
       ShutdownDestroys, Destroyed, DestroyFails, Cleanup
  <1>8. CASE Interrupt \/ ProcessEnds
    BY <1>8 DEF Interrupt, ProcessEnds
  <1> QED BY <1>2, <1>3, <1>4, <1>5, <1>6, <1>7, <1>8 DEF PoolNext

\* A runner stops by a failed Start, or by the cleanup of Shutdown.
LEMMA StopsEmpty ==
    ASSUME PoolIInv, PoolNext, phase # "stopped", phase' = "stopped"
    PROVE  vms' = {} \/ failed' = TRUE
  <1>1. PrepareFails \/ \E fails \in BOOLEAN : Cleanup(fails)
    <2>1. ASSUME NEW S \in SUBSET VM, StartPreheat(S) PROVE FALSE
      BY <2>1 DEF StartPreheat
    <2>2. ASSUME NEW w \in BuildWorker, Reserve(w) \/ WorkerStep(w) PROVE FALSE
      BY <2>2 DEF Reserve, WorkerStep, ReserveSleeps, WorkerCanceled, Healthy, Unhealthy,
         CheckCanceled, ClaimNothing, ClaimRefused, PollAgain, Assign, Run, destroyReleased,
         Released, ReleaseFails, lifeVars
    <2>3. ASSUME ReconcileStep PROVE FALSE
      BY <2>3 DEF ReconcileStep, ReconcileCreate, ReconcileDestroy, ReconcileSleeps,
         ReconcileStops, Reconciled, ReconcileFails, ReconcileRetry, lifeVars
    <2>4. ASSUME NEW v \in VM, MakerStep(v) PROVE FALSE
      BY <2>4 DEF MakerStep, Created, CreateFails, CreateLeavesRemains, Removed, RemoveFails,
         CountRetained, MakerEnds, lifeVars
    <2>5. ASSUME RunStep PROVE \E fails \in BOOLEAN : Cleanup(fails)
      BY <2>5 DEF RunStep, PreheatCreate, StartSucceeds, StartFails, Shutdown, ShutdownDestroys,
         Destroyed, DestroyFails, lifeVars
    <2>6. ASSUME Interrupt \/ ProcessEnds PROVE FALSE
      BY <2>6 DEF Interrupt, ProcessEnds
    <2> QED BY <2>1, <2>2, <2>3, <2>4, <2>5, <2>6 DEF PoolNext
  <1>2. CASE PrepareFails
    BY <1>2 DEF PrepareFails
  <1>3. ASSUME NEW fails \in BOOLEAN, Cleanup(fails) PROVE vms' = {} \/ failed' = TRUE
    <2>1. CASE fails
      BY <1>3, <2>1 DEF Cleanup
    <2>2. CASE ~fails
      BY <1>3, <2>2 DEF Cleanup, cleanupOwnedResources
    <2> QED BY <2>1, <2>2
  <1> QED BY <1>1, <1>2, <1>3

\* When Shutdown returns without an error, no machine is left, and no goroutine
\* that could still make one: whatever was being created, checked, built on or
\* destroyed when it was called, and whichever call of the hypervisor failed.
THEOREM ShutdownIsClean == PoolSpec => []ShutdownLeavesNothing
  <1>1. PoolInit => NothingLeft
    BY DEF PoolInit, NothingLeft
  <1>2. PoolIInv /\ NothingLeft /\ [PoolNext]_pvars => NothingLeft'
    <2> SUFFICES ASSUME PoolIInv, NothingLeft, [PoolNext]_pvars, phase' = "stopped", ~failed'
                 PROVE  vms' = {}
      BY DEF NothingLeft
    <2>1. CASE UNCHANGED pvars
      BY <2>1 DEF NothingLeft, pvars
    <2>2. CASE PoolNext /\ phase = "stopped"
      BY <2>2, StoppedIsStill DEF NothingLeft
    <2>3. CASE PoolNext /\ phase # "stopped"
      BY <2>3, StopsEmpty
    <2> QED BY <2>1, <2>2, <2>3
  <1>3. PoolIInv /\ NothingLeft => ShutdownLeavesNothing
    BY DEF PoolIInv, Ownership, PhaseShape, NothingLeft, ShutdownLeavesNothing
  <1> QED BY <1>1, <1>2, <1>3, PoolInvariance, PTL DEF PoolSpec
====================================================================================
