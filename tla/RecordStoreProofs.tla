--------------------------- MODULE RecordStoreProofs ---------------------------
(***************************************************************************)
(* What RecordStore promises, for any number of records, requests and      *)
(* comments; and, in the second part, what BranchOperations promises of    *)
(* the branches that these records name.                                   *)
(***************************************************************************)
EXTENDS RecordStore, TLAPS

\* Whoever is past the lock holds it.
Holds(w) == worker[w].pc \in {"locked", "write", "rename", "answer"} => lock = w

\* What a request carries before it has looked at the directory.
Prepared(w) ==
    worker[w].pc \in {"waiting", "locked"} =>
        /\ worker[w].op \in Op
        /\ worker[w].op # "create" => worker[w].id \in Id
        /\ worker[w].op = "create" =>
             /\ worker[w].record \in Record
             /\ worker[w].record.author = w /\ worker[w].record.state = "open"
             /\ worker[w].record.created = worker[w].record.updated

\* r is the next version of the file f: nothing has happened to the file since.
Follows(w, r, f) ==
    /\ r.record.created <= r.record.updated
    /\ r.op = "create" => f = Absent /\ r.record.author = w
    /\ r.op # "create" => /\ f \in Record
                          /\ r.record.author = f.author /\ r.record.pair = f.pair
                          /\ r.record.notes >= f.notes
    /\ r.op = "comment" => r.record.notes > f.notes

\* A version that is about to replace its file.
NextVersion(w) ==
    worker[w].pc \in {"write", "rename"} =>
        /\ worker[w].op \in Op /\ worker[w].id \in Id /\ worker[w].record \in Record
        /\ Follows(w, worker[w], file[worker[w].id])
        /\ ~Conflicts(worker[w].id, worker[w].record)

\* A version that replaced its file, and is not acknowledged yet.
Replaced(w) ==
    worker[w].pc = "answer" =>
        /\ worker[w].op \in Op /\ worker[w].id \in Id /\ worker[w].record \in Record
        /\ worker[w].id \notin spoiled => file[worker[w].id] = worker[w].record
        /\ file[worker[w].id] # Absent
        /\ worker[w].op = "create" => worker[w].record.author = w
        /\ worker[w].op = "comment" => answered[worker[w].id].notes < worker[w].record.notes

\* What was acknowledged, related to the file.
Filed(id) ==
    /\ id \in spoiled <=> file[id] = Damaged
    /\ file[id] = Absent => answered[id] = [author |-> None, notes |-> 0]
    /\ file[id] \in Record =>
         /\ answered[id].notes <= file[id].notes
         /\ answered[id].author # None => answered[id].author = file[id].author

WorkerInv(w) == Holds(w) /\ Prepared(w) /\ NextVersion(w) /\ Replaced(w)

IInv ==
    /\ TypeOK
    /\ \A w \in Worker : WorkerInv(w)
    /\ \A id \in Id : Filed(id)
    /\ OneOpenPerPair

-----------------------------------------------------------------------------
LEMMA ReadableIsRecord == TypeOK => \A id \in Id : Readable(id) <=> file[id] \in Record
  BY RecordAssumption DEF TypeOK, Readable

LEMMA InitIInv == Init => IInv
  <1> SUFFICES ASSUME Init PROVE IInv
    OBVIOUS
  <1> USE RecordAssumption DEF Init, Idle
  <1>1. TypeOK
    BY DEF TypeOK, Time, Pc, Readable
  <1>2. \A w \in Worker : WorkerInv(w)
    BY DEF WorkerInv, Holds, Prepared, NextVersion, Replaced
  <1>3. \A id \in Id : Filed(id)
    BY DEF Filed
  <1>4. OneOpenPerPair
    BY DEF OneOpenPerPair, Listed, Readable
  <1> QED
    BY <1>1, <1>2, <1>3, <1>4 DEF IInv

WorkerType == [pc : Pc, op : Op \cup {None}, id : 0 .. MaxId, record : Record \cup {None}]

\* A step of w that touches neither files nor answers, and no lock of others, keeps
\* what the invariant says of everything but w.
LEMMA Frame ==
  ASSUME IInv, NEW w \in Worker, NEW r \in WorkerType, worker' = [worker EXCEPT ![w] = r],
         UNCHANGED <<file, spoiled, answered, clock>>,
         lock' = lock \/ (lock \in {None, w} /\ lock' \in {None, w}),
         WorkerInv(w)'
  PROVE  IInv'
  <1>1. worker'[w] = r /\ \A v \in Worker \ {w} : worker'[v] = worker[v]
    BY DEF IInv, TypeOK
  <1>2. TypeOK'
    BY DEF IInv, TypeOK, Readable, WorkerType
  <1>3. ASSUME NEW v \in Worker \ {w} PROVE WorkerInv(v)'
    <2>1. WorkerInv(v) /\ worker'[v] = worker[v]
      BY <1>1 DEF IInv
    <2>2. Holds(v)'
      BY <2>1, RecordAssumption DEF WorkerInv, Holds
    <2>3. Prepared(v)'
      BY <2>1 DEF WorkerInv, Prepared
    <2>4. NextVersion(v)'
      BY <2>1 DEF WorkerInv, NextVersion, Follows, Conflicts, Duplicate, Listed, Readable
    <2>5. Replaced(v)'
      BY <2>1 DEF WorkerInv, Replaced
    <2> QED
      BY <2>2, <2>3, <2>4, <2>5 DEF WorkerInv
  <1>4. ASSUME NEW id \in Id PROVE Filed(id)'
    BY DEF IInv, Filed
  <1>5. OneOpenPerPair'
    BY DEF IInv, OneOpenPerPair, Listed, Readable
  <1> QED
    BY <1>2, <1>3, <1>4, <1>5 DEF IInv

LEMMA IdleIsType == Idle \in WorkerType
  BY RecordAssumption DEF Idle, WorkerType, Pc

\* Giving up is always possible.
LEMMA LeaveStep ==
  ASSUME IInv, NEW w \in Worker, lock = w, Leave(w),
         UNCHANGED <<file, spoiled, answered, clock>>
  PROVE  IInv'
  <1>1. worker'[w] = Idle
    BY DEF IInv, TypeOK, Leave, Set
  <1>2. WorkerInv(w)'
    BY <1>1 DEF WorkerInv, Holds, Prepared, NextVersion, Replaced, Idle
  <1> QED
    BY <1>2, IdleIsType, Frame DEF Leave, Set

LEMMA RequestStep ==
  ASSUME IInv, NEW w \in Worker, Create(w) \/ Update(w)
  PROVE  IInv'
  <1>1. PICK r \in WorkerType :
          /\ worker' = [worker EXCEPT ![w] = r]
          /\ r.pc = "waiting" /\ r.op \in Op
          /\ r.op # "create" => r.id \in Id
          /\ r.op = "create" => /\ r.record \in Record
                                /\ r.record.author = w /\ r.record.state = "open"
                                /\ r.record.created = r.record.updated
    <2>1. CASE Create(w)
      <3>1. PICK pair \in Pair :
              Set(w, [pc |-> "waiting", op |-> "create", id |-> 0,
                      record |-> [author |-> w, pair |-> pair, state |-> "open", notes |-> 0,
                                  created |-> clock, updated |-> clock]])
        BY <2>1 DEF Create
      <3> DEFINE rec == [author |-> w, pair |-> pair, state |-> "open", notes |-> 0,
                         created |-> clock, updated |-> clock]
      <3>2. rec \in Record
        BY RecordAssumption DEF Record, IInv, TypeOK
      <3>3. [pc |-> "waiting", op |-> "create", id |-> 0, record |-> rec] \in WorkerType
        BY <3>2, RecordAssumption DEF WorkerType, Pc, Op
      <3> HIDE DEF rec
      <3>4. Set(w, [pc |-> "waiting", op |-> "create", id |-> 0, record |-> rec])
        BY <3>1 DEF rec
      <3>5. rec.author = w /\ rec.state = "open" /\ rec.created = rec.updated
        BY DEF rec
      <3> QED
        BY <3>2, <3>3, <3>4, <3>5 DEF Set, Op
    <2>2. CASE Update(w)
      <3>1. PICK op \in Op \ {"create"}, id \in Id :
              Set(w, [pc |-> "waiting", op |-> op, id |-> id, record |-> None])
        BY <2>2 DEF Update
      <3>2. [pc |-> "waiting", op |-> op, id |-> id, record |-> None] \in WorkerType
        BY RecordAssumption DEF WorkerType, Pc, Id
      <3> QED
        BY <3>1, <3>2 DEF Set
    <2> QED
      BY <2>1, <2>2
  <1>2. worker'[w] = r
    BY <1>1 DEF IInv, TypeOK
  <1>3. WorkerInv(w)'
    BY <1>1, <1>2 DEF WorkerInv, Holds, Prepared, NextVersion, Replaced
  <1> QED
    BY <1>1, <1>3, Frame DEF Create, Update
LEMMA EnterStep ==
  ASSUME IInv, NEW w \in Worker, Enter(w)
  PROVE  IInv'
  <1> DEFINE r == [worker[w] EXCEPT !.pc = "locked"]
  <1>1. WorkerInv(w) /\ worker[w] \in WorkerType
    BY DEF IInv, TypeOK, WorkerType
  <1>2. r \in WorkerType /\ worker' = [worker EXCEPT ![w] = r] /\ worker'[w] = r
    BY <1>1 DEF Enter, Set, WorkerType, Pc, IInv, TypeOK
  <1>3. WorkerInv(w)'
    BY <1>1, <1>2
       DEF Enter, WorkerInv, Holds, Prepared, NextVersion, Replaced, WorkerType
  <1> QED
    BY <1>2, <1>3, Frame DEF Enter

\* What Number and Change leave to be written.
LEMMA ToWrite ==
  ASSUME IInv, NEW w \in Worker, NEW r \in WorkerType, lock = w, lock' = lock,
         UNCHANGED <<file, spoiled, answered, clock>>, worker' = [worker EXCEPT ![w] = r],
         r.pc = "write", r.op \in Op, r.id \in Id, r.record \in Record,
         Follows(w, r, file[r.id]), ~Conflicts(r.id, r.record)
  PROVE  IInv'
  <1>1. worker'[w] = r
    BY DEF IInv, TypeOK
  <1>2. NextVersion(w)'
    BY <1>1 DEF NextVersion, Follows, Conflicts, Duplicate, Listed, Readable
  <1>3. WorkerInv(w)'
    BY <1>1, <1>2 DEF WorkerInv, Holds, Prepared, Replaced
  <1> QED
    BY <1>3, Frame

LEMMA NumberStep ==
  ASSUME IInv, NEW w \in Worker, Number(w)
  PROVE  IInv'
  <1>1. /\ WorkerInv(w) /\ worker[w] \in WorkerType /\ worker[w].pc = "locked"
        /\ worker[w].op = "create"
    BY DEF IInv, TypeOK, WorkerType, Number
  <1>2. /\ lock = w /\ worker[w].record \in Record
        /\ worker[w].record.author = w /\ worker[w].record.state = "open"
        /\ worker[w].record.created = worker[w].record.updated
    BY <1>1 DEF WorkerInv, Holds, Prepared
  <1>3. UNCHANGED <<file, spoiled, answered, clock>>
    BY DEF Number
  <1>4. CASE Leave(w)
    BY <1>2, <1>3, <1>4, LeaveStep
  <1>5. CASE ~Leave(w)
    <2>1. PICK id \in Free : Set(w, [worker[w] EXCEPT !.pc = "write", !.id = id])
      BY <1>5 DEF Number
    <2>2. ~Duplicate(0, worker[w].record.pair) /\ lock' = lock
      BY <1>5 DEF Number
    <2> DEFINE r == [worker[w] EXCEPT !.pc = "write", !.id = id]
    <2>3. id \in Id /\ file[id] = Absent
      BY <2>1 DEF Free
    <2>4. /\ r \in WorkerType /\ r.pc = "write" /\ r.op = "create" /\ r.id = id
          /\ r.record = worker[w].record
      <3>1. id \in 0 .. MaxId
        BY <2>3, RecordAssumption DEF Id
      <3> QED
        BY <1>1, <3>1 DEF WorkerType, Pc
    <2>5. ~Duplicate(id, worker[w].record.pair)
      <3>1. Listed \ {id} \subseteq Listed \ {0}
        BY RecordAssumption DEF Listed, Id
      <3> QED
        BY <2>2, <3>1 DEF Duplicate
    <2> HIDE DEF r
    <2>6. Follows(w, r, file[r.id])
      BY <1>2, <2>3, <2>4 DEF Follows, Record, Time
    <2>7. ~Conflicts(r.id, r.record)
      BY <2>4, <2>5 DEF Conflicts
    <2>8. worker' = [worker EXCEPT ![w] = r]
      BY <2>1 DEF Set, r
    <2> QED
      BY <1>2, <1>3, <2>2, <2>3, <2>4, <2>6, <2>7, <2>8, ToWrite DEF Op
  <1> QED
    BY <1>4, <1>5

LEMMA AppliedKeeps ==
  ASSUME NEW g \in Record, NEW t \in Time, NEW op \in {"comment", "close", "reopen"},
         op = "comment" => g.notes + 1 \in 0 .. MaxNotes
  PROVE  LET c == [Applied(op, g) EXCEPT !.updated = t]
         IN  /\ c \in Record /\ c.author = g.author /\ c.pair = g.pair /\ c.notes >= g.notes
             /\ op = "comment" => c.notes > g.notes
  <1> USE RecordAssumption
  <1>1. g.notes \in Nat
    BY DEF Record
  <1>2. CASE op = "comment"
    <2> DEFINE h == [g EXCEPT !.notes = g.notes + 1]
    <2>1. Applied(op, g) = h
      BY <1>2 DEF Applied
    <2>2. h \in Record /\ h.author = g.author /\ h.pair = g.pair /\ h.notes = g.notes + 1
      BY <1>2 DEF Record
    <2> HIDE DEF h
    <2>3. h.notes > g.notes /\ h.notes >= g.notes
      BY <1>1, <2>2
    <2> DEFINE c == [h EXCEPT !.updated = t]
    <2>4. c \in Record /\ c.author = h.author /\ c.pair = h.pair /\ c.notes = h.notes
      BY <2>2 DEF Record
    <2>5. c = [Applied(op, g) EXCEPT !.updated = t]
      BY <2>1
    <2> HIDE DEF c
    <2> QED
      BY <2>2, <2>3, <2>4, <2>5
  <1>3. CASE op \in {"close", "reopen"}
    <2>1. PICK st \in {"open", "closed"} : Applied(op, g) = [g EXCEPT !.state = st]
      BY <1>3 DEF Applied
    <2> DEFINE c == [[g EXCEPT !.state = st] EXCEPT !.updated = t]
    <2>2. c \in Record /\ c.author = g.author /\ c.pair = g.pair /\ c.notes = g.notes
      BY DEF Record
    <2>3. c = [Applied(op, g) EXCEPT !.updated = t]
      BY <2>1
    <2> HIDE DEF c
    <2> QED
      BY <1>1, <1>3, <2>2, <2>3
  <1> QED
    BY <1>2, <1>3

LEMMA ChangeStep ==
  ASSUME IInv, NEW w \in Worker, Change(w)
  PROVE  IInv'
  <1> DEFINE f == file[worker[w].id]
             changed == [Applied(worker[w].op, f) EXCEPT !.updated = clock]
             r == [worker[w] EXCEPT !.pc = "write", !.record = changed]
  <1>1. /\ WorkerInv(w) /\ worker[w] \in WorkerType /\ worker[w].pc = "locked"
        /\ worker[w].op # "create"
    BY DEF IInv, TypeOK, WorkerType, Change
  <1>2. lock = w /\ worker[w].id \in Id /\ worker[w].op \in Op
    BY <1>1 DEF WorkerInv, Holds, Prepared
  <1>3. UNCHANGED <<file, spoiled, answered, clock>>
    BY DEF Change
  <1>4. CASE Leave(w)
    BY <1>2, <1>3, <1>4, LeaveStep
  <1>5. CASE ~Leave(w)
    <2>1. /\ Readable(worker[w].id)
          /\ worker[w].op = "comment" => f.notes < MaxNotes
          /\ Valid(changed) /\ ~Conflicts(worker[w].id, changed)
          /\ Set(w, r) /\ lock' = lock
      BY <1>5 DEF Change
    <2>2. f \in Record
      BY <1>2, <2>1, ReadableIsRecord DEF IInv
    <2>3. /\ changed \in Record /\ changed.author = f.author /\ changed.pair = f.pair
          /\ changed.notes >= f.notes
          /\ worker[w].op = "comment" => changed.notes > f.notes
      <3>1. worker[w].op \in {"comment", "close", "reopen"}
        BY <1>1, <1>2 DEF Op
      <3>2. clock \in Time /\ f.notes \in Nat
        BY <2>2, RecordAssumption DEF IInv, TypeOK, Record
      <3>3. worker[w].op = "comment" => f.notes + 1 \in 0 .. MaxNotes
        BY <2>1, <3>2, RecordAssumption
      <3> QED
        BY <2>2, <3>1, <3>2, <3>3, AppliedKeeps
    <2> HIDE DEF changed
    <2>4. changed.created <= changed.updated
      BY <2>1, <2>3, RecordAssumption DEF Valid, Record, Time
    <2>5. /\ r \in WorkerType /\ r.pc = "write" /\ r.op = worker[w].op /\ r.id = worker[w].id
          /\ r.record = changed
      BY <1>1, <2>3 DEF WorkerType, Pc
    <2>6. worker' = [worker EXCEPT ![w] = r]
      BY <2>1 DEF Set
    <2> HIDE DEF r
    <2>7. Follows(w, r, file[r.id])
      BY <1>1, <2>2, <2>3, <2>4, <2>5 DEF Follows
    <2> QED
      BY <1>2, <1>3, <2>1, <2>3, <2>5, <2>6, <2>7, ToWrite
  <1> QED
    BY <1>4, <1>5
LEMMA WriteStep ==
  ASSUME IInv, NEW w \in Worker, Write(w)
  PROVE  IInv'
  <1>1. WorkerInv(w) /\ worker[w] \in WorkerType /\ worker[w].pc = "write"
    BY DEF IInv, TypeOK, WorkerType, Write
  <1>2. lock = w
    BY <1>1 DEF WorkerInv, Holds
  <1>3. UNCHANGED <<file, spoiled, answered, clock>>
    BY DEF Write
  <1>4. CASE Leave(w)
    BY <1>2, <1>3, <1>4, LeaveStep
  <1>5. CASE Set(w, [worker[w] EXCEPT !.pc = "rename"]) /\ UNCHANGED lock
    <2> DEFINE r == [worker[w] EXCEPT !.pc = "rename"]
    <2>1. r \in WorkerType /\ worker' = [worker EXCEPT ![w] = r] /\ worker'[w] = r
      BY <1>1, <1>5 DEF Set, WorkerType, Pc, IInv, TypeOK
    <2>2. /\ r.pc = "rename" /\ r.op = worker[w].op /\ r.id = worker[w].id
          /\ r.record = worker[w].record
      BY <1>1 DEF WorkerType
    <2> HIDE DEF r
    <2>3. NextVersion(w)'
      BY <1>1, <1>3, <2>1, <2>2
         DEF WorkerInv, NextVersion, Follows, Conflicts, Duplicate, Listed, Readable
    <2>4. WorkerInv(w)'
      BY <1>2, <1>5, <2>1, <2>2, <2>3 DEF WorkerInv, Holds, Prepared, Replaced
    <2> QED
      BY <1>3, <1>5, <2>1, <2>4, Frame
  <1> QED
    BY <1>4, <1>5 DEF Write

\* The others wait for the lock, or do nothing.
LEMMA OthersWait ==
  ASSUME IInv, NEW w \in Worker, lock = w, NEW v \in Worker \ {w}
  PROVE  worker[v].pc \in {"idle", "waiting"}
  BY DEF IInv, TypeOK, WorkerInv, Holds, Pc

LEMMA OthersUndisturbed ==
  ASSUME IInv, NEW w \in Worker, lock = w, NEW v \in Worker \ {w}, worker'[v] = worker[v]
  PROVE  WorkerInv(v)'
  <1>1. worker[v].pc \in {"idle", "waiting"} /\ WorkerInv(v)
    BY OthersWait DEF IInv
  <1> QED
    BY <1>1 DEF WorkerInv, Holds, Prepared, NextVersion, Replaced

LEMMA RenameStep ==
  ASSUME IInv, NEW w \in Worker, Rename(w)
  PROVE  IInv'
  <1> DEFINE id == worker[w].id
             rec == worker[w].record
  <1>1. WorkerInv(w) /\ worker[w] \in WorkerType /\ worker[w].pc = "rename"
    BY DEF IInv, TypeOK, WorkerType, Rename
  <1>2. lock = w
    BY <1>1 DEF WorkerInv, Holds
  <1>3. UNCHANGED <<spoiled, answered, clock>>
    BY DEF Rename
  <1>4. CASE Leave(w) /\ UNCHANGED file
    BY <1>2, <1>3, <1>4, LeaveStep
  <1>5. CASE /\ file' = [file EXCEPT ![id] = rec]
             /\ Set(w, [worker[w] EXCEPT !.pc = "answer"]) /\ UNCHANGED lock
    <2> DEFINE r == [worker[w] EXCEPT !.pc = "answer"]
    <2>1. r \in WorkerType /\ worker' = [worker EXCEPT ![w] = r] /\ worker'[w] = r
      BY <1>1, <1>5 DEF Set, WorkerType, Pc, IInv, TypeOK
    <2>2. /\ r.pc = "answer" /\ r.op = worker[w].op /\ r.id = id /\ r.record = rec
      BY <1>1 DEF WorkerType
    <2> HIDE DEF r
    <2>3. /\ worker[w].op \in Op /\ id \in Id /\ rec \in Record
          /\ Follows(w, worker[w], file[id]) /\ ~Conflicts(id, rec)
      BY <1>1 DEF WorkerInv, NextVersion
    <2>4. file'[id] = rec /\ \A other \in Id \ {id} : file'[other] = file[other]
      BY <1>5, <2>3 DEF IInv, TypeOK
    <2>5. Filed(id)
      BY <2>3 DEF IInv
    <2>6. rec.notes \in Nat /\ rec # Absent /\ rec # Damaged
      BY <2>3, RecordAssumption DEF Record
    <2>7. file[id] = Absent \/ file[id] \in Record
      BY <2>3 DEF Follows
    <2>8. id \notin spoiled
      BY <2>5, <2>7, RecordAssumption DEF Filed
    <2>9. answered[id].notes \in Nat
      BY <2>3, RecordAssumption DEF IInv, TypeOK
    <2>10. answered[id].notes <= rec.notes /\ (answered[id].author # None => answered[id].author = rec.author)
      <3>1. CASE worker[w].op = "create"
        BY <2>3, <2>5, <2>6, <3>1 DEF Follows, Filed
      <3>2. CASE worker[w].op # "create"
        <4>1. file[id] \in Record /\ file[id].notes \in Nat
          BY <2>3, <3>2, RecordAssumption DEF Follows, Record
        <4> QED
          BY <2>3, <2>5, <2>6, <2>9, <3>2, <4>1 DEF Follows, Filed
      <3> QED
        BY <3>1, <3>2
    <2>11. worker[w].op = "comment" => answered[id].notes < rec.notes
      <3>1. SUFFICES ASSUME worker[w].op = "comment" PROVE answered[id].notes < rec.notes
        OBVIOUS
      <3>2. file[id] \in Record /\ file[id].notes \in Nat
        BY <2>3, <3>1, RecordAssumption DEF Follows, Record
      <3> QED
        BY <2>3, <2>5, <2>6, <2>9, <3>1, <3>2 DEF Follows, Filed
    <2>12. WorkerInv(w)'
      <3>1. Replaced(w)'
        BY <1>3, <2>1, <2>2, <2>3, <2>4, <2>6, <2>11 DEF Replaced, Follows
      <3> QED
        BY <1>2, <1>5, <2>1, <2>2, <3>1 DEF WorkerInv, Holds, Prepared, NextVersion
    <2>13. \A v \in Worker \ {w} : WorkerInv(v)'
      <3>1. \A v \in Worker \ {w} : worker'[v] = worker[v]
        BY <2>1 DEF IInv, TypeOK
      <3> QED
        BY <1>2, <3>1, OthersUndisturbed
    <2>14. \A other \in Id : Filed(other)'
      <3>1. ASSUME NEW other \in Id, other = id PROVE Filed(other)'
        BY <1>3, <2>4, <2>6, <2>8, <2>10, <3>1 DEF Filed
      <3>2. ASSUME NEW other \in Id, other # id PROVE Filed(other)'
        BY <1>3, <2>4, <3>2 DEF Filed, IInv
      <3> QED
        BY <3>1, <3>2
    <2>15. TypeOK'
      <3>1. file' \in [Id -> Record \cup {Absent, Damaged}]
        BY <1>5, <2>3 DEF IInv, TypeOK
      <3>2. \A other \in Id : Readable(other)' => file'[other].created <= file'[other].updated
        BY <2>3, <2>4 DEF IInv, TypeOK, Readable, Follows
      <3>3. worker' \in [Worker -> WorkerType]
        BY <2>1 DEF IInv, TypeOK, WorkerType
      <3> QED
        BY <1>3, <1>5, <3>1, <3>2, <3>3 DEF IInv, TypeOK, WorkerType
    <2>16. OneOpenPerPair'
      <3>1. SUFFICES ASSUME OneOpen, NEW i \in Listed', NEW j \in Listed',
                            file'[i].state = "open", file'[j].state = "open",
                            file'[i].pair = file'[j].pair, i # j
                     PROVE  FALSE
        BY DEF OneOpenPerPair
      <3>2. \A other \in Listed' : other # id => other \in Listed /\ file'[other] = file[other]
        BY <2>4 DEF Listed, Readable
      <3>3. CASE i # id /\ j # id
        BY <3>1, <3>2, <3>3 DEF IInv, OneOpenPerPair
      <3>4. ASSUME NEW other \in Listed', other # id, rec.state = "open",
                   file'[other].state = "open", file'[other].pair = rec.pair
            PROVE  FALSE
        BY <2>3, <3>1, <3>2, <3>4 DEF Conflicts, Duplicate
      <3> QED
        BY <2>4, <3>1, <3>3, <3>4
    <2> QED
      BY <2>12, <2>13, <2>14, <2>15, <2>16 DEF IInv
  <1> QED
    BY <1>4, <1>5 DEF Rename
LEMMA AnswerStep ==
  ASSUME IInv, NEW w \in Worker, Answer(w)
  PROVE  IInv'
  <1>1. PICK i : i = worker[w].id
    OBVIOUS
  <1>2. PICK r : r = worker[w]
    OBVIOUS
  <1>3. WorkerInv(w) /\ r.pc = "answer"
    BY <1>2 DEF IInv, Answer
  <1>4. /\ lock = w /\ r.op \in Op /\ i \in Id /\ r.record \in Record
        /\ i \notin spoiled => file[i] = r.record
        /\ file[i] # Absent
        /\ r.op = "create" => r.record.author = w
        /\ r.op = "comment" => answered[i].notes < r.record.notes
    BY <1>1, <1>2, <1>3 DEF WorkerInv, Holds, Replaced
  <1>5. /\ UNCHANGED <<file, spoiled, clock>>
        /\ lock' = None /\ worker' = [worker EXCEPT ![w] = Idle]
        /\ worker'[w] = Idle /\ \A v \in Worker \ {w} : worker'[v] = worker[v]
    BY DEF Answer, Leave, Set, IInv, TypeOK
  <1>6. /\ answered[i] \in [author : Worker \cup {None}, notes : 0 .. MaxNotes]
        /\ answered[i].notes \in Nat /\ r.record.notes \in Nat /\ r.record.notes <= MaxNotes
    BY <1>4, RecordAssumption DEF IInv, TypeOK, Record
  <1>7. /\ answered' = [answered EXCEPT ![i] = answered'[i]]
        /\ r.op = "comment" => answered'[i] = [answered[i] EXCEPT !.notes = answered[i].notes + 1]
        /\ r.op = "create" => answered'[i] = [author |-> w, notes |-> 0]
        /\ r.op \notin {"comment", "create"} => answered'[i] = answered[i]
    <2> DEFINE a == Acknowledged(w, r, answered[i])
    <2>1. answered' = [answered EXCEPT ![i] = a]
      BY <1>1, <1>2 DEF Answer
    <2>2. answered'[i] = a
      BY <1>4, <2>1 DEF IInv, TypeOK
    <2> QED
      BY <2>1, <2>2 DEF Acknowledged
  <1>8. answered'[i] \in [author : Worker \cup {None}, notes : 0 .. MaxNotes]
    BY <1>4, <1>6, <1>7, RecordAssumption
  <1>9. \A other \in Id \ {i} : answered'[other] = answered[other]
    BY <1>7 DEF IInv, TypeOK
  <1>10. TypeOK'
    <2>1. answered' \in [Id -> [author : Worker \cup {None}, notes : 0 .. MaxNotes]]
      BY <1>4, <1>7, <1>8 DEF IInv, TypeOK
    <2>2. worker' \in [Worker -> WorkerType]
      BY <1>5, IdleIsType DEF IInv, TypeOK, WorkerType
    <2> QED
      BY <1>5, <2>1, <2>2 DEF IInv, TypeOK, Readable, WorkerType
  <1>11. \A v \in Worker : WorkerInv(v)'
    <2>1. WorkerInv(w)'
      BY <1>5 DEF WorkerInv, Holds, Prepared, NextVersion, Replaced, Idle
    <2> QED
      BY <1>4, <1>5, <2>1, OthersUndisturbed
  <1>12. ASSUME NEW other \in Id PROVE Filed(other)'
    <2>1. Filed(other)
      BY DEF IInv
    <2>2. CASE other # i
      BY <1>5, <1>9, <2>1, <2>2 DEF Filed
    <2>3. CASE other = i /\ file[i] \notin Record
      BY <1>4, <1>5, <2>1, <2>3 DEF Filed
    <2>4. CASE other = i /\ file[i] \in Record
      <3>1. file[i] = r.record /\ file[i] # Damaged
        BY <1>4, <2>1, <2>4, RecordAssumption DEF Filed
      <3>2. CASE r.op = "comment"
        BY <1>4, <1>5, <1>6, <1>7, <2>1, <2>4, <3>1, <3>2, RecordAssumption DEF Filed
      <3>3. CASE r.op = "create"
        BY <1>4, <1>5, <1>6, <1>7, <2>1, <2>4, <3>1, <3>3, RecordAssumption DEF Filed
      <3>4. CASE r.op \notin {"comment", "create"}
        BY <1>4, <1>5, <1>7, <2>1, <2>4, <3>1, <3>4, RecordAssumption DEF Filed
      <3> QED
        BY <3>2, <3>3, <3>4
    <2> QED
      BY <2>2, <2>3, <2>4
  <1>13. OneOpenPerPair'
    BY <1>5 DEF IInv, OneOpenPerPair, Listed, Readable
  <1> QED
    BY <1>10, <1>11, <1>12, <1>13 DEF IInv

LEMMA CrashStep ==
  ASSUME IInv, Crash
  PROVE  IInv'
  <1>1. TypeOK'
    BY IdleIsType, RecordAssumption DEF IInv, Crash, TypeOK, WorkerType, Readable
  <1>2. \A w \in Worker : WorkerInv(w)'
    BY DEF Crash, Idle, WorkerInv, Holds, Prepared, NextVersion, Replaced
  <1>3. \A id \in Id : Filed(id)'
    BY DEF IInv, Crash, Filed
  <1>4. OneOpenPerPair'
    BY DEF IInv, Crash, OneOpenPerPair, Listed, Readable
  <1> QED
    BY <1>1, <1>2, <1>3, <1>4 DEF IInv

LEMMA ClockStep ==
  ASSUME IInv, SetClock
  PROVE  IInv'
  <1>1. TypeOK'
    BY DEF IInv, SetClock, TypeOK, Readable
  <1>2. \A w \in Worker : WorkerInv(w)'
    BY DEF IInv, SetClock, WorkerInv, Holds, Prepared, NextVersion, Replaced, Follows,
       Conflicts, Duplicate, Listed, Readable
  <1>3. \A id \in Id : Filed(id)'
    BY DEF IInv, SetClock, Filed
  <1>4. OneOpenPerPair'
    BY DEF IInv, SetClock, OneOpenPerPair, Listed, Readable
  <1> QED
    BY <1>1, <1>2, <1>3, <1>4 DEF IInv

\* A damaged record only leaves the list.
LEMMA SpoilStep ==
  ASSUME IInv, NEW id \in Id, Spoil(id)
  PROVE  IInv'
  <1>1. /\ file'[id] = Damaged /\ \A other \in Id \ {id} : file'[other] = file[other]
        /\ spoiled' = spoiled \cup {id} /\ UNCHANGED <<clock, lock, worker, answered>>
    BY DEF IInv, TypeOK, Spoil
  <1>2. Listed' = Listed \ {id} /\ \A other \in Listed' : file'[other] = file[other]
    BY <1>1 DEF Listed, Readable
  <1>3. TypeOK'
    BY <1>1 DEF IInv, TypeOK, Spoil, Readable
  <1>4. ASSUME NEW w \in Worker PROVE WorkerInv(w)'
    <2>1. WorkerInv(w)
      BY DEF IInv
    <2>2. Holds(w)' /\ Prepared(w)'
      BY <1>1, <2>1 DEF WorkerInv, Holds, Prepared
    <2>3. NextVersion(w)'
      <3>1. SUFFICES ASSUME worker[w].pc \in {"write", "rename"} PROVE NextVersion(w)'
        BY <1>1 DEF NextVersion
      <3>2. worker[w].id # id /\ worker[w].id \in Id
        BY <2>1, <3>1 DEF Spoil, WorkerInv, NextVersion
      <3>3. ~Conflicts(worker[w].id, worker[w].record)'
        BY <1>1, <1>2, <2>1, <3>1 DEF WorkerInv, NextVersion, Conflicts, Duplicate
      <3> QED
        BY <1>1, <2>1, <3>1, <3>2, <3>3 DEF WorkerInv, NextVersion, Follows
    <2>4. Replaced(w)'
      BY <1>1, <2>1, RecordAssumption DEF WorkerInv, Replaced
    <2> QED
      BY <2>2, <2>3, <2>4 DEF WorkerInv
  <1>5. ASSUME NEW other \in Id PROVE Filed(other)'
    BY <1>1, RecordAssumption DEF IInv, Filed
  <1>6. OneOpenPerPair'
    BY <1>2 DEF IInv, OneOpenPerPair
  <1> QED
    BY <1>3, <1>4, <1>5, <1>6 DEF IInv

LEMMA NextIInv == IInv /\ [Next]_vars => IInv'
  <1> SUFFICES ASSUME IInv, [Next]_vars PROVE IInv'
    OBVIOUS
  <1>1. CASE UNCHANGED vars
    <2>1. TypeOK'
      BY <1>1 DEF vars, IInv, TypeOK, Readable
    <2>2. \A w \in Worker : WorkerInv(w)'
      BY <1>1 DEF vars, IInv, WorkerInv, Holds, Prepared, NextVersion, Replaced, Follows,
         Conflicts, Duplicate, Listed, Readable
    <2>3. (\A id \in Id : Filed(id)') /\ OneOpenPerPair'
      BY <1>1 DEF vars, IInv, Filed, OneOpenPerPair, Listed, Readable
    <2> QED
      BY <2>1, <2>2, <2>3 DEF IInv
  <1> QED
    BY <1>1, ClockStep, CrashStep, SpoilStep, RequestStep, EnterStep, NumberStep, ChangeStep,
       WriteStep, RenameStep, AnswerStep DEF Next

-----------------------------------------------------------------------------
(* Theorems. *)

\* The inductive invariant: a version about to be written still follows the version
\* on disk, which no other request has touched, whatever was damaged meanwhile.
THEOREM Invariance == Spec => []IInv
  BY InitIInv, NextIInv, PTL DEF Spec

\* Files and requests are always well formed, and times ordered.
THEOREM TypeCorrect == Spec => []TypeOK
  <1>1. IInv => TypeOK
    BY DEF IInv
  <1> QED
    BY <1>1, Invariance, PTL

\* At most one open merge request reviews a source and a target.
THEOREM SingleOpen == Spec => []OneOpenPerPair
  <1>1. IInv => OneOpenPerPair
    BY DEF IInv
  <1> QED
    BY <1>1, Invariance, PTL

\* Acknowledged records and comments survive later writers and crashes.
THEOREM Durable == Spec => []AcknowledgedKept
  <1>1. IInv => AcknowledgedKept
    <2> SUFFICES ASSUME IInv, NEW id \in Id \ spoiled, answered[id].author # None
                 PROVE  /\ Readable(id)
                        /\ file[id].author = answered[id].author
                        /\ file[id].notes >= answered[id].notes
      BY DEF AcknowledgedKept
    <2>1. Filed(id) /\ file[id] \in Record \cup {Absent, Damaged}
      BY DEF IInv, TypeOK
    <2>2. file[id] \in Record
      BY <2>1 DEF Filed
    <2>3. file[id].notes \in Nat /\ answered[id].notes \in Nat
      BY <2>2, RecordAssumption DEF IInv, TypeOK, Record
    <2> QED
      BY <2>1, <2>2, <2>3, RecordAssumption DEF Filed, Readable
  <1> QED
    BY <1>1, Invariance, PTL

\* A number is given once: files are only replaced by later versions of themselves.
THEOREM NeverOverwritten == Spec => NothingOverwritten
  <1> DEFINE Kept(id) ==
        file[id] # Absent =>
          \/ file'[id] = file[id]
          \/ id \in spoiled' \ spoiled
          \/ /\ file[id] # Damaged
             /\ file'[id] \in Record
             /\ file'[id].author = file[id].author /\ file'[id].pair = file[id].pair
             /\ file'[id].notes >= file[id].notes
  <1>1. ASSUME IInv, [Next]_vars PROVE [\A id \in Id : Kept(id)]_vars
    <2> USE <1>1
    <2> SUFFICES ASSUME Next, NEW id \in Id PROVE Kept(id)
      OBVIOUS
    <2>1. CASE file' = file
      BY <2>1
    <2>2. ASSUME NEW other \in Id, Spoil(other) PROVE Kept(id)
      <3>1. Filed(other)
        BY DEF IInv
      <3> QED
        BY <2>2, <3>1, RecordAssumption DEF Spoil, IInv, TypeOK, Filed, Readable
    <2>3. ASSUME NEW w \in Worker, Rename(w), file' # file PROVE Kept(id)
      <3>1. /\ worker[w].pc = "rename" /\ NextVersion(w)
            /\ file' = [file EXCEPT ![worker[w].id] = worker[w].record]
        BY <2>3 DEF Rename, IInv, WorkerInv
      <3>2. /\ worker[w].id \in Id /\ worker[w].record \in Record
            /\ Follows(w, worker[w], file[worker[w].id])
        BY <3>1 DEF NextVersion
      <3>3. CASE id # worker[w].id
        BY <3>1, <3>3 DEF IInv, TypeOK
      <3>4. CASE id = worker[w].id
        BY <3>1, <3>2, <3>4, RecordAssumption DEF IInv, TypeOK, Follows
      <3> QED
        BY <3>3, <3>4
    <2> QED
      BY <2>1, <2>2, <2>3 DEF Next, SetClock, Crash, Create, Update, Enter, Number, Change,
         Write, Answer
  <1>2. NothingOverwritten <=> [][\A id \in Id : Kept(id)]_vars
    BY DEF NothingOverwritten
  <1> QED
    BY <1>1, <1>2, Invariance, PTL DEF Spec

-----------------------------------------------------------------------------
(***************************************************************************)
(* The branches that the records of the issues name: what BranchOperations *)
(* promises, for any branches, issues and requests.                        *)
(***************************************************************************)
CONSTANTS Branch, Main, Issue, Prefixed, MaxChange
VARIABLES refs, head, branchOf, repoLock, request, changes, unborn

Git == INSTANCE BranchOperations WITH lock <- repoLock, worker <- request

Tips == SUBSET Git!Change
BranchWorkerType ==
    [pc : Git!Pc, op : Git!Op \cup {None}, branch : Branch \cup {None}, from : Branch \cup {None},
     issue : Issue \cup {None}, seen : SUBSET Git!Change, before : SUBSET Git!Change,
     outcome : {None, "done", "refused", "stranded"}]

\* What a request r at work knows of the repository, which only it can change.
Asked(r) ==
    r.pc # "idle" => /\ r.branch \in Branch /\ r.from \in Branch /\ r.op \in Git!Op
                     /\ r.op = "issue" => r.issue \in Issue
Entered(r) == r.pc \in {"locked", "prepared"} => r.before = refs[r.branch]
Editing(r) == r.pc = "prepared" => r.op = "edit" /\ changes < MaxChange
Branching(r) ==
    r.pc \in {"created", "unsaved"} =>
        /\ r.op = "issue" /\ branchOf[r.issue] = None
        /\ refs[r.branch] = r.seen /\ r.seen # {} /\ r.before = {}
        /\ head = r.branch => unborn
Answered(r) ==
    r.pc = "answer" =>
        /\ r.outcome = "refused" => refs[r.branch] = r.before
        /\ r.op = "issue" /\ r.outcome = "done" =>
             branchOf[r.issue] = r.branch /\ refs[r.branch] = r.seen
        /\ r.outcome = "stranded" => branchOf[r.issue] = None

RequestInv(r) == Asked(r) /\ Entered(r) /\ Editing(r) /\ Branching(r) /\ Answered(r)

BranchIInv == Git!TypeOK /\ Git!HeadStands /\ \A w \in Worker : RequestInv(request[w])

-----------------------------------------------------------------------------
LEMMA TipType ==
  Git!Tip \cup {{}} = SUBSET Git!Change
  BY DEF Git!Tip

LEMMA RefsType ==
  Git!TypeOK => refs \in [Branch -> SUBSET Git!Change]
      /\ request \in [Worker -> BranchWorkerType]
  BY TipType DEF Git!TypeOK, BranchWorkerType

LEMMA IdleType ==
  Git!Idle \in BranchWorkerType /\ Git!Idle.pc = "idle"
  BY DEF Git!Idle, BranchWorkerType, Git!Pc

LEMMA BranchInitIInv ==
  ASSUME Git!BranchAssumption PROVE Git!Init => BranchIInv
  <1> SUFFICES ASSUME Git!Init PROVE BranchIInv
    OBVIOUS
  <1>1. Git!TypeOK
    <2>1. {0} \in SUBSET Git!Change /\ {} \in SUBSET Git!Change /\ 0 \in Git!Change
      BY DEF Git!BranchAssumption, Git!Change
    <2>2. refs \in [Branch -> Git!Tip \cup {{}}] /\ unborn \in BOOLEAN
      <3>1. PICK tip \in {{0}, {}} :
              /\ refs = [b \in Branch |-> IF b = Main THEN tip ELSE {}]
              /\ unborn = (tip = {})
        BY DEF Git!Init
      <3> QED
        BY <2>1, <3>1, TipType
    <2>3. request \in [Worker -> BranchWorkerType]
      BY IdleType DEF Git!Init
    <2>4. \A w \in Worker : repoLock = w <=> request[w].pc \notin {"idle", "looked"}
      BY IdleType DEF Git!BranchAssumption, Git!Init
    <2> QED
      BY <2>1, <2>2, <2>3, <2>4 DEF Git!BranchAssumption, Git!Init, Git!TypeOK,
        BranchWorkerType
  <1>2. Git!HeadStands
    <2>1. PICK tip \in {{0}, {}} :
            /\ refs = [b \in Branch |-> IF b = Main THEN tip ELSE {}]
            /\ unborn = (tip = {})
      BY DEF Git!Init
    <2>2. head = Main /\ refs[head] = tip
      BY <2>1 DEF Git!BranchAssumption, Git!Init
    <2> QED
      BY <2>1, <2>2 DEF Git!HeadStands, Git!Exists
  <1>3. \A w \in Worker : RequestInv(request[w])
    BY IdleType DEF Git!Init, RequestInv, Asked, Entered, Editing, Branching, Answered
  <1> QED
    BY <1>1, <1>2, <1>3 DEF BranchIInv

\* The requests that do not hold the lock have not started.
LEMMA BranchOthersWait ==
  ASSUME Git!BranchAssumption, BranchIInv, NEW w \in Worker, repoLock \in {w, None},
         NEW v \in Worker \ {w}
  PROVE  request[v].pc \in {"idle", "looked"}
  BY DEF Git!BranchAssumption, BranchIInv, Git!TypeOK

\* What is left to show for a step of a request that has, had or gets the lock.
LEMMA Step ==
  ASSUME Git!BranchAssumption, BranchIInv, NEW w \in Worker, repoLock \in {w, None},
         NEW r \in BranchWorkerType,
         request' = [request EXCEPT ![w] = r],
         repoLock' \in {w, None}, repoLock' = w <=> r.pc \notin {"idle", "looked"},
         refs' \in [Branch -> SUBSET Git!Change], head' \in Branch,
         branchOf' \in [Issue -> Branch \cup {None}], changes' \in Git!Change,
         unborn' \in BOOLEAN,
         Git!HeadStands', RequestInv(request[w])'
  PROVE  BranchIInv'
  <1>1. request'[w] = r /\ \A v \in Worker \ {w} : request'[v] = request[v]
    BY DEF BranchIInv, Git!TypeOK
  <1>2. \A v \in Worker \ {w} : request[v].pc \in {"idle", "looked"}
    BY BranchOthersWait
  <1>3. Git!TypeOK'
    <2>1. request' \in [Worker -> BranchWorkerType]
      BY RefsType DEF BranchIInv
    <2>2. \A v \in Worker : repoLock' = v <=> request'[v].pc \notin {"idle", "looked"}
      BY <1>1, <1>2 DEF Git!BranchAssumption
    <2>3. refs' \in [Branch -> Git!Tip \cup {{}}]
      BY TipType
    <2> QED
      BY <2>1, <2>2, <2>3 DEF Git!TypeOK, BranchWorkerType
  <1>4. ASSUME NEW v \in Worker \ {w} PROVE RequestInv(request[v])'
    <2>1. RequestInv(request[v]) /\ request'[v] = request[v] /\ request[v].pc \in {"idle", "looked"}
      BY <1>1, <1>2 DEF BranchIInv
    <2> QED
      BY <2>1 DEF RequestInv, Asked, Entered, Editing, Branching, Answered
  <1> QED
    BY <1>3, <1>4 DEF BranchIInv

LEMMA LookStep ==
  ASSUME Git!BranchAssumption, BranchIInv, NEW w \in Worker,
         Git!Look(w) \/ Git!LookAtIssue(w)
  PROVE  BranchIInv'
  <1>1. PICK r \in BranchWorkerType :
          /\ request' = [request EXCEPT ![w] = r]
          /\ r.pc = "looked" /\ r.branch \in Branch /\ r.from \in Branch /\ r.op \in Git!Op
          /\ r.op = "issue" => r.issue \in Issue
    <2>1. CASE Git!Look(w)
      <3>1. PICK op \in Git!Op \ {"issue"}, b \in Branch, from \in Branch :
              Git!Set(w, [Git!Idle EXCEPT !.pc = "looked", !.op = op, !.branch = b,
                  !.from = from,
                                  !.seen = refs[b]])
        BY <2>1 DEF Git!Look
      <3>2. refs[b] \in SUBSET Git!Change
        BY RefsType DEF BranchIInv
      <3> DEFINE q == [Git!Idle EXCEPT !.pc = "looked", !.op = op, !.branch = b, !.from = from,
                                    !.seen = refs[b]]
      <3>3. q \in BranchWorkerType
        BY <3>2, IdleType DEF BranchWorkerType, Git!Pc
      <3>4. /\ q.pc = "looked" /\ q.branch \in Branch /\ q.from \in Branch /\ q.op \in Git!Op
            /\ q.op # "issue"
        BY DEF Git!Idle
      <3>5. request' = [request EXCEPT ![w] = q]
        BY <3>1 DEF Git!Set
      <3> HIDE DEF q
      <3> QED
        BY <3>3, <3>4, <3>5
    <2>2. CASE Git!LookAtIssue(w)
      <3>1. PICK i \in Issue, from \in Branch, b \in Branch :
              Git!Set(w, [Git!Idle EXCEPT !.pc = "looked", !.op = "issue",
                  !.branch = b, !.from = from,
                                  !.issue = i])
        BY <2>2 DEF Git!BranchAssumption, Git!LookAtIssue
      <3> DEFINE q == [Git!Idle EXCEPT !.pc = "looked", !.op = "issue", !.branch = b,
                                    !.from = from, !.issue = i]
      <3>3. q \in BranchWorkerType
        BY IdleType DEF BranchWorkerType, Git!Pc, Git!Op
      <3>4. /\ q.pc = "looked" /\ q.branch \in Branch /\ q.from \in Branch /\ q.op \in Git!Op
            /\ q.issue \in Issue
        BY DEF Git!Idle, Git!Op
      <3>5. request' = [request EXCEPT ![w] = q]
        BY <3>1 DEF Git!Set
      <3> HIDE DEF q
      <3> QED
        BY <3>3, <3>4, <3>5
    <2> QED
      BY <2>1, <2>2
  <1>2. request'[w] = r /\ \A v \in Worker \ {w} : request'[v] = request[v]
    BY <1>1 DEF BranchIInv, Git!TypeOK
  <1>3. request[w].pc = "idle" /\ UNCHANGED <<refs, head, branchOf, repoLock, changes, unborn>>
    BY DEF Git!Look, Git!LookAtIssue
  <1>4. Git!TypeOK'
    <2>1. request' \in [Worker -> BranchWorkerType]
      BY <1>1, RefsType DEF BranchIInv
    <2>2. \A v \in Worker : repoLock' = v <=> request'[v].pc \notin {"idle", "looked"}
      BY <1>1, <1>2, <1>3 DEF BranchIInv, Git!TypeOK
    <2> QED
      BY <1>3, <2>1, <2>2 DEF BranchIInv, Git!TypeOK, BranchWorkerType
  <1>5. ASSUME NEW v \in Worker PROVE RequestInv(request[v])'
    <2>1. CASE v = w
      BY <1>1, <1>2, <2>1 DEF RequestInv, Asked, Entered, Editing, Branching, Answered
    <2>2. CASE v # w
      BY <1>2, <1>3, <2>2 DEF BranchIInv, RequestInv, Asked, Entered, Editing,
        Branching, Answered
    <2> QED
      BY <2>1, <2>2
  <1> QED
    BY <1>3, <1>4, <1>5 DEF BranchIInv, Git!HeadStands, Git!Exists

\* The types of everything a step may leave alone.
LEMMA Types ==
  ASSUME Git!BranchAssumption, BranchIInv
  PROVE  /\ refs \in [Branch -> SUBSET Git!Change] /\ head \in Branch
         /\ branchOf \in [Issue -> Branch \cup {None}] /\ changes \in Git!Change
         /\ unborn \in BOOLEAN /\ request \in [Worker -> BranchWorkerType]
  BY RefsType DEF BranchIInv, Git!TypeOK

LEMMA BranchEnterStep ==
  ASSUME Git!BranchAssumption, BranchIInv, NEW w \in Worker, Git!Enter(w)
  PROVE  BranchIInv'
  <1> DEFINE r == [request[w] EXCEPT !.pc = "locked", !.before = refs[request[w].branch]]
  <1>1. request[w] \in BranchWorkerType /\ RequestInv(request[w]) /\ request[w].pc = "looked"
    BY Types DEF BranchIInv, Git!Enter
  <1>2. request[w].branch \in Branch /\ refs[request[w].branch] \in SUBSET Git!Change
    BY <1>1, Types DEF RequestInv, Asked
  <1>3. r \in BranchWorkerType /\ request' = [request EXCEPT ![w] = r] /\ request'[w] = r
    BY <1>1, <1>2, Types DEF Git!Enter, Git!Set, BranchWorkerType, Git!Pc
  <1>4. /\ r.pc = "locked" /\ r.before = refs[r.branch] /\ r.branch = request[w].branch
        /\ r.from = request[w].from /\ r.op = request[w].op /\ r.issue = request[w].issue
    BY <1>1 DEF BranchWorkerType
  <1> HIDE DEF r
  <1>5. repoLock = None /\ repoLock' = w /\ UNCHANGED <<refs, head, branchOf, changes, unborn>>
    BY DEF Git!Enter
  <1>6. RequestInv(request[w])'
    BY <1>1, <1>3, <1>4, <1>5 DEF RequestInv, Asked, Entered, Editing, Branching, Answered
  <1>7. Git!HeadStands'
    BY <1>5 DEF BranchIInv, Git!HeadStands, Git!Exists
  <1> QED
    BY <1>3, <1>4, <1>5, <1>6, <1>7, Types, Step

LEMMA BranchLeaveStep ==
  ASSUME Git!BranchAssumption, BranchIInv, NEW w \in Worker, Git!Leave(w)
  PROVE  BranchIInv'
  <1>1. /\ repoLock' = None /\ request' = [request EXCEPT ![w] = Git!Idle] /\ request'[w] = Git!Idle
        /\ UNCHANGED <<refs, head, branchOf, changes, unborn>>
    BY Types DEF Git!Leave, Git!Set
  <1>2. repoLock = w
    BY DEF Git!Leave, BranchIInv, Git!TypeOK
  <1>3. RequestInv(request[w])'
    BY <1>1, IdleType DEF RequestInv, Asked, Entered, Editing, Branching, Answered
  <1>4. Git!HeadStands'
    BY <1>1 DEF BranchIInv, Git!HeadStands, Git!Exists
  <1> QED
    BY <1>1, <1>2, <1>3, <1>4, Types, Step, IdleType DEF Git!BranchAssumption

\* Every other step belongs to the request that has the lock, and keeps it.
Request(r, q) ==
    /\ r \in BranchWorkerType
    /\ r.branch = q.branch /\ r.from = q.from /\ r.op = q.op /\ r.issue = q.issue
    /\ r.before = q.before

LEMMA Inside ==
  ASSUME Git!BranchAssumption, BranchIInv, NEW w \in Worker, repoLock = w,
         repoLock' = repoLock,
         NEW r, Request(r, request[w]), request' = [request EXCEPT ![w] = r],
         r.pc \in {"prepared", "created", "unsaved", "answer"},
         refs' \in [Branch -> SUBSET Git!Change], head' \in Branch,
         branchOf' \in [Issue -> Branch \cup {None}], changes' \in Git!Change,
         unborn' \in BOOLEAN,
         Git!HeadStands', (Entered(r) /\ Editing(r) /\ Branching(r) /\ Answered(r))',
         request[w].pc # "idle", r' = r
  PROVE  BranchIInv'
  <1>1. request'[w] = r /\ RequestInv(request[w])
    BY Types DEF BranchIInv
  <1>2. RequestInv(request[w])'
    BY <1>1 DEF RequestInv, Asked, Entered, Editing, Branching, Answered, Request
  <1> QED
    BY <1>2, Step DEF Request

\* What is known of a request at work.
LEMMA Mine ==
  ASSUME Git!BranchAssumption, BranchIInv, NEW w \in Worker,
         request[w].pc \notin {"idle", "looked"}
  PROVE  /\ repoLock = w /\ request[w] \in BranchWorkerType /\ request[w].pc # "idle"
         /\ request[w].branch \in Branch /\ request[w].from \in Branch
         /\ request[w].op = "issue" => request[w].issue \in Issue
         /\ refs[request[w].branch] \in SUBSET Git!Change
         /\ refs[request[w].from] \in SUBSET Git!Change
         /\ RequestInv(request[w])
  <1>1. repoLock = w /\ request[w] \in BranchWorkerType /\ RequestInv(request[w])
    BY Types DEF BranchIInv, Git!TypeOK
  <1> QED
    BY <1>1, Types DEF RequestInv, Asked

LEMMA SettleStep ==
  ASSUME Git!BranchAssumption, BranchIInv, NEW w \in Worker,
         request[w].pc \notin {"idle", "looked"},
         repoLock' = repoLock,
         NEW o \in {"done", "refused", "stranded"}, Git!Reply(w, o),
         refs' \in [Branch -> SUBSET Git!Change], head' \in Branch,
         branchOf' \in [Issue -> Branch \cup {None}], changes' \in Git!Change,
         unborn' \in BOOLEAN,
         Git!HeadStands',
         o = "refused" => refs'[request[w].branch] = request[w].before,
         request[w].op = "issue" /\ o = "done" =>
             /\ branchOf'[request[w].issue] = request[w].branch
             /\ refs'[request[w].branch] = request[w].seen,
         o = "stranded" => branchOf'[request[w].issue] = None
  PROVE  BranchIInv'
  <1>1. repoLock = w /\ request[w] \in BranchWorkerType /\ request[w].pc # "idle"
    BY Mine
  <1>2. PICK r \in BranchWorkerType :
          /\ Request(r, request[w]) /\ request' = [request EXCEPT ![w] = r]
          /\ r.pc = "answer" /\ r.outcome = o /\ r.seen = request[w].seen
    <2> DEFINE q == [request[w] EXCEPT !.pc = "answer", !.outcome = o]
    <2>1. q \in BranchWorkerType
      BY <1>1 DEF BranchWorkerType, Git!Pc
    <2>2. /\ q.pc = "answer" /\ q.outcome = o /\ q.seen = request[w].seen
          /\ q.branch = request[w].branch /\ q.from = request[w].from
          /\ q.op = request[w].op
          /\ q.issue = request[w].issue /\ q.before = request[w].before
      BY <1>1 DEF BranchWorkerType
    <2>3. request' = [request EXCEPT ![w] = q]
      BY DEF Git!Reply, Git!Set
    <2> HIDE DEF q
    <2> QED
      BY <2>1, <2>2, <2>3 DEF Request
  <1>3. (Entered(r) /\ Editing(r) /\ Branching(r) /\ Answered(r))'
    BY <1>2 DEF Entered, Editing, Branching, Answered, Request
  <1> QED
    BY <1>1, <1>2, <1>3, Inside

-----------------------------------------------------------------------------
(* One lemma per operation. *)

LEMMA PrepareEditStep ==
  ASSUME Git!BranchAssumption, BranchIInv, NEW w \in Worker, Git!PrepareEdit(w)
  PROVE  BranchIInv'
  <1>1. /\ request[w].pc = "locked" /\ request[w].op = "edit"
        /\ UNCHANGED <<refs, head, branchOf, repoLock, changes, unborn>>
    BY DEF Git!PrepareEdit, Git!Working
  <1>2. request[w].before = refs[request[w].branch]
    BY <1>1, Mine DEF RequestInv, Entered
  <1>3. Git!HeadStands'
    BY <1>1 DEF BranchIInv, Git!HeadStands, Git!Exists
  <1>4. CASE Git!Reply(w, "refused")
    BY <1>1, <1>2, <1>3, <1>4, Types, SettleStep
  <1>5. CASE changes < MaxChange /\ Git!Set(w, [request[w] EXCEPT !.pc = "prepared"])
    <2> DEFINE q == [request[w] EXCEPT !.pc = "prepared"]
    <2>1. repoLock = w /\ request[w] \in BranchWorkerType
      BY <1>1, Mine
    <2>2. q \in BranchWorkerType
      BY <2>1 DEF BranchWorkerType, Git!Pc
    <2>3. /\ q.pc = "prepared" /\ q.branch = request[w].branch /\ q.from = request[w].from
          /\ q.op = request[w].op /\ q.issue = request[w].issue
          /\ q.before = request[w].before
      BY <2>1 DEF BranchWorkerType
    <2>4. request' = [request EXCEPT ![w] = q]
      BY <1>5 DEF Git!Set
    <2> HIDE DEF q
    <2>5. PICK r \in BranchWorkerType :
            Request(r, request[w]) /\ request' = [request EXCEPT ![w] = r] /\ r.pc = "prepared"
      BY <2>2, <2>3, <2>4 DEF Request
    <2>6. (Entered(r) /\ Editing(r) /\ Branching(r) /\ Answered(r))'
      BY <1>1, <1>2, <1>5, <2>5 DEF Entered, Editing, Branching, Answered, Request
    <2> QED
      BY <1>1, <1>3, <2>1, <2>5, <2>6, Types, Inside
  <1> QED
    BY <1>4, <1>5 DEF Git!PrepareEdit

LEMMA CommitEditStep ==
  ASSUME Git!BranchAssumption, BranchIInv, NEW w \in Worker, Git!CommitEdit(w)
  PROVE  BranchIInv'
  <1> DEFINE b == request[w].branch
  <1>1. request[w].pc = "prepared" /\ UNCHANGED <<head, branchOf, repoLock, unborn>>
    BY DEF Git!CommitEdit
  <1>2. /\ request[w] \in BranchWorkerType /\ b \in Branch /\ request[w].before = refs[b]
        /\ request[w].op = "edit" /\ changes < MaxChange
    BY <1>1, Mine DEF RequestInv, Entered, Editing
  <1>3. CASE Git!Reply(w, "refused") /\ UNCHANGED <<refs, changes>>
    <2>1. Git!HeadStands'
      BY <1>1, <1>3 DEF BranchIInv, Git!HeadStands, Git!Exists
    <2> QED
      BY <1>1, <1>2, <1>3, <2>1, Types, SettleStep
  <1>4. CASE /\ refs' = [refs EXCEPT ![b] = request[w].seen \cup {Git!New}]
             /\ changes' = Git!New /\ Git!Reply(w, "done")
    <2>1. Git!New \in Git!Change
      BY <1>2, Types DEF Git!BranchAssumption, Git!New, Git!Change
    <2>2. request[w].seen \cup {Git!New} \in (SUBSET Git!Change) \ {{}}
      BY <1>2, <2>1 DEF BranchWorkerType
    <2>3. refs' \in [Branch -> SUBSET Git!Change]
      BY <1>4, <2>2, Types
    <2>4. Git!HeadStands'
      BY <1>1, <1>2, <1>4, <2>2, Types DEF BranchIInv, Git!HeadStands, Git!Exists
    <2> QED
      BY <1>1, <1>2, <1>4, <2>1, <2>3, <2>4, Types, SettleStep
  <1> QED
    BY <1>3, <1>4 DEF Git!CommitEdit

LEMMA CreateBranchStep ==
  ASSUME Git!BranchAssumption, BranchIInv, NEW w \in Worker, Git!CreateBranch(w)
  PROVE  BranchIInv'
  <1> DEFINE b == request[w].branch
  <1>1. /\ request[w].pc = "locked" /\ request[w].op = "create"
        /\ UNCHANGED <<head, branchOf, repoLock, changes>>
    BY DEF Git!CreateBranch, Git!Working
  <1>2. b \in Branch /\ request[w].before = refs[b] /\ refs[request[w].from] \in SUBSET Git!Change
    BY <1>1, Mine DEF RequestInv, Entered
  <1>3. CASE Git!Reply(w, "refused") /\ UNCHANGED <<refs, unborn>>
    <2>1. Git!HeadStands'
      BY <1>1, <1>3 DEF BranchIInv, Git!HeadStands, Git!Exists
    <2> QED
      BY <1>1, <1>2, <1>3, <2>1, Types, SettleStep
  <1>4. CASE /\ Git!Creatable(b, request[w].from)
             /\ refs' = [refs EXCEPT ![b] = refs[request[w].from]]
             /\ Git!Born(b) /\ Git!Reply(w, "done")
    <2>1. refs' \in [Branch -> SUBSET Git!Change] /\ unborn' \in BOOLEAN
      BY <1>2, <1>4, Types DEF Git!Born
    <2>2. Git!HeadStands'
      BY <1>1, <1>2, <1>4, Types DEF BranchIInv, Git!HeadStands, Git!Exists, Git!Creatable,
        Git!Born
    <2> QED
      BY <1>1, <1>2, <1>4, <2>1, <2>2, Types, SettleStep
  <1> QED
    BY <1>3, <1>4 DEF Git!CreateBranch

LEMMA DeleteBranchStep ==
  ASSUME Git!BranchAssumption, BranchIInv, NEW w \in Worker, Git!DeleteBranch(w)
  PROVE  BranchIInv'
  <1> DEFINE b == request[w].branch
  <1>1. /\ request[w].pc = "locked" /\ request[w].op = "delete"
        /\ UNCHANGED <<head, branchOf, repoLock, changes, unborn>>
    BY DEF Git!DeleteBranch, Git!Working
  <1>2. b \in Branch /\ request[w].before = refs[b]
    BY <1>1, Mine DEF RequestInv, Entered
  <1>3. CASE Git!Reply(w, "refused") /\ UNCHANGED refs
    <2>1. Git!HeadStands'
      BY <1>1, <1>3 DEF BranchIInv, Git!HeadStands, Git!Exists
    <2> QED
      BY <1>1, <1>2, <1>3, <2>1, Types, SettleStep
  <1>4. CASE b # head /\ refs' = [refs EXCEPT ![b] = {}] /\ Git!Reply(w, "done")
    <2>1. refs' \in [Branch -> SUBSET Git!Change]
      BY <1>2, <1>4, Types
    <2>2. Git!HeadStands'
      BY <1>1, <1>2, <1>4, Types DEF BranchIInv, Git!HeadStands, Git!Exists
    <2> QED
      BY <1>1, <1>2, <1>4, <2>1, <2>2, Types, SettleStep
  <1> QED
    BY <1>3, <1>4 DEF Git!DeleteBranch, Git!Protected

LEMMA ChangeDefaultStep ==
  ASSUME Git!BranchAssumption, BranchIInv, NEW w \in Worker, Git!ChangeDefault(w)
  PROVE  BranchIInv'
  <1> DEFINE b == request[w].branch
  <1>1. /\ request[w].pc = "locked" /\ request[w].op = "default"
        /\ UNCHANGED <<refs, branchOf, repoLock, changes>>
    BY DEF Git!ChangeDefault, Git!Working
  <1>2. b \in Branch /\ request[w].before = refs[b]
    BY <1>1, Mine DEF RequestInv, Entered
  <1>3. CASE Git!Reply(w, "refused") /\ UNCHANGED <<head, unborn>>
    <2>1. Git!HeadStands'
      BY <1>1, <1>3 DEF BranchIInv, Git!HeadStands, Git!Exists
    <2> QED
      BY <1>1, <1>2, <1>3, <2>1, Types, SettleStep
  <1>4. CASE Git!Exists(b) /\ head' = b /\ Git!Reply(w, "done") /\ unborn' = FALSE
    <2>1. Git!HeadStands'
      BY <1>1, <1>4 DEF Git!HeadStands, Git!Exists
    <2> QED
      BY <1>1, <1>2, <1>4, <2>1, Types, SettleStep
  <1> QED
    BY <1>3, <1>4 DEF Git!ChangeDefault

LEMMA PushStep ==
  ASSUME Git!BranchAssumption, BranchIInv, NEW w \in Worker, Git!Push(w)
  PROVE  BranchIInv'
  <1> DEFINE b == request[w].branch
  <1>1. /\ request[w].pc = "locked" /\ request[w].op = "push"
        /\ UNCHANGED <<head, branchOf, repoLock>>
    BY DEF Git!Push, Git!Working
  <1>2. b \in Branch /\ request[w].before = refs[b] /\ request[w] \in BranchWorkerType
    BY <1>1, Mine DEF RequestInv, Entered
  <1>3. CASE Git!Reply(w, "refused") /\ UNCHANGED <<refs, changes, unborn>>
    <2>1. Git!HeadStands'
      BY <1>1, <1>3 DEF BranchIInv, Git!HeadStands, Git!Exists
    <2> QED
      BY <1>1, <1>2, <1>3, <2>1, Types, SettleStep
  <1>4. CASE /\ Git!Reply(w, "done")
             /\ \E tip \in {{}, {Git!New}, request[w].seen \cup {Git!New}} :
                  /\ Git!New \in tip => changes < MaxChange
                  /\ refs' = [refs EXCEPT ![b] = tip]
                  /\ changes' = IF Git!New \in tip THEN Git!New ELSE changes
                  /\ unborn' = IF b = head THEN tip = {} ELSE unborn
    <2>1. PICK tip \in {{}, {Git!New}, request[w].seen \cup {Git!New}} :
            /\ Git!New \in tip => changes < MaxChange
            /\ refs' = [refs EXCEPT ![b] = tip]
            /\ changes' = IF Git!New \in tip THEN Git!New ELSE changes
            /\ unborn' = IF b = head THEN tip = {} ELSE unborn
      BY <1>4
    <2>2. Git!New \in tip => Git!New \in Git!Change
      BY <2>1, Types DEF Git!BranchAssumption, Git!New, Git!Change
    <2>3. tip \in SUBSET Git!Change
      BY <1>2, <2>1, <2>2 DEF BranchWorkerType
    <2>4. refs' \in [Branch -> SUBSET Git!Change] /\ changes' \in Git!Change /\ unborn' \in BOOLEAN
      BY <2>1, <2>2, <2>3, Types
    <2>5. Git!HeadStands'
      BY <1>1, <1>2, <2>1, Types DEF BranchIInv, Git!HeadStands, Git!Exists
    <2> QED
      BY <1>1, <1>2, <1>4, <2>4, <2>5, Types, SettleStep
  <1> QED
    BY <1>3, <1>4 DEF Git!Push

LEMMA CreateIssueBranchStep ==
  ASSUME Git!BranchAssumption, BranchIInv, NEW w \in Worker, Git!CreateIssueBranch(w)
  PROVE  BranchIInv'
  <1> DEFINE b == request[w].branch
             tip == refs[request[w].from]
  <1>1. /\ request[w].pc = "locked" /\ request[w].op = "issue"
        /\ UNCHANGED <<head, branchOf, repoLock, changes, unborn>>
    BY DEF Git!CreateIssueBranch, Git!Working
  <1>2. /\ repoLock = w /\ request[w] \in BranchWorkerType /\ b \in Branch
        /\ request[w].before = refs[b] /\ tip \in SUBSET Git!Change
    BY <1>1, Mine DEF RequestInv, Entered
  <1>3. CASE Git!Reply(w, "refused") /\ UNCHANGED refs
    <2>1. Git!HeadStands'
      BY <1>1, <1>3 DEF BranchIInv, Git!HeadStands, Git!Exists
    <2> QED
      BY <1>1, <1>2, <1>3, <2>1, Types, SettleStep
  <1>4. CASE /\ Git!Unbranched(request[w].issue) /\ Git!Creatable(b, request[w].from)
             /\ refs' = [refs EXCEPT ![b] = tip]
             /\ Git!Set(w, [request[w] EXCEPT !.pc = "created", !.seen = tip])
    <2> DEFINE q == [request[w] EXCEPT !.pc = "created", !.seen = tip]
    <2>1. q \in BranchWorkerType
      BY <1>2 DEF BranchWorkerType, Git!Pc
    <2>2. /\ q.pc = "created" /\ q.seen = tip
          /\ q.branch = b /\ q.from = request[w].from /\ q.op = request[w].op
          /\ q.issue = request[w].issue /\ q.before = request[w].before
      BY <1>2 DEF BranchWorkerType
    <2>3. request' = [request EXCEPT ![w] = q]
      BY <1>4 DEF Git!Set
    <2> HIDE DEF q
    <2>4. PICK r \in BranchWorkerType :
            /\ Request(r, request[w]) /\ request' = [request EXCEPT ![w] = r]
            /\ r.pc = "created" /\ r.seen = tip
      BY <2>1, <2>2, <2>3 DEF Request
    <2>5. refs' \in [Branch -> SUBSET Git!Change] /\ refs'[b] = tip
      BY <1>2, <1>4, Types
    <2>6. Git!HeadStands' /\ (head = b => unborn)
      BY <1>1, <1>2, <1>4, Types DEF BranchIInv, Git!HeadStands, Git!Exists, Git!Creatable
    <2>7. refs[b] = {} /\ tip # {} /\ branchOf[request[w].issue] = None
      BY <1>4 DEF Git!Creatable, Git!Exists, Git!Unbranched
    <2>8. Branching(r)'
      BY <1>1, <1>2, <2>4, <2>5, <2>6, <2>7 DEF Branching, Request
    <2>9. (Entered(r) /\ Editing(r) /\ Answered(r))'
      BY <2>4 DEF Entered, Editing, Answered
    <2> QED
      BY <1>1, <1>2, <2>4, <2>5, <2>6, <2>8, <2>9, Types, Inside
  <1> QED
    BY <1>3, <1>4 DEF Git!CreateIssueBranch

LEMMA SaveIssueStep ==
  ASSUME Git!BranchAssumption, BranchIInv, NEW w \in Worker, Git!SaveIssue(w)
  PROVE  BranchIInv'
  <1>1. request[w].pc = "created" /\ UNCHANGED <<refs, head, repoLock, changes>>
    BY DEF Git!SaveIssue
  <1>2. /\ repoLock = w /\ request[w] \in BranchWorkerType /\ request[w].branch \in Branch
        /\ request[w].issue \in Issue /\ Branching(request[w])
    BY <1>1, Mine DEF RequestInv, Branching
  <1>3. (UNCHANGED unborn \/ Git!Born(request[w].branch)) =>
          Git!HeadStands' /\ unborn' \in BOOLEAN
    <2>1. CASE UNCHANGED unborn
      BY <1>1, <2>1, Types DEF BranchIInv, Git!HeadStands, Git!Exists
    <2>2. CASE Git!Born(request[w].branch)
      <3>1. unborn' \in BOOLEAN
        BY <2>2 DEF Git!Born
      <3>2. refs[request[w].branch] # {}
        BY <1>1, <1>2 DEF Branching
      <3> QED
        BY <1>1, <2>2, <3>1, <3>2 DEF BranchIInv, Git!HeadStands, Git!Exists, Git!Born
    <2> QED
      BY <2>1, <2>2
  <1>4. CASE /\ branchOf' = [branchOf EXCEPT ![request[w].issue] = request[w].branch]
             /\ Git!Born(request[w].branch) /\ Git!Reply(w, "done")
    <2>1. /\ branchOf' \in [Issue -> Branch \cup {None}]
          /\ branchOf'[request[w].issue] = request[w].branch
          /\ refs'[request[w].branch] = request[w].seen
      BY <1>1, <1>2, <1>4, Types DEF Branching
    <2> QED
      BY <1>1, <1>3, <1>4, <2>1, Types, SettleStep
  <1>5. CASE Git!Set(w, [request[w] EXCEPT !.pc = "unsaved"]) /\ UNCHANGED <<branchOf, unborn>>
    <2> DEFINE q == [request[w] EXCEPT !.pc = "unsaved"]
    <2>1. q \in BranchWorkerType
      BY <1>2 DEF BranchWorkerType, Git!Pc
    <2>2. /\ q.pc = "unsaved" /\ q.seen = request[w].seen
          /\ q.branch = request[w].branch /\ q.from = request[w].from
          /\ q.op = request[w].op
          /\ q.issue = request[w].issue /\ q.before = request[w].before
      BY <1>2 DEF BranchWorkerType
    <2>3. request' = [request EXCEPT ![w] = q]
      BY <1>5 DEF Git!Set
    <2> HIDE DEF q
    <2>4. PICK r \in BranchWorkerType :
            /\ Request(r, request[w]) /\ request' = [request EXCEPT ![w] = r]
            /\ r.pc = "unsaved" /\ r.seen = request[w].seen
      BY <2>1, <2>2, <2>3 DEF Request
    <2>5. (Entered(r) /\ Editing(r) /\ Branching(r) /\ Answered(r))'
      BY <1>1, <1>2, <1>5, <2>4 DEF Entered, Editing, Branching, Answered, Request
    <2> QED
      BY <1>1, <1>2, <1>3, <1>5, <2>4, <2>5, Types, Inside
  <1> QED
    BY <1>4, <1>5 DEF Git!SaveIssue

LEMMA RollBackStep ==
  ASSUME Git!BranchAssumption, BranchIInv, NEW w \in Worker, Git!RollBack(w)
  PROVE  BranchIInv'
  <1> DEFINE b == request[w].branch
  <1>1. request[w].pc = "unsaved" /\ UNCHANGED <<head, branchOf, repoLock, changes>>
    BY DEF Git!RollBack
  <1>2. b \in Branch /\ Branching(request[w])
    BY <1>1, Mine DEF RequestInv
  <1>3. CASE refs' = [refs EXCEPT ![b] = {}] /\ Git!Reply(w, "refused") /\ UNCHANGED unborn
    <2>1. refs' \in [Branch -> SUBSET Git!Change] /\ refs'[b] = request[w].before
      BY <1>1, <1>2, <1>3, Types DEF Branching
    <2>2. Git!HeadStands'
      BY <1>1, <1>2, <1>3, Types DEF BranchIInv, Git!HeadStands, Git!Exists, Branching
    <2> QED
      BY <1>1, <1>3, <2>1, <2>2, Types, SettleStep
  <1>4. CASE Git!Reply(w, "stranded") /\ Git!Born(b) /\ UNCHANGED refs
    <2>1. /\ Git!HeadStands' /\ unborn' \in BOOLEAN
          /\ branchOf'[request[w].issue] = None
      BY <1>1, <1>2, <1>4, Types DEF BranchIInv, Git!HeadStands, Git!Exists, Git!Born, Branching
    <2> QED
      BY <1>1, <1>4, <2>1, Types, SettleStep
  <1> QED
    BY <1>3, <1>4 DEF Git!RollBack

LEMMA BranchCrashStep ==
  ASSUME Git!BranchAssumption, BranchIInv, Git!Crash
  PROVE  BranchIInv'
  <1>1. /\ request' = [w \in Worker |-> Git!Idle] /\ repoLock' = None
        /\ UNCHANGED <<refs, head, branchOf, changes, unborn>>
    BY DEF Git!Crash
  <1>2. request' \in [Worker -> BranchWorkerType] /\ \A w \in Worker : request'[w].pc = "idle"
    BY <1>1, IdleType
  <1>3. Git!TypeOK'
    BY <1>1, <1>2 DEF Git!BranchAssumption, BranchIInv, Git!TypeOK, BranchWorkerType
  <1>4. Git!HeadStands'
    BY <1>1 DEF BranchIInv, Git!HeadStands, Git!Exists
  <1>5. ASSUME NEW w \in Worker PROVE RequestInv(request[w])'
    BY <1>2 DEF RequestInv, Asked, Entered, Editing, Branching, Answered
  <1> QED
    BY <1>3, <1>4, <1>5 DEF BranchIInv

LEMMA NextStep ==
  ASSUME Git!BranchAssumption PROVE BranchIInv /\ [Git!Next]_(Git!vars) => BranchIInv'
  <1> SUFFICES ASSUME BranchIInv, [Git!Next]_(Git!vars) PROVE BranchIInv'
    OBVIOUS
  <1>1. CASE Git!Crash
    BY <1>1, BranchCrashStep
  <1>2. ASSUME NEW w \in Worker,
               Git!Look(w) \/ Git!LookAtIssue(w) \/ Git!Enter(w) \/ Git!Leave(w)
        PROVE  BranchIInv'
    BY <1>2, LookStep, BranchEnterStep, BranchLeaveStep
  <1>3. ASSUME NEW w \in Worker,
               \/ Git!PrepareEdit(w) \/ Git!CommitEdit(w) \/ Git!CreateBranch(w)
               \/ Git!DeleteBranch(w)
               \/ Git!ChangeDefault(w) \/ Git!Push(w)
        PROVE  BranchIInv'
    BY <1>3, PrepareEditStep, CommitEditStep, CreateBranchStep, DeleteBranchStep,
       ChangeDefaultStep, PushStep
  <1>4. ASSUME NEW w \in Worker,
               Git!CreateIssueBranch(w) \/ Git!SaveIssue(w) \/ Git!RollBack(w)
        PROVE  BranchIInv'
    BY <1>4, CreateIssueBranchStep, SaveIssueStep, RollBackStep
  <1>5. CASE UNCHANGED Git!vars
    BY <1>5 DEF Git!vars, BranchIInv, Git!TypeOK, Git!HeadStands, Git!Exists,
      RequestInv, Asked, Entered, Editing,
       Branching, Answered
  <1> QED
    BY <1>1, <1>2, <1>3, <1>4, <1>5 DEF Git!Next

-----------------------------------------------------------------------------
\* The inductive invariant holds in every reachable state.
THEOREM BranchInvariance ==
  ASSUME Git!BranchAssumption PROVE Git!Spec => []BranchIInv
  BY BranchInitIInv, NextStep, PTL DEF Git!Spec

\* Every variable keeps its type, and the holder of the repository's lock is the
\* one request at work.
THEOREM BranchTypeCorrect ==
  ASSUME Git!BranchAssumption PROVE Git!Spec => []Git!TypeOK
  <1>1. BranchIInv => Git!TypeOK
    BY DEF BranchIInv
  <1> QED
    BY <1>1, BranchInvariance, PTL

\* HEAD names a branch that exists unless nothing was ever committed to the default
\* branch or a push deleted it, for any number of branches and requests: neither a
\* deletion, nor a change of the default branch, nor an issue branch that is taken
\* back, nor a crash leaves it on nothing.
THEOREM HeadAlwaysStands ==
  ASSUME Git!BranchAssumption PROVE Git!Spec => []Git!HeadStands
  <1>1. BranchIInv => Git!HeadStands
    BY DEF BranchIInv
  <1> QED
    BY <1>1, BranchInvariance, PTL

\* Whatever fails in between, the answer to a request is true of the repository and
\* of the issue's record.
THEOREM AnswersTrue ==
  ASSUME Git!BranchAssumption PROVE Git!Spec => []Git!AnswerTrue
  <1>1. BranchIInv => Git!AnswerTrue
    BY DEF BranchIInv, RequestInv, Answered, Git!AnswerTrue
  <1> QED
    BY <1>1, BranchInvariance, PTL

-----------------------------------------------------------------------------
(* What no step may do. *)

LEMMA ReplyPc ==
  ASSUME Git!BranchAssumption, BranchIInv, NEW w \in Worker, NEW o, Git!Reply(w, o)
  PROVE  request'[w].pc = "answer"
  BY Types DEF Git!Reply, Git!Set, BranchWorkerType

Kept == UNCHANGED branchOf
          \/ \E w \in Worker : Git!SaveIssue(w) /\ Git!Unbranched(request[w].issue)
               /\ branchOf' = [branchOf EXCEPT ![request[w].issue] = request[w].branch]

LEMMA OnlySaveRecords == ASSUME [Git!Next]_(Git!vars) PROVE Kept
  BY DEF Git!Next, Git!vars, Kept, Git!Crash, Git!Look, Git!LookAtIssue, Git!Enter,
    Git!Leave, Git!PrepareEdit, Git!CommitEdit,
     Git!CreateBranch, Git!DeleteBranch, Git!ChangeDefault, Git!Push,
         Git!CreateIssueBranch, Git!SaveIssue, Git!RollBack

\* An issue's record is given a branch once, one that exists, and keeps it.
THEOREM IssueBranchKept ==
  ASSUME Git!BranchAssumption PROVE Git!Spec => Git!IssueKeepsBranch
  <1> DEFINE A == \A i \in Issue : branchOf'[i] # branchOf[i] =>

                                       branchOf[i] = None /\ refs[branchOf'[i]] # {} /\ refs'[branchOf'[i]] # {}
  <1>1. ASSUME BranchIInv, [Git!Next]_(Git!vars) PROVE A
    <2>1. CASE UNCHANGED branchOf
      BY <2>1
    <2>2. ASSUME NEW w \in Worker, Git!SaveIssue(w), Git!Unbranched(request[w].issue),
                 branchOf' = [branchOf EXCEPT ![request[w].issue] = request[w].branch]
          PROVE  A
      <3>1. request[w].pc = "created" /\ UNCHANGED refs
        BY <2>2 DEF Git!SaveIssue
      <3>2. refs[request[w].branch] # {} /\ branchOf[request[w].issue] = None
        BY <1>1, <3>1, Mine DEF RequestInv, Branching
      <3>3. branchOf \in [Issue -> Branch \cup {None}]
        BY <1>1, Types
      <3> QED
        BY <2>2, <3>1, <3>2, <3>3
    <2> QED
      BY <1>1, <2>1, <2>2, OnlySaveRecords DEF Kept
  <1>2. BranchIInv /\ [Git!Next]_(Git!vars) => [A]_(Git!vars)
    BY <1>1
  <1> QED
    BY <1>2, BranchInvariance, PTL DEF Git!Spec, Git!IssueKeepsBranch

LEMMA OnlyTheseMove ==
  ASSUME [Git!Next]_(Git!vars)
  PROVE  UNCHANGED refs
           \/ \E w \in Worker : \/ Git!CommitEdit(w) \/ Git!CreateBranch(w)
           \/ Git!DeleteBranch(w)
                                \/ Git!Push(w) \/ Git!CreateIssueBranch(w)
                                \/ Git!RollBack(w)
  BY DEF Git!Next, Git!vars, Git!Crash, Git!Look, Git!LookAtIssue, Git!Enter,
    Git!Leave, Git!PrepareEdit, Git!ChangeDefault, Git!SaveIssue

\* The branch a request is about, as it was seen and as it becomes.
Discards(w, b) ==
    /\ request[w].branch = b /\ request[w].seen = refs[b]
    /\ request[w].op \in {"delete", "push", "issue"} /\ request'[w].pc = "answer"

LEMMA MoveSeen ==
  ASSUME Git!BranchAssumption, BranchIInv, NEW w \in Worker, NEW b \in Branch,
         \/ Git!CommitEdit(w) \/ Git!CreateBranch(w) \/ Git!DeleteBranch(w)
         \/ Git!Push(w) \/ Git!CreateIssueBranch(w) \/ Git!RollBack(w)
  PROVE  refs[b] \subseteq refs'[b] \/ Discards(w, b)
  <1>1. refs \in [Branch -> SUBSET Git!Change]
    BY Types
  <1>2. CASE Git!CommitEdit(w)
    BY <1>1, <1>2 DEF Git!CommitEdit
  <1>3. CASE Git!CreateBranch(w)
    BY <1>1, <1>3 DEF Git!CreateBranch, Git!Creatable, Git!Exists
  <1>4. CASE Git!CreateIssueBranch(w)
    BY <1>1, <1>4 DEF Git!CreateIssueBranch, Git!Creatable, Git!Exists
  <1>5. CASE Git!DeleteBranch(w)
    <2>1. request[w].op = "delete"
      BY <1>5 DEF Git!DeleteBranch, Git!Working
    <2>2. CASE UNCHANGED refs
      BY <2>2
    <2>3. CASE Git!AsSeen(w) /\ refs' = [refs EXCEPT ![request[w].branch] = {}] /\ Git!Reply(w, "done")
      BY <1>1, <2>1, <2>3, ReplyPc DEF Discards, Git!AsSeen
    <2> QED
      BY <1>5, <2>2, <2>3 DEF Git!DeleteBranch
  <1>6. CASE Git!Push(w)
    <2>1. request[w].op = "push"
      BY <1>6 DEF Git!Push, Git!Working
    <2>2. CASE UNCHANGED refs
      BY <2>2
    <2>3. CASE /\ refs[request[w].branch] = request[w].seen /\ Git!Reply(w, "done")
               /\ \E tip : refs' = [refs EXCEPT ![request[w].branch] = tip]
      BY <1>1, <2>1, <2>3, ReplyPc DEF Discards
    <2> QED
      BY <1>6, <2>2, <2>3 DEF Git!Push
  <1>7. CASE Git!RollBack(w)
    <2>1. request[w].op = "issue" /\ refs[request[w].branch] = request[w].seen
      BY <1>7, Mine DEF Git!RollBack, RequestInv, Branching
    <2>2. CASE UNCHANGED refs
      BY <2>2
    <2>3. CASE refs' = [refs EXCEPT ![request[w].branch] = {}] /\ Git!Reply(w, "refused")
      BY <1>1, <2>1, <2>3, ReplyPc DEF Discards
    <2> QED
      BY <1>7, <2>2, <2>3 DEF Git!RollBack
  <1> QED
    BY <1>2, <1>3, <1>4, <1>5, <1>6, <1>7

\* No branch loses a change except to a user who had seen exactly what is given up,
\* for any number of users, branches and changes.
THEOREM NoLoss ==
  ASSUME Git!BranchAssumption PROVE Git!Spec => Git!NoWorkLost
  <1> DEFINE A == \A b \in Branch : refs[b] \subseteq refs'[b]
                    \/ \E w \in Worker : /\ request[w].branch = b /\ request[w].seen = refs[b]
                                         /\ request[w].op \in {"delete", "push", "issue"}
                                         /\ request'[w].pc = "answer"
  <1>1. ASSUME BranchIInv, [Git!Next]_(Git!vars) PROVE A
    <2>1. CASE UNCHANGED refs
      BY <2>1
    <2>2. ASSUME NEW w \in Worker,
                 \/ Git!CommitEdit(w) \/ Git!CreateBranch(w) \/ Git!DeleteBranch(w)
                 \/ Git!Push(w) \/ Git!CreateIssueBranch(w) \/ Git!RollBack(w)
          PROVE  A
      BY <1>1, <2>2, MoveSeen DEF Discards
    <2> QED
      BY <1>1, <2>1, <2>2, OnlyTheseMove
  <1>2. BranchIInv /\ [Git!Next]_(Git!vars) => [A]_(Git!vars)
    BY <1>1
  <1> QED
    BY <1>2, BranchInvariance, PTL DEF Git!Spec, Git!NoWorkLost
================================================================================
