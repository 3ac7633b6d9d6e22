------------------------------ MODULE RecordStore ------------------------------
(***************************************************************************)
(* The JSON record stores of one repository: merge requests                *)
(* (internal/review/store.go) and issues (internal/issue/store.go).        *)
(*                                                                         *)
(* Both number their records themselves, from what they find in the        *)
(* directory, and replace a record by writing a temporary file and         *)
(* renaming it.  A record that cannot be read any more is skipped, and its *)
(* number stays taken.  The stores differ in one thing: two open merge     *)
(* requests never have the same source and target.                         *)
(***************************************************************************)
EXTENDS Integers

CONSTANTS
    Worker,     \* requests under way
    Pair,       \* source and target branches (of issues: a single value)
    OneOpen,    \* TRUE for merge requests, FALSE for issues
    Absent, Damaged, None,
    MaxId,      \* bound: the records of the repository
    MaxNotes,   \* bound: comments of a record
    MaxClock    \* bound: the wall clock

Id == 1 .. MaxId
Time == 0 .. MaxClock
Record == [author : Worker, pair : Pair, state : {"open", "closed"}, notes : 0 .. MaxNotes,
           created : Time, updated : Time]

ASSUME RecordAssumption ==
    /\ OneOpen \in BOOLEAN
    /\ MaxId \in Nat /\ MaxNotes \in Nat /\ MaxClock \in Nat
    /\ None \notin Worker
    /\ Absent # Damaged /\ Absent \notin Record /\ Damaged \notin Record

VARIABLES
    file,       \* <id>.json, for every id
    spoiled,    \* records that were damaged from outside
    clock,      \* the wall clock, which may be set back
    lock,       \* who holds the store's lock of the repository
    worker,
    answered    \* history: the author and comments last acknowledged, for every id

vars == <<file, spoiled, clock, lock, worker, answered>>

Idle == [pc |-> "idle", op |-> None, id |-> 0, record |-> None]
Op == {"create", "comment", "close", "reopen"}
Pc == {"idle", "waiting", "locked", "write", "rename", "answer"}

Readable(id) == file[id] \notin {Absent, Damaged}

TypeOK ==
    /\ file \in [Id -> Record \cup {Absent, Damaged}]
    /\ spoiled \subseteq Id
    /\ clock \in Time
    /\ lock \in Worker \cup {None}
    /\ worker \in [Worker -> [pc : Pc, op : Op \cup {None}, id : 0 .. MaxId,
                              record : Record \cup {None}]]
    /\ answered \in [Id -> [author : Worker \cup {None}, notes : 0 .. MaxNotes]]
    /\ \A id \in Id : Readable(id) => file[id].created <= file[id].updated

Init ==
    /\ file = [id \in Id |-> Absent]
    /\ spoiled = {}
    /\ clock = 0
    /\ lock = None
    /\ worker = [w \in Worker |-> Idle]
    /\ answered = [id \in Id |-> [author |-> None, notes |-> 0]]

-----------------------------------------------------------------------------
(* What a holder of the lock computes. *)

\* scanDirectory: the records that can be read
Listed == {id \in Id : Readable(id)}

\* Mutant: only records that can be read have a number.
FreeReadable == {id \in Id : \A listed \in Listed : id > listed}
\* nextRecordID: the first number after every readable record whose file does not exist
Free == {id \in Id : (\A listed \in Listed : id > listed) /\ file[id] = Absent}

\* Another open merge request is about the same branches.
Duplicate(id, pair) ==
    OneOpen /\ \E other \in Listed \ {id} : file[other].state = "open" /\ file[other].pair = pair

\* validate, as far as it depends on the order of events
Valid(record) == record.updated >= record.created

\* Update's callback, as the handlers pass it
Applied(op, record) ==
    CASE op = "comment" -> [record EXCEPT !.notes = @ + 1]
      [] op = "close" -> [record EXCEPT !.state = "closed"]
      [] op = "reopen" -> [record EXCEPT !.state = "open"]

\* Mutant: the check for duplicates is left to Create.
ConflictsNever(id, record) == FALSE
Conflicts(id, record) == record.state = "open" /\ Duplicate(id, record.pair)

-----------------------------------------------------------------------------
(* Requests. *)

Set(w, r) == worker' = [worker EXCEPT ![w] = r]
Leave(w) == lock' = None /\ Set(w, Idle)

\* A handler prepares the record and its times, and calls the store.
Create(w) ==
    /\ worker[w].pc = "idle"
    /\ \E pair \in Pair :
        Set(w, [pc |-> "waiting", op |-> "create", id |-> 0,
                record |-> [author |-> w, pair |-> pair, state |-> "open", notes |-> 0,
                            created |-> clock, updated |-> clock]])
    /\ UNCHANGED <<file, spoiled, clock, lock, answered>>

Update(w) ==
    /\ worker[w].pc = "idle"
    /\ \E op \in Op \ {"create"}, id \in Id :
        Set(w, [pc |-> "waiting", op |-> op, id |-> id, record |-> None])
    /\ UNCHANGED <<file, spoiled, clock, lock, answered>>

\* lockRepositories
Enter(w) ==
    /\ worker[w].pc = "waiting" /\ lock = None
    /\ lock' = w
    /\ Set(w, [worker[w] EXCEPT !.pc = "locked"])
    /\ UNCHANGED <<file, spoiled, clock, answered>>

\* Create: a number is chosen, or the request is refused.
Number(w) ==
    LET r == worker[w]
    IN  /\ r.pc = "locked" /\ r.op = "create"
        /\ IF Duplicate(0, r.record.pair) \/ Free = {} THEN Leave(w)
           ELSE /\ \E id \in Free : /\ \A other \in Free : id <= other
                                   /\ Set(w, [r EXCEPT !.pc = "write", !.id = id])
                /\ UNCHANGED lock
        /\ UNCHANGED <<file, spoiled, clock, answered>>

\* Update: the record is read, changed, validated and checked against the others.
Change(w) ==
    LET r == worker[w]
        changed == [Applied(r.op, file[r.id]) EXCEPT !.updated = clock]
    IN  /\ r.pc = "locked" /\ r.op # "create"
        /\ IF /\ Readable(r.id)
              /\ r.op = "comment" => file[r.id].notes < MaxNotes
              /\ Valid(changed) /\ ~Conflicts(r.id, changed)
           THEN Set(w, [r EXCEPT !.pc = "write", !.record = changed]) /\ UNCHANGED lock
           ELSE Leave(w)
        /\ UNCHANGED <<file, spoiled, clock, answered>>

\* Mutant: the record is written in place.
WriteInPlace(w) ==
    LET r == worker[w]
    IN  /\ r.pc = "write"
        /\ file' = [file EXCEPT ![r.id] = Damaged]
        /\ Set(w, [r EXCEPT !.pc = "rename"])
        /\ UNCHANGED <<spoiled, clock, lock, answered>>
\* writeRecord: a temporary file, whose name no scan looks at; it may fail.
Write(w) ==
    /\ worker[w].pc = "write"
    /\ \/ Set(w, [worker[w] EXCEPT !.pc = "rename"]) /\ UNCHANGED lock
       \/ Leave(w)
    /\ UNCHANGED <<file, spoiled, clock, answered>>

Rename(w) ==
    LET r == worker[w]
    IN  /\ r.pc = "rename"
        /\ \/ /\ file' = [file EXCEPT ![r.id] = r.record]
              /\ Set(w, [r EXCEPT !.pc = "answer"]) /\ UNCHANGED lock
           \/ Leave(w) /\ UNCHANGED file
        /\ UNCHANGED <<spoiled, clock, answered>>

Acknowledged(w, r, a) ==
    IF r.op = "comment" THEN [a EXCEPT !.notes = a.notes + 1]
    ELSE IF r.op = "create" THEN [author |-> w, notes |-> 0] ELSE a
Answer(w) ==
    LET r == worker[w]
    IN  /\ r.pc = "answer"
        /\ answered' = [answered EXCEPT ![r.id] = Acknowledged(w, r, answered[r.id])]
        /\ Leave(w)
        /\ UNCHANGED <<file, spoiled, clock>>

\* The process ends; a temporary file may stay behind.
Crash ==
    /\ \E w \in Worker : worker[w].pc # "idle"
    /\ worker' = [w \in Worker |-> Idle]
    /\ lock' = None
    /\ UNCHANGED <<file, spoiled, clock, answered>>

\* From outside: a record is cut short, edited by hand, or of an older format
\* (not one that is being replaced: the rename would just restore it).
Spoil(id) ==
    /\ Readable(id)
    /\ \A w \in Worker : worker[w].pc \in {"write", "rename"} => worker[w].id # id
    /\ file' = [file EXCEPT ![id] = Damaged]
    /\ spoiled' = spoiled \cup {id}
    /\ UNCHANGED <<clock, lock, worker, answered>>

SetClock ==
    /\ \E t \in Time : t \in {clock - 1, clock + 1} /\ clock' = t
    /\ UNCHANGED <<file, spoiled, lock, worker, answered>>

Next ==
    \/ SetClock \/ Crash
    \/ \E id \in Id : Spoil(id)
    \/ \E w \in Worker :
        \/ Create(w) \/ Update(w) \/ Enter(w) \/ Number(w) \/ Change(w)
        \/ Write(w) \/ Rename(w) \/ Answer(w)

Spec == Init /\ [][Next]_vars

-----------------------------------------------------------------------------
(* Properties. *)

\* A number is given once: a file that exists is only ever replaced by a later
\* version of the same record, and one that cannot be read is left alone.
NothingOverwritten ==
    [][\A id \in Id : file[id] # Absent =>
         \/ file'[id] = file[id]
         \/ id \in spoiled' \ spoiled
         \/ /\ file[id] # Damaged
            /\ file'[id] \in Record
            /\ file'[id].author = file[id].author /\ file'[id].pair = file[id].pair
            /\ file'[id].notes >= file[id].notes]_vars

\* What was acknowledged is on disk: no comment is lost to another writer of the
\* record or to a crash between any two steps of a later write.
AcknowledgedKept ==
    \A id \in Id \ spoiled : answered[id].author # None =>
        /\ Readable(id)
        /\ file[id].author = answered[id].author
        /\ file[id].notes >= answered[id].notes

\* At most one open merge request for a source and a target, also when requests
\* were closed and are opened again.
OneOpenPerPair ==
    OneOpen => \A i, j \in Listed :
        file[i].state = "open" /\ file[j].state = "open" /\ file[i].pair = file[j].pair => i = j
===============================================================================
