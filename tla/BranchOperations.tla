--------------------------- MODULE BranchOperations ---------------------------
(***************************************************************************)
(* What users do to the branches of one repository: the file editor        *)
(* (internal/httpapi/edit.go), the branch manager (browser.go), issue      *)
(* branches (issues.go) and pushes.                                        *)
(*                                                                         *)
(* A user decides on what a page or a fetch showed; by the time the        *)
(* request holds the repository's lock the branch may be another one.  A   *)
(* commit stands for its history: a tip is the set of changes it contains. *)
(* The issue records are those of RecordStore, whose operations are atomic.*)
(***************************************************************************)
EXTENDS Integers, FiniteSets

CONSTANTS
    Branch, Main,   \* branch names, and the default branch at first
    Issue,
    Prefixed,       \* the branch names that carry the number of an issue
    Worker,         \* requests under way
    MaxChange,      \* bound: changes made
    None

BranchAssumption ==
    /\ Main \in Branch
    /\ Prefixed \in [Issue -> SUBSET Branch]
    /\ MaxChange \in Nat
    /\ None \notin Worker /\ None \notin Branch /\ None \notin Issue

Change == 0 .. MaxChange
Tip == (SUBSET Change) \ {{}}

VARIABLES
    refs,       \* refs/heads
    head,       \* the branch HEAD points to
    branchOf,   \* the Branch field of every issue's record
    lock,       \* the repository's exclusive lock
    worker,
    changes,    \* changes made so far
    unborn      \* history: HEAD's branch never had a commit, or a push deleted it

vars == <<refs, head, branchOf, lock, worker, changes, unborn>>

Op == {"edit", "create", "delete", "default", "issue", "push"}
Pc == {"idle", "looked", "locked", "prepared", "created", "unsaved", "answer"}
Idle == [pc |-> "idle", op |-> None, branch |-> None, from |-> None, issue |-> None,
         seen |-> {}, before |-> {}, outcome |-> None]

\* {} stands for a branch that does not exist.
TypeOK ==
    /\ refs \in [Branch -> Tip \cup {{}}]
    /\ head \in Branch
    /\ branchOf \in [Issue -> Branch \cup {None}]
    /\ lock \in Worker \cup {None}
    /\ worker \in [Worker ->
            [pc : Pc, op : Op \cup {None}, branch : Branch \cup {None}, from : Branch \cup {None},
             issue : Issue \cup {None}, seen : SUBSET Change, before : SUBSET Change,
             outcome : {None, "done", "refused", "stranded"}]]
    /\ changes \in Change
    /\ unborn \in BOOLEAN
    /\ \A w \in Worker : lock = w <=> worker[w].pc \notin {"idle", "looked"}

\* A repository is created with a first commit of a README or a description, or
\* without any: then HEAD names a branch that does not exist.
Init ==
    /\ \E tip \in {{0}, {}} :
        /\ refs = [b \in Branch |-> IF b = Main THEN tip ELSE {}]
        /\ unborn = (tip = {})
    /\ head = Main
    /\ branchOf = [i \in Issue |-> None]
    /\ lock = None
    /\ worker = [w \in Worker |-> Idle]
    /\ changes = 0

-----------------------------------------------------------------------------
Set(w, r) == worker' = [worker EXCEPT ![w] = r]
Reply(w, outcome) == Set(w, [worker[w] EXCEPT !.pc = "answer", !.outcome = outcome])
Working(w, op) == worker[w].pc = "locked" /\ worker[w].op = op
Exists(b) == refs[b] # {}
New == changes + 1
\* Branch b has a commit that nothing takes back.
Born(b) == unborn' = (unborn /\ b # head)

\* A page or a fetch shows a branch, and the user asks for something.
Look(w) ==
    /\ worker[w].pc = "idle"
    /\ \E op \in Op \ {"issue"}, b, from \in Branch :
        /\ op # "create" => from = b
        /\ Set(w, [Idle EXCEPT !.pc = "looked", !.op = op, !.branch = b, !.from = from,
                               !.seen = refs[b]])
    /\ UNCHANGED <<refs, head, branchOf, lock, changes, unborn>>

\* createIssueBranch: the name must have the issue's prefix
LookAtIssue(w) ==
    /\ worker[w].pc = "idle"
    /\ \E i \in Issue, from \in Branch : \E b \in Prefixed[i] :
        Set(w, [Idle EXCEPT !.pc = "looked", !.op = "issue", !.branch = b, !.from = from,
                            !.issue = i])
    /\ UNCHANGED <<refs, head, branchOf, lock, changes, unborn>>

\* acquireRepositoryOperationLocks
Enter(w) ==
    /\ worker[w].pc = "looked" /\ lock = None
    /\ lock' = w
    /\ Set(w, [worker[w] EXCEPT !.pc = "locked", !.before = refs[worker[w].branch]])
    /\ UNCHANGED <<refs, head, branchOf, changes, unborn>>

Leave(w) ==
    /\ worker[w].pc = "answer"
    /\ lock' = None
    /\ Set(w, Idle)
    /\ UNCHANGED <<refs, head, branchOf, changes, unborn>>

\* expectedCommit
AsSeen(w) == Exists(worker[w].branch) /\ refs[worker[w].branch] = worker[w].seen

\* prepareRepositoryFileChange
PrepareEdit(w) ==
    /\ Working(w, "edit")
    /\ IF AsSeen(w) /\ changes < MaxChange
       THEN Set(w, [worker[w] EXCEPT !.pc = "prepared"])
       ELSE Reply(w, "refused")
    /\ UNCHANGED <<refs, head, branchOf, lock, changes, unborn>>

\* commitRepositoryFileChange: the new commit's parent is the one that was seen.
CommitEdit(w) ==
    LET r == worker[w]
    IN  /\ r.pc = "prepared"
        /\ \/ /\ refs[r.branch] = r.seen \* CheckAndSetReference
              /\ refs' = [refs EXCEPT ![r.branch] = r.seen \cup {New}]
              /\ changes' = New
              /\ Reply(w, "done")
           \/ Reply(w, "refused") /\ UNCHANGED <<refs, changes>> \* also: could not store
        /\ UNCHANGED <<head, branchOf, lock, unborn>>

\* createRepositoryBranchReference
Creatable(b, from) == ~Exists(b) /\ Exists(from)

\* createRepositoryBranch
CreateBranch(w) ==
    LET r == worker[w]
    IN  /\ Working(w, "create")
        /\ IF Creatable(r.branch, r.from)
           THEN /\ refs' = [refs EXCEPT ![r.branch] = refs[r.from]]
                /\ Born(r.branch) /\ Reply(w, "done")
           ELSE Reply(w, "refused") /\ UNCHANGED <<refs, unborn>>
        /\ UNCHANGED <<head, branchOf, lock, changes>>

Protected(b) == b = head

\* deleteRepositoryBranch
DeleteBranch(w) ==
    LET r == worker[w]
    IN  /\ Working(w, "delete")
        /\ IF ~Protected(r.branch) /\ AsSeen(w)
           THEN refs' = [refs EXCEPT ![r.branch] = {}] /\ Reply(w, "done")
           ELSE Reply(w, "refused") /\ UNCHANGED refs
        /\ UNCHANGED <<head, branchOf, lock, changes, unborn>>

\* updateRepositoryDefaultBranch
ChangeDefault(w) ==
    /\ Working(w, "default")
    /\ IF Exists(worker[w].branch)
       THEN head' = worker[w].branch /\ Reply(w, "done") /\ unborn' = FALSE
       ELSE Reply(w, "refused") /\ UNCHANGED <<head, unborn>>
    /\ UNCHANGED <<refs, branchOf, lock, changes>>

\* applyRefUpdate of a push: compare and set; the new tip may be any, or none.
Push(w) ==
    LET b == worker[w].branch
    IN  /\ Working(w, "push")
        /\ \/ /\ refs[b] = worker[w].seen
              /\ \E tip \in {{}, {New}, worker[w].seen \cup {New}} :
                  /\ New \in tip => changes < MaxChange
                  /\ refs' = [refs EXCEPT ![b] = tip]
                  /\ changes' = IF New \in tip THEN New ELSE changes
                  /\ unborn' = IF b = head THEN tip = {} ELSE unborn
              /\ Reply(w, "done")
           \/ refs[b] # worker[w].seen /\ Reply(w, "refused") /\ UNCHANGED <<refs, changes, unborn>>
        /\ UNCHANGED <<head, branchOf, lock>>

-----------------------------------------------------------------------------
(* createIssueBranch *)

Unbranched(i) == branchOf[i] = None

\* The record is read, and the branch created.
CreateIssueBranch(w) ==
    LET r == worker[w]
    IN  /\ Working(w, "issue")
        /\ IF Unbranched(r.issue) /\ Creatable(r.branch, r.from)
           THEN /\ refs' = [refs EXCEPT ![r.branch] = refs[r.from]]
                /\ Set(w, [r EXCEPT !.pc = "created", !.seen = refs[r.from]])
           ELSE Reply(w, "refused") /\ UNCHANGED refs
        /\ UNCHANGED <<head, branchOf, lock, changes, unborn>>

\* The record is updated; that may fail.
SaveIssue(w) ==
    LET r == worker[w]
    IN  /\ r.pc = "created"
        /\ \/ /\ Unbranched(r.issue)
              /\ branchOf' = [branchOf EXCEPT ![r.issue] = r.branch]
              /\ Born(r.branch) /\ Reply(w, "done")
           \/ Set(w, [r EXCEPT !.pc = "unsaved"]) /\ UNCHANGED <<branchOf, unborn>>
        /\ UNCHANGED <<refs, head, lock, changes>>

\* RemoveReference, which may fail as well
RollBack(w) ==
    /\ worker[w].pc = "unsaved"
    /\ \/ /\ refs' = [refs EXCEPT ![worker[w].branch] = {}]
          /\ Reply(w, "refused") /\ UNCHANGED unborn
       \/ Reply(w, "stranded") /\ Born(worker[w].branch) /\ UNCHANGED refs
    /\ UNCHANGED <<head, branchOf, lock, changes>>

-----------------------------------------------------------------------------
\* The process ends: what was on disk stays.
Crash ==
    /\ \E w \in Worker : worker[w].pc # "idle"
    /\ worker' = [w \in Worker |-> Idle]
    /\ lock' = None
    /\ UNCHANGED <<refs, head, branchOf, changes, unborn>>

Next ==
    \/ Crash
    \/ \E w \in Worker :
        \/ Look(w) \/ LookAtIssue(w) \/ Enter(w) \/ Leave(w)
        \/ PrepareEdit(w) \/ CommitEdit(w) \/ CreateBranch(w) \/ DeleteBranch(w)
        \/ ChangeDefault(w) \/ Push(w)
        \/ CreateIssueBranch(w) \/ SaveIssue(w) \/ RollBack(w)

Spec == Init /\ [][Next]_vars

-----------------------------------------------------------------------------
(* Properties. *)

\* Nobody's work is discarded unseen: a branch loses changes only through a
\* deletion or a push by a user who had seen exactly the tip that is given up,
\* or when the branch an issue was just given is taken back.
NoWorkLost ==
    [][\A b \in Branch : refs[b] \subseteq refs'[b]
         \/ \E w \in Worker : /\ worker[w].branch = b /\ worker[w].seen = refs[b]
                              /\ worker[w].op \in {"delete", "push", "issue"}
                              /\ worker'[w].pc = "answer"]_vars

\* The answer to a request is true of the repository and of the issue's record: a
\* refused one left the branch as it was, and an issue names its new branch exactly
\* when the request for it succeeds, whichever of the two writes failed.
AnswerTrue ==
    \A w \in Worker : worker[w].pc = "answer" =>
        LET r == worker[w]
        IN  /\ r.outcome = "refused" => refs[r.branch] = r.before
            /\ r.op = "issue" /\ r.outcome = "done" =>
                 branchOf[r.issue] = r.branch /\ refs[r.branch] = r.seen
            /\ r.outcome = "stranded" => branchOf[r.issue] = None

\* The issue permanently records its branch, which existed when it was recorded;
\* no second request for a branch, and no crash, replaces it.
IssueKeepsBranch ==
    [][\A i \in Issue : branchOf'[i] # branchOf[i] =>
         branchOf[i] = None /\ refs[branchOf'[i]] # {} /\ refs'[branchOf'[i]] # {}]_vars

\* HEAD names a branch that exists from the first commit of that branch on, however
\* changes of the default branch, deletions and issue branches that are taken back
\* interleave; only a push can take the default branch away.  A repository created
\* empty has none until a push brings it.
HeadStands == Exists(head) \/ unborn
===============================================================================
