-------------------------- MODULE RepositoryLifecycle --------------------------
(***************************************************************************)
(* Creation, import, renaming and deletion of repositories and groups.     *)
(*                                                                         *)
(* A repository is up to five directories with a common path and the       *)
(* suffixes .git, .lfs, .build, .issues and .reviews; the records in the   *)
(* last two name the path of their repository.  A request that changes     *)
(* paths is a list of directory renames and rewrites, done one after the   *)
(* other (op.todo).  When one fails, those already done are undone         *)
(* (op.done), each of which may fail again; when the process ends,         *)
(* whatever was done stays done and nothing is repaired at the next start. *)
(*                                                                         *)
(* The handlers of httpapi/api.go take the operation locks of every path   *)
(* they name, exclusively, before they call these operations (HandlerLocks *)
(* models that), so one operation at a time runs here; an import prepares  *)
(* its data before it takes its lock, while other operations run.          *)
(***************************************************************************)
EXTENDS Naturals, Sequences, FiniteSets, SequencesExt

CONSTANTS Groups,       \* sibling groups
          Rooted,       \* whether they are root groups, with control repositories
          Names,        \* the names of repositories, in the order of a walk
          Repositories, \* identities of repositories, none used twice
          Importable,   \* those that may arrive by an import
          Sidecars,     \* the kinds of data that appear after creation
          MaxDirty,     \* bound: operations that end halfway
          Absent        \* no such directory

NameSet == ToSet(Names)


VARIABLES
  dir,       \* path -> kind -> the data kept in that directory
  groups,    \* the directories of groups
  control,   \* the group that the control document in a group's directory names
  hidden,    \* group -> record stores set aside under a temporary name
  trash,     \* the data moved to .trash
  staged,    \* imports prepared outside every lock: a path and its repository
  used,      \* the identities given to repositories so far
  op,        \* the operation that is running
  dirty      \* how many operations ended halfway: a crash, a failed restore

vars == <<dir, groups, control, hidden, trash, staged, used, op, dirty>>
disk == <<dir, groups, control, hidden, trash>>

--------------------------------------------------------------------------------

usable == {g \in groups : Rooted => control[g] = g}

\* The promise: seen from outside an operation, everything happens at once.
Catalog == INSTANCE RepositoryCatalog
             WITH Names <- NameSet,
                  catalog <- IF op.kind = "idle" THEN dir ELSE op.snap,
                  usable <- IF op.kind = "idle" THEN usable ELSE op.usable

Kinds == Catalog!Kinds
Stores == Catalog!Stores
Paths == Catalog!Paths
Nothing == Catalog!Nothing
Data(r, k, p) == Catalog!Data(r, k, p)

Content == {Absent} \cup [repo : Repositories, at : Paths \cup {Absent}]

\* Absent is a value of its own; some operation may end halfway.
ASSUME LifecycleAssumption ==
  /\ Rooted \in BOOLEAN /\ Names \in Seq(NameSet)
  /\ Absent \notin Groups \cup Paths \cup [repo : Repositories, at : Paths \cup {Absent}]
  /\ Importable \subseteq Repositories /\ Sidecars \subseteq Kinds
  /\ MaxDirty \in Nat \ {0}

\* A directory has one entry of a name.
ASSUME WalkAssumption == \A i, j \in DOMAIN Names : Names[i] = Names[j] => i = j

Idle == [kind |-> "idle"]

Init ==
  /\ dir = [p \in Paths |-> Nothing]
  /\ groups = Groups
  /\ control = [g \in Groups |-> IF Rooted THEN g ELSE Absent]
  /\ hidden = [g \in Groups |-> {}]
  /\ trash = {}
  /\ staged = {}
  /\ used = {}
  /\ op = Idle
  /\ dirty = 0

--------------------------------------------------------------------------------
(* The steps an operation is made of.                                      *)

Move(p, q, k) == [do |-> "move", k |-> k, from |-> p, to |-> q]
Trash(p, k) == [do |-> "trash", k |-> k, from |-> p, to |-> p]
Untrash(p, k, c) == [do |-> "untrash", k |-> k, from |-> p, to |-> p, c |-> c]
Make(p, k, r) == [do |-> "make", k |-> k, from |-> p, to |-> p, c |-> Data(r, k, p)]
Discard(p, k) == [do |-> "remove", k |-> k, from |-> p, to |-> p]
Rewrite(p, q, k, old, new) ==
  [do |-> "rewrite", k |-> k, from |-> p, to |-> q, old |-> old, new |-> new]
Carry(g, h) == [do |-> "carry", k |-> "group", from |-> g, to |-> h]
Control(g) == [do |-> "control", k |-> "group", from |-> g, to |-> g]
Mkdir(g) == [do |-> "mkdir", k |-> "group", from |-> g, to |-> g]

\* What undoes a step that succeeded.
Reversal(s) ==
  CASE s.do = "move" -> <<Move(s.to, s.from, s.k)>>
    [] s.do = "trash" -> <<Untrash(s.from, s.k, dir[s.from][s.k])>>
    [] s.do = "make" -> <<Discard(s.from, s.k)>>
    [] s.do = "carry" -> <<Carry(s.to, s.from)>>
    [] s.do = "rewrite" -> <<Rewrite(s.to, s.from, s.k, s.new, s.old)>>
    [] OTHER -> <<>>

\* rewriteGroup: every record store of one kind below a group, in the order of
\* the walk; the directory of the group is at g.
RewriteAll(g, k, old, new) ==
  [i \in 1..Len(Names) |->
     Rewrite(<<g, Names[i]>>, <<g, Names[i]>>, k, <<old, Names[i]>>, <<new, Names[i]>>)]

\* RenameGroupLocked with MoveGroupLocked of both stores.
GroupSteps(g, h) ==
  <<Carry(g, h)>> \o RewriteAll(h, "issues", g, h) \o RewriteAll(h, "reviews", g, h)

\* Moving a directory to the trash, or to another path, if there is one.
TrashPresent(p, k) == IF dir[p][k] # Absent THEN <<Trash(p, k)>> ELSE <<>>
MovePresent(p, q, k) == IF dir[p][k] # Absent THEN <<Move(p, q, k)>> ELSE <<>>

--------------------------------------------------------------------------------
(* The checks.                                                             *)

groupExists(g) == g \in groups /\ (Rooted => control[g] # Absent)

\* authorize loads the control document, which has to name its own group.
Authorized(g) == Rooted => control[g] = g

\* Mutant: looks at the Git data only.
VacantGit(p) == dir[p]["git"] = Absent

\* createRepository and RenameRepositoryLocked: no data of any kind is there.
Vacant(p) == \A k \in Kinds : dir[p][k] = Absent

\* prepareImportDestination.
ImportVacant(p) == \A k \in {"git", "lfs", "build", "reviews"} : dir[p][k] = Absent

\* listDirectory for a relocation: one record of another path is an error.
Readable(p, k, old) == dir[p][k] = Absent \/ dir[p][k].at = old

Begin(kind, from, to, todo) ==
  /\ op' = [kind |-> kind, from |-> from, to |-> to, todo |-> todo, done |-> <<>>,
            mode |-> "do", back |-> FALSE, held |-> Absent,
            snap |-> dir, usable |-> usable]
  /\ UNCHANGED <<disk, dirty>>

--------------------------------------------------------------------------------
(* The requests.                                                           *)

createRepository(p, r) ==
  /\ op = Idle
  /\ Authorized(p[1]) /\ groupExists(p[1])
  /\ Vacant(p)
  /\ r \notin used
  /\ used' = used \cup {r}
  /\ Begin("create", p, p, <<Make(p, "git", r), Make(p, "lfs", r)>>)
  /\ UNCHANGED staged

\* ImportRepositoryValidated: the destination is checked, then the repository
\* is cloned or extracted without a lock.
importStage(p, r) ==
  /\ op = Idle
  /\ Authorized(p[1]) /\ groupExists(p[1])
  /\ ImportVacant(p)
  /\ r \in Importable \ used
  /\ used' = used \cup {r}
  /\ staged' = staged \cup {[at |-> p, repo |-> r]}
  /\ UNCHANGED <<disk, op, dirty>>

\* The clone fails, or the checks fail when they are repeated under the lock.
importFail(i) ==
  /\ staged' = staged \ {i}
  /\ UNCHANGED <<disk, used, op, dirty>>

\* Under the lock everything is checked again; then the data is moved in.
importAdopt(i) ==
  /\ op = Idle
  /\ Authorized(i.at[1]) /\ groupExists(i.at[1])
  /\ ImportVacant(i.at)
  /\ staged' = staged \ {i}
  /\ Begin("import", i.at, i.at, <<Make(i.at, "git", i.repo), Make(i.at, "lfs", i.repo)>>)
  /\ UNCHANGED used

DeleteRepository(p) ==
  /\ op = Idle
  /\ Authorized(p[1])
  /\ Begin("delete", p, p,
           <<Trash(p, "git")>> \o TrashPresent(p, "lfs") \o TrashPresent(p, "build")
           \o TrashPresent(p, "reviews") \o TrashPresent(p, "issues"))
  /\ UNCHANGED <<staged, used>>

RenameRepository(p, q) ==
  /\ op = Idle
  /\ p[1] = q[1] /\ p # q
  /\ Authorized(p[1])
  /\ Vacant(q)
  /\ Begin("rename", p, q,
           <<Move(p, q, "git")>> \o MovePresent(p, q, "lfs") \o MovePresent(p, q, "build")
           \o <<Rewrite(p, q, "issues", p, q), Rewrite(p, q, "reviews", p, q)>>)
  /\ UNCHANGED <<staged, used>>

\* Mutant: takes a directory that no request can use for a new group.
CreateGroupUnusable(g) ==
  /\ op = Idle
  /\ g \notin usable
  /\ Begin("group", g, g, IF Rooted THEN <<Mkdir(g), Control(g)>>
                                              ELSE <<Mkdir(g)>>)
  /\ UNCHANGED <<staged, used>>

CreateGroup(g) ==
  /\ op = Idle
  /\ g \notin groups
  /\ Begin("group", g, g, IF Rooted THEN <<Mkdir(g), Control(g)>>
                                              ELSE <<Mkdir(g)>>)
  /\ UNCHANGED <<staged, used>>

\* Only a control repository may be left in the directory.
DeleteGroup(g) ==
  /\ op = Idle
  /\ Authorized(g) /\ groupExists(g)
  /\ \A n \in NameSet : Vacant(<<g, n>>)
  /\ hidden[g] = {}
  /\ groups' = groups \ {g}
  /\ control' = [control EXCEPT ![g] = Absent]
  /\ UNCHANGED <<dir, hidden, trash, staged, used, op, dirty>>

\* renameRootGroupControlLocked for a root group, which ends with a new control
\* document, and RenameGroupLocked alone for a subgroup.
RenameGroup(g, h) ==
  /\ op = Idle
  /\ g # h
  /\ Authorized(g) /\ groupExists(g)
  /\ h \notin groups
  /\ Begin("move", g, h,
           GroupSteps(g, h) \o (IF Rooted THEN <<Control(h)>> ELSE <<>>))
  /\ UNCHANGED <<staged, used>>

\* The first object, build, issue or merge request makes its directory; a
\* handler holds the operation lock of the repository while it does.
Grow(p, k) ==
  /\ op = Idle
  /\ Authorized(p[1])
  /\ dir[p]["git"] # Absent
  /\ dir[p][k] = Absent
  /\ dir' = [dir EXCEPT ![p][k] = Data(dir[p]["git"].repo, k, p)]
  /\ UNCHANGED <<groups, control, hidden, trash, staged, used, op, dirty>>

--------------------------------------------------------------------------------
(* The steps.                                                              *)

Step == Head(op.todo)
Running == op # Idle /\ op.todo # <<>>

\* A rename needs its source, and finds no destination that holds data.
Feasible(s) ==
  CASE s.do = "move" -> dir[s.from][s.k] # Absent /\ dir[s.to][s.k] = Absent
    [] s.do = "trash" -> dir[s.from][s.k] # Absent
    [] s.do \in {"make", "untrash"} -> dir[s.from][s.k] = Absent
    [] s.do = "carry" -> s.from \in groups /\ s.to \notin groups
    [] OTHER -> TRUE

Effect(s) ==
  /\ dir' = CASE s.do = "move" ->
                   [dir EXCEPT ![s.to][s.k] = dir[s.from][s.k], ![s.from][s.k] = Absent]
              [] s.do \in {"trash", "remove"} -> [dir EXCEPT ![s.from][s.k] = Absent]
              [] s.do \in {"make", "untrash"} -> [dir EXCEPT ![s.from][s.k] = s.c]
              [] s.do = "carry" ->
                   [p \in Paths |-> CASE p[1] = s.to -> dir[<<s.from, p[2]>>]
                                      [] p[1] = s.from -> Nothing
                                      [] OTHER -> dir[p]]
              [] OTHER -> dir
  /\ trash' = CASE s.do = "trash" -> trash \cup {[repo |-> dir[s.from][s.k].repo, k |-> s.k]}
                [] s.do = "untrash" -> trash \ {[repo |-> s.c.repo, k |-> s.k]}
                [] OTHER -> trash
  /\ groups' = CASE s.do = "mkdir" -> groups \cup {s.to}
                 [] s.do = "carry" -> (groups \ {s.from}) \cup {s.to}
                 [] OTHER -> groups
  /\ control' = CASE s.do = "control" -> [control EXCEPT ![s.to] = s.to]
                  [] s.do = "carry" ->
                       [control EXCEPT ![s.to] = control[s.from], ![s.from] = Absent]
                  [] OTHER -> control
  /\ hidden' = IF s.do = "carry"
               THEN [hidden EXCEPT ![s.to] = hidden[s.from], ![s.from] = {}]
               ELSE hidden

\* Undoing a group rename puts the directory back first and the issues after
\* it; a failure among those takes back only them.
Done(s) == IF op.mode = "undo" /\ s.do = "carry" THEN <<>> ELSE Reversal(s) \o op.done

Advance(s) == op' = [op EXCEPT !.todo = Tail(@), !.done = Done(s), !.held = Absent]

StepDone ==
  /\ Running /\ Step.do # "rewrite"
  /\ Feasible(Step)
  /\ Effect(Step)
  /\ Advance(Step)
  /\ UNCHANGED <<staged, used, dirty>>

\* Mutant: puts back what was moved, in the order of the moves.
AfterFailureForgetsIssues(s) ==
  IF op.mode = "do" /\ (op.kind = "move" => s.do # "control")
  THEN [op EXCEPT !.mode = "undo", !.done = <<>>, !.held = Absent,
                  !.todo = SelectSeq(op.done, LAMBDA d : d.k # "issues")]
  ELSE [op EXCEPT !.todo = Tail(@), !.held = Absent]

\* What a group rename has done in the merge requests, the last steps first.
ReviewsDone ==
  SubSeq(op.done, 1, Cardinality({i \in DOMAIN op.done : op.done[i].k = "reviews"}))

\* What remains to do when step s of a group rename has failed.
AfterMoveFailure(s) ==
  LET undo == [op EXCEPT !.mode = "undo", !.done = <<>>, !.held = Absent]
  IN  IF s.do = "control" /\ ~op.back
      THEN [op EXCEPT !.back = TRUE, !.from = op.to, !.to = op.from, !.done = <<>>,
                      !.todo = GroupSteps(op.to, op.from) \o <<Control(op.from)>>]
      ELSE IF s.do = "control" \/ (op.mode = "undo" /\ s.do = "carry")
      THEN [op EXCEPT !.todo = <<>>]
      ELSE IF op.mode = "do" /\ s.k = "reviews"
      THEN [undo EXCEPT !.todo = ReviewsDone \o <<Carry(op.to, op.from)>>
                                 \o RewriteAll(op.from, "issues", op.to, op.from)]
      ELSE IF op.mode = "do"
      THEN [undo EXCEPT !.todo = op.done]
      ELSE IF op.mode = "undo" /\ s.from[1] = op.from
      THEN [op EXCEPT !.mode = "redo", !.todo = op.done, !.held = Absent]
      ELSE [op EXCEPT !.todo = Tail(@), !.held = Absent]

\* What remains to do when step s of the running operation has failed.
AfterFailure(s) ==
  IF op.kind = "move" THEN AfterMoveFailure(s)
  ELSE IF op.mode = "do"
  THEN [op EXCEPT !.mode = "undo", !.todo = op.done, !.done = <<>>, !.held = Absent]
  ELSE [op EXCEPT !.todo = Tail(@), !.held = Absent]

\* Failures of the request itself, and failures of what puts things back.
Forward == op.mode = "do" /\ ~op.back
MayFail == Forward \/ dirty < MaxDirty
Soil(halfway) == dirty' = IF halfway /\ dirty < MaxDirty THEN dirty + 1 ELSE dirty

StepFails ==
  /\ Running /\ Step.do # "rewrite"
  /\ MayFail \/ ~Feasible(Step)
  /\ op' = AfterFailure(Step)
  /\ Soil(~Forward)
  /\ UNCHANGED <<disk, staged, used>>

\* git.PlainInit fails and leaves what it has written so far.
InitLeavesDirectory ==
  /\ Running /\ op.kind = "create" /\ Step.k = "git" /\ Step.do = "make"
  /\ Effect(Step)
  /\ op' = [op EXCEPT !.todo = <<>>]
  /\ UNCHANGED <<staged, used, dirty>>

\* createGroup: the control repository cannot be built, and the directory of
\* the group stays; only the last rename of that sequence removes it.
ControlNotMoved ==
  /\ Running /\ op.kind = "group" /\ Step.do = "control"
  /\ groups' = groups \ {Step.to}
  /\ op' = [op EXCEPT !.todo = <<>>]
  /\ UNCHANGED <<dir, control, hidden, trash, staged, used, dirty>>

\* relocate and rewriteDirectory: without a store there is nothing to do.
RewriteNothing ==
  /\ Running /\ Step.do = "rewrite" /\ op.held = Absent
  /\ dir[Step.from][Step.k] = Absent
  /\ Step.from # Step.to => dir[Step.to][Step.k] = Absent
  /\ op' = [op EXCEPT !.todo = Tail(@)]
  /\ UNCHANGED <<disk, staged, used, dirty>>

\* Mutant: removes the store before its copy is in place.
HideByRemoving ==
  /\ Running /\ Step.do = "rewrite" /\ op.held = Absent
  /\ dir[Step.from][Step.k] # Absent
  /\ Step.from # Step.to => dir[Step.to][Step.k] = Absent
  /\ Readable(Step.from, Step.k, Step.old)
  /\ dir' = [dir EXCEPT ![Step.from][Step.k] = Absent]
  /\ op' = [op EXCEPT !.held = dir[Step.from][Step.k]]
  /\ UNCHANGED <<groups, control, hidden, trash, staged, used, dirty>>

\* The records are copied with their new path to a staging directory; then the
\* store itself is set aside.
Hide ==
  /\ Running /\ Step.do = "rewrite" /\ op.held = Absent
  /\ dir[Step.from][Step.k] # Absent
  /\ Step.from # Step.to => dir[Step.to][Step.k] = Absent
  /\ Readable(Step.from, Step.k, Step.old)
  /\ dir' = [dir EXCEPT ![Step.from][Step.k] = Absent]
  /\ hidden' = [hidden EXCEPT ![Step.from[1]] =
                  @ \cup {[repo |-> dir[Step.from][Step.k].repo, k |-> Step.k]}]
  /\ op' = [op EXCEPT !.held = dir[Step.from][Step.k]]
  /\ UNCHANGED <<groups, control, trash, staged, used, dirty>>

HideFails ==
  /\ Running /\ Step.do = "rewrite" /\ op.held = Absent
  /\ dir[Step.from][Step.k] # Absent \/ (Step.from # Step.to /\ dir[Step.to][Step.k] # Absent)
  /\ \/ MayFail
     \/ Step.from # Step.to /\ dir[Step.to][Step.k] # Absent
     \/ ~Readable(Step.from, Step.k, Step.old)
  /\ op' = AfterFailure(Step)
  /\ Soil(~Forward)
  /\ UNCHANGED <<disk, staged, used>>

Unhide == hidden' = [hidden EXCEPT ![Step.from[1]] =
                       @ \ {[repo |-> op.held.repo, k |-> Step.k]}]

\* The staging directory takes the place of the store, which is then removed.
Publish ==
  /\ Running /\ op.held # Absent
  /\ dir' = [dir EXCEPT ![Step.to][Step.k] = Data(op.held.repo, Step.k, Step.new)]
  /\ Unhide
  /\ Advance(Step)
  /\ UNCHANGED <<groups, control, trash, staged, used, dirty>>

PublishFails ==
  /\ Running /\ op.held # Absent
  /\ MayFail
  /\ dir' = [dir EXCEPT ![Step.from][Step.k] = op.held]
  /\ Unhide
  /\ op' = AfterFailure(Step)
  /\ Soil(~Forward)
  /\ UNCHANGED <<groups, control, trash, staged, used>>

\* The store cannot be put back either: it stays under its temporary name.
RestoreFails ==
  /\ Running /\ op.held # Absent
  /\ dirty < MaxDirty
  /\ op' = AfterFailure(Step)
  /\ Soil(TRUE)
  /\ UNCHANGED <<disk, staged, used>>

Finish ==
  /\ op # Idle /\ op.todo = <<>>
  /\ op' = Idle
  /\ UNCHANGED <<disk, staged, used, dirty>>

Crash ==
  /\ dirty < MaxDirty
  /\ op # Idle \/ staged # {}
  /\ op' = Idle
  /\ staged' = {}
  /\ Soil(op # Idle)
  /\ UNCHANGED <<disk, used>>

--------------------------------------------------------------------------------

Request ==
  \/ \E p \in Paths : \E r \in Repositories : createRepository(p, r) \/ importStage(p, r)
  \/ \E i \in staged : importFail(i) \/ importAdopt(i)
  \/ \E p \in Paths : DeleteRepository(p)
  \/ \E p, q \in Paths : RenameRepository(p, q)
  \/ \E g \in Groups : CreateGroup(g) \/ DeleteGroup(g)
  \/ \E g, h \in Groups : RenameGroup(g, h)
  \/ \E p \in Paths : \E k \in Sidecars : Grow(p, k)

Execute ==
  \/ StepDone \/ StepFails \/ InitLeavesDirectory \/ ControlNotMoved
  \/ RewriteNothing \/ Hide \/ HideFails \/ Publish \/ PublishFails \/ RestoreFails
  \/ Finish

Next == Request \/ Execute \/ Crash

Spec == Init /\ [][Next]_vars

--------------------------------------------------------------------------------

\* Every directory holds data of one repository, which names a path exactly if
\* it is a record store (all operations of storage.go and of the two stores).
TypeOK ==
  /\ dir \in [Paths -> [Kinds -> Content]]
  /\ \A p \in Paths : \A k \in Kinds :
       dir[p][k] # Absent => (dir[p][k].at # Absent <=> k \in Stores)
  /\ groups \subseteq Groups
  /\ control \in [Groups -> Groups \cup {Absent}]
  /\ hidden \in [Groups -> SUBSET [repo : Repositories, k : Stores]]
  /\ trash \subseteq [repo : Repositories, k : Kinds]
  /\ staged \subseteq [at : Paths, repo : Repositories]
  /\ used \subseteq Repositories
  /\ op.kind \in {"idle", "create", "import", "delete", "rename", "group", "move"}
  /\ dirty \in 0 .. MaxDirty

\* Until a failure hits what undoes a request, or the process ends halfway,
\* every request takes effect completely or not at all, and the records of a
\* repository always name the path it has (moveRepository, moveGroup,
\* renameRootGroupControlLocked and DeleteRepositoryLocked with their rollback).
AtomicUntilDirty ==
  Catalog!Init /\ [][dirty' > 0 \/ Catalog!Next]_<<Catalog!vars>>

\* Whatever fails, and whenever the process ends: the data found under one path
\* is that of one repository.  No request takes over what an interrupted one
\* has left behind (the checks of createRepository and RenameRepositoryLocked),
\* but for an import, which does not look for issues (prepareImportDestination).
NeverMixed ==
  \A p \in Paths : \A k, l \in Kinds :
    (dir[p][k] # Absent /\ dir[p][l] # Absent) =>
       \/ dir[p][k].repo = dir[p][l].repo
       \/ dirty > 0 /\ k = "issues" /\ dir[p][l].repo \in Importable
       \/ dirty > 0 /\ l = "issues" /\ dir[p][k].repo \in Importable

\* The data that is under some path, set aside, or in the trash.
Kept ==
  {[repo |-> dir[d[1]][d[2]].repo, k |-> d[2]] :
     d \in {e \in Paths \X Kinds : dir[e[1]][e[2]] # Absent}}
  \cup (UNION {hidden[g] : g \in Groups}) \cup trash

\* Whatever fails, and whenever the process ends: no data of a repository is
\* lost.  It is under some path, in the trash, or in a record store's backup;
\* only a creation or an import that fails removes what it has just made
\* (the rollbacks, relocate and rewriteDirectory).
NothingLost ==
  [][\A d \in Kept \ Kept' :
       /\ op.kind \in {"create", "import"}
       /\ \A p \in Paths : op.snap[p][d.k] # Absent => op.snap[p][d.k].repo # d.repo]_vars

\* Whatever fails, and whenever the process ends: the directory of a root group
\* without a control repository, which no request can use or remove any more,
\* holds no data (createGroup, groupExists).
StrandedGroupEmpty ==
  Rooted => \A g \in Groups :
    (g \notin groups \/ control[g] = Absent) =>
      hidden[g] = {} /\ \A n \in NameSet : dir[<<g, n>>] = Nothing

================================================================================
