------------------------------ MODULE ReceivePack ------------------------------
(***************************************************************************)
(* A push into an ordinary repository (internal/githttp: receivePack,      *)
(* quarantine.go, lfs_validation.go, maintenance.go).                      *)
(*                                                                         *)
(* The handler holds the repository's Exclusive lock from the check of the *)
(* commands to the report, so pushes, edits, merges and LFS publications   *)
(* of the repository follow one another.  Clones and pages read without    *)
(* that lock, and the process may end between any two steps: what must     *)
(* hold of references and objects must hold in every state.                *)
(*                                                                         *)
(* An object is a commit, with the parents its text names, or a file of    *)
(* its tree; a file may be an LFS pointer.                                 *)
(***************************************************************************)
EXTENDS Integers, Sequences, FiniteSets, FiniteSetsExt

CONSTANTS
    Commit, File,
    Parents,    \* Parents[c]: the parents of commit c
    Files,      \* Files[c]: the files in the tree of commit c
    Pointer,    \* the files that are LFS pointers; each names its own object
    Branch, Tag,
    Packs,      \* packs a client may send, sets of objects; {} is no pack
    MaxCommand, \* bound: commands in one push
    MaxObjects, \* MaximumRepositoryGitObjectBytes, in objects
    Zero        \* plumbing.ZeroHash

Ref == Branch \cup Tag
Object == Commit \cup File

ASSUME ReceiveAssumption ==
    /\ Commit \cap File = {} /\ Branch \cap Tag = {} /\ Zero \notin Object
    /\ Parents \in [Commit -> SUBSET Commit]
    /\ Files \in [Commit -> SUBSET File]
    /\ Pointer \subseteq File
    /\ Packs \subseteq SUBSET Object
    /\ MaxCommand \in Nat /\ MaxObjects \in Nat

VARIABLES
    refs,    \* the references
    live,    \* the objects in packs that readers see
    index,   \* packs of which only the index is in place
    stored,  \* LFS objects of the repository, named by their pointer
    pc,      \* where the push is, or "idle"
    push,    \* its commands and its pack
    status,  \* for each command applied so far, whether it succeeded
    before   \* the references when a push under way began

vars == <<refs, live, index, stored, pc, push, status, before>>

Hash == Commit \cup {Zero}
Command == [ref : Ref, old : Hash, new : Hash]
NoRefs == [r \in Ref |-> Zero]
NoPush == [commands |-> <<>>, pack |-> {}]
\* packp.Command.Action
Action(c) ==
    CASE c.old = Zero /\ c.new # Zero -> "create"
      [] c.old # Zero /\ c.new = Zero -> "delete"
      [] c.old # Zero /\ c.new # Zero -> "update"
      [] OTHER -> "invalid"

TypeOK ==
    /\ refs \in [Ref -> Hash]
    /\ live \subseteq Object
    /\ index \subseteq Packs
    /\ stored \subseteq Pointer
    /\ pc \in {"idle", "received", "validated", "indexed", "promoted", "applied"}
    /\ push.commands \in Seq(Command) /\ push.pack \in Packs \cup {{}}
    /\ status \in Seq(BOOLEAN) /\ Len(status) <= Len(push.commands)
    /\ before \in [Ref -> Hash]

Init ==
    /\ refs = NoRefs
    /\ live = {} /\ index = {} /\ stored = {}
    /\ pc = "idle" /\ push = NoPush /\ status = <<>> /\ before = refs

-----------------------------------------------------------------------------
(* Histories. *)

Closed(S, stop) == \A c \in S \cap Commit : Parents[c] \subseteq S \cup stop
\* The commits a preorder walk from c visits that does not enter stop.
History(c, stop) ==
    {d \in Commit \ stop :
        \A S \in SUBSET Commit : c \in S /\ Closed(S, stop) => d \in S}

Referenced == {refs[r] : r \in Ref} \ {Zero}
Reachable == UNION {History(c, {}) \cup UNION {Files[d] : d \in History(c, {})} :
                    c \in Referenced}

\* Mutant: the files of a pushed commit are not read.
ReadableShallow(c, objects) == c \in objects
\* validateCommitLFSPointers: the commit's tree is read to the last file, and
\* an LFS pointer needs its object.
Readable(c, objects) ==
    /\ {c} \cup Files[c] \subseteq objects
    /\ Files[c] \cap Pointer \subseteq stored

\* validateLFSPointerUpdates: everything that no reference reaches yet.
Valid(objects) ==
    \A i \in DOMAIN push.commands :
        LET new == push.commands[i].new
        IN  new # Zero => \A c \in History(new, Referenced) : Readable(c, objects)

-----------------------------------------------------------------------------
(* The handler. *)

\* The handler returns.
Answer == pc' = "idle" /\ push' = NoPush /\ before' = NoRefs /\ status' = <<>>

\* validateReferenceCommands
Current(c) ==
    CASE Action(c) = "create" -> refs[c.ref] = Zero
      [] Action(c) \in {"update", "delete"} -> refs[c.ref] = c.old
      [] OTHER -> FALSE

\* The lock, the commands, and the pack in its quarantine beside the
\* repository.  Anything refused here or below leaves no trace.
Begin ==
    /\ pc = "idle"
    /\ \E n \in 1 .. MaxCommand : \E cs \in [1 .. n -> Command], p \in Packs \cup {{}} :
        /\ \A i \in 1 .. n : Current(cs[i])
        /\ push' = [commands |-> cs, pack |-> p]
    /\ pc' = "received" /\ before' = refs
    /\ UNCHANGED <<refs, live, index, stored, status>>

\* Mutant: the pack is unpacked into the live objects, without a quarantine.
RejectKeepsObjects ==
    /\ pc = "received"
    /\ ~Valid(live \cup push.pack)
    /\ live' = live \cup push.pack
    /\ Answer
    /\ UNCHANGED <<refs, index, stored>>
\* A check fails, or there would be too many objects.
Reject ==
    /\ pc = "received"
    /\ \/ ~Valid(live \cup push.pack)
       \/ push.pack # {} /\ Cardinality(live \cup push.pack) > MaxObjects
    /\ Answer
    /\ UNCHANGED <<refs, live, index, stored>>

\* Both checks passed.
Accept ==
    /\ pc = "received"
    /\ Valid(live \cup push.pack)
    /\ push.pack # {} => Cardinality(live \cup push.pack) <= MaxObjects
    /\ pc' = "validated"
    /\ UNCHANGED <<refs, live, index, stored, push, status, before>>

\* Promote: nothing to do for a pack that is there already, nothing possible
\* for one whose index was left behind alone.
Promoted == push.pack = {} \/ push.pack \subseteq live
SkipPromotion ==
    /\ pc = "validated" /\ Promoted /\ push.pack \notin index
    /\ pc' = "promoted"
    /\ UNCHANGED <<refs, live, index, stored, push, status, before>>
PromoteRefused ==
    /\ pc = "validated"
    /\ Answer
    /\ UNCHANGED <<refs, live, index, stored>>
PromoteIndex ==
    /\ pc = "validated" /\ ~Promoted /\ push.pack \notin index
    /\ index' = index \cup {push.pack}
    /\ pc' = "indexed"
    /\ UNCHANGED <<refs, live, stored, push, status, before>>
PromotePack ==
    /\ pc = "indexed"
    /\ live' = live \cup push.pack /\ index' = index \ {push.pack}
    /\ pc' = "promoted"
    /\ UNCHANGED <<refs, stored, push, status, before>>
\* The pack cannot be renamed: its index is moved back, or removed.
PromoteFails ==
    /\ pc = "indexed"
    /\ index' = index \ {push.pack}
    /\ Answer
    /\ UNCHANGED <<refs, live, stored>>

\* Mutant: references are set whatever they are by now.
AppliesAlways(c) == TRUE
\* applyReferenceCommand checks again: an earlier command of the same push may
\* have moved the reference.
Applies(c) == Current(c)

Apply(ok) ==
    LET c == push.commands[Len(status) + 1]
    IN  /\ pc = "promoted" /\ Len(status) < Len(push.commands)
        /\ ok => Applies(c)
        /\ refs' = IF ok THEN [refs EXCEPT ![c.ref] = c.new] ELSE refs
        /\ status' = Append(status, ok)
        /\ UNCHANGED <<live, index, stored, pc, push, before>>

\* referenceUpdateMayDiscardObjects, for a command that was applied
Discards(c) ==
    \/ Action(c) = "delete"
    \/ Action(c) = "update" /\ (c.ref \in Tag \/ c.old \notin History(c.new, {}))
MaintenanceNeeded ==
    \E i \in DOMAIN status : status[i] /\ Discards(push.commands[i])

\* maintainRepositoryObjects, when there are packs enough: what no reference
\* reaches is dropped from them.
Finished == pc = "promoted" /\ Len(status) = Len(push.commands)
Maintain ==
    /\ Finished /\ MaintenanceNeeded
    /\ live' = live \cap Reachable
    /\ pc' = "applied"
    /\ UNCHANGED <<refs, index, stored, push, status, before>>

\* No maintenance, or it fails, or there is too little or too much to do.
SkipMaintenance ==
    /\ Finished
    /\ pc' = "applied"
    /\ UNCHANGED <<refs, live, index, stored, push, status, before>>

\* The report, and the builds of the branches that moved (BuildCoordinator).
Report ==
    /\ pc = "applied"
    /\ Answer
    /\ UNCHANGED <<refs, live, index, stored>>

\* The process ends; the quarantine stays behind as a hidden directory.
Crash ==
    /\ pc # "idle"
    /\ Answer
    /\ UNCHANGED <<refs, live, index, stored>>

-----------------------------------------------------------------------------
(* Other handlers with the repository's lock. *)

Upload ==
    /\ pc = "idle"
    /\ \E o \in Pointer \ stored : stored' = stored \cup {o}
    /\ UNCHANGED <<refs, live, index, pc, push, status, before>>

\* Branches created, moved or deleted through the API, at commits there are.
MoveRef ==
    /\ pc = "idle"
    /\ \E r \in Branch, c \in Referenced \cup {Zero} :
        refs[r] # c /\ refs' = [refs EXCEPT ![r] = c]
    /\ UNCHANGED <<live, index, stored, pc, push, status, before>>

Next ==
    \/ Begin \/ Reject \/ Accept \/ SkipPromotion \/ PromoteRefused \/ PromoteIndex
    \/ PromotePack \/ PromoteFails \/ Maintain \/ SkipMaintenance \/ Report
    \/ Crash \/ Upload \/ MoveRef
    \/ \E ok \in BOOLEAN : Apply(ok)

Spec == Init /\ [][Next]_vars

-----------------------------------------------------------------------------
(* Properties. *)

\* Every reference is complete: all commits of its history, all their files and
\* the LFS objects of all their pointers are there, in every state a clone may
\* see and after every crash ("Git pushes are rejected before references move
\* when newly pushed history contains an LFS pointer whose object is missing",
\* README.md).  Validation reads only what no reference reaches yet, so this
\* rests on what earlier pushes left.
RefsComplete ==
    /\ Reachable \subseteq live
    /\ Reachable \cap Pointer \subseteq stored

\* The report is true although commands are applied one by one, fail one by one
\* and may name the same reference: the commands reported as applied lead each
\* reference from what it was before the push to what it is, every one of them
\* from the old value it names to its new value.
AppliedTo(r, n) == {i \in 1 .. n : status[i] /\ push.commands[i].ref = r}
ValueAfter(r, n) ==
    IF AppliedTo(r, n) = {} THEN before[r]
    ELSE push.commands[Max(AppliedTo(r, n))].new
ReportTrue ==
    pc = "applied" =>
        /\ \A r \in Ref : refs[r] = ValueAfter(r, Len(status))
        /\ \A i \in DOMAIN status : status[i] =>
              push.commands[i].old = ValueAfter(push.commands[i].ref, i - 1)

\* Readers never see an object that validation has not passed: objects appear
\* only for the push that was validated with exactly the references and LFS
\* objects there still are, and a push that is refused adds nothing.
ObjectsValidated ==
    [][live' \ live # {} => pc = "indexed" /\ refs = before
                            /\ Valid(live') /\ live' \ live \subseteq push.pack]_vars
================================================================================
