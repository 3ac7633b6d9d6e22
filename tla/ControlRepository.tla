--------------------------- MODULE ControlRepository ---------------------------
(***************************************************************************)
(* The control document of one root group: the branch main of control.git, *)
(* the cache of internal/control/store.go, and the two ways to change the  *)
(* document, a push into control.git (internal/githttp) and the settings   *)
(* API (updateGroupSettings in internal/httpapi/api.go).                   *)
(*                                                                         *)
(* Every request of the server loads the document to find out what its     *)
(* sender may do.  Load holds no operation lock: it reads the reference,   *)
(* looks into the cache, reads the commit's document and stores it, while  *)
(* the document is changed and the cache invalidated.  Changes exclude one *)
(* another: a push has the repository's Exclusive and the group's Shared   *)
(* lock, a change of the settings the group's Exclusive lock.              *)
(***************************************************************************)
EXTENDS Integers, FiniteSets

CONSTANTS
    User,      \* names of the directory
    Key,       \* keys of tokens
    Policy,    \* settings that only owners change: visibility, LFS limits
    Founder,   \* the user who created the group
    Writer,    \* requests that change the document
    Reader,    \* requests that load it
    Flag,      \* values of Token.Disabled
    MaxRev,    \* bound: commits on main
    MaxHash,   \* bound: token secrets generated
    None

Role == {"none", "developer", "maintainer", "owner"}
Rank == [none |-> 0, developer |-> 2, maintainer |-> 3, owner |-> 4]
Hash == 1 .. MaxHash

ControlAssumption ==
    /\ Founder \in User /\ Policy # {} /\ Flag \subseteq BOOLEAN /\ FALSE \in Flag
    /\ MaxRev \in Nat \ {0} /\ MaxHash \in Nat
    /\ None \notin Key \X Hash

VARIABLES
    main,     \* the commit main points to: its number and its document
    cache,    \* Store.cache of the group: a commit and its document, or None
    locked,   \* the writer that has its locks, or None
    write,    \* the writers
    read,     \* the readers
    secrets,  \* how many token secrets were generated
    retired   \* history: hashes that were once in the document and left it

vars == <<main, cache, locked, write, read, secrets, retired>>

Token == [hash : Hash, role : Role \ {"none"}, disabled : Flag]
Document == [members : [User -> Role], policy : Policy, tokens : [Key -> Token \cup {None}]]
Commit == [rev : 1 .. MaxRev, doc : Document]

\* Whoever sends a request: a user of the directory, or the owner of a secret.
Actor == User \cup (Key \X Hash)

TypeOK ==
    /\ main \in Commit
    /\ cache \in Commit \cup {None}
    /\ locked \in Writer \cup {None}
    /\ write \in [Writer -> [pc : {"idle", "push", "settings", "moved"},
                             actor : Actor \cup {None}]]
    /\ read \in [Reader -> [pc : {"idle", "named", "missed", "done"}, start : 0 .. MaxRev,
                            commit : Commit \cup {None}]]
    /\ secrets \in 0 .. MaxHash
    /\ retired \subseteq Hash
    \* "every root group must retain at least one owner in members"
    /\ \E u \in User : main.doc.members[u] = "owner"

IdleWriter == [pc |-> "idle", actor |-> None]
IdleReader == [pc |-> "idle", start |-> 0, commit |-> None]

\* createGroup
Init ==
    /\ main = [rev |-> 1, doc |->
                 [members |-> [u \in User |-> IF u = Founder THEN "owner" ELSE "none"],
                  policy |-> CHOOSE p \in Policy : TRUE,
                  tokens |-> [k \in Key |-> None]]]
    /\ cache = None /\ locked = None
    /\ write = [w \in Writer |-> IdleWriter]
    /\ read = [r \in Reader |-> IdleReader]
    /\ secrets = 0 /\ retired = {}

-----------------------------------------------------------------------------
(* What a document says. *)

\* Role.Allows
Allows(role, need) == Rank[role] >= Rank[need]

\* Authenticate and AuthorizeIdentity
RoleOf(doc, a) ==
    IF a \in User THEN doc.members[a]
    ELSE LET t == doc.tokens[a[1]]
         IN  IF t # None /\ t.hash = a[2] /\ ~t.disabled THEN t.role ELSE "none"

HashesOf(doc) == {doc.tokens[k].hash : k \in {k \in Key : doc.tokens[k] # None}}
\* Validate; a document has one token at most for each key.
Valid(doc) == \E u \in User : doc.members[u] = "owner"

\* ownerOnlyGroupSettingsChanged and ownerTokensChanged
OwnerTokens(doc) ==
    {<<k, doc.tokens[k]>> : k \in {k \in Key : doc.tokens[k] # None /\ doc.tokens[k].role = "owner"}}
OwnerPart(doc) == <<doc.members, doc.policy, OwnerTokens(doc)>>

-----------------------------------------------------------------------------
(* Store.Load *)

\* The cache is used only for the commit that was read from the reference.
Hit(rev) == cache # None /\ cache.rev = rev

\* What a writer's Load returns, and leaves in the cache.
Loaded == IF Hit(main.rev) THEN cache.doc ELSE main.doc
Filled == IF Hit(main.rev) THEN cache ELSE main

\* The reference is read; the document of a commit never changes.
ReadRef(r) ==
    /\ read[r].pc = "idle"
    /\ read' = [read EXCEPT ![r] = [pc |-> "named", start |-> main.rev, commit |-> main]]
    /\ UNCHANGED <<main, cache, locked, write, secrets, retired>>

LookUp(r) ==
    /\ read[r].pc = "named"
    /\ read' = IF Hit(read[r].commit.rev)
               THEN [read EXCEPT ![r].pc = "done", ![r].commit = cache]
               ELSE [read EXCEPT ![r].pc = "missed"]
    /\ UNCHANGED <<main, cache, locked, write, secrets, retired>>

Store(r) ==
    /\ read[r].pc = "missed"
    /\ cache' = read[r].commit
    /\ read' = [read EXCEPT ![r].pc = "done"]
    /\ UNCHANGED <<main, locked, write, secrets, retired>>

Answer(r) ==
    /\ read[r].pc = "done"
    /\ read' = [read EXCEPT ![r] = IdleReader]
    /\ UNCHANGED <<main, cache, locked, write, secrets, retired>>

-----------------------------------------------------------------------------
(* Changes. *)

Moved(w, doc) ==
    /\ main.rev < MaxRev
    /\ main' = [rev |-> main.rev + 1, doc |-> doc]
    /\ retired' = retired \cup (HashesOf(main.doc) \ HashesOf(doc))
    /\ write' = [write EXCEPT ![w].pc = "moved"]
    /\ locked' = w

\* Refused, or failed before the reference is set.
Refuse(w) ==
    /\ write[w].pc \in {"push", "settings"} /\ locked = None
    /\ write' = [write EXCEPT ![w] = IdleWriter]
    /\ cache' \in {cache, Filled}
    /\ UNCHANGED <<main, locked, read, secrets, retired>>

\* A push into control.git is authorized when it arrives ...
ArrivePush(w, a) ==
    /\ write[w].pc = "idle"
    /\ Allows(RoleOf(Loaded, a), "owner")
    /\ write' = [write EXCEPT ![w] = [pc |-> "push", actor |-> a]]
    /\ cache' = Filled
    /\ UNCHANGED <<main, locked, read, secrets, retired>>

\* ... and again when it has its locks, perhaps much later.
Owner(w) == Allows(RoleOf(Loaded, write[w].actor), "owner")

\* validateControlUpdate: tokens may go, but no hash may come or change.
KeepsHashes(doc) ==
    \A k \in Key : doc.tokens[k] # None =>
        main.doc.tokens[k] # None /\ doc.tokens[k].hash = main.doc.tokens[k].hash

\* The new commit is a descendant of main with any valid document.
Push(w, doc) ==
    /\ write[w].pc = "push" /\ locked = None
    /\ Owner(w) /\ Valid(doc) /\ KeepsHashes(doc)
    /\ Moved(w, doc)
    /\ cache' = Filled
    /\ UNCHANGED <<read, secrets>>

\* updateGroupSettings has its locks before it looks at the sender.
ArriveSettings(w, a) ==
    /\ write[w].pc = "idle"
    /\ write' = [write EXCEPT ![w] = [pc |-> "settings", actor |-> a]]
    /\ UNCHANGED <<main, cache, locked, read, secrets, retired>>

\* A token keeps its hash unless it is new or to be regenerated.
Submitted(doc, fresh) ==
    \A k \in Key : doc.tokens[k] # None =>
        \/ main.doc.tokens[k] # None /\ doc.tokens[k].hash = main.doc.tokens[k].hash
        \/ k \in fresh /\ doc.tokens[k].hash = secrets + 1

\* A maintainer changes neither members nor policy nor tokens of owners.
Permitted(w, doc) ==
    LET role == RoleOf(Loaded, write[w].actor)
    IN  /\ Allows(role, "maintainer")
        /\ Allows(role, "owner") \/ OwnerPart(doc) = OwnerPart(main.doc)

\* Bound: one secret at most is generated by a request.
ChangeSettings(w, doc, fresh) ==
    /\ write[w].pc = "settings" /\ locked = None
    /\ secrets + Cardinality(fresh) <= MaxHash
    /\ \A k \in fresh : doc.tokens[k] # None /\ doc.tokens[k].hash = secrets + 1
    /\ Submitted(doc, fresh) /\ Valid(doc) /\ Permitted(w, doc)
    /\ secrets' = secrets + Cardinality(fresh)
    /\ Moved(w, doc)
    /\ cache' = main /\ UNCHANGED read

\* ControlUpdated, or the end of updateGroupSettings; then the locks go.
Invalidate(w) ==
    /\ write[w].pc = "moved"
    /\ cache' = None /\ locked' = None
    /\ write' = [write EXCEPT ![w] = IdleWriter]
    /\ UNCHANGED <<main, read, secrets, retired>>

Known == User \cup (Key \X (1 .. secrets))

Next ==
    \/ \E r \in Reader : ReadRef(r) \/ LookUp(r) \/ Store(r) \/ Answer(r)
    \/ \E w \in Writer :
        \/ Refuse(w) \/ Invalidate(w)
        \/ \E a \in Known : ArrivePush(w, a) \/ ArriveSettings(w, a)
        \/ \E doc \in Document :
            Push(w, doc) \/ \E fresh \in {{}} \cup {{k} : k \in Key} : ChangeSettings(w, doc, fresh)

Spec == Init /\ [][Next]_vars

-----------------------------------------------------------------------------
(* Properties. *)

\* A request is decided by a document that was in force while it was decided,
\* however often the document changed and the cache was invalidated and filled
\* by slower requests meanwhile: "all descendants immediately use the updated
\* settings" (README.md).
LoadIsCurrent ==
    \A r \in Reader : read[r].pc = "done" => read[r].commit.rev >= read[r].start

\* A token secret that was replaced or removed never opens anything again: its
\* hash does not return to the document, whoever pushes an old document or
\* submits old settings.
RetiredSecretsStayRetired == retired \cap HashesOf(main.doc) = {}

\* Members, visibility, LFS policy and the tokens of owners change only at the
\* hands of somebody who is an owner at that moment, although the sender may
\* lose the role between the check at the door and the locks.
OwnersGovern ==
    [][OwnerPart(main'.doc) # OwnerPart(main.doc) =>
         \E w \in Writer : /\ write[w].pc \in {"push", "settings"}
                           /\ write'[w].pc = "moved"
                           /\ RoleOf(main.doc, write[w].actor) = "owner"]_vars
================================================================================
