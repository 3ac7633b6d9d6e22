--------------------------- MODULE RepositoryCatalog ---------------------------
(***************************************************************************)
(* What repository and group management promises its callers: a repository *)
(* is one thing.  Its Git data, LFS objects, builds, merge requests and    *)
(* issues appear, move and disappear together, and the records of the two  *)
(* record stores always name the path they are kept under.  A request      *)
(* either takes effect completely or not at all.                           *)
(*                                                                         *)
(* RepositoryLifecycle implements this with one directory rename after     *)
(* another.                                                                *)
(***************************************************************************)
CONSTANTS Groups,       \* paths of groups
          Names,        \* names of repositories inside a group
          Repositories, \* identities of repositories
          Absent        \* nothing is kept there

VARIABLES catalog,      \* path -> kind of data -> whose data, under which path
          usable        \* the groups that exist

vars == <<catalog, usable>>

Kinds == {"git", "lfs", "build", "issues", "reviews"}
Stores == {"issues", "reviews"}
Paths == Groups \X Names

Nothing == [k \in Kinds |-> Absent]

\* The data of kind k of repository r, kept under path p: the records of a
\* store name their path, the other kinds do not.
Data(r, k, p) == [repo |-> r, at |-> IF k \in Stores THEN p ELSE Absent]

\* Everything kept under a path, as it has to be under path q.
Under(content, q) ==
  [k \in Kinds |-> IF content[k] = Absent THEN Absent
                                          ELSE Data(content[k].repo, k, q)]

Init == /\ catalog = [p \in Paths |-> Nothing]
        /\ usable \in SUBSET Groups

\* A repository appears, at least with its Git data.
Appear(p, r) ==
  /\ p[1] \in usable
  /\ catalog[p] = Nothing
  /\ \A q \in Paths : \A k \in Kinds : catalog[q][k] # Absent
                                       => catalog[q][k].repo # r
  /\ \E kinds \in {{"git"}, {"git", "lfs"}} :
       catalog' = [catalog EXCEPT ![p] = [k \in Kinds |->
                     IF k \in kinds THEN Data(r, k, p) ELSE Absent]]
  /\ UNCHANGED usable

\* The first build, merge request, issue or LFS object of a repository.
Grow(p, k) ==
  /\ catalog[p]["git"] # Absent
  /\ catalog[p][k] = Absent
  /\ catalog' = [catalog EXCEPT ![p][k] = Data(catalog[p]["git"].repo, k, p)]
  /\ UNCHANGED usable

Rename(p, q) ==
  /\ p # q
  /\ catalog[p]["git"] # Absent
  /\ catalog[q] = Nothing
  /\ catalog' = [catalog EXCEPT ![q] = Under(catalog[p], q), ![p] = Nothing]
  /\ UNCHANGED usable

Delete(p) ==
  /\ catalog[p]["git"] # Absent
  /\ catalog' = [catalog EXCEPT ![p] = Nothing]
  /\ UNCHANGED usable

CreateGroup(g) ==
  /\ g \notin usable
  /\ usable' = usable \cup {g}
  /\ UNCHANGED catalog

DeleteGroup(g) ==
  /\ g \in usable
  /\ \A n \in Names : catalog[<<g, n>>] = Nothing
  /\ usable' = usable \ {g}
  /\ UNCHANGED catalog

RenameGroup(g, h) ==
  /\ g \in usable
  /\ h \notin usable
  /\ usable' = (usable \ {g}) \cup {h}
  /\ catalog' = [p \in Paths |->
       CASE p[1] = g -> Nothing
         [] p[1] = h -> Under(catalog[<<g, p[2]>>], p)
         [] OTHER -> catalog[p]]

Next ==
  \/ \E p \in Paths : \E r \in Repositories : Appear(p, r)
  \/ \E p \in Paths : \E k \in Kinds : Grow(p, k)
  \/ \E p, q \in Paths : Rename(p, q)
  \/ \E p \in Paths : Delete(p)
  \/ \E g \in Groups : CreateGroup(g) \/ DeleteGroup(g)
  \/ \E g, h \in Groups : RenameGroup(g, h)

Spec == Init /\ [][Next]_vars
================================================================================
