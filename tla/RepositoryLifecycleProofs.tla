----------------------- MODULE RepositoryLifecycleProofs -----------------------
(***************************************************************************)
(* What RepositoryLifecycle promises, for any number of groups, names and  *)
(* repositories and any number of operations that end halfway.             *)
(***************************************************************************)
EXTENDS RepositoryLifecycle, FiniteSetTheorems, SequenceTheorems, TLAPS

-----------------------------------------------------------------------------
(* What the directories hold. *)

\* What may be kept for kind k, and everything that may be kept.
Fits(k, c) == c \in Content /\ (c # Absent => (c.at # Absent <=> k \in Stores))
Layout == {d \in [Paths -> [Kinds -> Content]] : \A p \in Paths : \A k \in Kinds : Fits(k, d[p][k])}

\* The layout d with c as the data of kind k under path p.
With(d, p, k, c) == [d EXCEPT ![p][k] = c]

\* Repository r has data under some path.
Shown(d, r) == \E p \in Paths : \E k \in Kinds : d[p][k] # Absent /\ d[p][k].repo = r

\* NeverMixed, of the layout d after n operations that ended halfway.
Pure(d, n) ==
  \A p \in Paths : \A k, l \in Kinds :
    (d[p][k] # Absent /\ d[p][l] # Absent) =>
       \/ d[p][k].repo = d[p][l].repo
       \/ n > 0 /\ k = "issues" /\ d[p][l].repo \in Importable
       \/ n > 0 /\ l = "issues" /\ d[p][k].repo \in Importable

\* Only a repository that is there has issues.
Anchored(d, p) == d[p]["issues"] # Absent => d[p]["git"] # Absent

\* A layout between two operations: its repositories are those in U, but for
\* the imports T that are still prepared.
Sound(d, n, U, T) ==
  /\ d \in Layout /\ Pure(d, n)
  /\ \A r : Shown(d, r) => r \in U
  /\ \A i \in T : ~Shown(d, i.repo)
  /\ n = 0 => \A p \in Paths : Anchored(d, p)

\* Each path of d holds some of what one path of e holds.
Derived(d, e) ==
  \A x \in Paths : \E o \in Paths : \A k \in Kinds :
    d[x][k] # Absent => e[o][k] # Absent /\ d[x][k].repo = e[o][k].repo

\* The data in a layout; that with what is set aside, and the trash.
Found(d) ==
  {[repo |-> d[e[1]][e[2]].repo, k |-> e[2]] :
     e \in {f \in Paths \X Kinds : d[f[1]][f[2]] # Absent}}
KeptIn(d, h, t) == Found(d) \cup (UNION {h[g] : g \in Groups}) \cup t

\* A group that requests can use may hold data; no other does.
Live(g) == g \in groups /\ (Rooted => control[g] # Absent)
Empty(g) == hidden[g] = {} /\ \A n \in NameSet : dir[<<g, n>>] = Nothing
Lively == \A g \in Groups : ~Live(g) => Empty(g)

Disk ==
  /\ dir \in Layout
  /\ groups \subseteq Groups
  /\ control \in [Groups -> Groups \cup {Absent}]
  /\ hidden \in [Groups -> SUBSET [repo : Repositories, k : Stores]]
  /\ trash \subseteq [repo : Repositories, k : Kinds]
  /\ Lively

-----------------------------------------------------------------------------
(* What an operation that is running has left to do, and what it has done. *)

Has(t, s) == \E i \in DOMAIN t : t[i] = s

Plain == Kinds \ Stores
Between(p, q) == {Move(p, q, k) : k \in Plain} \cup {Rewrite(p, q, k, p, q) : k \in Stores}
Trashes(p) == {Trash(p, k) : k \in Kinds}
Untrashes(c, p) == {Untrash(p, k, c[k]) : k \in {l \in Kinds : c[l] # Absent}}
Building(g) == {Mkdir(g), Control(g)}
\* The records of name n below group a get the path below c instead of b.
Relabel(a, n, k, b, c) == Rewrite(<<a, n>>, <<a, n>>, k, <<b, n>>, <<c, n>>)
Rewrites(G) == {Relabel(a, n, k, b, c) : a \in G, b \in G, c \in G, n \in NameSet, k \in Stores}
Relocations(G) == {Carry(a, b) : a \in G, b \in G} \cup {Control(a) : a \in G} \cup Rewrites(G)

\* The repository r is created or imported.
CreatingData(r) ==
  /\ op.kind \in {"create", "import"}
  /\ op.from \in Paths /\ op.held = Absent /\ Live(op.from[1])
  /\ \A x \in Paths : x # op.from => dir[x] = op.snap[x]
  /\ dirty = 0 => dir[op.from]["issues"] = Absent
  /\ r \in used /\ ~Shown(op.snap, r) /\ \A i \in staged : i.repo # r
  /\ \A k \in Kinds : dir[op.from][k] # Absent =>
       \/ dir[op.from][k].repo = r
       \/ /\ dir[op.from][k] = op.snap[op.from][k]
          /\ dirty > 0 /\ k = "issues" /\ r \in Importable

CreatingSteps(r) ==
  \/ /\ op.mode = "do" /\ op.done = <<>>
     /\ op.todo = <<Make(op.from, "git", r), Make(op.from, "lfs", r)>>
     /\ dir[op.from]["git"] = Absent /\ dir[op.from]["lfs"] = Absent
  \/ /\ op.mode = "do" /\ op.done = <<Discard(op.from, "git")>>
     /\ op.todo = <<Make(op.from, "lfs", r)>>
     /\ dir[op.from]["lfs"] = Absent
  \/ op.mode = "undo" /\ op.todo = <<Discard(op.from, "git")>>
  \/ op.todo = <<>>

Creating == \E r \in used : CreatingData(r) /\ CreatingSteps(r)

Deleting ==
  LET Back(k) == Untrash(op.from, k, op.snap[op.from][k]) IN
  /\ op.kind = "delete"
  /\ op.from \in Paths /\ op.held = Absent
  /\ (\E k \in Kinds : op.snap[op.from][k] # Absent) => Live(op.from[1])
  /\ \A x \in Paths : x # op.from => dir[x] = op.snap[x]
  /\ \A k \in Kinds : dir[op.from][k] # Absent => dir[op.from][k] = op.snap[op.from][k]
  /\ op.done \in Seq(Untrashes(op.snap[op.from], op.from))
  /\ \/ /\ op.mode = "do" /\ op.todo \in Seq(Trashes(op.from))
        /\ dirty = 0 =>
             /\ dir[op.from]["issues"] # Absent => Has(op.todo, Trash(op.from, "issues"))
             /\ op.done = <<>> => /\ Anchored(dir, op.from)
                                  /\ op.todo # <<>> => Step = Trash(op.from, "git")
             /\ op.done # <<>> => Has(op.done, Back("git"))
     \/ /\ op.mode = "undo" /\ op.todo \in Seq(Untrashes(op.snap[op.from], op.from))
        /\ (dirty = 0 /\ (dir[op.from]["issues"] # Absent \/ Has(op.todo, Back("issues"))))
             => dir[op.from]["git"] # Absent \/ Has(op.todo, Back("git"))

\* The record store that is set aside belongs to the data c.
Aside(c) ==
  /\ op.todo # <<>> /\ Step.do = "rewrite"
  /\ c # Absent /\ op.held.repo = c.repo /\ Fits(Step.k, op.held)
  /\ dir[Step.from][Step.k] = Absent /\ dir[Step.to][Step.k] = Absent
  /\ [repo |-> op.held.repo, k |-> Step.k] \in hidden[Step.from[1]]

\* What is kept under x comes from what was kept under o.
Comes(x, o) ==
  \A k \in Kinds : dir[x][k] # Absent =>
     op.snap[o][k] # Absent /\ dir[x][k].repo = op.snap[o][k].repo

RenamingData ==
  /\ op.kind = "rename"
  /\ op.from \in Paths /\ op.to \in Paths /\ op.from # op.to /\ op.from[1] = op.to[1]
  /\ \A x \in Paths : x \notin {op.from, op.to} => dir[x] = op.snap[x]
  /\ Comes(op.from, op.from) /\ Comes(op.to, op.from)
  /\ op.held # Absent => Aside(op.snap[op.from][Step.k])

RenamingForth ==
  LET p == op.from
      q == op.to IN
  /\ op.mode = "do" /\ op.todo \in Seq(Between(p, q)) /\ op.done \in Seq(Between(q, p))
  /\ dirty = 0 =>
       /\ dir[p]["issues"] # Absent => Has(op.todo, Rewrite(p, q, "issues", p, q))
       /\ dir[q]["issues"] # Absent => Has(op.done, Rewrite(q, p, "issues", q, p))
       /\ op.done = <<>> => Anchored(dir, p) /\ (op.todo # <<>> => Step = Move(p, q, "git"))
       /\ op.done # <<>> => Has(op.done, Move(q, p, "git")) /\ dir[q]["git"] # Absent

RenamingBack ==
  LET p == op.from
      q == op.to IN
  /\ op.mode = "undo" /\ op.todo \in Seq(Between(q, p)) /\ op.done \in Seq(Between(p, q))
  /\ dirty = 0 =>
       /\ (dir[p]["issues"] # Absent \/ Has(op.todo, Rewrite(q, p, "issues", q, p)))
          => dir[p]["git"] # Absent \/ Has(op.todo, Move(q, p, "git"))
       /\ dir[q]["issues"] # Absent => Has(op.todo, Rewrite(q, p, "issues", q, p))

Renaming == RenamingData /\ (RenamingForth \/ RenamingBack)

Grouping ==
  /\ op.kind = "group"
  /\ op.to \in Groups /\ Empty(op.to) /\ op.held = Absent
  /\ dir = op.snap
  /\ op.todo \in Seq(Building(op.to)) /\ op.done = <<>>

\* What both groups hold comes from group g.
MovingData(g) ==
  /\ op.kind = "move"
  /\ op.from \in Groups /\ op.to \in Groups /\ op.from # op.to /\ g \in {op.from, op.to}
  /\ \A x \in Paths : x[1] \notin {op.from, op.to} => dir[x] = op.snap[x]
  /\ \A x \in Paths : x[1] \in {op.from, op.to} => Comes(x, <<g, x[2]>>)
  /\ op.held # Absent => Aside(op.snap[<<g, Step.from[2]>>][Step.k])
  /\ (op.held # Absent /\ dirty = 0 /\ Step.k = "issues") => dir[Step.from]["git"] # Absent
  /\ dirty = 0 => \A x \in Paths : Anchored(dir, x)

MovingSteps ==
  /\ op.todo \in Seq(Relocations({op.from, op.to}))
  /\ op.done \in Seq(Relocations({op.from, op.to}))

Moving == (\E g \in Groups : MovingData(g)) /\ MovingSteps

Operation ==
  /\ DOMAIN op = {"kind", "from", "to", "todo", "done", "mode", "back", "held", "snap", "usable"}
  /\ Sound(op.snap, dirty, used, staged)
  /\ Creating \/ Deleting \/ Renaming \/ Grouping \/ Moving

Staging ==
  /\ staged \subseteq [at : Paths, repo : Repositories]
  /\ used \subseteq Repositories
  /\ \A i \in staged : i.repo \in used \cap Importable
  /\ \A i, j \in staged : i.repo = j.repo => i = j

IInv ==
  /\ Disk /\ Staging /\ dirty \in 0 .. MaxDirty
  /\ IF op = Idle THEN Sound(dir, dirty, used, staged) ELSE Operation

-----------------------------------------------------------------------------
(* Lists of steps. *)

LEMMA SeqParts ==
    ASSUME NEW S, NEW t \in Seq(S), t # <<>>
    PROVE  Head(t) \in S /\ Tail(t) \in Seq(S)
OBVIOUS

LEMMA SeqJoin ==
    ASSUME NEW S, NEW a \in Seq(S), NEW b \in Seq(S)
    PROVE  a \o b \in Seq(S)
OBVIOUS

LEMMA SeqWiden ==
    ASSUME NEW S, NEW T, S \subseteq T, NEW t \in Seq(S)
    PROVE  t \in Seq(T)
OBVIOUS

LEMMA HasTail ==
    ASSUME NEW S, NEW t \in Seq(S), t # <<>>, NEW s, Has(t, s), Head(t) # s
    PROVE  Has(Tail(t), s)
<1>1. PICK i \in 1 .. Len(t) : t[i] = s
  BY DEF Has
<1>2. i # 1 /\ i - 1 \in 1 .. Len(Tail(t))
  BY <1>1
<1>3. Tail(t)[i - 1] = s
  BY <1>1, <1>2
<1>4. DOMAIN Tail(t) = 1 .. Len(Tail(t))
  BY SeqParts
<1> QED BY <1>2, <1>3, <1>4 DEF Has

LEMMA TailHas ==
    ASSUME NEW S, NEW t \in Seq(S), t # <<>>, NEW s, Has(Tail(t), s)
    PROVE  Has(t, s)
<1>1. PICK i \in 1 .. Len(Tail(t)) : Tail(t)[i] = s
  BY SeqParts DEF Has
<1>2. i + 1 \in 1 .. Len(t) /\ t[i + 1] = s
  BY <1>1
<1> QED BY <1>2 DEF Has

LEMMA HasCons ==
    ASSUME NEW S, NEW t \in Seq(S), NEW x \in S, NEW s
    PROVE  Has(<<x>> \o t, s) <=> (x = s \/ Has(t, s))
<1>1. <<x>> \o t \in Seq(S) /\ Len(<<x>> \o t) = Len(t) + 1
      /\ DOMAIN (<<x>> \o t) = 1 .. Len(<<x>> \o t)
  BY SeqJoin
<1>2. (<<x>> \o t)[1] = x
  OBVIOUS
<1>3. \A i \in 1 .. Len(t) : (<<x>> \o t)[i + 1] = t[i]
  OBVIOUS
<1>4. CASE x = s
  BY <1>1, <1>2, <1>4 DEF Has
<1>5. CASE Has(t, s)
  <2>1. PICK i \in 1 .. Len(t) : t[i] = s
    BY <1>5 DEF Has
  <2>2. i + 1 \in 1 .. Len(<<x>> \o t) /\ (<<x>> \o t)[i + 1] = s
    BY <1>1, <1>3, <2>1
  <2> QED BY <1>5, <2>2, <1>1 DEF Has
<1>6. CASE Has(<<x>> \o t, s) /\ x # s
  <2>1. PICK i \in 1 .. Len(t) + 1 : (<<x>> \o t)[i] = s
    BY <1>1, <1>6 DEF Has
  <2>2. i # 1
    BY <1>2, <1>6, <2>1
  <2>3. i - 1 \in 1 .. Len(t) /\ t[i - 1] = s
    BY <1>3, <2>1, <2>2
  <2> QED BY <1>6, <2>3 DEF Has
<1> QED BY <1>4, <1>5, <1>6

LEMMA HasSome ==
    ASSUME NEW S, NEW t \in Seq(S), NEW s, Has(t, s)
    PROVE  t # <<>>
BY DEF Has

LEMMA HeadHas ==
    ASSUME NEW S, NEW t \in Seq(S), t # <<>>
    PROVE  Has(t, Head(t))
BY DEF Has

LEMMA HasIn ==
    ASSUME NEW S, NEW t \in Seq(S), NEW s, Has(t, s)
    PROVE  s \in S
BY DEF Has

-----------------------------------------------------------------------------
(* Layouts. *)

LEMMA LayoutAt ==
    ASSUME NEW d \in Layout, NEW p \in Paths, NEW k \in Kinds
    PROVE  /\ d \in [Paths -> [Kinds -> Content]] /\ d[p] \in [Kinds -> Content]
           /\ Fits(k, d[p][k])
BY DEF Layout

LEMMA Recorded ==
    ASSUME NEW k \in Kinds, NEW c, Fits(k, c), c # Absent
    PROVE  c.repo \in Repositories
BY DEF Fits, Content

LEMMA DataFits ==
    ASSUME NEW r \in Repositories, NEW k \in Kinds, NEW p \in Paths
    PROVE  Fits(k, Data(r, k, p)) /\ Data(r, k, p) # Absent /\ Data(r, k, p).repo = r
<1> DEFINE c == [repo |-> r, at |-> IF k \in Stores THEN p ELSE Absent]
<1>1. Data(r, k, p) = c
  BY DEF Data, Catalog!Data, Stores
<1>2. c \in [repo : Repositories, at : Paths \cup {Absent}]
  OBVIOUS
<1>3. c # Absent
  BY <1>2, LifecycleAssumption
<1>4. p # Absent
  BY LifecycleAssumption
<1> QED BY <1>1, <1>2, <1>3, <1>4 DEF Fits, Content

LEMMA AbsentFits ==
    ASSUME NEW k \in Kinds
    PROVE  Fits(k, Absent)
BY DEF Fits, Content

LEMMA NothingIs ==
    ASSUME NEW d \in Layout, NEW p \in Paths
    PROVE  d[p] = Nothing <=> \A k \in Kinds : d[p][k] = Absent
<1>1. Nothing = [k \in Kinds |-> Absent]
  BY DEF Nothing, Catalog!Nothing, Kinds
<1>2. d[p] \in [Kinds -> Content]
  BY DEF Layout
<1> QED BY <1>1, <1>2

LEMMA PathParts ==
    /\ \A p \in Paths : p[1] \in Groups /\ p[2] \in NameSet /\ p = <<p[1], p[2]>>
    /\ \A g \in Groups : \A n \in NameSet :
         <<g, n>> \in Paths /\ <<g, n>>[1] = g /\ <<g, n>>[2] = n
BY DEF Paths, Catalog!Paths

LEMMA Put ==
    ASSUME NEW d \in Layout, NEW p \in Paths, NEW k \in Kinds, NEW c, Fits(k, c)
    PROVE  /\ With(d, p, k, c) \in Layout /\ With(d, p, k, c)[p][k] = c
           /\ \A x \in Paths : x # p => With(d, p, k, c)[x] = d[x]
           /\ \A x \in Paths : \A l \in Kinds : x # p \/ l # k => With(d, p, k, c)[x][l] = d[x][l]
<1> DEFINE e == With(d, p, k, c)
<1>0. e = [d EXCEPT ![p][k] = c]
  BY DEF With
<1> HIDE DEF e
<1>1. d \in [Paths -> [Kinds -> Content]] /\ c \in Content
  BY DEF Layout, Fits
<1>2. e \in [Paths -> [Kinds -> Content]]
  BY <1>0, <1>1
<1>3. e[p][k] = c /\ \A x \in Paths : x # p => e[x] = d[x]
  BY <1>0, <1>1
<1>4. \A x \in Paths : \A l \in Kinds : x # p \/ l # k => e[x][l] = d[x][l]
  BY <1>0, <1>1
<1>5. \A x \in Paths : \A l \in Kinds : Fits(l, e[x][l])
  <2> SUFFICES ASSUME NEW x \in Paths, NEW l \in Kinds PROVE Fits(l, e[x][l])
    OBVIOUS
  <2>1. Fits(l, d[x][l])
    BY LayoutAt
  <2> QED BY <1>3, <1>4, <2>1
<1> QED BY <1>2, <1>3, <1>4, <1>5 DEF Layout, e

LEMMA DerivedSound ==
    ASSUME NEW d \in Layout, NEW e, Derived(d, e), NEW n \in Nat, NEW U, NEW T, Sound(e, n, U, T)
    PROVE  Pure(d, n) /\ ((n = 0 => \A p \in Paths : Anchored(d, p)) => Sound(d, n, U, T))
<1>1. \A r : Shown(d, r) => Shown(e, r)
  BY DEF Derived, Shown
<1>2. Pure(d, n)
  <2> SUFFICES ASSUME NEW p \in Paths, NEW k \in Kinds, NEW l \in Kinds,
                      d[p][k] # Absent, d[p][l] # Absent
               PROVE  \/ d[p][k].repo = d[p][l].repo
                      \/ n > 0 /\ k = "issues" /\ d[p][l].repo \in Importable
                      \/ n > 0 /\ l = "issues" /\ d[p][k].repo \in Importable
    BY DEF Pure
  <2>1. PICK o \in Paths : \A m \in Kinds :
          d[p][m] # Absent => e[o][m] # Absent /\ d[p][m].repo = e[o][m].repo
    BY DEF Derived
  <2>2. Pure(e, n)
    BY DEF Sound
  <2> QED BY <2>1, <2>2 DEF Pure
<1> QED BY <1>1, <1>2 DEF Sound

LEMMA SoundGrows ==
    ASSUME NEW d, NEW n \in Nat, NEW m \in Nat, m >= n, NEW U, NEW V, U \subseteq V,
           NEW T, NEW W, W \subseteq T, Sound(d, n, U, T)
    PROVE  Sound(d, m, V, W)
<1>1. Pure(d, n) => Pure(d, m)
  BY DEF Pure
<1> QED BY <1>1 DEF Sound

LEMMA KeptMember ==
    ASSUME NEW d, NEW h, NEW t, NEW e
    PROVE  e \in KeptIn(d, h, t) <=>
             \/ \E x \in Paths : \E k \in Kinds : d[x][k] # Absent /\ e = [repo |-> d[x][k].repo, k |-> k]
             \/ \E g \in Groups : e \in h[g]
             \/ e \in t
<1>1. e \in Found(d) <=>
        \E x \in Paths : \E k \in Kinds : d[x][k] # Absent /\ e = [repo |-> d[x][k].repo, k |-> k]
  <2>1. ASSUME NEW x \in Paths, NEW k \in Kinds, d[x][k] # Absent,
               e = [repo |-> d[x][k].repo, k |-> k]
        PROVE  e \in Found(d)
    <3> DEFINE f == <<x, k>>
    <3>1. f \in Paths \X Kinds /\ f[1] = x /\ f[2] = k
      OBVIOUS
    <3> QED BY <2>1, <3>1 DEF Found
  <2>2. ASSUME e \in Found(d)
        PROVE  \E x \in Paths : \E k \in Kinds : d[x][k] # Absent /\ e = [repo |-> d[x][k].repo, k |-> k]
    <3>1. PICK f \in Paths \X Kinds :
            d[f[1]][f[2]] # Absent /\ e = [repo |-> d[f[1]][f[2]].repo, k |-> f[2]]
      BY <2>2 DEF Found
    <3>2. f[1] \in Paths /\ f[2] \in Kinds
      OBVIOUS
    <3> QED BY <3>1, <3>2
  <2> QED BY <2>1, <2>2
<1>2. e \in KeptIn(d, h, t) <=> e \in Found(d) \/ (\E g \in Groups : e \in h[g]) \/ e \in t
  <2>1. e \in UNION {h[g] : g \in Groups} <=> \E g \in Groups : e \in h[g]
    OBVIOUS
  <2> QED BY <2>1 DEF KeptIn
<1> QED BY <1>1, <1>2

-----------------------------------------------------------------------------
(* What a step does to the directories. *)

LEMMA HoldsLive ==
    ASSUME Disk, NEW p \in Paths, NEW k \in Kinds, dir[p][k] # Absent
    PROVE  Live(p[1])
<1>1. SUFFICES ASSUME ~Live(p[1]) PROVE FALSE
  OBVIOUS
<1>2. dir[<<p[1], p[2]>>] = Nothing
  BY <1>1, PathParts DEF Disk, Lively, Empty
<1>3. dir[p] = Nothing
  BY <1>2, PathParts
<1> QED BY <1>3, NothingIs DEF Disk

LEMMA AsideLive ==
    ASSUME Disk, NEW g \in Groups, NEW e \in hidden[g]
    PROVE  Live(g)
BY DEF Disk, Lively, Empty

LEMMA LivelyNext ==
    ASSUME Disk, dir' \in Layout, groups' = groups, control' = control, NEW g \in Groups,
           \A x \in Paths : x[1] # g => dir'[x] = dir[x],
           \A h \in Groups : h # g => hidden'[h] = hidden[h],
           \/ Live(g)
           \/ /\ hidden'[g] \subseteq hidden[g]
              /\ \A x \in Paths : \A k \in Kinds : x[1] = g => dir'[x][k] \in {Absent, dir[x][k]}
    PROVE  Lively'
<1> SUFFICES ASSUME NEW h \in Groups, ~Live(h) PROVE hidden'[h] = {} /\ \A n \in NameSet : dir'[<<h, n>>] = Nothing
  BY DEF Lively, Live, Empty
<1>1. Empty(h)
  BY DEF Disk, Lively
<1>2. CASE h # g
  BY <1>1, <1>2, PathParts DEF Empty
<1>3. CASE h = g
  <2>1. hidden'[h] = {}
    BY <1>1, <1>3 DEF Empty
  <2>2. ASSUME NEW n \in NameSet
        PROVE  dir'[<<h, n>>] = Nothing
    <3>1. <<h, n>> \in Paths /\ <<h, n>>[1] = g
      BY <1>3, PathParts
    <3>2. \A k \in Kinds : dir[<<h, n>>][k] = Absent
      BY <1>1, <3>1, NothingIs DEF Empty, Disk
    <3>3. \A k \in Kinds : dir'[<<h, n>>][k] = Absent
      BY <1>3, <3>1, <3>2
    <3> QED BY <3>1, <3>3, NothingIs
  <2> QED BY <2>1, <2>2
<1> QED BY <1>2, <1>3

LEMMA MoveEffect ==
    ASSUME Disk, NEW p \in Paths, NEW q \in Paths, p # q, p[1] = q[1], NEW k \in Plain,
           Feasible(Move(p, q, k)), Effect(Move(p, q, k))
    PROVE  /\ Disk' /\ UNCHANGED <<groups, control, hidden, trash>>
           /\ KeptIn(dir, hidden, trash) \subseteq KeptIn(dir', hidden', trash')
           /\ dir[p][k] # Absent /\ dir'[p][k] = Absent /\ dir'[q][k] = dir[p][k]
           /\ \A x \in Paths : x \notin {p, q} => dir'[x] = dir[x]
           /\ \A x \in Paths : \A l \in Kinds : l # k => dir'[x][l] = dir[x][l]
<1> DEFINE s == Move(p, q, k)
           e == With(dir, q, k, dir[p][k])
<1>1. s.do = "move" /\ s.k = k /\ s.from = p /\ s.to = q /\ k \in Kinds
  BY DEF Move, Plain
<1>2. dir[p][k] # Absent /\ dir[q][k] = Absent
  BY <1>1 DEF Feasible
<1>3. dir' = [dir EXCEPT ![q][k] = dir[p][k], ![p][k] = Absent]
  BY <1>1 DEF Effect
<1>4. UNCHANGED <<groups, control, hidden, trash>>
  BY <1>1 DEF Effect
<1>5. dir' = With(e, p, k, Absent)
  BY <1>3 DEF With
<1>6. dir \in Layout /\ Fits(k, dir[p][k]) /\ Fits(k, Absent)
  BY <1>1, LayoutAt, AbsentFits DEF Disk
<1>7. /\ e \in Layout /\ e[q][k] = dir[p][k]
      /\ \A x \in Paths : x # q => e[x] = dir[x]
      /\ \A x \in Paths : \A l \in Kinds : x # q \/ l # k => e[x][l] = dir[x][l]
  BY <1>1, <1>6, Put
<1> HIDE DEF s, e
<1>8. /\ dir' \in Layout /\ dir'[p][k] = Absent
      /\ \A x \in Paths : x # p => dir'[x] = e[x]
      /\ \A x \in Paths : \A l \in Kinds : x # p \/ l # k => dir'[x][l] = e[x][l]
  BY <1>1, <1>5, <1>6, <1>7, Put
<1>9. Live(p[1]) /\ p[1] \in Groups
  BY <1>1, <1>2, HoldsLive, PathParts
<1>10. Lively'
  <2>1. \A x \in Paths : x[1] # p[1] => dir'[x] = dir[x]
    BY <1>7, <1>8
  <2>2. \A h \in Groups : h # p[1] => hidden'[h] = hidden[h]
    BY <1>4
  <2> QED BY <1>4, <1>8, <1>9, <2>1, <2>2, LivelyNext
<1>11. Disk'
  BY <1>4, <1>8, <1>10 DEF Disk
<1>12. /\ dir'[q][k] = dir[p][k]
       /\ \A x \in Paths : x \notin {p, q} => dir'[x] = dir[x]
       /\ \A x \in Paths : \A l \in Kinds : l # k => dir'[x][l] = dir[x][l]
  BY <1>1, <1>7, <1>8
<1>13. ASSUME NEW d \in KeptIn(dir, hidden, trash)
       PROVE  d \in KeptIn(dir', hidden', trash')
  <2>1. CASE \E x \in Paths : \E l \in Kinds : dir[x][l] # Absent /\ d = [repo |-> dir[x][l].repo, k |-> l]
    <3>1. PICK x \in Paths, l \in Kinds : dir[x][l] # Absent /\ d = [repo |-> dir[x][l].repo, k |-> l]
      BY <2>1
    <3>2. CASE x = p /\ l = k
      BY <1>1, <1>12, <3>1, <3>2, KeptMember
    <3>3. CASE ~(x = p /\ l = k)
      <4>1. ~(x = q /\ l = k)
        BY <1>2, <3>1
      <4>2. dir'[x][l] = dir[x][l]
        BY <1>7, <1>8, <3>3, <4>1
      <4> QED BY <3>1, <4>2, KeptMember
    <3> QED BY <3>2, <3>3
  <2>2. CASE (\E g \in Groups : d \in hidden[g]) \/ d \in trash
    BY <1>4, <2>2, KeptMember
  <2> QED BY <2>1, <2>2, KeptMember
<1> QED BY <1>2, <1>4, <1>8, <1>11, <1>12, <1>13

LEMMA PutDisk ==
    ASSUME Disk, NEW p \in Paths, NEW k \in Kinds, NEW c, Fits(k, c), dir' = With(dir, p, k, c),
           UNCHANGED <<groups, control>>,
           hidden' \in [Groups -> SUBSET [repo : Repositories, k : Stores]],
           trash' \subseteq [repo : Repositories, k : Kinds],
           \A h \in Groups : h # p[1] => hidden'[h] = hidden[h],
           Live(p[1]) \/ (c = Absent /\ hidden' = hidden)
    PROVE  /\ Disk' /\ dir'[p][k] = c
           /\ \A x \in Paths : x # p => dir'[x] = dir[x]
           /\ \A x \in Paths : \A l \in Kinds : x # p \/ l # k => dir'[x][l] = dir[x][l]
<1>1. /\ dir' \in Layout /\ dir'[p][k] = c
      /\ \A x \in Paths : x # p => dir'[x] = dir[x]
      /\ \A x \in Paths : \A l \in Kinds : x # p \/ l # k => dir'[x][l] = dir[x][l]
  BY Put DEF Disk
<1>2. Lively'
  <2>1. p[1] \in Groups
    BY PathParts
  <2>2. \A x \in Paths : x[1] # p[1] => dir'[x] = dir[x]
    BY <1>1
  <2>3. CASE Live(p[1])
    BY <1>1, <2>1, <2>2, <2>3, LivelyNext
  <2>4. CASE c = Absent /\ hidden' = hidden
    <3>1. \A x \in Paths : \A l \in Kinds : x[1] = p[1] => dir'[x][l] \in {Absent, dir[x][l]}
      BY <1>1, <2>4
    <3>2. hidden'[p[1]] \subseteq hidden[p[1]]
      BY <2>4
    <3> QED BY <1>1, <2>1, <2>2, <3>1, <3>2, LivelyNext
  <2> QED BY <2>3, <2>4
<1> QED BY <1>1, <1>2 DEF Disk

LEMMA PutKeeps ==
    ASSUME Disk, NEW p \in Paths, NEW k \in Kinds, NEW c, Fits(k, c), dir' = With(dir, p, k, c),
           \A e \in trash : e \in trash' \/ (c # Absent /\ e = [repo |-> c.repo, k |-> k]),
           \A g \in Groups : \A e \in hidden[g] :
             e \in hidden'[g] \/ (c # Absent /\ e = [repo |-> c.repo, k |-> k])
    PROVE  \A d \in KeptIn(dir, hidden, trash) :
             \/ d \in KeptIn(dir', hidden', trash')
             \/ dir[p][k] # Absent /\ d = [repo |-> dir[p][k].repo, k |-> k]
<1>1. /\ dir'[p][k] = c
      /\ \A x \in Paths : \A l \in Kinds : x # p \/ l # k => dir'[x][l] = dir[x][l]
  BY Put DEF Disk
<1> SUFFICES ASSUME NEW d \in KeptIn(dir, hidden, trash),
                    ~(dir[p][k] # Absent /\ d = [repo |-> dir[p][k].repo, k |-> k])
             PROVE  d \in KeptIn(dir', hidden', trash')
  OBVIOUS
<1>2. CASE c # Absent /\ d = [repo |-> c.repo, k |-> k]
  BY <1>1, <1>2, KeptMember
<1>3. CASE \E x \in Paths : \E l \in Kinds : dir[x][l] # Absent /\ d = [repo |-> dir[x][l].repo, k |-> l]
  <2>1. PICK x \in Paths, l \in Kinds : dir[x][l] # Absent /\ d = [repo |-> dir[x][l].repo, k |-> l]
    BY <1>3
  <2>2. dir'[x][l] = dir[x][l]
    BY <1>1, <2>1
  <2> QED BY <2>1, <2>2, KeptMember
<1>4. CASE \E g \in Groups : d \in hidden[g]
  BY <1>2, <1>4, KeptMember
<1>5. CASE d \in trash
  BY <1>2, <1>5, KeptMember
<1> QED BY <1>3, <1>4, <1>5, KeptMember

\* What only one path of the layout can feel.
Same(p, k) ==
  /\ \A x \in Paths : x # p => dir'[x] = dir[x]
  /\ \A x \in Paths : \A l \in Kinds : x # p \/ l # k => dir'[x][l] = dir[x][l]

LEMMA TrashEffect ==
    ASSUME Disk, NEW p \in Paths, NEW k \in Kinds, Feasible(Trash(p, k)), Effect(Trash(p, k))
    PROVE  /\ Disk' /\ UNCHANGED <<groups, control, hidden>>
           /\ KeptIn(dir, hidden, trash) \subseteq KeptIn(dir', hidden', trash')
           /\ dir[p][k] # Absent /\ dir'[p][k] = Absent /\ Same(p, k)
<1> DEFINE s == Trash(p, k)
           d == [repo |-> dir[p][k].repo, k |-> k]
<1>1. s.do = "trash" /\ s.k = k /\ s.from = p
  BY DEF Trash
<1>2. dir[p][k] # Absent
  BY <1>1 DEF Feasible
<1>3. dir' = With(dir, p, k, Absent) /\ trash' = trash \cup {d}
  BY <1>1 DEF Effect, With
<1>4. UNCHANGED <<groups, control, hidden>>
  BY <1>1 DEF Effect
<1>5. d \in [repo : Repositories, k : Kinds]
  BY <1>2, LayoutAt, Recorded DEF Disk
<1>6. Fits(k, Absent)
  BY AbsentFits
<1>7. Disk' /\ dir'[p][k] = Absent /\ Same(p, k)
  <2>1. /\ trash' \subseteq [repo : Repositories, k : Kinds]
        /\ hidden' \in [Groups -> SUBSET [repo : Repositories, k : Stores]]
    BY <1>3, <1>4, <1>5 DEF Disk
  <2> HIDE DEF s, d
  <2> QED BY <1>3, <1>4, <1>6, <2>1, PutDisk DEF Same
<1>8. \A e \in KeptIn(dir, hidden, trash) : e \in KeptIn(dir', hidden', trash')
  <2>1. \A e \in KeptIn(dir, hidden, trash) : e \in KeptIn(dir', hidden', trash') \/ e = d
    BY <1>3, <1>4, <1>6, PutKeeps
  <2>2. d \in KeptIn(dir', hidden', trash')
    BY <1>3, KeptMember
  <2> QED BY <2>1, <2>2
<1> QED BY <1>2, <1>4, <1>7, <1>8

LEMMA UntrashEffect ==
    ASSUME Disk, NEW p \in Paths, NEW k \in Kinds, NEW c, Fits(k, c), c # Absent, Live(p[1]),
           Feasible(Untrash(p, k, c)), Effect(Untrash(p, k, c))
    PROVE  /\ Disk' /\ UNCHANGED <<groups, control, hidden>>
           /\ KeptIn(dir, hidden, trash) \subseteq KeptIn(dir', hidden', trash')
           /\ dir'[p][k] = c /\ Same(p, k)
<1> DEFINE s == Untrash(p, k, c)
           d == [repo |-> c.repo, k |-> k]
<1>1. s.do = "untrash" /\ s.k = k /\ s.from = p /\ s.c = c
  BY DEF Untrash
<1>2. dir[p][k] = Absent
  BY <1>1 DEF Feasible
<1>3. dir' = With(dir, p, k, c) /\ trash' = trash \ {d}
  BY <1>1 DEF Effect, With
<1>4. UNCHANGED <<groups, control, hidden>>
  BY <1>1 DEF Effect
<1>5. Disk' /\ dir'[p][k] = c /\ Same(p, k)
  <2>1. /\ trash' \subseteq [repo : Repositories, k : Kinds]
        /\ hidden' \in [Groups -> SUBSET [repo : Repositories, k : Stores]]
    BY <1>3, <1>4 DEF Disk
  <2> HIDE DEF s, d
  <2> QED BY <1>3, <1>4, <2>1, PutDisk DEF Same
<1>6. \A e \in KeptIn(dir, hidden, trash) : e \in KeptIn(dir', hidden', trash')
  BY <1>2, <1>3, <1>4, PutKeeps
<1> QED BY <1>4, <1>5, <1>6

LEMMA MakeEffect ==
    ASSUME Disk, NEW p \in Paths, NEW k \in Kinds, NEW r \in Repositories, Live(p[1]),
           dir[p][k] = Absent, Effect(Make(p, k, r))
    PROVE  /\ Disk' /\ UNCHANGED <<groups, control, hidden, trash>>
           /\ KeptIn(dir, hidden, trash) \subseteq KeptIn(dir', hidden', trash')
           /\ dir'[p][k] # Absent /\ dir'[p][k].repo = r /\ Same(p, k)
<1> DEFINE s == Make(p, k, r)
           c == Data(r, k, p)
<1>1. s.do = "make" /\ s.k = k /\ s.from = p /\ s.c = c
  BY DEF Make
<1>3. dir' = With(dir, p, k, c)
  BY <1>1 DEF Effect, With
<1>4. UNCHANGED <<groups, control, hidden, trash>>
  BY <1>1 DEF Effect
<1> HIDE DEF s
<1>5. Fits(k, c) /\ c # Absent /\ c.repo = r
  BY DataFits
<1> HIDE DEF c
<1>6. Disk' /\ dir'[p][k] = c /\ Same(p, k)
  <2>1. /\ trash' \subseteq [repo : Repositories, k : Kinds]
        /\ hidden' \in [Groups -> SUBSET [repo : Repositories, k : Stores]]
    BY <1>4 DEF Disk
  <2> QED BY <1>3, <1>4, <1>5, <2>1, PutDisk DEF Same
<1>7. \A e \in KeptIn(dir, hidden, trash) : e \in KeptIn(dir', hidden', trash')
  BY <1>3, <1>4, <1>5, PutKeeps
<1> QED BY <1>4, <1>5, <1>6, <1>7

LEMMA DiscardEffect ==
    ASSUME Disk, NEW p \in Paths, NEW k \in Kinds, Effect(Discard(p, k))
    PROVE  /\ Disk' /\ UNCHANGED <<groups, control, hidden, trash>>
           /\ \A d \in KeptIn(dir, hidden, trash) :
                \/ d \in KeptIn(dir', hidden', trash')
                \/ dir[p][k] # Absent /\ d = [repo |-> dir[p][k].repo, k |-> k]
           /\ dir'[p][k] = Absent /\ Same(p, k)
<1> DEFINE s == Discard(p, k)
<1>1. s.do = "remove" /\ s.k = k /\ s.from = p
  BY DEF Discard
<1>3. dir' = With(dir, p, k, Absent)
  BY <1>1 DEF Effect, With
<1>4. UNCHANGED <<groups, control, hidden, trash>>
  BY <1>1 DEF Effect
<1>5. Fits(k, Absent)
  BY AbsentFits
<1>6. Disk' /\ dir'[p][k] = Absent /\ Same(p, k)
  <2>1. /\ trash' \subseteq [repo : Repositories, k : Kinds]
        /\ hidden' \in [Groups -> SUBSET [repo : Repositories, k : Stores]]
    BY <1>4 DEF Disk
  <2> QED BY <1>3, <1>4, <1>5, <2>1, PutDisk DEF Same
<1>7. \A e \in KeptIn(dir, hidden, trash) :
        e \in KeptIn(dir', hidden', trash') \/ (dir[p][k] # Absent /\ e = [repo |-> dir[p][k].repo, k |-> k])
  BY <1>3, <1>4, <1>5, PutKeeps
<1> QED BY <1>4, <1>6, <1>7

LEMMA CarryEffect ==
    ASSUME Disk, NEW a \in Groups, NEW b \in Groups, Feasible(Carry(a, b)), Effect(Carry(a, b))
    PROVE  /\ Disk' /\ UNCHANGED trash /\ a # b
           /\ KeptIn(dir, hidden, trash) \subseteq KeptIn(dir', hidden', trash')
           /\ \A x \in Paths : x[1] = b => dir'[x] = dir[<<a, x[2]>>]
           /\ \A x \in Paths : x[1] = a => dir'[x] = Nothing
           /\ \A x \in Paths : x[1] \notin {a, b} => dir'[x] = dir[x]
<1> DEFINE s == Carry(a, b)
<1>1. s.do = "carry" /\ s.from = a /\ s.to = b
  BY DEF Carry
<1>2. a \in groups /\ b \notin groups /\ a # b
  BY <1>1 DEF Feasible
<1>3. /\ dir' = [p \in Paths |-> CASE p[1] = b -> dir[<<a, p[2]>>]
                                   [] p[1] = a -> Nothing
                                   [] OTHER -> dir[p]]
      /\ UNCHANGED trash
      /\ groups' = (groups \ {a}) \cup {b}
      /\ control' = [control EXCEPT ![b] = control[a], ![a] = Absent]
      /\ hidden' = [hidden EXCEPT ![b] = hidden[a], ![a] = {}]
  BY <1>1 DEF Effect
<1> HIDE DEF s
<1>4. /\ \A x \in Paths : x[1] = b => dir'[x] = dir[<<a, x[2]>>]
      /\ \A x \in Paths : x[1] = a => dir'[x] = Nothing
      /\ \A x \in Paths : x[1] \notin {a, b} => dir'[x] = dir[x]
  BY <1>2, <1>3
<1>5. control \in [Groups -> Groups \cup {Absent}] /\ hidden \in [Groups -> SUBSET [repo : Repositories, k : Stores]]
  BY DEF Disk
<1>6. /\ control' \in [Groups -> Groups \cup {Absent}] /\ control'[b] = control[a] /\ control'[a] = Absent
      /\ \A h \in Groups : h \notin {a, b} => control'[h] = control[h]
  BY <1>2, <1>3, <1>5
<1>7. /\ hidden' \in [Groups -> SUBSET [repo : Repositories, k : Stores]]
      /\ hidden'[b] = hidden[a] /\ hidden'[a] = {}
      /\ \A h \in Groups : h \notin {a, b} => hidden'[h] = hidden[h]
  BY <1>2, <1>3, <1>5
<1>8. dir' \in Layout
  <2>1. ASSUME NEW x \in Paths
        PROVE  dir'[x] \in [Kinds -> Content] /\ \A k \in Kinds : Fits(k, dir'[x][k])
    <3>1. <<a, x[2]>> \in Paths
      BY PathParts
    <3>2. CASE x[1] = b
      BY <1>4, <3>1, <3>2, LayoutAt DEF Disk, Layout
    <3>3. CASE x[1] = a
      <4>1. Nothing \in [Kinds -> Content] /\ \A k \in Kinds : Nothing[k] = Absent
        BY DEF Nothing, Catalog!Nothing, Kinds, Content
      <4> QED BY <1>4, <3>3, <4>1, AbsentFits
    <3>4. CASE x[1] \notin {a, b}
      BY <1>4, <3>4, LayoutAt DEF Disk, Layout
    <3> QED BY <3>2, <3>3, <3>4
  <2>2. DOMAIN dir' = Paths /\ dir' = [x \in Paths |-> dir'[x]]
    BY <1>3
  <2> QED BY <2>1, <2>2 DEF Layout
<1>9. Empty(b)
  BY <1>2 DEF Disk, Lively, Live
<1>10. Lively'
  <2> SUFFICES ASSUME NEW h \in Groups, ~Live(h)'
               PROVE  hidden'[h] = {} /\ \A n \in NameSet : dir'[<<h, n>>] = Nothing
    BY DEF Lively, Empty
  <2>1. CASE h = a
    BY <1>4, <1>7, <2>1, PathParts
  <2>2. CASE h = b
    <3>1. ~Live(a)
      BY <1>2, <1>3, <1>6, <2>2 DEF Live
    <3>2. Empty(a)
      BY <3>1 DEF Disk, Lively
    <3> QED BY <1>4, <1>7, <2>2, <3>2, PathParts DEF Empty
  <2>3. CASE h \notin {a, b}
    <3>1. ~Live(h)
      BY <1>3, <1>6, <2>3 DEF Live
    <3>2. Empty(h)
      BY <3>1 DEF Disk, Lively
    <3> QED BY <1>4, <1>7, <2>3, <3>2, PathParts DEF Empty
  <2> QED BY <2>1, <2>2, <2>3
<1>11. Disk'
  BY <1>3, <1>6, <1>7, <1>8, <1>10 DEF Disk
<1>12. ASSUME NEW d \in KeptIn(dir, hidden, trash)
       PROVE  d \in KeptIn(dir', hidden', trash')
  <2>1. CASE \E x \in Paths : \E l \in Kinds : dir[x][l] # Absent /\ d = [repo |-> dir[x][l].repo, k |-> l]
    <3>1. PICK x \in Paths, l \in Kinds : dir[x][l] # Absent /\ d = [repo |-> dir[x][l].repo, k |-> l]
      BY <2>1
    <3>2. x[1] # b
      <4>1. SUFFICES ASSUME x[1] = b PROVE FALSE
        OBVIOUS
      <4>2. dir[x] = Nothing
        BY <1>9, <4>1, PathParts DEF Empty
      <4> QED BY <3>1, <4>2, NothingIs DEF Disk
    <3>3. CASE x[1] = a
      <4> DEFINE y == <<b, x[2]>>
      <4>1. y \in Paths /\ y[1] = b /\ <<a, y[2]>> = x
        BY <3>3, PathParts
      <4>2. dir'[y][l] = dir[x][l]
        BY <1>4, <4>1
      <4> QED BY <3>1, <4>1, <4>2, KeptMember
    <3>4. CASE x[1] # a
      <4>1. dir'[x][l] = dir[x][l]
        BY <1>4, <3>2, <3>4
      <4> QED BY <3>1, <4>1, KeptMember
    <3> QED BY <3>3, <3>4
  <2>2. CASE \E g \in Groups : d \in hidden[g]
    <3>1. PICK g \in Groups : d \in hidden[g]
      BY <2>2
    <3>2. \E h \in Groups : d \in hidden'[h]
      BY <1>7, <1>9, <3>1 DEF Empty
    <3> QED BY <3>2, KeptMember
  <2>3. CASE d \in trash
    BY <1>3, <2>3, KeptMember
  <2> QED BY <2>1, <2>2, <2>3, KeptMember
<1> QED BY <1>2, <1>3, <1>4, <1>11, <1>12

\* Directories of groups and control documents come and go without the data.
LEMMA GroupDisk ==
    ASSUME Disk, UNCHANGED <<dir, hidden, trash>>, groups' \subseteq Groups,
           control' \in [Groups -> Groups \cup {Absent}],
           \A h \in Groups : Live(h) /\ ~Live(h)' => Empty(h)
    PROVE  Disk'
BY DEF Disk, Lively, Empty

LEMMA ControlEffect ==
    ASSUME Disk, NEW g \in Groups, Effect(Control(g))
    PROVE  Disk' /\ UNCHANGED <<dir, hidden, trash>>
<1> DEFINE s == Control(g)
<1>1. s.do = "control" /\ s.to = g
  BY DEF Control
<1>2. UNCHANGED <<dir, hidden, trash, groups>> /\ control' = [control EXCEPT ![g] = g]
  BY <1>1 DEF Effect
<1>3. control' \in [Groups -> Groups \cup {Absent}] /\ \A h \in Groups : control'[h] \in {g, control[h]}
  BY <1>2 DEF Disk
<1>4. g # Absent
  BY LifecycleAssumption
<1>5. \A h \in Groups : Live(h) => Live(h)'
  BY <1>2, <1>3, <1>4 DEF Live
<1>6. groups' \subseteq Groups
  BY <1>2 DEF Disk
<1> HIDE DEF s
<1> QED BY <1>2, <1>3, <1>5, <1>6, GroupDisk

LEMMA MkdirEffect ==
    ASSUME Disk, NEW g \in Groups, Effect(Mkdir(g))
    PROVE  Disk' /\ UNCHANGED <<dir, hidden, trash>>
<1> DEFINE s == Mkdir(g)
<1>1. s.do = "mkdir" /\ s.to = g
  BY DEF Mkdir
<1>2. UNCHANGED <<dir, hidden, trash, control>> /\ groups' = groups \cup {g}
  BY <1>1 DEF Effect
<1>3. groups' \subseteq Groups /\ control' \in [Groups -> Groups \cup {Absent}]
  BY <1>2 DEF Disk
<1>4. \A h \in Groups : Live(h) => Live(h)'
  BY <1>2 DEF Live
<1> HIDE DEF s
<1> QED BY <1>2, <1>3, <1>4, GroupDisk

LEMMA HideEffect ==
    ASSUME Disk, NEW p \in Paths, NEW k \in Stores, dir[p][k] # Absent,
           dir' = With(dir, p, k, Absent),
           hidden' = [hidden EXCEPT ![p[1]] = @ \cup {[repo |-> dir[p][k].repo, k |-> k]}],
           UNCHANGED <<groups, control, trash>>
    PROVE  /\ Disk' /\ dir'[p][k] = Absent /\ Same(p, k)
           /\ KeptIn(dir, hidden, trash) \subseteq KeptIn(dir', hidden', trash')
           /\ [repo |-> dir[p][k].repo, k |-> k] \in hidden'[p[1]]
<1> DEFINE d == [repo |-> dir[p][k].repo, k |-> k]
<1>1. k \in Kinds /\ p[1] \in Groups
  BY PathParts DEF Kinds, Stores, Catalog!Kinds, Catalog!Stores
<1>2. Fits(k, Absent) /\ d \in [repo : Repositories, k : Stores]
  BY <1>1, LayoutAt, Recorded, AbsentFits DEF Disk
<1>3. Live(p[1])
  BY <1>1, HoldsLive
<1>4. /\ hidden' \in [Groups -> SUBSET [repo : Repositories, k : Stores]]
      /\ d \in hidden'[p[1]]
      /\ \A h \in Groups : h # p[1] => hidden'[h] = hidden[h]
      /\ \A h \in Groups : hidden[h] \subseteq hidden'[h]
  BY <1>1, <1>2 DEF Disk
<1>5. trash' \subseteq [repo : Repositories, k : Kinds]
  BY DEF Disk
<1>6. Disk' /\ dir'[p][k] = Absent /\ Same(p, k)
  BY <1>1, <1>2, <1>3, <1>4, <1>5, PutDisk DEF Same
<1>7. \A e \in KeptIn(dir, hidden, trash) : e \in KeptIn(dir', hidden', trash') \/ e = d
  BY <1>1, <1>2, <1>4, PutKeeps
<1>8. d \in KeptIn(dir', hidden', trash')
  <2> HIDE DEF d
  <2> QED BY <1>1, <1>4, KeptMember
<1> QED BY <1>4, <1>6, <1>7, <1>8

LEMMA UnhideEffect ==
    ASSUME Disk, NEW p \in Paths, NEW k \in Stores, NEW c, Fits(k, c), c # Absent, dir[p][k] = Absent,
           [repo |-> c.repo, k |-> k] \in hidden[p[1]],
           dir' = With(dir, p, k, c),
           hidden' = [hidden EXCEPT ![p[1]] = @ \ {[repo |-> c.repo, k |-> k]}],
           UNCHANGED <<groups, control, trash>>
    PROVE  /\ Disk' /\ dir'[p][k] = c /\ Same(p, k)
           /\ KeptIn(dir, hidden, trash) \subseteq KeptIn(dir', hidden', trash')
<1> DEFINE d == [repo |-> c.repo, k |-> k]
<1>1. k \in Kinds /\ p[1] \in Groups
  BY PathParts DEF Kinds, Stores, Catalog!Kinds, Catalog!Stores
<1>2. Live(p[1])
  BY <1>1, AsideLive
<1>3. /\ hidden' \in [Groups -> SUBSET [repo : Repositories, k : Stores]]
      /\ \A h \in Groups : h # p[1] => hidden'[h] = hidden[h]
      /\ \A h \in Groups : \A e \in hidden[h] : e \in hidden'[h] \/ e = d
  BY <1>1 DEF Disk
<1>4. trash' \subseteq [repo : Repositories, k : Kinds]
  BY DEF Disk
<1>5. Disk' /\ dir'[p][k] = c /\ Same(p, k)
  BY <1>1, <1>2, <1>3, <1>4, PutDisk DEF Same
<1>6. \A e \in KeptIn(dir, hidden, trash) : e \in KeptIn(dir', hidden', trash')
  BY <1>1, <1>3, PutKeeps
<1> QED BY <1>5, <1>6

-----------------------------------------------------------------------------
(* What a step does to the operation. *)

Fields == {"kind", "from", "to", "todo", "done", "mode", "back", "held", "snap", "usable"}

\* It stays the same operation, which began in the same layout.
Frame ==
  /\ DOMAIN op' = Fields
  /\ op'.kind = op.kind /\ op'.from = op.from /\ op'.to = op.to /\ op'.snap = op.snap

LEMMA AdvanceIs ==
    ASSUME DOMAIN op = Fields, NEW s, Advance(s)
    PROVE  /\ Frame /\ op'.mode = op.mode /\ op'.back = op.back /\ op'.held = Absent
           /\ op'.todo = Tail(op.todo) /\ op'.done = Done(s)
BY DEF Advance, Frame, Fields

LEMMA FailureIs ==
    ASSUME DOMAIN op = Fields, op.kind # "move", NEW s, op' = AfterFailure(s)
    PROVE  /\ Frame /\ op'.held = Absent
           /\ op.mode = "do" => op'.mode = "undo" /\ op'.todo = op.done /\ op'.done = <<>>
           /\ op.mode # "do" => /\ op'.mode = op.mode /\ op'.todo = Tail(op.todo)
                                /\ op'.done = op.done
BY DEF AfterFailure, Frame, Fields

LEMMA Soiled ==
    ASSUME dirty \in 0 .. MaxDirty, NEW b \in BOOLEAN, Soil(b)
    PROVE  dirty' \in 0 .. MaxDirty /\ dirty' >= dirty /\ (b => dirty' > 0)
<1>1. MaxDirty \in Nat /\ MaxDirty > 0
  BY LifecycleAssumption
<1> QED BY <1>1 DEF Soil

-----------------------------------------------------------------------------
(* A deletion. *)

LEMMA DeletingShape ==
    ASSUME Deleting, op.todo # <<>>
    PROVE  \E k \in Kinds :
             \/ op.mode = "do" /\ Step = Trash(op.from, k)
             \/ /\ op.mode = "undo" /\ op.snap[op.from][k] # Absent
                /\ Step = Untrash(op.from, k, op.snap[op.from][k])
<1>1. CASE op.mode = "do" /\ op.todo \in Seq(Trashes(op.from))
  <2>1. Step \in Trashes(op.from)
    BY <1>1, SeqParts DEF Step
  <2> QED BY <1>1, <2>1 DEF Trashes
<1>2. CASE op.mode = "undo" /\ op.todo \in Seq(Untrashes(op.snap[op.from], op.from))
  <2>1. Step \in Untrashes(op.snap[op.from], op.from)
    BY <1>2, SeqParts DEF Step
  <2> QED BY <1>2, <2>1 DEF Untrashes
<1> QED BY <1>1, <1>2 DEF Deleting

LEMMA DeletingStep ==
    ASSUME Disk, Deleting, DOMAIN op = Fields, op.snap \in Layout, StepDone
    PROVE  /\ Disk' /\ Deleting' /\ Frame
           /\ KeptIn(dir, hidden, trash) \subseteq KeptIn(dir', hidden', trash')
<1> DEFINE p == op.from
           c == op.snap[p]
           Back(k) == Untrash(p, k, c[k])
<1>1. op.todo # <<>> /\ Feasible(Step) /\ Effect(Step) /\ Advance(Step) /\ dirty' = dirty
  BY DEF StepDone, Running
<1>2. /\ Frame /\ op'.mode = op.mode /\ op'.held = Absent
      /\ op'.todo = Tail(op.todo) /\ op'.done = Done(Step)
  BY <1>1, AdvanceIs
<1>3. /\ op.kind = "delete" /\ p \in Paths
      /\ \A x \in Paths : x # p => dir[x] = op.snap[x]
      /\ \A k \in Kinds : dir[p][k] # Absent => dir[p][k] = c[k]
      /\ op.done \in Seq(Untrashes(c, p))
      /\ (\E k \in Kinds : c[k] # Absent) => Live(p[1])
  BY DEF Deleting
<1>4. "issues" \in Kinds /\ "git" \in Kinds
  BY DEF Kinds, Catalog!Kinds
<1>5. CASE op.mode = "do"
  <2>1. PICK k \in Kinds : Step = Trash(p, k)
    BY <1>1, <1>5, DeletingShape
  <2>2. /\ Disk' /\ UNCHANGED <<groups, control, hidden>>
        /\ KeptIn(dir, hidden, trash) \subseteq KeptIn(dir', hidden', trash')
        /\ dir[p][k] # Absent /\ dir'[p][k] = Absent /\ Same(p, k)
    BY <1>1, <1>3, <2>1, TrashEffect
  <2>3. dir[p][k] = c[k] /\ Back(k) \in Untrashes(c, p)
    BY <1>3, <2>2 DEF Untrashes
  <2>4. op'.done = <<Back(k)>> \o op.done
    <3>1. Reversal(Step) = <<Untrash(p, k, dir[p][k])>>
      BY <2>1 DEF Reversal, Trash
    <3> QED BY <1>2, <1>5, <2>3, <3>1 DEF Done
  <2>5. /\ op.todo \in Seq(Trashes(p))
        /\ dirty = 0 =>
             /\ dir[p]["issues"] # Absent => Has(op.todo, Trash(p, "issues"))
             /\ op.done = <<>> => Step = Trash(p, "git")
             /\ op.done # <<>> => Has(op.done, Back("git"))
    BY <1>1, <1>5 DEF Deleting
  <2>6. op'.todo \in Seq(Trashes(p)) /\ op'.done \in Seq(Untrashes(c, p)) /\ op'.done # <<>>
    <3>1. <<Back(k)>> \in Seq(Untrashes(c, p))
      BY <2>3
    <3>2. op'.done \in Seq(Untrashes(c, p))
      BY <1>3, <2>4, <3>1, SeqJoin
    <3>3. op'.done # <<>>
      BY <1>3, <2>3, <2>4, HasCons, HasSome, <3>2
    <3> QED BY <1>1, <1>2, <2>5, <3>2, <3>3, SeqParts
  <2>7. ASSUME dirty = 0, dir'[p]["issues"] # Absent
        PROVE  Has(op'.todo, Trash(p, "issues"))
    <3>1. k # "issues" /\ dir[p]["issues"] # Absent
      BY <1>3, <1>4, <2>2, <2>7 DEF Same
    <3>2. Step # Trash(p, "issues")
      BY <2>1, <3>1 DEF Trash
    <3> QED BY <1>1, <1>2, <2>5, <2>7, <3>1, <3>2, HasTail DEF Step
  <2>8. ASSUME dirty = 0
        PROVE  Has(op'.done, Back("git"))
    <3>1. CASE op.done = <<>>
      <4>1. k = "git"
        BY <2>1, <2>5, <2>8, <3>1 DEF Trash
      <4> QED BY <1>3, <2>3, <2>4, <4>1, HasCons
    <3>2. CASE op.done # <<>>
      BY <1>3, <2>3, <2>4, <2>5, <2>8, <3>2, HasCons
    <3> QED BY <3>1, <3>2
  <2>9. /\ \A x \in Paths : x # p => dir'[x] = op.snap[x]
        /\ \A l \in Kinds : dir'[p][l] # Absent => dir'[p][l] = c[l]
    BY <1>3, <2>2 DEF Same
  <2>10. (\E l \in Kinds : c[l] # Absent) => Live(p[1])'
    BY <1>2, <1>3, <2>2 DEF Live, Frame
  <2>11. Deleting'
    BY <1>1, <1>2, <1>3, <1>5, <2>6, <2>7, <2>8, <2>9, <2>10 DEF Deleting, Frame
  <2> QED BY <1>2, <2>2, <2>11
<1>6. CASE op.mode = "undo"
  <2>1. PICK k \in Kinds : c[k] # Absent /\ Step = Back(k)
    BY <1>1, <1>6, DeletingShape
  <2>2. Fits(k, c[k]) /\ Live(p[1])
    BY <1>3, <2>1, LayoutAt
  <2>3. /\ Disk' /\ UNCHANGED <<groups, control, hidden>>
        /\ KeptIn(dir, hidden, trash) \subseteq KeptIn(dir', hidden', trash')
        /\ dir'[p][k] = c[k] /\ Same(p, k)
    BY <1>1, <1>3, <2>1, <2>2, UntrashEffect
  <2>4. op'.done = op.done
    <3>1. Step.do = "untrash"
      BY <2>1 DEF Untrash
    <3>2. Reversal(Step) = <<>>
      BY <3>1 DEF Reversal
    <3> QED BY <1>2, <1>3, <3>1, <3>2 DEF Done
  <2>5. /\ op.todo \in Seq(Untrashes(c, p))
        /\ (dirty = 0 /\ (dir[p]["issues"] # Absent \/ Has(op.todo, Back("issues"))))
             => dir[p]["git"] # Absent \/ Has(op.todo, Back("git"))
    BY <1>6 DEF Deleting
  <2>6. op'.todo \in Seq(Untrashes(c, p))
    BY <1>1, <1>2, <2>5, SeqParts
  <2>7. ASSUME dirty = 0, dir'[p]["issues"] # Absent \/ Has(op'.todo, Back("issues"))
        PROVE  dir'[p]["git"] # Absent \/ Has(op'.todo, Back("git"))
    <3>1. dir[p]["issues"] # Absent \/ Has(op.todo, Back("issues"))
      <4>1. CASE k = "issues"
        BY <1>1, <2>1, <2>5, <4>1, HeadHas DEF Step
      <4>2. CASE k # "issues"
        BY <1>1, <1>2, <1>3, <1>4, <2>3, <2>5, <2>7, <4>2, TailHas DEF Same
      <4> QED BY <4>1, <4>2
    <3>2. dir[p]["git"] # Absent \/ Has(op.todo, Back("git"))
      BY <2>5, <2>7, <3>1
    <3>3. CASE k = "git"
      BY <2>1, <2>3, <3>3
    <3>4. CASE k # "git"
      <4>1. Step # Back("git")
        BY <2>1, <3>4 DEF Untrash
      <4>2. dir'[p]["git"] = dir[p]["git"]
        BY <1>3, <1>4, <2>3, <3>4 DEF Same
      <4> QED BY <1>1, <1>2, <2>5, <3>2, <4>1, <4>2, HasTail DEF Step
    <3> QED BY <3>3, <3>4
  <2>8. /\ \A x \in Paths : x # p => dir'[x] = op.snap[x]
        /\ \A l \in Kinds : dir'[p][l] # Absent => dir'[p][l] = c[l]
    BY <1>3, <2>3 DEF Same
  <2>9. (\E l \in Kinds : c[l] # Absent) => Live(p[1])'
    BY <1>2, <1>3, <2>3 DEF Live, Frame
  <2>10. Deleting'
    BY <1>1, <1>2, <1>3, <1>6, <2>4, <2>6, <2>7, <2>8, <2>9 DEF Deleting, Frame
  <2> QED BY <1>2, <2>3, <2>10
<1> QED BY <1>5, <1>6 DEF Deleting

LEMMA DeletingFails ==
    ASSUME Disk, Deleting, DOMAIN op = Fields, dirty \in 0 .. MaxDirty, op.todo # <<>>,
           op' = AfterFailure(Step), Soil(~Forward), UNCHANGED disk
    PROVE  Deleting' /\ Frame
<1> DEFINE p == op.from
           c == op.snap[p]
           Back(k) == Untrash(p, k, c[k])
<1>1. op.kind = "delete" /\ op.done \in Seq(Untrashes(c, p))
  BY DEF Deleting
<1>2. /\ Frame /\ op'.held = Absent
      /\ op.mode = "do" => op'.mode = "undo" /\ op'.todo = op.done /\ op'.done = <<>>
      /\ op.mode # "do" => /\ op'.mode = op.mode /\ op'.todo = Tail(op.todo)
                           /\ op'.done = op.done
  BY <1>1, FailureIs
<1>3. dirty' >= dirty /\ dirty' \in Nat /\ dirty \in Nat /\ (op.mode # "do" => dirty' > 0)
  <2>1. Forward \in BOOLEAN /\ (op.mode # "do" => ~Forward)
    BY DEF Forward
  <2>2. dirty' \in 0 .. MaxDirty /\ dirty' >= dirty /\ (~Forward => dirty' > 0)
    BY <2>1, Soiled
  <2> QED BY <2>1, <2>2, LifecycleAssumption
<1>4. UNCHANGED <<dir, groups, control>>
  BY DEF disk
<1>5. CASE op.mode = "do"
  <2>1. ASSUME dirty' = 0, dir[p]["issues"] # Absent \/ Has(op.done, Back("issues"))
        PROVE  dir[p]["git"] # Absent \/ Has(op.done, Back("git"))
    <3>1. dirty = 0
      BY <1>3, <2>1
    <3>2. CASE op.done = <<>>
      <4>1. ~Has(op.done, Back("issues"))
        BY <1>1, <3>2, HasSome
      <4> QED BY <1>5, <2>1, <3>1, <3>2, <4>1 DEF Deleting, Anchored
    <3>3. CASE op.done # <<>>
      BY <1>5, <3>1, <3>3 DEF Deleting
    <3> QED BY <3>2, <3>3
  <2>2. <<>> \in Seq(Untrashes(c, p))
    OBVIOUS
  <2>3. Deleting'
    BY <1>1, <1>2, <1>4, <1>5, <2>1, <2>2 DEF Deleting, Frame, Live
  <2> QED BY <1>2, <2>3
<1>6. CASE op.mode = "undo"
  <2>1. op'.todo \in Seq(Untrashes(c, p))
    BY <1>2, <1>6, SeqParts DEF Deleting
  <2>2. dirty' # 0
    BY <1>3, <1>6
  <2>3. Deleting'
    BY <1>1, <1>2, <1>4, <1>6, <2>1, <2>2 DEF Deleting, Frame, Live
  <2> QED BY <1>2, <2>3
<1> QED BY <1>5, <1>6 DEF Deleting

-----------------------------------------------------------------------------
(* A renaming. *)

Rw(x, y, k) == Rewrite(x, y, k, x, y)

LEMMA PlainKinds ==
    /\ Plain \subseteq Kinds /\ Stores \subseteq Kinds /\ Plain \cap Stores = {}
    /\ "git" \in Plain /\ "issues" \in Stores
BY DEF Plain, Kinds, Stores, Catalog!Kinds, Catalog!Stores

LEMMA BetweenSteps ==
    ASSUME NEW x, NEW y
    PROVE  /\ \A s \in Between(x, y) : \/ \E k \in Plain : s = Move(x, y, k)
                                       \/ \E k \in Stores : s = Rw(x, y, k)
           /\ \A k \in Plain : Move(x, y, k) \in Between(x, y)
           /\ \A k \in Stores : Rw(x, y, k) \in Between(x, y)
BY DEF Between, Rw

LEMMA RenamingShape ==
    ASSUME Renaming, op.todo # <<>>
    PROVE  LET p == op.from
               q == op.to IN
           \/ op.mode = "do" /\ \E k \in Plain : Step = Move(p, q, k)
           \/ op.mode = "do" /\ \E k \in Stores : Step = Rw(p, q, k)
           \/ op.mode = "undo" /\ \E k \in Plain : Step = Move(q, p, k)
           \/ op.mode = "undo" /\ \E k \in Stores : Step = Rw(q, p, k)
<1>1. CASE RenamingForth
  <2>1. Step \in Between(op.from, op.to) /\ op.mode = "do"
    BY <1>1, SeqParts DEF Step, RenamingForth
  <2> QED BY <2>1, BetweenSteps
<1>2. CASE RenamingBack
  <2>1. Step \in Between(op.to, op.from) /\ op.mode = "undo"
    BY <1>2, SeqParts DEF Step, RenamingBack
  <2> QED BY <2>1, BetweenSteps
<1> QED BY <1>1, <1>2 DEF Renaming

\* The data of both paths still comes from the first.
LEMMA RenamingDataNext ==
    ASSUME RenamingData, Frame, op'.held = Absent,
           \A x \in Paths : x \notin {op.from, op.to} => dir'[x] = dir[x],
           \A k \in Kinds : dir'[op.from][k] # Absent =>
             op.snap[op.from][k] # Absent /\ dir'[op.from][k].repo = op.snap[op.from][k].repo,
           \A k \in Kinds : dir'[op.to][k] # Absent =>
             op.snap[op.from][k] # Absent /\ dir'[op.to][k].repo = op.snap[op.from][k].repo
    PROVE  RenamingData'
BY DEF RenamingData, Frame, Comes

LEMMA RenamingMoves ==
    ASSUME Disk, Renaming, DOMAIN op = Fields, StepDone
    PROVE  /\ Disk' /\ Renaming' /\ Frame
           /\ KeptIn(dir, hidden, trash) \subseteq KeptIn(dir', hidden', trash')
<1> DEFINE p == op.from
           q == op.to
<1>1. op.todo # <<>> /\ Step.do # "rewrite" /\ Feasible(Step) /\ Effect(Step) /\ Advance(Step) /\ dirty' = dirty
  BY DEF StepDone, Running
<1>2. /\ Frame /\ op'.mode = op.mode /\ op'.held = Absent
      /\ op'.todo = Tail(op.todo) /\ op'.done = Done(Step)
  BY <1>1, AdvanceIs
<1>3. /\ RenamingData /\ p \in Paths /\ q \in Paths /\ p # q /\ p[1] = q[1]
      /\ Comes(p, p) /\ Comes(q, p)
      /\ \A x \in Paths : x \notin {p, q} => dir[x] = op.snap[x]
  BY DEF Renaming, RenamingData
<1>4. \A x, y, k : Rw(x, y, k).do = "rewrite" /\ \A a, b, l : Rw(x, y, k) # Move(a, b, l)
  BY DEF Rw, Rewrite, Move
<1>5. CASE op.mode = "do"
  <2>1. PICK k \in Plain : Step = Move(p, q, k)
    BY <1>1, <1>4, <1>5, RenamingShape
  <2>2. /\ Disk' /\ UNCHANGED <<groups, control, hidden, trash>>
        /\ KeptIn(dir, hidden, trash) \subseteq KeptIn(dir', hidden', trash')
        /\ dir[p][k] # Absent /\ dir'[p][k] = Absent /\ dir'[q][k] = dir[p][k]
        /\ \A x \in Paths : x \notin {p, q} => dir'[x] = dir[x]
        /\ \A x \in Paths : \A l \in Kinds : l # k => dir'[x][l] = dir[x][l]
    BY <1>1, <1>3, <2>1, MoveEffect
  <2>3. RenamingForth
    BY <1>5 DEF Renaming, RenamingBack
  <2>4. op'.done = <<Move(q, p, k)>> \o op.done
    BY <1>2, <1>5, <2>1 DEF Done, Reversal, Move
  <2>5. Move(q, p, k) \in Between(q, p)
    BY BetweenSteps
  <2>6. /\ op.done \in Seq(Between(q, p)) /\ op.todo \in Seq(Between(p, q))
        /\ op'.done \in Seq(Between(q, p)) /\ op'.todo \in Seq(Between(p, q))
        /\ op'.done # <<>>
    <3>1. <<Move(q, p, k)>> \in Seq(Between(q, p))
      BY <2>5
    <3>2. op.done \in Seq(Between(q, p)) /\ op.todo \in Seq(Between(p, q))
      BY <2>3 DEF RenamingForth
    <3>3. op'.done \in Seq(Between(q, p))
      BY <2>4, <3>1, <3>2, SeqJoin
    <3>4. op'.done # <<>>
      BY <2>4, <2>5, <3>2, <3>3, HasCons, HasSome
    <3> QED BY <1>1, <1>2, <3>2, <3>3, <3>4, SeqParts
  <2>7. "issues" # k /\ k \in Kinds /\ "issues" \in Kinds /\ "git" \in Kinds
    BY PlainKinds
  <2>8. \A s : Has(op.done, s) => Has(op'.done, s)
    BY <2>4, <2>5, <2>6, HasCons
  <2>9. ASSUME dirty = 0, dir'[p]["issues"] # Absent
        PROVE  Has(op'.todo, Rw(p, q, "issues"))
    <3>1. Has(op.todo, Rw(p, q, "issues"))
      BY <1>3, <2>2, <2>3, <2>7, <2>9 DEF RenamingForth, Rw
    <3> QED BY <1>1, <1>2, <1>4, <2>1, <2>6, <3>1, HasTail DEF Step
  <2>10. ASSUME dirty = 0, dir'[q]["issues"] # Absent
         PROVE  Has(op'.done, Rw(q, p, "issues"))
    BY <1>3, <2>2, <2>3, <2>7, <2>8, <2>10 DEF RenamingForth, Rw
  <2>11. ASSUME dirty = 0
         PROVE  Has(op'.done, Move(q, p, "git")) /\ dir'[q]["git"] # Absent
    <3>1. CASE op.done = <<>>
      <4>1. k = "git"
        BY <1>1, <2>1, <2>3, <2>11, <3>1 DEF RenamingForth, Move
      <4> QED BY <2>2, <2>4, <2>5, <2>6, <4>1, HasCons
    <3>2. CASE op.done # <<>>
      <4>1. Has(op.done, Move(q, p, "git")) /\ dir[q]["git"] # Absent
        BY <2>3, <2>11, <3>2 DEF RenamingForth
      <4>2. dir'[q]["git"] # Absent
        BY <1>3, <2>2, <2>7, <4>1
      <4> QED BY <2>8, <4>1, <4>2
    <3> QED BY <3>1, <3>2
  <2>12. RenamingForth'
    BY <1>1, <1>2, <1>5, <2>6, <2>9, <2>10, <2>11 DEF RenamingForth, Frame, Rw
  <2>13. RenamingData'
    <3>1. ASSUME NEW l \in Kinds, dir'[p][l] # Absent
          PROVE  op.snap[p][l] # Absent /\ dir'[p][l].repo = op.snap[p][l].repo
      BY <1>3, <2>2, <3>1 DEF Comes
    <3>2. ASSUME NEW l \in Kinds, dir'[q][l] # Absent
          PROVE  op.snap[p][l] # Absent /\ dir'[q][l].repo = op.snap[p][l].repo
      BY <1>3, <2>2, <3>2 DEF Comes
    <3> QED BY <1>2, <1>3, <2>2, <3>1, <3>2, RenamingDataNext
  <2> QED BY <1>2, <2>2, <2>12, <2>13 DEF Renaming
<1>6. CASE op.mode = "undo"
  <2>1. PICK k \in Plain : Step = Move(q, p, k)
    BY <1>1, <1>4, <1>6, RenamingShape
  <2>2. /\ Disk' /\ UNCHANGED <<groups, control, hidden, trash>>
        /\ KeptIn(dir, hidden, trash) \subseteq KeptIn(dir', hidden', trash')
        /\ dir[q][k] # Absent /\ dir'[q][k] = Absent /\ dir'[p][k] = dir[q][k]
        /\ \A x \in Paths : x \notin {q, p} => dir'[x] = dir[x]
        /\ \A x \in Paths : \A l \in Kinds : l # k => dir'[x][l] = dir[x][l]
    BY <1>1, <1>3, <2>1, MoveEffect
  <2>3. RenamingBack
    BY <1>6 DEF Renaming, RenamingForth
  <2>4. op'.done = <<Move(p, q, k)>> \o op.done
    BY <1>2, <1>6, <2>1 DEF Done, Reversal, Move
  <2>5. Move(p, q, k) \in Between(p, q)
    BY BetweenSteps
  <2>6. /\ op.todo \in Seq(Between(q, p))
        /\ op'.done \in Seq(Between(p, q)) /\ op'.todo \in Seq(Between(q, p))
    <3>1. <<Move(p, q, k)>> \in Seq(Between(p, q))
      BY <2>5
    <3>2. op.done \in Seq(Between(p, q)) /\ op.todo \in Seq(Between(q, p))
      BY <2>3 DEF RenamingBack
    <3> QED BY <1>1, <1>2, <2>4, <3>1, <3>2, SeqParts, SeqJoin
  <2>7. "issues" # k /\ k \in Kinds /\ "issues" \in Kinds /\ "git" \in Kinds
    BY PlainKinds
  <2>8. ASSUME dirty = 0, dir'[p]["issues"] # Absent \/ Has(op'.todo, Rw(q, p, "issues"))
        PROVE  dir'[p]["git"] # Absent \/ Has(op'.todo, Move(q, p, "git"))
    <3>1. dir[p]["issues"] # Absent \/ Has(op.todo, Rw(q, p, "issues"))
      BY <1>1, <1>2, <1>3, <2>2, <2>6, <2>7, <2>8, TailHas
    <3>2. dir[p]["git"] # Absent \/ Has(op.todo, Move(q, p, "git"))
      BY <2>3, <2>8, <3>1 DEF RenamingBack, Rw
    <3>3. CASE k = "git"
      BY <2>2, <3>3
    <3>4. CASE k # "git"
      <4>1. Step # Move(q, p, "git")
        BY <2>1, <3>4 DEF Move
      <4>2. dir'[p]["git"] = dir[p]["git"]
        BY <1>3, <2>2, <2>7, <3>4
      <4> QED BY <1>1, <1>2, <2>6, <3>2, <4>1, <4>2, HasTail DEF Step
    <3> QED BY <3>3, <3>4
  <2>9. ASSUME dirty = 0, dir'[q]["issues"] # Absent
        PROVE  Has(op'.todo, Rw(q, p, "issues"))
    <3>1. Has(op.todo, Rw(q, p, "issues"))
      BY <1>3, <2>2, <2>3, <2>7, <2>9 DEF RenamingBack, Rw
    <3> QED BY <1>1, <1>2, <1>4, <2>1, <2>6, <3>1, HasTail DEF Step
  <2>10. RenamingBack'
    BY <1>1, <1>2, <1>6, <2>6, <2>8, <2>9 DEF RenamingBack, Frame, Rw
  <2>11. RenamingData'
    <3>1. ASSUME NEW l \in Kinds, dir'[p][l] # Absent
          PROVE  op.snap[p][l] # Absent /\ dir'[p][l].repo = op.snap[p][l].repo
      BY <1>3, <2>2, <3>1 DEF Comes
    <3>2. ASSUME NEW l \in Kinds, dir'[q][l] # Absent
          PROVE  op.snap[p][l] # Absent /\ dir'[q][l].repo = op.snap[p][l].repo
      BY <1>3, <2>2, <3>2 DEF Comes
    <3> QED BY <1>2, <1>3, <2>2, <3>1, <3>2, RenamingDataNext
  <2> QED BY <1>2, <2>2, <2>10, <2>11 DEF Renaming
<1> QED BY <1>5, <1>6 DEF Renaming, RenamingForth, RenamingBack

\* A failure turns round, or goes on with what is left to put back.
LEMMA RenamingTurns ==
    ASSUME Renaming, Frame, op.todo # <<>>, dirty' >= dirty, dirty \in Nat, dirty' \in Nat,
           op.mode = "do" => op'.mode = "undo" /\ op'.todo = op.done /\ op'.done = <<>>,
           op.mode # "do" => /\ op'.mode = op.mode /\ op'.todo = Tail(op.todo)
                             /\ op'.done = op.done /\ dirty' > 0,
           dirty' = 0 =>
             /\ dir'[op.from]["git"] = dir[op.from]["git"]
             /\ dir'[op.from]["issues"] # Absent => dir[op.from]["issues"] # Absent \/ Step # Move(op.from, op.to, "git")
             /\ dir'[op.to]["issues"] # Absent => dir[op.to]["issues"] # Absent
    PROVE  RenamingBack'
<1> DEFINE p == op.from
           q == op.to
<1>1. CASE op.mode = "do"
  <2>1. RenamingForth
    BY <1>1 DEF Renaming, RenamingBack
  <2>2. op.done \in Seq(Between(q, p)) /\ <<>> \in Seq(Between(p, q))
    BY <2>1 DEF RenamingForth
  <2>3. ASSUME dirty' = 0
        PROVE  /\ (dir'[p]["issues"] # Absent \/ Has(op.done, Rw(q, p, "issues")))
                    => dir'[p]["git"] # Absent \/ Has(op.done, Move(q, p, "git"))
               /\ dir'[q]["issues"] # Absent => Has(op.done, Rw(q, p, "issues"))
    <3>1. dirty = 0
      BY <2>3
    <3>2. CASE op.done = <<>>
      <4>1. \A s : ~Has(op.done, s)
        BY <2>2, <3>2, HasSome
      <4>2. Anchored(dir, p) /\ Step = Move(p, q, "git")
        BY <2>1, <3>1, <3>2 DEF RenamingForth
      <4> QED BY <2>1, <2>3, <3>1, <4>1, <4>2 DEF Anchored, RenamingForth, Rw
    <3>3. CASE op.done # <<>>
      BY <2>1, <2>3, <3>1, <3>3 DEF RenamingForth, Rw
    <3> QED BY <3>2, <3>3
  <2> QED BY <1>1, <2>2, <2>3 DEF RenamingBack, Frame, Rw
<1>2. CASE op.mode # "do"
  <2>1. op.todo \in Seq(Between(q, p)) /\ op.done \in Seq(Between(p, q)) /\ op.mode = "undo"
    BY <1>2 DEF Renaming, RenamingForth, RenamingBack
  <2>2. Tail(op.todo) \in Seq(Between(q, p))
    BY <2>1, SeqParts
  <2> QED BY <1>2, <2>1, <2>2 DEF RenamingBack, Frame
<1> QED BY <1>1, <1>2

LEMMA RenamingFails ==
    ASSUME Disk, Renaming, DOMAIN op = Fields, dirty \in 0 .. MaxDirty, op.todo # <<>>,
           op' = AfterFailure(Step), Soil(~Forward) \/ Soil(TRUE), UNCHANGED disk
    PROVE  Renaming' /\ Frame
<1>1. RenamingData /\ op.kind # "move"
  BY DEF Renaming, RenamingData
<1>2. /\ Frame /\ op'.held = Absent
      /\ op.mode = "do" => op'.mode = "undo" /\ op'.todo = op.done /\ op'.done = <<>>
      /\ op.mode # "do" => /\ op'.mode = op.mode /\ op'.todo = Tail(op.todo)
                           /\ op'.done = op.done
  BY <1>1, FailureIs
<1>3. dirty' >= dirty /\ dirty' \in Nat /\ dirty \in Nat /\ (op.mode # "do" => dirty' > 0)
  <2>1. Forward \in BOOLEAN /\ (op.mode # "do" => ~Forward)
    BY DEF Forward
  <2>2. dirty' \in 0 .. MaxDirty /\ dirty' >= dirty /\ (~Forward => dirty' > 0)
    BY <2>1, Soiled
  <2> QED BY <2>1, <2>2, LifecycleAssumption
<1>4. UNCHANGED dir
  BY DEF disk
<1>5. RenamingBack'
  BY <1>2, <1>3, <1>4, RenamingTurns
<1>6. RenamingData'
  BY <1>1, <1>2, <1>4, RenamingDataNext DEF RenamingData, Comes
<1> QED BY <1>2, <1>5, <1>6 DEF Renaming

LEMMA RenamingSkips ==
    ASSUME Disk, Renaming, DOMAIN op = Fields, RewriteNothing
    PROVE  Renaming' /\ Frame
<1> DEFINE p == op.from
           q == op.to
<1>1. /\ op.todo # <<>> /\ Step.do = "rewrite" /\ op.held = Absent
      /\ dir[Step.from][Step.k] = Absent
      /\ Step.from # Step.to => dir[Step.to][Step.k] = Absent
      /\ op' = [op EXCEPT !.todo = Tail(@)]
      /\ UNCHANGED <<dir, dirty>>
  BY DEF RewriteNothing, Running, disk
<1>2. /\ Frame /\ op'.mode = op.mode /\ op'.held = Absent
      /\ op'.todo = Tail(op.todo) /\ op'.done = op.done
  BY <1>1 DEF Frame, Fields
<1>3. \A x, y, k, l : Rw(x, y, k) # Move(x, y, l) /\ Move(x, y, l).do # "rewrite"
  BY DEF Rw, Rewrite, Move
<1>4. RenamingData'
  BY <1>1, <1>2, RenamingDataNext DEF Renaming, RenamingData, Comes
<1>5. CASE op.mode = "do"
  <2>1. PICK k \in Stores : Step = Rw(p, q, k)
    BY <1>1, <1>3, <1>5, RenamingShape
  <2>2. dir[p][k] = Absent
    BY <1>1, <2>1 DEF Rw, Rewrite
  <2>3. RenamingForth
    BY <1>5 DEF Renaming, RenamingBack
  <2>4. /\ op.todo \in Seq(Between(p, q)) /\ op.done \in Seq(Between(q, p))
        /\ Tail(op.todo) \in Seq(Between(p, q))
    BY <1>1, <2>3, SeqParts DEF RenamingForth
  <2>5. ASSUME dirty = 0, dir[p]["issues"] # Absent
        PROVE  Has(Tail(op.todo), Rw(p, q, "issues"))
    <3>1. Has(op.todo, Rw(p, q, "issues"))
      BY <2>3, <2>5 DEF RenamingForth, Rw
    <3>2. Step # Rw(p, q, "issues")
      BY <2>1, <2>2, <2>5 DEF Rw, Rewrite
    <3> QED BY <1>1, <2>4, <3>1, <3>2, HasTail DEF Step
  <2>6. dirty = 0 => op.done # <<>>
    BY <1>1, <1>3, <2>1, <2>3 DEF RenamingForth
  <2>7. RenamingForth'
    BY <1>1, <1>2, <1>5, <2>3, <2>4, <2>5, <2>6 DEF RenamingForth, Frame, Rw
  <2> QED BY <1>2, <1>4, <2>7 DEF Renaming
<1>6. CASE op.mode = "undo"
  <2>1. PICK k \in Stores : Step = Rw(q, p, k)
    BY <1>1, <1>3, <1>6, RenamingShape
  <2>2. dir[q][k] = Absent
    BY <1>1, <2>1 DEF Rw, Rewrite
  <2>3. RenamingBack
    BY <1>6 DEF Renaming, RenamingForth
  <2>4. /\ op.todo \in Seq(Between(q, p)) /\ op.done \in Seq(Between(p, q))
        /\ Tail(op.todo) \in Seq(Between(q, p))
    BY <1>1, <2>3, SeqParts DEF RenamingBack
  <2>5. ASSUME dirty = 0, dir[q]["issues"] # Absent
        PROVE  Has(Tail(op.todo), Rw(q, p, "issues"))
    <3>1. Has(op.todo, Rw(q, p, "issues"))
      BY <2>3, <2>5 DEF RenamingBack, Rw
    <3>2. Step # Rw(q, p, "issues")
      BY <2>1, <2>2, <2>5 DEF Rw, Rewrite
    <3> QED BY <1>1, <2>4, <3>1, <3>2, HasTail DEF Step
  <2>6. ASSUME dirty = 0, dir[p]["issues"] # Absent \/ Has(Tail(op.todo), Rw(q, p, "issues"))
        PROVE  dir[p]["git"] # Absent \/ Has(Tail(op.todo), Move(q, p, "git"))
    <3>1. dir[p]["issues"] # Absent \/ Has(op.todo, Rw(q, p, "issues"))
      BY <1>1, <2>4, <2>6, TailHas
    <3>2. dir[p]["git"] # Absent \/ Has(op.todo, Move(q, p, "git"))
      BY <2>3, <2>6, <3>1 DEF RenamingBack, Rw
    <3>3. Step # Move(q, p, "git")
      BY <1>3, <2>1
    <3> QED BY <1>1, <2>4, <3>2, <3>3, HasTail DEF Step
  <2>7. RenamingBack'
    BY <1>1, <1>2, <1>6, <2>4, <2>5, <2>6 DEF RenamingBack, Frame, Rw
  <2> QED BY <1>2, <1>4, <2>7 DEF Renaming
<1> QED BY <1>5, <1>6 DEF Renaming, RenamingForth, RenamingBack

LEMMA RenamingHides ==
    ASSUME Disk, Renaming, DOMAIN op = Fields, Hide
    PROVE  /\ Disk' /\ Renaming' /\ Frame
           /\ KeptIn(dir, hidden, trash) \subseteq KeptIn(dir', hidden', trash')
<1> DEFINE p == op.from
           q == op.to
<1>1. /\ op.todo # <<>> /\ Step.do = "rewrite" /\ op.held = Absent
      /\ dir[Step.from][Step.k] # Absent
      /\ Step.from # Step.to => dir[Step.to][Step.k] = Absent
      /\ dir' = [dir EXCEPT ![Step.from][Step.k] = Absent]
      /\ hidden' = [hidden EXCEPT ![Step.from[1]] =
                      @ \cup {[repo |-> dir[Step.from][Step.k].repo, k |-> Step.k]}]
      /\ op' = [op EXCEPT !.held = dir[Step.from][Step.k]]
      /\ UNCHANGED <<groups, control, trash, dirty>>
  BY DEF Hide, Running
<1>2. /\ Frame /\ op'.mode = op.mode /\ op'.held = dir[Step.from][Step.k]
      /\ op'.todo = op.todo /\ op'.done = op.done
  BY <1>1 DEF Frame, Fields
<1>3. /\ p \in Paths /\ q \in Paths /\ p # q /\ p[1] = q[1]
      /\ Comes(p, p) /\ Comes(q, p)
      /\ \A x \in Paths : x \notin {p, q} => dir[x] = op.snap[x]
  BY DEF Renaming, RenamingData
<1>4. PICK k \in Stores, x \in {p, q}, y \in {p, q} :
        x # y /\ Step = Rw(x, y, k)
  <2>1. \A a, b, l : Move(a, b, l).do # "rewrite"
    BY DEF Move
  <2> QED BY <1>1, <1>3, <2>1, RenamingShape
<1>5. Step.from = x /\ Step.to = y /\ Step.k = k
  BY <1>4 DEF Rw, Rewrite
<1>6. x \in Paths /\ y \in Paths /\ k \in Kinds /\ x[1] = p[1]
  BY <1>3, PlainKinds
<1>7. /\ Disk' /\ dir'[x][k] = Absent /\ Same(x, k)
      /\ KeptIn(dir, hidden, trash) \subseteq KeptIn(dir', hidden', trash')
      /\ [repo |-> dir[x][k].repo, k |-> k] \in hidden'[x[1]]
  <2>1. /\ dir[x][k] # Absent /\ dir' = With(dir, x, k, Absent)
        /\ hidden' = [hidden EXCEPT ![x[1]] = @ \cup {[repo |-> dir[x][k].repo, k |-> k]}]
    BY <1>1, <1>5 DEF With
  <2> QED BY <1>1, <1>6, <2>1, HideEffect
<1>8. /\ dir'[y][k] = Absent
      /\ Step' = Step
  <2>1. Step' = Step
    BY <1>2 DEF Step
  <2>2. dir[y][k] = Absent /\ y # x
    BY <1>1, <1>4, <1>5
  <2> QED BY <1>6, <1>7, <2>1, <2>2 DEF Same
<1>9. /\ op.snap[p][k] # Absent /\ dir[x][k].repo = op.snap[p][k].repo
      /\ Fits(k, dir[x][k])
  BY <1>1, <1>3, <1>5, <1>6, LayoutAt DEF Comes, Disk
<1>10. Aside(op.snap[p][Step.k])'
  BY <1>1, <1>2, <1>5, <1>7, <1>8, <1>9 DEF Aside, Frame
<1>11. \A z \in Paths : \A l \in Kinds : dir'[z][l] # Absent => dir'[z][l] = dir[z][l]
  BY <1>6, <1>7 DEF Same
<1>12. \A z \in Paths : dir'[z]["git"] = dir[z]["git"]
  BY <1>6, <1>7, PlainKinds DEF Same
<1>13. RenamingData'
  <2>1. \A z \in Paths : z \notin {p, q} => dir'[z] = op.snap[z]
    BY <1>3, <1>4, <1>6, <1>7 DEF Same
  <2>2. Comes(p, p)' /\ Comes(q, p)'
    BY <1>2, <1>3, <1>11 DEF Comes, Frame
  <2> QED BY <1>2, <1>3, <1>10, <2>1, <2>2 DEF Renaming, RenamingData, Frame
<1>14. RenamingForth => RenamingForth'
  BY <1>1, <1>2, <1>3, <1>8, <1>11, <1>12, PlainKinds DEF RenamingForth, Frame, Anchored
<1>15. RenamingBack => RenamingBack'
  BY <1>1, <1>2, <1>3, <1>11, <1>12, PlainKinds DEF RenamingBack, Frame
<1> QED BY <1>2, <1>7, <1>13, <1>14, <1>15 DEF Renaming

LEMMA RenamingPublishes ==
    ASSUME Disk, Renaming, DOMAIN op = Fields, Publish
    PROVE  /\ Disk' /\ Renaming' /\ Frame
           /\ KeptIn(dir, hidden, trash) \subseteq KeptIn(dir', hidden', trash')
<1> DEFINE p == op.from
           q == op.to
<1>1. /\ op.todo # <<>> /\ op.held # Absent
      /\ dir' = [dir EXCEPT ![Step.to][Step.k] = Data(op.held.repo, Step.k, Step.new)]
      /\ hidden' = [hidden EXCEPT ![Step.from[1]] = @ \ {[repo |-> op.held.repo, k |-> Step.k]}]
      /\ Advance(Step)
      /\ UNCHANGED <<groups, control, trash, dirty>>
  BY DEF Publish, Running, Unhide
<1>2. /\ Frame /\ op'.mode = op.mode /\ op'.held = Absent
      /\ op'.todo = Tail(op.todo) /\ op'.done = Done(Step)
  BY <1>1, AdvanceIs
<1>3. /\ RenamingData /\ p \in Paths /\ q \in Paths /\ p # q /\ p[1] = q[1]
      /\ Comes(p, p) /\ Comes(q, p)
      /\ Aside(op.snap[p][Step.k])
  BY <1>1 DEF Renaming, RenamingData
<1>4. PICK k \in Stores : \E x \in {p, q} : \E y \in {p, q} :
        /\ x # y /\ Step = Rw(x, y, k)
        /\ op.mode = "do" => x = p
        /\ op.mode # "do" => x = q
  <2>1. \A a, b, l : Move(a, b, l).do # "rewrite"
    BY DEF Move
  <2>2. Step.do = "rewrite"
    BY <1>3 DEF Aside
  <2> QED BY <1>1, <1>3, <2>1, <2>2, RenamingShape
<1>5. PICK x \in {p, q}, y \in {p, q} :
        /\ x # y /\ Step = Rw(x, y, k)
        /\ op.mode = "do" => x = p
        /\ op.mode # "do" => x = q
  BY <1>4
<1>6. Step.from = x /\ Step.to = y /\ Step.k = k /\ Step.new = y /\ Step.do = "rewrite"
      /\ Reversal(Step) = <<Rw(y, x, k)>>
  BY <1>5 DEF Rw, Rewrite, Reversal
<1>7. x \in Paths /\ y \in Paths /\ k \in Kinds /\ x[1] = p[1] /\ y[1] = x[1]
  BY <1>3, PlainKinds
<1> DEFINE c == Data(op.held.repo, k, y)
<1>8. /\ Fits(k, c) /\ c # Absent /\ c.repo = op.held.repo
      /\ dir[y][k] = Absent /\ dir[x][k] = Absent
      /\ [repo |-> op.held.repo, k |-> k] \in hidden[y[1]]
      /\ op.snap[p][k] # Absent /\ op.held.repo = op.snap[p][k].repo
  <2>1. Fits(k, op.held)
    BY <1>3, <1>6 DEF Aside
  <2>2. op.held.repo \in Repositories
    BY <1>1, <1>7, <2>1, Recorded
  <2> QED BY <1>3, <1>6, <1>7, <2>2, DataFits DEF Aside
<1>9. /\ Disk' /\ dir'[y][k] = c /\ Same(y, k)
      /\ KeptIn(dir, hidden, trash) \subseteq KeptIn(dir', hidden', trash')
  <2>1. /\ dir' = With(dir, y, k, c)
        /\ hidden' = [hidden EXCEPT ![y[1]] = @ \ {[repo |-> c.repo, k |-> k]}]
    BY <1>1, <1>6, <1>7, <1>8 DEF With
  <2> HIDE DEF c
  <2> QED BY <1>1, <1>7, <1>8, <2>1, UnhideEffect
<1> HIDE DEF c
<1>10. \A z \in Paths : dir'[z]["git"] = dir[z]["git"]
  BY <1>7, <1>9, PlainKinds DEF Same
<1>11. RenamingData'
  <2>1. \A z \in Paths : z \notin {p, q} => dir'[z] = dir[z]
    BY <1>7, <1>9 DEF Same
  <2>2. ASSUME NEW z \in {p, q}, NEW l \in Kinds, dir'[z][l] # Absent
        PROVE  op.snap[p][l] # Absent /\ dir'[z][l].repo = op.snap[p][l].repo
    <3>1. CASE z = y /\ l = k
      BY <1>8, <1>9, <3>1
    <3>2. CASE ~(z = y /\ l = k)
      BY <1>3, <1>9, <2>2, <3>2 DEF Same, Comes
    <3> QED BY <3>1, <3>2
  <2> QED BY <1>2, <1>3, <2>1, <2>2, RenamingDataNext
<1>12. op'.done = <<Rw(y, x, k)>> \o op.done
  BY <1>2, <1>6 DEF Done
<1>13. \A a, b, l, d, e, m : Rw(a, b, l) # Move(d, e, m)
  BY DEF Rw, Rewrite, Move
<1>14. CASE op.mode = "do"
  <2>1. RenamingForth /\ x = p /\ y = q
    BY <1>5, <1>14 DEF Renaming, RenamingBack
  <2>2. /\ op.todo \in Seq(Between(p, q)) /\ op.done \in Seq(Between(q, p))
        /\ Rw(q, p, k) \in Between(q, p)
    BY <2>1, BetweenSteps DEF RenamingForth
  <2>3. Tail(op.todo) \in Seq(Between(p, q)) /\ op'.done \in Seq(Between(q, p))
    <3>1. <<Rw(q, p, k)>> \in Seq(Between(q, p))
      BY <2>2
    <3> QED BY <1>1, <1>12, <2>1, <2>2, <3>1, SeqParts, SeqJoin
  <2>4. \A s : Has(op.done, s) => Has(op'.done, s)
    BY <1>12, <2>1, <2>2, HasCons
  <2>5. Has(op'.done, Rw(q, p, k)) /\ op'.done # <<>>
    BY <1>12, <2>1, <2>2, <2>3, HasCons, HasSome
  <2>6. ASSUME dirty = 0, dir'[p]["issues"] # Absent
        PROVE  Has(Tail(op.todo), Rw(p, q, "issues"))
    <3>1. dir[p]["issues"] # Absent /\ k # "issues"
      BY <1>3, <1>8, <1>9, <2>1, <2>6, PlainKinds DEF Same
    <3>2. Has(op.todo, Rw(p, q, "issues"))
      BY <2>1, <2>6, <3>1 DEF RenamingForth, Rw
    <3>3. Step # Rw(p, q, "issues")
      BY <1>5, <3>1 DEF Rw, Rewrite
    <3> QED BY <1>1, <2>2, <3>2, <3>3, HasTail DEF Step
  <2>7. ASSUME dirty = 0, dir'[q]["issues"] # Absent
        PROVE  Has(op'.done, Rw(q, p, "issues"))
    <3>1. CASE k = "issues"
      BY <2>5, <3>1
    <3>2. CASE k # "issues"
      <4>1. dir[q]["issues"] # Absent
        BY <1>3, <1>9, <2>1, <2>7, <3>2, PlainKinds DEF Same
      <4> QED BY <2>1, <2>4, <2>7, <4>1 DEF RenamingForth, Rw
    <3> QED BY <3>1, <3>2
  <2>8. ASSUME dirty = 0
        PROVE  Has(op'.done, Move(q, p, "git")) /\ dir'[q]["git"] # Absent
    <3>1. op.done # <<>>
      BY <1>1, <1>5, <1>13, <2>1, <2>8 DEF RenamingForth
    <3>2. Has(op.done, Move(q, p, "git")) /\ dir[q]["git"] # Absent
      BY <2>1, <2>8, <3>1 DEF RenamingForth
    <3> QED BY <1>3, <1>10, <2>4, <3>2
  <2>9. RenamingForth'
    BY <1>1, <1>2, <1>14, <2>3, <2>5, <2>6, <2>7, <2>8 DEF RenamingForth, Frame, Rw
  <2> QED BY <1>2, <1>9, <1>11, <2>9 DEF Renaming
<1>15. CASE op.mode # "do"
  <2>1. RenamingBack /\ x = q /\ y = p
    BY <1>5, <1>15 DEF Renaming, RenamingForth
  <2>2. /\ op.todo \in Seq(Between(q, p)) /\ op.done \in Seq(Between(p, q))
        /\ Rw(p, q, k) \in Between(p, q)
    BY <2>1, BetweenSteps DEF RenamingBack
  <2>3. Tail(op.todo) \in Seq(Between(q, p)) /\ op'.done \in Seq(Between(p, q))
    <3>1. <<Rw(p, q, k)>> \in Seq(Between(p, q))
      BY <2>2
    <3> QED BY <1>1, <1>12, <2>1, <2>2, <3>1, SeqParts, SeqJoin
  <2>4. ASSUME dirty = 0, dir'[p]["issues"] # Absent \/ Has(Tail(op.todo), Rw(q, p, "issues"))
        PROVE  dir'[p]["git"] # Absent \/ Has(Tail(op.todo), Move(q, p, "git"))
    <3>1. dir[p]["issues"] # Absent \/ Has(op.todo, Rw(q, p, "issues"))
      <4>1. CASE k = "issues"
        BY <1>1, <1>5, <2>1, <2>2, <4>1, HeadHas DEF Step
      <4>2. CASE k # "issues"
        BY <1>1, <1>3, <1>9, <2>1, <2>2, <2>4, <4>2, TailHas, PlainKinds DEF Same
      <4> QED BY <4>1, <4>2
    <3>2. dir[p]["git"] # Absent \/ Has(op.todo, Move(q, p, "git"))
      BY <2>1, <2>4, <3>1 DEF RenamingBack, Rw
    <3>3. Step # Move(q, p, "git")
      BY <1>5, <1>13
    <3> QED BY <1>1, <1>3, <1>10, <2>2, <3>2, <3>3, HasTail DEF Step
  <2>5. ASSUME dirty = 0, dir'[q]["issues"] # Absent
        PROVE  Has(Tail(op.todo), Rw(q, p, "issues"))
    <3>1. dir[q]["issues"] # Absent /\ k # "issues"
      BY <1>3, <1>8, <1>9, <2>1, <2>5, PlainKinds DEF Same
    <3>2. Has(op.todo, Rw(q, p, "issues"))
      BY <2>1, <2>5, <3>1 DEF RenamingBack, Rw
    <3>3. Step # Rw(q, p, "issues")
      BY <1>5, <3>1 DEF Rw, Rewrite
    <3> QED BY <1>1, <2>2, <3>2, <3>3, HasTail DEF Step
  <2>6. RenamingBack'
    BY <1>1, <1>2, <1>15, <2>1, <2>3, <2>4, <2>5 DEF RenamingBack, Frame, Rw
  <2> QED BY <1>2, <1>9, <1>11, <2>6 DEF Renaming
<1> QED BY <1>14, <1>15

LEMMA RenamingPublishFails ==
    ASSUME Disk, Renaming, DOMAIN op = Fields, dirty \in 0 .. MaxDirty, PublishFails
    PROVE  /\ Disk' /\ Renaming' /\ Frame
           /\ KeptIn(dir, hidden, trash) \subseteq KeptIn(dir', hidden', trash')
<1> DEFINE p == op.from
           q == op.to
<1>1. /\ op.todo # <<>> /\ op.held # Absent
      /\ dir' = [dir EXCEPT ![Step.from][Step.k] = op.held]
      /\ hidden' = [hidden EXCEPT ![Step.from[1]] = @ \ {[repo |-> op.held.repo, k |-> Step.k]}]
      /\ op' = AfterFailure(Step)
      /\ Soil(~Forward)
      /\ UNCHANGED <<groups, control, trash>>
  BY DEF PublishFails, Running, Unhide
<1>2. /\ RenamingData /\ p \in Paths /\ q \in Paths /\ p # q /\ p[1] = q[1]
      /\ Comes(p, p) /\ Comes(q, p) /\ op.kind # "move"
      /\ Aside(op.snap[p][Step.k])
  BY <1>1 DEF Renaming, RenamingData
<1>3. /\ Frame /\ op'.held = Absent
      /\ op.mode = "do" => op'.mode = "undo" /\ op'.todo = op.done /\ op'.done = <<>>
      /\ op.mode # "do" => /\ op'.mode = op.mode /\ op'.todo = Tail(op.todo)
                           /\ op'.done = op.done
  BY <1>1, <1>2, FailureIs
<1>4. dirty' >= dirty /\ dirty' \in Nat /\ dirty \in Nat /\ (op.mode # "do" => dirty' > 0)
  <2>1. Forward \in BOOLEAN /\ (op.mode # "do" => ~Forward)
    BY DEF Forward
  <2>2. dirty' \in 0 .. MaxDirty /\ dirty' >= dirty /\ (~Forward => dirty' > 0)
    BY <1>1, <2>1, Soiled
  <2> QED BY <2>1, <2>2, LifecycleAssumption
<1>5. PICK k \in Stores : \E x \in {p, q} : \E y \in {p, q} :
        /\ x # y /\ Step = Rw(x, y, k)
        /\ op.mode = "do" => x = p
  <2>1. \A a, b, l : Move(a, b, l).do # "rewrite"
    BY DEF Move
  <2>2. Step.do = "rewrite"
    BY <1>2 DEF Aside
  <2> QED BY <1>1, <1>2, <2>1, <2>2, RenamingShape
<1>6. PICK x \in {p, q}, y \in {p, q} :
        /\ x # y /\ Step = Rw(x, y, k)
        /\ op.mode = "do" => x = p
  BY <1>5
<1>7. Step.from = x /\ Step.k = k
  BY <1>6 DEF Rw, Rewrite
<1>8. x \in Paths /\ k \in Kinds /\ x[1] = p[1]
  BY <1>2, PlainKinds
<1>9. /\ Disk' /\ dir'[x][k] = op.held /\ Same(x, k)
      /\ KeptIn(dir, hidden, trash) \subseteq KeptIn(dir', hidden', trash')
  <2>1. /\ dir' = With(dir, x, k, op.held)
        /\ hidden' = [hidden EXCEPT ![x[1]] = @ \ {[repo |-> op.held.repo, k |-> k]}]
    BY <1>1, <1>7 DEF With
  <2>2. /\ Fits(k, op.held) /\ dir[x][k] = Absent
        /\ [repo |-> op.held.repo, k |-> k] \in hidden[x[1]]
    BY <1>2, <1>7 DEF Aside
  <2> QED BY <1>1, <1>8, <2>1, <2>2, UnhideEffect
<1>10. RenamingData'
  <2>1. \A z \in Paths : z \notin {p, q} => dir'[z] = dir[z]
    BY <1>8, <1>9 DEF Same
  <2>2. ASSUME NEW z \in {p, q}, NEW l \in Kinds, dir'[z][l] # Absent
        PROVE  op.snap[p][l] # Absent /\ dir'[z][l].repo = op.snap[p][l].repo
    <3>1. CASE z = x /\ l = k
      BY <1>2, <1>7, <1>9, <3>1 DEF Aside
    <3>2. CASE ~(z = x /\ l = k)
      BY <1>2, <1>9, <2>2, <3>2 DEF Same, Comes
    <3> QED BY <3>1, <3>2
  <2> QED BY <1>2, <1>3, <2>1, <2>2, RenamingDataNext
<1>11. RenamingBack'
  <2>1. dir'[p]["git"] = dir[p]["git"]
    BY <1>2, <1>9, PlainKinds DEF Same
  <2>2. Step # Move(p, q, "git")
    BY <1>6 DEF Rw, Rewrite, Move
  <2>3. ASSUME dirty' = 0
        PROVE  dir'[q]["issues"] = dir[q]["issues"]
    BY <1>2, <1>4, <1>6, <1>9, <2>3, PlainKinds DEF Same
  <2> QED BY <1>1, <1>3, <1>4, <2>1, <2>2, <2>3, RenamingTurns
<1> QED BY <1>3, <1>9, <1>10, <1>11 DEF Renaming

-----------------------------------------------------------------------------
(* A creation or an import. *)

\* Nothing is lost, but for what the operation itself has made.
Conserved ==
  \A d \in KeptIn(dir, hidden, trash) :
    \/ d \in KeptIn(dir', hidden', trash')
    \/ /\ op.kind \in {"create", "import"}
       /\ \A p \in Paths : op.snap[p][d.k] # Absent => op.snap[p][d.k].repo # d.repo

\* Data of the repository itself is made, or data is removed.
LEMMA CreatingDataNext ==
    ASSUME NEW r, CreatingData(r), Frame, op'.held = Absent, dirty \in Nat, dirty' \in Nat, dirty' >= dirty,
           UNCHANGED <<groups, control, used>>, staged' \subseteq staged,
           \A x \in Paths : x # op.from => dir'[x] = dir[x],
           \A k \in Kinds : \/ dir'[op.from][k] = dir[op.from][k]
                            \/ dir'[op.from][k] = Absent
                            \/ k # "issues" /\ dir'[op.from][k].repo = r
    PROVE  CreatingData(r)'
<1>1. "issues" \in Kinds
  BY PlainKinds
<1>2. dirty' = 0 => dir'[op.from]["issues"] = Absent
  BY <1>1 DEF CreatingData
<1>3. ASSUME NEW k \in Kinds, dir'[op.from][k] # Absent
      PROVE  \/ dir'[op.from][k].repo = r
             \/ /\ dir'[op.from][k] = op.snap[op.from][k]
                /\ dirty' > 0 /\ k = "issues" /\ r \in Importable
  BY <1>3 DEF CreatingData
<1>4. Live(op.from[1])'
  BY DEF CreatingData, Live, Frame
<1>5. \A x \in Paths : x # op.from => dir'[x] = op.snap[x]
  BY DEF CreatingData
<1>6. r \in used /\ \A i \in staged' : i.repo # r
  BY DEF CreatingData
<1> QED BY <1>2, <1>3, <1>4, <1>5, <1>6 DEF CreatingData, Frame

LEMMA CreatingStep ==
    ASSUME Disk, Creating, DOMAIN op = Fields, dirty \in Nat, used \subseteq Repositories, StepDone
    PROVE  Disk' /\ Creating' /\ Frame /\ Conserved
<1>1. /\ op.todo # <<>> /\ Feasible(Step) /\ Effect(Step) /\ Advance(Step)
      /\ UNCHANGED <<staged, used, dirty>>
  BY DEF StepDone, Running
<1>2. /\ Frame /\ op'.mode = op.mode /\ op'.held = Absent
      /\ op'.todo = Tail(op.todo) /\ op'.done = Done(Step)
  BY <1>1, AdvanceIs
<1>3. PICK r \in used : CreatingData(r) /\ CreatingSteps(r)
  BY DEF Creating
<1> DEFINE p == op.from
<1>4. p \in Paths /\ Live(p[1]) /\ r \in Repositories /\ "git" \in Kinds /\ "lfs" \in Kinds /\ "issues" \in Kinds
  BY <1>3 DEF CreatingData, Kinds, Catalog!Kinds
<1>5. \A k, c : /\ Reversal(Make(p, k, c)) = <<Discard(p, k)>> /\ Reversal(Discard(p, k)) = <<>>
                /\ Done(Make(p, k, c)) = <<Discard(p, k)>> \o op.done
                /\ Done(Discard(p, k)) = <<>> \o op.done
  BY DEF Reversal, Make, Discard, Done
<1>6. CASE /\ op.mode = "do" /\ op.done = <<>>
           /\ op.todo = <<Make(p, "git", r), Make(p, "lfs", r)>>
           /\ dir[p]["git"] = Absent /\ dir[p]["lfs"] = Absent
  <2>1. Step = Make(p, "git", r) /\ op'.todo = <<Make(p, "lfs", r)>>
    BY <1>2, <1>6 DEF Step
  <2>2. /\ Disk' /\ UNCHANGED <<groups, control, hidden, trash>>
        /\ KeptIn(dir, hidden, trash) \subseteq KeptIn(dir', hidden', trash')
        /\ dir'[p]["git"] # Absent /\ dir'[p]["git"].repo = r /\ Same(p, "git")
    BY <1>1, <1>4, <1>6, <2>1, MakeEffect
  <2>3. op'.done = <<Discard(p, "git")>>
    BY <1>2, <1>5, <1>6, <2>1
  <2>4. CreatingData(r)'
    BY <1>1, <1>2, <1>3, <1>4, <2>2, CreatingDataNext DEF Same
  <2>5. CreatingSteps(r)'
    BY <1>2, <1>4, <1>6, <2>1, <2>2, <2>3 DEF CreatingSteps, Same, Frame
  <2> QED BY <1>1, <1>2, <2>2, <2>4, <2>5 DEF Creating, Conserved
<1>7. CASE /\ op.mode = "do" /\ op.done = <<Discard(p, "git")>>
           /\ op.todo = <<Make(p, "lfs", r)>>
           /\ dir[p]["lfs"] = Absent
  <2>1. Step = Make(p, "lfs", r) /\ op'.todo = <<>>
    BY <1>2, <1>7 DEF Step
  <2>2. /\ Disk' /\ UNCHANGED <<groups, control, hidden, trash>>
        /\ KeptIn(dir, hidden, trash) \subseteq KeptIn(dir', hidden', trash')
        /\ dir'[p]["lfs"] # Absent /\ dir'[p]["lfs"].repo = r /\ Same(p, "lfs")
    BY <1>1, <1>4, <1>7, <2>1, MakeEffect
  <2>3. CreatingData(r)'
    BY <1>1, <1>2, <1>3, <1>4, <2>2, CreatingDataNext DEF Same
  <2>4. CreatingSteps(r)'
    BY <2>1 DEF CreatingSteps
  <2> QED BY <1>1, <1>2, <2>2, <2>3, <2>4 DEF Creating, Conserved
<1>8. CASE op.mode = "undo" /\ op.todo = <<Discard(p, "git")>>
  <2>1. Step = Discard(p, "git") /\ op'.todo = <<>>
    BY <1>2, <1>8 DEF Step
  <2>2. /\ Disk' /\ UNCHANGED <<groups, control, hidden, trash>>
        /\ \A d \in KeptIn(dir, hidden, trash) :
             \/ d \in KeptIn(dir', hidden', trash')
             \/ dir[p]["git"] # Absent /\ d = [repo |-> dir[p]["git"].repo, k |-> "git"]
        /\ dir'[p]["git"] = Absent /\ Same(p, "git")
    BY <1>1, <1>4, <2>1, DiscardEffect
  <2>3. CreatingData(r)'
    BY <1>1, <1>2, <1>3, <1>4, <2>2, CreatingDataNext DEF Same
  <2>4. CreatingSteps(r)'
    BY <2>1 DEF CreatingSteps
  <2>5. Conserved
    <3> SUFFICES ASSUME NEW d \in KeptIn(dir, hidden, trash), d \notin KeptIn(dir', hidden', trash')
                 PROVE  /\ op.kind \in {"create", "import"}
                        /\ \A x \in Paths : op.snap[x][d.k] # Absent => op.snap[x][d.k].repo # d.repo
      BY DEF Conserved
    <3>1. dir[p]["git"] # Absent /\ d = [repo |-> dir[p]["git"].repo, k |-> "git"]
      BY <2>2
    <3>2. d.repo = r /\ d.k = "git"
      BY <1>3, <1>4, <3>1 DEF CreatingData
    <3>3. ~Shown(op.snap, r) /\ op.kind \in {"create", "import"}
      BY <1>3 DEF CreatingData
    <3> QED BY <1>4, <3>2, <3>3 DEF Shown
  <2> QED BY <1>1, <1>2, <2>2, <2>3, <2>4, <2>5 DEF Creating
<1> QED BY <1>1, <1>3, <1>6, <1>7, <1>8 DEF CreatingSteps

LEMMA CreatingFails ==
    ASSUME Disk, Creating, DOMAIN op = Fields, dirty \in 0 .. MaxDirty, op.todo # <<>>,
           op' = AfterFailure(Step), Soil(~Forward), UNCHANGED <<disk, staged, used>>
    PROVE  Creating' /\ Frame
<1>1. PICK r \in used : CreatingData(r) /\ CreatingSteps(r)
  BY DEF Creating
<1>2. /\ Frame /\ op'.held = Absent
      /\ op.mode = "do" => op'.mode = "undo" /\ op'.todo = op.done /\ op'.done = <<>>
      /\ op.mode # "do" => /\ op'.mode = op.mode /\ op'.todo = Tail(op.todo)
                           /\ op'.done = op.done
  BY <1>1, FailureIs DEF CreatingData
<1>3. dirty' >= dirty /\ dirty' \in Nat /\ dirty \in Nat
  <2>1. (~Forward) \in BOOLEAN
    BY DEF Forward
  <2>2. dirty' \in 0 .. MaxDirty /\ dirty' >= dirty
    BY <2>1, Soiled
  <2> QED BY <2>2, LifecycleAssumption
<1>4. UNCHANGED <<dir, groups, control>>
  BY DEF disk
<1>5. CreatingData(r)'
  BY <1>1, <1>2, <1>3, <1>4, CreatingDataNext
<1>6. CreatingSteps(r)'
  <2>1. CASE op.mode = "do" /\ op.done = <<>>
    BY <1>2, <2>1 DEF CreatingSteps
  <2>2. CASE op.mode = "do" /\ op.done = <<Discard(op.from, "git")>>
    <3>1. op'.todo = <<Discard(op'.from, "git")>> /\ op'.mode = "undo"
      BY <1>2, <2>2 DEF Frame
    <3> QED BY <3>1 DEF CreatingSteps
  <2>3. CASE op.mode = "undo" /\ op.todo = <<Discard(op.from, "git")>>
    <3>1. op'.todo = <<>>
      BY <1>2, <2>3
    <3> QED BY <3>1 DEF CreatingSteps
  <2> QED BY <1>1, <2>1, <2>2, <2>3 DEF CreatingSteps
<1> QED BY <1>1, <1>2, <1>5, <1>6 DEF Creating

LEMMA CreatingLeaves ==
    ASSUME Disk, Creating, DOMAIN op = Fields, dirty \in Nat, used \subseteq Repositories, InitLeavesDirectory
    PROVE  Disk' /\ Creating' /\ Frame /\ Conserved
<1> DEFINE p == op.from
<1>1. /\ op.todo # <<>> /\ Step.k = "git" /\ Step.do = "make" /\ Effect(Step)
      /\ op' = [op EXCEPT !.todo = <<>>] /\ UNCHANGED <<staged, used, dirty>>
  BY DEF InitLeavesDirectory, Running
<1>2. Frame /\ op'.held = op.held /\ op'.todo = <<>>
  BY <1>1 DEF Frame, Fields
<1>3. PICK r \in used : CreatingData(r) /\ CreatingSteps(r)
  BY DEF Creating
<1>4. p \in Paths /\ Live(p[1]) /\ r \in Repositories /\ "git" \in Kinds
  BY <1>3 DEF CreatingData, Kinds, Catalog!Kinds
<1>5. Step = Make(p, "git", r) /\ dir[p]["git"] = Absent
  <2>1. Make(p, "lfs", r).k # "git" /\ Discard(p, "git").do # "make"
    BY DEF Make, Discard
  <2> QED BY <1>1, <1>3, <2>1 DEF CreatingSteps, Step
<1>6. /\ Disk' /\ UNCHANGED <<groups, control, hidden, trash>>
      /\ KeptIn(dir, hidden, trash) \subseteq KeptIn(dir', hidden', trash')
      /\ dir'[p]["git"] # Absent /\ dir'[p]["git"].repo = r /\ Same(p, "git")
  BY <1>1, <1>4, <1>5, MakeEffect
<1>7. op'.held = Absent
  BY <1>2, <1>3 DEF CreatingData
<1>8. CreatingData(r)'
  BY <1>1, <1>2, <1>3, <1>4, <1>6, <1>7, CreatingDataNext DEF Same
<1>9. CreatingSteps(r)'
  BY <1>2 DEF CreatingSteps
<1> QED BY <1>1, <1>2, <1>3, <1>6, <1>8, <1>9 DEF Creating, Conserved

-----------------------------------------------------------------------------
(* A new group. *)

LEMMA GroupingStep ==
    ASSUME Disk, Grouping, DOMAIN op = Fields, StepDone
    PROVE  /\ Disk' /\ Grouping' /\ Frame
           /\ KeptIn(dir, hidden, trash) \subseteq KeptIn(dir', hidden', trash')
<1> DEFINE g == op.to
<1>1. op.todo # <<>> /\ Effect(Step) /\ Advance(Step)
  BY DEF StepDone, Running
<1>2. /\ Frame /\ op'.mode = op.mode /\ op'.held = Absent
      /\ op'.todo = Tail(op.todo) /\ op'.done = Done(Step)
  BY <1>1, AdvanceIs
<1>3. op.todo \in Seq(Building(g)) /\ op.done = <<>> /\ g \in Groups
  BY DEF Grouping
<1>4. Step \in Building(g) /\ Tail(op.todo) \in Seq(Building(g))
  BY <1>1, <1>3, SeqParts DEF Step
<1>5. Step \in {Mkdir(g), Control(g)}
  BY <1>4 DEF Building
<1>6. Disk' /\ UNCHANGED <<dir, hidden, trash>>
  BY <1>1, <1>3, <1>5, MkdirEffect, ControlEffect
<1>7. Done(Step) = <<>>
  BY <1>3, <1>5 DEF Done, Reversal, Mkdir, Control
<1>8. Grouping'
  BY <1>2, <1>3, <1>4, <1>6, <1>7 DEF Grouping, Frame, Empty
<1> QED BY <1>2, <1>6, <1>8

LEMMA GroupingFails ==
    ASSUME Disk, Grouping, DOMAIN op = Fields, op.todo # <<>>,
           op' = AfterFailure(Step), UNCHANGED disk
    PROVE  Grouping' /\ Frame
<1>1. /\ Frame /\ op'.held = Absent
      /\ op.mode = "do" => op'.mode = "undo" /\ op'.todo = op.done /\ op'.done = <<>>
      /\ op.mode # "do" => /\ op'.mode = op.mode /\ op'.todo = Tail(op.todo)
                           /\ op'.done = op.done
  BY FailureIs DEF Grouping
<1>2. <<>> \in Seq(Building(op.to)) /\ Tail(op.todo) \in Seq(Building(op.to))
  <2>1. op.todo \in Seq(Building(op.to))
    BY DEF Grouping
  <2>2. Tail(op.todo) \in Seq(Building(op.to))
    BY <2>1, SeqParts
  <2>3. <<>> \in Seq(Building(op.to))
    OBVIOUS
  <2> QED BY <2>2, <2>3
<1>3. op'.todo \in Seq(Building(op.to)) /\ op'.done = <<>>
  BY <1>1, <1>2 DEF Grouping
<1> QED BY <1>1, <1>3 DEF Grouping, Frame, Empty, disk

LEMMA GroupingAborts ==
    ASSUME Disk, Grouping, DOMAIN op = Fields, ControlNotMoved
    PROVE  /\ Disk' /\ Grouping' /\ Frame
           /\ KeptIn(dir, hidden, trash) \subseteq KeptIn(dir', hidden', trash')
<1> DEFINE g == op.to
<1>1. /\ op.todo # <<>> /\ Step.do = "control" /\ groups' = groups \ {Step.to}
      /\ op' = [op EXCEPT !.todo = <<>>]
      /\ UNCHANGED <<dir, control, hidden, trash>>
  BY DEF ControlNotMoved, Running
<1>2. Frame /\ op'.held = op.held /\ op'.todo = <<>> /\ op'.done = op.done
  BY <1>1 DEF Frame, Fields
<1>3. g \in Groups /\ Empty(g) /\ Step.to = g
  <2>1. Step \in Building(g)
    BY <1>1, SeqParts DEF Grouping, Step
  <2> QED BY <2>1 DEF Grouping, Building, Mkdir, Control
<1>4. Disk'
  <2>1. \A h \in Groups : Live(h) /\ ~Live(h)' => Empty(h)
    BY <1>1, <1>3 DEF Live
  <2>2. groups' \subseteq Groups /\ control' \in [Groups -> Groups \cup {Absent}]
    BY <1>1 DEF Disk
  <2> QED BY <1>1, <2>1, <2>2, GroupDisk
<1>5. Grouping'
  <2>1. <<>> \in Seq(Building(g))
    OBVIOUS
  <2> QED BY <1>1, <1>2, <1>3, <2>1 DEF Grouping, Frame, Empty
<1> QED BY <1>1, <1>2, <1>4, <1>5

-----------------------------------------------------------------------------
(* The renaming of a group. *)

\* It stays the same operation; the groups may have changed their roles.
MoveFrame ==
  /\ DOMAIN op' = Fields
  /\ op'.kind = op.kind /\ op'.snap = op.snap
  /\ {op'.from, op'.to} = {op.from, op.to} /\ op'.from # op'.to

LEMMA RelocationSteps ==
    ASSUME NEW G
    PROVE  /\ \A s \in Relocations(G) :
                \/ \E a \in G, b \in G : s = Carry(a, b)
                \/ \E a \in G : s = Control(a)
                \/ \E a \in G, b \in G, c \in G, n \in NameSet, k \in Stores :
                     s = Relabel(a, n, k, b, c)
           /\ \A a \in G, b \in G : Carry(a, b) \in Relocations(G)
           /\ \A a \in G : Control(a) \in Relocations(G)
           /\ \A a \in G, b \in G, c \in G, n \in NameSet, k \in Stores :
                Relabel(a, n, k, b, c) \in Relocations(G)
<1>1. \A s \in Rewrites(G) :
        \E a \in G, b \in G, c \in G, n \in NameSet, k \in Stores :
          s = Relabel(a, n, k, b, c)
  BY DEF Rewrites
<1>2. \A a \in G, b \in G, c \in G, n \in NameSet, k \in Stores :
        Relabel(a, n, k, b, c) \in Rewrites(G)
  BY DEF Rewrites
<1> DEFINE C == {Carry(a, b) : a \in G, b \in G}
           D == {Control(a) : a \in G}
<1>3. (\A s \in C : \E a \in G, b \in G : s = Carry(a, b)) /\ \A a \in G, b \in G : Carry(a, b) \in C
  OBVIOUS
<1>4. (\A s \in D : \E a \in G : s = Control(a)) /\ \A a \in G : Control(a) \in D
  OBVIOUS
<1>5. Relocations(G) = C \cup D \cup Rewrites(G)
  BY DEF Relocations
<1> HIDE DEF C, D
<1> QED BY <1>1, <1>2, <1>3, <1>4, <1>5

LEMMA RewriteAllSteps ==
    ASSUME NEW G, NEW a \in G, NEW b \in G, NEW c \in G, NEW k \in Stores
    PROVE  RewriteAll(a, k, b, c) \in Seq(Relocations(G))
<1>1. Names \in Seq(NameSet)
  BY LifecycleAssumption
<1>2. \A i \in 1 .. Len(Names) :
        Relabel(a, Names[i], k, b, c) \in Relocations(G)
  BY <1>1, RelocationSteps
<1> QED BY <1>1, <1>2 DEF RewriteAll, Relabel

LEMMA GroupStepsAre ==
    ASSUME NEW G, NEW a \in G, NEW b \in G
    PROVE  GroupSteps(a, b) \in Seq(Relocations(G))
<1>1. /\ RewriteAll(b, "issues", a, b) \in Seq(Relocations(G))
      /\ RewriteAll(b, "reviews", a, b) \in Seq(Relocations(G))
  BY RewriteAllSteps DEF Stores, Catalog!Stores
<1>2. <<Carry(a, b)>> \in Seq(Relocations(G))
  BY RelocationSteps
<1> HIDE DEF Relocations
<1> QED BY <1>1, <1>2, SeqJoin DEF GroupSteps

LEMMA ReviewsDoneIn ==
    ASSUME NEW S, op.done \in Seq(S)
    PROVE  ReviewsDone \in Seq(S)
<1> DEFINE D == 1 .. Len(op.done)
           T == {i \in DOMAIN op.done : op.done[i].k = "reviews"}
<1>1. DOMAIN op.done = D /\ Len(op.done) \in Nat
  OBVIOUS
<1>2. IsFiniteSet(D) /\ Cardinality(D) = Len(op.done)
  BY <1>1, FS_Interval
<1>3. T \subseteq D
  BY <1>1
<1>4. Cardinality(T) \in Nat /\ Cardinality(T) <= Len(op.done)
  <2> HIDE DEF D, T
  <2> QED BY <1>2, <1>3, FS_Subset, FS_CardinalityType
<1> HIDE DEF T
<1>5. SubSeq(op.done, 1, Cardinality(T)) \in Seq(S)
  BY <1>1, <1>4, SubSeqProperties
<1> QED BY <1>5 DEF ReviewsDone, T

LEMMA MovingShape ==
    ASSUME Moving, op.todo # <<>>
    PROVE  LET G == {op.from, op.to} IN
           \/ \E a \in G, b \in G : Step = Carry(a, b)
           \/ \E a \in G : Step = Control(a)
           \/ \E a \in G, b \in G, c \in G, n \in NameSet, k \in Stores :
                Step = Relabel(a, n, k, b, c)
<1> DEFINE G == {op.from, op.to}
<1>1. Step \in Relocations(G)
  BY SeqParts DEF Moving, MovingSteps, Step
<1> HIDE DEF G
<1>2. \/ \E a \in G, b \in G : Step = Carry(a, b)
      \/ \E a \in G : Step = Control(a)
      \/ \E a \in G, b \in G, c \in G, n \in NameSet, k \in Stores :
           Step = Relabel(a, n, k, b, c)
  BY <1>1, RelocationSteps
<1> QED BY <1>2 DEF G

LEMMA MovingAdvances ==
    ASSUME Moving, DOMAIN op = Fields, op.todo # <<>>, Advance(Step)
    PROVE  MoveFrame /\ MovingSteps' /\ op'.held = Absent
<1> DEFINE G == {op.from, op.to}
<1>1. /\ Frame /\ op'.held = Absent
      /\ op'.todo = Tail(op.todo) /\ op'.done = Done(Step)
  BY AdvanceIs
<1>2. op.todo \in Seq(Relocations(G)) /\ op.done \in Seq(Relocations(G)) /\ op.from # op.to
  BY DEF Moving, MovingSteps, MovingData
<1>3. Tail(op.todo) \in Seq(Relocations(G))
  BY <1>2, SeqParts
<1>4. Reversal(Step) \in Seq(Relocations(G))
  <2>1. CASE \E a \in G, b \in G : Step = Carry(a, b)
    <3>1. PICK a \in G, b \in G : Step = Carry(a, b)
      BY <2>1
    <3>2. Reversal(Step) = <<Carry(b, a)>>
      BY <3>1 DEF Reversal, Carry
    <3>3. Carry(b, a) \in Relocations(G)
      BY RelocationSteps
    <3> QED BY <3>2, <3>3
  <2>2. CASE \E a \in G : Step = Control(a)
    <3>1. Reversal(Step) = <<>>
      BY <2>2 DEF Reversal, Control
    <3> QED BY <3>1
  <2>3. CASE \E a \in G, b \in G, c \in G, n \in NameSet, k \in Stores :
               Step = Relabel(a, n, k, b, c)
    <3>1. PICK a \in G, b \in G, c \in G, n \in NameSet, k \in Stores :
                 Step = Relabel(a, n, k, b, c)
      BY <2>3
    <3>2. Reversal(Step) = <<Relabel(a, n, k, c, b)>>
      BY <3>1 DEF Reversal, Rewrite, Relabel
    <3>3. Relabel(a, n, k, c, b) \in Relocations(G)
      BY RelocationSteps
    <3> QED BY <3>2, <3>3
  <2> QED BY <2>1, <2>2, <2>3, MovingShape
<1>5. Done(Step) \in Seq(Relocations(G))
  <2>1. <<>> \in Seq(Relocations(G)) /\ Reversal(Step) \o op.done \in Seq(Relocations(G))
    BY <1>2, <1>4, SeqJoin
  <2> QED BY <2>1 DEF Done
<1> QED BY <1>1, <1>2, <1>3, <1>5 DEF MoveFrame, Frame, MovingSteps

LEMMA MovingFailure ==
    ASSUME Moving, DOMAIN op = Fields, op.todo # <<>>, op' = AfterFailure(Step)
    PROVE  MoveFrame /\ MovingSteps' /\ op'.held = Absent
<1> DEFINE G == {op.from, op.to}
           R == Relocations(G)
<1>1. /\ op.todo \in Seq(R) /\ op.done \in Seq(R) /\ op.from # op.to /\ op.kind = "move"
      /\ op.held # Absent => Step.do = "rewrite"
  BY DEF Moving, MovingSteps, MovingData, Aside
<1>2. op' = AfterMoveFailure(Step)
  BY <1>1 DEF AfterFailure
<1>3. Tail(op.todo) \in Seq(R) /\ <<>> \in Seq(R)
  BY <1>1, SeqParts
<1> DEFINE undo == [op EXCEPT !.mode = "undo", !.done = <<>>, !.held = Absent]
           again == GroupSteps(op.to, op.from) \o <<Control(op.from)>>
           back == ReviewsDone \o <<Carry(op.to, op.from)>> \o RewriteAll(op.from, "issues", op.to, op.from)
<1>4. again \in Seq(R)
  <2>1. <<Control(op.from)>> \in Seq(R) /\ GroupSteps(op.to, op.from) \in Seq(R)
    <3>1. op.from \in G /\ op.to \in G
      OBVIOUS
    <3> HIDE DEF G
    <3>2. Control(op.from) \in R /\ GroupSteps(op.to, op.from) \in Seq(R)
      BY <3>1, RelocationSteps, GroupStepsAre
    <3> HIDE DEF R
    <3> QED BY <3>2
  <2> HIDE DEF R
  <2> QED BY <2>1, SeqJoin
<1>5. back \in Seq(R)
  <2>1. /\ <<Carry(op.to, op.from)>> \in Seq(R)
        /\ RewriteAll(op.from, "issues", op.to, op.from) \in Seq(R)
    <3>1. op.from \in G /\ op.to \in G
      OBVIOUS
    <3> HIDE DEF G
    <3>2. Carry(op.to, op.from) \in R /\ RewriteAll(op.from, "issues", op.to, op.from) \in Seq(R)
      BY <3>1, RelocationSteps, RewriteAllSteps, PlainKinds
    <3> HIDE DEF R
    <3> QED BY <3>2
  <2>2. ReviewsDone \in Seq(R)
    BY <1>1, ReviewsDoneIn
  <2> HIDE DEF R
  <2> QED BY <2>1, <2>2, SeqJoin
<1>6. \/ /\ Step.do = "control"
         /\ op' = [op EXCEPT !.back = TRUE, !.from = op.to, !.to = op.from, !.done = <<>>, !.todo = again]
      \/ Step.do \in {"control", "carry"} /\ op' = [op EXCEPT !.todo = <<>>]
      \/ op' = [undo EXCEPT !.todo = back]
      \/ op' = [undo EXCEPT !.todo = op.done]
      \/ op' = [op EXCEPT !.mode = "redo", !.todo = op.done, !.held = Absent]
      \/ op' = [op EXCEPT !.todo = Tail(@), !.held = Absent]
  BY <1>2 DEF AfterMoveFailure
<1> HIDE DEF R, again, back
<1>7. /\ DOMAIN op' = Fields /\ op'.kind = op.kind /\ op'.snap = op.snap /\ op'.held = Absent
      /\ \/ op'.from = op.from /\ op'.to = op.to
         \/ op'.from = op.to /\ op'.to = op.from
      /\ op'.todo \in Seq(R) /\ op'.done \in Seq(R)
  BY <1>1, <1>3, <1>4, <1>5, <1>6 DEF Fields
<1>8. {op'.from, op'.to} = G
  BY <1>7
<1>9. MovingSteps'
  BY <1>7, <1>8 DEF MovingSteps, R
<1> QED BY <1>1, <1>7, <1>8, <1>9 DEF MoveFrame

LEMMA MovingDataNext ==
    ASSUME NEW g \in Groups, MovingData(g), MoveFrame, op'.held = Absent,
           dirty \in Nat, dirty' \in Nat, dirty' >= dirty,
           \A x \in Paths : x[1] \notin {op.from, op.to} => dir'[x] = dir[x],
           \A x \in Paths : x[1] \in {op.from, op.to} => \A k \in Kinds :
             dir'[x][k] # Absent =>
               op.snap[<<g, x[2]>>][k] # Absent /\ dir'[x][k].repo = op.snap[<<g, x[2]>>][k].repo,
           dirty = 0 => \A x \in Paths : Anchored(dir', x)
    PROVE  MovingData(g)'
<1> DEFINE G == {op.from, op.to}
<1>1. {op'.from, op'.to} = G /\ op'.from # op'.to /\ op'.snap = op.snap /\ op'.kind = op.kind
  BY DEF MoveFrame
<1>2. op'.from \in Groups /\ op'.to \in Groups /\ g \in {op'.from, op'.to}
  BY <1>1 DEF MovingData
<1>3. \A x \in Paths : x[1] \notin {op'.from, op'.to} => dir'[x] = op'.snap[x]
  BY <1>1 DEF MovingData
<1>4. \A x \in Paths : x[1] \in {op'.from, op'.to} => Comes(x, <<g, x[2]>>)'
  BY <1>1 DEF Comes
<1>5. dirty' = 0 => \A x \in Paths : Anchored(dir', x)
  BY DEF MovingData
<1>6. op'.kind = "move"
  BY <1>1 DEF MovingData
<1> QED BY <1>1, <1>2, <1>3, <1>4, <1>5, <1>6 DEF MovingData, Anchored

LEMMA MovingComes ==
    ASSUME NEW g, MovingData(g), NEW x \in Paths, x[1] \in {op.from, op.to}, NEW k \in Kinds,
           dir[x][k] # Absent
    PROVE  op.snap[<<g, x[2]>>][k] # Absent /\ dir[x][k].repo = op.snap[<<g, x[2]>>][k].repo
BY DEF MovingData, Comes

LEMMA MovingStep ==
    ASSUME Disk, Moving, DOMAIN op = Fields, dirty \in Nat, StepDone
    PROVE  /\ Disk' /\ Moving' /\ MoveFrame
           /\ KeptIn(dir, hidden, trash) \subseteq KeptIn(dir', hidden', trash')
<1> DEFINE G == {op.from, op.to}
<1>1. op.todo # <<>> /\ Step.do # "rewrite" /\ Feasible(Step) /\ Effect(Step) /\ Advance(Step) /\ dirty' = dirty
  BY DEF StepDone, Running
<1>2. MoveFrame /\ MovingSteps' /\ op'.held = Absent
  BY <1>1, MovingAdvances
<1>3. PICK g \in Groups : MovingData(g)
  BY DEF Moving
<1>4. op.from \in Groups /\ op.to \in Groups
  BY <1>3 DEF MovingData
<1>5. CASE \E a \in G, b \in G : Step = Carry(a, b)
  <2>1. PICK a \in G, b \in G : Step = Carry(a, b)
    BY <1>5
  <2>2. a \in Groups /\ b \in Groups
    BY <1>4
  <2>3. /\ Disk' /\ UNCHANGED trash /\ a # b
        /\ KeptIn(dir, hidden, trash) \subseteq KeptIn(dir', hidden', trash')
        /\ \A x \in Paths : x[1] = b => dir'[x] = dir[<<a, x[2]>>]
        /\ \A x \in Paths : x[1] = a => dir'[x] = Nothing
        /\ \A x \in Paths : x[1] \notin {a, b} => dir'[x] = dir[x]
    BY <1>1, <2>1, <2>2, CarryEffect
  <2>4. {a, b} = G
    BY <2>3
  <2>5. \A k \in Kinds : Nothing[k] = Absent
    BY DEF Nothing, Catalog!Nothing, Kinds
  <2>6. ASSUME NEW x \in Paths
        PROVE  <<a, x[2]>> \in Paths /\ <<a, x[2]>>[1] = a /\ <<a, x[2]>>[2] = x[2]
    BY <2>2, PathParts
  <2>7. ASSUME NEW x \in Paths, x[1] \in G, NEW k \in Kinds, dir'[x][k] # Absent
        PROVE  op.snap[<<g, x[2]>>][k] # Absent /\ dir'[x][k].repo = op.snap[<<g, x[2]>>][k].repo
    <3>1. x[1] = b
      BY <2>3, <2>4, <2>5, <2>7
    <3>2. dir'[x] = dir[<<a, x[2]>>]
      BY <2>3, <3>1
    <3> QED BY <1>3, <2>6, <2>7, <3>2, MovingComes
  <2>8. dirty = 0 => \A x \in Paths : Anchored(dir', x)
    <3> SUFFICES ASSUME dirty = 0, NEW x \in Paths PROVE Anchored(dir', x)
      OBVIOUS
    <3>1. \A y \in Paths : Anchored(dir, y)
      BY <1>3 DEF MovingData
    <3>2. CASE x[1] = a
      BY <2>3, <2>5, <3>2, PlainKinds DEF Anchored
    <3>3. CASE x[1] = b
      <4>1. dir'[x] = dir[<<a, x[2]>>]
        BY <2>3, <3>3
      <4>2. Anchored(dir, <<a, x[2]>>)
        BY <2>6, <3>1
      <4> QED BY <4>1, <4>2 DEF Anchored
    <3>4. CASE x[1] \notin {a, b}
      BY <2>3, <3>1, <3>4 DEF Anchored
    <3> QED BY <3>2, <3>3, <3>4
  <2>9. \A x \in Paths : x[1] \notin G => dir'[x] = dir[x]
    BY <2>3, <2>4
  <2>10. MovingData(g)'
    <3> HIDE DEF G
    <3>1. \A x \in Paths : x[1] \in G => \A k \in Kinds : dir'[x][k] # Absent =>
            op.snap[<<g, x[2]>>][k] # Absent /\ dir'[x][k].repo = op.snap[<<g, x[2]>>][k].repo
      BY <2>7
    <3>2. dirty' \in Nat /\ dirty' >= dirty
      BY <1>1
    <3> QED BY <1>2, <1>3, <2>8, <2>9, <3>1, <3>2, MovingDataNext DEF G
  <2> QED BY <1>2, <2>3, <2>10 DEF Moving
<1>6. CASE \E a \in G : Step = Control(a)
  <2>1. PICK a \in G : Step = Control(a)
    BY <1>6
  <2>2. Disk' /\ UNCHANGED <<dir, hidden, trash>>
    BY <1>1, <1>4, <2>1, ControlEffect
  <2>3. MovingData(g)'
    <3>1. dirty = 0 => \A x \in Paths : Anchored(dir', x)
      BY <1>3, <2>2 DEF MovingData
    <3>2. dirty' \in Nat /\ dirty' >= dirty
      BY <1>1
    <3> QED BY <1>2, <1>3, <2>2, <3>1, <3>2, MovingDataNext, MovingComes
  <2> QED BY <1>2, <2>2, <2>3 DEF Moving
<1>7. Step.do = "rewrite" => FALSE
  BY <1>1
<1>8. \A a, b, c, n, k : Relabel(a, n, k, b, c).do = "rewrite"
  BY DEF Relabel, Rewrite
<1> QED BY <1>1, <1>5, <1>6, <1>7, <1>8, MovingShape

LEMMA MovingFails ==
    ASSUME Disk, Moving, DOMAIN op = Fields, dirty \in Nat, dirty' \in Nat, dirty' >= dirty, op.todo # <<>>,
           op' = AfterFailure(Step), UNCHANGED disk
    PROVE  Moving' /\ MoveFrame
<1>1. MoveFrame /\ MovingSteps' /\ op'.held = Absent
  BY MovingFailure
<1>2. PICK g \in Groups : MovingData(g)
  BY DEF Moving
<1>3. UNCHANGED dir
  BY DEF disk
<1>4. dirty = 0 => \A x \in Paths : Anchored(dir', x)
  BY <1>2, <1>3 DEF MovingData
<1>5. MovingData(g)'
  BY <1>1, <1>2, <1>3, <1>4, MovingDataNext, MovingComes
<1> QED BY <1>1, <1>5 DEF Moving

LEMMA MovingSkips ==
    ASSUME Disk, Moving, DOMAIN op = Fields, dirty \in Nat, RewriteNothing
    PROVE  Moving' /\ MoveFrame
<1>1. /\ op.todo # <<>> /\ op.held = Absent /\ op' = [op EXCEPT !.todo = Tail(@)]
      /\ UNCHANGED <<dir, dirty>>
  BY DEF RewriteNothing, Running, disk
<1>2. Frame /\ op'.held = Absent /\ op'.todo = Tail(op.todo) /\ op'.done = op.done
  BY <1>1 DEF Frame, Fields
<1>3. PICK g \in Groups : MovingData(g)
  BY DEF Moving
<1>4. MoveFrame
  BY <1>2, <1>3 DEF Frame, MoveFrame, MovingData
<1>5. MovingSteps'
  <2>1. Tail(op.todo) \in Seq(Relocations({op.from, op.to}))
    BY <1>1, SeqParts DEF Moving, MovingSteps
  <2> QED BY <1>2, <2>1 DEF Moving, MovingSteps, Frame
<1>6. MovingData(g)'
  <2>1. dirty = 0 => \A x \in Paths : Anchored(dir', x)
    BY <1>1, <1>3 DEF MovingData
  <2>2. dirty' \in Nat /\ dirty' >= dirty
    BY <1>1
  <2> QED BY <1>1, <1>2, <1>3, <1>4, <2>1, <2>2, MovingDataNext, MovingComes
<1> QED BY <1>4, <1>5, <1>6 DEF Moving

\* The record store that a rewriting step of a group is about.
LEMMA MovingStore ==
    ASSUME Moving, op.todo # <<>>, Step.do = "rewrite"
    PROVE  \E k \in Stores : \E x, y \in Paths :
             /\ x[1] \in {op.from, op.to} /\ Step.from = x /\ Step.to = x /\ Step.k = k /\ Step.new = y
<1> DEFINE G == {op.from, op.to}
<1>1. PICK a \in G, b \in G, c \in G, n \in NameSet, k \in Stores : Step = Relabel(a, n, k, b, c)
  <2>1. \A a, b : Carry(a, b).do # "rewrite" /\ Control(a).do # "rewrite"
    BY DEF Carry, Control
  <2> QED BY <2>1, MovingShape
<1>2. G \subseteq Groups
  BY DEF Moving, MovingData
<1>3. <<a, n>> \in Paths /\ <<c, n>> \in Paths /\ <<a, n>>[1] = a
  BY <1>2, PathParts
<1>4. Step.from = <<a, n>> /\ Step.to = <<a, n>> /\ Step.k = k /\ Step.new = <<c, n>>
  BY <1>1 DEF Relabel, Rewrite
<1> QED BY <1>3, <1>4

LEMMA MovingHides ==
    ASSUME Disk, Moving, DOMAIN op = Fields, dirty \in Nat, Hide
    PROVE  /\ Disk' /\ Moving' /\ MoveFrame
           /\ KeptIn(dir, hidden, trash) \subseteq KeptIn(dir', hidden', trash')
<1> DEFINE G == {op.from, op.to}
<1>1. /\ op.todo # <<>> /\ Step.do = "rewrite" /\ op.held = Absent
      /\ dir[Step.from][Step.k] # Absent
      /\ dir' = [dir EXCEPT ![Step.from][Step.k] = Absent]
      /\ hidden' = [hidden EXCEPT ![Step.from[1]] =
                      @ \cup {[repo |-> dir[Step.from][Step.k].repo, k |-> Step.k]}]
      /\ op' = [op EXCEPT !.held = dir[Step.from][Step.k]]
      /\ UNCHANGED <<groups, control, trash, dirty>>
  BY DEF Hide, Running
<1>2. Frame /\ op'.held = dir[Step.from][Step.k] /\ op'.todo = op.todo /\ op'.done = op.done
  BY <1>1 DEF Frame, Fields
<1>3. PICK g \in Groups : MovingData(g)
  BY DEF Moving
<1>4. MoveFrame
  BY <1>2, <1>3 DEF Frame, MoveFrame, MovingData
<1>5. PICK k \in Stores, x \in Paths : x[1] \in G /\ Step.from = x /\ Step.to = x /\ Step.k = k
  BY <1>1, MovingStore
<1>6. k \in Kinds /\ k # "git"
  BY PlainKinds
<1>7. /\ Disk' /\ dir'[x][k] = Absent /\ Same(x, k)
      /\ KeptIn(dir, hidden, trash) \subseteq KeptIn(dir', hidden', trash')
      /\ [repo |-> dir[x][k].repo, k |-> k] \in hidden'[x[1]]
  <2>1. /\ dir[x][k] # Absent /\ dir' = With(dir, x, k, Absent)
        /\ hidden' = [hidden EXCEPT ![x[1]] = @ \cup {[repo |-> dir[x][k].repo, k |-> k]}]
    BY <1>1, <1>5 DEF With
  <2> QED BY <1>1, <2>1, HideEffect
<1>8. Step' = Step
  BY <1>2 DEF Step
<1>9. /\ op.snap[<<g, x[2]>>][k] # Absent /\ dir[x][k].repo = op.snap[<<g, x[2]>>][k].repo
      /\ Fits(k, dir[x][k])
  BY <1>1, <1>3, <1>5, <1>6, LayoutAt, MovingComes DEF Disk
<1>10. Aside(op.snap[<<g, Step.from[2]>>][Step.k])'
  BY <1>1, <1>2, <1>5, <1>7, <1>8, <1>9 DEF Aside, Frame
<1>11. \A z \in Paths : \A l \in Kinds : dir'[z][l] # Absent => dir'[z][l] = dir[z][l]
  BY <1>6, <1>7 DEF Same
<1>12. \A z \in Paths : dir'[z]["git"] = dir[z]["git"]
  BY <1>6, <1>7, PlainKinds DEF Same
<1>13. ASSUME dirty = 0
       PROVE  /\ \A z \in Paths : Anchored(dir', z)
              /\ k = "issues" => dir'[x]["git"] # Absent
  <2>1. \A z \in Paths : Anchored(dir, z)
    BY <1>3, <1>13 DEF MovingData
  <2> QED BY <1>1, <1>5, <1>11, <1>12, <2>1, PlainKinds DEF Anchored
<1>14. \A z \in Paths : z[1] \notin G => dir'[z] = op.snap[z]
  BY <1>3, <1>5, <1>7 DEF Same, MovingData
<1>15. \A z \in Paths : z[1] \in G => Comes(z, <<g, z[2]>>)'
  BY <1>2, <1>3, <1>11 DEF MovingData, Comes, Frame
<1>16. MovingData(g)'
  <2>1. op'.from = op.from /\ op'.to = op.to /\ op'.snap = op.snap /\ op'.kind = op.kind
    BY <1>2 DEF Frame
  <2>2. \A z \in Paths : z[1] \in {op'.from, op'.to} => Comes(z, <<g, z[2]>>)'
    BY <1>15, <2>1
  <2>3. (op'.held # Absent /\ dirty' = 0 /\ Step'.k = "issues") => dir'[Step'.from]["git"] # Absent
    BY <1>1, <1>5, <1>8, <1>13
  <2>4. dirty' = 0 => \A z \in Paths : Anchored(dir', z)
    BY <1>1, <1>13
  <2>5. op.kind = "move" /\ op.from \in Groups /\ op.to \in Groups /\ op.from # op.to /\ g \in G
    BY <1>3 DEF MovingData
  <2> QED BY <1>10, <1>14, <2>1, <2>2, <2>3, <2>4, <2>5 DEF MovingData, Anchored
<1>17. MovingSteps'
  BY <1>2 DEF Moving, MovingSteps, Frame
<1> QED BY <1>4, <1>7, <1>16, <1>17 DEF Moving

\* A record store comes back, under a new path or the old one.
LEMMA MovingPuts ==
    ASSUME Disk, Moving, DOMAIN op = Fields, dirty \in Nat, dirty' \in Nat, dirty' >= dirty,
           MoveFrame, MovingSteps', op'.held = Absent, op.held # Absent,
           NEW k \in Stores, NEW x \in Paths, x[1] \in {op.from, op.to},
           Step.from = x, Step.to = x, Step.k = k,
           NEW c, Fits(k, c), c # Absent, c.repo = op.held.repo,
           dir' = With(dir, x, k, c),
           hidden' = [hidden EXCEPT ![x[1]] = @ \ {[repo |-> c.repo, k |-> k]}],
           UNCHANGED <<groups, control, trash>>
    PROVE  /\ Disk' /\ Moving'
           /\ KeptIn(dir, hidden, trash) \subseteq KeptIn(dir', hidden', trash')
<1> DEFINE G == {op.from, op.to}
<1>1. PICK g \in Groups : MovingData(g)
  BY DEF Moving
<1>2. /\ op.snap[<<g, x[2]>>][k] # Absent /\ c.repo = op.snap[<<g, x[2]>>][k].repo
      /\ dir[x][k] = Absent /\ [repo |-> c.repo, k |-> k] \in hidden[x[1]]
      /\ (dirty = 0 /\ k = "issues") => dir[x]["git"] # Absent
  BY <1>1 DEF MovingData, Aside
<1>3. /\ Disk' /\ dir'[x][k] = c /\ Same(x, k)
      /\ KeptIn(dir, hidden, trash) \subseteq KeptIn(dir', hidden', trash')
  BY <1>2, UnhideEffect
<1>4. k \in Kinds /\ k # "git"
  BY PlainKinds
<1>5. \A z \in Paths : z[1] \notin G => dir'[z] = dir[z]
  BY <1>3 DEF Same
<1>6. ASSUME NEW z \in Paths, z[1] \in G, NEW l \in Kinds, dir'[z][l] # Absent
      PROVE  op.snap[<<g, z[2]>>][l] # Absent /\ dir'[z][l].repo = op.snap[<<g, z[2]>>][l].repo
  <2>1. CASE z = x /\ l = k
    BY <1>2, <1>3, <2>1
  <2>2. CASE ~(z = x /\ l = k)
    <3>1. dir'[z][l] = dir[z][l]
      BY <1>3, <2>2 DEF Same
    <3> QED BY <1>1, <1>6, <3>1, MovingComes
  <2> QED BY <2>1, <2>2
<1>7. dirty = 0 => \A z \in Paths : Anchored(dir', z)
  <2> SUFFICES ASSUME dirty = 0, NEW z \in Paths, dir'[z]["issues"] # Absent
               PROVE  dir'[z]["git"] # Absent
    BY DEF Anchored
  <2>1. dir'[z]["git"] = dir[z]["git"]
    BY <1>3, <1>4, PlainKinds DEF Same
  <2>2. CASE z = x /\ k = "issues"
    BY <1>2, <2>1, <2>2
  <2>3. CASE ~(z = x /\ k = "issues")
    <3>1. dir'[z]["issues"] = dir[z]["issues"]
      BY <1>3, <2>3, PlainKinds DEF Same
    <3> QED BY <1>1, <2>1, <3>1 DEF MovingData, Anchored
  <2> QED BY <2>2, <2>3
<1>8. MovingData(g)'
  <2> HIDE DEF G
  <2>1. \A z \in Paths : z[1] \in G => \A l \in Kinds : dir'[z][l] # Absent =>
          op.snap[<<g, z[2]>>][l] # Absent /\ dir'[z][l].repo = op.snap[<<g, z[2]>>][l].repo
    BY <1>6
  <2> QED BY <1>1, <1>5, <1>7, <2>1, MovingDataNext DEF G
<1> QED BY <1>3, <1>8 DEF Moving

LEMMA MovingPublishes ==
    ASSUME Disk, Moving, DOMAIN op = Fields, dirty \in Nat, Publish
    PROVE  /\ Disk' /\ Moving' /\ MoveFrame
           /\ KeptIn(dir, hidden, trash) \subseteq KeptIn(dir', hidden', trash')
<1>1. /\ op.todo # <<>> /\ op.held # Absent
      /\ dir' = [dir EXCEPT ![Step.to][Step.k] = Data(op.held.repo, Step.k, Step.new)]
      /\ hidden' = [hidden EXCEPT ![Step.from[1]] = @ \ {[repo |-> op.held.repo, k |-> Step.k]}]
      /\ Advance(Step)
      /\ UNCHANGED <<groups, control, trash, dirty>>
  BY DEF Publish, Running, Unhide
<1>2. MoveFrame /\ MovingSteps' /\ op'.held = Absent
  BY <1>1, MovingAdvances
<1>3. Step.do = "rewrite" /\ Fits(Step.k, op.held)
  BY <1>1 DEF Moving, MovingData, Aside
<1>4. PICK k \in Stores, x \in Paths, y \in Paths :
        x[1] \in {op.from, op.to} /\ Step.from = x /\ Step.to = x /\ Step.k = k /\ Step.new = y
  BY <1>1, <1>3, MovingStore
<1> DEFINE c == Data(op.held.repo, k, y)
<1>5. Fits(k, c) /\ c # Absent /\ c.repo = op.held.repo
  <2>1. k \in Kinds /\ op.held.repo \in Repositories
    BY <1>1, <1>3, <1>4, PlainKinds, Recorded
  <2> QED BY <2>1, DataFits
<1>6. /\ dir' = With(dir, x, k, c)
      /\ hidden' = [hidden EXCEPT ![x[1]] = @ \ {[repo |-> c.repo, k |-> k]}]
  BY <1>1, <1>4, <1>5 DEF With
<1> HIDE DEF c
<1>7. dirty' \in Nat /\ dirty' >= dirty
  BY <1>1
<1> QED BY <1>1, <1>2, <1>4, <1>5, <1>6, <1>7, MovingPuts

LEMMA MovingPublishFails ==
    ASSUME Disk, Moving, DOMAIN op = Fields, dirty \in Nat, dirty' \in Nat, dirty' >= dirty, PublishFails
    PROVE  /\ Disk' /\ Moving' /\ MoveFrame
           /\ KeptIn(dir, hidden, trash) \subseteq KeptIn(dir', hidden', trash')
<1>1. /\ op.todo # <<>> /\ op.held # Absent
      /\ dir' = [dir EXCEPT ![Step.from][Step.k] = op.held]
      /\ hidden' = [hidden EXCEPT ![Step.from[1]] = @ \ {[repo |-> op.held.repo, k |-> Step.k]}]
      /\ op' = AfterFailure(Step)
      /\ UNCHANGED <<groups, control, trash>>
  BY DEF PublishFails, Running, Unhide
<1>2. MoveFrame /\ MovingSteps' /\ op'.held = Absent
  BY <1>1, MovingFailure
<1>3. Step.do = "rewrite" /\ Fits(Step.k, op.held)
  BY <1>1 DEF Moving, MovingData, Aside
<1>4. PICK k \in Stores, x \in Paths :
        x[1] \in {op.from, op.to} /\ Step.from = x /\ Step.to = x /\ Step.k = k
  BY <1>1, <1>3, MovingStore
<1>5. /\ dir' = With(dir, x, k, op.held)
      /\ hidden' = [hidden EXCEPT ![x[1]] = @ \ {[repo |-> op.held.repo, k |-> k]}]
      /\ Fits(k, op.held)
  BY <1>1, <1>3, <1>4 DEF With
<1> QED BY <1>1, <1>2, <1>4, <1>5, MovingPuts

-----------------------------------------------------------------------------
(* The layout while an operation runs, and when it has nothing left to do. *)

LEMMA OperationDerived ==
    ASSUME Operation, ~Creating
    PROVE  Derived(dir, op.snap)
<1> SUFFICES ASSUME NEW x \in Paths
             PROVE  \E o \in Paths : \A k \in Kinds :
                      dir[x][k] # Absent => op.snap[o][k] # Absent /\ dir[x][k].repo = op.snap[o][k].repo
  BY DEF Derived
<1>1. CASE Deleting
  <2>1. \A k \in Kinds : dir[x][k] # Absent => dir[x][k] = op.snap[x][k]
    BY <1>1 DEF Deleting
  <2> QED BY <2>1
<1>2. CASE RenamingData
  <2>1. CASE x \in {op.from, op.to}
    <3>1. Comes(x, op.from) /\ op.from \in Paths
      BY <1>2, <2>1 DEF RenamingData
    <3> QED BY <3>1 DEF Comes
  <2>2. CASE x \notin {op.from, op.to}
    BY <1>2, <2>2 DEF RenamingData
  <2> QED BY <2>1, <2>2
<1>3. CASE Grouping
  BY <1>3 DEF Grouping
<1>4. CASE Moving
  <2>1. PICK g \in Groups : MovingData(g)
    BY <1>4 DEF Moving
  <2>2. CASE x[1] \in {op.from, op.to}
    <3>1. <<g, x[2]>> \in Paths
      BY PathParts
    <3> QED BY <2>1, <2>2, <3>1, MovingComes
  <2>3. CASE x[1] \notin {op.from, op.to}
    BY <2>1, <2>3 DEF MovingData
  <2> QED BY <2>2, <2>3
<1> QED BY <1>1, <1>2, <1>3, <1>4 DEF Operation, Renaming

\* A creation adds only data of its own repository.
LEMMA CreatingSound ==
    ASSUME Disk, Operation, Creating, dirty \in Nat
    PROVE  Sound(dir, dirty, used, staged)
<1>1. PICK r \in used : CreatingData(r)
  BY DEF Creating
<1> DEFINE p == op.from
           e == op.snap
<1>2. Sound(e, dirty, used, staged)
  BY DEF Operation
<1>3. ASSUME NEW x \in Paths, NEW k \in Kinds, dir[x][k] # Absent
      PROVE  (x = p /\ dir[x][k].repo = r) \/ dir[x][k] = e[x][k]
  BY <1>1, <1>3 DEF CreatingData
<1>4. Pure(dir, dirty)
  <2> SUFFICES ASSUME NEW x \in Paths, NEW k \in Kinds, NEW l \in Kinds,
                      dir[x][k] # Absent, dir[x][l] # Absent
               PROVE  \/ dir[x][k].repo = dir[x][l].repo
                      \/ dirty > 0 /\ k = "issues" /\ dir[x][l].repo \in Importable
                      \/ dirty > 0 /\ l = "issues" /\ dir[x][k].repo \in Importable
    BY DEF Pure
  <2>1. CASE x # p
    <3>1. dir[x] = e[x]
      BY <1>1, <2>1 DEF CreatingData
    <3>2. Pure(e, dirty)
      BY <1>2 DEF Sound
    <3> QED BY <3>1, <3>2 DEF Pure
  <2>2. CASE x = p
    BY <1>1, <2>2 DEF CreatingData
  <2> QED BY <2>1, <2>2
<1>5. ASSUME NEW s, Shown(dir, s)
      PROVE  s = r \/ Shown(e, s)
  <2>1. PICK x \in Paths, k \in Kinds : dir[x][k] # Absent /\ dir[x][k].repo = s
    BY <1>5 DEF Shown
  <2> QED BY <1>3, <2>1 DEF Shown
<1>6. \A s : Shown(dir, s) => s \in used
  BY <1>2, <1>5 DEF Sound
<1>7. \A i \in staged : ~Shown(dir, i.repo)
  BY <1>1, <1>2, <1>5 DEF Sound, CreatingData
<1>8. dirty = 0 => \A x \in Paths : Anchored(dir, x)
  BY <1>1, <1>2 DEF Sound, CreatingData, Anchored
<1> QED BY <1>4, <1>6, <1>7, <1>8 DEF Sound, Disk

LEMMA OperationPure ==
    ASSUME Disk, Operation, dirty \in Nat
    PROVE  Pure(dir, dirty)
<1>1. CASE Creating
  BY <1>1, CreatingSound DEF Sound
<1>2. CASE ~Creating
  <2>1. Derived(dir, op.snap) /\ Sound(op.snap, dirty, used, staged) /\ dir \in Layout
    BY <1>2, OperationDerived DEF Operation, Disk
  <2> QED BY <2>1, DerivedSound
<1> QED BY <1>1, <1>2

LEMMA OperationSound ==
    ASSUME Disk, Operation, dirty \in Nat, dirty = 0 => op.todo = <<>>
    PROVE  Sound(dir, dirty, used, staged)
<1>1. CASE Creating
  BY <1>1, CreatingSound
<1>2. CASE ~Creating
  <2>1. Derived(dir, op.snap) /\ Sound(op.snap, dirty, used, staged) /\ dir \in Layout
    BY <1>2, OperationDerived DEF Operation, Disk
  <2>2. ASSUME dirty = 0, NEW x \in Paths, dir[x]["issues"] # Absent
        PROVE  dir[x]["git"] # Absent
    <3>1. Anchored(op.snap, x) /\ op.todo = <<>>
      BY <2>1, <2>2 DEF Sound
    <3>2. \A s : ~Has(op.todo, s)
      BY <3>1 DEF Has
    <3>3. CASE Deleting
      BY <2>2, <3>1, <3>2, <3>3 DEF Deleting, Anchored
    <3>4. CASE Renaming
      <4>1. CASE x \notin {op.from, op.to}
        BY <2>2, <3>1, <3>4, <4>1 DEF Renaming, RenamingData, Anchored
      <4>2. CASE RenamingForth /\ x \in {op.from, op.to}
        <5>1. dir[op.from]["issues"] = Absent
          BY <2>2, <3>2, <4>2 DEF RenamingForth
        <5>2. dir[op.to]["issues"] # Absent => op.done # <<>>
          BY <2>2, <4>2, HasSome DEF RenamingForth
        <5> QED BY <2>2, <4>2, <5>1, <5>2 DEF RenamingForth
      <4>3. CASE RenamingBack /\ x \in {op.from, op.to}
        BY <2>2, <3>2, <4>3 DEF RenamingBack
      <4> QED BY <3>4, <4>1, <4>2, <4>3 DEF Renaming
    <3>5. CASE Grouping
      BY <2>2, <3>1, <3>5 DEF Grouping, Anchored
    <3>6. CASE Moving
      BY <2>2, <3>6 DEF Moving, MovingData, Anchored
    <3> QED BY <1>2, <3>3, <3>4, <3>5, <3>6 DEF Operation
  <2>3. dirty = 0 => \A x \in Paths : Anchored(dir, x)
    BY <2>2 DEF Anchored
  <2> QED BY <2>1, <2>3, DerivedSound
<1> QED BY <1>1, <1>2

-----------------------------------------------------------------------------
(* How an operation begins. *)

LEMMA HeadJoin ==
    ASSUME NEW S, NEW a \in Seq(S), NEW b \in Seq(S), a # <<>>
    PROVE  a \o b # <<>> /\ Head(a \o b) = Head(a)
OBVIOUS

LEMMA HasRight ==
    ASSUME NEW S, NEW a \in Seq(S), NEW b \in Seq(S), NEW s, Has(b, s)
    PROVE  Has(a \o b, s)
<1>1. PICK i \in 1 .. Len(b) : b[i] = s
  BY DEF Has
<1>2. Len(a) + i \in 1 .. Len(a \o b) /\ (a \o b)[Len(a) + i] = s
  BY <1>1
<1> QED BY <1>2 DEF Has

LEMMA HasLeft ==
    ASSUME NEW S, NEW a \in Seq(S), NEW b \in Seq(S), NEW s, Has(a, s)
    PROVE  Has(a \o b, s)
<1>1. PICK i \in 1 .. Len(a) : a[i] = s
  BY DEF Has
<1>2. i \in 1 .. Len(a \o b) /\ (a \o b)[i] = s
  BY <1>1
<1> QED BY <1>2 DEF Has

LEMMA HasOne ==
    ASSUME NEW s
    PROVE  Has(<<s>>, s)
<1>1. 1 \in DOMAIN <<s>> /\ <<s>>[1] = s
  OBVIOUS
<1> QED BY <1>1 DEF Has

LEMMA InitSafe == Init => IInv
<1> SUFFICES ASSUME Init PROVE IInv
  OBVIOUS
<1>1. \A p \in Paths : \A k \in Kinds : dir[p][k] = Absent
  BY DEF Init, Nothing, Catalog!Nothing, Kinds
<1>2. Nothing \in [Kinds -> Content]
  BY DEF Nothing, Catalog!Nothing, Kinds, Content
<1>3. dir \in Layout
  BY <1>1, <1>2, AbsentFits DEF Init, Layout
<1>4. Sound(dir, 0, used, staged)
  BY <1>1, <1>3, PlainKinds DEF Init, Sound, Pure, Shown, Anchored
<1>5. Disk
  <2>1. Lively
    BY <1>1, <1>3, NothingIs, PathParts DEF Init, Lively, Empty
  <2> QED BY <1>3, <2>1 DEF Init, Disk
<1>6. Staging /\ dirty \in 0 .. MaxDirty
  BY LifecycleAssumption DEF Init, Staging
<1> QED BY <1>4, <1>5, <1>6 DEF Init, IInv

LEMMA BeginIs ==
    ASSUME NEW kind, NEW from, NEW to, NEW todo, Begin(kind, from, to, todo)
    PROVE  /\ DOMAIN op' = Fields /\ op'.kind = kind /\ op'.from = from /\ op'.to = to
           /\ op'.todo = todo /\ op'.done = <<>> /\ op'.mode = "do" /\ op'.held = Absent
           /\ op'.snap = dir
           /\ UNCHANGED <<dir, groups, control, hidden, trash, dirty>>
BY DEF Begin, Fields, disk

\* What holds between two operations holds when the next one begins.
LEMMA Begins ==
    ASSUME IInv, op = Idle, op'.kind # "idle", DOMAIN op' = Fields, op'.snap = dir,
           UNCHANGED <<dir, groups, control, hidden, trash, dirty>>,
           used \subseteq used', staged' \subseteq staged, Staging',
           (Creating \/ Deleting \/ Renaming \/ Grouping \/ Moving)'
    PROVE  IInv'
<1>1. Disk'
  BY DEF IInv, Disk, Lively, Live, Empty
<1>2. op' # Idle
  BY DEF Idle
<1>3. dirty \in Nat /\ Sound(dir, dirty, used, staged)
  BY DEF IInv
<1>4. Sound(op'.snap, dirty', used', staged')
  BY <1>3, SoundGrows
<1> QED BY <1>1, <1>2, <1>4 DEF IInv, Operation, Fields

LEMMA BeginsCreating ==
    ASSUME IInv, op = Idle, NEW p \in Paths, NEW r \in Repositories, NEW kind \in {"create", "import"},
           groupExists(p[1]),
           Begin(kind, p, p, <<Make(p, "git", r), Make(p, "lfs", r)>>),
           dir[p]["git"] = Absent, dir[p]["lfs"] = Absent,
           dirty = 0 => dir[p]["issues"] = Absent,
           \A k \in Kinds : dir[p][k] # Absent => dirty > 0 /\ k = "issues" /\ r \in Importable,
           used \subseteq used', staged' \subseteq staged, Staging', r \in used', ~Shown(dir, r),
           \A i \in staged' : i.repo # r
    PROVE  IInv'
<1>1. /\ DOMAIN op' = Fields /\ op'.kind = kind /\ op'.from = p
      /\ op'.todo = <<Make(p, "git", r), Make(p, "lfs", r)>> /\ op'.done = <<>> /\ op'.mode = "do"
      /\ op'.held = Absent /\ op'.snap = dir
      /\ UNCHANGED <<dir, groups, control, hidden, trash, dirty>>
  BY BeginIs
<1>2. Live(p[1])'
  BY <1>1 DEF groupExists, Live
<1>3. CreatingData(r)'
  BY <1>1, <1>2 DEF CreatingData, Shown
<1>4. CreatingSteps(r)'
  BY <1>1 DEF CreatingSteps
<1>5. op'.kind # "idle"
  BY <1>1
<1> QED BY <1>1, <1>3, <1>4, <1>5, Begins DEF Creating

LEMMA CreateRequest ==
    ASSUME IInv, NEW p \in Paths, NEW r \in Repositories, createRepository(p, r)
    PROVE  IInv'
<1>1. /\ op = Idle /\ groupExists(p[1]) /\ Vacant(p) /\ r \notin used /\ used' = used \cup {r} /\ staged' = staged
      /\ Begin("create", p, p, <<Make(p, "git", r), Make(p, "lfs", r)>>)
  BY DEF createRepository
<1>2. Staging' /\ \A i \in staged' : i.repo # r
  BY <1>1 DEF IInv, Staging
<1>3. ~Shown(dir, r)
  BY <1>1 DEF IInv, Sound
<1>4. \A k \in Kinds : dir[p][k] = Absent
  BY <1>1 DEF Vacant
<1>5. "git" \in Kinds /\ "lfs" \in Kinds /\ "issues" \in Kinds
  BY DEF Kinds, Catalog!Kinds
<1> QED BY <1>1, <1>2, <1>3, <1>4, <1>5, BeginsCreating

LEMMA AdoptRequest ==
    ASSUME IInv, NEW i \in staged, importAdopt(i)
    PROVE  IInv'
<1> DEFINE p == i.at
           r == i.repo
<1>1. /\ op = Idle /\ groupExists(p[1]) /\ ImportVacant(p) /\ used' = used /\ staged' = staged \ {i}
      /\ Begin("import", p, p, <<Make(p, "git", r), Make(p, "lfs", r)>>)
  BY DEF importAdopt
<1>2. Staging' /\ (\A j \in staged' : j.repo # r) /\ p \in Paths /\ r \in Repositories /\ r \in used \cap Importable
  BY <1>1 DEF IInv, Staging
<1>3. ~Shown(dir, r)
  BY <1>1 DEF IInv, Sound
<1>4. \A k \in Kinds : k # "issues" => dir[p][k] = Absent
  BY <1>1 DEF ImportVacant, Kinds, Catalog!Kinds
<1>5. "git" \in Kinds /\ "lfs" \in Kinds /\ "issues" \in Kinds
  BY DEF Kinds, Catalog!Kinds
<1>6. dirty = 0 => dir[p]["issues"] = Absent
  BY <1>1, <1>2, <1>4, <1>5 DEF IInv, Sound, Anchored
<1>7. dirty \in Nat
  BY DEF IInv
<1> HIDE DEF p, r
<1> QED BY <1>1, <1>2, <1>3, <1>4, <1>5, <1>6, <1>7, BeginsCreating

LEMMA TrashesSteps ==
    ASSUME NEW p, NEW k \in Kinds
    PROVE  /\ <<Trash(p, k)>> \in Seq(Trashes(p)) /\ TrashPresent(p, k) \in Seq(Trashes(p))
           /\ dir[p][k] # Absent => Has(TrashPresent(p, k), Trash(p, k))
<1>1. Trash(p, k) \in Trashes(p)
  BY DEF Trashes
<1>2. <<Trash(p, k)>> \in Seq(Trashes(p)) /\ <<>> \in Seq(Trashes(p))
  BY <1>1
<1>3. Has(<<Trash(p, k)>>, Trash(p, k))
  BY HasOne
<1> QED BY <1>2, <1>3 DEF TrashPresent

LEMMA DeleteRequest ==
    ASSUME IInv, NEW p \in Paths, DeleteRepository(p)
    PROVE  IInv'
<1> DEFINE S == Trashes(p)
           t == TrashPresent(p, "lfs")
           u == TrashPresent(p, "build")
           v == TrashPresent(p, "reviews")
           w == TrashPresent(p, "issues")
           a == <<Trash(p, "git")>>
           todo == a \o t \o u \o v \o w
<1>1. op = Idle /\ Begin("delete", p, p, todo) /\ UNCHANGED <<staged, used>>
  BY DEF DeleteRepository
<1>2. /\ DOMAIN op' = Fields /\ op'.kind = "delete" /\ op'.from = p
      /\ op'.todo = todo /\ op'.done = <<>> /\ op'.mode = "do"
      /\ op'.held = Absent /\ op'.snap = dir
      /\ UNCHANGED <<dir, groups, control, hidden, trash, dirty>>
  BY <1>1, BeginIs
<1>3. "git" \in Kinds /\ "lfs" \in Kinds /\ "issues" \in Kinds /\ "build" \in Kinds /\ "reviews" \in Kinds
  BY DEF Kinds, Catalog!Kinds
<1>4. /\ todo \in Seq(S) /\ Head(todo) = Trash(p, "git")
      /\ dir[p]["issues"] # Absent => Has(todo, Trash(p, "issues"))
  <2>1. a \in Seq(S) /\ t \in Seq(S) /\ u \in Seq(S) /\ v \in Seq(S) /\ w \in Seq(S) /\ a # <<>> /\ Head(a) = Trash(p, "git")
    BY <1>3, TrashesSteps
  <2>2. dir[p]["issues"] # Absent => Has(w, Trash(p, "issues"))
    BY <1>3, TrashesSteps
  <2> HIDE DEF S, t, u, v, w, a
  <2>3. a \o t \in Seq(S) /\ a \o t # <<>> /\ Head(a \o t) = Head(a)
    BY <2>1, SeqJoin, HeadJoin
  <2>4. (a \o t) \o u \in Seq(S) /\ (a \o t) \o u # <<>> /\ Head((a \o t) \o u) = Head(a)
    BY <2>1, <2>3, SeqJoin, HeadJoin
  <2>5. ((a \o t) \o u) \o v \in Seq(S) /\ ((a \o t) \o u) \o v # <<>> /\ Head(((a \o t) \o u) \o v) = Head(a)
    BY <2>1, <2>4, SeqJoin, HeadJoin
  <2>6. todo \in Seq(S) /\ Head(todo) = Head(a)
    BY <2>1, <2>5, SeqJoin, HeadJoin
  <2>7. dir[p]["issues"] # Absent => Has(todo, Trash(p, "issues"))
    BY <2>1, <2>2, <2>5, HasRight
  <2> QED BY <2>1, <2>6, <2>7
<1> HIDE DEF todo
<1>5. (\E k \in Kinds : dir[p][k] # Absent) => Live(p[1])
  BY HoldsLive DEF IInv
<1>6. dirty = 0 => Anchored(dir, p)
  BY <1>1 DEF IInv, Sound
<1>7. Deleting'
  <2>1. Step' = Trash(p, "git")
    BY <1>2, <1>4 DEF Step
  <2>2. op'.done \in Seq(Untrashes(op'.snap[op'.from], op'.from))
    BY <1>2
  <2>3. (\E k \in Kinds : op'.snap[p][k] # Absent) => Live(p[1])'
    BY <1>2, <1>5 DEF Live
  <2>4. Anchored(dir, p) => Anchored(dir', p)
    BY <1>2
  <2> QED BY <1>2, <1>4, <1>6, <2>1, <2>2, <2>3, <2>4 DEF Deleting
<1>8. Staging'
  BY <1>1 DEF IInv, Staging
<1>9. op'.kind # "idle"
  BY <1>2
<1> QED BY <1>1, <1>2, <1>7, <1>8, <1>9, Begins

LEMMA BetweenPresent ==
    ASSUME NEW p, NEW q, NEW k \in Plain
    PROVE  <<Move(p, q, k)>> \in Seq(Between(p, q)) /\ MovePresent(p, q, k) \in Seq(Between(p, q))
<1>1. Move(p, q, k) \in Between(p, q)
  BY BetweenSteps
<1> QED BY <1>1 DEF MovePresent

LEMMA RenameRequest ==
    ASSUME IInv, NEW p \in Paths, NEW q \in Paths, RenameRepository(p, q)
    PROVE  IInv'
<1> DEFINE S == Between(p, q)
           t == MovePresent(p, q, "lfs")
           u == MovePresent(p, q, "build")
           a == <<Move(p, q, "git")>>
           i == Rewrite(p, q, "issues", p, q)
           v == <<i, Rewrite(p, q, "reviews", p, q)>>
           todo == a \o t \o u \o v
<1>1. op = Idle /\ p[1] = q[1] /\ p # q /\ Vacant(q) /\ Begin("rename", p, q, todo) /\ UNCHANGED <<staged, used>>
  BY DEF RenameRepository
<1>2. /\ DOMAIN op' = Fields /\ op'.kind = "rename" /\ op'.from = p /\ op'.to = q
      /\ op'.todo = todo /\ op'.done = <<>> /\ op'.mode = "do"
      /\ op'.held = Absent /\ op'.snap = dir
      /\ UNCHANGED <<dir, groups, control, hidden, trash, dirty>>
  BY <1>1, BeginIs
<1>3. "git" \in Plain /\ "lfs" \in Plain /\ "issues" \in Stores /\ "build" \in Plain /\ "reviews" \in Stores
  BY DEF Kinds, Catalog!Kinds, Stores, Catalog!Stores, Plain
<1>4. todo \in Seq(S) /\ Head(todo) = Move(p, q, "git") /\ Has(todo, i)
  <2>1. a \in Seq(S) /\ t \in Seq(S) /\ u \in Seq(S) /\ a # <<>> /\ Head(a) = Move(p, q, "git")
    BY <1>3, BetweenPresent
  <2>2. v \in Seq(S)
    <3>1. i \in S /\ Rewrite(p, q, "reviews", p, q) \in S
      BY <1>3, BetweenSteps DEF Rw
    <3> HIDE DEF S, i
    <3> QED BY <3>1
  <2>3. Has(v, i)
    <3>1. 1 \in DOMAIN v /\ v[1] = i
      OBVIOUS
    <3> HIDE DEF v, i
    <3> QED BY <3>1 DEF Has
  <2> HIDE DEF S, t, u, v, a, i
  <2>4. a \o t \in Seq(S) /\ a \o t # <<>> /\ Head(a \o t) = Head(a)
    BY <2>1, SeqJoin, HeadJoin
  <2>5. (a \o t) \o u \in Seq(S) /\ (a \o t) \o u # <<>> /\ Head((a \o t) \o u) = Head(a)
    BY <2>1, <2>4, SeqJoin, HeadJoin
  <2>6. todo \in Seq(S) /\ Head(todo) = Head(a)
    BY <2>2, <2>5, SeqJoin, HeadJoin
  <2>7. Has(todo, i)
    BY <2>2, <2>3, <2>5, HasRight
  <2> QED BY <2>1, <2>6, <2>7
<1> HIDE DEF todo, i
<1>5. \A k \in Kinds : dir[q][k] = Absent
  BY <1>1 DEF Vacant
<1>6. dirty = 0 => Anchored(dir, p)
  BY <1>1 DEF IInv, Sound
<1>7. Renaming'
  <2>1. Step' = Move(p, q, "git")
    BY <1>2, <1>4 DEF Step
  <2>2. op'.done \in Seq(Between(q, p))
    BY <1>2
  <2>3. Comes(p, p)' /\ Comes(q, p)'
    BY <1>2, <1>5 DEF Comes
  <2>4. Anchored(dir, p) => Anchored(dir', p)
    BY <1>2
  <2>5. RenamingData'
    BY <1>1, <1>2, <2>3 DEF RenamingData
  <2>6. dir'[q]["issues"] = Absent
    BY <1>2, <1>3, <1>5, PlainKinds
  <2>7. RenamingForth'
    BY <1>2, <1>4, <1>6, <2>1, <2>2, <2>4, <2>6 DEF RenamingForth, i
  <2> QED BY <2>5, <2>7 DEF Renaming
<1>8. Staging'
  BY <1>1 DEF IInv, Staging
<1>9. op'.kind # "idle"
  BY <1>2
<1> QED BY <1>1, <1>2, <1>7, <1>8, <1>9, Begins

LEMMA CreateGroupRequest ==
    ASSUME IInv, NEW g \in Groups, CreateGroup(g)
    PROVE  IInv'
<1> DEFINE todo == IF Rooted THEN <<Mkdir(g), Control(g)>> ELSE <<Mkdir(g)>>
<1>1. op = Idle /\ g \notin groups /\ Begin("group", g, g, todo) /\ UNCHANGED <<staged, used>>
  BY DEF CreateGroup
<1>2. /\ DOMAIN op' = Fields /\ op'.kind = "group" /\ op'.from = g /\ op'.to = g
      /\ op'.todo = todo /\ op'.done = <<>> /\ op'.mode = "do"
      /\ op'.held = Absent /\ op'.snap = dir
      /\ UNCHANGED <<dir, groups, control, hidden, trash, dirty>>
  BY <1>1, BeginIs
<1>3. todo \in Seq(Building(g))
  <2>1. Mkdir(g) \in Building(g) /\ Control(g) \in Building(g)
    BY DEF Building
  <2> QED BY <2>1
<1> HIDE DEF todo
<1>4. Empty(g)
  BY <1>1 DEF IInv, Disk, Lively, Live
<1>5. Empty(g)'
  BY <1>2, <1>4 DEF Empty
<1>6. Grouping'
  BY <1>2, <1>3, <1>5 DEF Grouping
<1>7. Staging'
  BY <1>1 DEF IInv, Staging
<1>8. op'.kind # "idle"
  BY <1>2
<1> QED BY <1>1, <1>2, <1>6, <1>7, <1>8, Begins

LEMMA RenameGroupRequest ==
    ASSUME IInv, NEW g \in Groups, NEW h \in Groups, RenameGroup(g, h)
    PROVE  IInv'
<1> DEFINE G == {g, h}
           z == IF Rooted THEN <<Control(h)>> ELSE <<>>
           todo == GroupSteps(g, h) \o z
<1>1. op = Idle /\ g # h /\ h \notin groups /\ Begin("move", g, h, todo) /\ UNCHANGED <<staged, used>>
  BY DEF RenameGroup
<1>2. /\ DOMAIN op' = Fields /\ op'.kind = "move" /\ op'.from = g /\ op'.to = h
      /\ op'.todo = todo /\ op'.done = <<>> /\ op'.mode = "do"
      /\ op'.held = Absent /\ op'.snap = dir
      /\ UNCHANGED <<dir, groups, control, hidden, trash, dirty>>
  BY <1>1, BeginIs
<1>3. todo \in Seq(Relocations(G))
  <2>1. GroupSteps(g, h) \in Seq(Relocations(G))
    BY GroupStepsAre
  <2>2. Control(h) \in Relocations(G)
    BY RelocationSteps
  <2> DEFINE R == Relocations(G)
  <2>3. z \in Seq(R)
    <3>1. Control(h) \in R
      BY <2>2
    <3> HIDE DEF R
    <3> QED BY <3>1
  <2> HIDE DEF G, z
  <2> QED BY <2>1, <2>3, SeqJoin
<1> HIDE DEF todo
<1>4. \A n \in NameSet : dir[<<h, n>>] = Nothing
  BY <1>1 DEF IInv, Disk, Lively, Live, Empty
<1>5. ASSUME NEW x \in Paths, x[1] \in G
      PROVE  Comes(x, <<g, x[2]>>)'
  <2>1. CASE x[1] = g
    <3>1. x = <<g, x[2]>>
      BY <2>1, PathParts
    <3>2. Comes(x, x)'
      BY <1>2 DEF Comes
    <3> QED BY <3>1, <3>2
  <2>2. CASE x[1] = h
    <3>1. \A k \in Kinds : dir[x][k] = Absent
      BY <1>4, <2>2, PathParts, NothingIs DEF IInv, Disk
    <3> QED BY <1>2, <3>1 DEF Comes
  <2> QED BY <1>5, <2>1, <2>2
<1>6. dirty = 0 => \A x \in Paths : Anchored(dir', x)
  BY <1>1, <1>2 DEF IInv, Sound
<1>7. MovingData(g)'
  BY <1>1, <1>2, <1>5, <1>6 DEF MovingData
<1>8. MovingSteps'
  BY <1>2, <1>3 DEF MovingSteps
<1>9. Staging'
  BY <1>1 DEF IInv, Staging
<1>10. op'.kind # "idle"
  BY <1>2
<1> QED BY <1>1, <1>2, <1>7, <1>8, <1>9, <1>10, Begins DEF Moving

-----------------------------------------------------------------------------
(* The requests that are a single step. *)

\* An operation goes on while an import outside is given up.
LEMMA OperationStays ==
    ASSUME Operation, UNCHANGED <<disk, op, dirty, used>>, staged' \subseteq staged, dirty \in Nat
    PROVE  Operation'
<1>1. UNCHANGED <<dir, groups, control, hidden, trash>>
  BY DEF disk
<1>2. Sound(op.snap, dirty, used, staged')
  BY SoundGrows DEF Operation
<1>3. Creating => Creating'
  BY <1>1 DEF Creating, CreatingData, CreatingSteps, Live
<1>4. Deleting => Deleting'
  BY <1>1 DEF Deleting, Live, Anchored, Step
<1>5. Renaming => Renaming'
  BY <1>1 DEF Renaming, RenamingData, RenamingForth, RenamingBack, Comes, Aside, Anchored, Step
<1>6. Grouping => Grouping'
  BY <1>1 DEF Grouping, Empty
<1>7. ASSUME Moving
      PROVE  Moving'
  <2>1. PICK g \in Groups : MovingData(g)
    BY <1>7 DEF Moving
  <2>2. MovingData(g)'
    BY <1>1, <2>1 DEF MovingData, Comes, Aside, Anchored, Step
  <2>3. MovingSteps'
    BY <1>7 DEF Moving, MovingSteps
  <2> QED BY <2>2, <2>3 DEF Moving
<1> QED BY <1>2, <1>3, <1>4, <1>5, <1>6, <1>7 DEF Operation

LEMMA FailRequest ==
    ASSUME IInv, NEW i \in staged, importFail(i)
    PROVE  IInv'
<1>1. staged' = staged \ {i} /\ UNCHANGED <<disk, used, op, dirty>>
  BY DEF importFail
<1>2. UNCHANGED <<dir, groups, control, hidden, trash>> /\ staged' \subseteq staged /\ dirty \in Nat
  BY <1>1 DEF disk, IInv
<1>3. Disk' /\ Staging' /\ dirty' \in 0 .. MaxDirty
  BY <1>1, <1>2 DEF IInv, Disk, Lively, Live, Empty, Staging
<1>4. CASE op = Idle
  <2>1. Sound(dir, dirty, used, staged')
    BY <1>2, <1>4, SoundGrows DEF IInv
  <2> QED BY <1>1, <1>2, <1>3, <1>4, <2>1 DEF IInv
<1>5. CASE op # Idle
  <2>1. Operation'
    BY <1>1, <1>2, <1>5, OperationStays DEF IInv
  <2> QED BY <1>1, <1>3, <1>5, <2>1 DEF IInv
<1> QED BY <1>4, <1>5

LEMMA StageRequest ==
    ASSUME IInv, NEW p \in Paths, NEW r \in Repositories, importStage(p, r)
    PROVE  IInv'
<1> DEFINE i == [at |-> p, repo |-> r]
<1>1. /\ op = Idle /\ r \in Importable \ used /\ used' = used \cup {r}
      /\ staged' = staged \cup {i} /\ UNCHANGED <<disk, op, dirty>>
  BY DEF importStage
<1>2. UNCHANGED <<dir, groups, control, hidden, trash>>
  BY <1>1 DEF disk
<1>3. i.repo = r /\ i \in [at : Paths, repo : Repositories]
  OBVIOUS
<1>4. Disk' /\ dirty' \in 0 .. MaxDirty
  BY <1>1, <1>2 DEF IInv, Disk, Lively, Live, Empty
<1> HIDE DEF i
<1>5. Staging'
  <2>1. Staging
    BY DEF IInv
  <2>2. staged' \subseteq [at : Paths, repo : Repositories] /\ used' \subseteq Repositories
    BY <1>1, <1>3, <2>1 DEF Staging
  <2>3. \A j \in staged' : j.repo \in used' \cap Importable
    BY <1>1, <1>3, <2>1 DEF Staging
  <2>4. \A j \in staged : j.repo # i.repo
    BY <1>1, <1>3, <2>1 DEF Staging
  <2>5. \A j, l \in staged' : j.repo = l.repo => j = l
    BY <1>1, <2>1, <2>4 DEF Staging
  <2> QED BY <2>2, <2>3, <2>5 DEF Staging
<1>6. Sound(dir, dirty, used', staged')
  BY <1>1, <1>3 DEF IInv, Sound
<1> QED BY <1>1, <1>2, <1>4, <1>5, <1>6 DEF IInv

LEMMA DeleteGroupRequest ==
    ASSUME IInv, NEW g \in Groups, DeleteGroup(g)
    PROVE  IInv' /\ UNCHANGED <<dir, hidden, trash>>
<1>1. /\ op = Idle /\ (\A n \in NameSet : Vacant(<<g, n>>)) /\ hidden[g] = {}
      /\ groups' = groups \ {g} /\ control' = [control EXCEPT ![g] = Absent]
      /\ UNCHANGED <<dir, hidden, trash, staged, used, op, dirty>>
  BY DEF DeleteGroup
<1>2. Disk
  BY DEF IInv
<1>3. Empty(g)
  <2>1. ASSUME NEW n \in NameSet
        PROVE  dir[<<g, n>>] = Nothing
    BY <1>1, <1>2, PathParts, NothingIs DEF Vacant, Disk
  <2> QED BY <1>1, <2>1 DEF Empty
<1>4. groups' \subseteq Groups /\ control' \in [Groups -> Groups \cup {Absent}]
  BY <1>1, <1>2 DEF Disk
<1>5. \A h \in Groups : Live(h) /\ ~Live(h)' => Empty(h)
  <2> SUFFICES ASSUME NEW h \in Groups, h # g, Live(h) PROVE Live(h)'
    BY <1>3
  <2> QED BY <1>1, <1>2 DEF Live, Disk
<1>6. Disk'
  BY <1>1, <1>2, <1>4, <1>5, GroupDisk
<1>7. Staging' /\ dirty' \in 0 .. MaxDirty
  BY <1>1 DEF IInv, Staging
<1> QED BY <1>1, <1>6, <1>7 DEF IInv

LEMMA GrowRequest ==
    ASSUME IInv, NEW p \in Paths, NEW k \in Sidecars, Grow(p, k)
    PROVE  IInv' /\ KeptIn(dir, hidden, trash) \subseteq KeptIn(dir', hidden', trash')
<1> DEFINE r == dir[p]["git"].repo
           c == Data(r, k, p)
<1>1. /\ op = Idle /\ dir[p]["git"] # Absent /\ dir[p][k] = Absent
      /\ dir' = [dir EXCEPT ![p][k] = c]
      /\ UNCHANGED <<groups, control, hidden, trash, staged, used, op, dirty>>
  BY DEF Grow
<1>2. k \in Kinds /\ "git" \in Kinds /\ "issues" \in Kinds /\ Disk /\ dirty \in Nat
  BY LifecycleAssumption, PlainKinds DEF IInv
<1>3. Fits(k, c) /\ c # Absent /\ c.repo = r
  <2>1. r \in Repositories
    BY <1>1, <1>2, LayoutAt, Recorded DEF Disk
  <2> QED BY <1>2, <2>1, DataFits
<1>4. dir' = With(dir, p, k, c)
  BY <1>1 DEF With
<1> HIDE DEF c
<1>5. /\ Disk' /\ dir'[p][k] = c
      /\ \A x \in Paths : x # p => dir'[x] = dir[x]
      /\ \A x \in Paths : \A l \in Kinds : x # p \/ l # k => dir'[x][l] = dir[x][l]
  <2>1. Live(p[1])
    BY <1>1, <1>2, HoldsLive
  <2>2. /\ hidden' \in [Groups -> SUBSET [repo : Repositories, k : Stores]]
        /\ trash' \subseteq [repo : Repositories, k : Kinds]
    BY <1>1, <1>2 DEF Disk
  <2> QED BY <1>1, <1>2, <1>3, <1>4, <2>1, <2>2, PutDisk
<1>6. KeptIn(dir, hidden, trash) \subseteq KeptIn(dir', hidden', trash')
  BY <1>1, <1>2, <1>3, <1>4, PutKeeps
<1>7. Sound(dir, dirty, used, staged)
  BY <1>1 DEF IInv
<1>8. Pure(dir', dirty)
  <2>1. \A x \in Paths : x # p => \A l \in Kinds : dir'[x][l] = dir[x][l]
    BY <1>5
  <2>2. \A l \in Kinds : l # k => dir'[p][l] = dir[p][l]
    BY <1>5
  <2>3. \A l \in Kinds : dir[p][l] # Absent =>
          dir[p][l].repo = r \/ (dirty > 0 /\ l = "issues" /\ r \in Importable)
    BY <1>1, <1>2, <1>7 DEF Sound, Pure
  <2>4. \A x \in Paths : x # p => \A l, m \in Kinds :
          (dir'[x][l] # Absent /\ dir'[x][m] # Absent) =>
             \/ dir'[x][l].repo = dir'[x][m].repo
             \/ dirty > 0 /\ l = "issues" /\ dir'[x][m].repo \in Importable
             \/ dirty > 0 /\ m = "issues" /\ dir'[x][l].repo \in Importable
    BY <1>7, <2>1 DEF Sound, Pure
  <2>5. \A l, m \in Kinds :
          (dir'[p][l] # Absent /\ dir'[p][m] # Absent) =>
             \/ dir'[p][l].repo = dir'[p][m].repo
             \/ dirty > 0 /\ l = "issues" /\ dir'[p][m].repo \in Importable
             \/ dirty > 0 /\ m = "issues" /\ dir'[p][l].repo \in Importable
    <3> HIDE DEF r
    <3> QED BY <1>3, <1>5, <2>2, <2>3
  <2> QED BY <2>4, <2>5 DEF Pure
<1>9. ASSUME NEW s, Shown(dir', s)
      PROVE  Shown(dir, s)
  <2>1. PICK x \in Paths, l \in Kinds : dir'[x][l] # Absent /\ dir'[x][l].repo = s
    BY <1>9 DEF Shown
  <2>2. CASE x = p /\ l = k
    BY <1>1, <1>2, <1>3, <1>5, <2>1, <2>2 DEF Shown
  <2>3. CASE x # p \/ l # k
    BY <1>5, <2>1, <2>3 DEF Shown
  <2> QED BY <2>2, <2>3
<1>10. dirty = 0 => \A x \in Paths : Anchored(dir', x)
  BY <1>1, <1>2, <1>5, <1>7 DEF Sound, Anchored
<1>11. Sound(dir', dirty, used, staged)
  BY <1>5, <1>7, <1>8, <1>9, <1>10 DEF Sound, Disk
<1>12. Staging' /\ dirty' \in 0 .. MaxDirty
  BY <1>1 DEF IInv, Staging
<1> QED BY <1>1, <1>5, <1>6, <1>11, <1>12 DEF IInv

-----------------------------------------------------------------------------
(* The steps of an operation. *)

\* While it runs, an operation is one of five kinds.
LEMMA KindIs ==
    ASSUME Operation
    PROVE  /\ op.kind \in {"create", "import", "delete", "rename", "group", "move"}
           /\ op.kind = "create" => Creating
           /\ op.kind = "group" => Grouping
           /\ op.held # Absent => Renaming \/ Moving
           /\ DOMAIN op = Fields
<1>1. Creating => op.kind \in {"create", "import"} /\ op.held = Absent
  BY DEF Creating, CreatingData
<1>2. Deleting => op.kind = "delete" /\ op.held = Absent
  BY DEF Deleting
<1>3. Renaming => op.kind = "rename"
  BY DEF Renaming, RenamingData
<1>4. Grouping => op.kind = "group" /\ op.held = Absent
  BY DEF Grouping
<1>5. Moving => op.kind = "move"
  BY DEF Moving, MovingData
<1> QED BY <1>1, <1>2, <1>3, <1>4, <1>5 DEF Operation, Fields

\* Only the renaming of a repository or of a group rewrites records.
LEMMA RewriteIs ==
    ASSUME Operation, op.todo # <<>>, Step.do = "rewrite"
    PROVE  Renaming \/ Moving
<1>1. ~Creating
  <2>1. SUFFICES ASSUME NEW r \in used, CreatingSteps(r) PROVE FALSE
    BY DEF Creating
  <2>2. \A p, k : Make(p, k, r).do # "rewrite" /\ Discard(p, k).do # "rewrite"
    BY DEF Make, Discard
  <2> QED BY <2>1, <2>2 DEF CreatingSteps, Step
<1>2. ~Deleting
  <2>1. \A p, k, c : Trash(p, k).do # "rewrite" /\ Untrash(p, k, c).do # "rewrite"
    BY DEF Trash, Untrash
  <2> QED BY <2>1, DeletingShape
<1>3. ~Grouping
  <2>1. Grouping => Step \in Building(op.to)
    BY SeqParts DEF Grouping, Step
  <2>2. \A g : \A s \in Building(g) : s.do # "rewrite"
    BY DEF Building, Mkdir, Control
  <2> QED BY <2>1, <2>2
<1> QED BY <1>1, <1>2, <1>3 DEF Operation

LEMMA Executes ==
    ASSUME IInv, op # Idle, Disk', DOMAIN op' = Fields, op'.kind = op.kind, op'.snap = op.snap,
           (Creating \/ Deleting \/ Renaming \/ Grouping \/ Moving)',
           UNCHANGED <<staged, used>>, dirty' \in 0 .. MaxDirty, dirty' >= dirty
    PROVE  IInv'
<1>1. Operation /\ dirty \in Nat /\ dirty' \in Nat
  BY LifecycleAssumption DEF IInv
<1>2. Sound(op'.snap, dirty', used', staged')
  BY <1>1, SoundGrows DEF Operation
<1>3. op' # Idle
  <2>1. op'.kind # "idle"
    BY <1>1, KindIs
  <2> QED BY <2>1 DEF Idle
<1>4. Staging'
  BY DEF IInv, Staging
<1> QED BY <1>2, <1>3, <1>4 DEF IInv, Operation, Fields

LEMMA KeptConserved ==
    ASSUME KeptIn(dir, hidden, trash) \subseteq KeptIn(dir', hidden', trash')
    PROVE  Conserved
BY DEF Conserved

LEMMA DiskStays ==
    ASSUME UNCHANGED disk
    PROVE  (Disk => Disk') /\ Conserved
<1>1. UNCHANGED <<dir, groups, control, hidden, trash>>
  BY DEF disk
<1> QED BY <1>1 DEF Disk, Lively, Live, Empty, Conserved

LEMMA StepDoneSafe ==
    ASSUME IInv, StepDone
    PROVE  IInv' /\ Conserved
<1>1. op # Idle /\ op.todo # <<>> /\ UNCHANGED <<staged, used, dirty>>
  BY DEF StepDone, Running
<1>2. /\ Disk /\ Operation /\ DOMAIN op = Fields /\ op.snap \in Layout /\ used \subseteq Repositories
      /\ dirty \in 0 .. MaxDirty /\ dirty \in Nat
  BY <1>1, KindIs DEF IInv, Operation, Sound, Staging
<1>3. CASE Creating
  BY <1>1, <1>2, <1>3, CreatingStep, Executes DEF Frame
<1>4. CASE Deleting
  BY <1>1, <1>2, <1>4, DeletingStep, Executes, KeptConserved DEF Frame
<1>5. CASE Renaming
  BY <1>1, <1>2, <1>5, RenamingMoves, Executes, KeptConserved DEF Frame
<1>6. CASE Grouping
  BY <1>1, <1>2, <1>6, GroupingStep, Executes, KeptConserved DEF Frame
<1>7. CASE Moving
  BY <1>1, <1>2, <1>7, MovingStep, Executes, KeptConserved DEF MoveFrame
<1> QED BY <1>2, <1>3, <1>4, <1>5, <1>6, <1>7 DEF Operation

\* Whatever fails, what is left to do puts back what belongs to the operation.
LEMMA FailureSafe ==
    ASSUME IInv, Running, op' = AfterFailure(Step), UNCHANGED <<disk, staged, used>>,
           Soil(~Forward) \/ (op.held # Absent /\ Soil(TRUE))
    PROVE  IInv' /\ Conserved
<1>1. op # Idle /\ op.todo # <<>> /\ UNCHANGED <<staged, used>> /\ UNCHANGED disk
  BY DEF Running
<1>2. /\ Disk /\ Operation /\ DOMAIN op = Fields /\ dirty \in 0 .. MaxDirty /\ dirty \in Nat
  BY <1>1, KindIs DEF IInv
<1>3. dirty' \in 0 .. MaxDirty /\ dirty' >= dirty /\ dirty' \in Nat
  <2>1. (~Forward) \in BOOLEAN /\ TRUE \in BOOLEAN
    OBVIOUS
  <2>2. dirty' \in 0 .. MaxDirty /\ dirty' >= dirty
    BY <1>2, <2>1, Soiled
  <2> QED BY <1>2, <2>2, LifecycleAssumption
<1>4. Disk' /\ Conserved
  BY <1>1, <1>2, DiskStays
<1>5. CASE Creating
  <2>1. Soil(~Forward)
    BY <1>5 DEF Creating, CreatingData
  <2> QED BY <1>1, <1>2, <1>3, <1>4, <1>5, <2>1, CreatingFails, Executes DEF Frame
<1>6. CASE Deleting
  <2>1. Soil(~Forward)
    BY <1>6 DEF Deleting
  <2> QED BY <1>1, <1>2, <1>3, <1>4, <1>6, <2>1, DeletingFails, Executes DEF Frame
<1>7. CASE Renaming
  BY <1>1, <1>2, <1>3, <1>4, <1>7, RenamingFails, Executes DEF Frame
<1>8. CASE Grouping
  BY <1>1, <1>2, <1>3, <1>4, <1>8, GroupingFails, Executes DEF Frame
<1>9. CASE Moving
  BY <1>1, <1>2, <1>3, <1>4, <1>9, MovingFails, Executes DEF MoveFrame
<1> QED BY <1>2, <1>5, <1>6, <1>7, <1>8, <1>9 DEF Operation

LEMMA LeavesSafe ==
    ASSUME IInv, InitLeavesDirectory
    PROVE  IInv' /\ Conserved
<1>1. op # Idle /\ op.kind = "create" /\ UNCHANGED <<staged, used, dirty>>
  BY DEF InitLeavesDirectory, Running
<1>2. /\ Disk /\ Creating /\ DOMAIN op = Fields /\ used \subseteq Repositories
      /\ dirty \in 0 .. MaxDirty /\ dirty \in Nat
  BY <1>1, KindIs DEF IInv, Staging
<1> QED BY <1>1, <1>2, CreatingLeaves, Executes DEF Frame

LEMMA AbortsSafe ==
    ASSUME IInv, ControlNotMoved
    PROVE  IInv' /\ Conserved
<1>1. op # Idle /\ op.kind = "group" /\ UNCHANGED <<staged, used, dirty>>
  BY DEF ControlNotMoved, Running
<1>2. Disk /\ Grouping /\ DOMAIN op = Fields /\ dirty \in 0 .. MaxDirty /\ dirty \in Nat
  BY <1>1, KindIs DEF IInv
<1> QED BY <1>1, <1>2, GroupingAborts, Executes, KeptConserved DEF Frame

LEMMA SkipsSafe ==
    ASSUME IInv, RewriteNothing
    PROVE  IInv' /\ Conserved
<1>1. /\ op # Idle /\ op.todo # <<>> /\ Step.do = "rewrite"
      /\ UNCHANGED <<staged, used, dirty>> /\ UNCHANGED disk
  BY DEF RewriteNothing, Running
<1>2. /\ Disk /\ (Renaming \/ Moving) /\ DOMAIN op = Fields
      /\ dirty \in 0 .. MaxDirty /\ dirty \in Nat
  BY <1>1, KindIs, RewriteIs DEF IInv
<1>3. Disk' /\ Conserved
  BY <1>1, <1>2, DiskStays
<1>4. CASE Renaming
  BY <1>1, <1>2, <1>3, <1>4, RenamingSkips, Executes DEF Frame
<1>5. CASE Moving
  BY <1>1, <1>2, <1>3, <1>5, MovingSkips, Executes DEF MoveFrame
<1> QED BY <1>2, <1>4, <1>5

LEMMA HideSafe ==
    ASSUME IInv, Hide
    PROVE  IInv' /\ Conserved
<1>1. op # Idle /\ op.todo # <<>> /\ Step.do = "rewrite" /\ UNCHANGED <<staged, used, dirty>>
  BY DEF Hide, Running
<1>2. /\ Disk /\ (Renaming \/ Moving) /\ DOMAIN op = Fields
      /\ dirty \in 0 .. MaxDirty /\ dirty \in Nat
  BY <1>1, KindIs, RewriteIs DEF IInv
<1>3. CASE Renaming
  BY <1>1, <1>2, <1>3, RenamingHides, Executes, KeptConserved DEF Frame
<1>4. CASE Moving
  BY <1>1, <1>2, <1>4, MovingHides, Executes, KeptConserved DEF MoveFrame
<1> QED BY <1>2, <1>3, <1>4

LEMMA PublishSafe ==
    ASSUME IInv, Publish
    PROVE  IInv' /\ Conserved
<1>1. op # Idle /\ op.held # Absent /\ UNCHANGED <<staged, used, dirty>>
  BY DEF Publish, Running
<1>2. /\ Disk /\ (Renaming \/ Moving) /\ DOMAIN op = Fields
      /\ dirty \in 0 .. MaxDirty /\ dirty \in Nat
  BY <1>1, KindIs DEF IInv
<1>3. CASE Renaming
  BY <1>1, <1>2, <1>3, RenamingPublishes, Executes, KeptConserved DEF Frame
<1>4. CASE Moving
  BY <1>1, <1>2, <1>4, MovingPublishes, Executes, KeptConserved DEF MoveFrame
<1> QED BY <1>2, <1>3, <1>4

LEMMA PublishFailsSafe ==
    ASSUME IInv, PublishFails
    PROVE  IInv' /\ Conserved
<1>1. op # Idle /\ op.held # Absent /\ Soil(~Forward) /\ UNCHANGED <<staged, used>>
  BY DEF PublishFails, Running
<1>2. /\ Disk /\ (Renaming \/ Moving) /\ DOMAIN op = Fields
      /\ dirty \in 0 .. MaxDirty /\ dirty \in Nat
  BY <1>1, KindIs DEF IInv
<1>3. dirty' \in 0 .. MaxDirty /\ dirty' >= dirty /\ dirty' \in Nat
  <2>1. (~Forward) \in BOOLEAN
    OBVIOUS
  <2>2. dirty' \in 0 .. MaxDirty /\ dirty' >= dirty
    BY <1>1, <1>2, <2>1, Soiled
  <2> QED BY <1>2, <2>2, LifecycleAssumption
<1>4. CASE Renaming
  BY <1>1, <1>2, <1>3, <1>4, RenamingPublishFails, Executes, KeptConserved DEF Frame
<1>5. CASE Moving
  BY <1>1, <1>2, <1>3, <1>5, MovingPublishFails, Executes, KeptConserved DEF MoveFrame
<1> QED BY <1>2, <1>4, <1>5

LEMMA FinishSafe ==
    ASSUME IInv, Finish
    PROVE  IInv' /\ Conserved
<1>1. op # Idle /\ op.todo = <<>> /\ op' = Idle /\ UNCHANGED <<staged, used, dirty>> /\ UNCHANGED disk
  BY DEF Finish
<1>2. Disk /\ Operation /\ dirty \in 0 .. MaxDirty /\ dirty \in Nat /\ Staging
  BY <1>1 DEF IInv
<1>3. Sound(dir, dirty, used, staged)
  BY <1>1, <1>2, OperationSound
<1>4. Disk' /\ Conserved /\ dir' = dir
  BY <1>1, <1>2, DiskStays DEF disk
<1>5. Staging'
  BY <1>1, <1>2 DEF Staging
<1> QED BY <1>1, <1>2, <1>3, <1>4, <1>5 DEF IInv

\* An operation that the end of the process cuts short leaves a layout that is
\* sound for one more operation that ended halfway.
LEMMA OperationLeft ==
    ASSUME Disk, Operation, dirty \in Nat, NEW n \in Nat, n > dirty
    PROVE  Sound(dir, n, used, staged)
<1>1. CASE Creating
  <2>1. Sound(dir, dirty, used, staged)
    BY <1>1, CreatingSound
  <2> QED BY <2>1, SoundGrows
<1>2. CASE ~Creating
  <2>1. Derived(dir, op.snap) /\ Sound(op.snap, dirty, used, staged) /\ dir \in Layout
    BY <1>2, OperationDerived DEF Operation, Disk
  <2>2. Sound(op.snap, n, used, staged)
    BY <2>1, SoundGrows
  <2> QED BY <2>1, <2>2, DerivedSound
<1> QED BY <1>1, <1>2

LEMMA CrashSafe ==
    ASSUME IInv, Crash
    PROVE  IInv' /\ Conserved
<1>1. /\ dirty < MaxDirty /\ op' = Idle /\ staged' = {} /\ Soil(op # Idle)
      /\ UNCHANGED disk /\ used' = used
  BY DEF Crash
<1>2. Disk /\ dirty \in 0 .. MaxDirty /\ dirty \in Nat /\ MaxDirty \in Nat
  BY LifecycleAssumption DEF IInv
<1>3. Disk' /\ Conserved /\ dir' = dir
  BY <1>1, <1>2, DiskStays DEF disk
<1>4. Staging'
  BY <1>1 DEF IInv, Staging
<1>5. CASE op = Idle
  <2>1. dirty' = dirty
    BY <1>1, <1>5 DEF Soil
  <2>2. Sound(dir, dirty, used, staged)
    BY <1>5 DEF IInv
  <2>3. Sound(dir, dirty, used, staged')
    BY <1>1, <1>2, <2>2, SoundGrows
  <2> QED BY <1>1, <1>2, <1>3, <1>4, <2>1, <2>3 DEF IInv
<1>6. CASE op # Idle
  <2>1. dirty' = dirty + 1
    BY <1>1, <1>2, <1>6 DEF Soil
  <2>2. dirty' \in Nat /\ dirty' > dirty /\ dirty' \in 0 .. MaxDirty
    BY <1>1, <1>2, <2>1
  <2>3. Sound(dir, dirty', used, staged)
    BY <1>2, <1>6, <2>2, OperationLeft DEF IInv
  <2>4. Sound(dir, dirty', used, staged')
    BY <1>1, <2>2, <2>3, SoundGrows
  <2> QED BY <1>1, <1>3, <1>4, <2>2, <2>4 DEF IInv
<1> QED BY <1>5, <1>6

-----------------------------------------------------------------------------
(* Every step. *)

LEMMA RequestSafe ==
    ASSUME IInv, Request
    PROVE  IInv' /\ KeptIn(dir, hidden, trash) \subseteq KeptIn(dir', hidden', trash')
<1> DEFINE Same3 == UNCHANGED <<dir, hidden, trash>>
<1>0. Same3 => KeptIn(dir, hidden, trash) \subseteq KeptIn(dir', hidden', trash')
  OBVIOUS
<1>1. ASSUME NEW p \in Paths, NEW r \in Repositories, createRepository(p, r)
      PROVE  IInv' /\ Same3
  BY <1>1, CreateRequest DEF createRepository, Begin, disk
<1>2. ASSUME NEW p \in Paths, NEW r \in Repositories, importStage(p, r)
      PROVE  IInv' /\ Same3
  BY <1>2, StageRequest DEF importStage, disk
<1>3. ASSUME NEW i \in staged, importFail(i)
      PROVE  IInv' /\ Same3
  BY <1>3, FailRequest DEF importFail, disk
<1>4. ASSUME NEW i \in staged, importAdopt(i)
      PROVE  IInv' /\ Same3
  BY <1>4, AdoptRequest DEF importAdopt, Begin, disk
<1>5. ASSUME NEW p \in Paths, DeleteRepository(p)
      PROVE  IInv' /\ Same3
  BY <1>5, DeleteRequest DEF DeleteRepository, Begin, disk
<1>6. ASSUME NEW p \in Paths, NEW q \in Paths, RenameRepository(p, q)
      PROVE  IInv' /\ Same3
  BY <1>6, RenameRequest DEF RenameRepository, Begin, disk
<1>7. ASSUME NEW g \in Groups, CreateGroup(g)
      PROVE  IInv' /\ Same3
  BY <1>7, CreateGroupRequest DEF CreateGroup, Begin, disk
<1>8. ASSUME NEW g \in Groups, DeleteGroup(g)
      PROVE  IInv' /\ Same3
  BY <1>8, DeleteGroupRequest
<1>9. ASSUME NEW g \in Groups, NEW h \in Groups, RenameGroup(g, h)
      PROVE  IInv' /\ Same3
  BY <1>9, RenameGroupRequest DEF RenameGroup, Begin, disk
<1>10. ASSUME NEW p \in Paths, NEW k \in Sidecars, Grow(p, k)
       PROVE  IInv' /\ KeptIn(dir, hidden, trash) \subseteq KeptIn(dir', hidden', trash')
  BY <1>10, GrowRequest
<1> HIDE DEF Same3
<1> QED BY <1>0, <1>1, <1>2, <1>3, <1>4, <1>5, <1>6, <1>7, <1>8, <1>9, <1>10 DEF Request

LEMMA ExecuteSafe ==
    ASSUME IInv, Execute
    PROVE  IInv' /\ Conserved
<1>1. CASE StepFails
  BY <1>1, FailureSafe DEF StepFails
<1>2. CASE HideFails
  BY <1>2, FailureSafe DEF HideFails
<1>3. CASE RestoreFails
  BY <1>3, FailureSafe DEF RestoreFails
<1> QED BY <1>1, <1>2, <1>3, StepDoneSafe, LeavesSafe, AbortsSafe, SkipsSafe, HideSafe, PublishSafe,
           PublishFailsSafe, FinishSafe DEF Execute

LEMMA StutterSafe ==
    ASSUME IInv, UNCHANGED vars
    PROVE  IInv'
<1>1. UNCHANGED <<disk, staged, used, op, dirty>> /\ UNCHANGED disk
  BY DEF vars, disk
<1>2. Disk' /\ Staging' /\ dirty' \in 0 .. MaxDirty /\ dir' = dir /\ dirty \in Nat
  BY <1>1, DiskStays DEF IInv, Staging, disk
<1>3. op # Idle => Operation'
  BY <1>1, <1>2, OperationStays DEF IInv
<1>4. op = Idle => Sound(dir', dirty', used', staged')
  BY <1>1, <1>2 DEF IInv
<1> QED BY <1>1, <1>2, <1>3, <1>4 DEF IInv

LEMMA NextSafe ==
    ASSUME IInv, [Next]_vars
    PROVE  IInv'
BY RequestSafe, ExecuteSafe, CrashSafe, StutterSafe DEF Next

\* What the layout, the operation and the numbers are like, always: between two
\* operations it is sound, and during one it still comes from the layout in
\* which the operation began.
THEOREM LifecycleInductive == Spec => []IInv
BY InitSafe, NextSafe, PTL DEF Spec

LEMMA TypeCorrect == IInv => TypeOK
<1> SUFFICES ASSUME IInv PROVE TypeOK
  OBVIOUS
<1>1. Disk /\ Staging /\ dirty \in 0 .. MaxDirty
  BY DEF IInv
<1>2. /\ dir \in [Paths -> [Kinds -> Content]]
      /\ \A p \in Paths : \A k \in Kinds : dir[p][k] # Absent => (dir[p][k].at # Absent <=> k \in Stores)
  BY <1>1 DEF Disk, Layout, Fits
<1>3. op.kind \in {"idle", "create", "import", "delete", "rename", "group", "move"}
  <2>1. op = Idle => op.kind = "idle"
    BY DEF Idle
  <2> QED BY <2>1, KindIs DEF IInv
<1> QED BY <1>1, <1>2, <1>3 DEF TypeOK, Disk, Staging

\* The layout, what is hidden and in the trash, the staged imports and the number
\* of unfinished operations are of their types, and only record stores keep
\* records that name a path.
THEOREM LifecycleTypeCorrect == Spec => []TypeOK
BY LifecycleInductive, TypeCorrect, PTL

\* Whatever fails, and whenever the process ends: the data under one path is that
\* of one repository, but for what an import takes over, for createRepository and
\* RenameRepositoryLocked refuse a path under which anything was left behind.
THEOREM DataNeverMixed == Spec => []NeverMixed
<1>1. IInv => NeverMixed
  <2> SUFFICES ASSUME IInv PROVE Pure(dir, dirty)
    BY DEF NeverMixed, Pure
  <2>1. dirty \in Nat /\ Disk
    BY DEF IInv
  <2>2. CASE op = Idle
    BY <2>2 DEF IInv, Sound
  <2>3. CASE op # Idle
    BY <2>1, <2>3, OperationPure DEF IInv
  <2> QED BY <2>2, <2>3
<1> QED BY <1>1, LifecycleInductive, PTL

\* Whatever fails, and whenever the process ends: the directory of a root group
\* without a control repository holds no data.  createGroup may leave one, and
\* groupExists then keeps every other request away from it.
THEOREM StrandedGroupsAreEmpty == Spec => []StrandedGroupEmpty
<1>1. IInv => StrandedGroupEmpty
  BY DEF IInv, Disk, Lively, Live, Empty, StrandedGroupEmpty
<1> QED BY <1>1, LifecycleInductive, PTL

\* Whatever fails, and whenever the process ends: no step of an operation, of its
\* rollback or of the requests between them removes data for good, but for what a
\* creation or an import that fails has itself just made.
THEOREM DataIsNeverLost == Spec => NothingLost
<1> DEFINE Loses == \A d \in Kept \ Kept' :
                      /\ op.kind \in {"create", "import"}
                      /\ \A p \in Paths : op.snap[p][d.k] # Absent => op.snap[p][d.k].repo # d.repo
<1>1. ASSUME IInv, Next
      PROVE  Loses
  <2>1. Kept = KeptIn(dir, hidden, trash) /\ Kept' = KeptIn(dir', hidden', trash')
    BY DEF Kept, KeptIn, Found
  <2>2. Conserved
    BY <1>1, RequestSafe, ExecuteSafe, CrashSafe, KeptConserved DEF Next
  <2> QED BY <2>1, <2>2 DEF Conserved
<1>2. ASSUME IInv, [Next]_vars
      PROVE  [Loses]_vars
  BY <1>1, <1>2
<1> QED BY <1>2, LifecycleInductive, PTL DEF Spec, NothingLost

-----------------------------------------------------------------------------
(* Until an operation ends halfway. *)

\* The data c of kind k, as it has to be under path q.
Cell(c, k, q) == IF c = Absent THEN Absent ELSE Data(c.repo, k, q)

\* Whatever names a path names the one it is kept under.
Named(d) == \A p \in Paths : \A k \in Kinds : d[p][k] = Cell(d[p][k], k, p)

Distinct(t) == \A i, j \in DOMAIN t : t[i] = t[j] => i = j

\* Of the repository r, the kinds in K are there.
Made(p, r, K) == [k \in Kinds |-> IF k \in K THEN Data(r, k, p) ELSE Absent]

\* A creation or an import has made as much as its place in the list says.
Created(r) ==
  LET p == op.from IN
  /\ p \in Paths /\ r \in Repositories /\ ~Shown(op.snap, r)
  /\ usable = op.usable /\ p[1] \in op.usable /\ op.snap[p] = Nothing
  /\ \A x \in Paths : x # p => dir[x] = op.snap[x]
  /\ \/ /\ op.mode = "do" /\ op.done = <<>> /\ dir[p] = Made(p, r, {})
        /\ op.todo = <<Make(p, "git", r), Make(p, "lfs", r)>>
     \/ /\ op.mode = "do" /\ op.done = <<Discard(p, "git")>> /\ dir[p] = Made(p, r, {"git"})
        /\ op.todo = <<Make(p, "lfs", r)>>
     \/ /\ op.mode = "undo" /\ op.todo = <<Discard(p, "git")>> /\ dir[p] = Made(p, r, {"git"})
     \/ /\ op.todo = <<>>
        /\ \E K \in {{}, {"git"}, {"git", "lfs"}} : dir[p] = Made(p, r, K)

\* A deletion has moved what it has not left to do; its reversal likewise.
Deleted ==
  LET p == op.from
      c == op.snap[p]
      Back(k) == Untrash(p, k, c[k]) IN
  /\ usable = op.usable
  /\ Distinct(op.todo)
  /\ \/ /\ op.mode = "do" /\ Distinct(op.done)
        /\ \A k \in Kinds :
             /\ dir[p][k] = IF Has(op.todo, Trash(p, k)) THEN c[k] ELSE Absent
             /\ Has(op.done, Back(k)) <=> c[k] # Absent /\ ~Has(op.todo, Trash(p, k))
        /\ Has(op.todo, Trash(p, "git")) \/ c["git"] # Absent
     \/ /\ op.mode = "undo"
        /\ \A k \in Kinds : dir[p][k] = IF Has(op.todo, Back(k)) THEN Absent ELSE c[k]

\* Kind k goes from path a to path b.
Transfer(a, b, k) == IF k \in Stores THEN Rw(a, b, k) ELSE Move(a, b, k)

\* What is left to do of a transfer from a to b of c is still at a, the rest at b,
\* and the store h is on its way.
Halfway(d, h, a, b, c, t) ==
  \A k \in Kinds :
    IF Has(t, Transfer(a, b, k))
    THEN /\ d[b][k] = Absent
         /\ IF h # Absent /\ Head(t) = Transfer(a, b, k)
            THEN d[a][k] = Absent /\ h = Cell(c[k], k, a)
            ELSE d[a][k] = Cell(c[k], k, a)
    ELSE d[a][k] = Absent /\ d[b][k] = Cell(c[k], k, b)

\* What was there and is not left to do has been done, and is to be undone.
Trail(a, b, c, t, u) ==
  /\ Distinct(u)
  /\ \A k \in Kinds : Has(u, Transfer(b, a, k)) <=> c[k] # Absent /\ ~Has(t, Transfer(a, b, k))
  /\ Has(t, Transfer(a, b, "git")) \/ c["git"] # Absent

\* A renaming, and its reversal, have moved what they have not left to do.
Renamed ==
  LET p == op.from
      q == op.to
      c == op.snap[p] IN
  /\ usable = op.usable /\ op.snap[q] = Nothing
  /\ Distinct(op.todo)
  /\ \/ /\ op.mode = "do" /\ Halfway(dir, op.held, p, q, c, op.todo)
        /\ Trail(p, q, c, op.todo, op.done)
     \/ op.mode = "undo" /\ Halfway(dir, op.held, q, p, c, op.todo)

\* Only the group that is made comes to be usable.
Grouped == op.to \notin op.usable /\ usable \ {op.to} = op.usable

-----------------------------------------------------------------------------
\* The group that the list of o carries the directory to, and the other one; the
\* group that was renamed; and where the directory is.
Onto(o) == IF o.mode = "do" THEN o.to ELSE o.from
Off(o) == IF o.mode = "do" THEN o.from ELSE o.to
Origin(o) == IF o.back THEN o.to ELSE o.from
Seat(o) == IF Has(o.todo, Carry(Off(o), Onto(o))) THEN Off(o) ELSE Onto(o)

\* The records of kind k of name n are to be rewritten, in either directory; this
\* is done next.
Label(o, y, n, k) == Relabel(y, n, k, Off(o), Onto(o))
Pending(o, n, k) == \E y \in {Off(o), Onto(o)} : Has(o.todo, Label(o, y, n, k))
Raised(o, n, k) == \E y \in {Off(o), Onto(o)} : Head(o.todo) = Label(o, y, n, k)

\* All data is in one directory, and what is left to rewrite names the old group.
Moved(d, h, o) ==
  /\ \A x \in Paths : x[1] \notin {Onto(o), Off(o)} => d[x] = o.snap[x]
  /\ \A x \in Paths : x[1] \in {Onto(o), Off(o)} /\ x[1] # Seat(o) => d[x] = Nothing
  /\ \A n \in NameSet : \A k \in Kinds :
       LET c == Cell(o.snap[<<Origin(o), n>>][k], k,
                     <<IF Pending(o, n, k) THEN Off(o) ELSE Onto(o), n>>)
       IN  IF h # Absent /\ Raised(o, n, k)
           THEN d[<<Seat(o), n>>][k] = Absent /\ h = c
           ELSE d[<<Seat(o), n>>][k] = c

\* Records are rewritten in the directory Z, which is then carried away, or after.
Rank(s, Z) ==
  CASE s.do = "carry" -> 1
    [] s.do = "control" -> 4
    [] OTHER -> IF s.from[1] = Z THEN 0 ELSE IF s.k = "issues" THEN 2 ELSE 3

Ordered(t, Z) ==
  Distinct(t) /\ \A i, j \in DOMAIN t : i < j => Rank(t[i], Z) <= Rank(t[j], Z)

Listed(o) ==
  LET X == Onto(o)
      Z == Off(o) IN
  /\ Ordered(o.todo, Z)
  /\ \A i \in DOMAIN o.todo :
       \/ o.todo[i] \in {Carry(Z, X), Control(X)}
       \/ \E y \in {X, Z}, n \in NameSet, k \in Stores : o.todo[i] = Label(o, y, n, k)
  /\ \A n \in NameSet : \A k \in Stores :
       Has(o.todo, Label(o, Z, n, k)) => Has(o.todo, Carry(Z, X)) /\ ~Has(o.todo, Label(o, X, n, k))

\* One of the two groups exists; its control document names the one it had been
\* until that is written again.
Placed(o) ==
  LET X == Onto(o)
      Z == Off(o)
      Y == Seat(o)
      g == Origin(o)
      h == IF o.back THEN o.from ELSE o.to IN
  /\ g \in o.usable /\ h \notin o.usable /\ o.usable \subseteq Groups
  /\ \A n \in NameSet : o.snap[<<h, n>>] = Nothing
  /\ Y \in groups /\ \A x \in {X, Z} : x \in groups => x = Y
  /\ Rooted => control[Y] = IF o.mode = "do" /\ ~o.back /\ Has(o.todo, Control(X)) THEN Z ELSE X
  /\ (Rooted /\ o.mode = "do" /\ ~o.back /\ o.todo # <<>>) => Has(o.todo, Control(X))
  /\ \A x \in Groups \ {X, Z} : x \in usable <=> x \in o.usable

\* What was there and is not left to do has been done, and is to be undone: the
\* merge requests first, and the directory last.
Undoes(o) ==
  LET X == Onto(o)
      Z == Off(o)
      Back(n, k) == Relabel(X, n, k, X, Z) IN
  /\ Distinct(o.done)
  /\ \A i \in DOMAIN o.done :
       o.done[i] = Carry(X, Z) \/ \E n \in NameSet, k \in Stores : o.done[i] = Back(n, k)
  /\ Has(o.done, Carry(X, Z)) <=> ~Has(o.todo, Carry(Z, X))
  /\ Has(o.todo, Carry(Z, X)) => o.done = <<>>
  /\ o.done # <<>> => o.done[Len(o.done)] = Carry(X, Z)
  /\ \A n \in NameSet, k \in Stores :
       /\ ~Has(o.todo, Label(o, Z, n, k))
       /\ Has(o.done, Back(n, k)) <=>
            o.snap[<<Z, n>>][k] # Absent /\ ~Has(o.todo, Label(o, X, n, k))
  /\ \E m \in 0 .. Len(o.done) : \A i \in DOMAIN o.done : o.done[i].k = "reviews" <=> i <= m
  /\ (\E n \in NameSet : Has(o.todo, Label(o, X, n, "issues")))
     => \A n \in NameSet : Has(o.todo, Label(o, X, n, "reviews"))

Relocated ==
  /\ op.mode \in {"do", "undo"} /\ op.back \in BOOLEAN /\ (op.back => op.mode = "do")
  /\ Listed(op) /\ Moved(dir, op.held, op) /\ Placed(op)
  /\ op.mode = "do" /\ ~op.back => Undoes(op)

\* The operation that is running has got as far as its lists say.
Midway ==
  /\ op.kind \in {"create", "import"} => \E r \in Repositories : Created(r)
  /\ op.kind = "delete" => Deleted
  /\ op.kind = "rename" => Renamed
  /\ op.kind = "group" => Grouped
  /\ op.kind = "move" => Relocated

Atomic ==
  dirty = 0 => IF op = Idle THEN Named(dir) ELSE Named(op.snap) /\ Midway

-----------------------------------------------------------------------------
(* Lists without repetitions. *)

LEMMA Popped ==
    ASSUME NEW S, NEW t \in Seq(S), t # <<>>, Distinct(t)
    PROVE  /\ Distinct(Tail(t))
           /\ \A s : Has(Tail(t), s) <=> Has(t, s) /\ s # Head(t)
<1>1. /\ Tail(t) \in Seq(S) /\ DOMAIN Tail(t) = 1 .. Len(t) - 1 /\ DOMAIN t = 1 .. Len(t)
      /\ Len(t) \in Nat /\ Head(t) = t[1] /\ 1 \in 1 .. Len(t)
  BY SeqParts
<1>2. \A i \in 1 .. Len(t) - 1 : Tail(t)[i] = t[i + 1] /\ i + 1 \in 1 .. Len(t)
  BY <1>1
<1>3. Distinct(Tail(t))
  BY <1>1, <1>2 DEF Distinct
<1>4. ASSUME NEW s, Has(Tail(t), s) PROVE Has(t, s) /\ s # Head(t)
  <2>1. PICK i \in 1 .. Len(t) - 1 : Tail(t)[i] = s
    BY <1>1, <1>4 DEF Has
  <2>2. t[i + 1] = s /\ i + 1 \in 1 .. Len(t) /\ i + 1 # 1
    BY <1>1, <1>2, <2>1
  <2> QED BY <1>1, <2>2 DEF Has, Distinct
<1>5. ASSUME NEW s, Has(t, s), s # Head(t) PROVE Has(Tail(t), s)
  BY <1>5, HasTail
<1> QED BY <1>3, <1>4, <1>5

LEMMA Pushed ==
    ASSUME NEW S, NEW t \in Seq(S), NEW x \in S, Distinct(t), ~Has(t, x)
    PROVE  Distinct(<<x>> \o t)
<1> DEFINE u == <<x>> \o t
<1>1. /\ DOMAIN u = 1 .. Len(t) + 1 /\ DOMAIN t = 1 .. Len(t) /\ Len(t) \in Nat /\ u[1] = x
      /\ \A i \in 2 .. Len(t) + 1 : u[i] = t[i - 1] /\ i - 1 \in 1 .. Len(t)
  OBVIOUS
<1> HIDE DEF u
<1>2. SUFFICES ASSUME NEW i \in 1 .. Len(t) + 1, NEW j \in 1 .. Len(t) + 1, u[i] = u[j]
               PROVE  i = j
  BY <1>1 DEF Distinct, u
<1>3. \A l \in 2 .. Len(t) + 1 : u[l] # x
  BY <1>1 DEF Has
<1>4. CASE i = 1 \/ j = 1
  BY <1>1, <1>2, <1>3, <1>4
<1>5. CASE i # 1 /\ j # 1
  <2>1. i \in 2 .. Len(t) + 1 /\ j \in 2 .. Len(t) + 1
    BY <1>1, <1>5
  <2>2. t[i - 1] = t[j - 1] /\ i - 1 \in DOMAIN t /\ j - 1 \in DOMAIN t
    BY <1>1, <1>2, <2>1
  <2>3. i - 1 = j - 1
    BY <2>2 DEF Distinct
  <2> QED BY <2>3
<1> QED BY <1>4, <1>5

LEMMA Joined ==
    ASSUME NEW S, NEW a \in Seq(S), NEW b \in Seq(S)
    PROVE  /\ DOMAIN (a \o b) = 1 .. Len(a) + Len(b)
           /\ \A i \in 1 .. Len(a) : (a \o b)[i] = a[i]
           /\ \A i \in Len(a) + 1 .. Len(a) + Len(b) :
                (a \o b)[i] = b[i - Len(a)] /\ i - Len(a) \in 1 .. Len(b)
           /\ \A s : Has(a \o b, s) <=> Has(a, s) \/ Has(b, s)
<1>1. /\ DOMAIN (a \o b) = 1 .. Len(a) + Len(b) /\ Len(a) \in Nat /\ Len(b) \in Nat
      /\ DOMAIN a = 1 .. Len(a) /\ DOMAIN b = 1 .. Len(b)
      /\ \A i \in 1 .. Len(a) : (a \o b)[i] = a[i]
      /\ \A i \in Len(a) + 1 .. Len(a) + Len(b) :
           (a \o b)[i] = b[i - Len(a)] /\ i - Len(a) \in 1 .. Len(b)
  OBVIOUS
<1>2. ASSUME NEW s, Has(a \o b, s) PROVE Has(a, s) \/ Has(b, s)
  <2>1. PICK i \in 1 .. Len(a) + Len(b) : (a \o b)[i] = s
    BY <1>1, <1>2 DEF Has
  <2>2. CASE i <= Len(a)
    BY <1>1, <2>1, <2>2 DEF Has
  <2>3. CASE i > Len(a)
    <3>1. i \in Len(a) + 1 .. Len(a) + Len(b)
      BY <1>1, <2>3
    <3> QED BY <1>1, <2>1, <3>1 DEF Has
  <2> QED BY <1>1, <2>2, <2>3
<1>3. \A s : Has(a, s) \/ Has(b, s) => Has(a \o b, s)
  BY HasLeft, HasRight
<1> QED BY <1>1, <1>2, <1>3

LEMMA JoinDistinct ==
    ASSUME NEW S, NEW a \in Seq(S), NEW b \in Seq(S), Distinct(a), Distinct(b),
           \A s : ~(Has(a, s) /\ Has(b, s))
    PROVE  Distinct(a \o b)
<1> DEFINE u == a \o b
<1>1. /\ DOMAIN u = 1 .. Len(a) + Len(b) /\ Len(a) \in Nat /\ Len(b) \in Nat
      /\ DOMAIN a = 1 .. Len(a) /\ DOMAIN b = 1 .. Len(b)
      /\ \A i \in 1 .. Len(a) : u[i] = a[i]
      /\ \A i \in Len(a) + 1 .. Len(a) + Len(b) :
           u[i] = b[i - Len(a)] /\ i - Len(a) \in 1 .. Len(b)
  BY Joined
<1> HIDE DEF u
<1>2. SUFFICES ASSUME NEW i \in DOMAIN u, NEW j \in DOMAIN u, u[i] = u[j], i < j PROVE FALSE
  BY <1>1 DEF Distinct, u
<1>3. CASE j <= Len(a)
  BY <1>1, <1>2, <1>3 DEF Distinct
<1>4. CASE i > Len(a)
  <2>1. i \in Len(a) + 1 .. Len(a) + Len(b) /\ j \in Len(a) + 1 .. Len(a) + Len(b)
    BY <1>1, <1>2, <1>4
  <2>2. /\ b[i - Len(a)] = b[j - Len(a)]
        /\ i - Len(a) \in DOMAIN b /\ j - Len(a) \in DOMAIN b
    BY <1>1, <1>2, <2>1
  <2>3. i - Len(a) = j - Len(a)
    BY <2>2 DEF Distinct
  <2> QED BY <1>1, <1>2, <2>1, <2>3
<1>5. CASE i <= Len(a) /\ j > Len(a)
  <2>1. Has(a, u[i]) /\ Has(b, u[i])
    BY <1>1, <1>2, <1>5 DEF Has
  <2> QED BY <2>1
<1> QED BY <1>1, <1>3, <1>4, <1>5

LEMMA DistinctOne ==
    ASSUME NEW s
    PROVE  Distinct(<<s>>) /\ \A u : Has(<<s>>, u) <=> u = s
<1>1. DOMAIN <<s>> = {1} /\ <<s>>[1] = s
  OBVIOUS
<1> QED BY <1>1 DEF Distinct, Has

LEMMA DistinctNone == Distinct(<<>>) /\ \A u : ~Has(<<>>, u)
<1>1. DOMAIN <<>> = {}
  OBVIOUS
<1> QED BY <1>1 DEF Distinct, Has

-----------------------------------------------------------------------------
(* Data under another path. *)

LEMMA CellIs ==
    ASSUME NEW k \in Kinds, NEW c, Fits(k, c), NEW q \in Paths
    PROVE  /\ Fits(k, Cell(c, k, q)) /\ (Cell(c, k, q) = Absent <=> c = Absent)
           /\ c # Absent => Cell(c, k, q).repo = c.repo
           /\ k \in Plain => Cell(c, k, q) = c
           /\ \A x \in Paths : Cell(Cell(c, k, q), k, x) = Cell(c, k, x)
<1>1. CASE c = Absent
  BY <1>1 DEF Cell
<1>2. CASE c # Absent
  <2>1. /\ c.repo \in Repositories /\ c \in [repo : Repositories, at : Paths \cup {Absent}]
        /\ c.at # Absent <=> k \in Stores
    BY <1>2 DEF Fits, Content
  <2>2. \A x \in Paths : /\ Fits(k, Data(c.repo, k, x)) /\ Data(c.repo, k, x) # Absent
                         /\ Data(c.repo, k, x).repo = c.repo
    BY <2>1, DataFits
  <2>3. k \in Plain => Data(c.repo, k, q) = c
    BY <2>1 DEF Plain, Data, Catalog!Data, Stores
  <2>4. \A x \in Paths : Cell(c, k, x) = Data(c.repo, k, x)
    BY <1>2 DEF Cell
  <2>5. \A x \in Paths : Cell(Data(c.repo, k, q), k, x) = Data(c.repo, k, x)
    BY <2>2 DEF Cell
  <2> QED BY <1>2, <2>2, <2>3, <2>4, <2>5
<1> QED BY <1>1, <1>2

LEMMA NamedPut ==
    ASSUME NEW d \in Layout, Named(d), NEW p \in Paths, NEW k \in Kinds, NEW c,
           Fits(k, c), c = Cell(c, k, p)
    PROVE  Named(With(d, p, k, c))
BY Put DEF Named

LEMMA DataNamed ==
    ASSUME NEW r \in Repositories, NEW k \in Kinds, NEW p \in Paths
    PROVE  Data(r, k, p) = Cell(Data(r, k, p), k, p)
BY DataFits DEF Cell

-----------------------------------------------------------------------------
(* What a step does to the operation, and to the groups that can be used. *)

\* It stays the same operation.
SameOperation == Frame /\ op'.usable = op.usable /\ op'.held = Absent

LEMMA Advances ==
    ASSUME DOMAIN op = Fields, NEW s, Advance(s)
    PROVE  /\ SameOperation /\ op'.mode = op.mode /\ op'.back = op.back
           /\ op'.todo = Tail(op.todo) /\ op'.done = Done(s)
BY DEF Advance, Frame, SameOperation, Fields

LEMMA Fails ==
    ASSUME DOMAIN op = Fields, op.kind # "move", NEW s, op' = AfterFailure(s)
    PROVE  /\ SameOperation
           /\ op.mode = "do" => op'.mode = "undo" /\ op'.todo = op.done /\ op'.done = <<>>
           /\ op.mode # "do" => /\ op'.mode = op.mode /\ op'.todo = Tail(op.todo)
                                /\ op'.done = op.done
BY DEF AfterFailure, Frame, SameOperation, Fields

LEMMA UsableStays ==
    ASSUME UNCHANGED <<groups, control>>
    PROVE  usable' = usable
BY DEF usable

\* A failure that hits what puts things back leaves the operation halfway.
LEMMA OnlyForward ==
    ASSUME dirty = 0, NEW b \in BOOLEAN, Soil(b), dirty' = 0
    PROVE  ~b
<1>1. MaxDirty \in Nat /\ MaxDirty > 0
  BY LifecycleAssumption
<1> QED BY <1>1 DEF Soil

LEMMA Puts ==
    ASSUME NEW p, NEW k, NEW c, NEW s, Effect(s),
           \/ s = Make(p, k, c) \/ s = Untrash(p, k, c) \/ s = Trash(p, k) \/ s = Discard(p, k)
    PROVE  /\ UNCHANGED <<groups, control>>
           /\ s = Make(p, k, c) => dir' = With(dir, p, k, Data(c, k, p))
           /\ s = Untrash(p, k, c) => dir' = With(dir, p, k, c)
           /\ s \in {Trash(p, k), Discard(p, k)} => dir' = With(dir, p, k, Absent)
<1>1. CASE s = Make(p, k, c)
  BY <1>1 DEF Effect, Make, With, Untrash, Trash, Discard
<1>2. CASE s = Untrash(p, k, c)
  BY <1>2 DEF Effect, Make, With, Untrash, Trash, Discard
<1>3. CASE s = Trash(p, k)
  BY <1>3 DEF Effect, Make, With, Untrash, Trash, Discard
<1>4. CASE s = Discard(p, k)
  BY <1>4 DEF Effect, Make, With, Untrash, Trash, Discard
<1> QED BY <1>1, <1>2, <1>3, <1>4

-----------------------------------------------------------------------------
(* A creation or an import happens at once. *)

LEMMA MadeIs ==
    ASSUME NEW p, NEW r, NEW K, NEW d \in Layout, NEW x \in Paths
    PROVE  d[x] = Made(p, r, K) <=>
             \A k \in Kinds : d[x][k] = IF k \in K THEN Data(r, k, p) ELSE Absent
<1>1. d[x] \in [Kinds -> Content]
  BY DEF Layout
<1> QED BY <1>1 DEF Made

LEMMA NothingMade ==
    ASSUME NEW p, NEW r
    PROVE  Nothing = Made(p, r, {})
BY DEF Nothing, Catalog!Nothing, Made, Kinds

LEMMA CreatedStep ==
    ASSUME Disk, DOMAIN op = Fields, NEW r, Created(r), StepDone
    PROVE  SameOperation /\ Created(r)'
<1> DEFINE p == op.from
<1>1. op.todo # <<>> /\ Effect(Step) /\ Advance(Step)
  BY DEF StepDone, Running
<1>2. SameOperation /\ op'.mode = op.mode /\ op'.todo = Tail(op.todo) /\ op'.done = Done(Step)
  BY <1>1, Advances
<1>3. /\ p \in Paths /\ r \in Repositories /\ dir \in Layout
      /\ "git" \in Kinds /\ "lfs" \in Kinds
  BY DEF Created, Disk, Kinds, Catalog!Kinds
<1>4. \A k, c : /\ Done(Make(p, k, c)) = <<Discard(p, k)>> \o op.done
  BY DEF Reversal, Make, Done
<1>5. ASSUME NEW k \in Kinds, NEW K, NEW L, dir[p] = Made(p, r, K),
             \/ Step = Make(p, k, r) /\ L = K \cup {k}
             \/ Step = Discard(p, k) /\ L = K \ {k}
      PROVE  dir'[p] = Made(p, r, L) /\ usable' = usable /\ \A x \in Paths : x # p => dir'[x] = dir[x]
  <2> DEFINE c == IF Step = Make(p, k, r) THEN Data(r, k, p) ELSE Absent
  <2>1. UNCHANGED <<groups, control>> /\ dir' = With(dir, p, k, c)
    <3>1. Discard(p, k) # Make(p, k, r)
      BY DEF Discard, Make
    <3> QED BY <1>1, <1>5, <3>1, Puts
  <2>2. Fits(k, c)
    BY <1>3, DataFits, AbsentFits
  <2>3. /\ dir' \in Layout /\ dir'[p][k] = c
        /\ \A x \in Paths : x # p => dir'[x] = dir[x]
        /\ \A l \in Kinds : l # k => dir'[p][l] = dir[p][l]
    <3> HIDE DEF c
    <3> QED BY <1>3, <2>1, <2>2, Put
  <2>4. \A l \in Kinds : dir[p][l] = IF l \in K THEN Data(r, l, p) ELSE Absent
    BY <1>3, <1>5, MadeIs
  <2>5. \A l \in Kinds : dir'[p][l] = IF l \in L THEN Data(r, l, p) ELSE Absent
    <3>1. Discard(p, k) # Make(p, k, r)
      BY DEF Discard, Make
    <3> QED BY <1>5, <2>3, <2>4, <3>1
  <2>6. dir'[p] = Made(p, r, L)
    BY <1>3, <2>3, <2>5, MadeIs
  <2> QED BY <2>1, <2>3, <2>6, UsableStays
<1>6. /\ op'.from = p /\ op'.snap = op.snap /\ op'.usable = op.usable
  BY <1>2 DEF SameOperation, Frame
<1>7. CASE /\ op.mode = "do" /\ op.done = <<>> /\ dir[p] = Made(p, r, {})
           /\ op.todo = <<Make(p, "git", r), Make(p, "lfs", r)>>
  <2>1. Step = Make(p, "git", r) /\ op'.todo = <<Make(p, "lfs", r)>>
    BY <1>2, <1>7 DEF Step
  <2>2. op'.done = <<Discard(p, "git")>>
    BY <1>2, <1>4, <1>7, <2>1
  <2>3. /\ dir'[p] = Made(p, r, {"git"}) /\ usable' = usable
        /\ \A x \in Paths : x # p => dir'[x] = dir[x]
    BY <1>3, <1>5, <1>7, <2>1
  <2> QED BY <1>2, <1>6, <1>7, <2>1, <2>2, <2>3 DEF Created, Shown
<1>8. CASE /\ op.mode = "do" /\ op.done = <<Discard(p, "git")>> /\ dir[p] = Made(p, r, {"git"})
           /\ op.todo = <<Make(p, "lfs", r)>>
  <2>1. Step = Make(p, "lfs", r) /\ op'.todo = <<>>
    BY <1>2, <1>8 DEF Step
  <2>2. /\ dir'[p] = Made(p, r, {"git", "lfs"}) /\ usable' = usable
        /\ \A x \in Paths : x # p => dir'[x] = dir[x]
    <3>1. {"git", "lfs"} = {"git"} \cup {"lfs"}
      OBVIOUS
    <3> QED BY <1>3, <1>5, <1>8, <2>1, <3>1
  <2> QED BY <1>2, <1>6, <1>8, <2>1, <2>2 DEF Created, Shown
<1>9. CASE op.mode = "undo" /\ op.todo = <<Discard(p, "git")>> /\ dir[p] = Made(p, r, {"git"})
  <2>1. Step = Discard(p, "git") /\ op'.todo = <<>>
    BY <1>2, <1>9 DEF Step
  <2>2. /\ dir'[p] = Made(p, r, {}) /\ usable' = usable
        /\ \A x \in Paths : x # p => dir'[x] = dir[x]
    <3>1. {} = {"git"} \ {"git"}
      OBVIOUS
    <3> QED BY <1>3, <1>5, <1>9, <2>1, <3>1
  <2> QED BY <1>2, <1>6, <1>9, <2>1, <2>2 DEF Created, Shown
<1> QED BY <1>1, <1>2, <1>7, <1>8, <1>9 DEF Created

LEMMA CreatedFails ==
    ASSUME DOMAIN op = Fields, op.kind # "move", NEW r, Created(r), op.todo # <<>>,
           op' = AfterFailure(Step), op.mode = "do", UNCHANGED disk
    PROVE  SameOperation /\ Created(r)'
<1>1. SameOperation /\ op'.mode = "undo" /\ op'.todo = op.done /\ op'.done = <<>>
  BY Fails
<1>2. /\ op'.from = op.from /\ op'.snap = op.snap /\ op'.usable = op.usable
      /\ usable' = usable /\ dir' = dir
  BY <1>1, UsableStays DEF SameOperation, Frame, disk
<1>3. CASE op.done = <<>> /\ dir[op.from] = Made(op.from, r, {})
  BY <1>1, <1>2, <1>3 DEF Created, Shown
<1>4. CASE op.done = <<Discard(op.from, "git")>> /\ dir[op.from] = Made(op.from, r, {"git"})
  BY <1>1, <1>2, <1>4 DEF Created, Shown
<1> QED BY <1>1, <1>3, <1>4 DEF Created

LEMMA CreatedLeaves ==
    ASSUME Disk, DOMAIN op = Fields, NEW r, Created(r), op.held = Absent, InitLeavesDirectory
    PROVE  SameOperation /\ Created(r)'
<1> DEFINE p == op.from
<1>1. /\ op.todo # <<>> /\ Step.k = "git" /\ Step.do = "make" /\ Effect(Step)
      /\ op' = [op EXCEPT !.todo = <<>>]
  BY DEF InitLeavesDirectory, Running
<1>2. SameOperation /\ op'.todo = <<>>
  BY <1>1 DEF SameOperation, Frame, Fields
<1>3. p \in Paths /\ r \in Repositories /\ dir \in Layout /\ "git" \in Kinds
  BY DEF Created, Disk, Kinds, Catalog!Kinds
<1>4. Step = Make(p, "git", r) /\ dir[p] = Made(p, r, {})
  <2>1. Make(p, "lfs", r).k # "git" /\ Discard(p, "git").do # "make"
    BY DEF Make, Discard
  <2> QED BY <1>1, <2>1 DEF Created, Step
<1>5. UNCHANGED <<groups, control>> /\ dir' = With(dir, p, "git", Data(r, "git", p))
  BY <1>1, <1>4, Puts
<1>6. /\ dir' \in Layout /\ dir'[p]["git"] = Data(r, "git", p)
      /\ \A x \in Paths : x # p => dir'[x] = dir[x]
      /\ \A l \in Kinds : l # "git" => dir'[p][l] = dir[p][l]
  BY <1>3, <1>5, DataFits, Put
<1>7. dir'[p] = Made(p, r, {"git"})
  BY <1>3, <1>4, <1>6, MadeIs
<1>8. /\ op'.from = p /\ op'.snap = op.snap /\ op'.usable = op.usable /\ usable' = usable
  BY <1>2, <1>5, UsableStays DEF SameOperation, Frame
<1> QED BY <1>2, <1>6, <1>7, <1>8 DEF Created, Shown

-----------------------------------------------------------------------------
(* A group is made at once. *)

LEMMA GroupedNext ==
    ASSUME Grouped, op'.to = op.to, op'.usable = op.usable, groups \subseteq Groups,
           groups' \ {op.to} = groups \ {op.to},
           \A x \in Groups : x # op.to => control'[x] = control[x]
    PROVE  Grouped'
<1>1. usable' \ {op.to} = usable \ {op.to}
  BY DEF usable
<1> QED BY <1>1 DEF Grouped

LEMMA GroupedStep ==
    ASSUME Disk, Grouping, Grouped, DOMAIN op = Fields, StepDone
    PROVE  SameOperation /\ Grouped'
<1> DEFINE g == op.to
<1>1. op.todo # <<>> /\ Effect(Step) /\ Advance(Step)
  BY DEF StepDone, Running
<1>2. SameOperation /\ op'.to = op.to /\ op'.usable = op.usable
  BY <1>1, Advances DEF SameOperation, Frame
<1>3. op.todo \in Seq(Building(g)) /\ g \in Groups
  BY DEF Grouping
<1>4. Step \in {Mkdir(g), Control(g)}
  BY <1>1, <1>3, SeqParts DEF Step, Building
<1>5. groups' \ {g} = groups \ {g}
  BY <1>1, <1>4 DEF Effect, Mkdir, Control
<1>6. groups \subseteq Groups /\ \A x \in Groups : x # g => control'[x] = control[x]
  BY <1>1, <1>4 DEF Effect, Mkdir, Control, Disk
<1> QED BY <1>2, <1>5, <1>6, GroupedNext

-----------------------------------------------------------------------------
(* A deletion happens at once. *)

LEMMA DeletedStep ==
    ASSUME Disk, Deleting, Deleted, DOMAIN op = Fields, op.snap \in Layout, StepDone
    PROVE  SameOperation /\ Deleted'
<1> DEFINE p == op.from
           c == op.snap[p]
           Back(k) == Untrash(p, k, c[k])
<1>1. op.todo # <<>> /\ Feasible(Step) /\ Effect(Step) /\ Advance(Step)
  BY DEF StepDone, Running
<1>2. /\ SameOperation /\ op'.mode = op.mode /\ op'.todo = Tail(op.todo) /\ op'.done = Done(Step)
      /\ op'.from = p /\ op'.snap = op.snap /\ op'.usable = op.usable
  BY <1>1, Advances DEF SameOperation, Frame
<1>3. p \in Paths /\ dir \in Layout /\ \A k \in Kinds : Fits(k, c[k])
  BY LayoutAt DEF Deleting, Disk
<1>4. /\ \A k, l : Trash(p, k) = Trash(p, l) => k = l
      /\ \A k, l : Back(k) = Back(l) => k = l
  BY DEF Trash, Untrash
<1>5. CASE /\ op.mode = "do" /\ Distinct(op.todo) /\ Distinct(op.done)
           /\ \A k \in Kinds :
                /\ dir[p][k] = IF Has(op.todo, Trash(p, k)) THEN c[k] ELSE Absent
                /\ Has(op.done, Back(k)) <=> c[k] # Absent /\ ~Has(op.todo, Trash(p, k))
           /\ Has(op.todo, Trash(p, "git")) \/ c["git"] # Absent
  <2>1. op.todo \in Seq(Trashes(p)) /\ op.done \in Seq(Untrashes(c, p))
    BY <1>5 DEF Deleting
  <2>2. PICK k \in Kinds : Step = Trash(p, k)
    BY <1>1, <2>1, SeqParts DEF Step, Trashes
  <2>3. /\ UNCHANGED <<groups, control>> /\ dir' = With(dir, p, k, Absent) /\ dir[p][k] # Absent
    BY <1>1, <2>2, Puts DEF Feasible, Trash
  <2>4. /\ dir' \in Layout /\ dir'[p][k] = Absent
        /\ \A l \in Kinds : l # k => dir'[p][l] = dir[p][l]
    BY <1>3, <2>3, AbsentFits, Put
  <2>5. Has(op.todo, Trash(p, k)) /\ dir[p][k] = c[k] /\ c[k] # Absent /\ ~Has(op.done, Back(k))
    BY <1>1, <1>5, <2>1, <2>2, <2>3, HeadHas DEF Step
  <2>6. /\ Distinct(op'.todo)
        /\ \A l : Has(op'.todo, Trash(p, l)) <=> Has(op.todo, Trash(p, l)) /\ l # k
    <3>1. \A s : Has(op'.todo, s) <=> Has(op.todo, s) /\ s # Step
      BY <1>1, <1>2, <1>5, <2>1, Popped DEF Step
    <3> QED BY <1>1, <1>2, <1>4, <1>5, <2>1, <2>2, <3>1, Popped
  <2>7. op'.done = <<Back(k)>> \o op.done
    BY <1>2, <2>2, <2>5 DEF Done, Reversal, Trash
  <2>8. /\ Distinct(op'.done)
        /\ \A l : Has(op'.done, Back(l)) <=> Has(op.done, Back(l)) \/ l = k
    <3>1. Back(k) \in Untrashes(c, p)
      BY <2>5 DEF Untrashes
    <3> DEFINE b == Back(k)
    <3> HIDE DEF b
    <3>2. Distinct(op'.done) /\ \A s : Has(op'.done, s) <=> b = s \/ Has(op.done, s)
      BY <1>5, <2>1, <2>5, <2>7, <3>1, Pushed, HasCons DEF b
    <3> QED BY <1>4, <3>2 DEF b
  <2>9. \A l \in Kinds :
          /\ dir'[p][l] = IF Has(op'.todo, Trash(p, l)) THEN c[l] ELSE Absent
          /\ Has(op'.done, Back(l)) <=> c[l] # Absent /\ ~Has(op'.todo, Trash(p, l))
    <3> HIDE DEF Back, c
    <3> QED BY <1>5, <2>4, <2>5, <2>6, <2>8
  <2>10. Has(op'.todo, Trash(p, "git")) \/ c["git"] # Absent
    BY <1>5, <2>5, <2>6
  <2>11. usable' = usable
    BY <2>3, UsableStays
  <2> QED BY <1>2, <1>5, <2>6, <2>8, <2>9, <2>10, <2>11 DEF Deleted
<1>6. CASE /\ op.mode = "undo" /\ Distinct(op.todo)
           /\ \A k \in Kinds : dir[p][k] = IF Has(op.todo, Back(k)) THEN Absent ELSE c[k]
  <2>1. op.todo \in Seq(Untrashes(c, p))
    BY <1>6 DEF Deleting
  <2>2. PICK k \in Kinds : Step = Back(k)
    BY <1>1, <2>1, SeqParts DEF Step, Untrashes
  <2>3. /\ UNCHANGED <<groups, control>> /\ dir' = With(dir, p, k, c[k])
    BY <1>1, <2>2, Puts
  <2>4. /\ dir' \in Layout /\ dir'[p][k] = c[k]
        /\ \A l \in Kinds : l # k => dir'[p][l] = dir[p][l]
    BY <1>3, <2>3, Put
  <2>5. /\ Distinct(op'.todo)
        /\ \A l : Has(op'.todo, Back(l)) <=> Has(op.todo, Back(l)) /\ l # k
    <3>1. Distinct(op'.todo) /\ \A s : Has(op'.todo, s) <=> Has(op.todo, s) /\ s # Step
      BY <1>1, <1>2, <1>6, <2>1, Popped DEF Step
    <3> QED BY <1>4, <2>2, <3>1
  <2>6. \A l \in Kinds : dir'[p][l] = IF Has(op'.todo, Back(l)) THEN Absent ELSE c[l]
    <3> HIDE DEF Back, c
    <3> QED BY <1>6, <2>4, <2>5
  <2>7. usable' = usable
    BY <2>3, UsableStays
  <2> QED BY <1>2, <1>6, <2>5, <2>6, <2>7 DEF Deleted
<1> QED BY <1>2, <1>5, <1>6 DEF Deleted

LEMMA DeletedFails ==
    ASSUME Deleting, Deleted, DOMAIN op = Fields, op' = AfterFailure(Step), op.mode = "do",
           UNCHANGED disk
    PROVE  SameOperation /\ Deleted'
<1> DEFINE p == op.from
           c == op.snap[p]
           Back(k) == Untrash(p, k, c[k])
<1>1. op.kind # "move"
  BY DEF Deleting
<1>2. SameOperation /\ op'.mode = "undo" /\ op'.todo = op.done /\ op'.done = <<>>
  BY <1>1, Fails
<1>3. /\ op'.from = p /\ op'.snap = op.snap /\ op'.usable = op.usable
      /\ usable' = usable /\ dir' = dir
  BY <1>2, UsableStays DEF SameOperation, Frame, disk
<1>4. /\ Distinct(op.done)
      /\ \A k \in Kinds :
           /\ dir[p][k] = IF Has(op.todo, Trash(p, k)) THEN c[k] ELSE Absent
           /\ Has(op.done, Back(k)) <=> c[k] # Absent /\ ~Has(op.todo, Trash(p, k))
  BY DEF Deleted
<1>5. \A k \in Kinds : dir[p][k] = IF Has(op.done, Back(k)) THEN Absent ELSE c[k]
  <2> HIDE DEF Back, c
  <2> QED BY <1>4
<1> QED BY <1>2, <1>3, <1>4, <1>5 DEF Deleted

-----------------------------------------------------------------------------
(* A renaming happens at once. *)

LEMMA TransferIs ==
    \A a, b, k :
      /\ Transfer(a, b, k).from = a /\ Transfer(a, b, k).to = b /\ Transfer(a, b, k).k = k
      /\ Transfer(a, b, k).do = "rewrite" <=> k \in Stores
      /\ k \in Stores => Transfer(a, b, k).old = a /\ Transfer(a, b, k).new = b
<1> SUFFICES ASSUME NEW a, NEW b, NEW k
             PROVE  /\ Transfer(a, b, k).from = a /\ Transfer(a, b, k).to = b /\ Transfer(a, b, k).k = k
                    /\ Transfer(a, b, k).do = "rewrite" <=> k \in Stores
                    /\ k \in Stores => Transfer(a, b, k).old = a /\ Transfer(a, b, k).new = b
  OBVIOUS
<1>1. CASE k \in Stores
  BY <1>1 DEF Transfer, Rw, Rewrite
<1>2. CASE k \notin Stores
  BY <1>2 DEF Transfer, Move
<1> QED BY <1>1, <1>2

LEMMA TransferDone ==
    ASSUME NEW a, NEW b, NEW k
    PROVE  Done(Transfer(a, b, k)) = <<Transfer(b, a, k)>> \o op.done
<1>1. CASE k \in Stores
  BY <1>1 DEF Transfer, Rw, Rewrite, Done, Reversal
<1>2. CASE k \notin Stores
  BY <1>2 DEF Transfer, Move, Done, Reversal
<1> QED BY <1>1, <1>2

LEMMA TransferBetween ==
    ASSUME NEW a, NEW b, NEW k \in Kinds
    PROVE  Transfer(a, b, k) \in Between(a, b)
<1>1. CASE k \in Stores
  BY <1>1, BetweenSteps DEF Transfer
<1>2. CASE k \notin Stores
  BY <1>2, BetweenSteps DEF Transfer, Plain
<1> QED BY <1>1, <1>2

LEMMA TransferInjective ==
    \A a, b, k, l : Transfer(a, b, k) = Transfer(a, b, l) => k = l
<1>1. \A a, b, k : Transfer(a, b, k).k = k
  BY TransferIs
<1> QED BY <1>1

LEMMA TransfersOnly ==
    ASSUME NEW a, NEW b, NEW s \in Between(a, b)
    PROVE  \E k \in Kinds : s = Transfer(a, b, k)
<1>1. CASE \E k \in Plain : s = Move(a, b, k)
  BY <1>1, PlainKinds DEF Transfer, Plain
<1>2. CASE \E k \in Stores : s = Rw(a, b, k)
  BY <1>2, PlainKinds DEF Transfer
<1> QED BY <1>1, <1>2, BetweenSteps

LEMMA HalfwayDone ==
    ASSUME NEW d, NEW e, NEW h, NEW a, NEW b, NEW c, NEW S, NEW t \in Seq(S), t # <<>>, Distinct(t),
           Halfway(d, h, a, b, c, t), NEW k \in Kinds, Head(t) = Transfer(a, b, k),
           e[a][k] = Absent, e[b][k] = Cell(c[k], k, b),
           \A l \in Kinds : l # k => e[a][l] = d[a][l] /\ e[b][l] = d[b][l]
    PROVE  Halfway(e, Absent, a, b, c, Tail(t))
<1>1. \A l : Has(Tail(t), Transfer(a, b, l)) <=> Has(t, Transfer(a, b, l)) /\ l # k
  <2>1. \A s : Has(Tail(t), s) <=> Has(t, s) /\ s # Head(t)
    BY Popped
  <2> QED BY <2>1, TransferInjective
<1> SUFFICES ASSUME NEW l \in Kinds
             PROVE  IF Has(Tail(t), Transfer(a, b, l))
                    THEN e[b][l] = Absent /\ e[a][l] = Cell(c[l], l, a)
                    ELSE e[a][l] = Absent /\ e[b][l] = Cell(c[l], l, b)
  BY DEF Halfway
<1>2. l # k => Head(t) # Transfer(a, b, l)
  BY TransferInjective
<1> QED BY <1>1, <1>2 DEF Halfway

LEMMA HalfwayBack ==
    ASSUME NEW d, NEW a \in Paths, NEW b \in Paths, NEW c, NEW t, NEW u,
           Halfway(d, Absent, a, b, c, t), Trail(a, b, c, t, u)
    PROVE  Halfway(d, Absent, b, a, c, u)
<1> SUFFICES ASSUME NEW l \in Kinds
             PROVE  IF Has(u, Transfer(b, a, l))
                    THEN d[a][l] = Absent /\ d[b][l] = Cell(c[l], l, b)
                    ELSE d[b][l] = Absent /\ d[a][l] = Cell(c[l], l, a)
  BY DEF Halfway
<1>1. c[l] = Absent => Cell(c[l], l, a) = Absent /\ Cell(c[l], l, b) = Absent
  BY DEF Cell
<1> QED BY <1>1 DEF Halfway, Trail

LEMMA TrailDone ==
    ASSUME NEW a, NEW b, NEW c, NEW S, NEW t \in Seq(S), t # <<>>, Distinct(t),
           NEW U, NEW u \in Seq(U), NEW k, Transfer(b, a, k) \in U,
           Trail(a, b, c, t, u), k \in Kinds, Head(t) = Transfer(a, b, k), c[k] # Absent
    PROVE  Trail(a, b, c, Tail(t), <<Transfer(b, a, k)>> \o u)
<1> DEFINE x == Transfer(b, a, k)
<1>1. Has(t, Head(t)) /\ \A s : Has(Tail(t), s) <=> Has(t, s) /\ s # Head(t)
  BY Popped, HeadHas
<1>2. ~Has(u, x)
  BY <1>1 DEF Trail
<1>3. Distinct(<<x>> \o u) /\ \A s : Has(<<x>> \o u, s) <=> x = s \/ Has(u, s)
  <2> HIDE DEF x
  <2>1. x \in U
    BY DEF x
  <2> QED BY <1>2, <2>1, Pushed, HasCons DEF Trail
<1>4. \A l : Has(Tail(t), Transfer(a, b, l)) <=> Has(t, Transfer(a, b, l)) /\ l # k
  BY <1>1, TransferInjective
<1>5. \A l : Has(<<x>> \o u, Transfer(b, a, l)) <=> l = k \/ Has(u, Transfer(b, a, l))
  BY <1>3, TransferInjective
<1>6. \A l \in Kinds : Has(<<x>> \o u, Transfer(b, a, l))
                       <=> c[l] # Absent /\ ~Has(Tail(t), Transfer(a, b, l))
  BY <1>4, <1>5 DEF Trail
<1>7. Has(Tail(t), Transfer(a, b, "git")) \/ c["git"] # Absent
  BY <1>4 DEF Trail
<1> HIDE DEF x
<1> QED BY <1>3, <1>6, <1>7 DEF Trail, x

LEMMA TrailSkip ==
    ASSUME NEW a, NEW b, NEW c, NEW S, NEW t \in Seq(S), t # <<>>, Distinct(t), NEW u,
           NEW k \in Stores, Trail(a, b, c, t, u), Head(t) = Transfer(a, b, k), c[k] = Absent
    PROVE  Trail(a, b, c, Tail(t), u)
<1>1. \A s : Has(Tail(t), s) <=> Has(t, s) /\ s # Head(t)
  BY Popped
<1>2. \A l : Has(Tail(t), Transfer(a, b, l)) <=> Has(t, Transfer(a, b, l)) /\ l # k
  BY <1>1, TransferInjective
<1>3. k # "git"
  BY PlainKinds
<1> QED BY <1>2, <1>3 DEF Trail

\* The path that a renaming, or its reversal, takes away from, and the other.
RenameOff == IF op.mode = "do" THEN op.from ELSE op.to
RenameOnto == IF op.mode = "do" THEN op.to ELSE op.from

LEMMA RenamedShape ==
    ASSUME Renaming, Renamed, op.snap \in Layout
    PROVE  /\ RenameOff \in Paths /\ RenameOnto \in Paths /\ RenameOff # RenameOnto
           /\ RenameOff[1] = RenameOnto[1]
           /\ op.todo \in Seq(Between(RenameOff, RenameOnto)) /\ Distinct(op.todo)
           /\ \A k \in Kinds : Fits(k, op.snap[op.from][k])
           /\ Halfway(dir, op.held, RenameOff, RenameOnto, op.snap[op.from], op.todo)
           /\ op.todo # <<>> => \E k \in Kinds : Step = Transfer(RenameOff, RenameOnto, k)
           /\ op.mode = "do" => op.done \in Seq(Between(op.to, op.from))
           /\ op.held # Absent => op.todo # <<>> /\ Step.do = "rewrite"
           /\ op.kind = "rename" /\ op.mode \in {"do", "undo"}
<1>1. /\ op.from \in Paths /\ op.to \in Paths /\ op.from # op.to /\ op.from[1] = op.to[1]
      /\ op.held # Absent => op.todo # <<>> /\ Step.do = "rewrite"
      /\ op.kind = "rename"
  BY DEF Renaming, RenamingData, Aside
<1>2. /\ op.mode = "do" \/ op.mode = "undo"
      /\ op.mode = "do" => op.todo \in Seq(Between(op.from, op.to))
      /\ op.mode = "do" => op.done \in Seq(Between(op.to, op.from))
      /\ op.mode = "undo" => op.todo \in Seq(Between(op.to, op.from))
  BY DEF Renaming, RenamingForth, RenamingBack
<1>3. op.todo \in Seq(Between(RenameOff, RenameOnto))
  BY <1>2 DEF RenameOff, RenameOnto
<1>4. Distinct(op.todo) /\ Halfway(dir, op.held, RenameOff, RenameOnto, op.snap[op.from], op.todo)
  BY DEF Renamed, RenameOff, RenameOnto
<1>5. \A k \in Kinds : Fits(k, op.snap[op.from][k])
  BY <1>1, LayoutAt
<1>6. op.todo # <<>> => \E k \in Kinds : Step = Transfer(RenameOff, RenameOnto, k)
  BY <1>3, SeqParts, TransfersOnly DEF Step
<1> QED BY <1>1, <1>2, <1>3, <1>4, <1>5, <1>6 DEF RenameOff, RenameOnto

LEMMA RenamedNext ==
    ASSUME Renamed, Renaming, op.snap \in Layout, Frame, op'.usable = op.usable, op'.mode = op.mode,
           UNCHANGED <<groups, control>>, Distinct(op'.todo),
           Halfway(dir', op'.held, RenameOff, RenameOnto, op.snap[op.from], op'.todo),
           op.mode = "do" => Trail(op.from, op.to, op.snap[op.from], op'.todo, op'.done)
    PROVE  Renamed'
<1>1. /\ op'.from = op.from /\ op'.to = op.to /\ op'.snap = op.snap /\ usable' = usable
  BY UsableStays DEF Frame
<1>2. op.mode \in {"do", "undo"}
  BY RenamedShape
<1> QED BY <1>1, <1>2 DEF Renamed, RenameOff, RenameOnto

\* A step that has moved what it is to move.
LEMMA RenamedAdvances ==
    ASSUME Renamed, Renaming, DOMAIN op = Fields, op.snap \in Layout, op.todo # <<>>,
           Advance(Step), UNCHANGED <<groups, control>>,
           NEW k \in Kinds, Step = Transfer(RenameOff, RenameOnto, k), op.snap[op.from][k] # Absent,
           dir'[RenameOff][k] = Absent, dir'[RenameOnto][k] = Cell(op.snap[op.from][k], k, RenameOnto),
           \A x \in Paths : \A l \in Kinds : l # k => dir'[x][l] = dir[x][l]
    PROVE  SameOperation /\ Renamed'
<1> DEFINE a == RenameOff
           b == RenameOnto
           c == op.snap[op.from]
           S == Between(a, b)
<1>1. /\ SameOperation /\ op'.mode = op.mode /\ op'.todo = Tail(op.todo) /\ op'.done = Done(Step)
      /\ op'.held = Absent
  BY Advances DEF SameOperation
<1>2. /\ op.todo \in Seq(S) /\ Distinct(op.todo) /\ a \in Paths /\ b \in Paths
      /\ Halfway(dir, op.held, a, b, c, op.todo)
      /\ op.mode = "do" => op.done \in Seq(Between(op.to, op.from))
  BY RenamedShape
<1>3. Distinct(Tail(op.todo))
  <2> HIDE DEF S
  <2> QED BY <1>2, Popped
<1>4. Halfway(dir', Absent, a, b, c, Tail(op.todo))
  <2>1. Head(op.todo) = Transfer(a, b, k)
    BY DEF Step
  <2> HIDE DEF S, a, b, c
  <2> QED BY <1>2, <2>1, HalfwayDone DEF a, b, c
<1>5. ASSUME op.mode = "do"
      PROVE  Trail(op.from, op.to, c, Tail(op.todo), Done(Step))
  <2>1. a = op.from /\ b = op.to
    BY <1>5 DEF RenameOff, RenameOnto
  <2>2. Done(Step) = <<Transfer(b, a, k)>> \o op.done /\ Transfer(b, a, k) \in Between(b, a)
    BY TransferDone, TransferBetween
  <2>3. Trail(a, b, c, op.todo, op.done)
    BY <1>5, <2>1 DEF Renamed
  <2>4. Head(op.todo) = Transfer(a, b, k) /\ c[k] # Absent /\ op.done \in Seq(Between(b, a))
    BY <1>2, <1>5, <2>1 DEF Step
  <2> HIDE DEF S, a, b, c
  <2>5. Trail(a, b, c, Tail(op.todo), <<Transfer(b, a, k)>> \o op.done)
    BY <1>2, <2>2, <2>3, <2>4, TrailDone
  <2> QED BY <2>1, <2>2, <2>5
<1> QED BY <1>1, <1>3, <1>4, <1>5, RenamedNext DEF SameOperation

LEMMA RenamedStep ==
    ASSUME Disk, Renaming, Renamed, DOMAIN op = Fields, op.snap \in Layout, StepDone
    PROVE  SameOperation /\ Renamed'
<1> DEFINE a == RenameOff
           b == RenameOnto
           c == op.snap[op.from]
<1>1. op.todo # <<>> /\ Step.do # "rewrite" /\ Feasible(Step) /\ Effect(Step) /\ Advance(Step)
  BY DEF StepDone, Running
<1>2. /\ op.todo \in Seq(Between(a, b)) /\ a \in Paths /\ b \in Paths /\ a # b /\ a[1] = b[1]
      /\ Halfway(dir, op.held, a, b, c, op.todo) /\ \A k \in Kinds : Fits(k, c[k])
      /\ op.held = Absent
  BY <1>1, RenamedShape
<1>3. PICK k \in Kinds : Step = Transfer(a, b, k)
  BY <1>1, RenamedShape
<1>4. k \in Plain /\ Step = Move(a, b, k)
  BY <1>1, <1>3, TransferIs DEF Plain, Transfer
<1>5. /\ UNCHANGED <<groups, control>>
      /\ dir[a][k] # Absent /\ dir'[a][k] = Absent /\ dir'[b][k] = dir[a][k]
      /\ \A x \in Paths : \A l \in Kinds : l # k => dir'[x][l] = dir[x][l]
  BY <1>1, <1>2, <1>4, MoveEffect
<1>6. dir[a][k] = Cell(c[k], k, a)
  <2>1. Has(op.todo, Transfer(a, b, k))
    BY <1>1, <1>2, <1>3, HeadHas DEF Step
  <2> QED BY <1>2, <2>1 DEF Halfway
<1>7. c[k] # Absent /\ dir'[b][k] = Cell(c[k], k, b)
  BY <1>2, <1>4, <1>5, <1>6, CellIs
<1> QED BY <1>1, <1>3, <1>5, <1>7, RenamedAdvances

LEMMA RenamedSkips ==
    ASSUME Disk, Renaming, Renamed, DOMAIN op = Fields, op.snap \in Layout, RewriteNothing
    PROVE  SameOperation /\ Renamed'
<1> DEFINE a == RenameOff
           b == RenameOnto
           c == op.snap[op.from]
           S == Between(a, b)
<1>1. /\ op.todo # <<>> /\ Step.do = "rewrite" /\ op.held = Absent /\ dir[Step.from][Step.k] = Absent
      /\ op' = [op EXCEPT !.todo = Tail(@)] /\ UNCHANGED <<dir, groups, control>>
  BY DEF RewriteNothing, Running, disk
<1>2. /\ SameOperation /\ op'.mode = op.mode /\ op'.todo = Tail(op.todo) /\ op'.done = op.done
      /\ op'.held = Absent
  BY <1>1 DEF SameOperation, Frame, Fields
<1>3. /\ op.todo \in Seq(S) /\ Distinct(op.todo) /\ a \in Paths /\ b \in Paths
      /\ Halfway(dir, op.held, a, b, c, op.todo) /\ \A k \in Kinds : Fits(k, c[k])
  BY RenamedShape
<1>4. PICK k \in Kinds : Step = Transfer(a, b, k)
  BY <1>1, RenamedShape
<1>5. k \in Stores /\ dir[a][k] = Absent
  BY <1>1, <1>4, TransferIs
<1>6. dir[b][k] = Absent /\ c[k] = Absent /\ Cell(c[k], k, b) = Absent
  <2>1. Has(op.todo, Transfer(a, b, k))
    BY <1>1, <1>3, <1>4, HeadHas DEF Step
  <2>2. dir[b][k] = Absent /\ dir[a][k] = Cell(c[k], k, a)
    BY <1>1, <1>3, <2>1 DEF Halfway
  <2> QED BY <1>3, <1>5, <2>2, CellIs
<1>7. Head(op.todo) = Transfer(a, b, k)
  BY <1>4 DEF Step
<1>8. Distinct(Tail(op.todo)) /\ Halfway(dir, Absent, a, b, c, Tail(op.todo))
  <2> HIDE DEF S, a, b, c
  <2> QED BY <1>1, <1>3, <1>5, <1>6, <1>7, HalfwayDone, Popped
<1>9. ASSUME op.mode = "do"
      PROVE  Trail(op.from, op.to, c, Tail(op.todo), op.done)
  <2>1. a = op.from /\ b = op.to
    BY <1>9 DEF RenameOff, RenameOnto
  <2>2. Trail(a, b, c, op.todo, op.done)
    BY <1>9, <2>1 DEF Renamed
  <2> HIDE DEF S, a, b, c
  <2>3. Trail(a, b, c, Tail(op.todo), op.done)
    BY <1>1, <1>3, <1>5, <1>6, <1>7, <2>2, TrailSkip
  <2> QED BY <2>1, <2>3
<1> QED BY <1>1, <1>2, <1>8, <1>9, RenamedNext DEF SameOperation

LEMMA RenamedHides ==
    ASSUME Disk, Renaming, Renamed, DOMAIN op = Fields, op.snap \in Layout, Hide
    PROVE  Frame /\ op'.usable = op.usable /\ Renamed'
<1> DEFINE a == RenameOff
           b == RenameOnto
           c == op.snap[op.from]
<1>1. /\ op.todo # <<>> /\ Step.do = "rewrite" /\ op.held = Absent /\ dir[Step.from][Step.k] # Absent
      /\ dir' = With(dir, Step.from, Step.k, Absent) /\ UNCHANGED <<groups, control>>
      /\ op' = [op EXCEPT !.held = dir[Step.from][Step.k]]
  BY DEF Hide, Running, With
<1>2. /\ Frame /\ op'.usable = op.usable /\ op'.mode = op.mode /\ op'.todo = op.todo
      /\ op'.done = op.done /\ op'.held = dir[Step.from][Step.k]
  BY <1>1 DEF Frame, Fields
<1>3. /\ op.todo \in Seq(Between(a, b)) /\ Distinct(op.todo) /\ a \in Paths /\ b \in Paths /\ a # b
      /\ Halfway(dir, op.held, a, b, c, op.todo)
  BY RenamedShape
<1>4. PICK k \in Kinds : Step = Transfer(a, b, k)
  BY <1>1, RenamedShape
<1>5. Step.from = a /\ Step.k = k
  BY <1>4, TransferIs
<1>6. /\ dir'[a][k] = Absent /\ \A l \in Kinds : dir'[b][l] = dir[b][l]
      /\ \A l \in Kinds : l # k => dir'[a][l] = dir[a][l]
  <2>1. dir \in Layout
    BY DEF Disk
  <2> HIDE DEF a, b
  <2> QED BY <1>1, <1>3, <1>5, <2>1, AbsentFits, Put
<1>7. Halfway(dir', op'.held, a, b, c, op.todo)
  <2> SUFFICES ASSUME NEW l \in Kinds
               PROVE  IF Has(op.todo, Transfer(a, b, l))
                      THEN /\ dir'[b][l] = Absent
                           /\ IF op'.held # Absent /\ Head(op.todo) = Transfer(a, b, l)
                              THEN dir'[a][l] = Absent /\ op'.held = Cell(c[l], l, a)
                              ELSE dir'[a][l] = Cell(c[l], l, a)
                      ELSE dir'[a][l] = Absent /\ dir'[b][l] = Cell(c[l], l, b)
    BY DEF Halfway
  <2>1. IF Has(op.todo, Transfer(a, b, l))
        THEN dir[b][l] = Absent /\ dir[a][l] = Cell(c[l], l, a)
        ELSE dir[a][l] = Absent /\ dir[b][l] = Cell(c[l], l, b)
    BY <1>1, <1>3 DEF Halfway
  <2>2. Head(op.todo) = Transfer(a, b, l) <=> l = k
    BY <1>4, TransferInjective DEF Step
  <2>3. Has(op.todo, Transfer(a, b, k))
    BY <1>1, <1>3, <1>4, HeadHas DEF Step
  <2>4. op'.held = dir[a][k] /\ op'.held # Absent
    BY <1>1, <1>2, <1>5
  <2> HIDE DEF a, b, c
  <2> QED BY <1>6, <2>1, <2>2, <2>3, <2>4
<1>8. op.mode = "do" => Trail(op.from, op.to, c, op'.todo, op'.done)
  BY <1>2 DEF Renamed
<1> QED BY <1>1, <1>2, <1>3, <1>7, <1>8, RenamedNext

LEMMA RenamedHolds ==
    ASSUME Renaming, Renamed, op.snap \in Layout, op.held # Absent
    PROVE  \E k \in Stores :
             LET c == op.snap[op.from][k] IN
             /\ op.todo # <<>> /\ Step = Transfer(RenameOff, RenameOnto, k)
             /\ c # Absent /\ op.held = Cell(c, k, RenameOff) /\ op.held.repo = c.repo
             /\ dir[RenameOff][k] = Absent /\ dir[RenameOnto][k] = Absent
             /\ Fits(k, op.held)
<1> DEFINE a == RenameOff
           b == RenameOnto
           c == op.snap[op.from]
<1>1. /\ op.todo # <<>> /\ Step.do = "rewrite" /\ op.todo \in Seq(Between(a, b))
      /\ a \in Paths /\ Halfway(dir, op.held, a, b, c, op.todo) /\ \A k \in Kinds : Fits(k, c[k])
  BY RenamedShape
<1>2. PICK k \in Kinds : Step = Transfer(a, b, k)
  BY <1>1, RenamedShape
<1>3. k \in Stores
  BY <1>1, <1>2, TransferIs
<1>4. Has(op.todo, Transfer(a, b, k)) /\ Head(op.todo) = Transfer(a, b, k)
  BY <1>1, <1>2, HeadHas DEF Step
<1>5. dir[b][k] = Absent /\ dir[a][k] = Absent /\ op.held = Cell(c[k], k, a)
  BY <1>1, <1>4 DEF Halfway
<1>6. c[k] # Absent /\ op.held.repo = c[k].repo /\ Fits(k, op.held)
  BY <1>1, <1>5, CellIs
<1> QED BY <1>1, <1>2, <1>3, <1>5, <1>6

LEMMA RenamedPublishes ==
    ASSUME Disk, Renaming, Renamed, DOMAIN op = Fields, op.snap \in Layout, Publish
    PROVE  SameOperation /\ Renamed'
<1> DEFINE a == RenameOff
           b == RenameOnto
           c == op.snap[op.from]
<1>1. /\ op.held # Absent /\ UNCHANGED <<groups, control>> /\ Advance(Step)
      /\ dir' = With(dir, Step.to, Step.k, Data(op.held.repo, Step.k, Step.new))
  BY DEF Publish, With
<1>2. PICK k \in Stores :
             /\ op.todo # <<>> /\ Step = Transfer(a, b, k)
             /\ c[k] # Absent /\ op.held = Cell(c[k], k, a) /\ op.held.repo = c[k].repo
             /\ dir[a][k] = Absent /\ dir[b][k] = Absent
  BY <1>1, RenamedHolds
<1>3. k \in Kinds /\ a \in Paths /\ b \in Paths /\ a # b /\ Fits(k, c[k])
  BY PlainKinds, RenamedShape
<1>4. dir' = With(dir, b, k, Cell(c[k], k, b))
  <2>1. Step.to = b /\ Step.k = k /\ Step.new = b
    BY <1>2, TransferIs
  <2> QED BY <1>1, <1>2, <2>1 DEF Cell
<1>5. /\ dir'[a][k] = Absent /\ dir'[b][k] = Cell(c[k], k, b)
      /\ \A x \in Paths : \A l \in Kinds : l # k => dir'[x][l] = dir[x][l]
  <2>1. dir \in Layout /\ Fits(k, Cell(c[k], k, b))
    BY <1>3, CellIs DEF Disk
  <2> HIDE DEF a, b, c
  <2> QED BY <1>2, <1>3, <1>4, <2>1, Put
<1> QED BY <1>1, <1>2, <1>3, <1>5, RenamedAdvances

\* Failing before anything else does, a renaming is to undo what it has done.
LEMMA RenamedTurns ==
    ASSUME Renaming, Renamed, DOMAIN op = Fields, op.snap \in Layout, op.mode = "do",
           op' = AfterFailure(Step), UNCHANGED <<groups, control>>,
           Halfway(dir', Absent, op.from, op.to, op.snap[op.from], op.todo)
    PROVE  SameOperation /\ Renamed'
<1>1. op.kind # "move" /\ op.from \in Paths /\ op.to \in Paths
  BY DEF Renaming, RenamingData
<1>2. SameOperation /\ op'.mode = "undo" /\ op'.todo = op.done /\ op'.done = <<>>
  BY <1>1, Fails
<1>3. /\ op'.from = op.from /\ op'.to = op.to /\ op'.snap = op.snap /\ op'.usable = op.usable
      /\ usable' = usable /\ op'.held = Absent
  BY <1>2, UsableStays DEF SameOperation, Frame
<1>4. Trail(op.from, op.to, op.snap[op.from], op.todo, op.done) /\ Distinct(op.done)
  BY DEF Renamed, Trail
<1>5. Halfway(dir', Absent, op.to, op.from, op.snap[op.from], op.done)
  BY <1>1, <1>4, HalfwayBack
<1> QED BY <1>2, <1>3, <1>4, <1>5 DEF Renamed

LEMMA RenamedFails ==
    ASSUME Renaming, Renamed, DOMAIN op = Fields, op.snap \in Layout, op.mode = "do",
           op.held = Absent, op' = AfterFailure(Step), UNCHANGED disk
    PROVE  SameOperation /\ Renamed'
<1>1. UNCHANGED <<groups, control, dir>>
  BY DEF disk
<1>2. Halfway(dir, Absent, op.from, op.to, op.snap[op.from], op.todo)
  BY DEF Renamed
<1> QED BY <1>1, <1>2, RenamedTurns

LEMMA RenamedPublishFails ==
    ASSUME Disk, Renaming, Renamed, DOMAIN op = Fields, op.snap \in Layout, op.mode = "do", PublishFails
    PROVE  SameOperation /\ Renamed'
<1> DEFINE a == op.from
           b == op.to
           c == op.snap[op.from]
<1>1. /\ op.held # Absent /\ UNCHANGED <<groups, control>> /\ op' = AfterFailure(Step)
      /\ dir' = With(dir, Step.from, Step.k, op.held)
  BY DEF PublishFails, With
<1>2. RenameOff = a /\ RenameOnto = b
  BY DEF RenameOff, RenameOnto
<1>3. PICK k \in Stores :
             /\ op.todo # <<>> /\ Step = Transfer(a, b, k)
             /\ c[k] # Absent /\ op.held = Cell(c[k], k, a)
             /\ dir[a][k] = Absent /\ dir[b][k] = Absent /\ Fits(k, op.held)
  BY <1>1, <1>2, RenamedHolds
<1>4. k \in Kinds /\ a \in Paths /\ b \in Paths /\ a # b /\ Halfway(dir, op.held, a, b, c, op.todo)
  BY <1>2, PlainKinds, RenamedShape
<1>5. /\ dir'[a][k] = Cell(c[k], k, a) /\ dir'[b][k] = Absent
      /\ \A x \in Paths : \A l \in Kinds : l # k => dir'[x][l] = dir[x][l]
  <2>1. dir \in Layout /\ Step.from = a /\ Step.k = k
    BY <1>3, TransferIs DEF Disk
  <2> QED BY <1>1, <1>3, <1>4, <2>1, Put
<1>6. Halfway(dir', Absent, a, b, c, op.todo)
  <2> SUFFICES ASSUME NEW l \in Kinds
               PROVE  IF Has(op.todo, Transfer(a, b, l))
                      THEN dir'[b][l] = Absent /\ dir'[a][l] = Cell(c[l], l, a)
                      ELSE dir'[a][l] = Absent /\ dir'[b][l] = Cell(c[l], l, b)
    BY DEF Halfway
  <2>1. Head(op.todo) = Transfer(a, b, l) <=> l = k
    BY <1>3, TransferInjective DEF Step
  <2>2. Has(op.todo, Transfer(a, b, k))
    <3>1. op.todo \in Seq(Between(a, b))
      BY <1>2, RenamedShape
    <3> QED BY <1>3, <3>1, HeadHas DEF Step
  <2>3. l # k => IF Has(op.todo, Transfer(a, b, l))
                 THEN dir[b][l] = Absent /\ dir[a][l] = Cell(c[l], l, a)
                 ELSE dir[a][l] = Absent /\ dir[b][l] = Cell(c[l], l, b)
    BY <1>4, <2>1 DEF Halfway
  <2> HIDE DEF a, b, c
  <2> QED BY <1>4, <1>5, <2>2, <2>3
<1> QED BY <1>1, <1>6, RenamedTurns

-----------------------------------------------------------------------------
(* The lists of a group that is renamed. *)

LEMMA LabelIs ==
    \A y, n, k, b, c :
      /\ Relabel(y, n, k, b, c).do = "rewrite" /\ Relabel(y, n, k, b, c).k = k
      /\ Relabel(y, n, k, b, c).from = <<y, n>> /\ Relabel(y, n, k, b, c).to = <<y, n>>
      /\ Relabel(y, n, k, b, c).old = <<b, n>> /\ Relabel(y, n, k, b, c).new = <<c, n>>
BY DEF Relabel, Rewrite

LEMMA LabelInjective ==
    \A y, n, k, z, m, l, b, c, d, e :
      Relabel(y, n, k, b, c) = Relabel(z, m, l, d, e) => y = z /\ n = m /\ k = l
<1> SUFFICES ASSUME NEW y, NEW n, NEW k, NEW z, NEW m, NEW l, NEW b, NEW c, NEW d, NEW e,
                    Relabel(y, n, k, b, c) = Relabel(z, m, l, d, e)
             PROVE  y = z /\ n = m /\ k = l
  OBVIOUS
<1>1. <<y, n>> = <<z, m>> /\ k = l
  BY LabelIs
<1> QED BY <1>1

LEMMA CarryIs ==
    /\ \A a, b : Carry(a, b).do = "carry" /\ Carry(a, b).k = "group"
                 /\ Carry(a, b).from = a /\ Carry(a, b).to = b
    /\ \A a : Control(a).do = "control" /\ Control(a).k = "group" /\ Control(a).to = a
BY DEF Carry, Control

LEMMA Different ==
    \A a, b, c, y, n, k, d, e :
      /\ Carry(a, b) # Control(c) /\ Carry(a, b) # Relabel(y, n, k, d, e)
      /\ Control(c) # Relabel(y, n, k, d, e)
      /\ a # b => Carry(a, b) # Carry(b, a)
<1> SUFFICES ASSUME NEW a, NEW b, NEW c, NEW y, NEW n, NEW k, NEW d, NEW e
             PROVE  /\ Carry(a, b) # Control(c) /\ Carry(a, b) # Relabel(y, n, k, d, e)
                    /\ Control(c) # Relabel(y, n, k, d, e)
                    /\ a # b => Carry(a, b) # Carry(b, a)
  OBVIOUS
<1>1. /\ Carry(a, b).do = "carry" /\ Control(c).do = "control"
      /\ Relabel(y, n, k, d, e).do = "rewrite" /\ Carry(a, b).from = a /\ Carry(b, a).from = b
  BY LabelIs, CarryIs
<1> QED BY <1>1

LEMMA RankIs ==
    /\ \A a, b, Z : Rank(Carry(a, b), Z) = 1 /\ Rank(Control(a), Z) = 4
    /\ \A y, n, k, b, c, Z :
         Rank(Relabel(y, n, k, b, c), Z) = IF y = Z THEN 0 ELSE IF k = "issues" THEN 2 ELSE 3
<1>1. \A a, b, Z : Rank(Carry(a, b), Z) = 1 /\ Rank(Control(a), Z) = 4
  BY CarryIs DEF Rank
<1>2. ASSUME NEW y, NEW n, NEW k, NEW b, NEW c, NEW Z
      PROVE  Rank(Relabel(y, n, k, b, c), Z) = IF y = Z THEN 0 ELSE IF k = "issues" THEN 2 ELSE 3
  <2>1. /\ Relabel(y, n, k, b, c).do = "rewrite" /\ Relabel(y, n, k, b, c).from[1] = y
        /\ Relabel(y, n, k, b, c).k = k
    BY LabelIs
  <2> QED BY <2>1 DEF Rank
<1> QED BY <1>1, <1>2

LEMMA FirstRank ==
    ASSUME NEW S, NEW t \in Seq(S), t # <<>>, NEW Z, Ordered(t, Z), NEW s, Has(t, s), s # Head(t)
    PROVE  Rank(Head(t), Z) <= Rank(s, Z)
<1>1. DOMAIN t = 1 .. Len(t) /\ Len(t) \in Nat /\ Head(t) = t[1] /\ 1 \in 1 .. Len(t)
  OBVIOUS
<1>2. PICK i \in 1 .. Len(t) : t[i] = s
  BY <1>1 DEF Has
<1>3. 1 < i
  BY <1>1, <1>2
<1> QED BY <1>1, <1>2, <1>3 DEF Ordered

LEMMA OrderedTail ==
    ASSUME NEW S, NEW t \in Seq(S), t # <<>>, NEW Z, Ordered(t, Z)
    PROVE  Ordered(Tail(t), Z)
<1>1. /\ DOMAIN t = 1 .. Len(t) /\ DOMAIN Tail(t) = 1 .. Len(t) - 1 /\ Len(t) \in Nat
      /\ \A i \in 1 .. Len(t) - 1 : Tail(t)[i] = t[i + 1] /\ i + 1 \in 1 .. Len(t)
  OBVIOUS
<1>2. Distinct(Tail(t))
  BY Popped DEF Ordered
<1>3. ASSUME NEW i \in DOMAIN Tail(t), NEW j \in DOMAIN Tail(t), i < j
      PROVE  Rank(Tail(t)[i], Z) <= Rank(Tail(t)[j], Z)
  <2>1. i + 1 \in DOMAIN t /\ j + 1 \in DOMAIN t /\ i + 1 < j + 1
    BY <1>1, <1>3
  <2>2. Rank(t[i + 1], Z) <= Rank(t[j + 1], Z)
    BY <2>1 DEF Ordered
  <2> QED BY <1>1, <2>2
<1> QED BY <1>2, <1>3 DEF Ordered

LEMMA OrderedJoin ==
    ASSUME NEW S, NEW a \in Seq(S), NEW b \in Seq(S), NEW Z, Ordered(a, Z), Ordered(b, Z),
           \A s, u : Has(a, s) /\ Has(b, u) => s # u /\ Rank(s, Z) <= Rank(u, Z)
    PROVE  Ordered(a \o b, Z)
<1>1. Distinct(a \o b)
  BY JoinDistinct DEF Ordered
<1> DEFINE t == a \o b
<1>2. /\ DOMAIN t = 1 .. Len(a) + Len(b) /\ Len(a) \in Nat /\ Len(b) \in Nat
      /\ DOMAIN a = 1 .. Len(a) /\ DOMAIN b = 1 .. Len(b)
      /\ \A i \in 1 .. Len(a) : t[i] = a[i]
      /\ \A i \in Len(a) + 1 .. Len(a) + Len(b) : t[i] = b[i - Len(a)] /\ i - Len(a) \in 1 .. Len(b)
  BY Joined
<1> HIDE DEF t
<1>3. ASSUME NEW i \in DOMAIN t, NEW j \in DOMAIN t, i < j
      PROVE  Rank(t[i], Z) <= Rank(t[j], Z)
  <2>1. CASE j <= Len(a)
    BY <1>2, <1>3, <2>1 DEF Ordered
  <2>2. CASE i > Len(a)
    <3>1. /\ i \in Len(a) + 1 .. Len(a) + Len(b) /\ j \in Len(a) + 1 .. Len(a) + Len(b)
          /\ i - Len(a) < j - Len(a)
      BY <1>2, <1>3, <2>2
    <3>2. Rank(b[i - Len(a)], Z) <= Rank(b[j - Len(a)], Z)
      BY <1>2, <3>1 DEF Ordered
    <3> QED BY <1>2, <3>1, <3>2
  <2>3. CASE i <= Len(a) /\ j > Len(a)
    <3>1. Has(a, t[i]) /\ Has(b, t[j])
      BY <1>2, <1>3, <2>3 DEF Has
    <3> QED BY <3>1
  <2> QED BY <1>2, <1>3, <2>1, <2>2, <2>3
<1> QED BY <1>1, <1>3 DEF Ordered, t

LEMMA OrderedOne ==
    ASSUME NEW s, NEW Z
    PROVE  Ordered(<<s>>, Z) /\ Ordered(<<>>, Z)
<1>1. DOMAIN <<s>> = {1} /\ DOMAIN <<>> = {}
  OBVIOUS
<1>2. \A i, j \in {1} : ~(i < j)
  OBVIOUS
<1> QED BY <1>1, <1>2, DistinctOne, DistinctNone DEF Ordered

LEMMA RewriteAllIs ==
    ASSUME NEW G, NEW a \in G, NEW b \in G, NEW c \in G, NEW k \in Stores, NEW Z
    PROVE  /\ RewriteAll(a, k, b, c) \in Seq(Relocations(G))
           /\ Ordered(RewriteAll(a, k, b, c), Z)
           /\ \A s : Has(RewriteAll(a, k, b, c), s) <=> \E n \in NameSet : s = Relabel(a, n, k, b, c)
<1> DEFINE t == RewriteAll(a, k, b, c)
<1>1. t \in Seq(Relocations(G))
  BY RewriteAllSteps
<1>2. Names \in Seq(NameSet) /\ DOMAIN Names = 1 .. Len(Names) /\ Len(Names) \in Nat
  BY LifecycleAssumption
<1>3. DOMAIN t = 1 .. Len(Names) /\ \A i \in 1 .. Len(Names) : t[i] = Relabel(a, Names[i], k, b, c)
  BY DEF RewriteAll, Relabel
<1>4. NameSet = {Names[i] : i \in 1 .. Len(Names)}
  BY <1>2 DEF NameSet, ToSet
<1> HIDE DEF t
<1>5. Distinct(t)
  <2> SUFFICES ASSUME NEW i \in 1 .. Len(Names), NEW j \in 1 .. Len(Names), t[i] = t[j] PROVE i = j
    BY <1>3 DEF Distinct
  <2>1. Names[i] = Names[j]
    BY <1>3, LabelInjective
  <2> QED BY <1>2, <2>1, WalkAssumption
<1>6. ASSUME NEW i \in DOMAIN t, NEW j \in DOMAIN t
      PROVE  Rank(t[i], Z) <= Rank(t[j], Z)
  <2>1. Rank(t[i], Z) = Rank(t[j], Z) /\ Rank(t[i], Z) \in {0, 2, 3}
    BY <1>3, RankIs
  <2> QED BY <2>1
<1>7. ASSUME NEW s PROVE Has(t, s) <=> \E n \in NameSet : s = Relabel(a, n, k, b, c)
  BY <1>3, <1>4 DEF Has
<1> QED BY <1>1, <1>5, <1>6, <1>7 DEF Ordered, t

LEMMA RewritesAre ==
    ASSUME NEW a \in Groups, NEW b \in Groups, NEW k \in Stores
    PROVE  /\ RewriteAll(b, k, a, b) \in Seq(Relocations({a, b}))
           /\ Ordered(RewriteAll(b, k, a, b), a)
           /\ \A s : Has(RewriteAll(b, k, a, b), s) <=> \E n \in NameSet : s = Relabel(b, n, k, a, b)
<1> DEFINE G == {a, b}
<1>1. a \in G /\ b \in G
  OBVIOUS
<1> HIDE DEF G
<1>2. RewriteAll(b, k, a, b) \in Seq(Relocations(G))
  BY <1>1, RewriteAllIs
<1>3. Ordered(RewriteAll(b, k, a, b), a)
  BY <1>1, RewriteAllIs
<1>4. \A s : Has(RewriteAll(b, k, a, b), s) <=> \E n \in NameSet : s = Relabel(b, n, k, a, b)
  BY <1>1, RewriteAllIs
<1> QED BY <1>2, <1>3, <1>4 DEF G

\* The list of a renaming that begins, or that is taken back.
LEMMA FreshList ==
    ASSUME NEW a \in Groups, NEW b \in Groups, a # b, NEW u \in {<<>>, <<Control(b)>>}
    PROVE  /\ GroupSteps(a, b) \o u \in Seq(Relocations({a, b}))
           /\ Ordered(GroupSteps(a, b) \o u, a)
           /\ \A s : Has(GroupSteps(a, b) \o u, s) <=>
                \/ s = Carry(a, b)
                \/ \E n \in NameSet, k \in Stores : s = Relabel(b, n, k, a, b)
                \/ Has(u, s)
<1> DEFINE G == {a, b}
           R == Relocations(G)
           C == <<Carry(a, b)>>
           I == RewriteAll(b, "issues", a, b)
           V == RewriteAll(b, "reviews", a, b)
<1>1. "issues" \in Stores /\ "reviews" \in Stores /\ Stores = {"issues", "reviews"}
  BY DEF Stores, Catalog!Stores
<1>2. /\ I \in Seq(R) /\ Ordered(I, a) /\ V \in Seq(R) /\ Ordered(V, a)
      /\ \A s : Has(I, s) <=> \E n \in NameSet : s = Relabel(b, n, "issues", a, b)
      /\ \A s : Has(V, s) <=> \E n \in NameSet : s = Relabel(b, n, "reviews", a, b)
  BY <1>1, RewritesAre
<1>3. /\ C \in Seq(R) /\ Ordered(C, a) /\ \A s : Has(C, s) <=> s = Carry(a, b)
  <2>1. Carry(a, b) \in R
    <3>1. a \in G /\ b \in G
      OBVIOUS
    <3> HIDE DEF G
    <3> QED BY <3>1, RelocationSteps
  <2> HIDE DEF R
  <2> QED BY <2>1, OrderedOne, DistinctOne
<1>4. /\ u \in Seq(R) /\ Ordered(u, a) /\ \A s : Has(u, s) => s = Control(b)
  <2>1. Control(b) \in R
    <3>1. b \in G
      OBVIOUS
    <3> HIDE DEF G
    <3> QED BY <3>1, RelocationSteps
  <2>2. CASE u = <<>>
    <3>1. <<>> \in Seq(R)
      OBVIOUS
    <3> HIDE DEF R
    <3> QED BY <2>2, <3>1, OrderedOne, DistinctNone
  <2>3. CASE u = <<Control(b)>>
    <3> HIDE DEF R
    <3> QED BY <2>1, <2>3, OrderedOne, DistinctOne
  <2> QED BY <2>2, <2>3
<1> DEFINE D == C \o I
           E == D \o V
           t == E \o u
<1>5. GroupSteps(a, b) \o u = t
  BY DEF GroupSteps
<1> HIDE DEF R, C, I, V
<1>6. /\ D \in Seq(R) /\ \A s : Has(D, s) <=> Has(C, s) \/ Has(I, s)
      /\ Ordered(D, a)
  <2>1. \A s, v : Has(C, s) /\ Has(I, v) => s # v /\ Rank(s, a) <= Rank(v, a)
    BY <1>2, <1>3, RankIs, Different
  <2> QED BY <1>2, <1>3, <2>1, Joined, OrderedJoin, SeqJoin
<1> HIDE DEF D
<1>7. /\ E \in Seq(R) /\ \A s : Has(E, s) <=> Has(D, s) \/ Has(V, s)
      /\ Ordered(E, a)
  <2>1. \A s, v : Has(D, s) /\ Has(V, v) => s # v /\ Rank(s, a) <= Rank(v, a)
    <3> SUFFICES ASSUME NEW s, NEW v, Has(D, s), Has(V, v) PROVE s # v /\ Rank(s, a) <= Rank(v, a)
      OBVIOUS
    <3>1. PICK n \in NameSet : v = Relabel(b, n, "reviews", a, b)
      BY <1>2
    <3>2. CASE s = Carry(a, b)
      BY <3>1, <3>2, RankIs, Different
    <3>3. CASE \E m \in NameSet : s = Relabel(b, m, "issues", a, b)
      BY <3>1, <3>3, RankIs, LabelInjective
    <3> QED BY <1>2, <1>3, <1>6, <3>2, <3>3
  <2> QED BY <1>2, <1>6, <2>1, Joined, OrderedJoin, SeqJoin
<1> HIDE DEF E
<1>8. /\ t \in Seq(R) /\ \A s : Has(t, s) <=> Has(E, s) \/ Has(u, s)
      /\ Ordered(t, a)
  <2>1. \A s, v : Has(E, s) /\ Has(u, v) => s # v /\ Rank(s, a) <= Rank(v, a)
    <3> SUFFICES ASSUME NEW s, NEW v, Has(E, s), Has(u, v) PROVE s # v /\ Rank(s, a) <= Rank(v, a)
      OBVIOUS
    <3>1. v = Control(b)
      BY <1>4
    <3>2. CASE s = Carry(a, b)
      BY <3>1, <3>2, RankIs, Different
    <3>3. CASE \E m \in NameSet, k \in Stores : s = Relabel(b, m, k, a, b)
      <4>1. PICK m \in NameSet, k \in Stores : s = Relabel(b, m, k, a, b)
        BY <3>3
      <4>2. Rank(s, a) \in {0, 2, 3}
        BY <4>1, RankIs
      <4>3. Rank(v, a) = 4 /\ s # v
        BY <3>1, <4>1, RankIs, Different
      <4> QED BY <4>2, <4>3
    <3>4. Has(C, s) \/ Has(I, s) \/ Has(V, s)
      BY <1>6, <1>7
    <3> QED BY <1>1, <1>2, <1>3, <3>2, <3>3, <3>4
  <2> QED BY <1>4, <1>7, <2>1, Joined, OrderedJoin, SeqJoin
<1>9. ASSUME NEW s
      PROVE  Has(t, s) <=> \/ s = Carry(a, b)
                           \/ \E n \in NameSet, k \in Stores : s = Relabel(b, n, k, a, b)
                           \/ Has(u, s)
  <2>1. Has(t, s) <=> Has(C, s) \/ Has(I, s) \/ Has(V, s) \/ Has(u, s)
    BY <1>6, <1>7, <1>8
  <2>2. (\E n \in NameSet, k \in Stores : s = Relabel(b, n, k, a, b)) <=> Has(I, s) \/ Has(V, s)
    BY <1>1, <1>2
  <2> QED BY <1>3, <2>1, <2>2
<1> QED BY <1>5, <1>8, <1>9 DEF R

\* The list that takes a renaming back when the merge requests have failed.
LEMMA BackList ==
    ASSUME NEW a \in Groups, NEW b \in Groups, a # b,
           NEW v \in Seq(Relocations({a, b})), Ordered(v, a),
           \A s : Has(v, s) => \E n \in NameSet : s = Relabel(a, n, "reviews", a, b)
    PROVE  LET t == v \o <<Carry(a, b)>> \o RewriteAll(b, "issues", a, b) IN
           /\ t \in Seq(Relocations({a, b}))
           /\ Ordered(t, a)
           /\ \A s : Has(t, s) <=> \/ Has(v, s)
                                   \/ s = Carry(a, b)
                                   \/ \E n \in NameSet : s = Relabel(b, n, "issues", a, b)
<1> DEFINE G == {a, b}
           R == Relocations(G)
           C == <<Carry(a, b)>>
           I == RewriteAll(b, "issues", a, b)
           D == v \o C
           t == D \o I
<1>2. /\ I \in Seq(R) /\ Ordered(I, a)
      /\ \A s : Has(I, s) <=> \E n \in NameSet : s = Relabel(b, n, "issues", a, b)
  <2>1. a \in G /\ b \in G /\ "issues" \in Stores
    BY PlainKinds
  <2> HIDE DEF G
  <2> QED BY <2>1, RewriteAllIs
<1>3. /\ C \in Seq(R) /\ Ordered(C, a) /\ \A s : Has(C, s) <=> s = Carry(a, b)
  <2>1. Carry(a, b) \in R
    <3>1. a \in G /\ b \in G
      OBVIOUS
    <3> HIDE DEF G
    <3> QED BY <3>1, RelocationSteps
  <2> HIDE DEF R
  <2> QED BY <2>1, OrderedOne, DistinctOne
<1>4. v \in Seq(R)
  OBVIOUS
<1> HIDE DEF R, C, I
<1>6. /\ D \in Seq(R) /\ \A s : Has(D, s) <=> Has(v, s) \/ Has(C, s)
      /\ Ordered(D, a)
  <2>1. \A s, x : Has(v, s) /\ Has(C, x) => s # x /\ Rank(s, a) <= Rank(x, a)
    <3> SUFFICES ASSUME NEW s, NEW x, Has(v, s), Has(C, x) PROVE s # x /\ Rank(s, a) <= Rank(x, a)
      OBVIOUS
    <3>1. PICK n \in NameSet : s = Relabel(a, n, "reviews", a, b)
      OBVIOUS
    <3> QED BY <1>3, <3>1, RankIs, Different
  <2> QED BY <1>3, <1>4, <2>1, Joined, OrderedJoin, SeqJoin
<1> HIDE DEF D
<1>7. /\ t \in Seq(R) /\ \A s : Has(t, s) <=> Has(D, s) \/ Has(I, s)
      /\ Ordered(t, a)
  <2>1. \A s, x : Has(D, s) /\ Has(I, x) => s # x /\ Rank(s, a) <= Rank(x, a)
    <3> SUFFICES ASSUME NEW s, NEW x, Has(D, s), Has(I, x) PROVE s # x /\ Rank(s, a) <= Rank(x, a)
      OBVIOUS
    <3>1. PICK n \in NameSet : x = Relabel(b, n, "issues", a, b)
      BY <1>2
    <3>2. Rank(x, a) = 2
      BY <3>1, RankIs
    <3>3. CASE Has(v, s)
      <4>1. PICK m \in NameSet : s = Relabel(a, m, "reviews", a, b)
        BY <3>3
      <4> QED BY <3>1, <3>2, <4>1, RankIs, LabelInjective
    <3>4. CASE s = Carry(a, b)
      BY <3>1, <3>2, <3>4, RankIs, Different
    <3> QED BY <1>3, <1>6, <3>3, <3>4
  <2> QED BY <1>2, <1>6, <2>1, Joined, OrderedJoin, SeqJoin
<1>8. \A s : Has(t, s) <=> \/ Has(v, s)
                           \/ s = Carry(a, b)
                           \/ \E n \in NameSet : s = Relabel(b, n, "issues", a, b)
  BY <1>2, <1>3, <1>6, <1>7
<1>9. t = v \o <<Carry(a, b)>> \o RewriteAll(b, "issues", a, b)
  BY DEF D, C, I
<1> HIDE DEF t
<1> QED BY <1>7, <1>8, <1>9 DEF R

\* What has been done in the merge requests comes first in the list.
LEMMA ReviewsDoneAre ==
    ASSUME NEW S, op.done \in Seq(S), Distinct(op.done), NEW m \in 0 .. Len(op.done),
           \A i \in DOMAIN op.done : op.done[i].k = "reviews" <=> i <= m
    PROVE  /\ ReviewsDone \in Seq(S) /\ Distinct(ReviewsDone)
           /\ \A s : Has(ReviewsDone, s) <=> Has(op.done, s) /\ s.k = "reviews"
<1> DEFINE t == op.done
           v == SubSeq(t, 1, m)
<1>1. t \in Seq(S) /\ DOMAIN t = 1 .. Len(t) /\ Len(t) \in Nat /\ m \in Nat
  OBVIOUS
<1>2. {i \in DOMAIN t : t[i].k = "reviews"} = 1 .. m
  BY <1>1
<1>3. Cardinality(1 .. m) = m
  BY <1>1, FS_Interval
<1>4. ReviewsDone = v
  BY <1>2, <1>3 DEF ReviewsDone
<1>5. v \in Seq(S) /\ DOMAIN v = 1 .. m /\ \A i \in 1 .. m : v[i] = t[i] /\ i \in DOMAIN t
  BY <1>1
<1> HIDE DEF v
<1>6. Distinct(v)
  BY <1>5 DEF Distinct
<1>7. ASSUME NEW s PROVE Has(v, s) <=> Has(t, s) /\ s.k = "reviews"
  BY <1>1, <1>5 DEF Has
<1> HIDE DEF t
<1> QED BY <1>4, <1>5, <1>6, <1>7 DEF t

-----------------------------------------------------------------------------
(* A group is renamed. *)

LEMMA MoveTypes ==
    ASSUME Moving
    PROVE  LET X == Onto(op)
               Z == Off(op) IN
           /\ op.kind = "move" /\ X \in Groups /\ Z \in Groups /\ X # Z /\ {op.from, op.to} = {X, Z}
           /\ op.todo \in Seq(Relocations({X, Z})) /\ op.done \in Seq(Relocations({X, Z}))
           /\ op.held # Absent => op.todo # <<>> /\ Step.do = "rewrite"
<1>1. PICK g \in Groups : MovingData(g)
  BY DEF Moving
<1>2. /\ op.kind = "move" /\ op.from \in Groups /\ op.to \in Groups /\ op.from # op.to
      /\ op.held # Absent => op.todo # <<>> /\ Step.do = "rewrite"
  BY <1>1 DEF MovingData, Aside
<1>3. {op.from, op.to} = {Onto(op), Off(op)} /\ Onto(op) # Off(op)
      /\ Onto(op) \in Groups /\ Off(op) \in Groups
  BY <1>2 DEF Onto, Off
<1>4. op.todo \in Seq(Relocations({op.from, op.to})) /\ op.done \in Seq(Relocations({op.from, op.to}))
  BY DEF Moving, MovingSteps
<1> QED BY <1>2, <1>3, <1>4

\* Two states of the same operation that go in the same direction.
Likewise(o, v) ==
  /\ v.from = o.from /\ v.to = o.to /\ v.snap = o.snap /\ v.usable = o.usable
  /\ v.mode = o.mode /\ v.back = o.back

LEMMA LikewiseIs ==
    ASSUME NEW o, NEW v, Likewise(o, v)
    PROVE  /\ Onto(v) = Onto(o) /\ Off(v) = Off(o) /\ Origin(v) = Origin(o)
           /\ \A y, n, k : Label(v, y, n, k) = Label(o, y, n, k)
<1>1. Onto(v) = Onto(o) /\ Off(v) = Off(o) /\ Origin(v) = Origin(o)
  BY DEF Likewise, Onto, Off, Origin
<1> QED BY <1>1 DEF Label

\* What the list of a renaming may begin with, and where the directory is then.
LEMMA Heads ==
    ASSUME Moving, Listed(op), op.todo # <<>>
    PROVE  LET X == Onto(op)
               Z == Off(op) IN
           \/ Step = Carry(Z, X) /\ Seat(op) = Z /\ \A n \in NameSet, k \in Stores : ~Has(op.todo, Label(op, Z, n, k))
           \/ Step = Control(X) /\ Seat(op) = X /\ \A s : Has(op.todo, s) => s = Control(X)
           \/ \E n \in NameSet, k \in Stores : Step = Label(op, Seat(op), n, k)
<1> DEFINE X == Onto(op)
           Z == Off(op)
           t == op.todo
<1>1. X # Z /\ t \in Seq(Relocations({X, Z})) /\ t # <<>> /\ Step = Head(t)
  BY MoveTypes DEF Step
<1>2. /\ Ordered(t, Z)
      /\ \A i \in DOMAIN t :
           \/ t[i] \in {Carry(Z, X), Control(X)}
           \/ \E y \in {X, Z}, n \in NameSet, k \in Stores : t[i] = Label(op, y, n, k)
      /\ \A n \in NameSet : \A k \in Stores :
           Has(t, Label(op, Z, n, k)) => Has(t, Carry(Z, X)) /\ ~Has(t, Label(op, X, n, k))
  BY DEF Listed
<1>3. ASSUME NEW s, Has(t, s)
      PROVE  \/ s \in {Carry(Z, X), Control(X)}
             \/ \E y \in {X, Z}, n \in NameSet, k \in Stores : s = Label(op, y, n, k)
  BY <1>2, <1>3 DEF Has
<1>4. Has(t, Step)
  BY <1>1, HeadHas
<1>5. \A s : Has(t, s) => s = Step \/ Rank(Step, Z) <= Rank(s, Z)
  <2> HIDE DEF X, Z, t
  <2> QED BY <1>1, <1>2, FirstRank
<1>6. \A y, n, k : Rank(Label(op, y, n, k), Z) = IF y = Z THEN 0 ELSE IF k = "issues" THEN 2 ELSE 3
  BY RankIs DEF Label
<1>7. Rank(Carry(Z, X), Z) = 1 /\ Rank(Control(X), Z) = 4
  BY RankIs
<1>8. \A n, y, k : Carry(Z, X) # Label(op, y, n, k) /\ Control(X) # Label(op, y, n, k)
  BY Different DEF Label
<1>9. Carry(Z, X) # Control(X)
  BY Different
<1>10. CASE Step = Carry(Z, X)
  <2>1. Seat(op) = Z
    BY <1>4, <1>10 DEF Seat
  <2>2. ASSUME NEW n \in NameSet, NEW k \in Stores, Has(t, Label(op, Z, n, k)) PROVE FALSE
    <3>1. Rank(Step, Z) = 1 /\ Rank(Label(op, Z, n, k), Z) = 0 /\ Label(op, Z, n, k) # Step
      BY <1>6, <1>7, <1>8, <1>10
    <3> QED BY <1>5, <2>2, <3>1
  <2> QED BY <1>10, <2>1, <2>2
<1>11. CASE Step = Control(X)
  <2>1. ASSUME NEW s, Has(t, s) PROVE s = Control(X)
    <3>1. SUFFICES ASSUME s # Control(X) PROVE FALSE
      OBVIOUS
    <3>2. 4 <= Rank(s, Z)
      BY <1>5, <1>7, <1>11, <2>1, <3>1
    <3>3. s = Carry(Z, X) \/ \E y \in {X, Z}, n \in NameSet, k \in Stores : s = Label(op, y, n, k)
      BY <1>3, <2>1, <3>1
    <3>4. Rank(s, Z) \in {0, 1, 2, 3}
      BY <1>6, <1>7, <3>3
    <3> QED BY <3>2, <3>4
  <2>2. Seat(op) = X
    BY <1>9, <2>1 DEF Seat
  <2> QED BY <1>11, <2>1, <2>2
<1>12. CASE \E y \in {X, Z}, n \in NameSet, k \in Stores : Step = Label(op, y, n, k)
  <2>1. PICK y \in {X, Z}, n \in NameSet, k \in Stores : Step = Label(op, y, n, k)
    BY <1>12
  <2>2. CASE y = Z
    <3>1. Has(t, Carry(Z, X))
      BY <1>2, <1>4, <2>1, <2>2
    <3> QED BY <2>1, <2>2, <3>1 DEF Seat
  <2>3. CASE y = X
    <3>1. ~Has(t, Carry(Z, X))
      <4>1. Rank(Step, Z) \in {2, 3}
        BY <1>1, <1>6, <2>1, <2>3
      <4>2. SUFFICES ASSUME Has(t, Carry(Z, X)) PROVE FALSE
        OBVIOUS
      <4>3. Rank(Step, Z) <= 1
        BY <1>5, <1>7, <1>8, <2>1, <4>2
      <4> QED BY <4>1, <4>3
    <3>2. Seat(op) = X
      BY <3>1 DEF Seat
    <3> QED BY <2>1, <2>3, <3>2
  <2> QED BY <2>1, <2>2, <2>3
<1> QED BY <1>3, <1>4, <1>10, <1>11, <1>12

\* One step less is left to do.
LEMMA ListedTail ==
    ASSUME Moving, Listed(op), op.todo # <<>>, Likewise(op, op'), op'.todo = Tail(op.todo)
    PROVE  Listed(op')
<1> DEFINE X == Onto(op)
           Z == Off(op)
           t == op.todo
           u == Tail(op.todo)
<1>1. X # Z /\ t \in Seq(Relocations({X, Z})) /\ t # <<>> /\ Step = Head(t)
  BY MoveTypes DEF Step
<1>2. /\ Ordered(t, Z)
      /\ \A i \in DOMAIN t :
           \/ t[i] \in {Carry(Z, X), Control(X)}
           \/ \E y \in {X, Z}, n \in NameSet, k \in Stores : t[i] = Label(op, y, n, k)
      /\ \A n \in NameSet : \A k \in Stores :
           Has(t, Label(op, Z, n, k)) => Has(t, Carry(Z, X)) /\ ~Has(t, Label(op, X, n, k))
  BY DEF Listed
<1>3. Onto(op') = X /\ Off(op') = Z /\ (\A y, n, k : Label(op', y, n, k) = Label(op, y, n, k)) /\ op'.todo = u
  BY LikewiseIs
<1>4. Ordered(u, Z) /\ \A s : Has(u, s) <=> Has(t, s) /\ s # Step
  <2> HIDE DEF X, Z
  <2> QED BY <1>1, <1>2, OrderedTail, Popped DEF Ordered
<1>5. \/ Step = Carry(Z, X) /\ \A n \in NameSet, k \in Stores : ~Has(t, Label(op, Z, n, k))
      \/ Step # Carry(Z, X)
  <2>1. \A n, y, k : Label(op, y, n, k) # Carry(Z, X)
    BY Different DEF Label
  <2>2. Control(X) # Carry(Z, X)
    BY Different
  <2> QED BY <2>1, <2>2, Heads
<1> HIDE DEF X, Z, t, u
<1>6. ASSUME NEW i \in DOMAIN u
      PROVE  \/ u[i] \in {Carry(Z, X), Control(X)}
             \/ \E y \in {X, Z}, n \in NameSet, k \in Stores : u[i] = Label(op, y, n, k)
  <2>1. Has(t, u[i])
    BY <1>4 DEF Has
  <2> QED BY <1>2, <2>1 DEF Has
<1>7. ASSUME NEW n \in NameSet, NEW k \in Stores, Has(u, Label(op, Z, n, k))
      PROVE  Has(u, Carry(Z, X)) /\ ~Has(u, Label(op, X, n, k))
  BY <1>2, <1>4, <1>5, <1>7
<1>8. Ordered(op'.todo, Off(op'))
  BY <1>3, <1>4
<1>10. ASSUME NEW i \in DOMAIN op'.todo
       PROVE  \/ op'.todo[i] \in {Carry(Off(op'), Onto(op')), Control(Onto(op'))}
              \/ \E y \in {Onto(op'), Off(op')}, n \in NameSet, k \in Stores : op'.todo[i] = Label(op', y, n, k)
  <2>1. i \in DOMAIN u /\ op'.todo[i] = u[i]
    BY <1>3
  <2>2. CASE u[i] \in {Carry(Z, X), Control(X)}
    BY <1>3, <2>1, <2>2
  <2>3. CASE \E y \in {X, Z}, n \in NameSet, k \in Stores : u[i] = Label(op, y, n, k)
    <3>1. PICK y \in {X, Z}, n \in NameSet, k \in Stores : u[i] = Label(op, y, n, k)
      BY <2>3
    <3>2. op'.todo[i] = Label(op', y, n, k) /\ y \in {Onto(op'), Off(op')}
      BY <1>3, <2>1, <3>1
    <3> QED BY <3>2
  <2> QED BY <1>6, <2>1, <2>2, <2>3
<1>9. \A n \in NameSet : \A k \in Stores :
        Has(op'.todo, Label(op', Off(op'), n, k)) =>
          Has(op'.todo, Carry(Off(op'), Onto(op'))) /\ ~Has(op'.todo, Label(op', Onto(op'), n, k))
  BY <1>3, <1>7
<1> QED BY <1>8, <1>9, <1>10 DEF Listed

\* The records of one store are not to be rewritten any more.
LEMMA LabelPopped ==
    ASSUME Moving, Listed(op), op.todo # <<>>, Likewise(op, op'), op'.todo = Tail(op.todo),
           NEW n \in NameSet, NEW k \in Stores, Step = Label(op, Seat(op), n, k)
    PROVE  /\ Seat(op') = Seat(op) /\ Pending(op, n, k)
           /\ \A m \in NameSet, l \in Kinds :
                /\ Pending(op', m, l) <=> Pending(op, m, l) /\ ~(m = n /\ l = k)
                /\ Raised(op, m, l) <=> m = n /\ l = k
<1> DEFINE X == Onto(op)
           Z == Off(op)
           Y == Seat(op)
           t == op.todo
           u == Tail(op.todo)
<1>1. X # Z /\ t \in Seq(Relocations({X, Z})) /\ t # <<>> /\ Step = Head(t) /\ Y \in {X, Z}
  BY MoveTypes DEF Step, Seat
<1>2. Onto(op') = X /\ Off(op') = Z /\ (\A y, m, l : Label(op', y, m, l) = Label(op, y, m, l)) /\ op'.todo = u
  BY LikewiseIs
<1>3. \A m \in NameSet : \A l \in Stores : Has(t, Label(op, Z, m, l)) => ~Has(t, Label(op, X, m, l))
  BY DEF Listed
<1>4. \A s : Has(u, s) <=> Has(t, s) /\ s # Step
  <2>1. Distinct(t)
    BY DEF Listed, Ordered
  <2> HIDE DEF X, Z
  <2> QED BY <1>1, <2>1, Popped
<1>5. Has(t, Step)
  BY <1>1, HeadHas
<1>6. Seat(op') = Y
  <2>1. Carry(Z, X) # Step
    BY Different DEF Label
  <2> QED BY <1>2, <1>4, <2>1 DEF Seat
<1>7. \A y, m, l : Label(op, y, m, l) = Step <=> y = Y /\ m = n /\ l = k
  BY LabelInjective DEF Label
<1> HIDE DEF X, Z, Y, t, u
<1>8. ASSUME NEW m \in NameSet, NEW l \in Kinds
      PROVE  /\ Pending(op', m, l) <=> \E y \in {X, Z} : Has(u, Label(op, y, m, l))
             /\ Pending(op, m, l) <=> \E y \in {X, Z} : Has(t, Label(op, y, m, l))
             /\ Raised(op, m, l) <=> \E y \in {X, Z} : Label(op, y, m, l) = Step
  BY <1>1, <1>2 DEF Pending, Raised, X, Z, t
<1>9. Pending(op, n, k)
  BY <1>1, <1>5, <1>7 DEF Pending, X, Z, t
<1>10. ASSUME NEW m \in NameSet, NEW l \in Kinds
       PROVE  /\ Pending(op', m, l) <=> Pending(op, m, l) /\ ~(m = n /\ l = k)
              /\ Raised(op, m, l) <=> m = n /\ l = k
  <2>1. Raised(op, m, l) <=> m = n /\ l = k
    BY <1>1, <1>7, <1>8
  <2>2. CASE m = n /\ l = k
    <3>1. \A y \in {X, Z} : ~Has(u, Label(op, y, n, k))
      BY <1>1, <1>3, <1>4, <1>5, <1>7
    <3> QED BY <1>8, <2>1, <2>2, <3>1
  <2>3. CASE ~(m = n /\ l = k)
    <3>1. \A y : Has(u, Label(op, y, m, l)) <=> Has(t, Label(op, y, m, l))
      BY <1>4, <1>7, <2>3
    <3> QED BY <1>8, <2>1, <2>3, <3>1
  <2> QED BY <2>2, <2>3
<1> QED BY <1>6, <1>9, <1>10 DEF Y

\* The layouts d and dir agree but for the data of kind k under path p.
Apart(d, p, k) ==
  /\ \A x \in Paths : x # p => d[x] = dir[x]
  /\ \A l \in Kinds : l # k => d[p][l] = dir[p][l]

\* What is under another path than that of the store at hand.
LEMMA MovedApart ==
    ASSUME Moving, NEW h, Moved(dir, h, op), NEW o, Likewise(op, o), Seat(o) = Seat(op),
           NEW n \in NameSet, NEW k \in Stores, NEW d, Apart(d, <<Seat(op), n>>, k)
    PROVE  /\ \A x \in Paths : x[1] \notin {Onto(o), Off(o)} => d[x] = o.snap[x]
           /\ \A x \in Paths : x[1] \in {Onto(o), Off(o)} /\ x[1] # Seat(o) => d[x] = Nothing
<1> DEFINE X == Onto(op)
           Z == Off(op)
           Y == Seat(op)
<1>1. Onto(o) = X /\ Off(o) = Z /\ Seat(o) = Y /\ o.snap = op.snap /\ Y \in {X, Z} /\ Y \in Groups
  BY LikewiseIs, MoveTypes DEF Likewise, Seat
<1>2. <<Y, n>>[1] = Y
  OBVIOUS
<1>3. /\ \A x \in Paths : x[1] \notin {X, Z} => dir[x] = op.snap[x]
      /\ \A x \in Paths : x[1] \in {X, Z} /\ x[1] # Y => dir[x] = Nothing
  BY DEF Moved
<1> HIDE DEF X, Z, Y
<1>4. \A x \in Paths : x[1] # Y => d[x] = dir[x]
  BY <1>2 DEF Apart, Y
<1> QED BY <1>1, <1>3, <1>4

LEMMA MovedPopped ==
    ASSUME Moving, Listed(op), NEW h, Moved(dir, h, op), op.todo # <<>>, Likewise(op, op'),
           op'.todo = Tail(op.todo),
           NEW n \in NameSet, NEW k \in Stores, Step = Label(op, Seat(op), n, k),
           NEW d, Apart(d, <<Seat(op), n>>, k),
           d[<<Seat(op), n>>][k] = Cell(op.snap[<<Origin(op), n>>][k], k, <<Onto(op), n>>)
    PROVE  Moved(d, Absent, op')
<1> DEFINE X == Onto(op)
           Z == Off(op)
           Y == Seat(op)
           g == Origin(op)
<1>1. /\ Seat(op') = Y /\ Pending(op, n, k)
      /\ \A m \in NameSet, l \in Kinds :
           /\ Pending(op', m, l) <=> Pending(op, m, l) /\ ~(m = n /\ l = k)
           /\ Raised(op, m, l) <=> m = n /\ l = k
  BY LabelPopped
<1>2. Onto(op') = X /\ Off(op') = Z /\ Origin(op') = g /\ op'.snap = op.snap
  BY LikewiseIs DEF Likewise
<1>3. /\ \A x \in Paths : x[1] \notin {Onto(op'), Off(op')} => d[x] = op'.snap[x]
      /\ \A x \in Paths : x[1] \in {Onto(op'), Off(op')} /\ x[1] # Seat(op') => d[x] = Nothing
  BY <1>1, MovedApart
<1>4. ASSUME NEW m \in NameSet, NEW l \in Kinds
      PROVE  d[<<Y, m>>][l] =
               Cell(op.snap[<<g, m>>][l], l, <<IF Pending(op', m, l) THEN Z ELSE X, m>>)
  <2>1. Y \in Groups /\ k \in Kinds
    BY MoveTypes, PlainKinds DEF Seat
  <2>2. <<Y, m>> \in Paths /\ (<<Y, m>> = <<Y, n>> => m = n)
    BY <2>1, PathParts
  <2>3. CASE m = n /\ l = k
    BY <1>1, <2>3
  <2>4. CASE ~(m = n /\ l = k)
    <3>1. d[<<Y, m>>][l] = dir[<<Y, m>>][l]
      <4>1. CASE m # n
        BY <2>2, <4>1 DEF Apart
      <4>2. CASE m = n
        BY <2>4, <4>2 DEF Apart
      <4> QED BY <4>1, <4>2
    <3>2. dir[<<Y, m>>][l] =
               Cell(op.snap[<<g, m>>][l], l, <<IF Pending(op, m, l) THEN Z ELSE X, m>>)
      BY <1>1, <2>4 DEF Moved
    <3> QED BY <1>1, <2>4, <3>1, <3>2
  <2> QED BY <2>3, <2>4
<1>5. \A m \in NameSet : \A l \in Kinds :
        d[<<Seat(op'), m>>][l] =
          Cell(op'.snap[<<Origin(op'), m>>][l], l, <<IF Pending(op', m, l) THEN Off(op') ELSE Onto(op'), m>>)
  BY <1>1, <1>2, <1>4
<1> QED BY <1>3, <1>5 DEF Moved

\* The record store that is set aside names the old path still.
LEMMA MovedHides ==
    ASSUME Moving, Listed(op), Moved(dir, Absent, op), op.todo # <<>>, Likewise(op, op'),
           op'.todo = op.todo,
           NEW n \in NameSet, NEW k \in Stores, Step = Label(op, Seat(op), n, k),
           op'.held = dir[<<Seat(op), n>>][k],
           NEW d, Apart(d, <<Seat(op), n>>, k), d[<<Seat(op), n>>][k] = Absent
    PROVE  Moved(d, op'.held, op')
<1> DEFINE X == Onto(op)
           Z == Off(op)
           Y == Seat(op)
           g == Origin(op)
           h == op'.held
<1>1. /\ Onto(op') = X /\ Off(op') = Z /\ Origin(op') = g /\ op'.snap = op.snap
      /\ \A y, m, l : Label(op', y, m, l) = Label(op, y, m, l)
  BY LikewiseIs DEF Likewise
<1>2. /\ Seat(op') = Y
      /\ \A m \in NameSet, l \in Kinds :
           /\ Pending(op', m, l) <=> Pending(op, m, l)
           /\ Raised(op', m, l) <=> Raised(op, m, l)
  BY <1>1 DEF Seat, Pending, Raised
<1>3. \A m \in NameSet, l \in Kinds : Raised(op, m, l) <=> m = n /\ l = k
  <2>1. \A y, m, l : Label(op, y, m, l) = Step => m = n /\ l = k
    BY LabelInjective DEF Label
  <2>2. Y \in {X, Z}
    BY DEF Seat
  <2> QED BY <2>1, <2>2 DEF Raised, Step
<1>4. /\ \A x \in Paths : x[1] \notin {Onto(op'), Off(op')} => d[x] = op'.snap[x]
      /\ \A x \in Paths : x[1] \in {Onto(op'), Off(op')} /\ x[1] # Seat(op') => d[x] = Nothing
  BY <1>2, MovedApart
<1>5. ASSUME NEW m \in NameSet, NEW l \in Kinds
      PROVE  LET c == Cell(op.snap[<<g, m>>][l], l, <<IF Pending(op, m, l) THEN Z ELSE X, m>>)
             IN  IF h # Absent /\ Raised(op, m, l) THEN d[<<Y, m>>][l] = Absent /\ h = c
                                                   ELSE d[<<Y, m>>][l] = c
  <2> DEFINE c == Cell(op.snap[<<g, m>>][l], l, <<IF Pending(op, m, l) THEN Z ELSE X, m>>)
  <2>1. dir[<<Y, m>>][l] = c
    BY DEF Moved
  <2>2. Y \in Groups /\ k \in Kinds
    BY MoveTypes, PlainKinds DEF Seat
  <2>3. <<Y, m>> \in Paths /\ (<<Y, m>> = <<Y, n>> => m = n)
    BY <2>2, PathParts
  <2>4. CASE m = n /\ l = k
    BY <1>3, <2>1, <2>4
  <2>5. CASE ~(m = n /\ l = k)
    <3>1. d[<<Y, m>>][l] = dir[<<Y, m>>][l]
      <4>1. CASE m # n
        BY <2>3, <4>1 DEF Apart
      <4>2. CASE m = n
        BY <2>5, <4>2 DEF Apart
      <4> QED BY <4>1, <4>2
    <3> QED BY <1>3, <2>1, <2>5, <3>1
  <2> QED BY <2>4, <2>5
<1>6. \A m \in NameSet : \A l \in Kinds :
        LET c == Cell(op'.snap[<<Origin(op'), m>>][l], l, <<IF Pending(op', m, l) THEN Off(op') ELSE Onto(op'), m>>)
        IN  IF op'.held # Absent /\ Raised(op', m, l) THEN d[<<Seat(op'), m>>][l] = Absent /\ op'.held = c
                                                  ELSE d[<<Seat(op'), m>>][l] = c
  BY <1>1, <1>2, <1>5
<1> QED BY <1>4, <1>6 DEF Moved

\* It is put back.
LEMMA MovedRestores ==
    ASSUME Moving, Listed(op), Moved(dir, op.held, op), op.todo # <<>>, op.held # Absent,
           NEW n \in NameSet, NEW k \in Stores, Step = Label(op, Seat(op), n, k),
           NEW d, Apart(d, <<Seat(op), n>>, k), d[<<Seat(op), n>>][k] = op.held
    PROVE  Moved(d, Absent, op)
<1> DEFINE X == Onto(op)
           Z == Off(op)
           Y == Seat(op)
           g == Origin(op)
<1>1. \A m \in NameSet, l \in Kinds : Raised(op, m, l) <=> m = n /\ l = k
  <2>1. \A y, m, l : Label(op, y, m, l) = Step => m = n /\ l = k
    BY LabelInjective DEF Label
  <2>2. Y \in {X, Z}
    BY DEF Seat
  <2> QED BY <2>1, <2>2 DEF Raised, Step
<1>2. Likewise(op, op)
  BY DEF Likewise
<1>3. /\ \A x \in Paths : x[1] \notin {X, Z} => d[x] = op.snap[x]
      /\ \A x \in Paths : x[1] \in {X, Z} /\ x[1] # Y => d[x] = Nothing
  BY <1>2, MovedApart
<1>4. ASSUME NEW m \in NameSet, NEW l \in Kinds
      PROVE  d[<<Y, m>>][l] = Cell(op.snap[<<g, m>>][l], l, <<IF Pending(op, m, l) THEN Z ELSE X, m>>)
  <2>1. Y \in Groups /\ k \in Kinds
    BY MoveTypes, PlainKinds DEF Seat
  <2>2. <<Y, m>> \in Paths /\ (<<Y, m>> = <<Y, n>> => m = n)
    BY <2>1, PathParts
  <2>3. CASE m = n /\ l = k
    <3>1. op.held = Cell(op.snap[<<g, m>>][l], l, <<IF Pending(op, m, l) THEN Z ELSE X, m>>)
      BY <1>1, <2>3 DEF Moved
    <3> QED BY <2>3, <3>1
  <2>4. CASE ~(m = n /\ l = k)
    <3>1. d[<<Y, m>>][l] = dir[<<Y, m>>][l]
      <4>1. CASE m # n
        BY <2>2, <4>1 DEF Apart
      <4>2. CASE m = n
        BY <2>4, <4>2 DEF Apart
      <4> QED BY <4>1, <4>2
    <3>2. dir[<<Y, m>>][l] = Cell(op.snap[<<g, m>>][l], l, <<IF Pending(op, m, l) THEN Z ELSE X, m>>)
      BY <1>1, <2>4 DEF Moved
    <3> QED BY <3>1, <3>2
  <2> QED BY <2>3, <2>4
<1> QED BY <1>3, <1>4 DEF Moved

LEMMA PlacedStays ==
    ASSUME Moving, Placed(op), Likewise(op, op'), Seat(op') = Seat(op), op.todo # <<>>,
           Has(op'.todo, Control(Onto(op))) <=> Has(op.todo, Control(Onto(op))),
           UNCHANGED <<groups, control>>
    PROVE  Placed(op)'
<1>1. Onto(op') = Onto(op) /\ Off(op') = Off(op) /\ Origin(op') = Origin(op)
  BY LikewiseIs
<1>2. usable' = usable
  BY UsableStays
<1> QED BY <1>1, <1>2 DEF Placed, Likewise

\* What is done in a store is to be undone before what was done earlier.
LEMMA UndoesPopped ==
    ASSUME Moving, Listed(op), Undoes(op), op.mode = "do", ~op.back, op.todo # <<>>,
           Likewise(op, op'), op'.todo = Tail(op.todo),
           NEW n \in NameSet, NEW k \in Stores, Step = Label(op, Seat(op), n, k),
           IF op.snap[<<Off(op), n>>][k] = Absent
           THEN op'.done = op.done
           ELSE op'.done = <<Relabel(Seat(op), n, k, Onto(op), Off(op))>> \o op.done
    PROVE  Undoes(op')
<1> DEFINE X == Onto(op)
           Z == Off(op)
           t == op.todo
           u == op'.todo
           e == op.done
           f == op'.done
           S == Relocations({X, Z})
           Back(m, l) == Relabel(X, m, l, X, Z)
<1>1. X # Z /\ t \in Seq(S) /\ e \in Seq(S) /\ t # <<>> /\ Step = Head(t) /\ Has(t, Step)
  BY MoveTypes, HeadHas DEF Step
<1>2. /\ Distinct(e)
      /\ \A i \in DOMAIN e : e[i] = Carry(X, Z) \/ \E m \in NameSet, l \in Stores : e[i] = Back(m, l)
      /\ Has(e, Carry(X, Z)) <=> ~Has(t, Carry(Z, X))
      /\ e # <<>> => e[Len(e)] = Carry(X, Z)
      /\ \A m \in NameSet, l \in Stores :
           /\ ~Has(t, Label(op, Z, m, l))
           /\ Has(e, Back(m, l)) <=> op.snap[<<Z, m>>][l] # Absent /\ ~Has(t, Label(op, X, m, l))
      /\ \E q \in 0 .. Len(e) : \A i \in DOMAIN e : e[i].k = "reviews" <=> i <= q
      /\ (\E m \in NameSet : Has(t, Label(op, X, m, "issues")))
         => \A m \in NameSet : Has(t, Label(op, X, m, "reviews"))
  BY DEF Undoes
<1>3. /\ Onto(op') = X /\ Off(op') = Z /\ op'.snap = op.snap
      /\ \A y, m, l : Label(op', y, m, l) = Label(op, y, m, l)
  BY LikewiseIs DEF Likewise
<1>4. \A s : Has(u, s) <=> Has(t, s) /\ s # Step
  <2>1. Distinct(t)
    BY DEF Listed, Ordered
  <2> HIDE DEF X, Z, S
  <2> QED BY <1>1, <2>1, Popped
<1>5. Seat(op) = X
  BY <1>1, <1>2 DEF Seat
<1>6. Step = Label(op, X, n, k) /\ ~Has(t, Carry(Z, X)) /\ Has(e, Carry(X, Z))
  <2>1. X # Z /\ Seat(op) = X
    BY <1>1, <1>5
  <2>2. ~Has(t, Carry(Z, X))
    BY <2>1 DEF Seat
  <2> QED BY <1>2, <1>5, <2>2
<1>7. \A y, m, l : Label(op, y, m, l) = Step <=> y = X /\ m = n /\ l = k
  BY <1>6, LabelInjective DEF Label
<1>8. \A m, l : Back(m, l) = Back(n, k) <=> m = n /\ l = k
  BY LabelInjective
<1>9. \A m, l : Back(m, l) # Carry(X, Z) /\ Back(m, l).k = l /\ Carry(X, Z).k = "group"
  BY Different, LabelIs, CarryIs
<1>10. IF op.snap[<<Z, n>>][k] = Absent THEN f = e ELSE f = <<Back(n, k)>> \o e
  BY <1>5
<1>11. Back(n, k) \in S
  <2> DEFINE G == {X, Z}
  <2>1. X \in G /\ Z \in G
    OBVIOUS
  <2> HIDE DEF G
  <2>2. Relabel(X, n, k, X, Z) \in Relocations(G)
    BY <2>1, RelocationSteps
  <2> QED BY <2>2 DEF G
<1> HIDE DEF X, Z, t, u, e, f, S, Back
<1>12. (\E m \in NameSet : Has(u, Label(op, X, m, "issues")))
         => \A m \in NameSet : Has(u, Label(op, X, m, "reviews"))
  <2> SUFFICES ASSUME NEW m \in NameSet, Has(u, Label(op, X, m, "issues")), NEW j \in NameSet
               PROVE  Has(u, Label(op, X, j, "reviews"))
    OBVIOUS
  <2>1. Has(t, Label(op, X, m, "issues")) /\ Has(t, Label(op, X, j, "reviews"))
        /\ Label(op, X, m, "issues") # Step
    BY <1>2, <1>4
  <2>2. k # "reviews"
    <3>1. SUFFICES ASSUME k = "reviews" PROVE FALSE
      OBVIOUS
    <3>2. Rank(Step, Z) <= Rank(Label(op, X, m, "issues"), Z)
      <4>1. Ordered(t, Z)
        BY DEF Listed, t, Z
      <4> QED BY <1>1, <2>1, <4>1, FirstRank
    <3>3. Rank(Step, Z) = 3 /\ Rank(Label(op, X, m, "issues"), Z) = 2
      BY <1>1, <1>6, <3>1, RankIs DEF Label
    <3> QED BY <3>2, <3>3
  <2> QED BY <1>4, <1>7, <2>1, <2>2
<1> DEFINE Chain ==
             /\ Distinct(f)
             /\ \A i \in DOMAIN f : f[i] = Carry(X, Z) \/ \E m \in NameSet, l \in Stores : f[i] = Back(m, l)
             /\ Has(f, Carry(X, Z))
             /\ f # <<>> => f[Len(f)] = Carry(X, Z)
           Match ==
             \A m \in NameSet, l \in Stores :
               Has(f, Back(m, l)) <=> op.snap[<<Z, m>>][l] # Absent /\ ~Has(u, Label(op, X, m, l))
           Parted == \E q \in 0 .. Len(f) : \A i \in DOMAIN f : f[i].k = "reviews" <=> i <= q
<1>13. ASSUME op.snap[<<Z, n>>][k] = Absent PROVE Chain /\ Match /\ Parted
  <2>1. f = e
    BY <1>10, <1>13
  <2>2. \A m \in NameSet, l \in Stores :
           Has(e, Back(m, l)) <=> op.snap[<<Z, m>>][l] # Absent /\ ~Has(u, Label(op, X, m, l))
    BY <1>2, <1>4, <1>7, <1>13
  <2>3. Chain
    BY <1>2, <1>6, <2>1
  <2>4. Match
    BY <2>1, <2>2
  <2>5. Parted
    BY <1>2, <2>1
  <2> HIDE DEF Chain, Match, Parted
  <2> QED BY <2>3, <2>4, <2>5
<1>14. ASSUME op.snap[<<Z, n>>][k] # Absent PROVE Chain /\ Match /\ Parted
  <2>1. f = <<Back(n, k)>> \o e
    BY <1>10, <1>14
  <2>2. ~Has(e, Back(n, k))
    BY <1>1, <1>2, <1>6
  <2>3. Distinct(f) /\ \A s : Has(f, s) <=> s = Back(n, k) \/ Has(e, s)
    BY <1>1, <1>2, <1>11, <2>1, <2>2, Pushed, HasCons
  <2>4. /\ DOMAIN f = 1 .. Len(f) /\ Len(f) = Len(e) + 1 /\ Len(e) \in Nat /\ DOMAIN e = 1 .. Len(e)
        /\ f[1] = Back(n, k) /\ \A i \in 2 .. Len(f) : f[i] = e[i - 1] /\ i - 1 \in 1 .. Len(e)
    BY <1>1, <1>11, <2>1
  <2>5. \A i \in DOMAIN f : f[i] = Carry(X, Z) \/ \E m \in NameSet, l \in Stores : f[i] = Back(m, l)
    <3> SUFFICES ASSUME NEW i \in DOMAIN f
                 PROVE  f[i] = Carry(X, Z) \/ \E m \in NameSet, l \in Stores : f[i] = Back(m, l)
      OBVIOUS
    <3>1. CASE i = 1
      BY <2>4, <3>1
    <3>2. CASE i # 1
      <4>1. i \in 2 .. Len(f)
        BY <2>4, <3>2
      <4> QED BY <1>2, <2>4, <4>1
    <3> QED BY <3>1, <3>2
  <2>6. Has(f, Carry(X, Z)) /\ f[Len(f)] = Carry(X, Z)
    <3>1. e # <<>> /\ Len(e) >= 1
      BY <1>1, <1>6, HasSome
    <3>2. Len(f) \in 2 .. Len(f) /\ Len(f) - 1 = Len(e)
      BY <2>4, <3>1
    <3>3. f[Len(f)] = e[Len(e)]
      BY <2>4, <3>2
    <3> QED BY <1>2, <1>6, <2>3, <3>1, <3>3
  <2>7. ASSUME NEW m \in NameSet, NEW l \in Stores
        PROVE  Has(f, Back(m, l)) <=> op.snap[<<Z, m>>][l] # Absent /\ ~Has(u, Label(op, X, m, l))
    <3>1. CASE m = n /\ l = k
      BY <1>4, <1>6, <1>14, <2>3, <3>1
    <3>2. CASE ~(m = n /\ l = k)
      <4>1. Has(f, Back(m, l)) <=> Has(e, Back(m, l))
        BY <1>8, <2>3, <3>2
      <4>2. Has(u, Label(op, X, m, l)) <=> Has(t, Label(op, X, m, l))
        BY <1>4, <1>7, <3>2
      <4> QED BY <1>2, <4>1, <4>2
    <3> QED BY <3>1, <3>2
  <2>8. \E q \in 0 .. Len(f) : \A i \in DOMAIN f : f[i].k = "reviews" <=> i <= q
    <3>1. PICK q \in 0 .. Len(e) : \A i \in DOMAIN e : e[i].k = "reviews" <=> i <= q
      BY <1>2
    <3>2. f[1].k = k
      BY <1>9, <2>4
    <3>3. CASE k = "reviews"
      <4>1. q + 1 \in 0 .. Len(f)
        BY <2>4
      <4>2. \A i \in DOMAIN f : f[i].k = "reviews" <=> i <= q + 1
        <5> SUFFICES ASSUME NEW i \in 1 .. Len(f) PROVE f[i].k = "reviews" <=> i <= q + 1
          BY <2>4
        <5>1. CASE i = 1
          BY <3>2, <3>3, <5>1
        <5>2. CASE i # 1
          <6>1. i \in 2 .. Len(f)
            BY <2>4, <5>2
          <6>2. f[i] = e[i - 1] /\ i - 1 \in DOMAIN e /\ (i - 1 <= q <=> i <= q + 1)
            BY <2>4, <6>1
          <6> QED BY <3>1, <6>2
        <5> QED BY <5>1, <5>2
      <4> QED BY <4>1, <4>2
    <3>4. CASE k # "reviews"
      <4>1. k = "issues" /\ "reviews" \in Stores
        BY <3>4 DEF Stores, Catalog!Stores
      <4>2. Has(t, Label(op, X, n, "issues"))
        BY <1>1, <1>6, <4>1
      <4>3. \A m \in NameSet : ~Has(e, Back(m, "reviews"))
        BY <1>2, <4>1, <4>2
      <4>4. \A m, l : Has(e, Back(m, l)) => l # "reviews" \/ m \notin NameSet
        BY <4>3
      <4>5. \A i \in DOMAIN f : f[i].k # "reviews"
        <5> SUFFICES ASSUME NEW i \in 1 .. Len(f) PROVE f[i].k # "reviews"
          BY <2>4
        <5>1. CASE i = 1
          BY <3>2, <3>4, <5>1
        <5>2. CASE i # 1
          <6>1. i \in 2 .. Len(f)
            BY <2>4, <5>2
          <6>2. f[i] = e[i - 1] /\ i - 1 \in DOMAIN e
            BY <2>4, <6>1
          <6>3. Has(e, f[i])
            BY <6>2 DEF Has
          <6>4. CASE f[i] = Carry(X, Z)
            BY <1>9, <6>4
          <6>5. CASE \E m \in NameSet, l \in Stores : f[i] = Back(m, l)
            BY <1>9, <4>4, <6>3, <6>5
          <6> QED BY <2>4, <2>5, <6>4, <6>5
        <5> QED BY <5>1, <5>2
      <4>6. 0 \in 0 .. Len(f) /\ \A i \in DOMAIN f : ~(i <= 0)
        BY <2>4
      <4> QED BY <4>5, <4>6
    <3> QED BY <3>3, <3>4
  <2>9. Chain
    BY <2>3, <2>5, <2>6
  <2>10. Match
    BY <2>7
  <2>11. Parted
    BY <2>8
  <2> HIDE DEF Chain, Match, Parted
  <2> QED BY <2>9, <2>10, <2>11
<1> HIDE DEF Chain, Match, Parted
<1>15. Chain /\ Match /\ Parted
  BY <1>13, <1>14
<1>16. ~Has(u, Carry(Z, X)) /\ \A m \in NameSet, l \in Stores : ~Has(u, Label(op, Z, m, l))
  BY <1>2, <1>4, <1>6
<1>17. /\ Distinct(op'.done)
       /\ \A i \in DOMAIN op'.done :
            op'.done[i] = Carry(Onto(op'), Off(op')) \/
            \E m \in NameSet, l \in Stores : op'.done[i] = Relabel(Onto(op'), m, l, Onto(op'), Off(op'))
       /\ Has(op'.done, Carry(Onto(op'), Off(op')))
       /\ op'.done # <<>> => op'.done[Len(op'.done)] = Carry(Onto(op'), Off(op'))
       /\ \E q \in 0 .. Len(op'.done) : \A i \in DOMAIN op'.done : op'.done[i].k = "reviews" <=> i <= q
  BY <1>3, <1>15 DEF f, Back, Chain, Parted
<1>18. \A m \in NameSet, l \in Stores :
         /\ ~Has(op'.todo, Label(op', Off(op'), m, l))
         /\ Has(op'.done, Relabel(Onto(op'), m, l, Onto(op'), Off(op'))) <=>
               op'.snap[<<Off(op'), m>>][l] # Absent /\ ~Has(op'.todo, Label(op', Onto(op'), m, l))
  BY <1>3, <1>15, <1>16 DEF f, u, Back, Match
<1>19. /\ ~Has(op'.todo, Carry(Off(op'), Onto(op')))
       /\ (\E m \in NameSet : Has(op'.todo, Label(op', Onto(op'), m, "issues")))
          => \A m \in NameSet : Has(op'.todo, Label(op', Onto(op'), m, "reviews"))
  BY <1>3, <1>12, <1>16 DEF u
<1> QED BY <1>17, <1>18, <1>19 DEF Undoes

LEMMA OriginIs ==
    ASSUME Moving
    PROVE  /\ Origin(op) \in {Onto(op), Off(op)} /\ Origin(op) \in Groups
           /\ Onto(op) \in Groups /\ Off(op) \in Groups /\ Onto(op) # Off(op)
           /\ Seat(op) \in {Onto(op), Off(op)} /\ Seat(op) \in Groups
<1>1. /\ Onto(op) \in Groups /\ Off(op) \in Groups /\ Onto(op) # Off(op)
      /\ {op.from, op.to} = {Onto(op), Off(op)}
  BY MoveTypes
<1>2. Origin(op) \in {op.from, op.to} /\ Seat(op) \in {Onto(op), Off(op)}
  BY DEF Origin, Seat
<1> QED BY <1>1, <1>2

\* The store that is rewritten next.
LEMMA StoreNext ==
    ASSUME Moving, Listed(op), op.todo # <<>>, Step.do = "rewrite"
    PROVE  \E n \in NameSet, k \in Stores :
             /\ Step = Label(op, Seat(op), n, k) /\ <<Seat(op), n>> \in Paths /\ <<Onto(op), n>> \in Paths
             /\ Step.from = <<Seat(op), n>> /\ Step.to = <<Seat(op), n>> /\ Step.k = k
             /\ Step.new = <<Onto(op), n>>
<1>1. Step # Carry(Off(op), Onto(op)) /\ Step # Control(Onto(op))
  BY CarryIs
<1>2. PICK n \in NameSet, k \in Stores : Step = Label(op, Seat(op), n, k)
  BY <1>1, Heads
<1>3. Seat(op) \in Groups /\ Onto(op) \in Groups
  BY MoveTypes DEF Seat
<1>4. <<Seat(op), n>> \in Paths /\ <<Onto(op), n>> \in Paths
  BY <1>3, PathParts
<1>5. /\ Step.from = <<Seat(op), n>> /\ Step.to = <<Seat(op), n>> /\ Step.k = k
      /\ Step.new = <<Onto(op), n>>
  BY <1>2, LabelIs DEF Label
<1> QED BY <1>2, <1>4, <1>5

LEMMA ListHas ==
    ASSUME Moving, Listed(op), op.todo # <<>>
    PROVE  \A s : Has(Tail(op.todo), s) <=> Has(op.todo, s) /\ s # Step
<1>1. op.todo \in Seq(Relocations({Onto(op), Off(op)})) /\ Distinct(op.todo) /\ Step = Head(op.todo)
  BY MoveTypes DEF Listed, Ordered, Step
<1> QED BY <1>1, Popped

LEMMA PutApart ==
    ASSUME Disk, NEW p \in Paths, NEW k \in Kinds, NEW c, Fits(k, c)
    PROVE  Apart(With(dir, p, k, c), p, k) /\ With(dir, p, k, c)[p][k] = c
BY Put DEF Apart, Disk

LEMMA RelocatedSkips ==
    ASSUME Disk, Moving, Relocated, DOMAIN op = Fields, op.snap \in Layout, RewriteNothing
    PROVE  Likewise(op, op') /\ Relocated'
<1>1. /\ op.todo # <<>> /\ op.held = Absent /\ op' = [op EXCEPT !.todo = Tail(@)] /\ Step.do = "rewrite"
      /\ dir[Step.from][Step.k] = Absent /\ UNCHANGED <<dir, groups, control>>
  BY DEF RewriteNothing, Running, disk
<1>2. Likewise(op, op') /\ op'.held = Absent /\ op'.todo = Tail(op.todo) /\ op'.done = op.done
  BY <1>1 DEF Likewise, Fields
<1>3. /\ op.mode \in {"do", "undo"} /\ op.back \in BOOLEAN /\ (op.back => op.mode = "do")
      /\ Listed(op) /\ Moved(dir, Absent, op) /\ Placed(op)
      /\ op.mode = "do" /\ ~op.back => Undoes(op)
  BY <1>1 DEF Relocated
<1>4. PICK n \in NameSet, k \in Stores :
             /\ Step = Label(op, Seat(op), n, k) /\ <<Seat(op), n>> \in Paths /\ <<Onto(op), n>> \in Paths
             /\ Step.from = <<Seat(op), n>> /\ Step.k = k
  BY <1>1, <1>3, StoreNext
<1> DEFINE c == op.snap[<<Origin(op), n>>][k]
<1>5. <<Origin(op), n>> \in Paths /\ <<Off(op), n>> \in Paths /\ k \in Kinds
  BY OriginIs, PathParts, PlainKinds
<1>6. c = Absent
  <2>1. dir[<<Seat(op), n>>][k] = Cell(c, k, <<IF Pending(op, n, k) THEN Off(op) ELSE Onto(op), n>>)
    BY <1>3, <1>5 DEF Moved
  <2>2. Fits(k, c)
    BY <1>5, LayoutAt
  <2> HIDE DEF c
  <2>3. dir[<<Seat(op), n>>][k] = Absent
    BY <1>1, <1>4
  <2> QED BY <1>4, <1>5, <2>1, <2>2, <2>3, CellIs
<1>7. Moved(dir, Absent, op')
  <2>1. Apart(dir, <<Seat(op), n>>, k)
    BY DEF Apart
  <2>2. dir[<<Seat(op), n>>][k] = Cell(c, k, <<Onto(op), n>>)
    BY <1>1, <1>4, <1>6 DEF Cell
  <2> QED BY <1>1, <1>2, <1>3, <1>4, <2>1, <2>2, MovedPopped
<1>8. Listed(op')
  BY <1>1, <1>2, <1>3, ListedTail
<1>9. Placed(op)'
  <2>1. Seat(op') = Seat(op)
    BY <1>1, <1>2, <1>3, <1>4, LabelPopped
  <2>2. Has(op'.todo, Control(Onto(op))) <=> Has(op.todo, Control(Onto(op)))
    <3>1. Step # Control(Onto(op))
      BY <1>1, CarryIs
    <3> QED BY <1>1, <1>2, <1>3, <3>1, ListHas
  <2> QED BY <1>1, <1>2, <1>3, <2>1, <2>2, PlacedStays
<1>10. op'.mode = "do" /\ ~op'.back => Undoes(op')
  <2> SUFFICES ASSUME op.mode = "do", ~op.back PROVE Undoes(op')
    BY <1>2 DEF Likewise
  <2>1. Origin(op) = Off(op)
    BY DEF Origin, Off
  <2> QED BY <1>1, <1>2, <1>3, <1>4, <1>6, <2>1, UndoesPopped
<1> QED BY <1>1, <1>2, <1>3, <1>7, <1>8, <1>9, <1>10 DEF Relocated, Likewise

LEMMA RelocatedHides ==
    ASSUME Disk, Moving, Relocated, DOMAIN op = Fields, Hide
    PROVE  Likewise(op, op') /\ Relocated'
<1>1. /\ op.todo # <<>> /\ op.held = Absent /\ Step.do = "rewrite"
      /\ op' = [op EXCEPT !.held = dir[Step.from][Step.k]]
      /\ dir' = With(dir, Step.from, Step.k, Absent) /\ UNCHANGED <<groups, control>>
  BY DEF Hide, Running, With
<1>2. Likewise(op, op') /\ op'.held = dir[Step.from][Step.k] /\ op'.todo = op.todo /\ op'.done = op.done
  BY <1>1 DEF Likewise, Fields
<1>3. /\ op.mode \in {"do", "undo"} /\ op.back \in BOOLEAN /\ (op.back => op.mode = "do")
      /\ Listed(op) /\ Moved(dir, Absent, op) /\ Placed(op)
      /\ op.mode = "do" /\ ~op.back => Undoes(op)
  BY <1>1 DEF Relocated
<1>4. PICK n \in NameSet, k \in Stores :
             /\ Step = Label(op, Seat(op), n, k) /\ <<Seat(op), n>> \in Paths
             /\ Step.from = <<Seat(op), n>> /\ Step.k = k
  BY <1>1, <1>3, StoreNext
<1>5. Apart(dir', <<Seat(op), n>>, k) /\ dir'[<<Seat(op), n>>][k] = Absent
  <2>1. k \in Kinds /\ Fits(k, Absent)
    BY PlainKinds, AbsentFits
  <2> QED BY <1>1, <1>4, <2>1, PutApart
<1>6. Moved(dir', op'.held, op')
  BY <1>1, <1>2, <1>3, <1>4, <1>5, MovedHides
<1>7. /\ Onto(op') = Onto(op) /\ Off(op') = Off(op)
      /\ \A y, m, l : Label(op', y, m, l) = Label(op, y, m, l)
  BY <1>2, LikewiseIs
<1>8. Listed(op')
  BY <1>2, <1>3, <1>7 DEF Listed
<1>9. Placed(op)'
  <2>1. Seat(op') = Seat(op)
    BY <1>2, <1>7 DEF Seat
  <2> QED BY <1>1, <1>2, <1>3, <2>1, PlacedStays
<1>10. op'.mode = "do" /\ ~op'.back => Undoes(op')
  <2> SUFFICES ASSUME op.mode = "do", ~op.back, Undoes(op) PROVE Undoes(op')
    BY <1>2, <1>3 DEF Likewise
  <2>1. op'.snap = op.snap
    BY <1>2 DEF Likewise
  <2> QED BY <1>2, <1>7, <2>1 DEF Undoes
<1> QED BY <1>2, <1>3, <1>6, <1>8, <1>9, <1>10 DEF Relocated, Likewise

LEMMA RelocatedPublishes ==
    ASSUME Disk, Moving, Relocated, DOMAIN op = Fields, op.snap \in Layout, Publish
    PROVE  Likewise(op, op') /\ Relocated'
<1>1. /\ op.held # Absent /\ UNCHANGED <<groups, control>> /\ Advance(Step)
      /\ dir' = With(dir, Step.to, Step.k, Data(op.held.repo, Step.k, Step.new))
  BY DEF Publish, With
<1>2. op.todo # <<>> /\ Step.do = "rewrite"
  BY <1>1, MoveTypes
<1>3. /\ op.mode \in {"do", "undo"} /\ op.back \in BOOLEAN /\ (op.back => op.mode = "do")
      /\ Listed(op) /\ Moved(dir, op.held, op) /\ Placed(op)
      /\ op.mode = "do" /\ ~op.back => Undoes(op)
  BY DEF Relocated
<1>4. PICK n \in NameSet, k \in Stores :
             /\ Step = Label(op, Seat(op), n, k) /\ <<Seat(op), n>> \in Paths /\ <<Onto(op), n>> \in Paths
             /\ Step.from = <<Seat(op), n>> /\ Step.to = <<Seat(op), n>> /\ Step.k = k
             /\ Step.new = <<Onto(op), n>>
  BY <1>2, <1>3, StoreNext
<1> DEFINE c == op.snap[<<Origin(op), n>>][k]
<1>5. <<Origin(op), n>> \in Paths /\ <<Off(op), n>> \in Paths /\ k \in Kinds
  BY OriginIs, PathParts, PlainKinds
<1>6. Fits(k, c)
  BY <1>5, LayoutAt
<1>7. Likewise(op, op') /\ op'.held = Absent /\ op'.todo = Tail(op.todo) /\ op'.done = Done(Step)
  BY <1>1, Advances DEF SameOperation, Frame, Likewise
<1>8. Raised(op, n, k)
  <2>1. \A m \in NameSet, l \in Kinds : Raised(op, m, l) <=> m = n /\ l = k
    BY <1>2, <1>3, <1>4, <1>7, LabelPopped
  <2> QED BY <1>5, <2>1
<1>9. op.held = Cell(c, k, <<IF Pending(op, n, k) THEN Off(op) ELSE Onto(op), n>>)
  BY <1>1, <1>3, <1>5, <1>8 DEF Moved
<1> HIDE DEF c
<1>10. c # Absent /\ op.held.repo = c.repo
  BY <1>1, <1>4, <1>5, <1>6, <1>9, CellIs
<1>11. dir' = With(dir, <<Seat(op), n>>, k, Cell(c, k, <<Onto(op), n>>))
  BY <1>1, <1>4, <1>10 DEF Cell
<1>12. Apart(dir', <<Seat(op), n>>, k) /\ dir'[<<Seat(op), n>>][k] = Cell(c, k, <<Onto(op), n>>)
  <2>1. Fits(k, Cell(c, k, <<Onto(op), n>>))
    BY <1>4, <1>5, <1>6, CellIs
  <2> QED BY <1>4, <1>5, <1>11, <2>1, PutApart
<1>13. Moved(dir', Absent, op')
  BY <1>2, <1>3, <1>4, <1>7, <1>12, MovedPopped DEF c
<1>14. Listed(op')
  BY <1>2, <1>3, <1>7, ListedTail
<1>15. Placed(op)'
  <2>1. Seat(op') = Seat(op)
    BY <1>2, <1>3, <1>4, <1>7, LabelPopped
  <2>2. Has(op'.todo, Control(Onto(op))) <=> Has(op.todo, Control(Onto(op)))
    <3>1. Step # Control(Onto(op))
      BY <1>2, CarryIs
    <3> QED BY <1>2, <1>3, <1>7, <3>1, ListHas
  <2> QED BY <1>1, <1>2, <1>3, <1>7, <2>1, <2>2, PlacedStays
<1>16. op'.mode = "do" /\ ~op'.back => Undoes(op')
  <2> SUFFICES ASSUME op.mode = "do", ~op.back PROVE Undoes(op')
    BY <1>7 DEF Likewise
  <2>1. Origin(op) = Off(op)
    BY DEF Origin, Off
  <2>2. Done(Step) = <<Relabel(Seat(op), n, k, Onto(op), Off(op))>> \o op.done
    BY <1>4 DEF Done, Reversal, Label, Relabel, Rewrite
  <2>3. op.snap[<<Off(op), n>>][k] # Absent
    BY <1>10, <2>1 DEF c
  <2> QED BY <1>2, <1>3, <1>4, <1>7, <2>2, <2>3, UndoesPopped
<1> QED BY <1>3, <1>7, <1>13, <1>14, <1>15, <1>16 DEF Relocated, Likewise

\* The directory of the group is carried to the other path.
LEMMA RelocatedCarries ==
    ASSUME Disk, Moving, Relocated, DOMAIN op = Fields, op.snap \in Layout, StepDone,
           Step = Carry(Off(op), Onto(op))
    PROVE  Likewise(op, op') /\ Relocated'
<1> DEFINE X == Onto(op)
           Z == Off(op)
           g == Origin(op)
<1>1. op.todo # <<>> /\ Step = Carry(Z, X) /\ Feasible(Carry(Z, X)) /\ Effect(Carry(Z, X)) /\ Advance(Step)
  BY DEF StepDone, Running
<1>2. /\ X \in Groups /\ Z \in Groups /\ X # Z /\ g \in {X, Z} /\ g \in Groups /\ op.held = Absent
      /\ \A n \in NameSet : <<X, n>> \in Paths /\ <<Z, n>> \in Paths
           /\ <<X, n>>[1] = X /\ <<Z, n>>[1] = Z /\ <<X, n>>[2] = n
  <2>1. op.held = Absent
    <3>1. Step.do # "rewrite"
      BY DEF StepDone
    <3> QED BY <3>1, MoveTypes
  <2> QED BY <2>1, OriginIs, PathParts
<1>3. /\ op.mode \in {"do", "undo"} /\ op.back \in BOOLEAN /\ (op.back => op.mode = "do")
      /\ Listed(op) /\ Moved(dir, Absent, op) /\ Placed(op)
      /\ op.mode = "do" /\ ~op.back => Undoes(op)
  BY <1>2 DEF Relocated
<1>4. Likewise(op, op') /\ op'.held = Absent /\ op'.todo = Tail(op.todo) /\ op'.done = Done(Step)
  BY <1>1, Advances DEF SameOperation, Frame, Likewise
<1>5. /\ Onto(op') = X /\ Off(op') = Z /\ Origin(op') = g /\ op'.snap = op.snap /\ op'.usable = op.usable
      /\ \A y, m, l : Label(op', y, m, l) = Label(op, y, m, l)
  BY <1>4, LikewiseIs DEF Likewise
<1>6. Has(op.todo, Step)
  BY <1>1, MoveTypes, HeadHas DEF Step
<1>7. \A s : Has(op'.todo, s) <=> Has(op.todo, s) /\ s # Step
  BY <1>1, <1>3, <1>4, ListHas
<1>8. Seat(op) = Z /\ Seat(op') = X
  BY <1>1, <1>5, <1>6, <1>7 DEF Seat
<1>9. \A n, y, k : Step # Label(op, y, n, k) /\ Step # Control(X)
  BY <1>1, Different DEF Label
<1>10. \A n \in NameSet, k \in Kinds : Pending(op', n, k) <=> Pending(op, n, k)
  BY <1>5, <1>7, <1>9 DEF Pending
<1>11. Listed(op')
  BY <1>1, <1>3, <1>4, ListedTail
<1>12. /\ \A x \in Paths : x[1] = X => dir'[x] = dir[<<Z, x[2]>>]
       /\ \A x \in Paths : x[1] = Z => dir'[x] = Nothing
       /\ \A x \in Paths : x[1] \notin {Z, X} => dir'[x] = dir[x]
  BY <1>1, <1>2, CarryEffect
<1>13. /\ groups' = (groups \ {Z}) \cup {X}
       /\ control' = [control EXCEPT ![X] = control[Z], ![Z] = Absent]
  <2>1. Step.do = "carry" /\ Step.from = Z /\ Step.to = X /\ Effect(Step)
    BY <1>1, CarryIs
  <2> QED BY <2>1 DEF Effect
<1> HIDE DEF X, Z, g
<1>14. Moved(dir', Absent, op')
  <2>1. \A x \in Paths : x[1] \notin {X, Z} => dir'[x] = op.snap[x]
    BY <1>3, <1>12 DEF Moved, X, Z
  <2>2. \A x \in Paths : x[1] \in {X, Z} /\ x[1] # X => dir'[x] = Nothing
    BY <1>12
  <2>3. ASSUME NEW n \in NameSet, NEW k \in Kinds
        PROVE  dir'[<<X, n>>][k] = Cell(op.snap[<<g, n>>][k], k, <<IF Pending(op', n, k) THEN Z ELSE X, n>>)
    <3>1. dir'[<<X, n>>] = dir[<<Z, n>>]
      BY <1>2, <1>12
    <3>2. dir[<<Z, n>>][k] = Cell(op.snap[<<g, n>>][k], k, <<IF Pending(op, n, k) THEN Z ELSE X, n>>)
      BY <1>3, <1>8 DEF Moved, X, Z, g
    <3> QED BY <1>10, <3>1, <3>2
  <2> QED BY <1>5, <1>8, <2>1, <2>2, <2>3 DEF Moved
<1>15. Placed(op)'
  <2>1. /\ control \in [Groups -> Groups \cup {Absent}] /\ groups \subseteq Groups
        /\ Z \in groups /\ \A x \in {X, Z} : x \in groups => x = Z
        /\ Rooted => control[Z] = IF op.mode = "do" /\ ~op.back /\ Has(op.todo, Control(X)) THEN Z ELSE X
    BY <1>3, <1>8 DEF Disk, Placed, X, Z
  <2>2. control'[X] = control[Z] /\ \A x \in Groups \ {X, Z} : control'[x] = control[x]
    BY <1>2, <1>13, <2>1
  <2>3. \A x \in Groups \ {X, Z} : x \in usable' <=> x \in usable
    BY <1>13, <2>2 DEF usable
  <2>4. Has(op'.todo, Control(X)) <=> Has(op.todo, Control(X))
    BY <1>7, <1>9
  <2>5. X \in groups' /\ \A x \in {X, Z} : x \in groups' => x = X
    BY <1>2, <1>13
  <2>6. op'.mode = op.mode /\ op'.back = op.back /\ op'.from = op.from /\ op'.to = op.to
    BY <1>4 DEF Likewise
  <2>7. /\ Rooted => control'[X] = IF op'.mode = "do" /\ ~op'.back /\ Has(op'.todo, Control(X)) THEN Z ELSE X
        /\ (Rooted /\ op'.mode = "do" /\ ~op'.back /\ op'.todo # <<>>) => Has(op'.todo, Control(X))
    BY <1>1, <1>3, <2>1, <2>2, <2>4, <2>6 DEF Placed, X
  <2>8. LET h == IF op.back THEN op.from ELSE op.to IN
        /\ g \in op.usable /\ h \notin op.usable /\ op.usable \subseteq Groups
        /\ \A n \in NameSet : op.snap[<<h, n>>] = Nothing
        /\ \A x \in Groups \ {X, Z} : x \in usable <=> x \in op.usable
    BY <1>3 DEF Placed, g, X, Z
  <2> QED BY <1>5, <1>8, <2>3, <2>5, <2>6, <2>7, <2>8 DEF Placed
<1>16. ASSUME op.mode = "do", ~op.back PROVE Undoes(op')
  <2>1. Undoes(op) /\ Has(op.todo, Carry(Z, X))
    BY <1>1, <1>3, <1>6, <1>16
  <2>2. op.done = <<>> /\ \A n \in NameSet, k \in Stores :
           /\ ~Has(op.todo, Label(op, Z, n, k))
           /\ Has(op.done, Relabel(X, n, k, X, Z)) <=> op.snap[<<Z, n>>][k] # Absent /\ ~Has(op.todo, Label(op, X, n, k))
    BY <2>1 DEF Undoes, X, Z
  <2>3. (\E m \in NameSet : Has(op.todo, Label(op, X, m, "issues")))
        => \A m \in NameSet : Has(op.todo, Label(op, X, m, "reviews"))
    BY <2>1 DEF Undoes, X, Z
  <2>4. op'.done = <<Carry(X, Z)>>
    <3>1. Done(Step) = Reversal(Step) \o op.done
      BY <1>16 DEF Done
    <3>2. Reversal(Step) = <<Carry(X, Z)>>
      BY <1>1 DEF Reversal, Carry
    <3> QED BY <1>4, <2>2, <3>1, <3>2
  <2> DEFINE f == op'.done
  <2>5. DOMAIN f = {1} /\ Len(f) = 1 /\ f[1] = Carry(X, Z) /\ f # <<>>
    BY <2>4
  <2>6. Distinct(f) /\ \A s : Has(f, s) <=> s = Carry(X, Z)
    BY <2>4, DistinctOne
  <2>7. \A n \in NameSet, k \in Stores :
           /\ ~Has(op'.todo, Label(op, Z, n, k))
           /\ Has(f, Relabel(X, n, k, X, Z)) <=> op.snap[<<Z, n>>][k] # Absent /\ ~Has(op'.todo, Label(op, X, n, k))
    <3>1. \A n, k : Relabel(X, n, k, X, Z) # Carry(X, Z)
      BY Different
    <3>2. \A s : ~Has(op.done, s)
      BY <2>2, DistinctNone
    <3> QED BY <1>7, <1>9, <2>2, <2>6, <3>1, <3>2
  <2>8. (\E m \in NameSet : Has(op'.todo, Label(op, X, m, "issues")))
        => \A m \in NameSet : Has(op'.todo, Label(op, X, m, "reviews"))
    BY <1>7, <1>9, <2>3
  <2>9. ~Has(op'.todo, Carry(Z, X))
    BY <1>1, <1>7
  <2>10. \E q \in 0 .. Len(f) : \A i \in DOMAIN f : f[i].k = "reviews" <=> i <= q
    <3>1. f[1].k # "reviews" /\ 0 \in 0 .. Len(f) /\ ~(1 <= 0)
      BY <2>5, CarryIs
    <3> QED BY <2>5, <3>1
  <2> HIDE DEF f
  <2>11. /\ f # <<>> => f[Len(f)] = Carry(X, Z)
         /\ \A i \in DOMAIN f : f[i] = Carry(X, Z)
    BY <2>5
  <2> QED BY <1>5, <2>6, <2>7, <2>8, <2>9, <2>10, <2>11 DEF Undoes, f
<1> QED BY <1>3, <1>4, <1>11, <1>14, <1>15, <1>16 DEF Relocated, Likewise

\* The control document gets the new name of the group.
LEMMA RelocatedRenames ==
    ASSUME Disk, Moving, Relocated, DOMAIN op = Fields, StepDone, Step = Control(Onto(op))
    PROVE  Likewise(op, op') /\ Relocated'
<1> DEFINE X == Onto(op)
           Z == Off(op)
           g == Origin(op)
<1>1. op.todo # <<>> /\ Step = Control(X) /\ Effect(Step) /\ Advance(Step) /\ Step.do # "rewrite"
  BY DEF StepDone, Running
<1>2. X \in Groups /\ Z \in Groups /\ X # Z /\ g \in {X, Z} /\ op.held = Absent
  BY <1>1, OriginIs, MoveTypes
<1>3. /\ op.mode \in {"do", "undo"} /\ op.back \in BOOLEAN /\ (op.back => op.mode = "do")
      /\ Listed(op) /\ Moved(dir, Absent, op) /\ Placed(op)
      /\ op.mode = "do" /\ ~op.back => Undoes(op)
  BY <1>2 DEF Relocated
<1>4. Likewise(op, op') /\ op'.held = Absent /\ op'.todo = Tail(op.todo) /\ op'.done = Done(Step)
  BY <1>1, Advances DEF SameOperation, Frame, Likewise
<1>5. /\ Onto(op') = X /\ Off(op') = Z /\ Origin(op') = g /\ op'.snap = op.snap /\ op'.usable = op.usable
      /\ \A y, m, l : Label(op', y, m, l) = Label(op, y, m, l)
  BY <1>4, LikewiseIs DEF Likewise
<1>6. \A s : Has(op'.todo, s) <=> Has(op.todo, s) /\ s # Step
  BY <1>1, <1>3, <1>4, ListHas
<1>7. /\ \A s : Has(op.todo, s) => s = Step
      /\ Seat(op) = X
  <2>1. Step # Carry(Z, X) /\ \A n, y, k : Step # Label(op, y, n, k)
    BY <1>1, Different DEF Label
  <2> QED BY <1>1, <1>3, <2>1, Heads
<1>8. \A s : ~Has(op'.todo, s)
  BY <1>6, <1>7
<1>9. op'.todo = <<>>
  <2>1. op'.todo \in Seq(Relocations({X, Z}))
    BY <1>1, <1>4, MoveTypes, SeqParts
  <2> QED BY <1>8, <2>1, HeadHas
<1>10. Seat(op') = X
  BY <1>5, <1>8 DEF Seat
<1>11. \A n \in NameSet, k \in Kinds : ~Pending(op', n, k) /\ ~Pending(op, n, k)
  <2>1. \A n, y, k : Step # Label(op, y, n, k)
    BY <1>1, Different DEF Label
  <2> QED BY <1>5, <1>7, <1>8, <2>1 DEF Pending
<1>12. Listed(op')
  BY <1>1, <1>3, <1>4, ListedTail
<1>13. UNCHANGED <<dir, groups>> /\ control' = [control EXCEPT ![X] = X]
  <2>1. Step.do = "control" /\ Step.to = X /\ Effect(Step)
    BY <1>1, CarryIs
  <2> QED BY <2>1 DEF Effect
<1> HIDE DEF X, Z, g
<1>14. Moved(dir', Absent, op')
  <2>1. /\ \A x \in Paths : x[1] \notin {X, Z} => dir[x] = op.snap[x]
        /\ \A x \in Paths : x[1] \in {X, Z} /\ x[1] # X => dir[x] = Nothing
    BY <1>3, <1>7 DEF Moved, X, Z
  <2>2. \A n \in NameSet : \A k \in Kinds : dir[<<X, n>>][k] = Cell(op.snap[<<g, n>>][k], k, <<X, n>>)
    BY <1>3, <1>7, <1>11 DEF Moved, X, g
  <2> QED BY <1>5, <1>10, <1>11, <1>13, <2>1, <2>2 DEF Moved
<1>15. Placed(op)'
  <2>1. /\ control \in [Groups -> Groups \cup {Absent}]
        /\ X \in groups /\ \A x \in {X, Z} : x \in groups => x = X
    BY <1>3, <1>7 DEF Disk, Placed, X, Z
  <2>2. control'[X] = X /\ \A x \in Groups \ {X, Z} : control'[x] = control[x]
    BY <1>2, <1>13, <2>1
  <2>3. \A x \in Groups \ {X, Z} : x \in usable' <=> x \in usable
    BY <1>13, <2>2 DEF usable
  <2>4. op'.mode = op.mode /\ op'.back = op.back /\ op'.from = op.from /\ op'.to = op.to
    BY <1>4 DEF Likewise
  <2>5. LET h == IF op.back THEN op.from ELSE op.to IN
        /\ g \in op.usable /\ h \notin op.usable /\ op.usable \subseteq Groups
        /\ \A n \in NameSet : op.snap[<<h, n>>] = Nothing
        /\ \A x \in Groups \ {X, Z} : x \in usable <=> x \in op.usable
    BY <1>3 DEF Placed, g, X, Z
  <2> QED BY <1>5, <1>8, <1>9, <1>10, <1>13, <2>1, <2>2, <2>3, <2>4, <2>5 DEF Placed
<1>16. ASSUME op.mode = "do", ~op.back PROVE Undoes(op')
  <2>1. op'.done = op.done
    <3>1. Done(Step) = Reversal(Step) \o op.done
      BY <1>16 DEF Done
    <3>2. Reversal(Step) = <<>>
      BY <1>1 DEF Reversal, Control
    <3>3. op.done \in Seq(Relocations({X, Z}))
      BY MoveTypes DEF X, Z
    <3> QED BY <1>4, <3>1, <3>2, <3>3
  <2>2. /\ ~Has(op.todo, Carry(Z, X)) /\ ~Has(op'.todo, Carry(Z, X))
        /\ \A y, n, k : ~Has(op.todo, Label(op, y, n, k)) /\ ~Has(op'.todo, Label(op, y, n, k))
    <3>1. Step # Carry(Z, X) /\ \A n, y, k : Step # Label(op, y, n, k)
      BY <1>1, Different DEF Label
    <3> QED BY <1>7, <1>8, <3>1
  <2>3. Undoes(op)
    BY <1>3, <1>16
  <2> QED BY <1>5, <2>1, <2>2, <2>3 DEF Undoes, X, Z
<1> QED BY <1>3, <1>4, <1>12, <1>13, <1>14, <1>15, <1>16 DEF Relocated, Likewise

LEMMA RelocatedStep ==
    ASSUME Disk, Moving, Relocated, DOMAIN op = Fields, op.snap \in Layout, StepDone
    PROVE  Likewise(op, op') /\ Relocated'
<1>1. op.todo # <<>> /\ Step.do # "rewrite"
  BY DEF StepDone, Running
<1>2. \A y, n, k : Label(op, y, n, k).do = "rewrite"
  BY LabelIs DEF Label
<1>3. Listed(op)
  BY DEF Relocated
<1>4. Step = Carry(Off(op), Onto(op)) \/ Step = Control(Onto(op))
  BY <1>1, <1>2, <1>3, Heads
<1> QED BY <1>4, RelocatedCarries, RelocatedRenames

\* The operation o goes on as v, in the other direction, from where it is.
Turned(o, v) ==
  /\ v.snap = o.snap /\ v.usable = o.usable /\ Onto(v) = Off(o) /\ Off(v) = Onto(o)
  /\ Origin(v) = Origin(o) /\ Seat(v) = Seat(o)
  /\ (IF v.back THEN v.from ELSE v.to) = (IF o.back THEN o.from ELSE o.to)

\* What had been done is to be undone, and what had not been done is not.
LEMMA MovedTurns ==
    ASSUME Moving, op.snap \in Layout, NEW d, Moved(d, Absent, op), NEW v, Turned(op, v),
           \A n \in NameSet, k \in Stores :
             op.snap[<<Origin(op), n>>][k] # Absent => (Pending(v, n, k) <=> ~Pending(op, n, k))
    PROVE  Moved(d, Absent, v)
<1> DEFINE X == Onto(op)
           Z == Off(op)
           Y == Seat(op)
           g == Origin(op)
<1>1. Onto(v) = Z /\ Off(v) = X /\ Origin(v) = g /\ Seat(v) = Y /\ v.snap = op.snap
  BY DEF Turned
<1>2. X \in Groups /\ Z \in Groups /\ g \in Groups
  BY OriginIs
<1> HIDE DEF X, Z, Y, g
<1>3. /\ \A x \in Paths : x[1] \notin {X, Z} => d[x] = op.snap[x]
      /\ \A x \in Paths : x[1] \in {X, Z} /\ x[1] # Y => d[x] = Nothing
  BY DEF Moved, X, Z, Y
<1>4. ASSUME NEW n \in NameSet, NEW k \in Kinds
      PROVE  d[<<Y, n>>][k] = Cell(op.snap[<<g, n>>][k], k, <<IF Pending(v, n, k) THEN X ELSE Z, n>>)
  <2> DEFINE c == op.snap[<<g, n>>][k]
  <2>1. d[<<Y, n>>][k] = Cell(c, k, <<IF Pending(op, n, k) THEN Z ELSE X, n>>)
    BY DEF Moved, X, Z, Y, g
  <2>2. <<g, n>> \in Paths /\ <<X, n>> \in Paths /\ <<Z, n>> \in Paths
    BY <1>2, PathParts
  <2>3. Fits(k, c)
    BY <2>2, LayoutAt
  <2>4. CASE k \in Stores
    <3>1. c # Absent => (Pending(v, n, k) <=> ~Pending(op, n, k))
      BY <2>4 DEF g
    <3>2. c = Absent => \A q : Cell(c, k, q) = Absent
      BY DEF Cell
    <3>3. CASE c = Absent
      BY <2>1, <3>2, <3>3
    <3>4. CASE c # Absent
      BY <2>1, <3>1, <3>4
    <3> QED BY <3>3, <3>4
  <2>5. CASE k \notin Stores
    <3>1. k \in Plain
      BY <2>5 DEF Plain
    <3>2. Cell(c, k, <<X, n>>) = c /\ Cell(c, k, <<Z, n>>) = c
      BY <2>2, <2>3, <3>1, CellIs
    <3>3. d[<<Y, n>>][k] = c
      BY <2>1, <3>2
    <3> QED BY <3>2, <3>3
  <2> QED BY <2>4, <2>5
<1> QED BY <1>1, <1>3, <1>4 DEF Moved

LEMMA PlacedTurns ==
    ASSUME Moving, Placed(op), op.todo # <<>>, op.mode = "do", ~op.back, Turned(op, op'),
           op'.mode = "undo" \/ op'.back, UNCHANGED <<groups, control>>
    PROVE  Placed(op)'
<1> DEFINE X == Onto(op)
           Z == Off(op)
           Y == Seat(op)
           g == Origin(op)
           h == IF op.back THEN op.from ELSE op.to
<1>1. /\ Onto(op') = Z /\ Off(op') = X /\ Origin(op') = g /\ Seat(op') = Y
      /\ op'.snap = op.snap /\ op'.usable = op.usable /\ (IF op'.back THEN op'.from ELSE op'.to) = h
  BY DEF Turned
<1>2. usable' = usable
  BY UsableStays
<1>3. /\ g \in op.usable /\ h \notin op.usable /\ op.usable \subseteq Groups
      /\ \A n \in NameSet : op.snap[<<h, n>>] = Nothing
      /\ Y \in groups /\ \A x \in {X, Z} : x \in groups => x = Y
      /\ \A x \in Groups \ {X, Z} : x \in usable <=> x \in op.usable
  BY DEF Placed
<1>4. Rooted => control[Y] = Z
  BY DEF Placed
<1> HIDE DEF X, Z, Y, g, h
<1> QED BY <1>1, <1>2, <1>3, <1>4 DEF Placed

\* What remains to do when a step has failed for the first time.
LEMMA TurnIs ==
    ASSUME Moving, DOMAIN op = Fields, op.mode = "do", ~op.back, op.back \in BOOLEAN, op.todo # <<>>,
           op' = AfterFailure(Step)
    PROVE  LET X == Onto(op)
               Z == Off(op) IN
           /\ op'.kind = op.kind /\ op'.snap = op.snap /\ op'.usable = op.usable /\ op'.held = Absent
           /\ Onto(op') = Z /\ Off(op') = X /\ Origin(op') = Origin(op)
           /\ (IF op'.back THEN op'.from ELSE op'.to) = (IF op.back THEN op.from ELSE op.to)
           /\ \/ /\ Step.do = "control" /\ op'.mode = "do" /\ op'.back = TRUE
                 /\ op'.todo = GroupSteps(X, Z) \o <<Control(Z)>>
              \/ /\ Step.do # "control" /\ Step.k = "reviews" /\ op'.mode = "undo" /\ op'.back = FALSE
                 /\ op'.todo = ReviewsDone \o <<Carry(X, Z)>> \o RewriteAll(Z, "issues", X, Z)
              \/ /\ Step.do # "control" /\ Step.k # "reviews" /\ op'.mode = "undo" /\ op'.back = FALSE
                 /\ op'.todo = op.done
<1> DEFINE a == op.from
           b == op.to
<1>1. Onto(op) = b /\ Off(op) = a /\ Origin(op) = a
  BY DEF Onto, Off, Origin
<1>2. op.kind = "move" /\ (op.held # Absent => Step.do = "rewrite")
  BY MoveTypes
<1>3. op' = AfterMoveFailure(Step)
  BY <1>2 DEF AfterFailure
<1>4. CASE Step.do = "control"
  <2>1. op' = [op EXCEPT !.back = TRUE, !.from = b, !.to = a, !.done = <<>>,
                         !.todo = GroupSteps(b, a) \o <<Control(a)>>]
    BY <1>3, <1>4 DEF AfterMoveFailure
  <2> DEFINE w == GroupSteps(b, a) \o <<Control(a)>>
  <2>2. op.held = Absent
    BY <1>2, <1>4
  <2> HIDE DEF w
  <2>3. /\ op'.kind = op.kind /\ op'.snap = op.snap /\ op'.usable = op.usable /\ op'.held = Absent
        /\ op'.from = b /\ op'.to = a /\ op'.mode = "do" /\ op'.back = TRUE /\ op'.todo = w
    BY <2>1, <2>2 DEF Fields, w
  <2>4. Onto(op') = a /\ Off(op') = b /\ Origin(op') = a
    BY <2>3 DEF Onto, Off, Origin
  <2> QED BY <1>1, <1>4, <2>3, <2>4 DEF w
<1>5. CASE Step.do # "control" /\ Step.k = "reviews"
  <2> DEFINE w == ReviewsDone \o <<Carry(b, a)>> \o RewriteAll(a, "issues", b, a)
             undo == [op EXCEPT !.mode = "undo", !.done = <<>>, !.held = Absent]
  <2>1. op' = [undo EXCEPT !.todo = w]
    BY <1>3, <1>5 DEF AfterMoveFailure
  <2> HIDE DEF w
  <2>2. /\ op'.kind = op.kind /\ op'.snap = op.snap /\ op'.usable = op.usable /\ op'.held = Absent
        /\ op'.from = a /\ op'.to = b /\ op'.mode = "undo" /\ op'.back = FALSE /\ op'.todo = w
    BY <2>1 DEF Fields
  <2>3. Onto(op') = a /\ Off(op') = b /\ Origin(op') = a
    BY <2>2 DEF Onto, Off, Origin
  <2> QED BY <1>1, <1>5, <2>2, <2>3 DEF w
<1>6. CASE Step.do # "control" /\ Step.k # "reviews"
  <2> DEFINE w == op.done
             undo == [op EXCEPT !.mode = "undo", !.done = <<>>, !.held = Absent]
  <2>1. op' = [undo EXCEPT !.todo = w]
    BY <1>3, <1>6 DEF AfterMoveFailure
  <2> HIDE DEF w
  <2>2. /\ op'.kind = op.kind /\ op'.snap = op.snap /\ op'.usable = op.usable /\ op'.held = Absent
        /\ op'.from = a /\ op'.to = b /\ op'.mode = "undo" /\ op'.back = FALSE /\ op'.todo = w
    BY <2>1 DEF Fields
  <2>3. Onto(op') = a /\ Off(op') = b /\ Origin(op') = a
    BY <2>2 DEF Onto, Off, Origin
  <2> QED BY <1>1, <1>6, <2>2, <2>3 DEF w
<1> QED BY <1>4, <1>5, <1>6

LEMMA ListedIs ==
    ASSUME NEW o, NEW a, NEW b, Onto(o) = a, Off(o) = b, Ordered(o.todo, b),
           \A s : Has(o.todo, s) =>
             \/ s \in {Carry(b, a), Control(a)}
             \/ \E y \in {a, b}, n \in NameSet, k \in Stores : s = Relabel(y, n, k, b, a),
           \A n \in NameSet, k \in Stores :
             Has(o.todo, Relabel(b, n, k, b, a)) =>
               Has(o.todo, Carry(b, a)) /\ ~Has(o.todo, Relabel(a, n, k, b, a))
    PROVE  Listed(o)
<1>1. \A y, n, k : Label(o, y, n, k) = Relabel(y, n, k, b, a)
  BY DEF Label
<1>2. ASSUME NEW i \in DOMAIN o.todo
      PROVE  \/ o.todo[i] \in {Carry(b, a), Control(a)}
             \/ \E y \in {a, b}, n \in NameSet, k \in Stores : o.todo[i] = Label(o, y, n, k)
  <2>1. Has(o.todo, o.todo[i])
    BY DEF Has
  <2>2. CASE o.todo[i] \in {Carry(b, a), Control(a)}
    BY <2>2
  <2>3. CASE \E y \in {a, b}, n \in NameSet, k \in Stores : o.todo[i] = Relabel(y, n, k, b, a)
    BY <1>1, <2>3
  <2> QED BY <2>1, <2>2, <2>3
<1>3. \A n \in NameSet : \A k \in Stores :
        Has(o.todo, Label(o, b, n, k)) => Has(o.todo, Carry(b, a)) /\ ~Has(o.todo, Label(o, a, n, k))
  BY <1>1
<1> QED BY <1>2, <1>3 DEF Listed

\* The control document could not be written: the group is renamed back.
LEMMA TurnsControl ==
    ASSUME Moving, Listed(op), op.todo # <<>>, Step = Control(Onto(op)),
           Onto(op') = Off(op), Off(op') = Onto(op),
           op'.todo = GroupSteps(Onto(op), Off(op)) \o <<Control(Off(op))>>
    PROVE  /\ Listed(op') /\ Seat(op') = Seat(op)
           /\ \A n \in NameSet, k \in Stores : Pending(op', n, k) /\ ~Pending(op, n, k)
<1> DEFINE X == Onto(op)
           Z == Off(op)
           t == op'.todo
<1>1. X \in Groups /\ Z \in Groups /\ X # Z
  BY OriginIs
<1>2. /\ Ordered(t, X)
      /\ \A s : Has(t, s) <=> \/ s = Carry(X, Z)
                              \/ \E n \in NameSet, k \in Stores : s = Relabel(Z, n, k, X, Z)
                              \/ s = Control(Z)
  <2> DEFINE u == <<Control(Z)>>
  <2>1. u \in {<<>>, <<Control(Z)>>} /\ \A s : Has(u, s) <=> s = Control(Z)
    BY DistinctOne
  <2>2. t = GroupSteps(X, Z) \o u
    OBVIOUS
  <2> HIDE DEF u, t, X, Z
  <2>3. /\ Ordered(GroupSteps(X, Z) \o u, X)
        /\ \A s : Has(GroupSteps(X, Z) \o u, s) <=>
              \/ s = Carry(X, Z)
              \/ \E n \in NameSet, k \in Stores : s = Relabel(Z, n, k, X, Z)
              \/ Has(u, s)
    BY <1>1, <2>1, FreshList
  <2> QED BY <2>1, <2>2, <2>3
<1>3. /\ \A s : Has(op.todo, s) => s = Step
      /\ Seat(op) = X
  <2>1. Step # Carry(Z, X) /\ \A n, y, k : Step # Label(op, y, n, k)
    BY Different DEF Label
  <2> QED BY <2>1, Heads
<1>4. \A y, n, k : Label(op', y, n, k) = Relabel(y, n, k, X, Z)
  BY DEF Label
<1> HIDE DEF t
<1>5. \A n \in NameSet, k \in Stores : ~Has(t, Relabel(X, n, k, X, Z))
  <2>1. \A n, k : Relabel(X, n, k, X, Z) # Carry(X, Z) /\ Relabel(X, n, k, X, Z) # Control(Z)
    BY Different
  <2>2. \A n, k, m, l : Relabel(X, n, k, X, Z) # Relabel(Z, m, l, X, Z)
    BY <1>1, LabelInjective
  <2> QED BY <1>2, <2>1, <2>2
<1>6. Listed(op')
  <2> HIDE DEF X, Z
  <2>1. ASSUME NEW s, Has(t, s)
        PROVE  \/ s \in {Carry(X, Z), Control(Z)}
               \/ \E y \in {Z, X}, n \in NameSet, k \in Stores : s = Relabel(y, n, k, X, Z)
    BY <1>2, <2>1
  <2>2. op'.todo = t /\ Onto(op') = Z /\ Off(op') = X
    BY DEF t, X, Z
  <2> QED BY <1>2, <1>5, <2>1, <2>2, ListedIs
<1>7. Seat(op') = X
  BY <1>2 DEF Seat, t
<1>8. ASSUME NEW n \in NameSet, NEW k \in Stores PROVE Pending(op', n, k) /\ ~Pending(op, n, k)
  <2>1. Has(t, Label(op', Z, n, k))
    BY <1>2, <1>4
  <2>2. Pending(op', n, k)
    BY <2>1 DEF Pending, t
  <2>3. \A y : ~Has(op.todo, Label(op, y, n, k))
    BY <1>3, Different DEF Label
  <2> QED BY <2>2, <2>3 DEF Pending
<1> QED BY <1>3, <1>6, <1>7, <1>8

\* The merge requests could not be rewritten: the others of them are restored,
\* and then the group is carried back with all issues.
LEMMA TurnsReviews ==
    ASSUME Moving, Listed(op), Undoes(op), op.todo # <<>>,
           NEW n \in NameSet, Step = Label(op, Seat(op), n, "reviews"),
           Onto(op') = Off(op), Off(op') = Onto(op),
           op'.todo = ReviewsDone \o <<Carry(Onto(op), Off(op))>>
                      \o RewriteAll(Off(op), "issues", Onto(op), Off(op))
    PROVE  /\ Listed(op') /\ Seat(op') = Seat(op)
           /\ \A m \in NameSet, k \in Stores :
                op.snap[<<Off(op), m>>][k] # Absent => (Pending(op', m, k) <=> ~Pending(op, m, k))
<1> DEFINE X == Onto(op)
           Z == Off(op)
           t == op.todo
           e == op.done
           v == ReviewsDone
           w == op'.todo
           R == Relocations({X, Z})
           Back(m, k) == Relabel(X, m, k, X, Z)
<1>1. /\ X \in Groups /\ Z \in Groups /\ X # Z /\ t \in Seq(R) /\ e \in Seq(R)
      /\ Step = Head(t) /\ Has(t, Step)
  BY MoveTypes, HeadHas DEF Step
<1>2. /\ Distinct(e)
      /\ \A i \in DOMAIN e : e[i] = Carry(X, Z) \/ \E m \in NameSet, l \in Stores : e[i] = Back(m, l)
      /\ Has(e, Carry(X, Z)) <=> ~Has(t, Carry(Z, X))
      /\ \A m \in NameSet, l \in Stores :
           /\ ~Has(t, Label(op, Z, m, l))
           /\ Has(e, Back(m, l)) <=> op.snap[<<Z, m>>][l] # Absent /\ ~Has(t, Label(op, X, m, l))
  BY DEF Undoes
<1>3. PICK q \in 0 .. Len(e) : \A i \in DOMAIN e : e[i].k = "reviews" <=> i <= q
  BY DEF Undoes
<1>4. /\ v \in Seq(R) /\ Distinct(v) /\ \A s : Has(v, s) <=> Has(e, s) /\ s.k = "reviews"
  <2> HIDE DEF R
  <2> QED BY <1>1, <1>2, <1>3, ReviewsDoneAre
<1> HIDE DEF v
<1>5. \A s : Has(v, s) => \E m \in NameSet : s = Back(m, "reviews")
  <2> SUFFICES ASSUME NEW s, Has(v, s) PROVE \E m \in NameSet : s = Back(m, "reviews")
    OBVIOUS
  <2>1. Has(e, s) /\ s.k = "reviews"
    BY <1>4
  <2>2. s = Carry(X, Z) \/ \E m \in NameSet, l \in Stores : s = Back(m, l)
    BY <1>2, <2>1 DEF Has
  <2>3. s # Carry(X, Z)
    BY <2>1, CarryIs
  <2>4. \A m, l : Back(m, l).k = l
    BY LabelIs
  <2> QED BY <2>1, <2>2, <2>3, <2>4
<1>6. Ordered(v, X)
  <2>1. ASSUME NEW i \in DOMAIN v PROVE Rank(v[i], X) = 0
    <3>1. Has(v, v[i])
      BY DEF Has
    <3> QED BY <1>5, <3>1, RankIs
  <2>2. \A i, j \in DOMAIN v : Rank(v[i], X) <= Rank(v[j], X)
    BY <2>1
  <2> QED BY <1>4, <2>2 DEF Ordered
<1>7. /\ Ordered(w, X)
      /\ \A s : Has(w, s) <=> \/ Has(v, s)
                              \/ s = Carry(X, Z)
                              \/ \E m \in NameSet : s = Relabel(Z, m, "issues", X, Z)
  <2> DEFINE u == v \o <<Carry(X, Z)>> \o RewriteAll(Z, "issues", X, Z)
  <2>1. w = u
    BY DEF v
  <2>2. \A s : Has(v, s) => \E m \in NameSet : s = Relabel(X, m, "reviews", X, Z)
    BY <1>5
  <2> HIDE DEF X, Z, w, Back
  <2>3. /\ Ordered(u, X)
        /\ \A s : Has(u, s) <=> \/ Has(v, s)
                                \/ s = Carry(X, Z)
                                \/ \E m \in NameSet : s = Relabel(Z, m, "issues", X, Z)
    BY <1>1, <1>4, <1>6, <2>2, BackList DEF R
  <2> HIDE DEF u
  <2> QED BY <2>1, <2>3
<1>8. \A y, m, k : Label(op', y, m, k) = Relabel(y, m, k, X, Z)
  BY DEF Label
<1>9. /\ Seat(op) = X /\ Step = Label(op, X, n, "reviews")
  <2>1. ~Has(t, Label(op, Z, n, "reviews"))
    BY <1>2 DEF Stores, Catalog!Stores
  <2>2. Seat(op) = X
    BY <1>1, <2>1 DEF Seat
  <2> QED BY <2>2
<1>10. \A m \in NameSet : ~Has(t, Label(op, X, m, "issues"))
  <2> SUFFICES ASSUME NEW m \in NameSet, Has(t, Label(op, X, m, "issues")) PROVE FALSE
    OBVIOUS
  <2>1. Label(op, X, m, "issues") # Step
    BY <1>9, LabelInjective DEF Label
  <2>2. Rank(Step, Z) <= Rank(Label(op, X, m, "issues"), Z)
    <3>1. Ordered(t, Z)
      BY DEF Listed
    <3>2. Has(t, Label(op, X, m, "issues")) /\ t \in Seq(R) /\ t # <<>> /\ Step = Head(t)
      BY <1>1
    <3> HIDE DEF X, Z, t, R
    <3> QED BY <2>1, <3>1, <3>2, FirstRank
  <2>3. Rank(Step, Z) = 3 /\ Rank(Label(op, X, m, "issues"), Z) = 2
    BY <1>1, <1>9, RankIs DEF Label
  <2> QED BY <2>2, <2>3
<1> HIDE DEF w
<1>11. \A y, m, k : Relabel(y, m, k, X, Z) # Carry(X, Z)
  BY Different
<1>12. \A y, m, k, z, j, l : Relabel(y, m, k, X, Z) = Relabel(z, j, l, X, Z) => y = z /\ m = j /\ k = l
  BY LabelInjective
<1>13. /\ \A m, k : Has(w, Relabel(X, m, k, X, Z)) <=> Has(v, Relabel(X, m, k, X, Z))
       /\ \A m, k : Has(v, Relabel(X, m, k, X, Z)) => k = "reviews"
       /\ \A m \in NameSet : \A k : Has(w, Relabel(Z, m, k, X, Z)) <=> k = "issues"
  <2> HIDE DEF X, Z
  <2>1. \A m, k : Has(w, Relabel(X, m, k, X, Z)) <=> Has(v, Relabel(X, m, k, X, Z))
    BY <1>1, <1>7, <1>11, <1>12
  <2>2. \A m, k : Has(v, Relabel(X, m, k, X, Z)) => k = "reviews"
    BY <1>5, <1>12
  <2>3. \A m, k : ~Has(v, Relabel(Z, m, k, X, Z))
    BY <1>1, <1>5, <1>12
  <2>4. \A m \in NameSet : \A k : Has(w, Relabel(Z, m, k, X, Z)) <=> k = "issues"
    BY <1>7, <1>11, <1>12, <2>3
  <2> QED BY <2>1, <2>2, <2>4
<1>14. Listed(op')
  <2> HIDE DEF X, Z
  <2>1. ASSUME NEW s, Has(w, s)
        PROVE  \/ s \in {Carry(X, Z), Control(Z)}
               \/ \E y \in {Z, X}, m \in NameSet, k \in Stores : s = Relabel(y, m, k, X, Z)
    <3>1. "reviews" \in Stores /\ "issues" \in Stores
      BY DEF Stores, Catalog!Stores
    <3> QED BY <1>5, <1>7, <2>1, <3>1
  <2>2. op'.todo = w /\ Onto(op') = Z /\ Off(op') = X
    BY DEF w, X, Z
  <2>3. \A m \in NameSet, k \in Stores : Has(w, Relabel(X, m, k, X, Z)) =>
          Has(w, Carry(X, Z)) /\ ~Has(w, Relabel(Z, m, k, X, Z))
    BY <1>7, <1>13
  <2> QED BY <1>7, <2>1, <2>2, <2>3, ListedIs
<1>15. Seat(op') = X
  BY <1>7 DEF Seat, w
<1>16. ASSUME NEW m \in NameSet, NEW k \in Stores, op.snap[<<Z, m>>][k] # Absent
       PROVE  Pending(op', m, k) <=> ~Pending(op, m, k)
  <2>1. Pending(op', m, k) <=> Has(w, Relabel(X, m, k, X, Z)) \/ Has(w, Relabel(Z, m, k, X, Z))
    BY <1>8 DEF Pending, w
  <2>2. Pending(op, m, k) <=> Has(t, Label(op, X, m, k))
    BY <1>2 DEF Pending
  <2>3. CASE k = "issues"
    BY <1>10, <1>13, <2>1, <2>2, <2>3
  <2>4. CASE k = "reviews"
    <3>1. Back(m, k).k = "reviews"
      BY <2>4, LabelIs
    <3>2. Has(v, Back(m, k)) <=> Has(e, Back(m, k))
      BY <1>4, <3>1
    <3> QED BY <1>2, <1>13, <1>16, <2>1, <2>2, <2>4, <3>2
  <2> QED BY <2>3, <2>4 DEF Stores, Catalog!Stores
<1> QED BY <1>9, <1>14, <1>15, <1>16

\* What has been done is undone, the directory last.
LEMMA TurnsDone ==
    ASSUME Moving, Undoes(op), Onto(op') = Off(op), Off(op') = Onto(op), op'.todo = op.done
    PROVE  /\ Listed(op') /\ Seat(op') = Seat(op)
           /\ \A m \in NameSet, k \in Stores :
                op.snap[<<Off(op), m>>][k] # Absent => (Pending(op', m, k) <=> ~Pending(op, m, k))
<1> DEFINE X == Onto(op)
           Z == Off(op)
           t == op.todo
           e == op.done
           R == Relocations({X, Z})
           Back(m, k) == Relabel(X, m, k, X, Z)
<1>1. X # Z /\ e \in Seq(R) /\ DOMAIN e = 1 .. Len(e) /\ Len(e) \in Nat
  BY MoveTypes
<1>2. /\ Distinct(e)
      /\ \A i \in DOMAIN e : e[i] = Carry(X, Z) \/ \E m \in NameSet, l \in Stores : e[i] = Back(m, l)
      /\ Has(e, Carry(X, Z)) <=> ~Has(t, Carry(Z, X))
      /\ e # <<>> => e[Len(e)] = Carry(X, Z)
      /\ \A m \in NameSet, l \in Stores :
           /\ ~Has(t, Label(op, Z, m, l))
           /\ Has(e, Back(m, l)) <=> op.snap[<<Z, m>>][l] # Absent /\ ~Has(t, Label(op, X, m, l))
  BY DEF Undoes
<1>3. op'.todo = e /\ Onto(op') = Z /\ Off(op') = X
  OBVIOUS
<1> HIDE DEF X, Z, t, e, R
<1>4. \A y, m, k : Label(op', y, m, k) = Relabel(y, m, k, X, Z)
  BY <1>3 DEF Label
<1>5. ASSUME NEW i \in DOMAIN e, NEW j \in DOMAIN e, i < j
      PROVE  Rank(e[i], X) <= Rank(e[j], X)
  <2>1. Rank(e[j], X) \in {0, 1}
    BY <1>2, RankIs
  <2>2. Len(e) \in DOMAIN e /\ e[Len(e)] = Carry(X, Z) /\ i # Len(e)
    <3>1. e # <<>> /\ Len(e) \in DOMAIN e /\ i # Len(e)
      BY <1>1, <1>5
    <3> QED BY <1>2, <3>1
  <2>3. e[i] # Carry(X, Z)
    BY <1>2, <2>2 DEF Distinct
  <2>4. Rank(e[i], X) = 0
    BY <1>2, <2>3, RankIs
  <2> QED BY <2>1, <2>4
<1>6. Ordered(e, X)
  BY <1>2, <1>5 DEF Ordered
<1>7. \A s : Has(e, s) => s = Carry(X, Z) \/ \E m \in NameSet, l \in Stores : s = Back(m, l)
  BY <1>2 DEF Has
<1>8. \A m, k : ~Has(e, Relabel(Z, m, k, X, Z))
  <2>1. \A m, k : Relabel(Z, m, k, X, Z) # Carry(X, Z)
    BY Different
  <2>2. \A m, k, n, l : Relabel(Z, m, k, X, Z) # Back(n, l)
    BY <1>1, LabelInjective
  <2> QED BY <1>7, <2>1, <2>2
<1>9. \A s : Has(e, s) => Has(e, Carry(X, Z))
  <2>1. ASSUME NEW s, Has(e, s) PROVE Has(e, Carry(X, Z))
    <3>1. e # <<>>
      BY <1>1, <2>1, HasSome
    <3>2. Len(e) \in DOMAIN e
      BY <1>1, <3>1
    <3> QED BY <1>2, <3>1, <3>2 DEF Has
  <2> QED BY <2>1
<1>10. Listed(op')
  <2>1. ASSUME NEW s, Has(e, s)
        PROVE  \/ s \in {Carry(X, Z), Control(Z)}
               \/ \E y \in {Z, X}, m \in NameSet, k \in Stores : s = Relabel(y, m, k, X, Z)
    BY <1>7, <2>1
  <2>2. \A m \in NameSet, k \in Stores : Has(e, Relabel(X, m, k, X, Z)) =>
          Has(e, Carry(X, Z)) /\ ~Has(e, Relabel(Z, m, k, X, Z))
    BY <1>8, <1>9
  <2> QED BY <1>3, <1>6, <2>1, <2>2, ListedIs
<1>11. Seat(op') = Seat(op)
  <2>1. Seat(op') = IF Has(e, Carry(X, Z)) THEN X ELSE Z
    BY <1>3 DEF Seat
  <2>2. Seat(op) = IF Has(t, Carry(Z, X)) THEN Z ELSE X
    BY DEF Seat, X, Z, t
  <2> QED BY <1>2, <2>1, <2>2
<1>12. ASSUME NEW m \in NameSet, NEW k \in Stores, op.snap[<<Z, m>>][k] # Absent
       PROVE  Pending(op', m, k) <=> ~Pending(op, m, k)
  <2>1. Pending(op', m, k) <=> Has(e, Relabel(X, m, k, X, Z)) \/ Has(e, Relabel(Z, m, k, X, Z))
    BY <1>3, <1>4 DEF Pending
  <2>2. Pending(op, m, k) <=> Has(t, Label(op, X, m, k)) \/ Has(t, Label(op, Z, m, k))
    BY DEF Pending, X, Z, t
  <2> QED BY <1>2, <1>8, <1>12, <2>1, <2>2
<1> QED BY <1>10, <1>11, <1>12 DEF Z

\* A request that fails for the first time is taken back.
LEMMA RelocatedTurns ==
    ASSUME Moving, DOMAIN op = Fields, op.snap \in Layout, op.mode = "do", ~op.back, op.back \in BOOLEAN,
           op.todo # <<>>, Listed(op), Placed(op), Undoes(op), Moved(dir', Absent, op),
           op' = AfterFailure(Step), UNCHANGED <<groups, control>>
    PROVE  op'.kind = op.kind /\ op'.snap = op.snap /\ op'.usable = op.usable /\ Relocated'
<1> DEFINE X == Onto(op)
           Z == Off(op)
<1>1. /\ op'.kind = op.kind /\ op'.snap = op.snap /\ op'.usable = op.usable /\ op'.held = Absent
      /\ Onto(op') = Z /\ Off(op') = X /\ Origin(op') = Origin(op)
      /\ (IF op'.back THEN op'.from ELSE op'.to) = (IF op.back THEN op.from ELSE op.to)
      /\ \/ /\ Step.do = "control" /\ op'.mode = "do" /\ op'.back = TRUE
            /\ op'.todo = GroupSteps(X, Z) \o <<Control(Z)>>
         \/ /\ Step.do # "control" /\ Step.k = "reviews" /\ op'.mode = "undo" /\ op'.back = FALSE
            /\ op'.todo = ReviewsDone \o <<Carry(X, Z)>> \o RewriteAll(Z, "issues", X, Z)
         \/ /\ Step.do # "control" /\ Step.k # "reviews" /\ op'.mode = "undo" /\ op'.back = FALSE
            /\ op'.todo = op.done
  BY TurnIs
<1>2. Origin(op) = Z
  BY DEF Origin, Off
<1>3. /\ Listed(op') /\ Seat(op') = Seat(op)
      /\ \A m \in NameSet, k \in Stores :
           op.snap[<<Z, m>>][k] # Absent => (Pending(op', m, k) <=> ~Pending(op, m, k))
  <2>1. CASE Step.do = "control"
    <3>1. Step = Control(X)
      BY <2>1, Heads, CarryIs, LabelIs DEF Label
    <3>2. op'.todo = GroupSteps(X, Z) \o <<Control(Z)>>
      BY <1>1, <2>1
    <3> QED BY <1>1, <3>1, <3>2, TurnsControl
  <2>2. CASE Step.do # "control" /\ Step.k = "reviews"
    <3>1. Step # Control(X) /\ Step # Carry(Z, X)
      BY <2>2, CarryIs
    <3>2. PICK n \in NameSet, k \in Stores : Step = Label(op, Seat(op), n, k)
      BY <3>1, Heads
    <3>3. k = "reviews"
      BY <2>2, <3>2, LabelIs DEF Label
    <3>4. op'.todo = ReviewsDone \o <<Carry(X, Z)>> \o RewriteAll(Z, "issues", X, Z)
      BY <1>1, <2>2
    <3> QED BY <1>1, <3>2, <3>3, <3>4, TurnsReviews
  <2>3. CASE Step.do # "control" /\ Step.k # "reviews"
    <3>1. op'.todo = op.done
      BY <1>1, <2>3
    <3> QED BY <1>1, <3>1, TurnsDone
  <2> QED BY <2>1, <2>2, <2>3
<1>4. Turned(op, op')
  BY <1>1, <1>3 DEF Turned
<1>5. Moved(dir', Absent, op')
  BY <1>2, <1>3, <1>4, MovedTurns
<1>6. op'.mode = "undo" \/ op'.back
  BY <1>1
<1>7. Placed(op)'
  BY <1>4, <1>6, PlacedTurns
<1>8. /\ op'.mode \in {"do", "undo"} /\ op'.back \in BOOLEAN /\ (op'.back => op'.mode = "do")
      /\ ~(op'.mode = "do" /\ ~op'.back)
  BY <1>1
<1> QED BY <1>1, <1>3, <1>5, <1>7, <1>8 DEF Relocated

LEMMA RelocatedFails ==
    ASSUME Moving, Relocated, DOMAIN op = Fields, op.snap \in Layout, op.mode = "do", ~op.back,
           op.todo # <<>>, op.held = Absent, op' = AfterFailure(Step), UNCHANGED disk
    PROVE  op'.kind = op.kind /\ op'.snap = op.snap /\ op'.usable = op.usable /\ Relocated'
<1>1. /\ op.back \in BOOLEAN /\ Listed(op) /\ Moved(dir, Absent, op) /\ Placed(op) /\ Undoes(op)
  BY DEF Relocated
<1>2. UNCHANGED <<dir, groups, control>>
  BY DEF disk
<1>3. Moved(dir', Absent, op)
  BY <1>1, <1>2
<1> QED BY <1>1, <1>2, <1>3, RelocatedTurns

LEMMA RelocatedPublishFails ==
    ASSUME Disk, Moving, Relocated, DOMAIN op = Fields, op.snap \in Layout, op.mode = "do", ~op.back,
           PublishFails
    PROVE  op'.kind = op.kind /\ op'.snap = op.snap /\ op'.usable = op.usable /\ Relocated'
<1>1. /\ op.held # Absent /\ UNCHANGED <<groups, control>> /\ op' = AfterFailure(Step)
      /\ dir' = With(dir, Step.from, Step.k, op.held)
  BY DEF PublishFails, With
<1>2. op.todo # <<>> /\ Step.do = "rewrite"
  BY <1>1, MoveTypes
<1>3. op.back \in BOOLEAN /\ Listed(op) /\ Moved(dir, op.held, op) /\ Placed(op) /\ Undoes(op)
  BY DEF Relocated
<1>4. PICK n \in NameSet, k \in Stores :
             /\ Step = Label(op, Seat(op), n, k) /\ <<Seat(op), n>> \in Paths
             /\ Step.from = <<Seat(op), n>> /\ Step.k = k
  BY <1>2, <1>3, StoreNext
<1>5. k \in Kinds /\ Fits(k, op.held)
  <2>1. Aside(op.snap[<<Origin(op), n>>][k]) \/ Fits(Step.k, op.held)
    BY <1>1 DEF Moving, MovingData, Aside
  <2> QED BY <1>4, <2>1, PlainKinds DEF Aside
<1>6. Apart(dir', <<Seat(op), n>>, k) /\ dir'[<<Seat(op), n>>][k] = op.held
  BY <1>1, <1>4, <1>5, PutApart
<1>7. Moved(dir', Absent, op)
  BY <1>1, <1>2, <1>3, <1>4, <1>6, MovedRestores
<1> QED BY <1>1, <1>2, <1>3, <1>7, RelocatedTurns

-----------------------------------------------------------------------------
(* A request begins. *)

\* What is common to the beginnings of all requests.
LEMMA Opens ==
    ASSUME Atomic, op = Idle, NEW kind, kind # "idle", NEW from, NEW to, NEW todo,
           Begin(kind, from, to, todo)
    PROVE  /\ op'.back = FALSE /\ op'.usable = usable /\ usable' = usable
           /\ op' # Idle /\ dirty' = dirty /\ op'.kind = kind
           /\ dirty = 0 => Named(dir) /\ Named(op'.snap)
<1>1. op'.back = FALSE /\ op'.usable = usable
  BY DEF Begin
<1>2. /\ op'.kind = kind /\ op'.snap = dir
      /\ UNCHANGED <<dir, groups, control, hidden, trash, dirty>>
  BY BeginIs
<1>3. usable' = usable
  BY <1>2, UsableStays
<1>4. dirty = 0 => Named(dir)
  BY DEF Atomic, Midway
<1>5. op' # Idle
  BY <1>2 DEF Idle
<1> QED BY <1>1, <1>2, <1>3, <1>4, <1>5

LEMMA CreatedBegins ==
    ASSUME IInv, Atomic, op = Idle, NEW p \in Paths, NEW r \in Repositories,
           NEW kind \in {"create", "import"}, Authorized(p[1]), groupExists(p[1]),
           Begin(kind, p, p, <<Make(p, "git", r), Make(p, "lfs", r)>>),
           dirty = 0 => \A k \in Kinds : dir[p][k] = Absent, ~Shown(dir, r)
    PROVE  Atomic'
<1> DEFINE todo == <<Make(p, "git", r), Make(p, "lfs", r)>>
<1>1. /\ op'.kind = kind /\ op'.from = p /\ op'.todo = todo /\ op'.done = <<>> /\ op'.mode = "do"
      /\ op'.snap = dir /\ UNCHANGED <<dir, groups, control, hidden, trash, dirty>>
  BY BeginIs
<1>2. op'.usable = usable /\ usable' = usable
  BY Opens
<1>3. p[1] \in usable
  BY DEF Authorized, groupExists, usable
<1>4. dirty = 0 => dir[p] = Nothing /\ dir[p] = Made(p, r, {})
  BY NothingIs, NothingMade DEF IInv, Disk
<1>5. dirty = 0 => Created(r)'
  <2> HIDE DEF todo
  <2>1. ~Shown(op'.snap, r)
    BY <1>1
  <2>2. dirty = 0 => dir'[p] = Made(p, r, {}) /\ op'.snap[p] = Nothing
    BY <1>1, <1>4
  <2> QED BY <1>1, <1>2, <1>3, <2>1, <2>2 DEF Created, todo
<1> QED BY <1>1, <1>5, Opens DEF Atomic, Midway

\* A list that grows by one step, or by none.
LEMMA Extended ==
    ASSUME NEW S, NEW a \in Seq(S), Distinct(a), NEW s \in S, ~Has(a, s),
           NEW b, b = <<>> \/ b = <<s>>
    PROVE  /\ a \o b \in Seq(S) /\ Distinct(a \o b)
           /\ \A u : Has(a \o b, u) <=> Has(a, u) \/ (b # <<>> /\ u = s)
<1>1. b \in Seq(S) /\ Distinct(b) /\ \A u : Has(b, u) <=> b # <<>> /\ u = s
  <2>1. CASE b = <<>>
    BY <2>1, DistinctNone
  <2>2. CASE b = <<s>>
    BY <2>2, DistinctOne
  <2> QED BY <2>1, <2>2
<1>2. \A u : ~(Has(a, u) /\ Has(b, u))
  BY <1>1
<1>3. a \o b \in Seq(S) /\ Distinct(a \o b)
  BY <1>1, <1>2, SeqJoin, JoinDistinct
<1>4. \A u : Has(a \o b, u) <=> Has(a, u) \/ Has(b, u)
  BY <1>1, Joined
<1> QED BY <1>1, <1>3, <1>4

LEMMA TrashList ==
    ASSUME NEW p
    PROVE  LET todo == <<Trash(p, "git")>> \o TrashPresent(p, "lfs") \o TrashPresent(p, "build")
                       \o TrashPresent(p, "reviews") \o TrashPresent(p, "issues") IN
           /\ Distinct(todo)
           /\ \A k \in Kinds : Has(todo, Trash(p, k)) <=> k = "git" \/ dir[p][k] # Absent
<1> DEFINE S == Trashes(p)
           a == <<Trash(p, "git")>>
           b == a \o TrashPresent(p, "lfs")
           c == b \o TrashPresent(p, "build")
           d == c \o TrashPresent(p, "reviews")
           e == d \o TrashPresent(p, "issues")
<1>1. \A k, l : Trash(p, k) = Trash(p, l) => k = l
  BY DEF Trash
<1>2. /\ Kinds = {"git", "lfs", "build", "reviews", "issues"}
      /\ \A k \in Kinds : Trash(p, k) \in S
  BY DEF Kinds, Catalog!Kinds, Trashes
<1>3. \A k : /\ TrashPresent(p, k) = <<>> \/ TrashPresent(p, k) = <<Trash(p, k)>>
             /\ TrashPresent(p, k) # <<>> <=> dir[p][k] # Absent
  BY DEF TrashPresent
<1>4. a \in Seq(S) /\ Distinct(a) /\ \A u : Has(a, u) <=> u = Trash(p, "git")
  BY <1>2, DistinctOne
<1> HIDE DEF S, a
<1>5. /\ b \in Seq(S) /\ Distinct(b)
      /\ \A u : Has(b, u) <=> Has(a, u) \/ (dir[p]["lfs"] # Absent /\ u = Trash(p, "lfs"))
  <2>1. /\ Trash(p, "lfs") \in S /\ ~Has(a, Trash(p, "lfs"))
        /\ TrashPresent(p, "lfs") = <<>> \/ TrashPresent(p, "lfs") = <<Trash(p, "lfs")>>
    BY <1>1, <1>2, <1>3, <1>4
  <2> QED BY <1>3, <1>4, <2>1, Extended
<1> HIDE DEF b
<1>6. /\ c \in Seq(S) /\ Distinct(c)
      /\ \A u : Has(c, u) <=> Has(b, u) \/ (dir[p]["build"] # Absent /\ u = Trash(p, "build"))
  <2>1. /\ Trash(p, "build") \in S /\ ~Has(b, Trash(p, "build"))
        /\ TrashPresent(p, "build") = <<>> \/ TrashPresent(p, "build") = <<Trash(p, "build")>>
    BY <1>1, <1>2, <1>3, <1>4, <1>5
  <2> QED BY <1>3, <1>5, <2>1, Extended
<1> HIDE DEF c
<1>7. /\ d \in Seq(S) /\ Distinct(d)
      /\ \A u : Has(d, u) <=> Has(c, u) \/ (dir[p]["reviews"] # Absent /\ u = Trash(p, "reviews"))
  <2>1. /\ Trash(p, "reviews") \in S /\ ~Has(c, Trash(p, "reviews"))
        /\ TrashPresent(p, "reviews") = <<>> \/ TrashPresent(p, "reviews") = <<Trash(p, "reviews")>>
    BY <1>1, <1>2, <1>3, <1>4, <1>5, <1>6
  <2> QED BY <1>3, <1>6, <2>1, Extended
<1> HIDE DEF d
<1>8. /\ e \in Seq(S) /\ Distinct(e)
      /\ \A u : Has(e, u) <=> Has(d, u) \/ (dir[p]["issues"] # Absent /\ u = Trash(p, "issues"))
  <2>1. /\ Trash(p, "issues") \in S /\ ~Has(d, Trash(p, "issues"))
        /\ TrashPresent(p, "issues") = <<>> \/ TrashPresent(p, "issues") = <<Trash(p, "issues")>>
    BY <1>1, <1>2, <1>3, <1>4, <1>5, <1>6, <1>7
  <2> QED BY <1>3, <1>7, <2>1, Extended
<1> HIDE DEF e
<1>9. \A k \in Kinds : Has(e, Trash(p, k)) <=> k = "git" \/ dir[p][k] # Absent
  BY <1>1, <1>2, <1>4, <1>5, <1>6, <1>7, <1>8
<1> QED BY <1>8, <1>9 DEF a, b, c, d, e

LEMMA DeletedBegins ==
    ASSUME IInv, Atomic, NEW p \in Paths, DeleteRepository(p)
    PROVE  Atomic'
<1> DEFINE todo == <<Trash(p, "git")>> \o TrashPresent(p, "lfs") \o TrashPresent(p, "build")
                   \o TrashPresent(p, "reviews") \o TrashPresent(p, "issues")
<1>1. op = Idle /\ Begin("delete", p, p, todo)
  BY DEF DeleteRepository
<1>2. Distinct(todo) /\ \A k \in Kinds : Has(todo, Trash(p, k)) <=> k = "git" \/ dir[p][k] # Absent
  BY TrashList
<1> HIDE DEF todo
<1>3. /\ op'.kind = "delete" /\ op'.from = p /\ op'.todo = todo /\ op'.done = <<>> /\ op'.mode = "do"
      /\ op'.snap = dir /\ UNCHANGED <<dir, groups, control, hidden, trash, dirty>>
  BY <1>1, BeginIs
<1>4. op'.usable = usable /\ usable' = usable
  BY <1>1, Opens
<1>5. Distinct(op'.done) /\ \A s : ~Has(op'.done, s)
  BY <1>3, DistinctNone
<1>6. "git" \in Kinds
  BY DEF Kinds, Catalog!Kinds
<1>7. Deleted'
  BY <1>2, <1>3, <1>4, <1>5, <1>6 DEF Deleted
<1>8. op' # Idle /\ dirty' = dirty /\ (dirty = 0 => Named(op'.snap))
  BY <1>1, Opens
<1> QED BY <1>3, <1>7, <1>8 DEF Atomic, Midway

LEMMA MoveList ==
    ASSUME NEW p, NEW q
    PROVE  LET todo == <<Move(p, q, "git")>> \o MovePresent(p, q, "lfs") \o MovePresent(p, q, "build")
                       \o <<Rewrite(p, q, "issues", p, q), Rewrite(p, q, "reviews", p, q)>> IN
           /\ Distinct(todo)
           /\ \A k \in Kinds : Has(todo, Transfer(p, q, k)) <=>
                                 k \in {"git", "issues", "reviews"} \/ dir[p][k] # Absent
<1> DEFINE S == Between(p, q)
           i == Rewrite(p, q, "issues", p, q)
           j == Rewrite(p, q, "reviews", p, q)
           a == <<Move(p, q, "git")>>
           b == a \o MovePresent(p, q, "lfs")
           c == b \o MovePresent(p, q, "build")
           v == <<i, j>>
           e == c \o v
<1>1. /\ Kinds = {"git", "lfs", "build", "reviews", "issues"} /\ Stores = {"issues", "reviews"}
      /\ Plain = {"git", "lfs", "build"}
  BY DEF Kinds, Catalog!Kinds, Stores, Catalog!Stores, Plain
<1>2. /\ \A k \in Kinds : Transfer(p, q, k) \in S
      /\ \A k, l : Transfer(p, q, k) = Transfer(p, q, l) => k = l
  BY TransferBetween, TransferInjective
<1>3. /\ \A k \in Plain : Transfer(p, q, k) = Move(p, q, k)
      /\ i = Transfer(p, q, "issues") /\ j = Transfer(p, q, "reviews")
  BY <1>1 DEF Transfer, Rw
<1>4. \A k : /\ MovePresent(p, q, k) = <<>> \/ MovePresent(p, q, k) = <<Move(p, q, k)>>
             /\ MovePresent(p, q, k) # <<>> <=> dir[p][k] # Absent
  BY DEF MovePresent
<1>5. a \in Seq(S) /\ Distinct(a) /\ \A u : Has(a, u) <=> u = Transfer(p, q, "git")
  BY <1>1, <1>2, <1>3, DistinctOne
<1>6. v \in Seq(S) /\ Distinct(v) /\ \A u : Has(v, u) <=> u \in {i, j}
  <2>1. i \in S /\ j \in S /\ i # j
    BY <1>1, <1>2, <1>3
  <2> HIDE DEF i, j, S
  <2>2. v \in Seq(S) /\ DOMAIN v = {1, 2} /\ v[1] = i /\ v[2] = j
    BY <2>1
  <2> HIDE DEF v
  <2> QED BY <2>1, <2>2 DEF Distinct, Has
<1> HIDE DEF S, a, v, i, j
<1>7. /\ b \in Seq(S) /\ Distinct(b)
      /\ \A u : Has(b, u) <=> Has(a, u) \/ (dir[p]["lfs"] # Absent /\ u = Transfer(p, q, "lfs"))
  <2>1. /\ Transfer(p, q, "lfs") \in S /\ ~Has(a, Transfer(p, q, "lfs"))
        /\ MovePresent(p, q, "lfs") = <<>> \/ MovePresent(p, q, "lfs") = <<Transfer(p, q, "lfs")>>
    BY <1>1, <1>2, <1>3, <1>4, <1>5
  <2> QED BY <1>4, <1>5, <2>1, Extended
<1> HIDE DEF b
<1>8. /\ c \in Seq(S) /\ Distinct(c)
      /\ \A u : Has(c, u) <=> Has(b, u) \/ (dir[p]["build"] # Absent /\ u = Transfer(p, q, "build"))
  <2>1. /\ Transfer(p, q, "build") \in S /\ ~Has(b, Transfer(p, q, "build"))
        /\ MovePresent(p, q, "build") = <<>> \/ MovePresent(p, q, "build") = <<Transfer(p, q, "build")>>
    BY <1>1, <1>2, <1>3, <1>4, <1>5, <1>7
  <2> QED BY <1>4, <1>7, <2>1, Extended
<1> HIDE DEF c
<1>9. Distinct(e) /\ \A u : Has(e, u) <=> Has(c, u) \/ u \in {i, j}
  <2>1. \A u : ~(Has(c, u) /\ Has(v, u))
    BY <1>1, <1>2, <1>3, <1>5, <1>6, <1>7, <1>8
  <2>2. Distinct(e)
    BY <1>6, <1>8, <2>1, JoinDistinct
  <2>3. \A u : Has(e, u) <=> Has(c, u) \/ Has(v, u)
    BY <1>6, <1>8, Joined
  <2> QED BY <1>6, <2>2, <2>3
<1> HIDE DEF e
<1>10. \A k \in Kinds : Has(e, Transfer(p, q, k)) <=>
                          k \in {"git", "issues", "reviews"} \/ dir[p][k] # Absent
  BY <1>1, <1>2, <1>3, <1>5, <1>7, <1>8, <1>9
<1> QED BY <1>9, <1>10 DEF a, b, c, v, e, i, j

LEMMA RenamedBegins ==
    ASSUME IInv, Atomic, NEW p \in Paths, NEW q \in Paths, RenameRepository(p, q)
    PROVE  Atomic'
<1> DEFINE todo == <<Move(p, q, "git")>> \o MovePresent(p, q, "lfs") \o MovePresent(p, q, "build")
                   \o <<Rewrite(p, q, "issues", p, q), Rewrite(p, q, "reviews", p, q)>>
<1>1. op = Idle /\ Vacant(q) /\ Begin("rename", p, q, todo)
  BY DEF RenameRepository
<1>2. /\ Distinct(todo)
      /\ \A k \in Kinds : Has(todo, Transfer(p, q, k)) <=>
                            k \in {"git", "issues", "reviews"} \/ dir[p][k] # Absent
  BY MoveList
<1> HIDE DEF todo
<1>3. /\ op'.kind = "rename" /\ op'.from = p /\ op'.to = q /\ op'.todo = todo /\ op'.done = <<>>
      /\ op'.mode = "do" /\ op'.held = Absent /\ op'.snap = dir
      /\ UNCHANGED <<dir, groups, control, hidden, trash, dirty>>
  BY <1>1, BeginIs
<1>4. op'.usable = usable /\ usable' = usable /\ (dirty = 0 => Named(dir))
  BY <1>1, Opens
<1>5. \A k \in Kinds : dir[q][k] = Absent
  BY <1>1 DEF Vacant
<1>6. dir[q] = Nothing
  BY <1>5, NothingIs DEF IInv, Disk
<1>7. dirty = 0 => Halfway(dir, Absent, p, q, dir[p], todo)
  BY <1>2, <1>4, <1>5 DEF Halfway, Named, Cell
<1>8. Trail(p, q, dir[p], todo, <<>>)
  <2>1. Distinct(<<>>) /\ \A s : ~Has(<<>>, s)
    BY DistinctNone
  <2>2. "git" \in Kinds
    BY DEF Kinds, Catalog!Kinds
  <2> QED BY <1>2, <2>1, <2>2 DEF Trail
<1>9. dirty = 0 => Renamed'
  BY <1>2, <1>3, <1>4, <1>6, <1>7, <1>8 DEF Renamed
<1>10. op' # Idle /\ dirty' = dirty /\ (dirty = 0 => Named(op'.snap))
  BY <1>1, Opens
<1> QED BY <1>3, <1>9, <1>10 DEF Atomic, Midway

LEMMA GroupedBegins ==
    ASSUME IInv, Atomic, NEW g \in Groups, CreateGroup(g)
    PROVE  Atomic'
<1> DEFINE todo == IF Rooted THEN <<Mkdir(g), Control(g)>> ELSE <<Mkdir(g)>>
<1>1. op = Idle /\ g \notin groups /\ Begin("group", g, g, todo)
  BY DEF CreateGroup
<1> HIDE DEF todo
<1>2. op'.kind = "group" /\ op'.to = g
  BY <1>1, BeginIs
<1>3. op'.usable = usable /\ usable' = usable
  BY <1>1, Opens
<1>4. g \notin usable
  BY <1>1 DEF usable
<1>5. usable' \ {g} = usable
  BY <1>3, <1>4
<1>6. Grouped'
  BY <1>2, <1>3, <1>4, <1>5 DEF Grouped
<1>7. op' # Idle /\ dirty' = dirty /\ (dirty = 0 => Named(op'.snap))
  BY <1>1, Opens
<1> QED BY <1>2, <1>6, <1>7 DEF Atomic, Midway

LEMMA RelocatedBegins ==
    ASSUME IInv, Atomic, NEW g \in Groups, NEW h \in Groups, RenameGroup(g, h)
    PROVE  Atomic'
<1> DEFINE u == IF Rooted THEN <<Control(h)>> ELSE <<>>
           todo == GroupSteps(g, h) \o u
<1>1. /\ op = Idle /\ g # h /\ h \notin groups /\ Authorized(g) /\ groupExists(g)
      /\ Begin("move", g, h, todo)
  BY DEF RenameGroup
<1>2. /\ Ordered(todo, g)
      /\ \A s : Has(todo, s) <=>
           \/ s = Carry(g, h)
           \/ \E n \in NameSet, k \in Stores : s = Relabel(h, n, k, g, h)
           \/ Rooted /\ s = Control(h)
  <2>1. u = <<>> \/ u = <<Control(h)>>
    OBVIOUS
  <2>2. /\ Ordered(todo, g)
        /\ \A s : Has(todo, s) <=>
             \/ s = Carry(g, h)
             \/ \E n \in NameSet, k \in Stores : s = Relabel(h, n, k, g, h)
             \/ Has(u, s)
    <3> HIDE DEF u
    <3> QED BY <1>1, <2>1, FreshList
  <2>3. \A s : Has(u, s) <=> Rooted /\ s = Control(h)
    BY DistinctOne, DistinctNone
  <2> QED BY <2>2, <2>3
<1> HIDE DEF u, todo
<1>3. /\ op'.kind = "move" /\ op'.from = g /\ op'.to = h /\ op'.todo = todo /\ op'.done = <<>>
      /\ op'.mode = "do" /\ op'.held = Absent /\ op'.snap = dir
      /\ UNCHANGED <<dir, groups, control, hidden, trash, dirty>>
  BY <1>1, BeginIs
<1>4. /\ op'.back = FALSE /\ op'.usable = usable /\ usable' = usable
      /\ op' # Idle /\ dirty' = dirty /\ (dirty = 0 => Named(dir) /\ Named(op'.snap))
  BY <1>1, Opens
<1>5. Onto(op') = h /\ Off(op') = g /\ Origin(op') = g
  BY <1>3, <1>4 DEF Onto, Off, Origin
<1>6. \A n \in NameSet, k \in Stores :
        /\ Has(todo, Relabel(h, n, k, g, h))
        /\ ~Has(todo, Relabel(g, n, k, g, h))
  BY <1>1, <1>2, LabelInjective, Different
<1>7. Listed(op')
  <2>1. \A s : Has(op'.todo, s) =>
          \/ s \in {Carry(g, h), Control(h)}
          \/ \E y \in {h, g}, n \in NameSet, k \in Stores : s = Relabel(y, n, k, g, h)
    BY <1>2, <1>3
  <2>2. Ordered(op'.todo, g)
    BY <1>2, <1>3
  <2>3. \A n \in NameSet, k \in Stores :
          Has(op'.todo, Relabel(g, n, k, g, h)) =>
            Has(op'.todo, Carry(g, h)) /\ ~Has(op'.todo, Relabel(h, n, k, g, h))
    BY <1>3, <1>6
  <2> QED BY <1>5, <2>1, <2>2, <2>3, ListedIs
<1>8. Seat(op') = g
  BY <1>2, <1>3, <1>5 DEF Seat
<1>9. \A y, n, k : Label(op', y, n, k) = Relabel(y, n, k, g, h)
  BY <1>5 DEF Label
<1>10. \A n \in NameSet, k \in Stores : Pending(op', n, k)
  BY <1>3, <1>5, <1>6, <1>9 DEF Pending
<1>11. \A n \in NameSet : dir[<<h, n>>] = Nothing
  BY <1>1 DEF IInv, Disk, Lively, Live, Empty
<1>12. dirty = 0 => Moved(dir', Absent, op')
  <2>1. \A x \in Paths : x[1] \in {h, g} /\ x[1] # g => dir[x] = Nothing
    BY <1>11, PathParts
  <2>2. ASSUME dirty = 0, NEW n \in NameSet, NEW k \in Kinds
        PROVE  dir[<<g, n>>][k] = Cell(dir[<<g, n>>][k], k, <<IF Pending(op', n, k) THEN g ELSE h, n>>)
    <3>1. <<g, n>> \in Paths /\ <<h, n>> \in Paths
      BY PathParts
    <3>2. dir[<<g, n>>][k] = Cell(dir[<<g, n>>][k], k, <<g, n>>)
      BY <1>4, <2>2, <3>1 DEF Named
    <3>3. CASE k \in Stores
      BY <1>10, <3>2, <3>3
    <3>4. CASE k \notin Stores
      <4>1. k \in Plain /\ Fits(k, dir[<<g, n>>][k])
        BY <3>1, <3>4, LayoutAt DEF Plain, IInv, Disk
      <4> QED BY <3>1, <3>2, <4>1, CellIs
    <3> QED BY <3>3, <3>4
  <2> QED BY <1>3, <1>5, <1>8, <2>1, <2>2 DEF Moved
<1>13. Placed(op)'
  <2>1. g \in usable /\ h \notin usable /\ usable \subseteq Groups /\ g \in groups
    BY <1>1 DEF Authorized, groupExists, usable, IInv, Disk
  <2>2. Rooted => control'[g] = g /\ Has(op'.todo, Control(h))
    BY <1>1, <1>2, <1>3 DEF Authorized
  <2>3. \A n \in NameSet : op'.snap[<<h, n>>] = Nothing
    BY <1>3, <1>11
  <2> QED BY <1>1, <1>3, <1>4, <1>5, <1>8, <2>1, <2>2, <2>3 DEF Placed
<1>14. Undoes(op')
  <2> DEFINE e == op'.done
  <2>1. e = <<>> /\ DOMAIN e = {} /\ Len(e) = 0 /\ Distinct(e) /\ \A s : ~Has(e, s)
    BY <1>3, DistinctNone
  <2>2. Has(op'.todo, Carry(g, h))
    BY <1>2, <1>3
  <2>3. \A n \in NameSet, k \in Stores :
          ~Has(op'.todo, Label(op', g, n, k)) /\ Has(op'.todo, Label(op', h, n, k))
    BY <1>3, <1>6, <1>9
  <2>4. \E m \in 0 .. Len(e) : \A i \in DOMAIN e : e[i].k = "reviews" <=> i <= m
    <3>1. 0 \in 0 .. Len(e)
      BY <2>1
    <3> QED BY <2>1, <3>1
  <2>5. "reviews" \in Stores
    BY DEF Stores, Catalog!Stores
  <2> HIDE DEF e
  <2> QED BY <1>5, <2>1, <2>2, <2>3, <2>4, <2>5 DEF Undoes, e
<1>15. dirty = 0 => Relocated'
  BY <1>3, <1>4, <1>7, <1>12, <1>13, <1>14 DEF Relocated
<1> QED BY <1>3, <1>4, <1>15 DEF Atomic, Midway

-----------------------------------------------------------------------------
(* A request ends: it has taken effect completely, or not at all. *)

LEMMA LayoutsEqual ==
    ASSUME NEW d \in Layout, NEW e \in Layout,
           \A x \in Paths : \A k \in Kinds : d[x][k] = e[x][k]
    PROVE  d = e
<1>1. d \in [Paths -> [Kinds -> Content]] /\ e \in [Paths -> [Kinds -> Content]]
  BY DEF Layout
<1>2. \A x \in Paths : d[x] \in [Kinds -> Content] /\ e[x] \in [Kinds -> Content]
  BY <1>1
<1>3. \A x \in Paths : d[x] = e[x]
  BY <1>2
<1> QED BY <1>1, <1>3

\* What is seen from outside when an operation ends.
LEMMA Seen ==
    ASSUME Finish, op.kind # "idle"
    PROVE  /\ (IF op.kind = "idle" THEN dir ELSE op.snap) = op.snap
           /\ (IF op.kind = "idle" THEN usable ELSE op.usable) = op.usable
           /\ (IF op.kind = "idle" THEN dir ELSE op.snap)' = dir
           /\ (IF op.kind = "idle" THEN usable ELSE op.usable)' = usable
<1>1. op'.kind = "idle"
  BY DEF Finish, Idle
<1>2. dir' = dir /\ UNCHANGED <<groups, control>>
  BY DEF Finish, disk
<1>3. usable' = usable
  BY <1>2, UsableStays
<1> QED BY <1>1, <1>2, <1>3

LEMMA NothingTaken ==
    ASSUME Finish, op.kind # "idle", dir = op.snap, usable = op.usable
    PROVE  UNCHANGED <<Catalog!vars>>
BY Seen DEF Catalog!vars

LEMMA CreatedEnds ==
    ASSUME Disk, NEW r \in Repositories, Created(r), op.todo = <<>>, op.snap \in Layout, Named(op.snap),
           op.kind # "idle"
    PROVE  Named(dir) /\ (Finish => [Catalog!Next]_<<Catalog!vars>>)
<1> DEFINE p == op.from
<1>1. /\ p \in Paths /\ ~Shown(op.snap, r) /\ usable = op.usable /\ p[1] \in op.usable
      /\ op.snap[p] = Nothing /\ \A x \in Paths : x # p => dir[x] = op.snap[x]
  BY DEF Created
<1>2. PICK K \in {{}, {"git"}, {"git", "lfs"}} : dir[p] = Made(p, r, K)
  BY DEF Created
<1> HIDE DEF p
<1>3. dir \in Layout
  BY DEF Disk
<1>4. Named(dir)
  <2>1. \A k \in Kinds : dir[p][k] = Cell(dir[p][k], k, p)
    <3>1. \A k \in Kinds : dir[p][k] = IF k \in K THEN Data(r, k, p) ELSE Absent
      BY <1>1, <1>2, <1>3, MadeIs
    <3> QED BY <1>1, <3>1, DataNamed DEF Cell
  <2> QED BY <1>1, <2>1 DEF Named
<1>5. CASE K = {}
  <2>1. dir[p] = op.snap[p]
    BY <1>1, <1>2, <1>5, NothingMade
  <2>2. dir = op.snap
    BY <1>1, <1>3, <2>1, LayoutsEqual
  <2> QED BY <1>1, <1>4, <2>2, NothingTaken
<1>6. CASE K # {}
  <2>1. dir = [op.snap EXCEPT ![p] = Made(p, r, K)]
    BY <1>1, <1>2, <1>3 DEF Layout
  <2>2. K \in {{"git"}, {"git", "lfs"}}
    BY <1>2, <1>6
  <2>3. Finish => Catalog!Appear(p, r)
    <3> SUFFICES ASSUME Finish PROVE Catalog!Appear(p, r)
      OBVIOUS
    <3>1. \A q \in Paths : \A k \in Kinds : op.snap[q][k] # Absent => op.snap[q][k].repo # r
      BY <1>1 DEF Shown
    <3> QED BY <1>1, <2>1, <2>2, <3>1, Seen DEF Catalog!Appear, Made, Paths, Kinds, Nothing, Data
  <2> QED BY <1>1, <1>4, <2>3 DEF Catalog!Next, Paths
<1> QED BY <1>5, <1>6

LEMMA DeletedEnds ==
    ASSUME Disk, Deleting, Deleted, op.todo = <<>>, op.snap \in Layout, Named(op.snap)
    PROVE  Named(dir) /\ (Finish => [Catalog!Next]_<<Catalog!vars>>)
<1> DEFINE p == op.from
<1>1. /\ op.kind # "idle" /\ p \in Paths /\ usable = op.usable
      /\ \A x \in Paths : x # p => dir[x] = op.snap[x]
  BY DEF Deleting, Deleted
<1>2. \A s : ~Has(op.todo, s)
  BY DistinctNone
<1>3. \/ op.snap[p]["git"] # Absent /\ \A k \in Kinds : dir[p][k] = Absent
      \/ \A k \in Kinds : dir[p][k] = op.snap[p][k]
  BY <1>2 DEF Deleted
<1> HIDE DEF p
<1>4. dir \in Layout
  BY DEF Disk
<1>5. Named(dir)
  BY <1>1, <1>3 DEF Named, Cell
<1>6. CASE \A k \in Kinds : dir[p][k] = op.snap[p][k]
  <2>1. dir = op.snap
    BY <1>1, <1>4, <1>6, LayoutsEqual
  <2> QED BY <1>1, <1>5, <2>1, NothingTaken
<1>7. CASE op.snap[p]["git"] # Absent /\ \A k \in Kinds : dir[p][k] = Absent
  <2>1. dir[p] = Nothing
    BY <1>1, <1>4, <1>7, NothingIs
  <2>2. dir = [op.snap EXCEPT ![p] = Nothing]
    BY <1>1, <1>4, <2>1 DEF Layout
  <2>3. Finish => Catalog!Delete(p)
    BY <1>1, <1>7, <2>2, Seen DEF Catalog!Delete, Nothing
  <2> QED BY <1>1, <1>5, <2>3 DEF Catalog!Next, Paths
<1> QED BY <1>3, <1>6, <1>7

LEMMA RenamedEnds ==
    ASSUME Disk, Renaming, Renamed, op.todo = <<>>, op.snap \in Layout, Named(op.snap)
    PROVE  Named(dir) /\ (Finish => [Catalog!Next]_<<Catalog!vars>>)
<1> DEFINE p == op.from
           q == op.to
           c == op.snap[p]
<1>1. /\ op.kind # "idle" /\ p \in Paths /\ q \in Paths /\ p # q /\ usable = op.usable
      /\ op.snap[q] = Nothing
      /\ \A x \in Paths : x \notin {p, q} => dir[x] = op.snap[x]
  BY DEF Renaming, RenamingData, Renamed
<1>2. \A s : ~Has(op.todo, s)
  BY DistinctNone
<1>3. \/ /\ c["git"] # Absent
         /\ \A k \in Kinds : dir[p][k] = Absent /\ dir[q][k] = Cell(c[k], k, q)
      \/ \A k \in Kinds : dir[q][k] = Absent /\ dir[p][k] = Cell(c[k], k, p)
  BY <1>2 DEF Renamed, Halfway, Trail
<1>4. dir \in Layout /\ \A k \in Kinds : Fits(k, c[k])
  BY <1>1, LayoutAt DEF Disk
<1> HIDE DEF p, q
<1>5. CASE \A k \in Kinds : dir[q][k] = Absent /\ dir[p][k] = Cell(c[k], k, p)
  <2>1. \A k \in Kinds : dir[p][k] = op.snap[p][k] /\ dir[q][k] = op.snap[q][k]
    BY <1>1, <1>5, NothingIs DEF Named
  <2>2. dir = op.snap
    BY <1>1, <1>4, <2>1, LayoutsEqual
  <2> QED BY <1>1, <2>2, NothingTaken
<1>6. CASE /\ c["git"] # Absent
           /\ \A k \in Kinds : dir[p][k] = Absent /\ dir[q][k] = Cell(c[k], k, q)
  <2>1. dir[p] = Nothing
    BY <1>1, <1>4, <1>6, NothingIs
  <2>2. dir[q] = Catalog!Under(c, q)
    <3>1. dir[q] = [k \in Kinds |-> Cell(c[k], k, q)]
      <4>1. dir[q] \in [Kinds -> Content]
        BY <1>1, <1>4 DEF Layout
      <4> QED BY <1>6, <4>1
    <3> QED BY <3>1 DEF Catalog!Under, Cell, Kinds, Data
  <2>3. dir = [op.snap EXCEPT ![q] = Catalog!Under(c, q), ![p] = Nothing]
    BY <1>1, <1>4, <2>1, <2>2 DEF Layout
  <2>4. Finish => Catalog!Rename(p, q)
    BY <1>1, <1>6, <2>3, Seen DEF Catalog!Rename, Nothing
  <2>5. Named(dir)
    <3>1. \A k \in Kinds : dir[q][k] = Cell(dir[q][k], k, q)
      BY <1>1, <1>4, <1>6, CellIs
    <3>2. \A k \in Kinds : dir[p][k] = Cell(dir[p][k], k, p)
      BY <1>6 DEF Cell
    <3> QED BY <1>1, <3>1, <3>2 DEF Named
  <2> QED BY <1>1, <2>4, <2>5 DEF Catalog!Next, Paths
<1> QED BY <1>3, <1>5, <1>6

LEMMA GroupedEnds ==
    ASSUME Disk, Grouping, Grouped, Named(op.snap)
    PROVE  Named(dir) /\ (Finish => [Catalog!Next]_<<Catalog!vars>>)
<1> DEFINE g == op.to
<1>1. op.kind # "idle" /\ g \in Groups /\ dir = op.snap /\ g \notin op.usable /\ usable \ {g} = op.usable
  BY DEF Grouping, Grouped
<1> HIDE DEF g
<1>2. CASE g \in usable
  <2>1. usable = op.usable \cup {g}
    BY <1>1, <1>2
  <2>2. Finish => Catalog!CreateGroup(g)
    BY <1>1, <2>1, Seen DEF Catalog!CreateGroup
  <2> QED BY <1>1, <2>2 DEF Catalog!Next
<1>3. CASE g \notin usable
  <2>1. usable = op.usable
    BY <1>1, <1>3
  <2> QED BY <1>1, <2>1, NothingTaken
<1> QED BY <1>2, <1>3

LEMMA RelocatedEnds ==
    ASSUME Disk, Moving, Relocated, op.todo = <<>>, op.snap \in Layout, Named(op.snap)
    PROVE  Named(dir) /\ (Finish => [Catalog!Next]_<<Catalog!vars>>)
<1> DEFINE X == Onto(op)
           Z == Off(op)
           g == Origin(op)
           h == IF op.back THEN op.from ELSE op.to
           s == op.snap
<1>1. /\ op.kind # "idle" /\ X \in Groups /\ Z \in Groups /\ X # Z /\ op.held = Absent
  BY MoveTypes
<1>2. /\ g \in {X, Z} /\ h \in {X, Z} /\ g # h
  BY <1>1 DEF Onto, Off, Origin, Relocated
<1>3. \A u : ~Has(op.todo, u)
  BY DistinctNone
<1>4. Seat(op) = X /\ \A n, k : ~Pending(op, n, k)
  BY <1>3 DEF Seat, Pending
<1>5. /\ g \in op.usable /\ h \notin op.usable /\ op.usable \subseteq Groups
      /\ \A n \in NameSet : s[<<h, n>>] = Nothing
      /\ X \in groups /\ Z \notin groups /\ (Rooted => control[X] = X)
      /\ \A x \in Groups \ {X, Z} : x \in usable <=> x \in op.usable
  BY <1>1, <1>3, <1>4 DEF Relocated, Placed
<1>6. /\ \A x \in Paths : x[1] \notin {X, Z} => dir[x] = s[x]
      /\ \A n \in NameSet : dir[<<Z, n>>] = Nothing
      /\ \A n \in NameSet : \A k \in Kinds : dir[<<X, n>>][k] = Cell(s[<<g, n>>][k], k, <<X, n>>)
  <2>1. Moved(dir, Absent, op)
    BY <1>1 DEF Relocated
  <2>2. \A n \in NameSet : <<Z, n>> \in Paths /\ <<Z, n>>[1] = Z
    BY <1>1, PathParts
  <2> QED BY <1>1, <1>4, <2>1, <2>2 DEF Moved
<1> HIDE DEF X, Z, g, h
<1>7. usable = (op.usable \ {X, Z}) \cup {X}
  <2>1. X \in usable /\ Z \notin usable /\ usable \subseteq Groups
    BY <1>5 DEF usable, Disk
  <2> QED BY <1>1, <1>5, <2>1
<1>8. dir \in Layout
  BY DEF Disk
<1>9. \A x \in Paths : \A k \in Kinds :
        dir[x][k] = IF x[1] = X THEN Cell(s[<<g, x[2]>>][k], k, x)
                    ELSE IF x[1] = Z THEN Absent ELSE s[x][k]
  <2> SUFFICES ASSUME NEW x \in Paths, NEW k \in Kinds
               PROVE  dir[x][k] = IF x[1] = X THEN Cell(s[<<g, x[2]>>][k], k, x)
                                  ELSE IF x[1] = Z THEN Absent ELSE s[x][k]
    OBVIOUS
  <2>1. x[1] \in Groups /\ x[2] \in NameSet /\ x = <<x[1], x[2]>>
    BY PathParts
  <2>2. CASE x[1] = X
    BY <1>6, <2>1, <2>2
  <2>3. CASE x[1] = Z
    <3>1. dir[x] = Nothing
      BY <1>6, <2>1, <2>3
    <3> QED BY <1>1, <1>8, <2>3, <3>1, NothingIs
  <2>4. CASE x[1] \notin {X, Z}
    BY <1>6, <2>4
  <2> QED BY <2>2, <2>3, <2>4
<1>10. \A x \in Paths : <<g, x[2]>> \in Paths /\ \A k \in Kinds : Fits(k, s[<<g, x[2]>>][k])
  BY <1>1, <1>2, PathParts, LayoutAt
<1>11. Named(dir)
  <2> SUFFICES ASSUME NEW x \in Paths, NEW k \in Kinds
               PROVE  dir[x][k] = Cell(dir[x][k], k, x)
    BY DEF Named
  <2>1. CASE x[1] = X
    <3> DEFINE c == s[<<g, x[2]>>][k]
    <3>1. dir[x][k] = Cell(c, k, x)
      BY <1>9, <2>1
    <3>2. Fits(k, c)
      BY <1>10
    <3> HIDE DEF c
    <3>3. Cell(Cell(c, k, x), k, x) = Cell(c, k, x)
      BY <3>2, CellIs
    <3> QED BY <3>1, <3>3
  <2>2. CASE x[1] # X /\ x[1] = Z
    BY <1>9, <2>2 DEF Cell
  <2>3. CASE x[1] \notin {X, Z}
    BY <1>9, <2>3 DEF Named
  <2> QED BY <2>1, <2>2, <2>3
<1>12. CASE g = X
  <2>1. usable = op.usable
    BY <1>1, <1>2, <1>5, <1>7, <1>12
  <2>2. \A x \in Paths : \A k \in Kinds : dir[x][k] = s[x][k]
    <3> SUFFICES ASSUME NEW x \in Paths, NEW k \in Kinds PROVE dir[x][k] = s[x][k]
      OBVIOUS
    <3>1. x[1] \in Groups /\ x[2] \in NameSet /\ x = <<x[1], x[2]>>
      BY PathParts
    <3>2. CASE x[1] = X
      <4>1. <<g, x[2]>> = x
        BY <1>12, <3>1, <3>2
      <4> QED BY <1>9, <3>2, <4>1 DEF Named
    <3>3. CASE x[1] = Z
      <4>1. s[x] = Nothing
        BY <1>1, <1>2, <1>5, <1>12, <3>1, <3>3
      <4>2. s[x][k] = Absent
        BY <4>1, NothingIs
      <4> QED BY <1>1, <1>9, <3>3, <4>2
    <3>4. CASE x[1] \notin {X, Z}
      BY <1>9, <3>4
    <3> QED BY <3>2, <3>3, <3>4
  <2>3. dir = op.snap
    BY <1>8, <2>2, LayoutsEqual
  <2> QED BY <1>1, <1>11, <2>1, <2>3, NothingTaken
<1>13. CASE g = Z
  <2>1. h = X /\ X \notin op.usable /\ Z \in op.usable /\ usable = (op.usable \ {Z}) \cup {X}
    BY <1>1, <1>2, <1>5, <1>7, <1>13
  <2>2. dir = [x \in Paths |-> CASE x[1] = Z -> Nothing
                                 [] x[1] = X -> Catalog!Under(s[<<Z, x[2]>>], x)
                                 [] OTHER -> s[x]]
    <3>1. ASSUME NEW x \in Paths
          PROVE  dir[x] = CASE x[1] = Z -> Nothing
                            [] x[1] = X -> Catalog!Under(s[<<Z, x[2]>>], x)
                            [] OTHER -> s[x]
      <4>1. dir[x] \in [Kinds -> Content] /\ s[x] \in [Kinds -> Content]
        BY <1>8, <3>1 DEF Layout
      <4>2. CASE x[1] = Z
        <5>1. \A k \in Kinds : dir[x][k] = Absent
          BY <1>1, <1>9, <3>1, <4>2
        <5>2. dir[x] = Nothing
          BY <1>8, <3>1, <5>1, NothingIs
        <5> QED BY <1>1, <4>2, <5>2
      <4>3. CASE x[1] = X
        <5>1. \A k \in Kinds : dir[x][k] = Cell(s[<<Z, x[2]>>][k], k, x)
          BY <1>9, <1>13, <3>1, <4>3
        <5>2. dir[x] = [k \in Kinds |-> Cell(s[<<Z, x[2]>>][k], k, x)]
          BY <4>1, <5>1
        <5>3. dir[x] = Catalog!Under(s[<<Z, x[2]>>], x)
          BY <5>2 DEF Catalog!Under, Cell, Kinds, Data
        <5> QED BY <1>1, <4>3, <5>3
      <4>4. CASE x[1] \notin {X, Z}
        <5>1. \A k \in Kinds : dir[x][k] = s[x][k]
          BY <1>9, <3>1, <4>4
        <5>2. dir[x] = s[x]
          BY <4>1, <5>1
        <5> QED BY <4>4, <5>2
      <4> QED BY <4>2, <4>3, <4>4
    <3>2. dir \in [Paths -> [Kinds -> Content]]
      BY <1>8 DEF Layout
    <3> QED BY <3>1, <3>2
  <2>3. Finish => Catalog!RenameGroup(Z, X)
    <3> SUFFICES ASSUME Finish PROVE Catalog!RenameGroup(Z, X)
      OBVIOUS
    <3>1. \A x : x \in Paths <=> x \in Catalog!Paths
      BY DEF Paths
    <3> QED BY <1>1, <2>1, <2>2, Seen DEF Catalog!RenameGroup, Paths, Nothing
  <2> QED BY <1>1, <1>11, <2>3 DEF Catalog!Next
<1> QED BY <1>2, <1>12, <1>13

-----------------------------------------------------------------------------
(* An operation goes on. *)

\* It is the same operation still, and seen from outside nothing happens.
Continues == op'.kind = op.kind /\ op'.snap = op.snap /\ op'.usable = op.usable

\* An operation that has begun, and nothing ended halfway before.
Underway == IInv /\ op # Idle /\ Midway /\ Named(op.snap) /\ dirty = 0

LEMMA UnderwayIs ==
    ASSUME Underway
    PROVE  /\ Disk /\ Operation /\ DOMAIN op = Fields /\ op.snap \in Layout /\ dirty \in Nat
           /\ \/ /\ op.kind \in {"create", "import"} /\ op.held = Absent /\ Creating
                 /\ \E r \in Repositories : Created(r)
              \/ op.kind = "delete" /\ op.held = Absent /\ Deleting /\ Deleted
              \/ op.kind = "rename" /\ Renaming /\ Renamed
              \/ op.kind = "group" /\ op.held = Absent /\ Grouping /\ Grouped
              \/ op.kind = "move" /\ Moving /\ Relocated
<1>1. Disk /\ Operation /\ dirty \in Nat
  BY DEF Underway, IInv
<1>2. DOMAIN op = Fields /\ op.snap \in Layout
  BY <1>1, KindIs DEF Operation, Sound
<1>3. Creating => op.kind \in {"create", "import"} /\ op.held = Absent
  BY DEF Creating, CreatingData
<1>4. Deleting => op.kind = "delete" /\ op.held = Absent
  BY DEF Deleting
<1>5. Renaming => op.kind = "rename"
  BY DEF Renaming, RenamingData
<1>6. Grouping => op.kind = "group" /\ op.held = Absent
  BY DEF Grouping
<1>7. Moving => op.kind = "move"
  BY DEF Moving, MovingData
<1> QED BY <1>1, <1>2, <1>3, <1>4, <1>5, <1>6, <1>7 DEF Operation, Underway, Midway

\* What it takes for the operation to be midway in the next state, too.
LEMMA Goes ==
    ASSUME op'.kind = op.kind
    PROVE  /\ op.kind \in {"create", "import"} /\ (\E r \in Repositories : Created(r)') => Midway'
           /\ op.kind = "delete" /\ Deleted' => Midway'
           /\ op.kind = "rename" /\ Renamed' => Midway'
           /\ op.kind = "group" /\ Grouped' => Midway'
           /\ op.kind = "move" /\ Relocated' => Midway'
BY DEF Midway

LEMMA StepDoneAtomic ==
    ASSUME Underway, StepDone
    PROVE  Continues /\ Midway'
<1> USE UnderwayIs
<1>1. CASE op.kind \in {"create", "import"}
  <2>1. PICK r \in Repositories : Created(r)
    BY <1>1
  <2>2. SameOperation /\ Created(r)'
    BY <2>1, CreatedStep
  <2> QED BY <1>1, <2>2, Goes DEF SameOperation, Frame, Continues
<1>2. CASE op.kind = "delete"
  <2>1. SameOperation /\ Deleted'
    BY <1>2, DeletedStep
  <2> QED BY <1>2, <2>1, Goes DEF SameOperation, Frame, Continues
<1>3. CASE op.kind = "rename"
  <2>1. SameOperation /\ Renamed'
    BY <1>3, RenamedStep
  <2> QED BY <1>3, <2>1, Goes DEF SameOperation, Frame, Continues
<1>4. CASE op.kind = "group"
  <2>1. SameOperation /\ Grouped'
    BY <1>4, GroupedStep
  <2> QED BY <1>4, <2>1, Goes DEF SameOperation, Frame, Continues
<1>5. CASE op.kind = "move"
  <2>1. Likewise(op, op') /\ Relocated' /\ op'.kind = op.kind
    BY <1>5, RelocatedStep, MovingStep DEF MoveFrame
  <2> QED BY <1>5, <2>1, Goes DEF Likewise, Continues
<1> QED BY <1>1, <1>2, <1>3, <1>4, <1>5

LEMMA GroupedFails ==
    ASSUME Disk, Grouped, op.kind = "group", DOMAIN op = Fields, op' = AfterFailure(Step), UNCHANGED disk
    PROVE  SameOperation /\ Grouped'
<1>1. SameOperation
  BY Fails
<1>2. op'.to = op.to /\ op'.usable = op.usable /\ UNCHANGED <<groups, control>>
  BY <1>1 DEF SameOperation, Frame, disk
<1>3. Grouped'
  BY <1>2, GroupedNext DEF Disk
<1> QED BY <1>1, <1>3

\* The request itself fails, and nothing is on its way.
LEMMA FailureAtomic ==
    ASSUME Underway, Running, op.held = Absent, op' = AfterFailure(Step), UNCHANGED disk, Forward
    PROVE  Continues /\ Midway'
<1> USE UnderwayIs
<1>0. op.mode = "do" /\ ~op.back /\ op.todo # <<>>
  BY DEF Forward, Running
<1>1. CASE op.kind \in {"create", "import"}
  <2>1. PICK r \in Repositories : Created(r)
    BY <1>1
  <2>2. SameOperation /\ Created(r)'
    BY <1>0, <1>1, <2>1, CreatedFails
  <2> QED BY <1>1, <2>2, Goes DEF SameOperation, Frame, Continues
<1>2. CASE op.kind = "delete"
  <2>1. SameOperation /\ Deleted'
    BY <1>0, <1>2, DeletedFails
  <2> QED BY <1>2, <2>1, Goes DEF SameOperation, Frame, Continues
<1>3. CASE op.kind = "rename"
  <2>1. SameOperation /\ Renamed'
    BY <1>0, <1>3, RenamedFails
  <2> QED BY <1>3, <2>1, Goes DEF SameOperation, Frame, Continues
<1>4. CASE op.kind = "group"
  <2>1. SameOperation /\ Grouped'
    BY <1>4, GroupedFails
  <2> QED BY <1>4, <2>1, Goes DEF SameOperation, Frame, Continues
<1>5. CASE op.kind = "move"
  <2>1. op'.kind = op.kind /\ op'.snap = op.snap /\ op'.usable = op.usable /\ Relocated'
    BY <1>0, <1>5, RelocatedFails
  <2> QED BY <1>5, <2>1, Goes DEF Continues
<1> QED BY <1>1, <1>2, <1>3, <1>4, <1>5

\* A store is on its way only while its records are rewritten.
LEMMA StepFailsAtomic ==
    ASSUME Underway, StepFails, Forward
    PROVE  Continues /\ Midway'
<1>1. Running /\ Step.do # "rewrite" /\ op' = AfterFailure(Step) /\ UNCHANGED disk
  BY DEF StepFails
<1>2. op.held = Absent
  <2>1. CASE op.kind = "rename"
    BY <1>1, <2>1, UnderwayIs, RenamedShape
  <2>2. CASE op.kind = "move"
    BY <1>1, <2>2, UnderwayIs, MoveTypes
  <2> QED BY <2>1, <2>2, UnderwayIs
<1> QED BY <1>1, <1>2, FailureAtomic

LEMMA LeavesAtomic ==
    ASSUME Underway, InitLeavesDirectory
    PROVE  Continues /\ Midway'
<1> USE UnderwayIs
<1>1. op.kind = "create"
  BY DEF InitLeavesDirectory
<1>2. PICK r \in Repositories : Created(r)
  BY <1>1
<1>3. SameOperation /\ Created(r)'
  BY <1>1, <1>2, CreatedLeaves
<1> QED BY <1>1, <1>3, Goes DEF SameOperation, Frame, Continues

LEMMA AbortsAtomic ==
    ASSUME Underway, ControlNotMoved
    PROVE  Continues /\ Midway'
<1>1. /\ op.kind = "group" /\ op.todo # <<>> /\ groups' = groups \ {Step.to} /\ control' = control
      /\ op' = [op EXCEPT !.todo = <<>>]
  BY DEF ControlNotMoved, Running
<1>2. Disk /\ Grouping /\ Grouped /\ DOMAIN op = Fields
  BY <1>1, UnderwayIs
<1>3. Step.to = op.to
  <2>1. Step \in Building(op.to)
    BY <1>1, <1>2, SeqParts DEF Grouping, Step
  <2> QED BY <2>1 DEF Building, Mkdir, Control
<1>4. Continues /\ op'.to = op.to
  BY <1>1, <1>2 DEF Continues, Fields
<1>5. groups \subseteq Groups /\ groups' \ {op.to} = groups \ {op.to}
  BY <1>1, <1>2, <1>3 DEF Disk
<1>6. Grouped'
  BY <1>1, <1>2, <1>4, <1>5, GroupedNext DEF Continues
<1> QED BY <1>1, <1>4, <1>6, Goes DEF Continues

LEMMA SkipsAtomic ==
    ASSUME Underway, RewriteNothing
    PROVE  Continues /\ Midway'
<1> USE UnderwayIs
<1>1. op.kind = "rename" \/ op.kind = "move"
  <2>1. Renaming \/ Moving
    BY RewriteIs DEF RewriteNothing, Running
  <2> QED BY <2>1 DEF Renaming, RenamingData, Moving, MovingData
<1>2. CASE op.kind = "rename"
  <2>1. SameOperation /\ Renamed'
    BY <1>2, RenamedSkips
  <2> QED BY <1>2, <2>1, Goes DEF SameOperation, Frame, Continues
<1>3. CASE op.kind = "move"
  <2>1. Likewise(op, op') /\ Relocated' /\ op'.kind = op.kind
    BY <1>3, RelocatedSkips, MovingSkips DEF MoveFrame
  <2> QED BY <1>3, <2>1, Goes DEF Likewise, Continues
<1> QED BY <1>1, <1>2, <1>3

LEMMA HideAtomic ==
    ASSUME Underway, Hide
    PROVE  Continues /\ Midway'
<1> USE UnderwayIs
<1>1. op.kind = "rename" \/ op.kind = "move"
  <2>1. Renaming \/ Moving
    BY RewriteIs DEF Hide, Running
  <2> QED BY <2>1 DEF Renaming, RenamingData, Moving, MovingData
<1>2. CASE op.kind = "rename"
  <2>1. Frame /\ op'.usable = op.usable /\ Renamed'
    BY <1>2, RenamedHides
  <2> QED BY <1>2, <2>1, Goes DEF Frame, Continues
<1>3. CASE op.kind = "move"
  <2>1. Likewise(op, op') /\ Relocated' /\ op'.kind = op.kind
    BY <1>3, RelocatedHides, MovingHides DEF MoveFrame
  <2> QED BY <1>3, <2>1, Goes DEF Likewise, Continues
<1> QED BY <1>1, <1>2, <1>3

LEMMA PublishAtomic ==
    ASSUME Underway, Publish
    PROVE  Continues /\ Midway'
<1> USE UnderwayIs
<1>1. op.kind = "rename" \/ op.kind = "move"
  BY DEF Publish
<1>2. CASE op.kind = "rename"
  <2>1. SameOperation /\ Renamed'
    BY <1>2, RenamedPublishes
  <2> QED BY <1>2, <2>1, Goes DEF SameOperation, Frame, Continues
<1>3. CASE op.kind = "move"
  <2>1. Likewise(op, op') /\ Relocated' /\ op'.kind = op.kind
    BY <1>3, RelocatedPublishes, MovingPublishes DEF MoveFrame
  <2> QED BY <1>3, <2>1, Goes DEF Likewise, Continues
<1> QED BY <1>1, <1>2, <1>3

LEMMA PublishFailsAtomic ==
    ASSUME Underway, PublishFails, Forward
    PROVE  Continues /\ Midway'
<1> USE UnderwayIs
<1>0. op.mode = "do" /\ ~op.back
  BY DEF Forward
<1>1. op.kind = "rename" \/ op.kind = "move"
  BY DEF PublishFails
<1>2. CASE op.kind = "rename"
  <2>1. SameOperation /\ Renamed'
    BY <1>0, <1>2, RenamedPublishFails
  <2> QED BY <1>2, <2>1, Goes DEF SameOperation, Frame, Continues
<1>3. CASE op.kind = "move"
  <2>1. op'.kind = op.kind /\ op'.snap = op.snap /\ op'.usable = op.usable /\ Relocated'
    BY <1>0, <1>3, RelocatedPublishFails
  <2> QED BY <1>3, <2>1, Goes DEF Continues
<1> QED BY <1>1, <1>2, <1>3

-----------------------------------------------------------------------------
(* Every step. *)

\* Failures that hit what puts things back are counted, and the count only grows.
LEMMA DirtyGrows ==
    ASSUME IInv, [Next]_vars
    PROVE  dirty \in Nat /\ dirty' \in Nat /\ (dirty' > 0 \/ (dirty = 0 /\ dirty' = 0))
<1>1. dirty \in 0 .. MaxDirty /\ MaxDirty \in Nat
  BY LifecycleAssumption DEF IInv
<1>2. \A b \in BOOLEAN : Soil(b) => dirty' \in 0 .. MaxDirty /\ dirty' >= dirty
  BY <1>1, Soiled
<1>3. dirty' = dirty \/ \E b \in BOOLEAN : Soil(b)
  <2>1. CASE Request
    BY <2>1 DEF Request, createRepository, importStage, importFail, importAdopt, DeleteRepository,
       RenameRepository, CreateGroup, DeleteGroup, RenameGroup, Grow, Begin
  <2>2. CASE Execute
    <3>1. (~Forward) \in BOOLEAN /\ TRUE \in BOOLEAN
      OBVIOUS
    <3> QED BY <2>2, <3>1 DEF Execute, StepDone, StepFails, InitLeavesDirectory, ControlNotMoved,
       RewriteNothing, Hide, HideFails, Publish, PublishFails, RestoreFails, Finish
  <2>3. CASE Crash
    <3>1. (op # Idle) \in BOOLEAN
      OBVIOUS
    <3> QED BY <2>3, <3>1 DEF Crash
  <2>4. CASE UNCHANGED vars
    BY <2>4 DEF vars
  <2> QED BY <2>1, <2>2, <2>3, <2>4 DEF Next
<1> QED BY <1>1, <1>2, <1>3

\* Between two operations the layout is what is seen.
LEMMA SeenIdle ==
    ASSUME op = Idle
    PROVE  /\ op.kind = "idle"
           /\ (IF op.kind = "idle" THEN dir ELSE op.snap) = dir
           /\ (IF op.kind = "idle" THEN usable ELSE op.usable) = usable
BY DEF Idle

LEMMA BeginUnseen ==
    ASSUME op = Idle, NEW kind, kind # "idle", NEW from, NEW to, NEW todo, Begin(kind, from, to, todo)
    PROVE  UNCHANGED <<Catalog!vars>>
<1>1. op'.kind = kind /\ op'.snap = dir
  BY BeginIs
<1>2. op'.usable = usable
  BY DEF Begin
<1> QED BY <1>1, <1>2, SeenIdle DEF Catalog!vars

LEMMA ContinuesUnseen ==
    ASSUME op.kind # "idle", Continues
    PROVE  UNCHANGED <<Catalog!vars>>
BY DEF Continues, Catalog!vars

LEMMA UnchangedUnseen ==
    ASSUME UNCHANGED <<dir, groups, control, op>>
    PROVE  UNCHANGED <<Catalog!vars>>
<1>1. usable' = usable
  BY UsableStays
<1> QED BY <1>1 DEF Catalog!vars

LEMMA UnchangedAtomic ==
    ASSUME Atomic, UNCHANGED <<dir, groups, control, op, dirty>>
    PROVE  Atomic'
<1>1. usable' = usable
  BY UsableStays
<1>2. \A r : Created(r) => Created(r)'
  BY <1>1 DEF Created
<1>3. (Deleted => Deleted') /\ (Renamed => Renamed') /\ (Grouped => Grouped')
  BY <1>1 DEF Deleted, Renamed, Grouped
<1>4. Relocated => Relocated'
  BY <1>1 DEF Relocated, Placed
<1> QED BY <1>2, <1>3, <1>4 DEF Atomic, Midway

LEMMA GrowAtomic ==
    ASSUME IInv, Atomic, NEW p \in Paths, NEW k \in Sidecars, Grow(p, k)
    PROVE  Atomic' /\ Catalog!Next
<1> DEFINE c == Data(dir[p]["git"].repo, k, p)
<1>1. /\ op = Idle /\ dir[p]["git"] # Absent /\ dir[p][k] = Absent
      /\ dir' = [dir EXCEPT ![p][k] = c]
      /\ UNCHANGED <<groups, control, op, dirty>>
  BY DEF Grow
<1>2. k \in Kinds /\ "git" \in Kinds /\ dir \in Layout
  BY LifecycleAssumption, PlainKinds DEF IInv, Disk
<1>3. Fits(k, c) /\ c = Cell(c, k, p)
  <2>1. dir[p]["git"].repo \in Repositories
    BY <1>1, <1>2, LayoutAt, Recorded
  <2> QED BY <1>2, <2>1, DataFits, DataNamed
<1>4. usable' = usable
  BY <1>1, UsableStays
<1>5. Catalog!Grow(p, k)
  <2>1. op' = Idle
    BY <1>1
  <2>2. /\ (IF op.kind = "idle" THEN dir ELSE op.snap)' = dir'
        /\ (IF op.kind = "idle" THEN usable ELSE op.usable)' = usable'
    BY <2>1 DEF Idle
  <2> QED BY <1>1, <1>4, <2>2, SeenIdle DEF Catalog!Grow, Data
<1>6. dirty = 0 => Named(dir')
  <2>1. dir' = With(dir, p, k, c)
    BY <1>1 DEF With
  <2>2. dirty = 0 => Named(dir)
    BY <1>1 DEF Atomic
  <2> HIDE DEF c
  <2>3. Named(dir) => Named(With(dir, p, k, c))
    BY <1>2, <1>3, NamedPut
  <2> QED BY <2>1, <2>2, <2>3
<1>7. Atomic'
  BY <1>1, <1>6 DEF Atomic
<1>8. p \in Catalog!Paths /\ k \in Catalog!Kinds
  BY <1>2 DEF Paths, Kinds
<1> QED BY <1>5, <1>7, <1>8 DEF Catalog!Next

LEMMA DeleteGroupAtomic ==
    ASSUME IInv, Atomic, NEW g \in Groups, DeleteGroup(g)
    PROVE  Atomic' /\ Catalog!Next
<1>1. /\ op = Idle /\ Authorized(g) /\ groupExists(g) /\ (\A n \in NameSet : Vacant(<<g, n>>))
      /\ groups' = groups \ {g} /\ control' = [control EXCEPT ![g] = Absent]
      /\ UNCHANGED <<dir, op, dirty>>
  BY DEF DeleteGroup
<1>2. Disk
  BY DEF IInv
<1>3. \A n \in NameSet : dir[<<g, n>>] = Nothing
  <2> SUFFICES ASSUME NEW n \in NameSet PROVE dir[<<g, n>>] = Nothing
    OBVIOUS
  <2>1. <<g, n>> \in Paths
    BY PathParts
  <2> QED BY <1>1, <1>2, <2>1, NothingIs DEF Vacant, Disk
<1>4. g \in usable /\ usable' = usable \ {g}
  <2>1. g \in usable
    BY <1>1 DEF Authorized, groupExists, usable
  <2>2. \A x \in groups : x # g => control'[x] = control[x]
    BY <1>1, <1>2 DEF Disk
  <2> QED BY <1>1, <2>1, <2>2 DEF usable
<1>5. Catalog!DeleteGroup(g)
  <2>1. /\ (IF op.kind = "idle" THEN dir ELSE op.snap)' = dir
        /\ (IF op.kind = "idle" THEN usable ELSE op.usable)' = usable'
    BY <1>1 DEF Idle
  <2> QED BY <1>3, <1>4, <1>1, <2>1, SeenIdle DEF Catalog!DeleteGroup, Nothing
<1>6. Atomic'
  BY <1>1 DEF Atomic
<1> QED BY <1>5, <1>6 DEF Catalog!Next

LEMMA CreateAtomic ==
    ASSUME IInv, Atomic, NEW p \in Paths, NEW r \in Repositories, createRepository(p, r)
    PROVE  Atomic' /\ UNCHANGED <<Catalog!vars>>
<1>1. /\ op = Idle /\ Authorized(p[1]) /\ groupExists(p[1]) /\ Vacant(p) /\ r \notin used
      /\ Begin("create", p, p, <<Make(p, "git", r), Make(p, "lfs", r)>>)
  BY DEF createRepository
<1>2. ~Shown(dir, r)
  BY <1>1 DEF IInv, Sound
<1>3. \A k \in Kinds : dir[p][k] = Absent
  BY <1>1 DEF Vacant
<1>4. Atomic'
  BY <1>1, <1>2, <1>3, CreatedBegins
<1> QED BY <1>1, <1>4, BeginUnseen

LEMMA AdoptAtomic ==
    ASSUME IInv, Atomic, NEW i \in staged, importAdopt(i)
    PROVE  Atomic' /\ UNCHANGED <<Catalog!vars>>
<1> DEFINE p == i.at
           r == i.repo
<1>1. /\ op = Idle /\ Authorized(p[1]) /\ groupExists(p[1]) /\ ImportVacant(p)
      /\ Begin("import", p, p, <<Make(p, "git", r), Make(p, "lfs", r)>>)
  BY DEF importAdopt
<1>2. p \in Paths /\ r \in Repositories
  BY DEF IInv, Staging
<1>3. ~Shown(dir, r)
  BY <1>1 DEF IInv, Sound
<1>4. dirty = 0 => \A k \in Kinds : dir[p][k] = Absent
  <2>1. dirty = 0 => Anchored(dir, p)
    BY <1>1, <1>2 DEF IInv, Sound
  <2> QED BY <1>1, <2>1 DEF ImportVacant, Anchored, Kinds, Catalog!Kinds
<1> HIDE DEF p, r
<1>5. Atomic'
  BY <1>1, <1>2, <1>3, <1>4, CreatedBegins
<1> QED BY <1>1, <1>5, BeginUnseen

\* A request begins unseen, or is one step of the catalog.
LEMMA RequestAtomic ==
    ASSUME IInv, Atomic, Request
    PROVE  Atomic' /\ [Catalog!Next]_<<Catalog!vars>>
<1>1. ASSUME NEW p \in Paths, NEW r \in Repositories, importStage(p, r)
      PROVE  Atomic' /\ UNCHANGED <<Catalog!vars>>
  <2>1. UNCHANGED <<dir, groups, control, op, dirty>>
    BY <1>1 DEF importStage, disk
  <2> QED BY <2>1, UnchangedAtomic, UnchangedUnseen
<1>2. ASSUME NEW i \in staged, importFail(i)
      PROVE  Atomic' /\ UNCHANGED <<Catalog!vars>>
  <2>1. UNCHANGED <<dir, groups, control, op, dirty>>
    BY <1>2 DEF importFail, disk
  <2> QED BY <2>1, UnchangedAtomic, UnchangedUnseen
<1>3. ASSUME NEW p \in Paths, DeleteRepository(p)
      PROVE  Atomic' /\ UNCHANGED <<Catalog!vars>>
  BY <1>3, DeletedBegins, BeginUnseen DEF DeleteRepository
<1>4. ASSUME NEW p \in Paths, NEW q \in Paths, RenameRepository(p, q)
      PROVE  Atomic' /\ UNCHANGED <<Catalog!vars>>
  BY <1>4, RenamedBegins, BeginUnseen DEF RenameRepository
<1>5. ASSUME NEW g \in Groups, CreateGroup(g)
      PROVE  Atomic' /\ UNCHANGED <<Catalog!vars>>
  BY <1>5, GroupedBegins, BeginUnseen DEF CreateGroup
<1>6. ASSUME NEW g \in Groups, NEW h \in Groups, RenameGroup(g, h)
      PROVE  Atomic' /\ UNCHANGED <<Catalog!vars>>
  BY <1>6, RelocatedBegins, BeginUnseen DEF RenameGroup
<1> QED BY <1>1, <1>2, <1>3, <1>4, <1>5, <1>6, CreateAtomic, AdoptAtomic, DeleteGroupAtomic, GrowAtomic
        DEF Request

LEMMA FinishAtomic ==
    ASSUME Underway, Finish
    PROVE  Atomic' /\ [Catalog!Next]_<<Catalog!vars>>
<1>1. op.todo = <<>> /\ op' = Idle /\ dir' = dir /\ Named(op.snap)
  BY DEF Finish, disk, Underway
<1>2. Named(dir) /\ [Catalog!Next]_<<Catalog!vars>>
  <2> USE UnderwayIs
  <2>1. CASE op.kind \in {"create", "import"}
    <3>1. PICK r \in Repositories : Created(r)
      BY <2>1
    <3> QED BY <1>1, <2>1, <3>1, CreatedEnds
  <2>2. CASE op.kind = "delete"
    BY <1>1, <2>2, DeletedEnds
  <2>3. CASE op.kind = "rename"
    BY <1>1, <2>3, RenamedEnds
  <2>4. CASE op.kind = "group"
    BY <1>1, <2>4, GroupedEnds
  <2>5. CASE op.kind = "move"
    BY <1>1, <2>5, RelocatedEnds
  <2> QED BY <2>1, <2>2, <2>3, <2>4, <2>5
<1> QED BY <1>1, <1>2 DEF Atomic

\* While an operation runs nothing is seen from outside, until it ends.
LEMMA ExecuteAtomic ==
    ASSUME Underway, Execute, dirty' = 0
    PROVE  Atomic' /\ [Catalog!Next]_<<Catalog!vars>>
<1>1. op.kind # "idle"
  BY UnderwayIs
<1>2. (Continues /\ Midway') => Atomic' /\ UNCHANGED <<Catalog!vars>>
  <2>1. Continues => op' # Idle
    BY <1>1 DEF Continues, Idle
  <2>2. Continues => Named(op'.snap)
    BY DEF Continues, Underway
  <2> QED BY <1>1, <2>1, <2>2, ContinuesUnseen DEF Atomic
<1>3. dirty = 0
  BY DEF Underway
<1>4. (~Forward) \in BOOLEAN /\ TRUE \in BOOLEAN
  OBVIOUS
<1>5. ~Soil(TRUE) /\ (Soil(~Forward) => Forward)
  BY <1>3, <1>4, OnlyForward
<1>6. CASE StepFails
  BY <1>2, <1>5, <1>6, StepFailsAtomic DEF StepFails
<1>7. CASE HideFails
  BY <1>2, <1>5, <1>7, FailureAtomic DEF HideFails
<1>8. CASE PublishFails
  BY <1>2, <1>5, <1>8, PublishFailsAtomic DEF PublishFails
<1>9. ~RestoreFails
  BY <1>5 DEF RestoreFails
<1> QED BY <1>2, <1>6, <1>7, <1>8, <1>9, StepDoneAtomic, LeavesAtomic, AbortsAtomic, SkipsAtomic, HideAtomic,
           PublishAtomic, FinishAtomic DEF Execute

LEMMA NextAtomic ==
    ASSUME IInv, Atomic, [Next]_vars
    PROVE  Atomic' /\ [dirty' > 0 \/ Catalog!Next]_<<Catalog!vars>>
<1>1. CASE Request
  BY <1>1, RequestAtomic
<1>2. CASE Execute \/ Crash
  <2>1. dirty \in Nat /\ dirty' \in Nat /\ (dirty' > 0 \/ (dirty = 0 /\ dirty' = 0))
    BY DirtyGrows
  <2>2. CASE dirty' > 0
    BY <2>1, <2>2 DEF Atomic
  <2>3. CASE dirty = 0 /\ dirty' = 0 /\ Execute
    <3>1. op # Idle
      BY <2>3 DEF Execute, StepDone, StepFails, InitLeavesDirectory, ControlNotMoved,
         RewriteNothing, Hide, HideFails, Publish, PublishFails, RestoreFails, Finish, Running
    <3>2. Underway
      BY <2>3, <3>1 DEF Underway, Atomic
    <3> QED BY <2>3, <3>2, ExecuteAtomic
  <2>4. CASE dirty = 0 /\ dirty' = 0 /\ Crash
    <3>1. op = Idle
      <4>1. (op # Idle) \in BOOLEAN
        OBVIOUS
      <4> QED BY <2>4, <4>1, OnlyForward DEF Crash
    <3>2. UNCHANGED <<dir, groups, control, op, dirty>>
      BY <2>4, <3>1 DEF Crash, disk
    <3> QED BY <3>2, UnchangedAtomic, UnchangedUnseen
  <2> QED BY <1>2, <2>1, <2>2, <2>3, <2>4
<1>3. CASE UNCHANGED vars
  <2>1. UNCHANGED <<dir, groups, control, op, dirty>>
    BY <1>3 DEF vars
  <2> QED BY <2>1, UnchangedAtomic, UnchangedUnseen
<1> QED BY <1>1, <1>2, <1>3 DEF Next

LEMMA InitAtomic == Init => Atomic /\ Catalog!Init
<1> SUFFICES ASSUME Init PROVE Atomic /\ Catalog!Init
  OBVIOUS
<1>1. op = Idle /\ dir = [p \in Paths |-> Nothing] /\ groups = Groups
  BY DEF Init
<1>2. Named(dir)
  BY <1>1 DEF Named, Cell, Nothing, Catalog!Nothing, Kinds
<1>3. usable \subseteq Groups
  BY <1>1 DEF usable
<1>4. Catalog!Init
  BY <1>1, <1>3, SeenIdle DEF Catalog!Init, Paths, Nothing
<1> QED BY <1>1, <1>2, <1>4 DEF Atomic

\* What createRepository, ImportRepositoryValidated, DeleteRepositoryLocked,
\* RenameRepositoryLocked, createGroup and renameRootGroupControlLocked do with
\* one directory after the other is, with their rollbacks, what RepositoryCatalog
\* does at once, for as long as no failure hits what puts things back and the
\* process does not end during a request.
THEOREM RequestsAreAtomic == Spec => AtomicUntilDirty
<1>1. ASSUME IInv, Atomic, [Next]_vars
      PROVE  Atomic' /\ [dirty' > 0 \/ Catalog!Next]_<<Catalog!vars>>
  BY <1>1, NextAtomic
<1> QED BY <1>1, InitAtomic, LifecycleInductive, PTL DEF Spec, AtomicUntilDirty
===============================================================================
