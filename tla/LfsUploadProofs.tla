---------------------------- MODULE LfsUploadProofs ----------------------------
(***************************************************************************)
(* What LfsUpload promises, for any number of uploads, repositories and    *)
(* objects, every size and every policy.  Its quantities are sums over     *)
(* finite sets, so the laws of such sums come first.                       *)
(***************************************************************************)
EXTENDS LfsUpload, FiniteSetTheorems, WellFoundedInduction, TLAPS

-----------------------------------------------------------------------------
(***************************************************************************)
(* Sums over finite sets.  SumFunctionOnSet looks its result up in a table *)
(* of partial sums that it chooses; here are its existence and the laws of *)
(* addition that follow, each by a smallest set that would violate it.     *)
(***************************************************************************)

\* The element that a sum over s takes first.
Pick(s) == CHOOSE x \in s : TRUE

\* g is the table of partial sums that SumFunctionOnSet(f, S) looks S up in.
Iterates(g, f, S) ==
    g = [s \in SUBSET S |-> IF s = {} THEN 0 ELSE f[Pick(s)] + g[s \ {Pick(s)}]]

\* Among subsets of a finite set there is always a smallest one.
LEMMA MinimalSubset ==
    ASSUME NEW S, IsFiniteSet(S), NEW B, B \subseteq SUBSET S, B # {}
    PROVE  \E T \in B : \A U \in B : U \subseteq T => U = T
<1>1. IsWellFoundedOn(StrictSubsetOrdering(S), SUBSET S)
  BY FS_FiniteSubsetsOfFinite, FS_StrictSubsetOrderingWellFounded
<1>2. PICK T \in B : \A U \in B : ~ (<<U, T>> \in StrictSubsetOrdering(S))
  BY <1>1, WFMin
<1> QED BY <1>2 DEF StrictSubsetOrdering

\* The element taken is there.
LEMMA PickIn ==
    ASSUME NEW s, s # {}
    PROVE  Pick(s) \in s
BY DEF Pick

\* What a table of partial sums says of one set.
LEMMA IteratesAt ==
    ASSUME NEW g, NEW f, NEW S, Iterates(g, f, S), NEW s, s \subseteq S
    PROVE  g[s] = IF s = {} THEN 0 ELSE f[Pick(s)] + g[s \ {Pick(s)}]
<1>1. s \in SUBSET S OBVIOUS
<1> QED BY <1>1 DEF Iterates

\* Two tables agree wherever both have an entry.
LEMMA IteratesAgree ==
    ASSUME NEW g, NEW k, NEW f, NEW S, NEW T, IsFiniteSet(S),
           Iterates(g, f, S), Iterates(k, f, T),
           NEW U, U \subseteq S, U \subseteq T
    PROVE  g[U] = k[U]
<1> DEFINE B == {V \in SUBSET S : V \subseteq T /\ g[V] # k[V]}
<1>1. SUFFICES ASSUME U \in B PROVE FALSE
  OBVIOUS
<1>2. PICK V \in B : \A W \in B : W \subseteq V => W = V
  <2>1. B \subseteq SUBSET S OBVIOUS
  <2>2. B # {} BY <1>1
  <2> HIDE DEF B
  <2> QED BY <2>1, <2>2, MinimalSubset
<1>3. V # {}
  BY <1>2, IteratesAt
<1>4. Pick(V) \in V /\ V \ {Pick(V)} \subseteq V /\ V \ {Pick(V)} # V
  BY <1>3, PickIn
<1>5. g[V \ {Pick(V)}] = k[V \ {Pick(V)}]
  BY <1>2, <1>4
<1>6. g[V] = f[Pick(V)] + g[V \ {Pick(V)}]
  <2>1. V \subseteq S /\ V \subseteq T BY <1>2
  <2> HIDE DEF B
  <2> QED BY <2>1, <1>3, IteratesAt
<1>7. k[V] = f[Pick(V)] + k[V \ {Pick(V)}]
  <2>1. V \subseteq S /\ V \subseteq T BY <1>2
  <2> HIDE DEF B
  <2> QED BY <2>1, <1>3, IteratesAt
<1> QED BY <1>2, <1>5, <1>6, <1>7

\* There is a table for every finite set: it is put together from those of its
\* strict subsets.
LEMMA IteratorExists ==
    ASSUME NEW f, NEW S, IsFiniteSet(S)
    PROVE  \E g : Iterates(g, f, S)
<1> DEFINE B == {V \in SUBSET S : ~ \E g : Iterates(g, f, V)}
<1>1. SUFFICES ASSUME S \in B PROVE FALSE
  OBVIOUS
<1>2. PICK T \in B : \A W \in B : W \subseteq T => W = T
  <2>1. B \subseteq SUBSET S OBVIOUS
  <2>2. B # {} BY <1>1
  <2> HIDE DEF B
  <2> QED BY <2>1, <2>2, MinimalSubset
<1> DEFINE H(V) == CHOOSE g : Iterates(g, f, V)
<1>3. \A V : V \subseteq T /\ V # T => Iterates(H(V), f, V)
  <2> TAKE V
  <2> HAVE V \subseteq T /\ V # T
  <2>1. \E g : Iterates(g, f, V)
    BY <1>2
  <2> QED BY <2>1
<1>4. \A V, W : V \subseteq W /\ W \subseteq T /\ W # T => H(V)[V] = H(W)[V]
  <2> TAKE V, W
  <2> HAVE V \subseteq W /\ W \subseteq T /\ W # T
  <2>1. Iterates(H(V), f, V) /\ Iterates(H(W), f, W)
    BY <1>3
  <2>2. IsFiniteSet(V)
    BY <1>2, FS_Subset
  <2> HIDE DEF H
  <2> QED BY <2>1, <2>2, IteratesAgree
<1> DEFINE Up(V) == IF V = {} THEN 0 ELSE f[Pick(V)] + H(V \ {Pick(V)})[V \ {Pick(V)}]
           g == [V \in SUBSET T |-> Up(V)]
<1>5. \A V : V \subseteq T /\ V # T => H(V)[V] = Up(V)
  <2> TAKE V
  <2> HAVE V \subseteq T /\ V # T
  <2>1. Iterates(H(V), f, V)
    BY <1>3
  <2>2. CASE V = {}
    <3> HIDE DEF H
    <3> QED BY <2>1, <2>2, IteratesAt
  <2>3. CASE V # {}
    <3>1. H(V \ {Pick(V)})[V \ {Pick(V)}] = H(V)[V \ {Pick(V)}]
      <4> HIDE DEF H
      <4> QED BY <1>4
    <3>2. H(V)[V] = f[Pick(V)] + H(V)[V \ {Pick(V)}]
      <4> HIDE DEF H
      <4> QED BY <2>1, <2>3, IteratesAt
    <3> HIDE DEF H
    <3> QED BY <2>3, <3>1, <3>2
  <2> QED BY <2>2, <2>3
<1>6. \A V \in SUBSET T :
        g[V] = IF V = {} THEN 0 ELSE f[Pick(V)] + g[V \ {Pick(V)}]
  <2> TAKE V \in SUBSET T
  <2>1. CASE V = {}
    <3> HIDE DEF H
    <3> QED BY <2>1
  <2>2. CASE V # {}
    <3> DEFINE W == V \ {Pick(V)}
    <3>1. W \in SUBSET T /\ W # T
      BY <2>2, PickIn
    <3>2. g[W] = H(W)[W]
      <4> HIDE DEF W, H
      <4> QED BY <1>5, <3>1
    <3> HIDE DEF H
    <3> QED BY <2>2, <3>2
  <2> QED BY <2>1, <2>2
<1>7. Iterates(g, f, T)
  <2>1. g = [V \in SUBSET T |-> g[V]]
    <3> HIDE DEF Up
    <3> QED OBVIOUS
  <2> HIDE DEF g
  <2> QED BY <1>6, <2>1 DEF Iterates
<1> QED BY <1>2, <1>7

\* The sum is what any table says.
LEMMA SumIterates ==
    ASSUME NEW f, NEW S, NEW g, Iterates(g, f, S), IsFiniteSet(S)
    PROVE  SumFunctionOnSet(f, S) = g[S]
<1> DEFINE k == CHOOSE k : Iterates(k, f, S)
<1>1. SumFunctionOnSet(f, S) = k[S]
  BY DEF SumFunctionOnSet, FoldFunctionOnSet, MapThenFoldSet, Iterates, Pick
<1>2. Iterates(k, f, S)
  OBVIOUS
<1> HIDE DEF k
<1> QED BY <1>1, <1>2, IteratesAgree

\* So the sum is that of the element taken first and of the rest ...
LEMMA SumRecursion ==
    ASSUME NEW f, NEW S, IsFiniteSet(S)
    PROVE  SumFunctionOnSet(f, S) =
             IF S = {} THEN 0 ELSE f[Pick(S)] + SumFunctionOnSet(f, S \ {Pick(S)})
<1>1. PICK g : Iterates(g, f, S)
  BY IteratorExists
<1>2. CASE S = {}
  BY <1>1, <1>2, SumIterates, IteratesAt
<1>3. CASE S # {}
  <2> DEFINE T == S \ {Pick(S)}
  <2>1. IsFiniteSet(T) /\ T \subseteq S
    BY FS_RemoveElement
  <2>2. PICK k : Iterates(k, f, T)
    BY <2>1, IteratorExists
  <2>3. g[T] = k[T]
    <3> HIDE DEF T
    <3> QED BY <1>1, <2>1, <2>2, IteratesAgree
  <2>4. SumFunctionOnSet(f, S) = f[Pick(S)] + g[T]
    BY <1>1, <1>3, SumIterates, IteratesAt
  <2>5. SumFunctionOnSet(f, T) = k[T]
    <3> HIDE DEF T
    <3> QED BY <2>1, <2>2, SumIterates
  <2> QED BY <1>3, <2>3, <2>4, <2>5
<1> QED BY <1>2, <1>3
\* Nothing adds up to zero.
LEMMA SumEmpty ==
    ASSUME NEW f
    PROVE  SumFunctionOnSet(f, {}) = 0
BY SumRecursion, FS_EmptySet

\* Natural numbers add up to a natural number.
LEMMA SumType ==
    ASSUME NEW f, NEW S, IsFiniteSet(S), \A x \in S : f[x] \in Nat
    PROVE  SumFunctionOnSet(f, S) \in Nat
<1> DEFINE B == {T \in SUBSET S : SumFunctionOnSet(f, T) \notin Nat}
<1>1. SUFFICES ASSUME S \in B PROVE FALSE
  OBVIOUS
<1>2. PICK T \in B : \A U \in B : U \subseteq T => U = T
  <2>1. B \subseteq SUBSET S OBVIOUS
  <2>2. B # {} BY <1>1
  <2> HIDE DEF B
  <2> QED BY <2>1, <2>2, MinimalSubset
<1> DEFINE p == Pick(T)
<1>3. T \subseteq S /\ IsFiniteSet(T) /\ SumFunctionOnSet(f, T) \notin Nat
  BY <1>2, FS_Subset
<1>4. SumFunctionOnSet(f, T) = IF T = {} THEN 0 ELSE f[p] + SumFunctionOnSet(f, T \ {p})
  <2> HIDE DEF B
  <2> QED BY <1>3, SumRecursion
<1>5. T # {} => p \in T
  BY PickIn
<1>6. T # {} => SumFunctionOnSet(f, T \ {p}) \in Nat
  <2> SUFFICES ASSUME T # {} PROVE T \ {p} \notin B
    BY <1>3
  <2> HIDE DEF p
  <2> QED BY <1>2, <1>5
<1>7. T # {} => f[p] \in Nat
  BY <1>3, <1>5
<1> HIDE DEF B, p
<1> QED BY <1>3, <1>4, <1>6, <1>7

\* ... and of any other element and the rest: the order does not matter.
LEMMA SumRemove ==
    ASSUME NEW f, NEW S, IsFiniteSet(S), \A x \in S : f[x] \in Nat, NEW x \in S
    PROVE  SumFunctionOnSet(f, S) = f[x] + SumFunctionOnSet(f, S \ {x})
<1> DEFINE Ok(T, y) == SumFunctionOnSet(f, T) = f[y] + SumFunctionOnSet(f, T \ {y})
           B == {T \in SUBSET S : \E y \in T : ~ Ok(T, y)}
<1>1. SUFFICES ASSUME S \in B PROVE FALSE
  OBVIOUS
<1>2. PICK T \in B : \A U \in B : U \subseteq T => U = T
  <2>1. B \subseteq SUBSET S OBVIOUS
  <2>2. B # {} BY <1>1
  <2> HIDE DEF B
  <2> QED BY <2>1, <2>2, MinimalSubset
<1>3. T \subseteq S /\ IsFiniteSet(T)
  BY <1>2, FS_Subset
<1>4. PICK y \in T : ~ Ok(T, y)
  BY <1>2
<1>5. \A U : U \subseteq T /\ U # T => \A z \in U : Ok(U, z)
  <2> HIDE DEF Ok
  <2> QED BY <1>2, <1>3
<1>6. PICK p \in T : /\ p = Pick(T)
                     /\ SumFunctionOnSet(f, T) = f[p] + SumFunctionOnSet(f, T \ {p})
  <2>1. Pick(T) \in T
    BY <1>4, PickIn
  <2> HIDE DEF B, Ok
  <2> QED BY <1>3, <1>4, <2>1, SumRecursion
<1>7. p # y
  BY <1>4, <1>6
<1>8. Ok(T \ {p}, y) /\ Ok(T \ {y}, p)
  <2> HIDE DEF Ok
  <2> QED BY <1>5, <1>7
<1>9. (T \ {p}) \ {y} = (T \ {y}) \ {p}
  OBVIOUS
<1>10. f[p] \in Nat /\ f[y] \in Nat
  BY <1>3
<1>11. SumFunctionOnSet(f, (T \ {p}) \ {y}) \in Nat
  <2>1. IsFiniteSet((T \ {p}) \ {y})
    BY <1>3, FS_RemoveElement
  <2>2. \A z \in (T \ {p}) \ {y} : f[z] \in Nat
    BY <1>3
  <2> QED BY <2>1, <2>2, SumType
<1> HIDE DEF B
<1> QED BY <1>4, <1>6, <1>8, <1>9, <1>10, <1>11

\* One more element adds its value.
LEMMA SumInsert ==
    ASSUME NEW f, NEW S, IsFiniteSet(S), NEW x, x \notin S,
           \A y \in S \cup {x} : f[y] \in Nat
    PROVE  SumFunctionOnSet(f, S \cup {x}) = f[x] + SumFunctionOnSet(f, S)
<1>1. IsFiniteSet(S \cup {x}) /\ x \in S \cup {x} /\ (S \cup {x}) \ {x} = S
  BY FS_AddElement
<1> QED BY <1>1, SumRemove

\* Larger values have the larger sum.
LEMMA SumMonotone ==
    ASSUME NEW f, NEW g, NEW S, IsFiniteSet(S),
           \A x \in S : f[x] \in Nat /\ g[x] \in Nat /\ f[x] <= g[x]
    PROVE  SumFunctionOnSet(f, S) <= SumFunctionOnSet(g, S)
<1> DEFINE B == {T \in SUBSET S : ~ (SumFunctionOnSet(f, T) <= SumFunctionOnSet(g, T))}
<1>1. SUFFICES ASSUME S \in B PROVE FALSE
  OBVIOUS
<1>2. PICK T \in B : \A U \in B : U \subseteq T => U = T
  <2>1. B \subseteq SUBSET S OBVIOUS
  <2>2. B # {} BY <1>1
  <2> HIDE DEF B
  <2> QED BY <2>1, <2>2, MinimalSubset
<1>3. /\ T \subseteq S /\ IsFiniteSet(T)
      /\ ~ (SumFunctionOnSet(f, T) <= SumFunctionOnSet(g, T))
  BY <1>2, FS_Subset
<1>4. T # {}
  <2>1. ~ (SumFunctionOnSet(f, {}) # 0) /\ ~ (SumFunctionOnSet(g, {}) # 0)
    BY SumEmpty
  <2> HIDE DEF B
  <2> QED BY <1>3, <2>1
<1>5. PICK x : x \in T
  BY <1>4
<1>6. SumFunctionOnSet(f, T \ {x}) <= SumFunctionOnSet(g, T \ {x})
  BY <1>2, <1>5
<1>7. /\ SumFunctionOnSet(f, T) = f[x] + SumFunctionOnSet(f, T \ {x})
      /\ SumFunctionOnSet(g, T) = g[x] + SumFunctionOnSet(g, T \ {x})
  <2>1. \A y \in T : f[y] \in Nat /\ g[y] \in Nat
    BY <1>3
  <2> HIDE DEF B
  <2> QED BY <1>3, <1>5, <2>1, SumRemove
<1>8. /\ SumFunctionOnSet(f, T \ {x}) \in Nat
      /\ SumFunctionOnSet(g, T \ {x}) \in Nat
  <2>1. IsFiniteSet(T \ {x})
    BY <1>3, FS_RemoveElement
  <2>2. \A y \in T \ {x} : f[y] \in Nat /\ g[y] \in Nat
    BY <1>3
  <2> HIDE DEF B
  <2> QED BY <2>1, <2>2, SumType
<1>9. f[x] \in Nat /\ g[x] \in Nat /\ f[x] <= g[x]
  BY <1>3, <1>5
<1> HIDE DEF B
<1> QED BY <1>3, <1>6, <1>7, <1>8, <1>9

\* The sum depends on the values only.
LEMMA SumEqual ==
    ASSUME NEW f, NEW g, NEW S, IsFiniteSet(S),
           \A x \in S : f[x] \in Nat /\ g[x] = f[x]
    PROVE  SumFunctionOnSet(g, S) = SumFunctionOnSet(f, S)
<1>1. SumFunctionOnSet(g, S) <= SumFunctionOnSet(f, S)
  BY SumMonotone
<1>2. SumFunctionOnSet(f, S) <= SumFunctionOnSet(g, S)
  BY SumMonotone
<1>3. SumFunctionOnSet(f, S) \in Nat /\ SumFunctionOnSet(g, S) \in Nat
  BY SumType
<1> QED BY <1>1, <1>2, <1>3

\* A value that changes changes the sum by as much.
LEMMA SumChange ==
    ASSUME NEW f, NEW g, NEW S, IsFiniteSet(S), NEW x \in S,
           \A y \in S : f[y] \in Nat /\ g[y] \in Nat,
           \A y \in S \ {x} : g[y] = f[y]
    PROVE  SumFunctionOnSet(g, S) = SumFunctionOnSet(f, S) - f[x] + g[x]
<1>1. IsFiniteSet(S \ {x})
  BY FS_RemoveElement
<1>2. SumFunctionOnSet(g, S \ {x}) = SumFunctionOnSet(f, S \ {x})
  BY <1>1, SumEqual
<1>3. /\ SumFunctionOnSet(f, S) = f[x] + SumFunctionOnSet(f, S \ {x})
      /\ SumFunctionOnSet(g, S) = g[x] + SumFunctionOnSet(g, S \ {x})
  BY SumRemove
<1>4. SumFunctionOnSet(f, S \ {x}) \in Nat
  BY <1>1, SumType
<1> QED BY <1>2, <1>3, <1>4

\* A part adds up to no more than the whole.
LEMMA SumSubset ==
    ASSUME NEW f, NEW S, IsFiniteSet(S), \A x \in S : f[x] \in Nat,
           NEW T, T \subseteq S
    PROVE  SumFunctionOnSet(f, T) <= SumFunctionOnSet(f, S)
<1> DEFINE Less(U) == SumFunctionOnSet(f, T) <= SumFunctionOnSet(f, U)
           B == {U \in SUBSET S : T \subseteq U /\ ~ Less(U)}
<1>1. SUFFICES ASSUME S \in B PROVE FALSE
  OBVIOUS
<1>2. PICK U \in B : \A V \in B : V \subseteq U => V = U
  <2>1. B \subseteq SUBSET S OBVIOUS
  <2>2. B # {} BY <1>1
  <2> HIDE DEF B
  <2> QED BY <2>1, <2>2, MinimalSubset
<1>3. /\ U \subseteq S /\ T \subseteq U /\ IsFiniteSet(U) /\ IsFiniteSet(T)
      /\ ~ (SumFunctionOnSet(f, T) <= SumFunctionOnSet(f, U))
  BY <1>2, FS_Subset
<1>4. T # U
  <2>1. SumFunctionOnSet(f, T) \in Nat
    BY <1>3, SumType
  <2> HIDE DEF B
  <2> QED BY <1>3, <2>1
<1>5. PICK x : x \in U \ T
  BY <1>3, <1>4
<1>6. SumFunctionOnSet(f, T) <= SumFunctionOnSet(f, U \ {x})
  BY <1>2, <1>3, <1>5
<1>7. SumFunctionOnSet(f, U) = f[x] + SumFunctionOnSet(f, U \ {x})
  <2>1. \A y \in U : f[y] \in Nat
    BY <1>3
  <2> HIDE DEF B
  <2> QED BY <1>3, <1>5, <2>1, SumRemove
<1>8. SumFunctionOnSet(f, U \ {x}) \in Nat /\ SumFunctionOnSet(f, T) \in Nat
  <2>1. IsFiniteSet(U \ {x})
    BY <1>3, FS_RemoveElement
  <2>2. \A y \in U : f[y] \in Nat
    BY <1>3
  <2> HIDE DEF B
  <2> QED BY <1>3, <2>1, <2>2, SumType
<1>9. f[x] \in Nat
  BY <1>3, <1>5
<1> HIDE DEF B
<1> QED BY <1>3, <1>6, <1>7, <1>8, <1>9

\* Elements whose value is zero may be left out.
LEMMA SumSupport ==
    ASSUME NEW f, NEW S, IsFiniteSet(S), \A x \in S : f[x] \in Nat,
           NEW T, T \subseteq S, \A x \in S \ T : f[x] = 0
    PROVE  SumFunctionOnSet(f, S) = SumFunctionOnSet(f, T)
<1> DEFINE Equal(U) == SumFunctionOnSet(f, U) = SumFunctionOnSet(f, T)
           B == {U \in SUBSET S : T \subseteq U /\ ~ Equal(U)}
<1>1. SUFFICES ASSUME S \in B PROVE FALSE
  OBVIOUS
<1>2. PICK U \in B : \A V \in B : V \subseteq U => V = U
  <2>1. B \subseteq SUBSET S OBVIOUS
  <2>2. B # {} BY <1>1
  <2> HIDE DEF B
  <2> QED BY <2>1, <2>2, MinimalSubset
<1>3. /\ U \subseteq S /\ T \subseteq U /\ IsFiniteSet(U) /\ IsFiniteSet(T)
      /\ SumFunctionOnSet(f, U) # SumFunctionOnSet(f, T)
  BY <1>2, FS_Subset
<1>4. T # U
  <2>1. SumFunctionOnSet(f, T) \in Nat
    BY <1>3, SumType
  <2> HIDE DEF B
  <2> QED BY <1>3, <2>1
<1>5. PICK x : x \in U \ T
  BY <1>3, <1>4
<1>6. SumFunctionOnSet(f, U \ {x}) = SumFunctionOnSet(f, T)
  BY <1>2, <1>3, <1>5
<1>7. SumFunctionOnSet(f, U) = f[x] + SumFunctionOnSet(f, U \ {x})
  <2>1. \A y \in U : f[y] \in Nat
    BY <1>3
  <2> HIDE DEF B
  <2> QED BY <1>3, <1>5, <2>1, SumRemove
<1>8. SumFunctionOnSet(f, U \ {x}) \in Nat /\ SumFunctionOnSet(f, T) \in Nat
  <2>1. IsFiniteSet(U \ {x})
    BY <1>3, FS_RemoveElement
  <2>2. \A y \in U : f[y] \in Nat
    BY <1>3
  <2> HIDE DEF B
  <2> QED BY <1>3, <2>1, <2>2, SumType
<1>9. f[x] = 0
  BY <1>3, <1>5
<1> HIDE DEF B
<1> QED BY <1>3, <1>6, <1>7, <1>8, <1>9
-----------------------------------------------------------------------------
(* The inductive invariant. *)

Holds == [h \in Handler |-> up[h].hold]
Staged == [h \in Handler |-> up[h].staged]
Quota == upset = {} /\ ~ Unlimited(policy.storage)
Walking(h) == up[h].pc \in {"admission", "publication"}

\* What the second check of an upload found stays true until the file is renamed,
\* of the policy it read then.
Checked(h) ==
    /\ up[h].policy.enabled /\ Exists(up[h].path)
    /\ up[h].oid \notin repos[up[h].path]
    /\ Fits(up[h].staged, up[h].policy.object)

\* One upload, in terms of its own progress.
Upright(h) ==
    /\ lock = h <=> Walking(h)
    /\ up[h].left # {} => Walking(h)
    /\ Walking(h) => up[h].policy \in ruling
    /\ up[h].pc # "idle" => up[h].path \in Path /\ up[h].oid \in OID
    /\ up[h].pc \in {"idle", "arrived", "admission"} => up[h].hold = 0 /\ up[h].staged = 0
    /\ up[h].pc \in {"received", "publication"} => up[h].staged = Size[up[h].oid]
    /\ up[h].pc = "publication" => Checked(h)
    /\ Quota /\ up[h].pc = "admission" => up[h].policy.storage = policy.storage
    /\ Quota /\ up[h].pc = "staging" => up[h].limit = up[h].hold
    /\ Quota /\ up[h].pc # "cleanup" => up[h].staged <= up[h].hold

\* A walk never falls behind what is stored: what it has added up and what it has
\* still to visit cover everything, unless a repository was renamed past it.  Where
\* the policy that was read sets no quota there is no walk.
Covered(u) ==
    ~ Unlimited(u.policy.storage) => Usage <= u.usage + SumFunctionOnSet(Stored, u.left)
WalkCovers == "rename" \notin upset => \A h \in Handler : lock = h => Covered(up[h])

\* What is stored and what is reserved fit together.
RoomKept == Quota => Usage + reserved <= policy.storage

IInv ==
    /\ TypeOK
    /\ \A h \in Handler : Upright(h)
    /\ WalkCovers
    /\ RoomKept
    /\ ReservationsReturned

-----------------------------------------------------------------------------
(* What is stored, as a function of the repositories. *)

StoredIn(r) == [p \in Path |-> IF r[p] # None THEN Bytes(r[p]) ELSE 0]
Total(r, L) == SumFunctionOnSet(StoredIn(r), L)
Repositories == [Path -> {None} \cup SUBSET OID]

\* Usage and Stored, now and after a step.
LEMMA UsageIsTotal ==
    /\ Usage = Total(repos, Path)
    /\ Usage' = Total(repos', Path)
    /\ Stored = StoredIn(repos)
    /\ Stored' = StoredIn(repos')
BY DEF Usage, Stored, Exists, StoredIn, Total, Bytes

\* Sizes are natural numbers, and so are their totals.
LEMMA BytesType ==
    ASSUME NEW S, S \subseteq OID
    PROVE  Bytes(S) \in Nat
<1>1. IsFiniteSet(S)
  BY LfsAssumption, FS_Subset
<1>2. \A o \in S : Size[o] \in Nat
  BY LfsAssumption
<1> QED BY <1>1, <1>2, SumType DEF Bytes

LEMMA StoredInType ==
    ASSUME NEW r \in Repositories, NEW p \in Path
    PROVE  StoredIn(r)[p] \in Nat
<1>1. r[p] = None \/ r[p] \subseteq OID
  BY DEF Repositories
<1> QED BY <1>1, BytesType DEF StoredIn

LEMMA TotalType ==
    ASSUME NEW r \in Repositories, NEW L, L \subseteq Path
    PROVE  Total(r, L) \in Nat
<1>1. IsFiniteSet(L)
  BY LfsAssumption, FS_Subset
<1> QED BY <1>1, StoredInType, SumType DEF Total

\* A change of one repository changes the totals it is counted in.
LEMMA TotalChange ==
    ASSUME NEW r \in Repositories, NEW s \in Repositories, NEW p \in Path,
           \A q \in Path \ {p} : s[q] = r[q],
           NEW L, L \subseteq Path
    PROVE  Total(s, L) = IF p \in L THEN Total(r, L) - StoredIn(r)[p] + StoredIn(s)[p]
                         ELSE Total(r, L)
<1>1. IsFiniteSet(L)
  BY LfsAssumption, FS_Subset
<1>2. \A q \in L : StoredIn(r)[q] \in Nat /\ StoredIn(s)[q] \in Nat
  BY StoredInType
<1>3. \A q \in L \ {p} : StoredIn(s)[q] = StoredIn(r)[q]
  BY DEF StoredIn
<1>4. CASE p \in L
  BY <1>1, <1>2, <1>3, <1>4, SumChange DEF Total
<1>5. CASE p \notin L
  BY <1>1, <1>2, <1>3, <1>5, SumEqual DEF Total
<1> QED BY <1>4, <1>5

\* Names without a repository count nothing.
LEMMA TotalOfExisting ==
    ASSUME NEW r \in Repositories
    PROVE  Total(r, Path) = Total(r, {p \in Path : r[p] # None})
<1> DEFINE T == {p \in Path : r[p] # None}
<1>1. T \subseteq Path /\ IsFiniteSet(Path)
  BY LfsAssumption
<1>2. \A p \in Path \ T : StoredIn(r)[p] = 0
  BY DEF StoredIn
<1>3. \A p \in Path : StoredIn(r)[p] \in Nat
  BY StoredInType
<1> HIDE DEF T
<1>4. Total(r, Path) = Total(r, T)
  BY <1>1, <1>2, <1>3, SumSupport DEF Total
<1> QED BY <1>4 DEF T

\* A visit moves one repository from what is left to what is added up.
LEMMA TotalVisit ==
    ASSUME NEW r \in Repositories, NEW L, L \subseteq Path, NEW p \in L
    PROVE  Total(r, L) = StoredIn(r)[p] + Total(r, L \ {p})
<1>1. IsFiniteSet(L)
  BY LfsAssumption, FS_Subset
<1> QED BY <1>1, StoredInType, SumRemove DEF Total

LEMMA TotalEmpty == ASSUME NEW r PROVE Total(r, {}) = 0
BY SumEmpty DEF Total

-----------------------------------------------------------------------------
(* What is reserved, as a function of the uploads. *)

HeldBy(u) == SumFunctionOnSet([h \in Handler |-> u[h].hold], Handler)

LEMMA ReservedIsHeld ==
    /\ ReservationsReturned <=> reserved = HeldBy(up)
    /\ ReservationsReturned' <=> reserved' = HeldBy(up')
BY DEF ReservationsReturned, HeldBy

\* A step of one upload changes what is held by what it takes or gives back.
LEMMA HeldChange ==
    ASSUME NEW u, NEW v, NEW h \in Handler,
           \A k \in Handler : u[k].hold \in Nat /\ v[k].hold \in Nat,
           \A k \in Handler \ {h} : v[k] = u[k]
    PROVE  /\ HeldBy(v) = HeldBy(u) - u[h].hold + v[h].hold
           /\ HeldBy(u) \in Nat /\ u[h].hold <= HeldBy(u)
<1> DEFINE f == [k \in Handler |-> u[k].hold]
           g == [k \in Handler |-> v[k].hold]
<1>1. \A k \in Handler : f[k] \in Nat /\ g[k] \in Nat
  OBVIOUS
<1>2. \A k \in Handler \ {h} : g[k] = f[k]
  OBVIOUS
<1>3. f[h] = u[h].hold /\ g[h] = v[h].hold
  OBVIOUS
<1>4. IsFiniteSet(Handler) /\ IsFiniteSet(Handler \ {h})
  BY LfsAssumption, FS_RemoveElement
<1>5. HeldBy(u) = SumFunctionOnSet(f, Handler) /\ HeldBy(v) = SumFunctionOnSet(g, Handler)
  BY DEF HeldBy
<1> HIDE DEF f, g
<1>6. SumFunctionOnSet(g, Handler) = SumFunctionOnSet(f, Handler) - f[h] + g[h]
  BY <1>1, <1>2, <1>4, SumChange
<1>7. /\ SumFunctionOnSet(f, Handler) = f[h] + SumFunctionOnSet(f, Handler \ {h})
      /\ SumFunctionOnSet(f, Handler) \in Nat
      /\ SumFunctionOnSet(f, Handler \ {h}) \in Nat
  BY <1>1, <1>4, SumRemove, SumType
<1> QED BY <1>1, <1>3, <1>5, <1>6, <1>7

-----------------------------------------------------------------------------
(* Numbers. *)

\* Natural numbers have a least one.
LEMMA MinIn ==
    ASSUME NEW S, S \subseteq Nat, S # {}
    PROVE  Min(S) \in S /\ \A n \in S : Min(S) <= n
<1>1. PICK m \in S : \A n \in S : ~ (<<n, m>> \in OpToRel(<, Nat))
  BY NatLessThanWellFounded, WFMin
<1>2. \A n \in S : m <= n
  <2> TAKE n \in S
  <2>1. n < m => <<n, m>> \in OpToRel(<, Nat)
    BY DEF OpToRel
  <2>2. ~ (n < m)
    BY <1>1, <2>1
  <2>3. n \in Nat /\ m \in Nat
    OBVIOUS
  <2> QED BY <2>2, <2>3
<1> QED BY <1>2 DEF Min

LEMMA MinPair ==
    ASSUME NEW a \in Nat, NEW b \in Nat
    PROVE  Min({a, b}) \in Nat /\ Min({a, b}) <= a /\ Min({a, b}) <= b
BY MinIn

LEMMA PolicyType ==
    ASSUME NEW p \in Policies
    PROVE  p.enabled \in BOOLEAN /\ p.object \in Nat /\ p.storage \in Nat
BY LfsAssumption

LEMMA StageLimitType ==
    ASSUME NEW read \in Policies
    PROVE  StageLimit(read) \in Nat
<1>1. read.object \in Nat /\ UploadLimit \in Nat
  BY PolicyType, LfsAssumption
<1> QED BY <1>1, MinPair DEF StageLimit

\* What can still be reserved.
LEMMA AvailableType ==
    ASSUME TypeOK, NEW q \in Nat, NEW u \in Nat
    PROVE  /\ Available(q, u) \in Nat
           /\ Available(q, u) # 0 => Available(q, u) = q - u - reserved
<1>1. reserved \in Nat
  BY DEF TypeOK
<1> QED BY <1>1 DEF Available

-----------------------------------------------------------------------------
(* The steps of one upload. *)

\* An upload takes and returns the lock for itself.
LockMine(h) ==
    /\ lock' \in Handler \cup {None} /\ ruling' \subseteq Policies
    /\ \A k \in Handler \ {h} : (lock' = k <=> lock = k) /\ (lock = k => ruling' = ruling)

LEMMA LockSteps ==
    ASSUME TypeOK, NEW h \in Handler, Lock(h) \/ Unlock(h) \/ LockKept
    PROVE  LockMine(h)
BY LfsAssumption DEF TypeOK, Lock, Unlock, LockKept, LockMine

\* What one upload does leaves the others as they are: it waits for their locks.
LEMMA OthersUpright ==
    ASSUME TypeOK, \A k \in Handler : Upright(k), NEW h \in Handler,
           policy' = policy, upset' = upset, LockMine(h),
           \A k \in Handler \ {h} : up'[k] = up[k],
           repos' = repos \/ lock = h
    PROVE  \A k \in Handler \ {h} : Upright(k)'
<1> TAKE k \in Handler \ {h}
<1>1. /\ Upright(k) /\ up'[k] = up[k] /\ (lock' = k <=> lock = k)
      /\ lock = k => ruling' = ruling
  BY DEF LockMine
<1>2. up[k].pc = "publication" => repos' = repos
  BY <1>1 DEF Upright, Walking
<1>3. up[k].pc = "publication" => Checked(k)'
  BY <1>1, <1>2 DEF Upright, Checked, Exists, Fits, Unlimited
<1> QED BY <1>1, <1>3 DEF Upright, Walking, Quota, Unlimited

\* A step that stores nothing: what remains to be shown is what it makes of its
\* own upload, of its reservation and of its walk.
LEMMA ServeStep ==
    ASSUME IInv, NEW h \in Handler, NEW r \in Upload, Set(h, r),
           policy' = policy, upset' = upset, repos' = repos, LockMine(h),
           reserved' = reserved - up[h].hold + r.hold,
           Upright(h)',
           Quota => Usage + reserved' <= policy.storage,
           "rename" \notin upset /\ lock' = h => Covered(r)
    PROVE  IInv'
<1>1. up \in [Handler -> Upload] /\ up' \in [Handler -> Upload]
  BY DEF IInv, TypeOK, Set
<1>2. up'[h] = r /\ \A k \in Handler \ {h} : up'[k] = up[k]
  BY <1>1 DEF Set
<1>3. \A k \in Handler : up[k].hold \in Nat /\ up'[k].hold \in Nat
  BY <1>1 DEF Upload
<1>4. reserved = HeldBy(up)
  BY ReservedIsHeld DEF IInv
<1>5. /\ HeldBy(up') = HeldBy(up) - up[h].hold + r.hold
      /\ HeldBy(up) \in Nat /\ up[h].hold <= HeldBy(up)
  BY <1>2, <1>3, HeldChange
<1>6. reserved' = HeldBy(up') /\ reserved' \in Nat
  BY <1>2, <1>3, <1>4, <1>5
<1>7. ReservationsReturned'
  BY <1>6, ReservedIsHeld
<1>8. TypeOK'
  BY <1>1, <1>6 DEF IInv, TypeOK, LockMine
<1>9. \A k \in Handler : Upright(k)'
  BY <1>2, OthersUpright DEF IInv
<1>10. Usage' = Usage /\ Stored' = Stored
  BY UsageIsTotal
<1>11. RoomKept'
  BY <1>10 DEF RoomKept, Quota, Unlimited
<1>12. WalkCovers'
  <2> SUFFICES ASSUME "rename" \notin upset, NEW k \in Handler, lock' = k
               PROVE  Covered(up'[k])
    BY <1>10 DEF WalkCovers, Covered, Unlimited
  <2>1. CASE k = h
    BY <1>2, <2>1
  <2>2. CASE k # h
    BY <1>2, <2>2 DEF IInv, WalkCovers, LockMine
  <2> QED BY <2>1, <2>2
<1> QED BY <1>7, <1>8, <1>9, <1>11, <1>12 DEF IInv

LEMMA UprightType ==
    ASSUME IInv, NEW h \in Handler
    PROVE  /\ Upright(h) /\ up[h] \in Upload /\ lock \in Handler \cup {None}
           /\ reserved \in Nat /\ policy.storage \in Nat /\ policy.object \in Nat
           /\ repos \in Repositories /\ Usage \in Nat
           /\ Quota => Usage + reserved <= policy.storage
           /\ reserved - up[h].hold + up[h].hold = reserved
<1>1. policy.storage \in Nat /\ policy.object \in Nat
  BY PolicyType DEF IInv, TypeOK
<1>2. repos \in Repositories /\ up[h] \in Upload
  BY DEF IInv, TypeOK, Repositories
<1>3. Usage \in Nat
  BY <1>2, UsageIsTotal, TotalType
<1>4. reserved \in Nat /\ up[h].hold \in Nat
  BY <1>2 DEF IInv, TypeOK, Upload
<1> QED BY <1>1, <1>2, <1>3, <1>4 DEF IInv, RoomKept, TypeOK

LEMMA IdleType == Idle \in Upload
BY LfsAssumption DEF Idle, Upload, Chunked

\* An upload that ends gives back what it held and leaves nothing behind.
LEMMA EndStep ==
    ASSUME IInv, NEW h \in Handler, Set(h, Idle),
           policy' = policy, upset' = upset, repos' = repos, LockMine(h),
           lock' = None \/ (lock' = lock /\ lock # h),
           reserved' = reserved - up[h].hold
    PROVE  IInv'
<1>1. /\ lock' \in Handler \cup {None} /\ lock' # h
      /\ reserved' = reserved - up[h].hold + Idle.hold
      /\ Quota => Usage + reserved' <= policy.storage
  BY UprightType, LfsAssumption DEF Idle, Upload, LockMine
<1>2. up'[h] = Idle
  BY DEF IInv, TypeOK, Set
<1>3. Upright(h)'
  BY <1>1, <1>2 DEF Upright, Walking, Idle
<1> QED BY <1>1, <1>3, IdleType, ServeStep

LEMMA ArriveStep ==
    ASSUME IInv, NEW h \in Handler, Arrive(h), upset' = upset
    PROVE  IInv'
<1>1. PICK p \in Path, o \in OID, n \in {Chunked} \cup 0 .. MaxBody :
         Set(h, [Idle EXCEPT !.pc = "arrived", !.path = p, !.oid = o, !.length = n])
  BY DEF Arrive
<1> DEFINE r == [Idle EXCEPT !.pc = "arrived", !.path = p, !.oid = o, !.length = n]
<1>2. r \in Upload /\ r.pc = "arrived" /\ r.hold = 0 /\ r.staged = 0 /\ r.left = {}
      /\ r.path = p /\ r.oid = o
  <2>1. r \in Upload
    BY IdleType DEF Upload
  <2> QED BY <2>1 DEF Idle
<1>3. /\ Upright(h) /\ up[h].hold = 0 /\ lock # h /\ lock' = lock /\ reserved' = reserved
      /\ LockMine(h)
  BY UprightType, LockSteps DEF IInv, Arrive, Upright, Walking, LockKept
<1> HIDE DEF r
<1>4. up'[h] = r
  BY <1>1 DEF IInv, TypeOK, Set, r
<1>5. Upright(h)'
  BY <1>2, <1>3, <1>4 DEF Upright, Walking
<1> QED BY <1>1, <1>2, <1>3, <1>5, UprightType, ServeStep DEF Arrive, r

\* A walk that begins covers everything: what does not exist counts nothing.
LEMMA WalkBegins ==
    ASSUME IInv, NEW r, r.usage = 0,
           ~ Unlimited(r.policy.storage) => r.left = {p \in Path : Exists(p)}
    PROVE  Covered(r)
<1>1. repos \in Repositories
  BY DEF IInv, TypeOK, Repositories
<1>2. Usage = SumFunctionOnSet(Stored, {p \in Path : Exists(p)})
  BY <1>1, UsageIsTotal, TotalOfExisting DEF Total, Exists
<1>3. Usage \in Nat /\ Usage <= 0 + Usage
  BY <1>1, UsageIsTotal, TotalType
<1>4. ~ Unlimited(r.policy.storage) =>
        r.usage + SumFunctionOnSet(Stored, r.left) = 0 + Usage
  BY <1>2
<1> QED BY <1>3, <1>4 DEF Covered

\* The walk of an upload that takes the lock, with the policy it just read.
LEMMA WalkStarts ==
    ASSUME IInv, NEW h \in Handler, Lock(h), ~ Walking(h),
           NEW pc \in {"admission", "publication"}, StartWalk(h, pc, policy)
    PROVE  \E r \in Upload :
             /\ Set(h, r) /\ up'[h] = r /\ r.pc = pc /\ r.policy = policy /\ r.usage = 0
             /\ r.path = up[h].path /\ r.oid = up[h].oid /\ r.limit = up[h].limit
             /\ r.hold = up[h].hold /\ r.staged = up[h].staged
             /\ Covered(r) /\ lock' = h /\ ruling' = {policy} /\ LockMine(h)
<1> DEFINE r == [up[h] EXCEPT !.pc = pc, !.policy = policy, !.usage = 0,
                   !.left = IF Unlimited(policy.storage) THEN {}
                            ELSE {p \in Path : Exists(p)}]
<1>1. up[h] \in Upload /\ policy \in Policies
  BY UprightType DEF IInv, TypeOK
<1>2. /\ r \in Upload /\ r.pc = pc /\ r.policy = policy /\ r.usage = 0
      /\ r.path = up[h].path /\ r.oid = up[h].oid /\ r.limit = up[h].limit
      /\ r.hold = up[h].hold /\ r.staged = up[h].staged
      /\ ~ Unlimited(policy.storage) => r.left = {p \in Path : Exists(p)}
  BY <1>1 DEF Upload
<1>3. Set(h, r)
  BY DEF StartWalk
<1> HIDE DEF r
<1>4. up'[h] = r
  BY <1>3 DEF IInv, TypeOK, Set
<1>5. Covered(r)
  BY <1>2, WalkBegins
<1>6. lock' = h /\ ruling' = {policy} /\ LockMine(h)
  BY LockSteps DEF IInv, Lock
<1> QED BY <1>2, <1>3, <1>4, <1>5, <1>6

LEMMA AdmitStep ==
    ASSUME IInv, NEW h \in Handler, Admit(h), upset' = upset
    PROVE  IInv'
<1>1. /\ up[h].pc = "arrived" /\ lock = None /\ lock # h /\ ~ Walking(h)
      /\ policy' = policy /\ repos' = repos /\ reserved' = reserved
      /\ up[h] \in Upload /\ Upright(h) /\ up[h].hold = 0 /\ up[h].staged = 0
      /\ up[h].left = {} /\ policy \in Policies
  BY UprightType, LfsAssumption DEF Admit, Upright, Walking, IInv, TypeOK
<1>2. CASE Set(h, Idle) /\ LockKept
  <2>1. reserved' = reserved - up[h].hold /\ lock' = lock /\ LockMine(h)
    BY <1>1, <1>2, UprightType, LockSteps DEF IInv, LockKept
  <2> QED BY <1>1, <1>2, <2>1, EndStep
<1>3. CASE /\ Unlimited(policy.storage) /\ LockKept
           /\ Set(h, [up[h] EXCEPT !.pc = "staging", !.policy = policy,
                                   !.limit = StageLimit(policy)])
  <2> DEFINE r == [up[h] EXCEPT !.pc = "staging", !.policy = policy,
                                !.limit = StageLimit(policy)]
  <2>1. StageLimit(policy) \in Nat
    BY <1>1, StageLimitType
  <2>2. /\ r \in Upload /\ r.pc = "staging" /\ r.hold = 0 /\ r.staged = 0 /\ r.left = {}
        /\ r.path = up[h].path /\ r.oid = up[h].oid
    BY <1>1, <2>1 DEF Upload
  <2>3. up'[h] = r
    BY <1>3 DEF IInv, TypeOK, Set
  <2>4. Set(h, r) /\ lock' = lock /\ LockMine(h)
    BY <1>3, LockSteps DEF IInv, LockKept
  <2> HIDE DEF r
  <2>5. Upright(h)'
    BY <1>1, <1>3, <2>2, <2>3, <2>4 DEF Upright, Walking, Quota, Unlimited
  <2>6. reserved' = reserved - up[h].hold + r.hold /\ Quota => Usage + reserved' <= policy.storage
    BY <1>1, <2>2, UprightType
  <2> QED BY <1>1, <2>2, <2>4, <2>5, <2>6, UprightType, ServeStep
<1>4. CASE StartWalk(h, "admission", policy) /\ Lock(h)
  <2>1. PICK r \in Upload :
          /\ Set(h, r) /\ up'[h] = r /\ r.pc = "admission" /\ r.policy = policy /\ r.usage = 0
          /\ r.path = up[h].path /\ r.oid = up[h].oid
          /\ r.hold = up[h].hold /\ r.staged = up[h].staged
          /\ Covered(r) /\ lock' = h /\ ruling' = {policy} /\ LockMine(h)
    BY <1>1, <1>4, WalkStarts
  <2>2. Upright(h)'
    BY <1>1, <2>1 DEF Upright, Walking
  <2> QED BY <1>1, <2>1, <2>2, UprightType, ServeStep
<1> QED BY <1>2, <1>3, <1>4 DEF Admit

LEMMA WalkStep ==
    ASSUME IInv, NEW h \in Handler, Walk(h), upset' = upset
    PROVE  IInv'
<1> DEFINE p == Min(up[h].left)
           r == [up[h] EXCEPT !.left = @ \ {p}, !.usage = @ + Stored[p]]
<1>1. /\ up[h].left # {} /\ Set(h, r)
      /\ policy' = policy /\ repos' = repos /\ reserved' = reserved /\ lock' = lock
      /\ up[h] \in Upload /\ Upright(h) /\ repos \in Repositories
      /\ ruling' = ruling /\ LockMine(h)
  BY UprightType, LockSteps DEF IInv, Walk, LockKept
<1>2. up[h].left \subseteq Path /\ p \in up[h].left
  BY <1>1, MinIn, LfsAssumption DEF Upload
<1>3. Stored[p] \in Nat
  BY <1>1, <1>2, UsageIsTotal, StoredInType
<1> HIDE DEF p
<1>4. r \in Upload
  <2>1. up[h].usage + Stored[p] \in Nat /\ up[h].left \ {p} \in SUBSET Path
    BY <1>1, <1>2, <1>3 DEF Upload
  <2> QED BY <1>1, <2>1 DEF Upload
<1>5. /\ r.pc = up[h].pc /\ r.path = up[h].path /\ r.oid = up[h].oid /\ r.limit = up[h].limit
      /\ r.hold = up[h].hold /\ r.staged = up[h].staged
      /\ r.left = up[h].left \ {p} /\ r.usage = up[h].usage + Stored[p]
      /\ r.policy = up[h].policy /\ up[h].usage \in Nat
  BY <1>1 DEF Upload
<1>6. up'[h] = r
  BY <1>1 DEF IInv, TypeOK, Set
<1> HIDE DEF r
<1>7. Checked(h) => Checked(h)'
  BY <1>1, <1>5, <1>6 DEF Checked, Exists, Fits, Unlimited
<1>8. Upright(h)'
  BY <1>1, <1>5, <1>6, <1>7 DEF Upright, Walking, Quota, Unlimited
<1>9. SumFunctionOnSet(Stored, up[h].left) = Stored[p] + SumFunctionOnSet(Stored, r.left)
  BY <1>1, <1>2, <1>5, UsageIsTotal, TotalVisit DEF Total
<1>10. SumFunctionOnSet(Stored, r.left) \in Nat
  <2>1. r.left \subseteq Path
    BY <1>2, <1>5
  <2> QED BY <1>1, <2>1, UsageIsTotal, TotalType DEF Total
<1>11. "rename" \notin upset /\ lock = h => Covered(r)
  <2>1. "rename" \notin upset /\ lock = h => Covered(up[h])
    BY DEF IInv, WalkCovers
  <2>2. up[h].usage + SumFunctionOnSet(Stored, up[h].left) =
          r.usage + SumFunctionOnSet(Stored, r.left)
    BY <1>3, <1>5, <1>9, <1>10
  <2> QED BY <1>5, <2>1, <2>2 DEF Covered
<1> QED BY <1>1, <1>4, <1>5, <1>8, <1>11, UprightType, ServeStep

\* The walk that has ended has counted at least what is stored.
LEMMA WalkEnded ==
    ASSUME IInv, NEW h \in Handler, lock = h, Walked(h),
           "rename" \notin upset, ~ Unlimited(up[h].policy.storage)
    PROVE  Usage <= up[h].usage
<1>1. Usage <= up[h].usage + SumFunctionOnSet(Stored, {})
  BY DEF IInv, WalkCovers, Walked, Covered
<1>2. up[h].usage \in Nat
  BY UprightType DEF Upload
<1> QED BY <1>1, <1>2, SumEmpty

LEMMA ReserveStep ==
    ASSUME IInv, NEW h \in Handler, Reserve(h), upset' = upset
    PROVE  IInv'
<1> DEFINE quota == up[h].policy.storage
           available == Available(quota, up[h].usage)
           n == IF up[h].length = Chunked THEN Min({StageLimit(up[h].policy), available})
                ELSE up[h].length
           r == [up[h] EXCEPT !.pc = "staging", !.limit = n, !.hold = n, !.usage = 0]
<1>1. /\ up[h].pc = "admission" /\ Walked(h) /\ lock = h /\ lock' = None
      /\ policy' = policy /\ repos' = repos
      /\ up[h] \in Upload /\ Upright(h) /\ up[h].hold = 0 /\ up[h].staged = 0
      /\ up[h].left = {} /\ lock' # h /\ LockMine(h) /\ up[h].policy \in Policies
      /\ Quota => quota = policy.storage
  <2>1. /\ up[h].pc = "admission" /\ Walked(h) /\ Unlock(h)
        /\ policy' = policy /\ repos' = repos
    BY DEF Reserve
  <2>2. Upright(h) /\ ruling \subseteq Policies
    BY UprightType DEF IInv, TypeOK
  <2> QED BY <2>1, <2>2, UprightType, LockSteps, LfsAssumption DEF IInv, Unlock, Walked, Upright, Walking
<1>2. CASE Set(h, Idle) /\ UNCHANGED reserved
  <2>1. reserved' = reserved - up[h].hold
    BY <1>1, <1>2, UprightType
  <2> QED BY <1>1, <1>2, <2>1, EndStep
<1>3. CASE ~ (n > available) /\ Set(h, r) /\ reserved' = reserved + n
  <2>1. /\ StageLimit(up[h].policy) \in Nat /\ available \in Nat
        /\ available # 0 => available = quota - up[h].usage - reserved /\ quota \in Nat
        /\ up[h].usage \in Nat /\ reserved \in Nat /\ policy.storage \in Nat /\ Usage \in Nat
    <3>1. up[h].usage \in Nat /\ quota \in Nat
      BY <1>1, PolicyType DEF Upload
    <3> QED BY <1>1, <3>1, StageLimitType, AvailableType, UprightType DEF IInv
  <2> HIDE DEF available
  <2>2. n \in Nat
    <3>1. up[h].length = Chunked \/ up[h].length \in Nat
      BY <1>1, LfsAssumption DEF Upload
    <3> QED BY <2>1, <3>1, MinPair
  <2>3. n <= available
    BY <1>3, <2>1, <2>2
  <2> HIDE DEF n
  <2>4. /\ r \in Upload /\ r.pc = "staging" /\ r.hold = n /\ r.limit = n /\ r.staged = 0
        /\ r.left = {} /\ r.path = up[h].path /\ r.oid = up[h].oid
    BY <1>1, <2>2 DEF Upload
  <2>5. up'[h] = r
    BY <1>3 DEF IInv, TypeOK, Set
  <2> HIDE DEF r
  <2>6. Upright(h)'
    BY <1>1, <2>2, <2>4, <2>5 DEF Upright, Walking
  <2>7. Quota => Usage + reserved' <= policy.storage
    <3> SUFFICES ASSUME Quota PROVE Usage + reserved + n <= policy.storage
      BY <1>3, <2>1, <2>2
    <3>1. Usage <= up[h].usage
      BY <1>1, WalkEnded DEF Quota, Unlimited
    <3>2. Usage + reserved <= policy.storage
      BY UprightType
    <3>3. quota = policy.storage
      BY <1>1
    <3> HIDE DEF quota
    <3> QED BY <2>1, <2>2, <2>3, <3>1, <3>2, <3>3
  <2>8. reserved' = reserved - up[h].hold + r.hold
    BY <1>1, <1>3, <2>1, <2>2, <2>4
  <2> QED BY <1>1, <1>3, <2>4, <2>6, <2>7, <2>8, ServeStep
<1> QED BY <1>2, <1>3 DEF Reserve

LEMMA AdmitFailsStep ==
    ASSUME IInv, NEW h \in Handler, AdmitFails(h), upset' = upset
    PROVE  IInv'
<1>1. lock' = None /\ LockMine(h) /\ up[h].hold = 0
  BY UprightType, LockSteps DEF IInv, AdmitFails, Unlock, Upright
<1>2. reserved' = reserved - up[h].hold
  BY <1>1, UprightType DEF AdmitFails
<1> QED BY <1>1, <1>2, EndStep DEF AdmitFails

\* A step of an upload without the lock that changes where it is and what it has
\* received, and at most gives its reservation back.
LEMMA FreeStep ==
    ASSUME IInv, NEW h \in Handler, NEW r \in Upload, Set(h, r),
           policy' = policy, upset' = upset, repos' = repos, LockKept,
           ~ Walking(h), up[h].pc \notin {"idle", "arrived"},
           r.pc \in {"received", "cleanup", "removing", "releasing"}, r.left = {},
           r.path = up[h].path, r.oid = up[h].oid,
           r.pc = "received" => r.staged = Size[r.oid],
           Quota /\ r.pc # "cleanup" => r.staged <= r.hold,
           \/ r.hold = up[h].hold /\ reserved' = reserved
           \/ r.hold = 0 /\ reserved' = reserved - up[h].hold
    PROVE  IInv'
<1>1. /\ Upright(h) /\ up[h] \in Upload /\ lock # h /\ lock' = lock /\ LockMine(h)
      /\ reserved \in Nat /\ up[h].hold \in Nat
  BY UprightType, LockSteps DEF IInv, Upright, Upload, LockKept
<1>2. up'[h] = r
  BY DEF IInv, TypeOK, Set
<1>3. Upright(h)'
  BY <1>1, <1>2 DEF Upright, Walking, Quota, Unlimited
<1>4. reserved' = reserved - up[h].hold + r.hold
  BY <1>1
<1>5. Quota => Usage + reserved' <= policy.storage
  BY <1>1, UprightType
<1> QED BY <1>1, <1>3, <1>4, <1>5, ServeStep

LEMMA ReceiveStep ==
    ASSUME IInv, NEW h \in Handler, Receive(h), upset' = upset
    PROVE  IInv'
<1>1. PICK n \in 0 .. MaxBody :
         Set(h, [up[h] EXCEPT !.staged = Min({n, up[h].limit}),
                !.pc = IF n <= up[h].limit /\ n = Size[up[h].oid]
                       THEN "received" ELSE "removing"])
  BY DEF Receive
<1> DEFINE m == Min({n, up[h].limit})
           pc == IF n <= up[h].limit /\ n = Size[up[h].oid] THEN "received" ELSE "removing"
           r == [up[h] EXCEPT !.staged = m, !.pc = pc]
<1>2. up[h].pc = "staging" /\ ~ Walking(h) /\ Upright(h) /\ up[h] \in Upload
      /\ up[h].limit \in Nat /\ n \in Nat /\ MaxBody \in Nat /\ n <= MaxBody
      /\ up[h].left = {}
  BY UprightType, LfsAssumption DEF Receive, Walking, Upright, Upload
<1>3. /\ m \in 0 .. MaxBody /\ m <= up[h].limit /\ m <= n
      /\ n <= up[h].limit => m = n
  <2>1. m \in {n, up[h].limit} /\ m <= n /\ m <= up[h].limit
    BY <1>2, MinIn
  <2> HIDE DEF m
  <2> QED BY <1>2, <2>1
<1>4. Set(h, r)
  BY <1>1
<1>5. pc \in {"received", "removing"} /\ (pc = "received" => m = Size[up[h].oid])
  BY <1>3
<1> HIDE DEF m, pc
<1>6. /\ r \in Upload /\ r.pc = pc /\ r.staged = m /\ r.left = {} /\ r.hold = up[h].hold
      /\ r.path = up[h].path /\ r.oid = up[h].oid
  BY <1>2, <1>3, <1>5 DEF Upload
<1> HIDE DEF r
<1>7. Quota => r.staged <= r.hold
  BY <1>2, <1>3, <1>6 DEF Upright
<1> QED BY <1>2, <1>4, <1>5, <1>6, <1>7, FreeStep DEF Receive

LEMMA ReceiveFailsStep ==
    ASSUME IInv, NEW h \in Handler, ReceiveFails(h), upset' = upset
    PROVE  IInv'
<1>1. PICK n \in 0 .. MaxBody :
         n <= up[h].limit /\ Set(h, [up[h] EXCEPT !.staged = n, !.pc = "removing"])
  BY DEF ReceiveFails
<1> DEFINE r == [up[h] EXCEPT !.staged = n, !.pc = "removing"]
<1>2. up[h].pc = "staging" /\ ~ Walking(h) /\ Upright(h) /\ up[h] \in Upload
      /\ up[h].left = {}
  BY UprightType DEF ReceiveFails, Walking, Upright
<1>3. /\ r \in Upload /\ r.pc = "removing" /\ r.staged = n /\ r.left = {}
      /\ r.hold = up[h].hold /\ r.path = up[h].path /\ r.oid = up[h].oid
  BY <1>2 DEF Upload
<1>4. Set(h, r)
  BY <1>1
<1> HIDE DEF r
<1>5. Quota => r.staged <= r.hold
  BY <1>1, <1>2, <1>3 DEF Upright
<1> QED BY <1>2, <1>3, <1>4, <1>5, FreeStep DEF ReceiveFails

LEMMA RemoveStep ==
    ASSUME IInv, NEW h \in Handler, Remove(h), upset' = upset
    PROVE  IInv'
<1> DEFINE r == [up[h] EXCEPT !.staged = 0, !.pc = "releasing"]
<1>2. up[h].pc \in {"removing", "cleanup"} /\ ~ Walking(h) /\ Upright(h)
      /\ up[h] \in Upload /\ up[h].left = {} /\ up[h].hold \in Nat /\ Set(h, r)
  BY UprightType DEF Remove, Walking, Upright, Upload
<1>3. /\ r \in Upload /\ r.pc = "releasing" /\ r.staged = 0 /\ r.left = {}
      /\ r.hold = up[h].hold /\ r.path = up[h].path /\ r.oid = up[h].oid
  <2>1. 0 \in 0 .. MaxBody
    BY LfsAssumption
  <2> QED BY <1>2, <2>1 DEF Upload
<1> HIDE DEF r
<1> QED BY <1>2, <1>3, FreeStep DEF Remove

\* An upload that gives up keeps its reservation until its file is removed.
LEMMA GiveUpStep ==
    ASSUME IInv, NEW h \in Handler, up[h].pc = "received", GiveUp(h),
           policy' = policy, upset' = upset, repos' = repos, reserved' = reserved,
           LockKept
    PROVE  IInv'
<1> DEFINE r == [up[h] EXCEPT !.pc = "removing", !.policy = None, !.left = {}, !.usage = 0]
<1>1. Set(h, r) /\ up[h] \in Upload /\ Upright(h)
  BY UprightType DEF GiveUp
<1>2. /\ r \in Upload /\ r.pc = "removing" /\ r.staged = up[h].staged /\ r.left = {}
      /\ r.hold = up[h].hold /\ r.path = up[h].path /\ r.oid = up[h].oid
  BY <1>1 DEF Upload
<1> HIDE DEF r
<1>3. Quota => r.staged <= r.hold
  BY <1>1, <1>2 DEF Upright
<1>4. ~ Walking(h)
  BY DEF Walking
<1> QED BY <1>1, <1>2, <1>3, <1>4, FreeStep

LEMMA LockedStep ==
    ASSUME IInv, NEW h \in Handler, Locked(h), upset' = upset
    PROVE  IInv'
<1>1. /\ up[h].pc = "received" /\ lock = None /\ ~ Walking(h)
      /\ policy' = policy /\ repos' = repos
      /\ up[h] \in Upload /\ Upright(h) /\ up[h].left = {}
      /\ up[h].staged = Size[up[h].oid]
  BY UprightType DEF Locked, Upright, Walking
<1>2. CASE GiveUp(h) /\ LockKept /\ UNCHANGED reserved
  BY <1>1, <1>2, GiveUpStep
<1>3. CASE /\ Set(h, [up[h] EXCEPT !.pc = "cleanup", !.policy = None, !.hold = 0])
           /\ reserved' = reserved - up[h].hold /\ LockKept
  <2> DEFINE r == [up[h] EXCEPT !.pc = "cleanup", !.policy = None, !.hold = 0]
  <2>1. /\ r \in Upload /\ r.pc = "cleanup" /\ r.left = {} /\ r.hold = 0
        /\ r.path = up[h].path /\ r.oid = up[h].oid
    BY <1>1 DEF Upload
  <2>2. Set(h, r)
    BY <1>3
  <2> HIDE DEF r
  <2> QED BY <1>1, <1>3, <2>1, <2>2, FreeStep
<1>4. CASE /\ Admissible(h, policy) /\ up[h].oid \notin repos[up[h].path]
           /\ StartWalk(h, "publication", policy) /\ Lock(h) /\ UNCHANGED reserved
  <2>1. PICK r \in Upload :
          /\ Set(h, r) /\ up'[h] = r /\ r.pc = "publication" /\ r.policy = policy /\ r.usage = 0
          /\ r.path = up[h].path /\ r.oid = up[h].oid
          /\ r.hold = up[h].hold /\ r.staged = up[h].staged
          /\ Covered(r) /\ lock' = h /\ ruling' = {policy} /\ LockMine(h)
    BY <1>1, <1>4, WalkStarts
  <2>2. Checked(h)'
    BY <1>1, <1>4, <2>1 DEF Checked, Admissible, Exists, Fits, Unlimited
  <2>3. Upright(h)'
    BY <1>1, <2>1, <2>2 DEF Upright, Walking, Quota, Unlimited
  <2>4. reserved' = reserved - up[h].hold + r.hold /\ (Quota => Usage + reserved' <= policy.storage)
    BY <1>4, <2>1, UprightType
  <2> QED BY <1>1, <2>1, <2>3, <2>4, ServeStep
<1> QED BY <1>2, <1>3, <1>4 DEF Locked, CurrentPolicy

LEMMA PublishFailsStep ==
    ASSUME IInv, NEW h \in Handler, PublishFails(h), upset' = upset
    PROVE  IInv'
<1> DEFINE r == [up[h] EXCEPT !.pc = "removing", !.policy = None, !.left = {}, !.usage = 0]
<1>1. /\ Set(h, r) /\ up[h] \in Upload /\ Upright(h) /\ up[h].pc = "publication"
      /\ lock = h /\ lock' = None /\ lock' # h /\ LockMine(h)
  BY UprightType, LfsAssumption, LockSteps DEF IInv, PublishFails, GiveUp, Unlock
<1>2. /\ r \in Upload /\ r.pc = "removing" /\ r.staged = up[h].staged /\ r.left = {}
      /\ r.hold = up[h].hold /\ r.path = up[h].path /\ r.oid = up[h].oid
  BY <1>1 DEF Upload
<1> HIDE DEF r
<1>3. up'[h] = r
  BY <1>1 DEF IInv, TypeOK, Set
<1>4. Upright(h)'
  BY <1>1, <1>2, <1>3 DEF PublishFails, Upright, Walking, Quota, Unlimited
<1> QED BY <1>1, <1>2, <1>4, UprightType, ServeStep DEF PublishFails

LEMMA ReleaseStep ==
    ASSUME IInv, NEW h \in Handler, Release(h), upset' = upset
    PROVE  IInv'
<1>1. lock # h /\ lock' = lock /\ LockMine(h)
  BY UprightType, LockSteps DEF IInv, Release, Upright, Walking, LockKept
<1> QED BY <1>1, EndStep DEF Release

\* What publication stores: the received file, in the repository that was named.
LEMMA PublishStores ==
    ASSUME IInv, NEW h \in Handler, Publish(h)
    PROVE  /\ up[h].path \in Path /\ up[h].oid \in OID /\ lock = h /\ Checked(h)
           /\ repos' \in Repositories
           /\ Usage' = Usage + up[h].staged
           /\ up[h].staged = Size[up[h].oid]
<1> DEFINE p == up[h].path
           o == up[h].oid
<1>1. /\ Upright(h) /\ up[h] \in Upload /\ repos \in Repositories /\ up[h].pc = "publication"
  BY UprightType DEF Publish
<1>2. /\ p \in Path /\ o \in OID /\ lock = h /\ Checked(h) /\ up[h].staged = Size[o]
      /\ o \notin repos[p] /\ repos[p] # None
  BY <1>1 DEF Upright, Walking, Checked, Exists
<1>3. /\ repos[p] \subseteq OID /\ repos' = [repos EXCEPT ![p] = repos[p] \cup {o}]
  BY <1>1, <1>2 DEF Publish, Repositories
<1> HIDE DEF p, o
<1>4. repos' \in Repositories /\ repos'[p] = repos[p] \cup {o} /\ repos'[p] # None
  BY <1>1, <1>2, <1>3, LfsAssumption DEF Repositories
<1>5. StoredIn(repos')[p] = StoredIn(repos)[p] + Size[o]
  <2>1. IsFiniteSet(repos[p])
    BY <1>3, LfsAssumption, FS_Subset
  <2>2. \A x \in repos[p] \cup {o} : Size[x] \in Nat
    BY <1>2, <1>3, LfsAssumption
  <2>3. Bytes(repos[p] \cup {o}) = Size[o] + Bytes(repos[p])
    BY <1>2, <2>1, <2>2, SumInsert DEF Bytes
  <2>4. Bytes(repos[p]) \in Nat /\ Size[o] \in Nat
    BY <1>3, <2>2, BytesType
  <2>5. StoredIn(repos')[p] = Bytes(repos'[p]) /\ StoredIn(repos)[p] = Bytes(repos[p])
    BY <1>2, <1>4 DEF StoredIn
  <2> QED BY <1>4, <2>3, <2>4, <2>5
<1>6. Total(repos', Path) = Total(repos, Path) - StoredIn(repos)[p] + StoredIn(repos')[p]
  <2>1. \A q \in Path \ {p} : repos'[q] = repos[q]
    BY <1>1, <1>3 DEF Repositories
  <2> QED BY <1>1, <1>2, <1>4, <2>1, TotalChange
<1>7. Total(repos, Path) \in Nat /\ StoredIn(repos)[p] \in Nat /\ Size[o] \in Nat
  BY <1>1, <1>2, TotalType, StoredInType, LfsAssumption
<1>8. Usage' = Usage + up[h].staged
  BY <1>2, <1>5, <1>6, <1>7, UsageIsTotal
<1> QED BY <1>2, <1>4, <1>8 DEF p, o

LEMMA PublishStep ==
    ASSUME IInv, NEW h \in Handler, Publish(h), upset' = upset
    PROVE  IInv'
<1>1. /\ up[h].pc = "publication" /\ lock = h /\ lock' = None
      /\ policy' = policy /\ reserved' = reserved - up[h].hold
      /\ up[h] \in Upload /\ Upright(h) /\ lock' # h /\ LockMine(h)
  BY UprightType, LfsAssumption, LockSteps DEF IInv, Publish, Unlock
<1>2. up \in [Handler -> Upload] /\ up' \in [Handler -> Upload]
  BY IdleType DEF IInv, TypeOK, Set, Publish
<1>3. up'[h] = Idle /\ \A k \in Handler \ {h} : up'[k] = up[k]
  BY <1>2 DEF Set, Publish
<1>4. \A k \in Handler : up[k].hold \in Nat /\ up'[k].hold \in Nat
  BY <1>2 DEF Upload
<1>5. /\ HeldBy(up') = HeldBy(up) - up[h].hold + Idle.hold
      /\ HeldBy(up) \in Nat /\ up[h].hold <= HeldBy(up)
  BY <1>3, <1>4, HeldChange
<1>6. reserved = HeldBy(up)
  BY ReservedIsHeld DEF IInv
<1>7. reserved' = HeldBy(up') /\ reserved' \in Nat
  BY <1>1, <1>4, <1>5, <1>6 DEF Idle
<1>8. ReservationsReturned'
  BY <1>7, ReservedIsHeld
<1>9. TypeOK'
  BY <1>1, <1>2, <1>7, PublishStores DEF IInv, TypeOK, Repositories, LockMine
<1>10. \A k \in Handler : Upright(k)'
  <2>1. Upright(h)'
    BY <1>1, <1>3 DEF Upright, Walking, Idle
  <2> QED BY <1>1, <1>3, <2>1, OthersUpright DEF IInv
<1>11. WalkCovers'
  BY <1>1, LfsAssumption DEF WalkCovers
<1>12. RoomKept'
  <2> SUFFICES ASSUME Quota
               PROVE  Usage' + reserved' <= policy.storage
    BY <1>1 DEF RoomKept, Quota, Unlimited
  <2>1. up[h].staged <= up[h].hold
    BY <1>1 DEF Upright
  <2>2. Usage' = Usage + up[h].staged
    BY PublishStores
  <2>3. up[h].staged \in Nat /\ up[h].hold \in Nat
    BY <1>1, LfsAssumption DEF Upload
  <2> QED BY <1>1, <2>1, <2>2, <2>3, UprightType
<1> QED BY <1>8, <1>9, <1>10, <1>11, <1>12 DEF IInv

-----------------------------------------------------------------------------
(* The steps of the rest of the group. *)

\* A push to control.git may come at any moment: what an upload has read is then one
\* of the policies since it took the lock, and a new quota is no longer accounted for.
LEMMA SetPolicyStep ==
    ASSUME IInv, SetPolicy
    PROVE  IInv'
<1>1. /\ lock' = lock /\ up' = up /\ repos' = repos /\ reserved' = reserved
      /\ policy' \in Policies
      /\ ruling' \subseteq Policies /\ (lock # None => ruling \subseteq ruling')
      /\ policy'.storage # policy.storage => upset' # {}
      /\ upset \subseteq upset' /\ upset' \subseteq {"quota", "rename"}
  BY DEF SetPolicy, IInv, TypeOK
<1>2. Usage' = Usage /\ Stored' = Stored
  BY <1>1, UsageIsTotal
<1>3. Quota' => Quota /\ policy'.storage = policy.storage
  BY <1>1 DEF Quota, Unlimited
<1>4. TypeOK'
  BY <1>1 DEF IInv, TypeOK
<1>5. \A h \in Handler : Upright(h)'
  <2> TAKE h \in Handler
  <2>1. Upright(h)
    BY DEF IInv
  <2>2. Checked(h) => Checked(h)'
    BY <1>1 DEF Checked, Exists, Fits, Unlimited
  <2>3. Walking(h) => up[h].policy \in ruling'
    BY <1>1, <2>1, LfsAssumption DEF Upright
  <2> QED BY <1>1, <1>3, <2>1, <2>2, <2>3 DEF Upright, Walking
<1>6. WalkCovers'
  BY <1>1, <1>2 DEF IInv, WalkCovers, Covered, Unlimited
<1>7. RoomKept'
  BY <1>1, <1>2, <1>3 DEF IInv, RoomKept
<1>8. ReservationsReturned'
  BY <1>1, ReservedIsHeld DEF IInv
<1> QED BY <1>4, <1>5, <1>6, <1>7, <1>8 DEF IInv

\* A step of the repositories, none of which an upload has locked, that adds
\* nothing to what is stored and takes nothing away that a walk still counts on.
LEMMA RepositoryStep ==
    ASSUME IInv, repos' \in Repositories, upset \subseteq upset',
           upset' \subseteq {"quota", "rename"},
           policy' = policy, reserved' = reserved, LockKept, up' = up,
           \A h \in Handler : up[h].pc = "publication" =>
               repos'[up[h].path] = repos[up[h].path],
           Usage' <= Usage,
           "rename" \notin upset' => \A h \in Handler :
               Usage' - SumFunctionOnSet(Stored', up[h].left)
                   <= Usage - SumFunctionOnSet(Stored, up[h].left)
    PROVE  IInv'
<1>1. TypeOK'
  BY DEF IInv, TypeOK, Repositories, LockKept
<1>2. Quota' => Quota
  BY DEF Quota, Unlimited
<1>3. \A h \in Handler : Upright(h)'
  <2> TAKE h \in Handler
  <2>1. Upright(h)
    BY DEF IInv
  <2>2. up[h].pc = "publication" => Checked(h)'
    BY <2>1 DEF Upright, Checked, Exists, Fits, Unlimited
  <2> QED BY <1>2, <2>1, <2>2 DEF Upright, Walking, LockKept
<1>4. Usage \in Nat /\ Usage' \in Nat /\ reserved \in Nat /\ policy.storage \in Nat
  BY UsageIsTotal, TotalType, PolicyType DEF IInv, TypeOK, Repositories
<1>5. RoomKept'
  BY <1>2, <1>4 DEF IInv, RoomKept
<1>6. WalkCovers'
  <2> SUFFICES ASSUME "rename" \notin upset', NEW h \in Handler, lock = h,
                      ~ Unlimited(up[h].policy.storage)
               PROVE  Usage' <= up[h].usage + SumFunctionOnSet(Stored', up[h].left)
    BY DEF WalkCovers, Covered, Unlimited, LockKept
  <2>1. Usage <= up[h].usage + SumFunctionOnSet(Stored, up[h].left)
    BY DEF IInv, WalkCovers, Covered
  <2>2. up[h].left \subseteq Path /\ up[h].usage \in Nat
    BY UprightType DEF Upload
  <2>3. /\ SumFunctionOnSet(Stored, up[h].left) \in Nat
        /\ SumFunctionOnSet(Stored', up[h].left) \in Nat
    BY <2>2, UsageIsTotal, TotalType DEF IInv, TypeOK, Repositories, Total
  <2> QED BY <1>4, <2>1, <2>2, <2>3
<1>7. ReservationsReturned'
  BY ReservedIsHeld DEF IInv
<1> QED BY <1>1, <1>3, <1>5, <1>6, <1>7 DEF IInv

\* A repository appears without objects, or goes with those it had.
LEMMA OneRepositoryStep ==
    ASSUME IInv, NEW p \in Path, CreateRepository(p) \/ DeleteRepository(p),
           upset' = upset
    PROVE  IInv'
<1>1. PICK v \in {None, {}} : repos' = [repos EXCEPT ![p] = v]
  BY DEF CreateRepository, DeleteRepository
<1>2. /\ repos \in Repositories /\ repos' \in Repositories /\ repos'[p] = v
      /\ \A q \in Path \ {p} : repos'[q] = repos[q]
  BY <1>1 DEF IInv, TypeOK, Repositories
<1>3. StoredIn(repos')[p] = 0
  BY <1>2, SumEmpty DEF StoredIn, Bytes
<1>4. StoredIn(repos)[p] \in Nat
  BY <1>2, StoredInType
<1>5. Usage' = Usage - StoredIn(repos)[p] /\ Usage \in Nat
  <2>1. Total(repos', Path) = Total(repos, Path) - StoredIn(repos)[p] + StoredIn(repos')[p]
    BY <1>2, TotalChange
  <2>2. Total(repos, Path) \in Nat
    BY <1>2, TotalType
  <2> QED BY <1>3, <1>4, <2>1, <2>2, UsageIsTotal
<1>6. \A h \in Handler : Usage' - SumFunctionOnSet(Stored', up[h].left)
                           <= Usage - SumFunctionOnSet(Stored, up[h].left)
  <2> TAKE h \in Handler
  <2>1. up[h].left \subseteq Path
    BY UprightType DEF Upload
  <2>2. Total(repos', up[h].left) =
          IF p \in up[h].left
          THEN Total(repos, up[h].left) - StoredIn(repos)[p] + StoredIn(repos')[p]
          ELSE Total(repos, up[h].left)
    BY <1>2, <2>1, TotalChange
  <2>3. Total(repos, up[h].left) \in Nat
    BY <1>2, <2>1, TotalType
  <2>4. Usage' - Total(repos', up[h].left) <= Usage - Total(repos, up[h].left)
    BY <1>3, <1>4, <1>5, <2>2, <2>3
  <2> QED BY <2>4, UsageIsTotal DEF Total
<1>7. \A h \in Handler : up[h].pc = "publication" =>
        repos'[up[h].path] = repos[up[h].path]
  <2> SUFFICES ASSUME NEW h \in Handler, up[h].pc = "publication"
               PROVE  up[h].path # p /\ up[h].path \in Path
    BY <1>2
  <2>1. Upright(h) /\ Exists(up[h].path)
    BY UprightType DEF Upright, Checked
  <2> QED BY <2>1 DEF Upright, CreateRepository, DeleteRepository, Held
<1>8. Usage' <= Usage
  BY <1>4, <1>5
<1>9. upset' \subseteq {"quota", "rename"}
  BY DEF IInv, TypeOK
<1> QED
  BY <1>2, <1>6, <1>7, <1>8, <1>9, RepositoryStep DEF CreateRepository, DeleteRepository

\* A renamed repository is counted under its new name, unless a walk has still to
\* visit the old one.
LEMMA RenameStep ==
    ASSUME IInv, NEW p \in Path, NEW q \in Path, RenameRepository(p, q)
    PROVE  IInv'
<1>1. repos \in Repositories /\ p # q /\ repos[p] # None /\ repos[q] = None
  BY UprightType DEF RenameRepository, Exists, IInv, TypeOK, Repositories
<1>2. PICK m : m = [repos EXCEPT ![q] = repos[p]]
  OBVIOUS
<1>3. /\ m \in Repositories /\ m[q] = repos[p] /\ m[p] = repos[p]
      /\ \A x \in Path \ {q} : m[x] = repos[x]
  BY <1>1, <1>2 DEF Repositories
<1>4. repos' = [repos EXCEPT ![q] = repos[p], ![p] = None]
  BY DEF RenameRepository
<1>5. /\ repos' \in Repositories /\ repos'[p] = None
      /\ \A x \in Path \ {p} : repos'[x] = m[x]
  BY <1>1, <1>2, <1>3, <1>4 DEF Repositories
<1>6. /\ StoredIn(repos')[p] = 0 /\ StoredIn(repos)[q] = 0
      /\ StoredIn(m)[q] = StoredIn(repos)[p] /\ StoredIn(m)[p] = StoredIn(repos)[p]
      /\ StoredIn(repos)[p] \in Nat
  BY <1>1, <1>3, <1>5, StoredInType DEF StoredIn
<1>7. \A L : L \subseteq Path =>
        /\ Total(repos, L) \in Nat /\ Total(repos', L) \in Nat
        /\ p \notin L => Total(repos, L) <= Total(repos', L)
        /\ p \in L /\ q \in L => Total(repos', L) = Total(repos, L)
  <2> SUFFICES ASSUME NEW L, L \subseteq Path
               PROVE  /\ Total(repos, L) \in Nat /\ Total(repos', L) \in Nat
                      /\ p \notin L => Total(repos, L) <= Total(repos', L)
                      /\ p \in L /\ q \in L => Total(repos', L) = Total(repos, L)
    OBVIOUS
  <2>1. Total(m, L) = IF q \in L
                      THEN Total(repos, L) - StoredIn(repos)[q] + StoredIn(m)[q]
                      ELSE Total(repos, L)
    BY <1>1, <1>3, TotalChange
  <2>2. Total(repos', L) = IF p \in L
                           THEN Total(m, L) - StoredIn(m)[p] + StoredIn(repos')[p]
                           ELSE Total(m, L)
    BY <1>3, <1>5, TotalChange
  <2>3. Total(repos, L) \in Nat /\ Total(repos', L) \in Nat
    BY <1>1, <1>5, TotalType
  <2> QED BY <1>6, <2>1, <2>2, <2>3
<1>8. Usage' = Usage /\ Usage \in Nat
  BY <1>7, UsageIsTotal
<1>9. "rename" \notin upset' => \A h \in Handler :
        Usage' - SumFunctionOnSet(Stored', up[h].left)
            <= Usage - SumFunctionOnSet(Stored, up[h].left)
  <2> SUFFICES ASSUME "rename" \notin upset', NEW h \in Handler
               PROVE  Usage' - SumFunctionOnSet(Stored', up[h].left)
                        <= Usage - SumFunctionOnSet(Stored, up[h].left)
    OBVIOUS
  <2>1. up[h].left \subseteq Path /\ p \notin up[h].left
    BY UprightType DEF Upload, RenameRepository
  <2>2. /\ Total(repos, up[h].left) <= Total(repos', up[h].left)
        /\ Total(repos, up[h].left) \in Nat /\ Total(repos', up[h].left) \in Nat
    BY <1>7, <2>1
  <2>3. Usage' - Total(repos', up[h].left) <= Usage - Total(repos, up[h].left)
    BY <1>8, <2>2
  <2> QED BY <2>3, UsageIsTotal DEF Total
<1>10. \A h \in Handler : up[h].pc = "publication" =>
         repos'[up[h].path] = repos[up[h].path]
  <2> SUFFICES ASSUME NEW h \in Handler, up[h].pc = "publication"
               PROVE  up[h].path # p /\ up[h].path # q /\ up[h].path \in Path
    BY <1>3, <1>5
  <2>1. Upright(h) /\ Exists(up[h].path)
    BY UprightType DEF Upright, Checked
  <2> QED BY <2>1 DEF Upright, RenameRepository, Held
<1>11. upset \subseteq upset' /\ upset' \subseteq {"quota", "rename"}
  BY DEF RenameRepository, IInv, TypeOK
<1>12. Usage' <= Usage
  BY <1>8
<1> QED
  BY <1>5, <1>9, <1>10, <1>11, <1>12, RepositoryStep DEF RenameRepository

-----------------------------------------------------------------------------
(* The theorems. *)

LEMMA InitIInv == Init => IInv
<1> SUFFICES ASSUME Init PROVE IInv
  OBVIOUS
<1>1. TypeOK
  BY IdleType, LfsAssumption DEF Init, TypeOK
<1>2. \A h \in Handler : Upright(h)
  <2> TAKE h \in Handler
  <2>1. up[h] = Idle /\ lock # h
    BY LfsAssumption DEF Init
  <2> QED BY <2>1 DEF Upright, Walking, Idle
<1>3. WalkCovers
  BY LfsAssumption DEF Init, WalkCovers
<1>4. Usage = 0
  <2>1. repos \in Repositories
    BY <1>1 DEF TypeOK, Repositories
  <2>2. \A p \in Path : StoredIn(repos)[p] = 0
    <3> TAKE p \in Path
    <3>1. repos[p] = None \/ repos[p] = {}
      BY DEF Init
    <3> QED BY <3>1, SumEmpty DEF StoredIn, Bytes
  <2>3. IsFiniteSet(Path) /\ {} \subseteq Path
    BY LfsAssumption
  <2>4. Total(repos, Path) = Total(repos, {})
    BY <2>1, <2>2, <2>3, StoredInType, SumSupport DEF Total
  <2> QED BY <2>4, TotalEmpty, UsageIsTotal
<1>5. RoomKept
  <2>1. policy.storage \in Nat
    BY <1>1, PolicyType DEF TypeOK
  <2> QED BY <1>4, <2>1 DEF RoomKept, Init
<1>6. ReservationsReturned
  <2> DEFINE f == [h \in Handler |-> up[h].hold]
  <2>1. \A h \in Handler : f[h] = 0
    BY DEF Init, Idle
  <2>2. IsFiniteSet(Handler) /\ {} \subseteq Handler
    BY LfsAssumption
  <2> HIDE DEF f
  <2>3. SumFunctionOnSet(f, Handler) = SumFunctionOnSet(f, {})
    BY <2>1, <2>2, SumSupport
  <2>4. reserved = SumFunctionOnSet(f, Handler)
    BY <2>3, SumEmpty DEF Init
  <2> QED BY <2>4 DEF ReservationsReturned, f
<1> QED BY <1>1, <1>2, <1>3, <1>5, <1>6 DEF IInv

LEMMA ServeKeeps ==
    ASSUME IInv, NEW h \in Handler, Serve(h), upset' = upset
    PROVE  IInv'
<1>1. CASE Arrive(h) BY <1>1, ArriveStep
<1>2. CASE Admit(h) BY <1>2, AdmitStep
<1>3. CASE Walk(h) BY <1>3, WalkStep
<1>4. CASE Reserve(h) BY <1>4, ReserveStep
<1>5. CASE AdmitFails(h) BY <1>5, AdmitFailsStep
<1>6. CASE Receive(h) BY <1>6, ReceiveStep
<1>7. CASE ReceiveFails(h) BY <1>7, ReceiveFailsStep
<1>8. CASE Locked(h) BY <1>8, LockedStep
<1>9. CASE Forbidden(h) BY <1>9, GiveUpStep DEF Forbidden
<1>10. CASE Publish(h) BY <1>10, PublishStep
<1>11. CASE PublishFails(h) BY <1>11, PublishFailsStep
<1>12. CASE Remove(h) BY <1>12, RemoveStep
<1>13. CASE Release(h) BY <1>13, ReleaseStep
<1> QED BY <1>1, <1>2, <1>3, <1>4, <1>5, <1>6, <1>7, <1>8, <1>9, <1>10, <1>11, <1>12,
           <1>13 DEF Serve

LEMMA StutterKeeps ==
    ASSUME IInv, UNCHANGED vars
    PROVE  IInv'
<1>1. /\ policy' = policy /\ repos' = repos /\ reserved' = reserved /\ LockKept
      /\ up' = up /\ upset' = upset
  BY DEF vars, LockKept
<1>2. /\ repos' \in Repositories /\ upset' \subseteq {"quota", "rename"}
      /\ Usage' = Usage /\ Stored' = Stored
  BY <1>1, UsageIsTotal DEF IInv, TypeOK, Repositories
<1>3. Usage \in Nat /\ \A h \in Handler : SumFunctionOnSet(Stored, up[h].left) \in Nat
  BY UsageIsTotal, UprightType, TotalType DEF Upload, Total, IInv, TypeOK, Repositories
<1> QED BY <1>1, <1>2, <1>3, RepositoryStep

\* The inductive invariant: every upload is where its lock, its file and its
\* reservation say, a walk covers what is stored, what is stored and reserved
\* fits the quota, and the reservations add up.
THEOREM Invariance == Spec => []IInv
<1>1. IInv /\ [Next]_vars => IInv'
  <2> SUFFICES ASSUME IInv, [Next]_vars PROVE IInv'
    OBVIOUS
  <2>1. CASE \E h \in Handler : Serve(h) /\ UNCHANGED upset
    BY <2>1, ServeKeeps
  <2>2. CASE SetPolicy
    BY <2>2, SetPolicyStep
  <2>3. CASE \E p \in Path : (CreateRepository(p) \/ DeleteRepository(p)) /\ UNCHANGED upset
    BY <2>3, OneRepositoryStep
  <2>4. CASE \E p, q \in Path : RenameRepository(p, q)
    BY <2>4, RenameStep
  <2>5. CASE UNCHANGED vars
    BY <2>5, StutterKeeps
  <2> QED BY <2>1, <2>2, <2>3, <2>4, <2>5 DEF Next
<1> QED BY <1>1, InitIInv, PTL DEF Spec

\* The type invariant of the uploads, their lock and their reservations.
THEOREM TypeCorrect == Spec => []TypeOK
<1>1. IInv => TypeOK
  BY DEF IInv
<1> QED BY <1>1, Invariance, PTL

\* processUploadReservations is exact for any number of uploads, whichever way
\* each ends: it is the sum of what the open ones hold.
THEOREM ReservationsExact == Spec => []ReservationsReturned
<1>1. IInv => ReservationsReturned
  BY DEF IInv
<1> QED BY <1>1, Invariance, PTL

\* Published and staged bytes fit the quota of the root group together, for any
\* number of concurrent uploads, repositories and sizes.
THEOREM QuotaKept == Spec => []StagingWithinQuota
<1>1. IInv => StagingWithinQuota
  <2> SUFFICES ASSUME IInv, upset = {}, ~ Unlimited(policy.storage)
               PROVE  Usage + SumFunctionOnSet(
                        [h \in Handler |-> up[h].staged],
                        {h \in Handler : up[h].pc # "cleanup"}) <= policy.storage
    BY DEF StagingWithinQuota, Fits
  <2> DEFINE open == {h \in Handler : up[h].pc # "cleanup"}
             staged == [h \in Handler |-> up[h].staged]
             hold == [h \in Handler |-> up[h].hold]
  <2>1. \A h \in Handler : staged[h] \in Nat /\ hold[h] \in Nat
    BY UprightType, LfsAssumption DEF Upload
  <2>2. \A h \in open : staged[h] <= hold[h]
    BY UprightType DEF Upright, Quota
  <2>3. open \subseteq Handler
    OBVIOUS
  <2>4. IsFiniteSet(Handler) /\ IsFiniteSet(open)
    BY LfsAssumption, <2>3, FS_Subset
  <2>5. reserved = SumFunctionOnSet(hold, Handler)
    BY DEF IInv, ReservationsReturned
  <2>6. Usage + reserved <= policy.storage
    BY DEF IInv, RoomKept, Quota
  <2> HIDE DEF open, staged, hold
  <2>7. SumFunctionOnSet(staged, open) <= SumFunctionOnSet(hold, open)
    BY <2>1, <2>2, <2>3, <2>4, SumMonotone
  <2>8. SumFunctionOnSet(hold, open) <= SumFunctionOnSet(hold, Handler)
    BY <2>1, <2>3, <2>4, SumSubset
  <2>9. /\ SumFunctionOnSet(staged, open) \in Nat /\ SumFunctionOnSet(hold, open) \in Nat
        /\ SumFunctionOnSet(hold, Handler) \in Nat
    BY <2>1, <2>3, <2>4, SumType
  <2>10. Usage \in Nat /\ policy.storage \in Nat
    BY UsageIsTotal, TotalType, PolicyType DEF IInv, TypeOK, Repositories
  <2>11. Usage + SumFunctionOnSet(staged, open) <= policy.storage
    BY <2>5, <2>6, <2>7, <2>8, <2>9, <2>10
  <2> QED BY <2>11 DEF open, staged
<1> QED BY <1>1, Invariance, PTL

\* An object is renamed into its repository only as a policy allows that was in force
\* after the upload took the locks it publishes under, for any number of uploads and
\* of changes of the policy, whether they met the upload before or under its locks.
THEOREM PolicyAtPublication == Spec => PublishedUnderPolicy
<1> DEFINE Allowed(read) ==
         /\ read.enabled
         /\ "rename" \notin upset => Fits(Usage', read.storage)
         /\ \A p \in Path : Exists(p) =>
              \A o \in repos'[p] \ repos[p] : Fits(Size[o], read.object)
<1>1. ASSUME IInv, NEW h \in Handler, Publish(h)
      PROVE  up[h].policy \in ruling /\ Allowed(up[h].policy)
  <2>1. /\ lock = h /\ Checked(h) /\ Usage' = Usage + up[h].staged
        /\ up[h].staged = Size[up[h].oid] /\ up[h].path \in Path
    BY <1>1, PublishStores
  <2>2. up[h].policy \in ruling /\ up[h].policy \in Policies
    BY <1>1, <2>1, UprightType DEF Upright, IInv, TypeOK
  <2>3. "rename" \notin upset => Fits(Usage', up[h].policy.storage)
    <3> SUFFICES ASSUME "rename" \notin upset, ~ Unlimited(up[h].policy.storage)
                 PROVE  Usage' <= up[h].policy.storage
      BY DEF Fits
    <3>1. Usage <= up[h].usage
      BY <1>1, <2>1, WalkEnded DEF Publish
    <3>2. up[h].usage + up[h].staged <= up[h].policy.storage
      BY <1>1 DEF Publish, Roomy, Fits
    <3>3. /\ Usage \in Nat /\ up[h].usage \in Nat /\ up[h].staged \in Nat
          /\ up[h].policy.storage \in Nat
      BY <1>1, <2>2, UprightType, PolicyType, LfsAssumption DEF Upload
    <3> QED BY <2>1, <3>1, <3>2, <3>3
  <2>4. ASSUME NEW p \in Path, NEW o \in repos'[p] \ repos[p]
        PROVE  Fits(Size[o], up[h].policy.object)
    <3>1. p = up[h].path /\ o = up[h].oid
      BY <1>1, <2>1 DEF Publish, IInv, TypeOK
    <3> QED BY <2>1, <3>1 DEF Checked
  <2> QED BY <2>1, <2>2, <2>3, <2>4 DEF Checked
<1>2. IInv /\ [Next]_vars =>
        [(\E h \in Handler : Publish(h)) => \E read \in ruling : Allowed(read)]_vars
  BY <1>1
<1> QED BY <1>2, Invariance, PTL DEF Spec, PublishedUnderPolicy

================================================================================
