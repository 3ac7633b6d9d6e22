--------------------------- MODULE ReceivePackProofs ---------------------------
(***************************************************************************)
(* What ReceivePack promises, for any commits, files, packs and branches,  *)
(* and any number of commands in a push; and, in the second part, what     *)
(* ControlRepository promises of the repository whose pushes change the    *)
(* rights of a group.                                                      *)
(***************************************************************************)
EXTENDS ReceivePack, FiniteSetTheorems, TLAPS

\* Everything a clone of commit c downloads is among objects, and the LFS
\* objects it then asks for are stored.
Whole(c, objects) == \A d \in History(c, {}) : Readable(d, objects)

\* The references are whole although validation stops where they begin.
WholeRefs == \A c \in Referenced : Whole(c, live)
\* No reference moves before its objects are there ...
Waiting == pc \in {"received", "validated", "indexed"} => refs = before
Unapplied == pc \in {"idle", "received", "validated", "indexed"} => status = <<>>
Validated == pc \in {"validated", "indexed"} => Valid(live \cup push.pack)
WholePush ==
    pc = "promoted" =>
        \A i \in DOMAIN push.commands :
            push.commands[i].new # Zero => Whole(push.commands[i].new, live)
\* ... and then every reference is where the commands applied so far put it.
Applied ==
    pc \in {"promoted", "applied"} =>
        /\ \A r \in Ref : refs[r] = ValueAfter(r, Len(status))
        /\ \A i \in DOMAIN status : status[i] =>
              push.commands[i].old = ValueAfter(push.commands[i].ref, i - 1)

IInv ==
    TypeOK /\ WholeRefs /\ Waiting /\ Unapplied /\ Validated /\ WholePush /\ Applied

-----------------------------------------------------------------------------
(* Histories. *)

\* A walk goes on to every parent at which it does not stop.
LEMMA HistoryClosed ==
  ASSUME NEW c \in Commit, NEW stop, NEW d \in History(c, stop), NEW e \in Parents[d],
         e \notin stop
  PROVE  e \in History(c, stop)
  <1>1. d \in Commit /\ e \in Commit
    BY ReceiveAssumption DEF History
  <1>2. ASSUME NEW S \in SUBSET Commit, c \in S, Closed(S, stop)
        PROVE  e \in S
    <2>1. d \in S
      BY <1>2 DEF History
    <2> QED
      BY <2>1, <1>1, <1>2 DEF Closed
  <1> QED
    BY <1>1, <1>2 DEF History

\* A walk visits the commit it begins at.
LEMMA HistoryBegins ==
  ASSUME NEW c \in Commit, NEW stop, c \notin stop
  PROVE  c \in History(c, stop)
  BY DEF History

\* What a walk that stops at some commits does not visit belongs to the
\* histories of those commits: validation that stops at the references leaves
\* out only what the references reach.
LEMMA HistorySplit ==
  ASSUME NEW c \in Commit, NEW stop \in SUBSET Commit, NEW d \in History(c, {})
  PROVE  d \in History(c, stop) \/ \E s \in stop : d \in History(s, {})
  <1> DEFINE S == History(c, stop) \cup UNION {History(s, {}) : s \in stop}
  <1>1. S \in SUBSET Commit
    BY DEF History
  <1>2. c \in S
    BY HistoryBegins
  <1>3. ASSUME NEW e \in S \cap Commit, NEW p \in Parents[e]
        PROVE  p \in S
    <2>0. p \in Commit
      BY ReceiveAssumption
    <2>1. CASE e \in History(c, stop)
      <3>1. CASE p \in stop
        <4>1. p \in History(p, {})
          BY <2>0, HistoryBegins
        <4> QED
          BY <4>1, <3>1
      <3>2. CASE p \notin stop
        BY <2>1, <3>2, HistoryClosed
      <3> QED
        BY <3>1, <3>2
    <2>2. ASSUME NEW s \in stop, e \in History(s, {})
          PROVE  p \in S
      <3>1. p \in History(s, {})
        BY <2>2, HistoryClosed
      <3> QED
        BY <3>1
    <2> QED
      BY <2>1, <2>2
  <1>4. Closed(S, {})
    BY <1>3 DEF Closed
  <1>5. d \in S
    <2> HIDE DEF S
    <2> QED
      BY <1>1, <1>2, <1>4 DEF History
  <1> QED
    BY <1>5

-----------------------------------------------------------------------------
(* Whole commits. *)

LEMMA ReferencedType ==
  ASSUME TypeOK
  PROVE  Referenced \in SUBSET Commit
  BY DEF TypeOK, Referenced, Hash

\* More objects do no harm.
LEMMA WholeGrows ==
  ASSUME NEW c, NEW A, NEW B, A \subseteq B, Whole(c, A)
  PROVE  Whole(c, B)
  BY DEF Whole, Readable

\* The validation of a push reads only what no reference reaches, and its
\* commits are whole.
LEMMA ValidIsWhole ==
  ASSUME NEW objects, TypeOK, WholeRefs, live \subseteq objects, Valid(objects),
         NEW i \in DOMAIN push.commands, push.commands[i].new # Zero
  PROVE  Whole(push.commands[i].new, objects)
  <1> DEFINE new == push.commands[i].new
  <1>1. new \in Commit
    <2>1. push.commands[i] \in Command
      BY DEF TypeOK
    <2> QED
      BY <2>1 DEF Command, Hash
  <1>2. \A c \in History(new, Referenced) : Readable(c, objects)
    BY DEF Valid
  <1>3. \A c \in Referenced : Whole(c, objects)
    BY WholeGrows DEF WholeRefs
  <1>4. Referenced \in SUBSET Commit
    BY ReferencedType
  <1> HIDE DEF new
  <1>5. ASSUME NEW d \in History(new, {})
        PROVE  Readable(d, objects)
    <2>1. d \in History(new, Referenced) \/ \E s \in Referenced : d \in History(s, {})
      BY <1>1, <1>4, HistorySplit
    <2> QED
      BY <2>1, <1>2, <1>3 DEF Whole
  <1> QED
    BY <1>5 DEF Whole, new

\* Whole references are what RefsComplete asks for.
LEMMA WholeIsComplete ==
  ASSUME WholeRefs
  PROVE  RefsComplete
  <1>1. ASSUME NEW o \in Reachable
        PROVE  o \in live /\ (o \in Pointer => o \in stored)
    <2>1. PICK c \in Referenced : o \in History(c, {}) \cup UNION {Files[d] : d \in History(c, {})}
      BY DEF Reachable
    <2>2. \A d \in History(c, {}) : Readable(d, live)
      BY DEF WholeRefs, Whole
    <2>3. CASE o \in History(c, {})
      <3>1. o \in live
        BY <2>2, <2>3 DEF Readable
      <3>2. o \notin Pointer
        BY <2>3, ReceiveAssumption DEF History
      <3> QED
        BY <3>1, <3>2
    <2>4. ASSUME NEW d \in History(c, {}), o \in Files[d]
          PROVE  o \in live /\ (o \in Pointer => o \in stored)
      BY <2>2, <2>4 DEF Readable
    <2> QED
      BY <2>1, <2>3, <2>4
  <1> QED
    BY <1>1 DEF RefsComplete

\* Maintenance keeps what the references reach.
LEMMA MaintainedWhole ==
  ASSUME WholeRefs, NEW c \in Referenced
  PROVE  Whole(c, live \cap Reachable)
  <1>1. ASSUME NEW d \in History(c, {})
        PROVE  Readable(d, live \cap Reachable)
    <2>1. Readable(d, live)
      BY DEF WholeRefs, Whole
    <2>2. {d} \cup Files[d] \subseteq Reachable
      BY DEF Reachable
    <2> QED
      BY <2>1, <2>2 DEF Readable
  <1> QED
    BY <1>1 DEF Whole

-----------------------------------------------------------------------------
(* The report. *)

LEMMA MaxIs ==
  ASSUME NEW S \in SUBSET Int, NEW m \in S, \A y \in S : m >= y
  PROVE  Max(S) = m
  <1> DEFINE P(x) == x \in S /\ \A y \in S : x >= y
  <1>1. \E x : P(x)
    OBVIOUS
  <1>2. P(CHOOSE x : P(x))
    BY <1>1, Zenon
  <1>3. Max(S) = CHOOSE x : P(x)
    BY DEF Max
  <1>4. Max(S) \in S /\ \A y \in S : Max(S) >= y
    <2> HIDE DEF P
    <2>1. P(Max(S))
      BY <1>2, <1>3
    <2> QED
      BY <2>1 DEF P
  <1>5. Max(S) \in Int /\ m \in Int /\ Max(S) >= m /\ m >= Max(S)
    BY <1>4
  <1> HIDE DEF P
  <1> QED
    BY <1>5

LEMMA StatusAppended ==
  ASSUME TypeOK, NEW ok \in BOOLEAN, Apply(ok),
         NEW n \in Nat, n = Len(status)
  PROVE  /\ Len(status') = n + 1
         /\ status' \in Seq(BOOLEAN)
         /\ n + 1 \in DOMAIN push.commands
         /\ push.commands[n + 1] \in Command
         /\ \A i \in 1 .. n : status'[i] = status[i]
         /\ status'[n + 1] = ok
  <1>1. status \in Seq(BOOLEAN) /\ push.commands \in Seq(Command)
    BY DEF TypeOK
  <1>2. status' = Append(status, ok) /\ n < Len(push.commands)
    BY DEF Apply
  <1> QED
    BY <1>1, <1>2

\* The commands applied before count as they did.
LEMMA AppliedKept ==
  ASSUME TypeOK, NEW ok \in BOOLEAN, Apply(ok),
         NEW n \in Nat, n = Len(status), NEW r, NEW k \in 0 .. n
  PROVE  AppliedTo(r, k)' = AppliedTo(r, k)
  <1>1. push' = push
    BY DEF Apply
  <1>2. \A i \in 1 .. n : status'[i] = status[i]
    BY StatusAppended
  <1> QED
    BY <1>1, <1>2 DEF AppliedTo

LEMMA ValueKept ==
  ASSUME TypeOK, NEW ok \in BOOLEAN, Apply(ok),
         NEW n \in Nat, n = Len(status), NEW r, NEW k \in 0 .. n
  PROVE  ValueAfter(r, k)' = ValueAfter(r, k)
  <1>1. push' = push /\ before' = before
    BY DEF Apply
  <1>2. AppliedTo(r, k)' = AppliedTo(r, k)
    BY AppliedKept
  <1> QED
    BY <1>1, <1>2 DEF ValueAfter

\* A command that is applied decides the value of its reference and of no other.
LEMMA ValueApplied ==
  ASSUME TypeOK, NEW ok \in BOOLEAN, Apply(ok),
         NEW n \in Nat, n = Len(status), NEW r
  PROVE  /\ ok /\ push.commands[n + 1].ref = r =>
              ValueAfter(r, n + 1)' = push.commands[n + 1].new
         /\ ~(ok /\ push.commands[n + 1].ref = r) =>
              ValueAfter(r, n + 1)' = ValueAfter(r, n)
  <1>1. push' = push /\ before' = before
    BY DEF Apply
  <1>2. /\ \A i \in 1 .. n : status'[i] = status[i]
        /\ status'[n + 1] = ok
    BY StatusAppended
  <1>3. ASSUME ok, push.commands[n + 1].ref = r
        PROVE  ValueAfter(r, n + 1)' = push.commands[n + 1].new
    <2>1. AppliedTo(r, n + 1)' \in SUBSET Int
      BY DEF AppliedTo
    <2>2. n + 1 \in AppliedTo(r, n + 1)'
      <3>1. status'[n + 1] = TRUE
        BY <1>2, <1>3
      <3> QED
        BY <3>1, <1>1, <1>3 DEF AppliedTo
    <2>3. \A y \in AppliedTo(r, n + 1)' : n + 1 >= y
      BY DEF AppliedTo
    <2>4. Max(AppliedTo(r, n + 1)') = n + 1
      BY <2>1, <2>2, <2>3, MaxIs
    <2> QED
      BY <2>2, <2>4, <1>1 DEF ValueAfter
  <1>4. ASSUME ~(ok /\ push.commands[n + 1].ref = r)
        PROVE  ValueAfter(r, n + 1)' = ValueAfter(r, n)
    <2>1. AppliedTo(r, n + 1)' = AppliedTo(r, n)
      BY <1>1, <1>2, <1>4 DEF AppliedTo
    <2> QED
      BY <2>1, <1>1 DEF ValueAfter
  <1> QED
    BY <1>3, <1>4

-----------------------------------------------------------------------------
(* Steps. *)

\* What was whole stays whole while nothing is taken away.
LEMMA WholeStays ==
  ASSUME NEW c, Whole(c, live), live \subseteq live', stored \subseteq stored'
  PROVE  Whole(c, live)'
  BY DEF Whole, Readable, History, Closed

LEMMA WholeRefsStay ==
  ASSUME WholeRefs, refs' = refs, live \subseteq live', stored \subseteq stored'
  PROVE  WholeRefs'
  <1>1. Referenced' = Referenced
    BY DEF Referenced
  <1>2. ASSUME NEW c \in Referenced
        PROVE  Whole(c, live)'
    BY WholeStays DEF WholeRefs
  <1> QED
    BY <1>1, <1>2 DEF WholeRefs

\* The handler's return, from wherever it is.
LEMMA AnswerTypes ==
  ASSUME Answer
  PROVE  /\ pc' = "idle"
         /\ push'.commands = <<>> /\ push'.pack = {}
         /\ status' = <<>>
         /\ before' \in [Ref -> Hash]
  BY DEF Answer, NoPush, NoRefs, Hash

LEMMA AnswerKeeps ==
  ASSUME IInv, Answer, refs' = refs, live' = live, index' \subseteq index, stored' = stored
  PROVE  IInv'
  <1>1. TypeOK'
    <2>1. status' \in Seq(BOOLEAN) /\ push'.commands \in Seq(Command)
          /\ Len(status') <= Len(push'.commands)
      <3>1. <<>> \in Seq(BOOLEAN) /\ <<>> \in Seq(Command) /\ Len(<<>>) <= Len(<<>>)
        OBVIOUS
      <3> QED
        BY <3>1, AnswerTypes, Zenon
    <2> QED
      BY <2>1, AnswerTypes DEF IInv, TypeOK
  <1>2. WholeRefs'
    BY WholeRefsStay DEF IInv
  <1> QED
    BY <1>1, <1>2, AnswerTypes
    DEF IInv, Waiting, Unapplied, Validated, WholePush, Applied

\* The commands of a push are those of the client, checked one by one.
LEMMA BeginKeeps ==
  ASSUME IInv, Begin
  PROVE  IInv'
  <1>0. PICK n \in 1 .. MaxCommand :
          \E cs \in [1 .. n -> Command], p \in Packs \cup {{}} :
              push' = [commands |-> cs, pack |-> p]
    BY DEF Begin
  <1>1. PICK cs \in [1 .. n -> Command], p \in Packs \cup {{}} :
          push' = [commands |-> cs, pack |-> p]
    BY <1>0
  <1>2. push'.commands = cs /\ push'.pack = p
    BY <1>1
  <1>3. n \in Nat /\ cs \in Seq(Command) /\ Len(cs) = n
    BY ReceiveAssumption
  <1>4. status = <<>> /\ status' = status
    BY DEF IInv, Unapplied, Begin
  <1>5. Len(status') <= Len(push'.commands)
    <2>1. Len(<<>>) = 0
      OBVIOUS
    <2> QED
      BY <2>1, <1>2, <1>3, <1>4
  <1>6. TypeOK'
    BY <1>2, <1>3, <1>4, <1>5 DEF IInv, TypeOK, Begin
  <1>7. WholeRefs'
    BY WholeRefsStay DEF IInv, Begin
  <1> QED
    BY <1>4, <1>6, <1>7
    DEF IInv, Begin, Waiting, Unapplied, Validated, WholePush, Applied

\* The checks of a push that passes hold while its pack is on its way.
LEMMA AcceptKeeps ==
  ASSUME IInv, Accept
  PROVE  IInv'
  <1>1. TypeOK'
    BY DEF IInv, TypeOK, Accept
  <1>2. WholeRefs'
    BY WholeRefsStay DEF IInv, Accept
  <1>3. Valid(live \cup push.pack)'
    BY DEF Accept, Valid, Readable, Referenced
  <1> QED
    BY <1>1, <1>2, <1>3
    DEF IInv, Accept, Waiting, Unapplied, Validated, WholePush, Applied

LEMMA PromoteIndexKeeps ==
  ASSUME IInv, PromoteIndex
  PROVE  IInv'
  <1>1. TypeOK'
    BY DEF IInv, TypeOK, PromoteIndex, Promoted
  <1>2. WholeRefs'
    BY WholeRefsStay DEF IInv, PromoteIndex
  <1>3. Valid(live \cup push.pack)
    BY DEF IInv, Validated, PromoteIndex
  <1>4. Valid(live \cup push.pack)'
    BY <1>3 DEF PromoteIndex, Valid, Readable, Referenced
  <1> QED
    BY <1>1, <1>2, <1>4
    DEF IInv, PromoteIndex, Waiting, Unapplied, Validated, WholePush, Applied

\* Before the first command is applied every reference has its old value.
LEMMA NothingApplied ==
  ASSUME IInv, pc \in {"validated", "indexed"}
  PROVE  /\ status = <<>>
         /\ \A r \in Ref : refs[r] = ValueAfter(r, Len(status))
  <1>1. status = <<>> /\ refs = before
    BY DEF IInv, Unapplied, Waiting
  <1>2. Len(status) = 0
    BY <1>1
  <1>3. \A r : AppliedTo(r, 0) = {}
    BY DEF AppliedTo
  <1> QED
    BY <1>1, <1>2, <1>3 DEF ValueAfter

\* Promotion: from here on the commits of the push are whole for readers.
LEMMA PromotionKeeps ==
  ASSUME IInv, SkipPromotion \/ PromotePack
  PROVE  IInv'
  <1>1. /\ pc \in {"validated", "indexed"} /\ pc' = "promoted"
        /\ live' = live \cup push.pack /\ index' \subseteq index
        /\ UNCHANGED <<refs, stored, push, status, before>>
    BY DEF SkipPromotion, PromotePack, Promoted
  <1>2. TypeOK'
    <2>1. live' \subseteq Object
      BY <1>1, ReceiveAssumption DEF IInv, TypeOK
    <2> QED
      BY <1>1, <2>1 DEF IInv, TypeOK
  <1>3. WholeRefs'
    BY <1>1, WholeRefsStay DEF IInv
  <1>4. WholePush'
    <2>1. Valid(live \cup push.pack)
      BY <1>1 DEF IInv, Validated
    <2>2. ASSUME NEW i \in DOMAIN push.commands, push.commands[i].new # Zero
          PROVE  Whole(push.commands[i].new, live)'
      <3>1. Whole(push.commands[i].new, live \cup push.pack)
        BY <2>1, <2>2, ValidIsWhole DEF IInv
      <3> QED
        BY <3>1, <1>1 DEF Whole, Readable, History, Closed
    <2> QED
      BY <2>2, <1>1 DEF WholePush
  <1>5. Applied'
    <2>1. /\ status = <<>>
          /\ \A r \in Ref : refs[r] = ValueAfter(r, Len(status))
      BY <1>1, NothingApplied
    <2>2. \A r \in Ref : refs'[r] = ValueAfter(r, Len(status))'
      BY <1>1, <2>1 DEF ValueAfter, AppliedTo
    <2>3. DOMAIN status' = {}
      BY <1>1, <2>1
    <2> QED
      BY <2>2, <2>3 DEF Applied
  <1> QED
    BY <1>1, <1>2, <1>3, <1>4, <1>5 DEF IInv, Waiting, Unapplied, Validated

\* A command moves its reference from the value it names to a whole commit.
LEMMA ApplyKeeps ==
  ASSUME IInv, NEW ok \in BOOLEAN, Apply(ok)
  PROVE  IInv'
  <1>0. TypeOK /\ pc = "promoted"
    BY DEF IInv, Apply
  <1>1. PICK n \in Nat : n = Len(status)
    BY <1>0 DEF TypeOK
  <1> DEFINE c == push.commands[n + 1]
  <1>2. /\ refs' = IF ok THEN [refs EXCEPT ![c.ref] = c.new] ELSE refs
        /\ ok => Current(c)
        /\ UNCHANGED <<live, index, stored, pc, push, before>>
    BY <1>1 DEF Apply, Applies
  <1>3. /\ Len(status') = n + 1
        /\ status' \in Seq(BOOLEAN)
        /\ n + 1 \in DOMAIN push.commands
        /\ c \in Command
        /\ \A i \in 1 .. n : status'[i] = status[i]
        /\ status'[n + 1] = ok
    BY <1>0, <1>1, StatusAppended
  <1>4. c.ref \in Ref /\ c.new \in Hash /\ c.old \in Hash
    BY <1>3 DEF Command
  <1>5. ok => refs[c.ref] = c.old
    BY <1>2 DEF Current, Action
  <1>6. ASSUME NEW r \in Ref
        PROVE  refs'[r] = IF ok /\ c.ref = r THEN c.new ELSE refs[r]
    BY <1>0, <1>2, <1>4 DEF TypeOK
  <1>7. TypeOK'
    <2>1. refs' \in [Ref -> Hash]
      BY <1>0, <1>2, <1>4 DEF TypeOK
    <2>2. Len(status') <= Len(push'.commands)
      BY <1>0, <1>2, <1>3 DEF TypeOK
    <2> QED
      BY <1>0, <1>2, <1>3, <2>1, <2>2 DEF TypeOK
  <1>8. WholeRefs'
    <2>1. ASSUME NEW d \in Referenced'
          PROVE  Whole(d, live)
      <3>1. PICK r \in Ref : d = refs'[r] /\ d # Zero
        BY DEF Referenced
      <3>2. CASE ok /\ c.ref = r
        <4>1. d = c.new
          BY <3>1, <3>2, <1>6
        <4> QED
          BY <4>1, <3>1, <1>0, <1>3 DEF IInv, WholePush
      <3>3. CASE ~(ok /\ c.ref = r)
        <4>1. d = refs[r]
          BY <3>1, <3>3, <1>6
        <4> QED
          BY <4>1, <3>1 DEF IInv, WholeRefs, Referenced
      <3> QED
        BY <3>2, <3>3
    <2>2. ASSUME NEW d \in Referenced'
          PROVE  Whole(d, live)'
      BY <2>1, <1>2, WholeStays
    <2> QED
      BY <2>2 DEF WholeRefs
  <1>9. WholePush'
    <2>1. ASSUME NEW i \in DOMAIN push.commands, push.commands[i].new # Zero
          PROVE  Whole(push.commands[i].new, live)'
      <3>1. Whole(push.commands[i].new, live)
        BY <2>1, <1>0 DEF IInv, WholePush
      <3> QED
        BY <3>1, <1>2 DEF Whole, Readable, History, Closed
    <2> QED
      BY <2>1, <1>2 DEF WholePush
  <1>10. Applied'
    <2>1. /\ \A r \in Ref : refs[r] = ValueAfter(r, n)
          /\ \A i \in 1 .. n : status[i] =>
                push.commands[i].old = ValueAfter(push.commands[i].ref, i - 1)
      BY <1>0, <1>1 DEF IInv, Applied, TypeOK
    <2>2. ASSUME NEW r \in Ref
          PROVE  refs'[r] = ValueAfter(r, n + 1)'
      <3>1. /\ ok /\ c.ref = r => ValueAfter(r, n + 1)' = c.new
            /\ ~(ok /\ c.ref = r) => ValueAfter(r, n + 1)' = ValueAfter(r, n)
        BY <1>0, <1>1, ValueApplied
      <3> QED
        BY <3>1, <1>6, <2>1
    <2>3. ASSUME NEW i \in 1 .. n + 1, status'[i]
          PROVE  push.commands[i].old = ValueAfter(push.commands[i].ref, i - 1)
      <3>1. CASE i \in 1 .. n
        BY <3>1, <2>1, <2>3, <1>3
      <3>2. CASE i = n + 1
        <4>1. ok
          BY <3>2, <2>3, <1>3
        <4>2. c.old = ValueAfter(c.ref, n)
          BY <4>1, <1>4, <1>5, <2>1
        <4> QED
          BY <4>2, <3>2
      <3> QED
        BY <3>1, <3>2
    <2>4. ASSUME NEW r, NEW k \in 0 .. n
          PROVE  ValueAfter(r, k)' = ValueAfter(r, k)
      BY <1>0, <1>1, ValueKept
    <2>5. ASSUME NEW i \in 1 .. n + 1, status'[i]
          PROVE  push'.commands[i].old = ValueAfter(push.commands[i].ref, i - 1)'
      <3>1. PICK r : r = push.commands[i].ref
        OBVIOUS
      <3>2. push.commands[i].old = ValueAfter(r, i - 1)
        BY <3>1, <2>3, <2>5
      <3>3. ValueAfter(r, i - 1)' = ValueAfter(r, i - 1)
        BY <2>4
      <3>4. r = push'.commands[i].ref
        BY <3>1, <1>2
      <3> QED
        BY <3>2, <3>3, <3>4, <1>2 DEF ValueAfter, AppliedTo
    <2>6. DOMAIN status' = 1 .. n + 1
      BY <1>3
    <2>7. \A r \in Ref : refs'[r] = ValueAfter(r, Len(status))'
      BY <2>2, <1>3 DEF ValueAfter, AppliedTo
    <2> QED
      BY <2>5, <2>6, <2>7 DEF Applied
  <1> QED
    BY <1>0, <1>2, <1>7, <1>8, <1>9, <1>10 DEF IInv, Waiting, Unapplied, Validated

\* Maintenance drops only what no reference reaches.
LEMMA MaintainKeeps ==
  ASSUME IInv, Maintain
  PROVE  IInv'
  <1>1. TypeOK'
    BY DEF IInv, TypeOK, Maintain
  <1>2. WholeRefs'
    <2>1. Referenced' = Referenced
      BY DEF Referenced, Maintain
    <2>2. ASSUME NEW c \in Referenced
          PROVE  Whole(c, live)'
      <3>1. Whole(c, live \cap Reachable)
        BY MaintainedWhole DEF IInv
      <3>2. live' = live \cap Reachable /\ stored' = stored
        BY DEF Maintain
      <3> QED
        BY <3>1, <3>2 DEF Whole, Readable, History, Closed
    <2> QED
      BY <2>1, <2>2 DEF WholeRefs
  <1>3. Applied'
    BY DEF IInv, Maintain, Finished, Applied, ValueAfter, AppliedTo
  <1> QED
    BY <1>1, <1>2, <1>3 DEF IInv, Maintain, Waiting, Unapplied, Validated, WholePush

LEMMA SkipMaintenanceKeeps ==
  ASSUME IInv, SkipMaintenance
  PROVE  IInv'
  <1>1. TypeOK'
    BY DEF IInv, TypeOK, SkipMaintenance
  <1>2. WholeRefs'
    BY WholeRefsStay DEF IInv, SkipMaintenance
  <1>3. Applied'
    BY DEF IInv, SkipMaintenance, Finished, Applied, ValueAfter, AppliedTo
  <1> QED
    BY <1>1, <1>2, <1>3 DEF IInv, SkipMaintenance, Waiting, Unapplied, Validated, WholePush

\* Other handlers move references only to commits that references have.
LEMMA MoveRefKeeps ==
  ASSUME IInv, MoveRef
  PROVE  IInv'
  <1>1. PICK r \in Branch, c \in Referenced \cup {Zero} : refs' = [refs EXCEPT ![r] = c]
    BY DEF MoveRef
  <1>2. c \in Hash
    BY ReferencedType DEF IInv, Hash
  <1>3. TypeOK'
    <2>1. refs' \in [Ref -> Hash]
      BY <1>1, <1>2 DEF IInv, TypeOK
    <2> QED
      BY <2>1 DEF IInv, TypeOK, MoveRef
  <1>4. WholeRefs'
    <2>1. Referenced' \subseteq Referenced
      BY <1>1 DEF IInv, TypeOK, Referenced, Ref
    <2>2. ASSUME NEW d \in Referenced
          PROVE  Whole(d, live)'
      BY WholeStays DEF IInv, WholeRefs, MoveRef
    <2> QED
      BY <2>1, <2>2 DEF WholeRefs
  <1> QED
    BY <1>3, <1>4 DEF IInv, MoveRef, Waiting, Unapplied, Validated, WholePush, Applied

LEMMA UploadKeeps ==
  ASSUME IInv, Upload
  PROVE  IInv'
  <1>1. TypeOK'
    BY DEF IInv, TypeOK, Upload
  <1>2. WholeRefs'
    BY WholeRefsStay DEF IInv, Upload
  <1> QED
    BY <1>1, <1>2 DEF IInv, Upload, Waiting, Unapplied, Validated, WholePush, Applied

LEMMA StutterKeeps ==
  ASSUME IInv, UNCHANGED vars
  PROVE  IInv'
  <1>1. UNCHANGED <<refs, live, index, stored, pc, push, status, before>>
    BY DEF vars
  <1>2. TypeOK' /\ Waiting' /\ Unapplied'
    BY <1>1 DEF IInv, TypeOK, Waiting, Unapplied
  <1>3. WholeRefs'
    BY <1>1, WholeRefsStay DEF IInv
  <1>4. Validated'
    BY <1>1 DEF IInv, Validated, Valid, Readable, Referenced
  <1>5. WholePush'
    BY <1>1 DEF IInv, WholePush, Whole, Readable
  <1>6. Applied'
    BY <1>1 DEF IInv, Applied, ValueAfter, AppliedTo
  <1> QED
    BY <1>2, <1>3, <1>4, <1>5, <1>6 DEF IInv

-----------------------------------------------------------------------------
(* Theorems. *)

\* The inductive invariant: between its steps a push never leaves references,
\* objects and statuses in a state that the next step of the handler, of
\* another handler or of a restarted process would turn into an incomplete
\* repository or a false report.
THEOREM Invariant == Spec => []IInv
  <1>1. Init => IInv
    <2> SUFFICES ASSUME Init
                 PROVE  IInv
      OBVIOUS
    <2>1. TypeOK
      <3>1. <<>> \in Seq(BOOLEAN) /\ <<>> \in Seq(Command) /\ Len(<<>>) <= Len(<<>>)
        OBVIOUS
      <3>2. push.commands = <<>> /\ push.pack = {} /\ status = <<>>
        BY DEF Init, NoPush
      <3>3. /\ status \in Seq(BOOLEAN) /\ push.commands \in Seq(Command)
            /\ Len(status) <= Len(push.commands)
        BY <3>1, <3>2, Zenon
      <3> QED
        BY <3>2, <3>3 DEF Init, TypeOK, NoRefs, Hash
    <2>2. Referenced = {}
      BY DEF Init, Referenced, NoRefs
    <2> QED
      BY <2>1, <2>2
      DEF Init, IInv, WholeRefs, Waiting, Unapplied, Validated, WholePush, Applied
  <1>2. IInv /\ [Next]_vars => IInv'
    <2> SUFFICES ASSUME IInv, [Next]_vars
                 PROVE  IInv'
      OBVIOUS
    <2>1. CASE Reject \/ PromoteRefused \/ PromoteFails \/ Report \/ Crash
      <3>1. /\ Answer /\ refs' = refs /\ live' = live
            /\ index' \subseteq index /\ stored' = stored
        BY <2>1 DEF Reject, PromoteRefused, PromoteFails, Report, Crash
      <3> QED
        BY <3>1, AnswerKeeps
    <2> QED
      BY <2>1, BeginKeeps, AcceptKeeps, PromoteIndexKeeps, PromotionKeeps, ApplyKeeps,
         MaintainKeeps, SkipMaintenanceKeeps, MoveRefKeeps, UploadKeeps, StutterKeeps
      DEF Next
  <1> QED
    BY <1>1, <1>2, PTL DEF Spec

\* References, objects, packs, commands and statuses have their types.
THEOREM TypeCorrect == Spec => []TypeOK
  <1>1. IInv => TypeOK
    BY DEF IInv
  <1> QED
    BY <1>1, Invariant, PTL

\* Whatever is pushed and refused, wherever the process ends: every commit, file
\* and LFS object that a reference reaches is there, although validation reads
\* no further than the references (validateLFSPointerUpdates), the pack is
\* promoted file by file and maintenance drops objects.
THEOREM ReferencesComplete == Spec => []RefsComplete
  <1>1. IInv => RefsComplete
    BY WholeIsComplete DEF IInv
  <1> QED
    BY <1>1, Invariant, PTL

\* The report of a push whose commands were applied one by one, some of them to
\* the same reference and some without success, is what happened.
THEOREM ReportIsTrue == Spec => []ReportTrue
  <1>1. IInv => ReportTrue
    BY DEF IInv, Applied, ReportTrue
  <1> QED
    BY <1>1, Invariant, PTL

\* Objects become visible only in the step that promotes a validated pack, and
\* nothing the validation looked at has changed by then.
THEOREM OnlyValidatedObjects == Spec => ObjectsValidated
  <1> DEFINE Step == live' \ live # {} => pc = "indexed" /\ refs = before
                         /\ Valid(live') /\ live' \ live \subseteq push.pack
  <1>1. IInv /\ [Next]_vars => [Step]_vars
    <2> SUFFICES ASSUME IInv, Next, live' \ live # {}
                 PROVE  Step
      OBVIOUS
    <2>1. PromotePack
      BY DEF Next, Begin, Reject, Accept, SkipPromotion, PromoteRefused, PromoteIndex,
             PromoteFails, Maintain, SkipMaintenance, Report, Crash, Upload, MoveRef, Apply
    <2>2. live' = live \cup push.pack /\ pc = "indexed"
      BY <2>1 DEF PromotePack
    <2>3. Valid(live \cup push.pack) /\ refs = before
      BY <2>2 DEF IInv, Validated, Waiting
    <2>4. Valid(live')
      BY <2>2, <2>3
    <2> QED
      BY <2>2, <2>3, <2>4
  <1> QED
    BY <1>1, Invariant, PTL DEF Spec, ObjectsValidated

-----------------------------------------------------------------------------
(***************************************************************************)
(* The control repository, whose pushes carry the rights of a group: what  *)
(* ControlRepository promises, for every number of users, keys, requests   *)
(* and changes.                                                            *)
(***************************************************************************)
CONSTANTS User, Key, Policy, Founder, Writer, Reader, Flag, MaxRev, MaxHash, None
VARIABLES main, cache, locked, write, read, secrets, retired

Control == INSTANCE ControlRepository

\* A commit that somebody holds is not younger than main, and has main's document
\* when it is main's.
NotAhead(c) == c.rev <= main.rev /\ (c.rev = main.rev => c = main)

CacheTrue == cache # None => NotAhead(cache)
ReadTrue ==
    \A r \in Reader : read[r].pc # "idle" =>
        /\ read[r].commit \in Control!Commit
        /\ NotAhead(read[r].commit)
        /\ read[r].commit.rev = read[r].start
ActorKnown ==
    \A w \in Writer : write[w].pc \in {"push", "settings"} => write[w].actor \in Control!Actor
HashesTrue ==
    /\ Control!HashesOf(main.doc) \subseteq 1 .. secrets
    /\ retired \subseteq 1 .. secrets
    /\ Control!RetiredSecretsStayRetired

ControlIInv == Control!TypeOK /\ CacheTrue /\ ReadTrue /\ ActorKnown /\ HashesTrue

-----------------------------------------------------------------------------
\* Whatever the cache holds, a writer loads the document in force.
LEMMA LoadedIsMain ==
  Control!TypeOK /\ CacheTrue => Control!Loaded = main.doc /\ Control!Filled = main
  BY DEF Control!TypeOK, CacheTrue, NotAhead, Control!Loaded, Control!Filled, Control!Hit,
         Control!Commit

LEMMA RoleOfIsRole ==
  ASSUME NEW doc \in Control!Document, NEW a \in Control!Actor
  PROVE  Control!RoleOf(doc, a) \in Control!Role
  <1>1. CASE a \in User
    BY <1>1 DEF Control!RoleOf, Control!Document
  <1>2. CASE a \notin User
    <2>1. a[1] \in Key
      BY <1>2 DEF Control!Actor
    <2>2. doc.tokens[a[1]] \in Control!Token \cup {None}
      BY <2>1 DEF Control!Document
    <2> QED
      BY <1>2, <2>2 DEF Control!RoleOf, Control!Token, Control!Role
  <1> QED
    BY <1>1, <1>2

LEMMA OnlyOwnerAllowsOwner ==
  ASSUME NEW role \in Control!Role, Control!Allows(role, "owner")
  PROVE  role = "owner"
  BY DEF Control!Role, Control!Allows, Control!Rank

LEMMA ControlInit ==
  ASSUME Control!ControlAssumption PROVE Control!Init => ControlIInv
  <1> SUFFICES ASSUME Control!Init PROVE ControlIInv
    OBVIOUS
  <1> USE DEF Control!ControlAssumption, Control!Init
  <1>1. (CHOOSE p \in Policy : TRUE) \in Policy
    OBVIOUS
  <1>2. main.doc \in Control!Document
    BY <1>1 DEF Control!Document, Control!Role
  <1>3. Control!TypeOK
    BY <1>2 DEF Control!TypeOK, Control!Commit, Control!IdleWriter, Control!IdleReader
  <1>4. Control!HashesOf(main.doc) = {}
    BY DEF Control!HashesOf
  <1> QED
    BY <1>3, <1>4 DEF ControlIInv, CacheTrue, ReadTrue, ActorKnown, HashesTrue,
       Control!RetiredSecretsStayRetired, Control!IdleWriter, Control!IdleReader
-----------------------------------------------------------------------------
(* Steps of readers, and of writers that leave the document alone. *)

LEMMA ReaderSteps ==
  ASSUME Control!ControlAssumption, ControlIInv, NEW r \in Reader,
         Control!ReadRef(r) \/ Control!LookUp(r) \/ Control!Store(r) \/ Control!Answer(r)
  PROVE  ControlIInv'
  <1> USE DEF Control!ControlAssumption, ControlIInv, Control!TypeOK, CacheTrue, ReadTrue,
              ActorKnown, NotAhead
  <1>1. /\ main' = main /\ secrets' = secrets /\ retired' = retired
        /\ locked' = locked /\ write' = write
    BY DEF Control!ReadRef, Control!LookUp, Control!Store, Control!Answer
  <1>2. HashesTrue'
    BY <1>1 DEF HashesTrue, Control!RetiredSecretsStayRetired, Control!HashesOf
  <1>3. CASE Control!ReadRef(r)
    BY <1>1, <1>2, <1>3 DEF Control!ReadRef, Control!Commit
  <1>4. CASE Control!LookUp(r)
    BY <1>1, <1>2, <1>4 DEF Control!LookUp, Control!Hit
  <1>5. CASE Control!Store(r)
    BY <1>1, <1>2, <1>5 DEF Control!Store
  <1>6. CASE Control!Answer(r)
    BY <1>1, <1>2, <1>6 DEF Control!Answer, Control!IdleReader
  <1> QED
    BY <1>3, <1>4, <1>5, <1>6

LEMMA KnownIsActor ==
  ASSUME Control!ControlAssumption PROVE Control!TypeOK => Control!Known \subseteq Control!Actor
  <1> SUFFICES ASSUME Control!TypeOK PROVE 1 .. secrets \subseteq Control!Hash
    BY DEF Control!Known, Control!Actor
  <1> QED
    BY DEF Control!ControlAssumption, Control!TypeOK, Control!Hash

LEMMA QuietWriterSteps ==
  ASSUME Control!ControlAssumption, ControlIInv, NEW w \in Writer,
         \/ Control!Refuse(w) \/ Control!Invalidate(w)
         \/ \E a \in Control!Known : Control!ArrivePush(w, a) \/ Control!ArriveSettings(w, a)
  PROVE  ControlIInv'
  <1> USE DEF Control!ControlAssumption, ControlIInv, Control!TypeOK, CacheTrue, ReadTrue,
              ActorKnown, NotAhead
  <1>1. main' = main /\ secrets' = secrets /\ retired' = retired /\ read' = read
    BY DEF Control!Refuse, Control!Invalidate, Control!ArrivePush, Control!ArriveSettings
  <1>2. HashesTrue'
    BY <1>1 DEF HashesTrue, Control!RetiredSecretsStayRetired, Control!HashesOf
  <1>3. Control!Filled = main
    BY LoadedIsMain
  <1>4. CASE Control!Refuse(w)
    BY <1>1, <1>2, <1>3, <1>4 DEF Control!Refuse, Control!IdleWriter, Control!Commit
  <1>5. CASE Control!Invalidate(w)
    BY <1>1, <1>2, <1>5 DEF Control!Invalidate, Control!IdleWriter
  <1>6. ASSUME NEW a \in Control!Known, Control!ArrivePush(w, a) \/ Control!ArriveSettings(w, a)
        PROVE  ControlIInv'
    <2>1. a \in Control!Actor
      BY KnownIsActor
    <2>2. CASE Control!ArrivePush(w, a)
      BY <1>1, <1>2, <1>3, <2>1, <2>2 DEF Control!ArrivePush, Control!Commit
    <2>3. CASE Control!ArriveSettings(w, a)
      BY <1>1, <1>2, <2>1, <2>3 DEF Control!ArriveSettings
    <2> QED
      BY <1>6, <2>2, <2>3
  <1> QED
    BY <1>4, <1>5, <1>6

-----------------------------------------------------------------------------
(* Steps that move main. *)

\* A new commit is younger than everything that somebody holds.
LEMMA MovedKeeps ==
  ASSUME Control!ControlAssumption, ControlIInv, NEW w \in Writer, NEW doc \in Control!Document,
         Control!Valid(doc), Control!Moved(w, doc),
         cache' = main, read' = read, secrets' \in secrets .. MaxHash
  PROVE  Control!TypeOK' /\ CacheTrue' /\ ReadTrue' /\ ActorKnown'
  <1> USE DEF Control!ControlAssumption, ControlIInv, Control!Moved
  <1>1. /\ main.rev \in Nat /\ main'.rev = main.rev + 1 /\ main'.doc = doc
        /\ main' \in Control!Commit
    BY DEF Control!TypeOK, Control!Commit
  <1>2. Control!HashesOf(main.doc) \subseteq Control!Hash
    BY DEF HashesTrue, Control!TypeOK, Control!Hash
  <1>3. Control!TypeOK'
    BY <1>1, <1>2 DEF Control!TypeOK, Control!Valid
  <1>4. CacheTrue' /\ ReadTrue'
    BY <1>1 DEF Control!TypeOK, CacheTrue, ReadTrue, NotAhead, Control!Commit
  <1>5. ActorKnown'
    BY DEF Control!TypeOK, ActorKnown
  <1> QED
    BY <1>3, <1>4, <1>5

\* A hash of the new document that the old one lacks has just been generated.
LEMMA HashesKeep ==
  ASSUME ControlIInv, NEW w \in Writer, NEW doc \in Control!Document, Control!Moved(w, doc),
         secrets' \in secrets .. MaxHash,
         \A h \in Control!HashesOf(doc) :
            h \in Control!HashesOf(main.doc) \/ h \in (secrets + 1) .. secrets'
  PROVE  HashesTrue'
  <1> USE DEF ControlIInv, Control!TypeOK, HashesTrue, Control!RetiredSecretsStayRetired
  <1>1. /\ main'.doc = doc
        /\ retired' = retired \cup (Control!HashesOf(main.doc) \ Control!HashesOf(doc))
    BY DEF Control!Moved
  <1>2. secrets \in Nat /\ secrets' \in Nat /\ secrets <= secrets'
    OBVIOUS
  <1>3. /\ Control!HashesOf(main'.doc) = Control!HashesOf(doc)
        /\ Control!HashesOf(main.doc)' = Control!HashesOf(doc)
    BY <1>1 DEF Control!HashesOf
  <1>4. Control!HashesOf(doc) \subseteq 1 .. secrets'
    BY <1>2
  <1>5. retired' \subseteq 1 .. secrets'
    <2>1. 1 .. secrets \subseteq 1 .. secrets'
      BY <1>2
    <2>2. retired' \subseteq 1 .. secrets
      BY <1>1
    <2> QED
      BY <2>1, <2>2
  <1>6. retired' \cap Control!HashesOf(doc) = {}
    BY <1>1, <1>2
  <1> QED
    BY <1>3, <1>4, <1>5, <1>6

LEMMA PushStep ==
  ASSUME Control!ControlAssumption, ControlIInv, NEW w \in Writer, NEW doc \in Control!Document,
         Control!Push(w, doc)
  PROVE  ControlIInv'
  <1>1. secrets' = secrets /\ secrets' \in secrets .. MaxHash
    BY DEF Control!ControlAssumption, Control!Push, ControlIInv, Control!TypeOK
  <1>2. cache' = main
    BY LoadedIsMain DEF Control!Push, ControlIInv
  <1>3. \A h \in Control!HashesOf(doc) : h \in Control!HashesOf(main.doc)
    BY DEF Control!Push, Control!KeepsHashes, Control!HashesOf
  <1> QED
    BY <1>1, <1>2, <1>3, MovedKeeps, HashesKeep DEF Control!Push, ControlIInv

LEMMA SettingsStep ==
  ASSUME Control!ControlAssumption, ControlIInv, NEW w \in Writer, NEW doc \in Control!Document,
         NEW fresh \in {{}} \cup {{k} : k \in Key}, Control!ChangeSettings(w, doc, fresh)
  PROVE  ControlIInv'
  <1>0. Control!Cardinality(fresh) = Cardinality(fresh)
    BY DEF Control!Cardinality, Cardinality
  <1>1. Control!Cardinality(fresh) = IF fresh = {} THEN 0 ELSE 1
    BY <1>0, FS_EmptySet, FS_Singleton
  <1>2. secrets' \in secrets .. MaxHash /\ (fresh # {} => secrets' = secrets + 1)
    BY <1>1 DEF Control!ControlAssumption, Control!ChangeSettings, ControlIInv, Control!TypeOK
  <1>3. ASSUME NEW k \in Key, doc.tokens[k] # None
        PROVE  \/ doc.tokens[k].hash \in Control!HashesOf(main.doc)
               \/ doc.tokens[k].hash \in (secrets + 1) .. secrets'
    <2>1. CASE main.doc.tokens[k] # None /\ doc.tokens[k].hash = main.doc.tokens[k].hash
      BY <2>1 DEF Control!HashesOf
    <2>2. CASE k \in fresh /\ doc.tokens[k].hash = secrets + 1
      BY <1>2, <2>2 DEF ControlIInv, Control!TypeOK
    <2> QED
      BY <1>3, <2>1, <2>2 DEF Control!ChangeSettings, Control!Submitted
  <1>4. \A h \in Control!HashesOf(doc) :
            h \in Control!HashesOf(main.doc) \/ h \in (secrets + 1) .. secrets'
    BY <1>3 DEF Control!HashesOf
  <1> QED
    BY <1>2, <1>4, MovedKeeps, HashesKeep DEF Control!ChangeSettings, ControlIInv

LEMMA ControlNext ==
  ASSUME Control!ControlAssumption
  PROVE  ControlIInv /\ [Control!Next]_(Control!vars) => ControlIInv'
  <1> SUFFICES ASSUME ControlIInv, [Control!Next]_(Control!vars) PROVE ControlIInv'
    OBVIOUS
  <1>1. ASSUME NEW r \in Reader,
               Control!ReadRef(r) \/ Control!LookUp(r) \/ Control!Store(r) \/ Control!Answer(r)
        PROVE  ControlIInv'
    BY <1>1, ReaderSteps
  <1>2. ASSUME NEW w \in Writer,
               \/ Control!Refuse(w) \/ Control!Invalidate(w)
               \/ \E a \in Control!Known :
                     Control!ArrivePush(w, a) \/ Control!ArriveSettings(w, a)
        PROVE  ControlIInv'
    BY <1>2, QuietWriterSteps
  <1>3. ASSUME NEW w \in Writer, NEW doc \in Control!Document, Control!Push(w, doc)
        PROVE  ControlIInv'
    BY <1>3, PushStep
  <1>4. ASSUME NEW w \in Writer, NEW doc \in Control!Document,
               NEW fresh \in {{}} \cup {{k} : k \in Key}, Control!ChangeSettings(w, doc, fresh)
        PROVE  ControlIInv'
    BY <1>4, SettingsStep
  <1>5. CASE UNCHANGED Control!vars
    BY <1>5
       DEF Control!vars, ControlIInv, Control!TypeOK, CacheTrue, ReadTrue, ActorKnown,
           NotAhead, HashesTrue,
       Control!RetiredSecretsStayRetired, Control!HashesOf
  <1> QED
    BY <1>1, <1>2, <1>3, <1>4, <1>5 DEF Control!Next

-----------------------------------------------------------------------------
(* Theorems. *)

\* The inductive invariant: commits that were read are never ahead of main, and the
\* hashes of the document are among the secrets generated.
THEOREM ControlInvariant ==
  ASSUME Control!ControlAssumption PROVE Control!Spec => []ControlIInv
  BY ControlInit, ControlNext, PTL DEF Control!Spec

\* The state is always well formed, and the group always has an owner.
THEOREM ControlTypeCorrect ==
  ASSUME Control!ControlAssumption PROVE Control!Spec => []Control!TypeOK
  <1>1. ControlIInv => Control!TypeOK
    BY DEF ControlIInv
  <1> QED
    BY <1>1, ControlInvariant, PTL

\* Load returns a document that was in force during the call, whatever the cache does.
THEOREM LoadCurrent ==
  ASSUME Control!ControlAssumption PROVE Control!Spec => []Control!LoadIsCurrent
  <1>1. ControlIInv => Control!LoadIsCurrent
    BY DEF ControlIInv, ReadTrue, Control!LoadIsCurrent, Control!TypeOK
  <1> QED
    BY <1>1, ControlInvariant, PTL

\* The hash of a token that was replaced or removed never comes back.
THEOREM RetiredStay ==
  ASSUME Control!ControlAssumption PROVE Control!Spec => []Control!RetiredSecretsStayRetired
  <1>1. ControlIInv => Control!RetiredSecretsStayRetired
    BY DEF ControlIInv, HashesTrue
  <1> QED
    BY <1>1, ControlInvariant, PTL

\* The part of the document that belongs to owners changes at the hands of owners only.
THEOREM Governed ==
  ASSUME Control!ControlAssumption PROVE Control!Spec => Control!OwnersGovern
  <1> DEFINE ByOwner ==
        \E w \in Writer : /\ write[w].pc \in {"push", "settings"}
                          /\ write'[w].pc = "moved"
                          /\ Control!RoleOf(main.doc, write[w].actor) = "owner"
             Step == Control!OwnerPart(main'.doc) # Control!OwnerPart(main.doc) => ByOwner
  <1>1. ASSUME ControlIInv, [Control!Next]_(Control!vars) PROVE [Step]_(Control!vars)
    <2> SUFFICES ASSUME Control!Next, Control!OwnerPart(main'.doc) # Control!OwnerPart(main.doc)
                 PROVE  ByOwner
      BY <1>1
    <2> USE <1>1 DEF ControlIInv
    <2>1. main' # main
      OBVIOUS
    <2>2. \A w \in Writer : write[w].pc \in {"push", "settings"} =>
            Control!RoleOf(main.doc, write[w].actor) \in Control!Role
      BY RoleOfIsRole DEF ActorKnown, Control!TypeOK, Control!Commit
    <2>3. Control!Loaded = main.doc
      BY LoadedIsMain
    <2>4. ASSUME NEW w \in Writer, NEW doc \in Control!Document, Control!Push(w, doc)
          PROVE  ByOwner
      <3>1. Control!Allows(Control!RoleOf(main.doc, write[w].actor), "owner")
        BY <2>3, <2>4 DEF Control!Push, Control!Owner
      <3>2. Control!RoleOf(main.doc, write[w].actor) = "owner"
        BY <2>2, <2>4, <3>1, OnlyOwnerAllowsOwner DEF Control!Push
      <3> QED
        BY <2>4, <3>2 DEF Control!Push, Control!Moved, Control!TypeOK
    <2>5. ASSUME NEW w \in Writer, NEW doc \in Control!Document,
                 NEW fresh \in {{}} \cup {{k} : k \in Key},
                 Control!ChangeSettings(w, doc, fresh)
          PROVE  ByOwner
      <3>1. Control!OwnerPart(doc) # Control!OwnerPart(main.doc)
        BY <2>5 DEF Control!ChangeSettings, Control!Moved
      <3>2. Control!Allows(Control!RoleOf(main.doc, write[w].actor), "owner")
        BY <2>3, <2>5, <3>1 DEF Control!ChangeSettings, Control!Permitted
      <3>3. Control!RoleOf(main.doc, write[w].actor) = "owner"
        BY <2>2, <2>5, <3>2, OnlyOwnerAllowsOwner DEF Control!ChangeSettings
      <3> QED
        BY <2>5, <3>3 DEF Control!ChangeSettings, Control!Moved, Control!TypeOK
    <2> QED
      BY <2>1, <2>4, <2>5
            DEF Control!Next, Control!ReadRef, Control!LookUp, Control!Store, Control!Answer,
                Control!Refuse, Control!Invalidate, Control!ArrivePush,
                Control!ArriveSettings
  <1> QED
    BY <1>1, ControlInvariant, PTL DEF Control!Spec, Control!OwnersGovern
===============================================================================
