----------------------------- MODULE LockManagerProofs -----------------------------
(* Machine-checked proofs about the lock manager, for any set of keys, any finite *)
(* number of calls and any requests.                                              *)
EXTENDS LockManager, HandlerLocks, FiniteSetTheorems, SequenceTheorems, WellFoundedInduction, TLAPS

Users(k) == {c \in Client : k \in Wanted(c)}

\* A call refers to one entry for each key it wants, and idle calls to none.
EntriesOfCalls ==
    \A c \in Client : /\ DOMAIN ent[c] = Wanted(c)
                      /\ pc[c] = "idle" => Wanted(c) = {}

\* No entry serves two keys.
EntriesDistinct == \A k, l \in Key : k # l /\ locks[k] # NoEntry => locks[k] # locks[l]

\* Only the users of a key are inside its lock or wait for it.
RequestedByUsers ==
    \A k \in Key : locks[k] # NoEntry =>
        \A c \in Client : Requested(mutex[locks[k]], c) => k \in Wanted(c)

IInv ==
    /\ TypeOK
    /\ EntriesOfCalls
    /\ OneLockPerKey
    /\ EntriesDistinct
    /\ NoEntryLeaks
    /\ RequestedByUsers

(* The normalized form of a request. *)
LEMMA NormalizedType ==
    ASSUME NEW R \in Requests
    PROVE  /\ normalizeRequests(R) \in [DOMAIN normalizeRequests(R) -> Mode]
           /\ DOMAIN normalizeRequests(R) \in SUBSET Key
  BY LockManagerAssumption DEF normalizeRequests, Mode

\* An idle call wants nothing.
LEMMA NoRequestType == DOMAIN NoRequest = {} /\ NoRequest \in [{} -> Mode]
  BY DEF NoRequest, normalizeRequests, Mode

(* What a call wants, and the entries it holds, by key. *)
LEMMA CallTypes ==
    ASSUME TypeOK, EntriesOfCalls, NEW c \in Client
    PROVE  /\ Wanted(c) \in SUBSET Key
           /\ want[c] \in [Wanted(c) -> Mode]
           /\ ent[c] \in [Wanted(c) -> Entry]
  BY DEF TypeOK, EntriesOfCalls, Wanted

\* Requesting and releasing keep a lock a lock.
LEMMA LockTypes ==
    ASSUME NEW l \in RWLock(Client), NEW c \in Client, NEW m \in Mode
    PROVE  AfterRequest(l, c, m) \in RWLock(Client) /\ AfterUnlock(l, c, m) \in RWLock(Client)
  BY DEF RWLock, AfterRequest, AfterUnlock

(* A call that wants a key sees the lock of that key. *)
LEMMA SameLock ==
    ASSUME IInv, NEW c \in Client, NEW k \in Wanted(c)
    PROVE  k \in Key /\ locks[k] \in Entry /\ ent[c][k] = locks[k]
           /\ entryLock(c, k) = mutex[locks[k]] /\ lockOfKey[k] = entryLock(c, k)
  BY CallTypes, LockManagerAssumption DEF IInv, OneLockPerKey, entryLock, lockOfKey, TypeOK

(* Requesting or releasing a lock adds or removes only the caller. *)
LEMMA RequestersAfter ==
    ASSUME NEW l \in RWLock(Client), NEW c \in Client, NEW d \in Client, NEW m \in Mode
    PROVE  /\ Requested(AfterRequest(l, c, m), d) => Requested(l, d) \/ d = c
           /\ Requested(AfterUnlock(l, c, m), d) => Requested(l, d)
  BY LockManagerAssumption DEF RWLock, AfterRequest, AfterUnlock, Requested

-----------------------------------------------------------------------------
\* The empty map satisfies the invariant.
LEMMA InitInv == NewManager => IInv
  <1> SUFFICES ASSUME NewManager PROVE IInv
    OBVIOUS
  <1>1. TypeOK
    <2>1. Unlocked \in RWLock(Client)
      BY DEF Unlocked, RWLock
    <2>2. NoEntries \in [{} -> Entry]
      BY DEF NoEntries
    <2> QED BY <2>1, <2>2, NoRequestType DEF NewManager, TypeOK
  <1>2. EntriesOfCalls
    BY NoRequestType DEF NewManager, EntriesOfCalls, NoEntries, Wanted
  <1>3. OneLockPerKey
    BY NoRequestType DEF NewManager, OneLockPerKey, Wanted
  <1>4. NoEntryLeaks
    BY NoRequestType DEF NewManager, NoEntryLeaks, Wanted
  <1> QED BY <1>1, <1>2, <1>3, <1>4 DEF NewManager, IInv, EntriesDistinct, RequestedByUsers

(* A step that changes neither the map, the references nor the requests.          *)
LEMMA FrameStep ==
    ASSUME IInv, UNCHANGED <<want, ent, locks, refs>>, TypeOK',
           \A c \in Client : pc'[c] = "idle" => pc[c] = "idle",
           \A k \in Key : locks[k] # NoEntry =>
               \A c \in Client : Requested(mutex'[locks[k]], c) => k \in Wanted(c)
    PROVE  IInv'
  BY DEF IInv, EntriesOfCalls, OneLockPerKey, EntriesDistinct, NoEntryLeaks, RequestedByUsers, Wanted

\* Locking the next entry keeps the invariant.
LEMMA LockNextStep ==
    ASSUME IInv, NEW c \in Client, NEW k \in Key, LockEntry(c, k)
    PROVE  IInv'
<1>1. /\ k \in Wanted(c) /\ ent[c][k] = locks[k] /\ locks[k] \in Entry
      /\ mutex[locks[k]] \in RWLock(Client) /\ want[c][k] \in Mode
  BY SameLock, CallTypes DEF LockEntry, IInv, TypeOK
<1>2. mutex' = [mutex EXCEPT ![locks[k]] = AfterRequest(@, c, want[c][k])]
  BY <1>1 DEF LockEntry
<1>3. TypeOK'
  BY <1>1, <1>2, LockTypes DEF LockEntry, IInv, TypeOK
<1>4. ASSUME NEW l \in Key, locks[l] # NoEntry, NEW d \in Client, Requested(mutex'[locks[l]], d)
      PROVE  l \in Wanted(d)
  <2>1. CASE l = k
    BY <1>1, <1>2, <1>4, <2>1, RequestersAfter DEF IInv, TypeOK, RequestedByUsers
  <2>2. CASE l # k
    BY <1>1, <1>2, <1>4, <2>2 DEF IInv, TypeOK, RequestedByUsers, EntriesDistinct
  <2> QED BY <2>1, <2>2
<1> QED BY <1>3, <1>4, FrameStep DEF LockEntry

\* Unlocking an entry keeps the invariant.
LEMMA UnlockNextStep ==
    ASSUME IInv, NEW c \in Client, NEW k \in Key, UnlockEntry(c, k)
    PROVE  IInv'
<1>1. /\ k \in Wanted(c) /\ ent[c][k] = locks[k] /\ locks[k] \in Entry
      /\ mutex[locks[k]] \in RWLock(Client) /\ want[c][k] \in Mode
  BY SameLock, CallTypes DEF UnlockEntry, IInv, TypeOK
<1>2. mutex' = [mutex EXCEPT ![locks[k]] = AfterUnlock(@, c, want[c][k])]
  BY <1>1 DEF UnlockEntry
<1>3. TypeOK'
  BY <1>1, <1>2, LockTypes DEF UnlockEntry, IInv, TypeOK
<1>4. ASSUME NEW l \in Key, locks[l] # NoEntry, NEW d \in Client, Requested(mutex'[locks[l]], d)
      PROVE  l \in Wanted(d)
  <2>1. CASE l = k
    BY <1>1, <1>2, <1>4, <2>1, RequestersAfter DEF IInv, TypeOK, RequestedByUsers
  <2>2. CASE l # k
    BY <1>1, <1>2, <1>4, <2>2 DEF IInv, TypeOK, RequestedByUsers, EntriesDistinct
  <2> QED BY <2>1, <2>2
<1> QED BY <1>3, <1>4, FrameStep DEF UnlockEntry

\* Returning from Acquire and entering release keep the invariant.
LEMMA PcStep ==
    ASSUME IInv, NEW c \in Client, AllLocked(c) \/ BeginRelease(c)
    PROVE  IInv'
<1>1. TypeOK' /\ \A d \in Client : pc'[d] = "idle" => pc[d] = "idle"
  BY DEF AllLocked, BeginRelease, Goto, IInv, TypeOK
<1> QED BY <1>1, FrameStep DEF AllLocked, BeginRelease, IInv, RequestedByUsers

\* The first critical section of Acquire keeps the invariant: a new entry is
\* used for one key only, and the references count one more user.
LEMMA RegisterStep ==
    ASSUME IInv, NEW c \in Client, NEW R \in Requests, Register(c, R)
    PROVE  IInv'
<1> DEFINE w == normalizeRequests(R)
           missing == {k \in DOMAIN w : locks[k] = NoEntry}
<1> PICK fresh \in [missing -> {e \in Entry : Unused(e)}] :
       /\ \A k, l \in missing : k # l => fresh[k] # fresh[l]
       /\ locks' = [k \in Key |-> IF k \in missing THEN fresh[k] ELSE locks[k]]
       /\ ent' = [ent EXCEPT ![c] = [k \in DOMAIN w |-> locks'[k]]]
       /\ refs' = [e \in Entry |->
                      (IF \E k \in missing : fresh[k] = e THEN 0 ELSE refs[e])
                      + (IF \E k \in DOMAIN w : locks'[k] = e THEN 1 ELSE 0)]
       /\ mutex' = [e \in Entry |->
                      IF \E k \in missing : fresh[k] = e THEN Unlocked ELSE mutex[e]]
       /\ want' = [want EXCEPT ![c] = w]
  BY DEF Register
<1>1. /\ w \in [DOMAIN w -> Mode] /\ DOMAIN w \in SUBSET Key
      /\ Wanted(c) = {} /\ pc[c] = "idle" /\ pc' = [pc EXCEPT ![c] = "locking"]
  BY NormalizedType DEF Register, Goto, IInv, EntriesOfCalls
<1>2. /\ want'[c] = w /\ \A d \in Client \ {c} : want'[d] = want[d]
      /\ ent'[c] = [k \in DOMAIN w |-> locks'[k]]
      /\ \A d \in Client \ {c} : ent'[d] = ent[d]
      /\ \A l \in DOMAIN w : ent'[c][l] = locks'[l]
  BY DEF IInv, TypeOK
<1> HIDE DEF w
<1>3. \A k \in missing : fresh[k] \in Entry /\ Unused(fresh[k])
  OBVIOUS
<1>4. /\ \A k \in missing : locks'[k] = fresh[k]
      /\ \A k \in Key \ missing : locks'[k] = locks[k]
      /\ \A k \in DOMAIN w : locks'[k] \in Entry
  BY <1>1, <1>3, LockManagerAssumption DEF IInv, TypeOK
<1>5. TypeOK'
  <2>1. Unlocked \in RWLock(Client)
    BY DEF Unlocked, RWLock
  <2>2. [k \in DOMAIN w |-> locks'[k]] \in [DOMAIN w -> Entry]
    BY <1>4
  <2>3. locks' \in [Key -> Entry \cup {NoEntry}] /\ refs' \in [Entry -> Nat]
        /\ mutex' \in [Entry -> RWLock(Client)]
    BY <1>3, <2>1 DEF IInv, TypeOK
  <2>4. want' \in [Client -> UNION {[K -> Mode] : K \in SUBSET Key}]
    BY <1>1 DEF IInv, TypeOK
  <2>5. ent' \in [Client -> UNION {[K -> Entry] : K \in SUBSET Key}]
    BY <1>1, <2>2 DEF IInv, TypeOK
  <2> QED BY <1>1, <2>3, <2>4, <2>5 DEF IInv, TypeOK
<1>6. EntriesOfCalls'
  BY <1>1, <1>2 DEF IInv, TypeOK, EntriesOfCalls, Wanted
<1>7. OneLockPerKey'
  <2> SUFFICES ASSUME NEW d \in Client, NEW k \in DOMAIN want'[d] PROVE ent'[d][k] = locks'[k]
    BY DEF OneLockPerKey, Wanted
  <2>1. CASE d = c
    <3>1. k \in DOMAIN w
      BY <1>2, <2>1
    <3> QED BY <1>2, <2>1, <3>1, Zenon
  <2>2. CASE d # c
    <3>1. k \in Wanted(d) /\ ent[d][k] = locks[k] /\ locks[k] \in Entry /\ k \in Key
      BY <1>2, <2>2, SameLock DEF Wanted
    <3>2. k \notin missing
      BY <3>1, LockManagerAssumption
    <3> QED BY <1>2, <1>4, <2>2, <3>1, <3>2
  <2> QED BY <2>1, <2>2
<1>8. EntriesDistinct'
  <2> SUFFICES ASSUME NEW k \in Key, NEW l \in Key, k # l, locks'[k] # NoEntry
               PROVE  locks'[k] # locks'[l]
    BY DEF EntriesDistinct
  <2>1. CASE k \in missing /\ l \in missing
    BY <1>4, <2>1
  <2>2. CASE k \in missing /\ l \notin missing
    BY <1>3, <1>4, <2>2 DEF Unused
  <2>3. CASE k \notin missing /\ l \in missing
    BY <1>3, <1>4, <2>3 DEF Unused
  <2>4. CASE k \notin missing /\ l \notin missing
    BY <1>4, <2>4 DEF IInv, EntriesDistinct
  <2> QED BY <2>1, <2>2, <2>3, <2>4
<1>9. NoEntryLeaks'
  <2> SUFFICES ASSUME NEW k \in Key
               PROVE  /\ locks'[k] # NoEntry <=> \E d \in Client : k \in DOMAIN want'[d]
                      /\ locks'[k] # NoEntry =>
                            refs'[locks'[k]] = Cardinality({d \in Client : k \in DOMAIN want'[d]})
    BY DEF NoEntryLeaks, Wanted
  <2> DEFINE U  == {d \in Client : k \in DOMAIN want[d]}
             U2 == {d \in Client : k \in DOMAIN want'[d]}
  <2>1. IsFiniteSet(U) /\ c \notin U
    BY <1>1, LockManagerAssumption, FS_Subset DEF Wanted
  <2>2. locks[k] # NoEntry <=> \E d \in Client : k \in DOMAIN want[d]
    BY DEF IInv, NoEntryLeaks, Wanted
  <2>3. locks[k] # NoEntry => refs[locks[k]] = Cardinality(U)
    BY DEF IInv, NoEntryLeaks, Wanted
  <2>4. CASE k \notin DOMAIN w
    <3>1. U2 = U
      BY <1>1, <1>2, <2>4 DEF Wanted
    <3>2. locks'[k] = locks[k] /\ k \notin missing
      BY <1>4, <2>4
    <3>3. locks[k] # NoEntry => refs'[locks[k]] = refs[locks[k]]
      <4> SUFFICES ASSUME locks[k] # NoEntry PROVE refs'[locks[k]] = refs[locks[k]]
        OBVIOUS
      <4>1. locks[k] \in Entry /\ refs[locks[k]] \in Nat
        BY DEF IInv, TypeOK
      <4>2. ~ \E l \in missing : fresh[l] = locks[k]
        BY <1>3 DEF Unused
      <4>3. ~ \E l \in DOMAIN w : locks'[l] = locks[k]
        BY <1>1, <1>8, <2>4, <3>2 DEF EntriesDistinct
      <4>4. refs'[locks[k]] = (IF \E l \in missing : fresh[l] = locks[k] THEN 0 ELSE refs[locks[k]])
                              + (IF \E l \in DOMAIN w : locks'[l] = locks[k] THEN 1 ELSE 0)
        BY <4>1, Zenon
      <4>5. refs'[locks[k]] = refs[locks[k]] + 0
        BY <4>2, <4>3, <4>4, Zenon
      <4>6. \A n \in Nat : n + 0 = n
        OBVIOUS
      <4> QED BY <4>1, <4>5, <4>6, Zenon
    <3> QED BY <2>2, <2>3, <3>1, <3>2, <3>3
  <2>5. CASE k \in DOMAIN w
    <3>1. U2 = U \cup {c}
      BY <1>2, <2>5
    <3>2. Cardinality(U2) = Cardinality(U) + 1
      BY <2>1, <3>1, FS_AddElement
    <3>3. locks'[k] \in Entry /\ locks'[k] # NoEntry
      BY <1>4, <2>5, LockManagerAssumption
    <3>4. refs'[locks'[k]] = Cardinality(U) + 1
      <4>1. CASE k \in missing
        <5>1. U = {}
          BY <2>2, <4>1
        <5>2. Cardinality(U) = 0
          BY <5>1, FS_EmptySet
        <5> QED BY <1>4, <2>5, <3>3, <4>1, <5>2
      <4>2. CASE k \notin missing
        <5>1. locks'[k] = locks[k] /\ locks[k] # NoEntry /\ refs[locks[k]] \in Nat
          BY <1>4, <2>5, <3>3, <4>2 DEF IInv, TypeOK
        <5>2. ~ \E l \in missing : fresh[l] = locks[k]
          BY <1>3 DEF Unused
        <5> QED BY <2>3, <2>5, <3>3, <5>1, <5>2
      <4> QED BY <4>1, <4>2
    <3> QED BY <1>2, <2>5, <3>2, <3>3, <3>4
  <2> QED BY <2>4, <2>5
<1>10. RequestedByUsers'
  <2> SUFFICES ASSUME NEW k \in Key, locks'[k] # NoEntry, NEW d \in Client,
                      Requested(mutex'[locks'[k]], d)
               PROVE  k \in DOMAIN want'[d]
    BY DEF RequestedByUsers, Wanted
  <2>1. CASE k \in missing
    <3>1. mutex'[locks'[k]] = Unlocked
      BY <1>3, <1>4, <2>1
    <3> QED BY <3>1, LockManagerAssumption DEF Unlocked, Requested
  <2>2. CASE k \notin missing
    <3>1. locks'[k] = locks[k] /\ locks[k] \in Entry
      BY <1>4, <2>2 DEF IInv, TypeOK
    <3>2. mutex'[locks[k]] = mutex[locks[k]]
      BY <1>3, <3>1 DEF Unused
    <3>3. k \in Wanted(d)
      BY <3>1, <3>2 DEF IInv, RequestedByUsers
    <3> QED BY <1>1, <1>2, <3>3 DEF Wanted
  <2> QED BY <2>1, <2>2
<1> QED BY <1>5, <1>6, <1>7, <1>8, <1>9, <1>10 DEF IInv

\* The second critical section keeps the invariant: an entry goes with its
\* last user.
LEMMA DeregisterStep ==
    ASSUME IInv, NEW c \in Client, Deregister(c)
    PROVE  IInv'
<1>1. /\ want' = [want EXCEPT ![c] = NoRequest] /\ ent' = [ent EXCEPT ![c] = NoEntries]
      /\ refs' = [e \in Entry |->
                    IF \E k \in Wanted(c) : ent[c][k] = e THEN refs[e] - 1 ELSE refs[e]]
      /\ locks' = [k \in Key |->
                    IF k \in Wanted(c) /\ refs'[ent[c][k]] = 0 THEN NoEntry ELSE locks[k]]
      /\ mutex' = mutex /\ pc' = [pc EXCEPT ![c] = "idle"]
      /\ \A k \in Wanted(c) : ~Requested(entryLock(c, k), c)
  BY DEF Deregister, Goto
<1>2. /\ want'[c] = NoRequest /\ \A d \in Client \ {c} : want'[d] = want[d]
      /\ ent'[c] = NoEntries /\ \A d \in Client \ {c} : ent'[d] = ent[d]
      /\ DOMAIN NoRequest = {} /\ DOMAIN NoEntries = {}
  BY <1>1, NoRequestType DEF IInv, TypeOK, NoEntries
<1>3. /\ Wanted(c) \in SUBSET Key
      /\ \A k \in Wanted(c) : ent[c][k] = locks[k] /\ locks[k] \in Entry
      /\ \A k \in Wanted(c) : mutex[locks[k]] = entryLock(c, k)
  BY CallTypes, SameLock DEF IInv
<1> DEFINE U(k)  == {d \in Client : k \in DOMAIN want[d]}
           U2(k) == {d \in Client : k \in DOMAIN want'[d]}
<1>4. ASSUME NEW k \in Key, locks[k] # NoEntry
      PROVE  /\ locks[k] \in Entry
             /\ IsFiniteSet(U(k)) /\ refs[locks[k]] = Cardinality(U(k))
  <2>1. IsFiniteSet(U(k))
    BY LockManagerAssumption, FS_Subset
  <2> QED BY <1>4, <2>1 DEF IInv, TypeOK, NoEntryLeaks, Wanted
<1>5. ASSUME NEW k \in Wanted(c)
      PROVE  /\ locks[k] # NoEntry /\ refs'[locks[k]] = refs[locks[k]] - 1
             /\ IsFiniteSet(U2(k)) /\ refs'[locks[k]] = Cardinality(U2(k))
             /\ refs[locks[k]] - 1 \in Nat
  <2>1. locks[k] # NoEntry /\ k \in Key /\ locks[k] \in Entry
    BY <1>3, LockManagerAssumption
  <2>2. U2(k) = U(k) \ {c} /\ c \in U(k)
    BY <1>2, NoRequestType DEF Wanted
  <2>3. IsFiniteSet(U2(k)) /\ Cardinality(U2(k)) = Cardinality(U(k)) - 1
    <3> HIDE DEF U, U2
    <3> QED BY <1>4, <2>1, <2>2, FS_RemoveElement
  <2>4. Cardinality(U2(k)) \in Nat
    BY <2>3, FS_CardinalityType
  <2>5. refs'[locks[k]] = refs[locks[k]] - 1
    BY <1>1, <1>3, <2>1
  <2> QED BY <1>4, <2>1, <2>3, <2>4, <2>5
<1>6. ASSUME NEW k \in Key, k \notin Wanted(c), locks[k] # NoEntry
      PROVE  locks'[k] = locks[k] /\ refs'[locks[k]] = refs[locks[k]] /\ U2(k) = U(k)
  <2>1. ~ \E l \in Wanted(c) : ent[c][l] = locks[k]
    BY <1>3, <1>6 DEF IInv, EntriesDistinct
  <2>2. U2(k) = U(k)
    BY <1>2, <1>6, NoRequestType DEF Wanted
  <2> QED BY <1>1, <1>4, <1>6, <2>1, <2>2
<1>7. ASSUME NEW k \in Key, locks'[k] # NoEntry
      PROVE  locks'[k] = locks[k] /\ locks[k] \in Entry
  BY <1>1, <1>7 DEF IInv, TypeOK
<1>8. TypeOK'
  <2>1. refs' \in [Entry -> Nat]
    <3> SUFFICES ASSUME NEW e \in Entry PROVE refs'[e] \in Nat
      BY <1>1, Zenon
    <3>1. CASE \E k \in Wanted(c) : ent[c][k] = e
      <4>1. PICK k \in Wanted(c) : ent[c][k] = e
        BY <3>1
      <4>2. e = locks[k]
        BY <1>3, <4>1
      <4>3. refs'[locks[k]] = refs[locks[k]] - 1 /\ refs[locks[k]] - 1 \in Nat
        BY <1>5
      <4> QED BY <4>2, <4>3
    <3>2. CASE ~ \E k \in Wanted(c) : ent[c][k] = e
      BY <1>1, <3>2 DEF IInv, TypeOK
    <3> QED BY <3>1, <3>2
  <2>2. locks' \in [Key -> Entry \cup {NoEntry}]
    BY <1>1 DEF IInv, TypeOK
  <2>3. want' \in [Client -> UNION {[K -> Mode] : K \in SUBSET Key}]
    BY <1>1, NoRequestType DEF IInv, TypeOK
  <2>4. ent' \in [Client -> UNION {[K -> Entry] : K \in SUBSET Key}]
    <3>1. NoEntries \in [{} -> Entry]
      BY DEF NoEntries
    <3> QED BY <1>1, <3>1 DEF IInv, TypeOK
  <2> QED BY <1>1, <2>1, <2>2, <2>3, <2>4 DEF IInv, TypeOK
<1>9. EntriesOfCalls'
  BY <1>1, <1>2 DEF IInv, TypeOK, EntriesOfCalls, Wanted
<1>10. OneLockPerKey'
  <2> SUFFICES ASSUME NEW d \in Client, NEW k \in DOMAIN want'[d] PROVE ent'[d][k] = locks'[k]
    BY DEF OneLockPerKey, Wanted
  <2>1. d # c /\ k \in Wanted(d) /\ ent'[d][k] = locks[k] /\ locks[k] \in Entry /\ k \in Key
    BY <1>2, SameLock DEF Wanted
  <2>2. CASE k \in Wanted(c)
    <3>1. d \in U2(k)
      OBVIOUS
    <3>2. Cardinality(U2(k)) # 0
      BY <1>5, <2>2, <3>1, FS_EmptySet
    <3>3. refs'[ent[c][k]] # 0
      BY <1>3, <1>5, <2>2, <3>2
    <3> QED BY <1>1, <2>1, <3>3, Zenon
  <2>3. CASE k \notin Wanted(c)
    BY <1>1, <2>1, <2>3
  <2> QED BY <2>2, <2>3
<1>11. EntriesDistinct'
  <2> SUFFICES ASSUME NEW k \in Key, NEW l \in Key, k # l, locks'[k] # NoEntry
               PROVE  locks'[k] # locks'[l]
    BY DEF EntriesDistinct
  <2> QED BY <1>7, LockManagerAssumption DEF IInv, EntriesDistinct
<1>12. NoEntryLeaks'
  <2> SUFFICES ASSUME NEW k \in Key
               PROVE  /\ locks'[k] # NoEntry <=> \E d \in Client : k \in DOMAIN want'[d]
                      /\ locks'[k] # NoEntry => refs'[locks'[k]] = Cardinality(U2(k))
    BY DEF NoEntryLeaks, Wanted
  <2>1. CASE k \in Wanted(c)
    <3>1. locks'[k] # NoEntry <=> Cardinality(U2(k)) # 0
      <4>1. refs'[ent[c][k]] = Cardinality(U2(k)) /\ locks[k] # NoEntry
        BY <1>3, <1>5, <2>1
      <4> HIDE DEF U2
      <4> QED BY <1>1, <2>1, <4>1
    <3>2. Cardinality(U2(k)) = 0 <=> U2(k) = {}
      BY <1>5, <2>1, FS_EmptySet
    <3> QED BY <1>5, <1>7, <2>1, <3>1, <3>2
  <2>2. CASE k \notin Wanted(c) /\ locks[k] # NoEntry
    <3>1. /\ locks'[k] = locks[k] /\ refs'[locks[k]] = refs[locks[k]] /\ U2(k) = U(k)
          /\ refs[locks[k]] = Cardinality(U(k))
      BY <1>4, <1>6, <2>2
    <3>2. \E d \in Client : k \in Wanted(d)
      BY <2>2 DEF IInv, NoEntryLeaks
    <3>3. U2(k) # {}
      BY <3>1, <3>2 DEF Wanted
    <3> QED BY <2>2, <3>1, <3>3
  <2>3. CASE k \notin Wanted(c) /\ locks[k] = NoEntry
    <3>1. locks'[k] = NoEntry
      BY <1>1, <2>3
    <3>2. ~ \E d \in Client : k \in Wanted(d)
      BY <2>3 DEF IInv, NoEntryLeaks
    <3> QED BY <1>2, <3>1, <3>2 DEF Wanted
  <2> QED BY <2>1, <2>2, <2>3
<1>13. RequestedByUsers'
  <2> SUFFICES ASSUME NEW k \in Key, locks'[k] # NoEntry, NEW d \in Client,
                      Requested(mutex'[locks'[k]], d)
               PROVE  k \in DOMAIN want'[d]
    BY DEF RequestedByUsers, Wanted
  <2>1. locks'[k] = locks[k] /\ locks[k] # NoEntry /\ Requested(mutex[locks[k]], d)
    BY <1>1, <1>7
  <2>2. k \in Wanted(d)
    BY <2>1 DEF IInv, RequestedByUsers
  <2>3. d # c
    BY <1>1, <1>3, <2>1, <2>2
  <2> QED BY <1>2, <2>2, <2>3 DEF Wanted
<1> QED BY <1>8, <1>9, <1>10, <1>11, <1>12, <1>13 DEF IInv

\* Every step keeps the invariant.
LEMMA NextStep == IInv /\ [ManagerNext]_mvars => IInv'
<1> SUFFICES ASSUME IInv, [ManagerNext]_mvars PROVE IInv'
  OBVIOUS
<1>1. CASE UNCHANGED mvars
  BY <1>1 DEF mvars, IInv, TypeOK, EntriesOfCalls, OneLockPerKey, EntriesDistinct,
              NoEntryLeaks, RequestedByUsers, Wanted
<1>2. ASSUME NEW c \in Client, NEW R \in Requests, Register(c, R) PROVE IInv'
  BY <1>2, RegisterStep
<1>3. ASSUME NEW c \in Client, NEW k \in Key, LockEntry(c, k) PROVE IInv'
  BY <1>3, LockNextStep
<1>4. ASSUME NEW c \in Client, NEW k \in Key, UnlockEntry(c, k) PROVE IInv'
  BY <1>4, UnlockNextStep
<1>5. ASSUME NEW c \in Client, AllLocked(c) \/ BeginRelease(c) PROVE IInv'
  BY <1>5, PcStep
<1>6. ASSUME NEW c \in Client, Deregister(c) PROVE IInv'
  BY <1>6, DeregisterStep
<1> QED BY <1>1, <1>2, <1>3, <1>4, <1>5, <1>6 DEF ManagerNext, ManagerStep

\* The invariant holds in every state of the lock manager.
THEOREM Invariance == ManagerSpec => []IInv
  BY InitInv, NextStep, PTL DEF ManagerSpec

\* The variables keep their types; in particular no reference count of an
\* entry drops below zero.
THEOREM TypeCorrect == ManagerSpec => []TypeOK
<1>1. IInv => TypeOK
  BY DEF IInv
<1> QED BY <1>1, Invariance, PTL

\* The map holds exactly the entries in use, with the right reference counts.
THEOREM EntriesCounted == ManagerSpec => []NoEntryLeaks
<1>1. IInv => NoEntryLeaks
  BY DEF IInv
<1> QED BY <1>1, Invariance, PTL

\* Whoever holds a key Exclusive holds it alone, whichever entries came and
\* went.
THEOREM ExclusiveIsExclusive == ManagerSpec => []MutualExclusion
<1>1. IInv => MutualExclusion
  <2> SUFFICES ASSUME IInv, NEW c \in Client, NEW d \in Client, NEW k \in Key,
                      c # d, Holds(c, k), Holds(d, k)
               PROVE  want[c][k] = "shared" /\ want[d][k] = "shared"
    BY DEF MutualExclusion
  <2>1. entryLock(c, k) = entryLock(d, k)
    BY SameLock DEF Holds
  <2>2. want[c][k] \in Mode /\ want[d][k] \in Mode
    BY CallTypes DEF Holds, IInv
  <2> QED BY <2>1, <2>2 DEF Holds, Inside, Mode
<1> QED BY <1>1, Invariance, PTL

-----------------------------------------------------------------------------
(* A lock nobody requested is as good as a new one: entries may come and go. *)
LEMMA IdleLock ==
    ASSUME NEW l \in RWLock(Client), \A c \in Client : ~Requested(l, c)
    PROVE  l = Unlocked
  BY DEF RWLock, Requested, Unlocked

(* The lock of a key no call wants any more is unlocked when its entry goes. *)
LEMMA DeregisterKeepsLocks ==
    ASSUME IInv, IInv', NEW c \in Client, Deregister(c)
    PROVE  lockOfKey' = lockOfKey
<1> SUFFICES ASSUME NEW k \in Key
             PROVE  (IF locks'[k] = NoEntry THEN Unlocked ELSE mutex'[locks'[k]])
                  = (IF locks[k] = NoEntry THEN Unlocked ELSE mutex[locks[k]])
  BY DEF lockOfKey
<1>1. mutex' = mutex /\ (locks'[k] = locks[k] \/ (locks'[k] = NoEntry /\ k \in Wanted(c)))
  BY DEF Deregister
<1>2. CASE locks'[k] = NoEntry /\ locks[k] # NoEntry
  <2>1. mutex[locks[k]] \in RWLock(Client)
    BY <1>2 DEF IInv, TypeOK
  <2>2. ASSUME NEW d \in Client PROVE ~Requested(mutex[locks[k]], d)
    <3> SUFFICES ASSUME Requested(mutex[locks[k]], d) PROVE FALSE
      OBVIOUS
    <3>1. k \in Wanted(d)
      BY <1>2 DEF IInv, RequestedByUsers
    <3>2. d # c
      BY <3>1, SameLock DEF Deregister
    <3>3. k \in Wanted(d)'
      BY <3>1, <3>2 DEF Deregister, Wanted, IInv, TypeOK
    <3> QED BY <1>2, <3>3 DEF IInv, NoEntryLeaks
  <2>3. mutex[locks[k]] = Unlocked
    BY <2>1, <2>2, IdleLock
  <2> QED BY <1>2, <2>3
<1> QED BY <1>1, <1>2

(* A new entry is unlocked, and no other key gets a different lock. *)
LEMMA RegisterKeepsLocks ==
    ASSUME IInv, NEW c \in Client, NEW R \in Requests, Register(c, R)
    PROVE  lockOfKey' = lockOfKey
<1> DEFINE missing == {k \in DOMAIN normalizeRequests(R) : locks[k] = NoEntry}
<1>1. PICK fresh \in [missing -> {e \in Entry : Unused(e)}] :
        /\ locks' = [k \in Key |-> IF k \in missing THEN fresh[k] ELSE locks[k]]
        /\ mutex' = [e \in Entry |->
                      IF \E k \in missing : fresh[k] = e THEN Unlocked ELSE mutex[e]]
  BY DEF Register
<1> SUFFICES ASSUME NEW k \in Key
             PROVE  (IF locks'[k] = NoEntry THEN Unlocked ELSE mutex'[locks'[k]])
                  = (IF locks[k] = NoEntry THEN Unlocked ELSE mutex[locks[k]])
  BY DEF lockOfKey
<1>2. CASE k \in missing
  BY <1>1, <1>2
<1>3. CASE k \notin missing
  <2>1. locks'[k] = locks[k]
    BY <1>1, <1>3
  <2>2. CASE locks[k] # NoEntry
    <3>1. locks[k] \in Entry /\ ~ \E l \in missing : fresh[l] = locks[k]
      BY <2>2 DEF Unused, IInv, TypeOK
    <3>2. mutex'[locks[k]] = mutex[locks[k]]
      BY <1>1, <3>1
    <3> QED BY <2>1, <3>2
  <2> QED BY <2>1, <2>2
<1> QED BY <1>2, <1>3

(* Changing one entry's lock changes the lock of one key. *)
LEMMA OneKeyChanges ==
    ASSUME IInv, NEW c \in Client, NEW k \in Wanted(c), NEW l, locks' = locks,
           mutex' = [mutex EXCEPT ![ent[c][k]] = l]
    PROVE  lockOfKey' = [lockOfKey EXCEPT ![k] = l]
<1>1. k \in Key /\ locks[k] \in Entry /\ ent[c][k] = locks[k] /\ NoEntry \notin Entry
  BY SameLock, LockManagerAssumption
<1>2. \A m \in Key : m # k /\ locks[m] # NoEntry =>
          mutex'[locks[m]] = mutex[locks[m]] /\ locks[m] # locks[k]
  BY <1>1 DEF IInv, EntriesDistinct, TypeOK
<1>3. mutex'[locks[k]] = l
  BY <1>1 DEF IInv, TypeOK
<1> QED BY <1>1, <1>2, <1>3 DEF lockOfKey

\* The empty map stands for unlocked keys.
LEMMA RefineInit == NewManager => KL!Init
  BY DEF NewManager, KL!Init, lockOfKey, NoRequest, normalizeRequests, KL!NoWants,
         KL!Strongest, Unlocked, KL!Unlocked

\* Every step of the lock manager is a step of the abstract locks, or a
\* stutter.
LEMMA RefineNext == IInv /\ IInv' /\ [ManagerNext]_mvars => [KL!Next]_KL!vars
<1> SUFFICES ASSUME IInv, IInv', [ManagerNext]_mvars PROVE [KL!Next]_KL!vars
  OBVIOUS
<1>1. CASE UNCHANGED mvars
  BY <1>1 DEF mvars, KL!vars, lockOfKey
<1>2. ASSUME NEW c \in Client, NEW R \in Requests, Register(c, R) PROVE KL!Acquire(c, R)
  BY <1>2, RegisterKeepsLocks
     DEF Register, KL!Acquire, Goto, KL!Goto, normalizeRequests, KL!Strongest
<1>3. ASSUME NEW c \in Client, NEW k \in Key, LockEntry(c, k) PROVE KL!LockNext(c, k)
  <2>1. \A m \in Wanted(c) : lockOfKey[m] = entryLock(c, m)
    BY SameLock
  <2>2. lockOfKey' = [lockOfKey EXCEPT ![k] = AfterRequest(entryLock(c, k), c, want[c][k])]
    <3>1. /\ k \in Wanted(c) /\ locks' = locks
          /\ mutex' = [mutex EXCEPT ![ent[c][k]] = AfterRequest(entryLock(c, k), c, want[c][k])]
      BY <1>3 DEF LockEntry, entryLock
    <3> QED BY <3>1, OneKeyChanges
  <2>3. lockOfKey' = [lockOfKey EXCEPT ![k] = AfterRequest(@, c, want[c][k])]
    BY <1>3, <2>1, <2>2 DEF LockEntry
  <2> QED BY <1>3, <2>1, <2>3
       DEF LockEntry, KL!LockNext, Wanted, KL!Wanted, Inside, KL!Inside, Requested,
           KL!Requested, MayRequest, KL!MayRequest, AfterRequest, KL!AfterRequest
<1>4. ASSUME NEW c \in Client, NEW k \in Key, UnlockEntry(c, k) PROVE KL!UnlockNext(c, k)
  <2>1. \A m \in Wanted(c) : lockOfKey[m] = entryLock(c, m)
    BY SameLock
  <2>2. lockOfKey' = [lockOfKey EXCEPT ![k] = AfterUnlock(entryLock(c, k), c, want[c][k])]
    <3>1. /\ k \in Wanted(c) /\ locks' = locks
          /\ mutex' = [mutex EXCEPT ![ent[c][k]] = AfterUnlock(entryLock(c, k), c, want[c][k])]
      BY <1>4 DEF UnlockEntry, entryLock
    <3> QED BY <3>1, OneKeyChanges
  <2>3. lockOfKey' = [lockOfKey EXCEPT ![k] = AfterUnlock(@, c, want[c][k])]
    BY <1>4, <2>1, <2>2 DEF UnlockEntry
  <2> QED BY <1>4, <2>1, <2>3
       DEF UnlockEntry, KL!UnlockNext, Wanted, KL!Wanted, Requested, KL!Requested,
           AfterUnlock, KL!AfterUnlock
<1>5. ASSUME NEW c \in Client, AllLocked(c) PROVE KL!Return(c)
  <2>1. \A m \in Wanted(c) : lockOfKey[m] = entryLock(c, m)
    BY SameLock
  <2> QED BY <1>5, <2>1 DEF AllLocked, KL!Return, Goto, KL!Goto, Wanted, KL!Wanted, Inside,
                            KL!Inside, lockOfKey
<1>6. ASSUME NEW c \in Client, BeginRelease(c) PROVE KL!Release(c)
  BY <1>6 DEF BeginRelease, KL!Release, Goto, KL!Goto, lockOfKey
<1>7. ASSUME NEW c \in Client, Deregister(c) PROVE KL!Done(c)
  <2>1. \A m \in Wanted(c) : lockOfKey[m] = entryLock(c, m)
    BY SameLock
  <2> QED BY <1>7, <2>1, DeregisterKeepsLocks
       DEF Deregister, KL!Done, Goto, KL!Goto, Wanted, KL!Wanted, Requested, KL!Requested,
           NoRequest, KL!NoWants, normalizeRequests, KL!Strongest
<1> QED BY <1>1, <1>2, <1>3, <1>4, <1>5, <1>6, <1>7 DEF ManagerNext, ManagerStep, KL!Next, KL!Step

\* The map of counted entries implements one readers-writer lock per key.
THEOREM Refinement == ManagerSpec => ImplementsKeyLocks
<1>1. ManagerSpec => []IInv
  BY Invariance
<1>2. KL!Spec <=> ImplementsKeyLocks
  BY DEF ImplementsKeyLocks
<1> QED BY <1>1, <1>2, RefineInit, RefineNext, PTL DEF ManagerSpec, KL!Spec

-----------------------------------------------------------------------------
(***************************************************************************)
(* What the nested Acquire calls of the request handlers promise, for any  *)
(* number of handlers.                                                     *)
(***************************************************************************)
-----------------------------------------------------------------------------
(* The lists of calls. *)

\* What two lists of calls make together.
LEMMA JoinedIs ==
  ASSUME NEW S, NEW x \in Seq(S), NEW y \in Seq(S), NEW z \in Seq(S),
         Len(z) = Len(x) + Len(y),
         \A i \in 1 .. Len(x) : z[i] = x[i],
         \A i \in 1 .. Len(y) : z[Len(x) + i] = y[i]
  PROVE  x \o y = z
  OBVIOUS

LEMMA JoinedFour ==
  ASSUME NEW a, NEW b, NEW c, NEW d
  PROVE  <<a>> \o <<b, c>> \o <<d>> = <<a, b, c, d>>
  <1> DEFINE S == {a, b, c, d}
             x == <<a>>
             y == <<b, c>>
             z == <<d>>
             u == <<a, b, c>>
             v == <<a, b, c, d>>
  <1>1. x \in Seq(S) /\ y \in Seq(S) /\ z \in Seq(S) /\ u \in Seq(S) /\ v \in Seq(S)
    OBVIOUS
  <1>2. Len(x) = 1 /\ Len(y) = 2 /\ Len(z) = 1 /\ Len(u) = 3 /\ Len(v) = 4
    OBVIOUS
  <1>3. /\ \A n \in 1 .. 1 : u[n] = x[n]
        /\ \A n \in 1 .. 2 : u[1 + n] = y[n]
    OBVIOUS
  <1>4. /\ \A n \in 1 .. 3 : v[n] = u[n]
        /\ \A n \in 1 .. 1 : v[3 + n] = z[n]
    OBVIOUS
  <1> HIDE DEF S, x, y, z, u, v
  <1>5. x \o y = u
    <2>1. /\ Len(u) = Len(x) + Len(y)
          /\ \A n \in 1 .. Len(x) : u[n] = x[n]
          /\ \A n \in 1 .. Len(y) : u[Len(x) + n] = y[n]
      BY <1>2, <1>3
    <2> QED BY <1>1, <2>1, JoinedIs
  <1>6. u \o z = v
    <2>1. /\ Len(v) = Len(u) + Len(z)
          /\ \A n \in 1 .. Len(u) : v[n] = u[n]
          /\ \A n \in 1 .. Len(z) : v[Len(u) + n] = z[n]
      BY <1>2, <1>4
    <2> QED BY <1>1, <2>1, JoinedIs
  <1> QED BY <1>5, <1>6 DEF x, y, z, u, v

LEMMA JoinedSix ==
  ASSUME NEW a, NEW b, NEW c, NEW d, NEW e, NEW f
  PROVE  <<a, b, c>> \o <<d, e>> \o <<f>> = <<a, b, c, d, e, f>>
  <1> DEFINE S == {a, b, c, d, e, f}
             x == <<a, b, c>>
             y == <<d, e>>
             z == <<f>>
             u == <<a, b, c, d, e>>
             v == <<a, b, c, d, e, f>>
  <1>1. x \in Seq(S) /\ y \in Seq(S) /\ z \in Seq(S) /\ u \in Seq(S) /\ v \in Seq(S)
    OBVIOUS
  <1>2. Len(x) = 3 /\ Len(y) = 2 /\ Len(z) = 1 /\ Len(u) = 5 /\ Len(v) = 6
    OBVIOUS
  <1>3. /\ \A n \in 1 .. 3 : u[n] = x[n]
        /\ \A n \in 1 .. 2 : u[3 + n] = y[n]
    OBVIOUS
  <1>4. /\ \A n \in 1 .. 5 : v[n] = u[n]
        /\ \A n \in 1 .. 1 : v[5 + n] = z[n]
    OBVIOUS
  <1> HIDE DEF S, x, y, z, u, v
  <1>5. x \o y = u
    <2>1. /\ Len(u) = Len(x) + Len(y)
          /\ \A n \in 1 .. Len(x) : u[n] = x[n]
          /\ \A n \in 1 .. Len(y) : u[Len(x) + n] = y[n]
      BY <1>2, <1>3
    <2> QED BY <1>1, <2>1, JoinedIs
  <1>6. u \o z = v
    <2>1. /\ Len(v) = Len(u) + Len(z)
          /\ \A n \in 1 .. Len(u) : v[n] = u[n]
          /\ \A n \in 1 .. Len(z) : v[Len(u) + n] = z[n]
      BY <1>2, <1>4
    <2> QED BY <1>1, <2>1, JoinedIs
  <1> QED BY <1>5, <1>6 DEF x, y, z, u, v

LEMMA JoinedTen ==
  ASSUME NEW a, NEW b, NEW c, NEW d, NEW e, NEW f, NEW g, NEW h, NEW i, NEW j
  PROVE  <<a, b, c, d>> \o <<e, f>> \o <<g, h, i, j>> = <<a, b, c, d, e, f, g, h, i, j>>
  <1> DEFINE S == {a, b, c, d, e, f, g, h, i, j}
             x == <<a, b, c, d>>
             y == <<e, f>>
             z == <<g, h, i, j>>
             u == <<a, b, c, d, e, f>>
             v == <<a, b, c, d, e, f, g, h, i, j>>
  <1>1. x \in Seq(S) /\ y \in Seq(S) /\ z \in Seq(S) /\ u \in Seq(S) /\ v \in Seq(S)
    OBVIOUS
  <1>2. Len(x) = 4 /\ Len(y) = 2 /\ Len(z) = 4 /\ Len(u) = 6 /\ Len(v) = 10
    OBVIOUS
  <1>3. /\ \A n \in 1 .. 4 : u[n] = x[n]
        /\ \A n \in 1 .. 2 : u[4 + n] = y[n]
    OBVIOUS
  <1>4. /\ \A n \in 1 .. 6 : v[n] = u[n]
        /\ \A n \in 1 .. 4 : v[6 + n] = z[n]
    OBVIOUS
  <1> HIDE DEF S, x, y, z, u, v
  <1>5. x \o y = u
    <2>1. /\ Len(u) = Len(x) + Len(y)
          /\ \A n \in 1 .. Len(x) : u[n] = x[n]
          /\ \A n \in 1 .. Len(y) : u[Len(x) + n] = y[n]
      BY <1>2, <1>3
    <2> QED BY <1>1, <2>1, JoinedIs
  <1>6. u \o z = v
    <2>1. /\ Len(v) = Len(u) + Len(z)
          /\ \A n \in 1 .. Len(u) : v[n] = u[n]
          /\ \A n \in 1 .. Len(z) : v[Len(u) + n] = z[n]
      BY <1>2, <1>4
    <2> QED BY <1>1, <2>1, JoinedIs
  <1> QED BY <1>5, <1>6 DEF x, y, z, u, v

-----------------------------------------------------------------------------
(* The requests: the keys of each, and the keys it wants for itself. *)

Keys(R) == {r.key : r \in R}
Alone(R) == {k \in Keys(R) : [key |-> k, mode |-> "exclusive"] \in R}

LEMMA SharedKeys ==
  ASSUME NEW K
  PROVE  Keys(Shared(K)) = K /\ Alone(Shared(K)) = {}
  <1>1. ASSUME NEW k \in K PROVE k \in Keys(Shared(K))
    <2>1. [key |-> k, mode |-> "shared"] \in Shared(K)
      BY DEF Shared
    <2> QED BY <2>1 DEF Keys
  <1>2. Keys(Shared(K)) \subseteq K
    BY DEF Keys, Shared
  <1>3. Alone(Shared(K)) = {}
    BY DEF Alone, Shared
  <1> QED BY <1>1, <1>2, <1>3

LEMMA ExclusiveKeys ==
  ASSUME NEW K
  PROVE  Keys(Exclusive(K)) = K /\ Alone(Exclusive(K)) = K
  <1>1. ASSUME NEW k \in K
        PROVE  k \in Keys(Exclusive(K))
                 /\ [key |-> k, mode |-> "exclusive"] \in Exclusive(K)
    <2>1. [key |-> k, mode |-> "exclusive"] \in Exclusive(K)
      BY DEF Exclusive
    <2> QED BY <2>1 DEF Keys
  <1>2. Keys(Exclusive(K)) \subseteq K
    BY DEF Keys, Exclusive
  <1>3. Alone(Exclusive(K)) = K
    BY <1>1, <1>2 DEF Alone
  <1> QED BY <1>1, <1>2, <1>3

LEMMA UnionKeys ==
  ASSUME NEW A, NEW B
  PROVE  /\ Keys(A \cup B) = Keys(A) \cup Keys(B)
         /\ Alone(A \cup B) = Alone(A) \cup Alone(B)
  <1>1. Keys(A \cup B) = Keys(A) \cup Keys(B)
    BY DEF Keys
  <1>2. \A k : [key |-> k, mode |-> "exclusive"] \in A => k \in Keys(A)
    BY DEF Keys
  <1>3. \A k : [key |-> k, mode |-> "exclusive"] \in B => k \in Keys(B)
    BY DEF Keys
  <1>4. Alone(A \cup B) = Alone(A) \cup Alone(B)
    BY <1>1, <1>2, <1>3 DEF Alone
  <1> QED BY <1>1, <1>4

LEMMA NoKeys == Keys({}) = {} /\ Alone({}) = {}
  BY DEF Keys, Alone

\* The requests of the handlers that are made of several.
repositoryWrite == RepositoryRequests("exclusive")
jobRequests(job) == RepositoryRequests("shared") \cup Exclusive({job})
publishRequests == RepositoryRequests("shared") \cup LFSRequests
queueRequests == Exclusive({Catalog, Queue})
mergeRequests == Exclusive({Merge})

LEMMA RequestKeys ==
  ASSUME NEW S, NEW E
  PROVE  /\ Keys(Shared(S) \cup Exclusive(E)) = S \cup E
         /\ Alone(Shared(S) \cup Exclusive(E)) = E
  <1>1. Keys(Shared(S) \cup Exclusive(E)) = Keys(Shared(S))
          \cup Keys(Exclusive(E))
    BY UnionKeys
  <1>2. Alone(Shared(S) \cup Exclusive(E)) = Alone(Shared(S))
          \cup Alone(Exclusive(E))
    BY UnionKeys
  <1>3. Keys(Shared(S)) = S /\ Alone(Shared(S)) = {}
    BY SharedKeys
  <1>4. Keys(Exclusive(E)) = E /\ Alone(Exclusive(E)) = E
    BY ExclusiveKeys
  <1> QED BY <1>1, <1>2, <1>3, <1>4

LEMMA RepositoryKeys ==
  /\ Keys(RepositoryRequests("shared")) = {Catalog, GroupA, GroupB,
     Repository}
  /\ Alone(RepositoryRequests("shared")) = {}
  /\ Keys(repositoryWrite) = {Catalog, GroupA, GroupB, Repository}
  /\ Alone(repositoryWrite) = {Repository}
  <1>1. RepositoryRequests("shared") = Shared({Catalog, GroupA,
        GroupB, Repository})
    BY DEF RepositoryRequests, Shared
  <1>2. repositoryWrite = Shared({Catalog, GroupA, GroupB})
          \cup Exclusive({Repository})
    BY DEF RepositoryRequests, Exclusive, repositoryWrite
  <1>3. Keys(RepositoryRequests("shared")) = {Catalog, GroupA, GroupB,
        Repository}
        /\ Alone(RepositoryRequests("shared")) = {}
    BY <1>1, SharedKeys
  <1>4. Keys(repositoryWrite) = {Catalog, GroupA, GroupB} \cup {Repository}
        /\ Alone(repositoryWrite) = {Repository}
    BY <1>2, RequestKeys
  <1> QED BY <1>3, <1>4

LEMMA LfsKeys ==
  /\ Keys(LFSRequests) = {Catalog, GroupA, Lfs}
  /\ Alone(LFSRequests) = {Lfs}
  <1>1. /\ Keys(LFSRequests) = {Catalog, GroupA} \cup {Lfs}
        /\ Alone(LFSRequests) = {Lfs}
    BY RequestKeys DEF LFSRequests
  <1> QED BY <1>1

LEMMA JobKeys ==
  ASSUME NEW job
  PROVE  /\ Keys(jobRequests(job)) = {Catalog, GroupA, GroupB, Repository, job}
         /\ Alone(jobRequests(job)) = {job}
  <1>1. Keys(jobRequests(job)) = Keys(RepositoryRequests("shared"))
          \cup Keys(Exclusive({job}))
    BY UnionKeys DEF jobRequests
  <1>2. Alone(jobRequests(job)) = Alone(RepositoryRequests("shared"))
          \cup Alone(Exclusive({job}))
    BY UnionKeys DEF jobRequests
  <1>3. Keys(RepositoryRequests("shared")) = {Catalog, GroupA, GroupB,
        Repository} /\ Alone(RepositoryRequests("shared")) = {}
    BY RepositoryKeys
  <1>4. Keys(Exclusive({job})) = {job} /\ Alone(Exclusive({job})) = {job}
    BY ExclusiveKeys
  <1> QED BY <1>1, <1>2, <1>3, <1>4

LEMMA PublishKeys ==
  /\ Keys(publishRequests) = {Catalog, GroupA, GroupB, Repository, Lfs}
  /\ Alone(publishRequests) = {Lfs}
  <1>1. Keys(publishRequests) = Keys(RepositoryRequests("shared"))
          \cup Keys(LFSRequests)
    BY UnionKeys DEF publishRequests
  <1>2. Alone(publishRequests) = Alone(RepositoryRequests("shared"))
          \cup Alone(LFSRequests)
    BY UnionKeys DEF publishRequests
  <1>3. Keys(RepositoryRequests("shared")) = {Catalog, GroupA, GroupB,
        Repository} /\ Alone(RepositoryRequests("shared")) = {}
    BY RepositoryKeys
  <1>4. Keys(LFSRequests) = {Catalog, GroupA, Lfs}
          /\ Alone(LFSRequests) = {Lfs}
    BY LfsKeys
  <1> QED BY <1>1, <1>2, <1>3, <1>4

LEMMA QueueKeys ==
  /\ Keys(queueRequests) = {Catalog, Queue}
  /\ Alone(queueRequests) = {Catalog, Queue}
  BY ExclusiveKeys DEF queueRequests

LEMMA DependentKeys ==
  ASSUME NEW job
  PROVE  Keys(Exclusive({job})) = {job} /\ Alone(Exclusive({job})) = {job}
  BY ExclusiveKeys

LEMMA MergeKeys ==
  /\ Keys(mergeRequests) = {Merge}
  /\ Alone(mergeRequests) = {Merge}
  BY ExclusiveKeys DEF mergeRequests

LEMMA ReviewKeys ==
  /\ Keys(ReviewRepositoryRequests) = {ReviewCatalog, ReviewA, ReviewB,
     ReviewRepository}
  /\ Alone(ReviewRepositoryRequests) = {ReviewRepository}
  <1>1. /\ Keys(ReviewRepositoryRequests) = {ReviewCatalog, ReviewA,
           ReviewB} \cup {ReviewRepository}
        /\ Alone(ReviewRepositoryRequests) = {ReviewRepository}
    BY RequestKeys DEF ReviewRepositoryRequests
  <1> QED BY <1>1

LEMMA IssueKeys ==
  /\ Keys(IssueRepositoryRequests) = {IssueCatalog, IssueA, IssueB,
     IssueRepository}
  /\ Alone(IssueRepositoryRequests) = {IssueRepository}
  <1>1. /\ Keys(IssueRepositoryRequests) = {IssueCatalog, IssueA,
           IssueB} \cup {IssueRepository}
        /\ Alone(IssueRepositoryRequests) = {IssueRepository}
    BY RequestKeys DEF IssueRepositoryRequests
  <1> QED BY <1>1

LEMMA GroupGroupKeys ==
  ASSUME NEW group
  PROVE  /\ Keys(GroupRequests(group)) = {Catalog, GroupA, group}
         /\ Alone(GroupRequests(group)) = {group}
  <1>1. /\ Keys(GroupRequests(group)) = {Catalog, GroupA} \cup {group}
        /\ Alone(GroupRequests(group)) = {group}
    BY RequestKeys DEF GroupRequests
  <1> QED BY <1>1

LEMMA ReviewGroupKeys ==
  ASSUME NEW group
  PROVE  /\ Keys(ReviewGroupRequests(group)) = {ReviewCatalog, ReviewA, group}
         /\ Alone(ReviewGroupRequests(group)) = {group}
  <1>1. /\ Keys(ReviewGroupRequests(group)) = {ReviewCatalog, ReviewA}
             \cup {group}
        /\ Alone(ReviewGroupRequests(group)) = {group}
    BY RequestKeys DEF ReviewGroupRequests
  <1> QED BY <1>1

LEMMA IssueGroupKeys ==
  ASSUME NEW group
  PROVE  /\ Keys(IssueGroupRequests(group)) = {IssueCatalog, IssueA, group}
         /\ Alone(IssueGroupRequests(group)) = {group}
  <1>1. /\ Keys(IssueGroupRequests(group)) = {IssueCatalog, IssueA} \cup {group}
        /\ Alone(IssueGroupRequests(group)) = {group}
    BY RequestKeys DEF IssueGroupRequests
  <1> QED BY <1>1

LEMMA KeyNumbers ==
  /\ Catalog = 0 /\ GroupA = 10 /\ GroupB = 11 /\ Repository = 20
  /\ Lfs = 30 /\ Queue = 40 /\ Job1 = 41 /\ Job2 = 42
  /\ ReviewCatalog = 49 /\ ReviewA = 50 /\ ReviewB = 51
       /\ ReviewRepository = 52
  /\ IssueCatalog = 53 /\ IssueA = 54 /\ IssueB = 55 /\ IssueRepository = 56
  /\ Merge = 60 /\ Jobs = {41, 42}
  BY DEF Catalog, GroupA, GroupB, Repository, Lfs, Queue,
     Job1, Job2,
         ReviewCatalog, ReviewA, ReviewB, ReviewRepository,
         IssueCatalog,
         IssueA, IssueB, IssueRepository, Merge, Jobs

-----------------------------------------------------------------------------
(* The calls that a handler has made and not yet released, the outermost first; *)
(* {} where there is none.                                                      *)

NoCalls == <<{}, {}, {}>>
Stack(s) ==
    \E a, b, c : s = <<a, b, c>> /\ (a = {} => b = {}) /\ (b = {} => c = {})
depth(s) == IF s[1] = {} THEN 0 ELSE IF s[2] = {} THEN 1 ELSE IF s[3] = {} THEN 2 ELSE 3

\* The order in which nested calls really take their keys.
Rank(k) == IF k = Merge THEN 25 ELSE IF k \in Jobs THEN 42 ELSE k

\* Whoever has one of these works below a group.
Below == {Repository, Queue, Job1, Job2, ReviewRepository,
IssueRepository, Merge}

\* Keys are taken in the order of their ranks, call after call and within a call,
\* but one job may be taken after another.
Climbs(s) ==
    /\ \A d, e \in 1 .. 3 : d < e =>
          \A k \in Keys(s[d]), l \in Keys(s[e]) : Rank(k) < Rank(l) \/ {k, l} \subseteq Jobs
    /\ \A d \in 1 .. 3 : \A k, l \in Keys(s[d]) : k < l => Rank(k) < Rank(l)
\* Whoever moves the issues of a group has the group and its reviews as well ...
MovesAll(s) ==
    \A d \in 1 .. 3 :
        /\ IssueA \in Alone(s[d]) =>
             d = 3 /\ Catalog \in Keys(s[1]) /\ GroupA \in Alone(s[1])
               /\ ReviewA \in Alone(s[2])
        /\ IssueB \in Alone(s[d]) =>
             d = 3 /\ Catalog \in Keys(s[1]) /\ GroupB \in Alone(s[1])
               /\ ReviewB \in Alone(s[2])
\* ... and the outermost call of whoever works below a group protects that group.
Protects(R) ==
    \/ {GroupA, GroupB} \subseteq Keys(R) \/ Catalog \in Alone(R)
    \/ {ReviewA, ReviewB} \subseteq Keys(R) \/ {IssueA,
       IssueB} \subseteq Keys(R)
WorksProtected(s) ==
    \A d \in 1 .. 3 : Keys(s[d]) \cap Below # {} => Protects(s[1])

Known(s) == \A d \in 1 .. 3 : Keys(s[d]) \subseteq HandlerKeys

\* A job is locked alone: as the own job, last in the outermost call, under the lock
\* of its repository, or for reconciliation, in an innermost call of its own.
JobsAlone(s) ==
    \A d \in 1 .. 3 : \A k \in Jobs \cap Keys(s[d]) :
        /\ k \in Alone(s[d]) /\ \A l \in Keys(s[d]) : l <= k
        /\ d = 1 => Repository \in Keys(s[1]) \ Alone(s[1])
        /\ d > 1 => Keys(s[d]) = {k} /\ (d = 2 => s[3] = {})

Sound(s) == Known(s) /\ Climbs(s) /\ MovesAll(s) /\ WorksProtected(s) /\ JobsAlone(s)

\* No job is locked for reconciliation.
Plain(s) == \A d \in 2 .. 3 : Keys(s[d]) \cap Jobs = {}

LEMMA SoundPrefix ==
  ASSUME NEW a, NEW b, NEW c, Sound(<<a, b, c>>)
  PROVE  Sound(<<a, b, {}>>) /\ Sound(<<a, {}, {}>>) /\ Sound(<<{}, {}, {}>>)
  BY NoKeys DEF Sound, Known, Climbs, MovesAll, WorksProtected, JobsAlone

\* The ranks of the keys of a call lie between two numbers, and the call takes its
\* keys in the order of their ranks.
Spans(R, low, high) ==
    /\ \A k \in Keys(R) : low <= Rank(k) /\ Rank(k) <= high
    /\ \A k, l \in Keys(R) : k < l => Rank(k) < Rank(l)

LEMMA ClimbsBySpans ==
  ASSUME NEW a, NEW b, NEW c, NEW la \in Nat, NEW ha \in Nat, NEW lb \in Nat,
         NEW hb \in Nat,
         NEW lc \in Nat, NEW hc \in Nat, Spans(a, la, ha), Spans(b, lb, hb), Spans(c, lc,
         hc),
         ha < lb, hb < lc, ha < lc,
         \A k \in Keys(a) \cup Keys(b) \cup Keys(c) : Rank(k) \in Nat
  PROVE  Climbs(<<a, b, c>>)
  <1>1. \A k \in Keys(a), l \in Keys(b) : Rank(k) < Rank(l)
    BY DEF Spans
  <1>2. \A k \in Keys(a), l \in Keys(c) : Rank(k) < Rank(l)
    BY DEF Spans
  <1>3. \A k \in Keys(b), l \in Keys(c) : Rank(k) < Rank(l)
    BY DEF Spans
  <1>4. \A d \in 1 .. 3 : d = 1 \/ d = 2 \/ d = 3
    OBVIOUS
  <1> QED BY <1>1, <1>2, <1>3, <1>4 DEF Climbs, Spans

LEMMA ClimbsAlone ==
  ASSUME NEW a, NEW la, NEW ha, Spans(a, la, ha)
  PROVE  Climbs(<<a, {}, {}>>)
  <1>1. \A d \in 1 .. 3 : d = 1 \/ d = 2 \/ d = 3
    OBVIOUS
  <1> QED BY <1>1, NoKeys DEF Climbs, Spans

LEMMA SpanRepository ==
  /\ Spans(repositoryWrite, 0, 20)
  /\ \A k \in Keys(repositoryWrite) : Rank(k) \in Nat
  BY RepositoryKeys, KeyNumbers DEF Spans, Rank

LEMMA SpanDependent ==
  ASSUME NEW job \in Jobs
  PROVE  /\ Spans(Exclusive({job}), 42, 42)
         /\ \A k \in Keys(Exclusive({job})) : Rank(k) \in Nat
  <1>1. job \in {41, 42} /\ Keys(Exclusive({job})) = {job}
    BY DependentKeys, KeyNumbers
  <1>2. Rank(job) = 42
    BY <1>1, KeyNumbers DEF Rank
  <1> QED BY <1>1, <1>2 DEF Spans

LEMMA SpanReview ==
  /\ Spans(ReviewRepositoryRequests, 49, 52)
  /\ \A k \in Keys(ReviewRepositoryRequests) : Rank(k) \in Nat
  BY ReviewKeys, KeyNumbers DEF Spans, Rank

LEMMA SpanIssue ==
  /\ Spans(IssueRepositoryRequests, 53, 56)
  /\ \A k \in Keys(IssueRepositoryRequests) : Rank(k) \in Nat
  BY IssueKeys, KeyNumbers DEF Spans, Rank

LEMMA SpanMerge ==
  /\ Spans(mergeRequests, 25, 25)
  /\ \A k \in Keys(mergeRequests) : Rank(k) \in Nat
  BY MergeKeys, KeyNumbers DEF Spans, Rank

LEMMA SpanQueue ==
  /\ Spans(queueRequests, 0, 40)
  /\ \A k \in Keys(queueRequests) : Rank(k) \in Nat
  BY QueueKeys, KeyNumbers DEF Spans, Rank

LEMMA SpanLfs ==
  /\ Spans(LFSRequests, 0, 30)
  /\ \A k \in Keys(LFSRequests) : Rank(k) \in Nat
  BY LfsKeys, KeyNumbers DEF Spans, Rank

LEMMA SpanPublish ==
  /\ Spans(publishRequests, 0, 30)
  /\ \A k \in Keys(publishRequests) : Rank(k) \in Nat
  BY PublishKeys, KeyNumbers DEF Spans, Rank

LEMMA SpanGroupGroupA ==
  /\ Spans(GroupRequests(GroupA), 0, 11)
  /\ \A k \in Keys(GroupRequests(GroupA)) : Rank(k) \in Nat
  <1> DEFINE K == Keys(GroupRequests(GroupA))
  <1>1. K = {Catalog, GroupA, GroupA}
    BY GroupGroupKeys
  <1> HIDE DEF K
  <1>2. /\ \A k \in K : 0 <= Rank(k) /\ Rank(k) <= 11 /\ Rank(k) \in Nat
        /\ \A k, l \in K : k < l => Rank(k) < Rank(l)
    BY <1>1, KeyNumbers DEF Rank
  <1> QED BY <1>2 DEF Spans, K

LEMMA SpanGroupGroupB ==
  /\ Spans(GroupRequests(GroupB), 0, 11)
  /\ \A k \in Keys(GroupRequests(GroupB)) : Rank(k) \in Nat
  <1> DEFINE K == Keys(GroupRequests(GroupB))
  <1>1. K = {Catalog, GroupA, GroupB}
    BY GroupGroupKeys
  <1> HIDE DEF K
  <1>2. /\ \A k \in K : 0 <= Rank(k) /\ Rank(k) <= 11 /\ Rank(k) \in Nat
        /\ \A k, l \in K : k < l => Rank(k) < Rank(l)
    BY <1>1, KeyNumbers DEF Rank
  <1> QED BY <1>2 DEF Spans, K

LEMMA SpanReviewGroupA ==
  /\ Spans(ReviewGroupRequests(ReviewA), 49, 51)
  /\ \A k \in Keys(ReviewGroupRequests(ReviewA)) : Rank(k) \in Nat
  <1> DEFINE K == Keys(ReviewGroupRequests(ReviewA))
  <1>1. K = {ReviewCatalog, ReviewA, ReviewA}
    BY ReviewGroupKeys
  <1> HIDE DEF K
  <1>2. /\ \A k \in K : 49 <= Rank(k) /\ Rank(k) <= 51 /\ Rank(k) \in Nat
        /\ \A k, l \in K : k < l => Rank(k) < Rank(l)
    BY <1>1, KeyNumbers DEF Rank
  <1> QED BY <1>2 DEF Spans, K

LEMMA SpanReviewGroupB ==
  /\ Spans(ReviewGroupRequests(ReviewB), 49, 51)
  /\ \A k \in Keys(ReviewGroupRequests(ReviewB)) : Rank(k) \in Nat
  <1> DEFINE K == Keys(ReviewGroupRequests(ReviewB))
  <1>1. K = {ReviewCatalog, ReviewA, ReviewB}
    BY ReviewGroupKeys
  <1> HIDE DEF K
  <1>2. /\ \A k \in K : 49 <= Rank(k) /\ Rank(k) <= 51 /\ Rank(k) \in Nat
        /\ \A k, l \in K : k < l => Rank(k) < Rank(l)
    BY <1>1, KeyNumbers DEF Rank
  <1> QED BY <1>2 DEF Spans, K

LEMMA SpanIssueGroupA ==
  /\ Spans(IssueGroupRequests(IssueA), 53, 55)
  /\ \A k \in Keys(IssueGroupRequests(IssueA)) : Rank(k) \in Nat
  <1> DEFINE K == Keys(IssueGroupRequests(IssueA))
  <1>1. K = {IssueCatalog, IssueA, IssueA}
    BY IssueGroupKeys
  <1> HIDE DEF K
  <1>2. /\ \A k \in K : 53 <= Rank(k) /\ Rank(k) <= 55 /\ Rank(k) \in Nat
        /\ \A k, l \in K : k < l => Rank(k) < Rank(l)
    BY <1>1, KeyNumbers DEF Rank
  <1> QED BY <1>2 DEF Spans, K

LEMMA SpanIssueGroupB ==
  /\ Spans(IssueGroupRequests(IssueB), 53, 55)
  /\ \A k \in Keys(IssueGroupRequests(IssueB)) : Rank(k) \in Nat
  <1> DEFINE K == Keys(IssueGroupRequests(IssueB))
  <1>1. K = {IssueCatalog, IssueA, IssueB}
    BY IssueGroupKeys
  <1> HIDE DEF K
  <1>2. /\ \A k \in K : 53 <= Rank(k) /\ Rank(k) <= 55 /\ Rank(k) \in Nat
        /\ \A k, l \in K : k < l => Rank(k) < Rank(l)
    BY <1>1, KeyNumbers DEF Rank
  <1> QED BY <1>2 DEF Spans, K

\* Where jobs are locked.
LEMMA NoJobs ==
  ASSUME NEW s, \A d \in 1 .. 3 : Keys(s[d]) \cap Jobs = {}
  PROVE  JobsAlone(s)
  BY DEF JobsAlone

LEMMA InnerJob ==
  ASSUME NEW job \in Jobs, NEW s, Keys(s[1]) \cap Jobs = {},
         \/ s[2] = Exclusive({job}) /\ s[3] = {}
         \/ Keys(s[2]) \cap Jobs = {} /\ s[3] = Exclusive({job})
  PROVE  JobsAlone(s)
  <1>1. Keys(Exclusive({job})) = {job} /\ Alone(Exclusive({job})) = {job} /\ job \in {41, 42}
    BY DependentKeys, KeyNumbers
  <1>2. Keys({}) = {}
    BY NoKeys
  <1>3. \A d \in 1 .. 3 : d = 1 \/ d = 2 \/ d = 3
    OBVIOUS
  <1> QED BY <1>1, <1>2, <1>3 DEF JobsAlone

LEMMA SpanNone ==
  /\ Spans({}, 200, 201)
  /\ \A k \in Keys({}) : Rank(k) \in Nat
  BY NoKeys, KeyNumbers DEF Spans, Rank

LEMMA SoundEdit ==
  ASSUME NEW job \in Jobs
  PROVE  Sound(<<repositoryWrite, Exclusive({job}), {}>>)
  <1> DEFINE s == <<repositoryWrite, Exclusive({job}), {}>>
  <1>1. s[1] = repositoryWrite /\ s[2] = Exclusive({job})
        /\ s[3] = {}
    OBVIOUS
  <1>2. Climbs(s)
    <2>1. /\ Spans(repositoryWrite, 0, 20)
          /\ Spans(Exclusive({job}), 42, 42)
          /\ Spans({}, 200, 201)
      BY SpanRepository, SpanDependent, SpanNone
    <2>2. \A k \in Keys(repositoryWrite) \cup Keys(Exclusive({job}))
            \cup Keys({}) : Rank(k) \in Nat
      BY SpanRepository, SpanDependent, SpanNone
    <2>3. /\ 0 \in Nat /\ 20 \in Nat /\ 42 \in Nat /\ 42 \in Nat /\ 200 \in Nat /\ 201 \in Nat
          /\ 20 < 42 /\ 42 < 200 /\ 20 < 200
      OBVIOUS
    <2> QED BY <2>1, <2>2, <2>3, ClimbsBySpans
  <1> HIDE DEF s
  <1>0. job \in {41, 42} /\ Keys(Exclusive({job})) = {job} /\ Alone(Exclusive({job})) = {job}
    BY DependentKeys, KeyNumbers
  <1>3. MovesAll(s)
    BY <1>1, <1>0, RepositoryKeys, NoKeys, KeyNumbers DEF MovesAll
  <1>4. WorksProtected(s)
    BY <1>1, <1>0, RepositoryKeys, NoKeys, KeyNumbers
    DEF WorksProtected, Protects, Below
  <1>5. Known(s)
    BY <1>1, <1>0, RepositoryKeys, NoKeys, KeyNumbers DEF Known, HandlerKeys
  <1>6. JobsAlone(s)
    <2>1. Keys(s[1]) \cap Jobs = {} /\ Keys({}) \cap Jobs = {}
      BY <1>1, NoKeys, <1>0, RepositoryKeys, NoKeys, KeyNumbers
    <2> QED BY <1>1, <2>1, InnerJob
  <1> QED BY <1>2, <1>3, <1>4, <1>5, <1>6 DEF Sound, s

LEMMA SoundChange ==
  Sound(<<repositoryWrite, ReviewRepositoryRequests, IssueRepositoryRequests>>)
  <1> DEFINE s == <<repositoryWrite, ReviewRepositoryRequests, IssueRepositoryRequests>>
  <1>1. s[1] = repositoryWrite /\ s[2] = ReviewRepositoryRequests
        /\ s[3] = IssueRepositoryRequests
    OBVIOUS
  <1>2. Climbs(s)
    <2>1. /\ Spans(repositoryWrite, 0, 20)
          /\ Spans(ReviewRepositoryRequests, 49, 52)
          /\ Spans(IssueRepositoryRequests, 53, 56)
      BY SpanRepository, SpanReview, SpanIssue
    <2>2. \A k \in Keys(repositoryWrite) \cup Keys(ReviewRepositoryRequests)
            \cup Keys(IssueRepositoryRequests) : Rank(k) \in Nat
      BY SpanRepository, SpanReview, SpanIssue
    <2>3. /\ 0 \in Nat /\ 20 \in Nat /\ 49 \in Nat /\ 52 \in Nat /\ 53 \in Nat /\ 56 \in Nat
          /\ 20 < 49 /\ 52 < 53 /\ 20 < 53
      OBVIOUS
    <2> QED BY <2>1, <2>2, <2>3, ClimbsBySpans
  <1> HIDE DEF s
  <1>3. MovesAll(s)
    BY <1>1, RepositoryKeys, ReviewKeys, IssueKeys, KeyNumbers DEF MovesAll
  <1>4. WorksProtected(s)
    BY <1>1, RepositoryKeys, ReviewKeys, IssueKeys, KeyNumbers
    DEF WorksProtected, Protects, Below
  <1>5. Known(s)
    BY <1>1, RepositoryKeys, ReviewKeys, IssueKeys, KeyNumbers DEF Known, HandlerKeys
  <1>6. JobsAlone(s)
    <2>1. Keys(s[1]) \cap Jobs = {}
      BY <1>1, RepositoryKeys, KeyNumbers
    <2>2. Keys(s[2]) \cap Jobs = {}
      BY <1>1, ReviewKeys, KeyNumbers
    <2>3. Keys(s[3]) \cap Jobs = {}
      BY <1>1, IssueKeys, KeyNumbers
    <2>4. \A d \in 1 .. 3 : d = 1 \/ d = 2 \/ d = 3
      OBVIOUS
    <2> QED BY <2>1, <2>2, <2>3, <2>4, NoJobs
  <1> QED BY <1>2, <1>3, <1>4, <1>5, <1>6 DEF Sound, s

LEMMA SoundBranch ==
  Sound(<<repositoryWrite, IssueRepositoryRequests, {}>>)
  <1> DEFINE s == <<repositoryWrite, IssueRepositoryRequests, {}>>
  <1>1. s[1] = repositoryWrite /\ s[2] = IssueRepositoryRequests
        /\ s[3] = {}
    OBVIOUS
  <1>2. Climbs(s)
    <2>1. /\ Spans(repositoryWrite, 0, 20)
          /\ Spans(IssueRepositoryRequests, 53, 56)
          /\ Spans({}, 200, 201)
      BY SpanRepository, SpanIssue, SpanNone
    <2>2. \A k \in Keys(repositoryWrite) \cup Keys(IssueRepositoryRequests)
            \cup Keys({}) : Rank(k) \in Nat
      BY SpanRepository, SpanIssue, SpanNone
    <2>3. /\ 0 \in Nat /\ 20 \in Nat /\ 53 \in Nat /\ 56 \in Nat /\ 200 \in Nat /\ 201 \in Nat
          /\ 20 < 53 /\ 56 < 200 /\ 20 < 200
      OBVIOUS
    <2> QED BY <2>1, <2>2, <2>3, ClimbsBySpans
  <1> HIDE DEF s
  <1>3. MovesAll(s)
    BY <1>1, RepositoryKeys, IssueKeys, NoKeys, KeyNumbers DEF MovesAll
  <1>4. WorksProtected(s)
    BY <1>1, RepositoryKeys, IssueKeys, NoKeys, KeyNumbers
    DEF WorksProtected, Protects, Below
  <1>5. Known(s)
    BY <1>1, RepositoryKeys, IssueKeys, NoKeys, KeyNumbers DEF Known, HandlerKeys
  <1>6. JobsAlone(s)
    <2>1. Keys(s[1]) \cap Jobs = {}
      BY <1>1, RepositoryKeys, KeyNumbers
    <2>2. Keys(s[2]) \cap Jobs = {}
      BY <1>1, IssueKeys, KeyNumbers
    <2>3. Keys(s[3]) \cap Jobs = {}
      BY <1>1, NoKeys, KeyNumbers
    <2>4. \A d \in 1 .. 3 : d = 1 \/ d = 2 \/ d = 3
      OBVIOUS
    <2> QED BY <2>1, <2>2, <2>3, <2>4, NoJobs
  <1> QED BY <1>2, <1>3, <1>4, <1>5, <1>6 DEF Sound, s

LEMMA SoundMergeReview ==
  Sound(<<repositoryWrite, mergeRequests, ReviewRepositoryRequests>>)
  <1> DEFINE s == <<repositoryWrite, mergeRequests, ReviewRepositoryRequests>>
  <1>1. s[1] = repositoryWrite /\ s[2] = mergeRequests
        /\ s[3] = ReviewRepositoryRequests
    OBVIOUS
  <1>2. Climbs(s)
    <2>1. /\ Spans(repositoryWrite, 0, 20)
          /\ Spans(mergeRequests, 25, 25)
          /\ Spans(ReviewRepositoryRequests, 49, 52)
      BY SpanRepository, SpanMerge, SpanReview
    <2>2. \A k \in Keys(repositoryWrite) \cup Keys(mergeRequests)
            \cup Keys(ReviewRepositoryRequests) : Rank(k) \in Nat
      BY SpanRepository, SpanMerge, SpanReview
    <2>3. /\ 0 \in Nat /\ 20 \in Nat /\ 25 \in Nat /\ 25 \in Nat /\ 49 \in Nat /\ 52 \in Nat
          /\ 20 < 25 /\ 25 < 49 /\ 20 < 49
      OBVIOUS
    <2> QED BY <2>1, <2>2, <2>3, ClimbsBySpans
  <1> HIDE DEF s
  <1>3. MovesAll(s)
    BY <1>1, RepositoryKeys, MergeKeys, ReviewKeys, KeyNumbers DEF MovesAll
  <1>4. WorksProtected(s)
    BY <1>1, RepositoryKeys, MergeKeys, ReviewKeys, KeyNumbers
    DEF WorksProtected, Protects, Below
  <1>5. Known(s)
    BY <1>1, RepositoryKeys, MergeKeys, ReviewKeys, KeyNumbers DEF Known, HandlerKeys
  <1>6. JobsAlone(s)
    <2>1. Keys(s[1]) \cap Jobs = {}
      BY <1>1, RepositoryKeys, KeyNumbers
    <2>2. Keys(s[2]) \cap Jobs = {}
      BY <1>1, MergeKeys, KeyNumbers
    <2>3. Keys(s[3]) \cap Jobs = {}
      BY <1>1, ReviewKeys, KeyNumbers
    <2>4. \A d \in 1 .. 3 : d = 1 \/ d = 2 \/ d = 3
      OBVIOUS
    <2> QED BY <2>1, <2>2, <2>3, <2>4, NoJobs
  <1> QED BY <1>2, <1>3, <1>4, <1>5, <1>6 DEF Sound, s

LEMMA SoundMergeBuild ==
  ASSUME NEW job \in Jobs
  PROVE  Sound(<<repositoryWrite, mergeRequests, Exclusive({job})>>)
  <1> DEFINE s == <<repositoryWrite, mergeRequests, Exclusive({job})>>
  <1>1. s[1] = repositoryWrite /\ s[2] = mergeRequests
        /\ s[3] = Exclusive({job})
    OBVIOUS
  <1>2. Climbs(s)
    <2>1. /\ Spans(repositoryWrite, 0, 20)
          /\ Spans(mergeRequests, 25, 25)
          /\ Spans(Exclusive({job}), 42, 42)
      BY SpanRepository, SpanMerge, SpanDependent
    <2>2. \A k \in Keys(repositoryWrite) \cup Keys(mergeRequests)
            \cup Keys(Exclusive({job})) : Rank(k) \in Nat
      BY SpanRepository, SpanMerge, SpanDependent
    <2>3. /\ 0 \in Nat /\ 20 \in Nat /\ 25 \in Nat /\ 25 \in Nat /\ 42 \in Nat /\ 42 \in Nat
          /\ 20 < 25 /\ 25 < 42 /\ 20 < 42
      OBVIOUS
    <2> QED BY <2>1, <2>2, <2>3, ClimbsBySpans
  <1> HIDE DEF s
  <1>0. job \in {41, 42} /\ Keys(Exclusive({job})) = {job} /\ Alone(Exclusive({job})) = {job}
    BY DependentKeys, KeyNumbers
  <1>3. MovesAll(s)
    BY <1>1, <1>0, RepositoryKeys, MergeKeys, KeyNumbers DEF MovesAll
  <1>4. WorksProtected(s)
    BY <1>1, <1>0, RepositoryKeys, MergeKeys, KeyNumbers
    DEF WorksProtected, Protects, Below
  <1>5. Known(s)
    BY <1>1, <1>0, RepositoryKeys, MergeKeys, KeyNumbers DEF Known, HandlerKeys
  <1>6. JobsAlone(s)
    <2>1. Keys(s[1]) \cap Jobs = {} /\ Keys(mergeRequests) \cap Jobs = {}
      BY <1>1, NoKeys, <1>0, RepositoryKeys, MergeKeys, KeyNumbers
    <2> QED BY <1>1, <2>1, InnerJob
  <1> QED BY <1>2, <1>3, <1>4, <1>5, <1>6 DEF Sound, s

LEMMA SoundReview ==
  Sound(<<ReviewRepositoryRequests, {}, {}>>)
  <1> DEFINE s == <<ReviewRepositoryRequests, {}, {}>>
  <1>1. s[1] = ReviewRepositoryRequests /\ s[2] = {}
        /\ s[3] = {}
    OBVIOUS
  <1>2. Climbs(s)
    BY SpanReview, ClimbsAlone
  <1> HIDE DEF s
  <1>3. MovesAll(s)
    BY <1>1, ReviewKeys, NoKeys, KeyNumbers DEF MovesAll
  <1>4. WorksProtected(s)
    BY <1>1, ReviewKeys, NoKeys, KeyNumbers
    DEF WorksProtected, Protects, Below
  <1>5. Known(s)
    BY <1>1, ReviewKeys, NoKeys, KeyNumbers DEF Known, HandlerKeys
  <1>6. JobsAlone(s)
    <2>1. Keys(s[1]) \cap Jobs = {}
      BY <1>1, ReviewKeys, KeyNumbers
    <2>2. Keys(s[2]) \cap Jobs = {}
      BY <1>1, NoKeys, KeyNumbers
    <2>3. Keys(s[3]) \cap Jobs = {}
      BY <1>1, NoKeys, KeyNumbers
    <2>4. \A d \in 1 .. 3 : d = 1 \/ d = 2 \/ d = 3
      OBVIOUS
    <2> QED BY <2>1, <2>2, <2>3, <2>4, NoJobs
  <1> QED BY <1>2, <1>3, <1>4, <1>5, <1>6 DEF Sound, s

LEMMA SoundIssue ==
  Sound(<<IssueRepositoryRequests, {}, {}>>)
  <1> DEFINE s == <<IssueRepositoryRequests, {}, {}>>
  <1>1. s[1] = IssueRepositoryRequests /\ s[2] = {}
        /\ s[3] = {}
    OBVIOUS
  <1>2. Climbs(s)
    BY SpanIssue, ClimbsAlone
  <1> HIDE DEF s
  <1>3. MovesAll(s)
    BY <1>1, IssueKeys, NoKeys, KeyNumbers DEF MovesAll
  <1>4. WorksProtected(s)
    BY <1>1, IssueKeys, NoKeys, KeyNumbers
    DEF WorksProtected, Protects, Below
  <1>5. Known(s)
    BY <1>1, IssueKeys, NoKeys, KeyNumbers DEF Known, HandlerKeys
  <1>6. JobsAlone(s)
    <2>1. Keys(s[1]) \cap Jobs = {}
      BY <1>1, IssueKeys, KeyNumbers
    <2>2. Keys(s[2]) \cap Jobs = {}
      BY <1>1, NoKeys, KeyNumbers
    <2>3. Keys(s[3]) \cap Jobs = {}
      BY <1>1, NoKeys, KeyNumbers
    <2>4. \A d \in 1 .. 3 : d = 1 \/ d = 2 \/ d = 3
      OBVIOUS
    <2> QED BY <2>1, <2>2, <2>3, <2>4, NoJobs
  <1> QED BY <1>2, <1>3, <1>4, <1>5, <1>6 DEF Sound, s

LEMMA SoundClaim ==
  ASSUME NEW job \in Jobs
  PROVE  Sound(<<queueRequests, Exclusive({job}), {}>>)
  <1> DEFINE s == <<queueRequests, Exclusive({job}), {}>>
  <1>1. s[1] = queueRequests /\ s[2] = Exclusive({job})
        /\ s[3] = {}
    OBVIOUS
  <1>2. Climbs(s)
    <2>1. /\ Spans(queueRequests, 0, 40)
          /\ Spans(Exclusive({job}), 42, 42)
          /\ Spans({}, 200, 201)
      BY SpanQueue, SpanDependent, SpanNone
    <2>2. \A k \in Keys(queueRequests) \cup Keys(Exclusive({job}))
            \cup Keys({}) : Rank(k) \in Nat
      BY SpanQueue, SpanDependent, SpanNone
    <2>3. /\ 0 \in Nat /\ 40 \in Nat /\ 42 \in Nat /\ 42 \in Nat /\ 200 \in Nat /\ 201 \in Nat
          /\ 40 < 42 /\ 42 < 200 /\ 40 < 200
      OBVIOUS
    <2> QED BY <2>1, <2>2, <2>3, ClimbsBySpans
  <1> HIDE DEF s
  <1>0. job \in {41, 42} /\ Keys(Exclusive({job})) = {job} /\ Alone(Exclusive({job})) = {job}
    BY DependentKeys, KeyNumbers
  <1>3. MovesAll(s)
    BY <1>1, <1>0, QueueKeys, NoKeys, KeyNumbers DEF MovesAll
  <1>4. WorksProtected(s)
    BY <1>1, <1>0, QueueKeys, NoKeys, KeyNumbers
    DEF WorksProtected, Protects, Below
  <1>5. Known(s)
    BY <1>1, <1>0, QueueKeys, NoKeys, KeyNumbers DEF Known, HandlerKeys
  <1>6. JobsAlone(s)
    <2>1. Keys(s[1]) \cap Jobs = {} /\ Keys({}) \cap Jobs = {}
      BY <1>1, NoKeys, <1>0, QueueKeys, NoKeys, KeyNumbers
    <2> QED BY <1>1, <2>1, InnerJob
  <1> QED BY <1>2, <1>3, <1>4, <1>5, <1>6 DEF Sound, s

LEMMA SoundReserve ==
  Sound(<<LFSRequests, {}, {}>>)
  <1> DEFINE s == <<LFSRequests, {}, {}>>
  <1>1. s[1] = LFSRequests /\ s[2] = {}
        /\ s[3] = {}
    OBVIOUS
  <1>2. Climbs(s)
    BY SpanLfs, ClimbsAlone
  <1> HIDE DEF s
  <1>3. MovesAll(s)
    BY <1>1, LfsKeys, NoKeys, KeyNumbers DEF MovesAll
  <1>4. WorksProtected(s)
    BY <1>1, LfsKeys, NoKeys, KeyNumbers
    DEF WorksProtected, Protects, Below
  <1>5. Known(s)
    BY <1>1, LfsKeys, NoKeys, KeyNumbers DEF Known, HandlerKeys
  <1>6. JobsAlone(s)
    <2>1. Keys(s[1]) \cap Jobs = {}
      BY <1>1, LfsKeys, KeyNumbers
    <2>2. Keys(s[2]) \cap Jobs = {}
      BY <1>1, NoKeys, KeyNumbers
    <2>3. Keys(s[3]) \cap Jobs = {}
      BY <1>1, NoKeys, KeyNumbers
    <2>4. \A d \in 1 .. 3 : d = 1 \/ d = 2 \/ d = 3
      OBVIOUS
    <2> QED BY <2>1, <2>2, <2>3, <2>4, NoJobs
  <1> QED BY <1>2, <1>3, <1>4, <1>5, <1>6 DEF Sound, s

LEMMA SoundPublish ==
  Sound(<<publishRequests, {}, {}>>)
  <1> DEFINE s == <<publishRequests, {}, {}>>
  <1>1. s[1] = publishRequests /\ s[2] = {}
        /\ s[3] = {}
    OBVIOUS
  <1>2. Climbs(s)
    BY SpanPublish, ClimbsAlone
  <1> HIDE DEF s
  <1>3. MovesAll(s)
    BY <1>1, PublishKeys, NoKeys, KeyNumbers DEF MovesAll
  <1>4. WorksProtected(s)
    BY <1>1, PublishKeys, NoKeys, KeyNumbers
    DEF WorksProtected, Protects, Below
  <1>5. Known(s)
    BY <1>1, PublishKeys, NoKeys, KeyNumbers DEF Known, HandlerKeys
  <1>6. JobsAlone(s)
    <2>1. Keys(s[1]) \cap Jobs = {}
      BY <1>1, PublishKeys, KeyNumbers
    <2>2. Keys(s[2]) \cap Jobs = {}
      BY <1>1, NoKeys, KeyNumbers
    <2>3. Keys(s[3]) \cap Jobs = {}
      BY <1>1, NoKeys, KeyNumbers
    <2>4. \A d \in 1 .. 3 : d = 1 \/ d = 2 \/ d = 3
      OBVIOUS
    <2> QED BY <2>1, <2>2, <2>3, <2>4, NoJobs
  <1> QED BY <1>2, <1>3, <1>4, <1>5, <1>6 DEF Sound, s

LEMMA SoundGroupA ==
  Sound(<<GroupRequests(GroupA), ReviewGroupRequests(ReviewA),
          IssueGroupRequests(IssueA)>>)
  <1> DEFINE s == <<GroupRequests(GroupA), ReviewGroupRequests(ReviewA),
               IssueGroupRequests(IssueA)>>
  <1>1. s[1] = GroupRequests(GroupA) /\ s[2] = ReviewGroupRequests(ReviewA)
        /\ s[3] = IssueGroupRequests(IssueA)
    OBVIOUS
  <1>2. Climbs(s)
    <2>1. /\ Spans(GroupRequests(GroupA), 0, 11)
          /\ Spans(ReviewGroupRequests(ReviewA), 49, 51)
          /\ Spans(IssueGroupRequests(IssueA), 53, 55)
      BY SpanGroupGroupA, SpanReviewGroupA, SpanIssueGroupA
    <2>2. \A k \in Keys(GroupRequests(GroupA)) \cup Keys(ReviewGroupRequests(ReviewA))
            \cup Keys(IssueGroupRequests(IssueA)) : Rank(k) \in Nat
      BY SpanGroupGroupA, SpanReviewGroupA, SpanIssueGroupA
    <2>3. /\ 0 \in Nat /\ 11 \in Nat /\ 49 \in Nat /\ 51 \in Nat /\ 53 \in Nat /\ 55 \in Nat
          /\ 11 < 49 /\ 51 < 53 /\ 11 < 53
      OBVIOUS
    <2> QED BY <2>1, <2>2, <2>3, ClimbsBySpans
  <1> HIDE DEF s
  <1>3. MovesAll(s)
    BY <1>1, GroupGroupKeys, ReviewGroupKeys, IssueGroupKeys, KeyNumbers DEF MovesAll
  <1>4. WorksProtected(s)
    BY <1>1, GroupGroupKeys, ReviewGroupKeys, IssueGroupKeys, KeyNumbers
    DEF WorksProtected, Protects, Below
  <1>5. Known(s)
    BY <1>1, GroupGroupKeys, ReviewGroupKeys, IssueGroupKeys, KeyNumbers DEF Known, HandlerKeys
  <1>6. JobsAlone(s)
    <2>1. Keys(s[1]) \cap Jobs = {}
      BY <1>1, GroupGroupKeys, KeyNumbers
    <2>2. Keys(s[2]) \cap Jobs = {}
      BY <1>1, ReviewGroupKeys, KeyNumbers
    <2>3. Keys(s[3]) \cap Jobs = {}
      BY <1>1, IssueGroupKeys, KeyNumbers
    <2>4. \A d \in 1 .. 3 : d = 1 \/ d = 2 \/ d = 3
      OBVIOUS
    <2> QED BY <2>1, <2>2, <2>3, <2>4, NoJobs
  <1> QED BY <1>2, <1>3, <1>4, <1>5, <1>6 DEF Sound, s

LEMMA SoundGroupB ==
  Sound(<<GroupRequests(GroupB), ReviewGroupRequests(ReviewB),
          IssueGroupRequests(IssueB)>>)
  <1> DEFINE s == <<GroupRequests(GroupB), ReviewGroupRequests(ReviewB),
               IssueGroupRequests(IssueB)>>
  <1>1. s[1] = GroupRequests(GroupB) /\ s[2] = ReviewGroupRequests(ReviewB)
        /\ s[3] = IssueGroupRequests(IssueB)
    OBVIOUS
  <1>2. Climbs(s)
    <2>1. /\ Spans(GroupRequests(GroupB), 0, 11)
          /\ Spans(ReviewGroupRequests(ReviewB), 49, 51)
          /\ Spans(IssueGroupRequests(IssueB), 53, 55)
      BY SpanGroupGroupB, SpanReviewGroupB, SpanIssueGroupB
    <2>2. \A k \in Keys(GroupRequests(GroupB)) \cup Keys(ReviewGroupRequests(ReviewB))
            \cup Keys(IssueGroupRequests(IssueB)) : Rank(k) \in Nat
      BY SpanGroupGroupB, SpanReviewGroupB, SpanIssueGroupB
    <2>3. /\ 0 \in Nat /\ 11 \in Nat /\ 49 \in Nat /\ 51 \in Nat /\ 53 \in Nat /\ 55 \in Nat
          /\ 11 < 49 /\ 51 < 53 /\ 11 < 53
      OBVIOUS
    <2> QED BY <2>1, <2>2, <2>3, ClimbsBySpans
  <1> HIDE DEF s
  <1>3. MovesAll(s)
    BY <1>1, GroupGroupKeys, ReviewGroupKeys, IssueGroupKeys, KeyNumbers DEF MovesAll
  <1>4. WorksProtected(s)
    BY <1>1, GroupGroupKeys, ReviewGroupKeys, IssueGroupKeys, KeyNumbers
    DEF WorksProtected, Protects, Below
  <1>5. Known(s)
    BY <1>1, GroupGroupKeys, ReviewGroupKeys, IssueGroupKeys, KeyNumbers DEF Known, HandlerKeys
  <1>6. JobsAlone(s)
    <2>1. Keys(s[1]) \cap Jobs = {}
      BY <1>1, GroupGroupKeys, KeyNumbers
    <2>2. Keys(s[2]) \cap Jobs = {}
      BY <1>1, ReviewGroupKeys, KeyNumbers
    <2>3. Keys(s[3]) \cap Jobs = {}
      BY <1>1, IssueGroupKeys, KeyNumbers
    <2>4. \A d \in 1 .. 3 : d = 1 \/ d = 2 \/ d = 3
      OBVIOUS
    <2> QED BY <2>1, <2>2, <2>3, <2>4, NoJobs
  <1> QED BY <1>2, <1>3, <1>4, <1>5, <1>6 DEF Sound, s

LEMMA SoundJob ==
  ASSUME NEW own \in Jobs, NEW job \in Jobs
  PROVE  Sound(<<jobRequests(own), Exclusive({job}), {}>>)
  <1> DEFINE s == <<jobRequests(own), Exclusive({job}), {}>>
  <1>1. s[1] = jobRequests(own) /\ s[2] = Exclusive({job}) /\ s[3] = {}
    OBVIOUS
  <1> HIDE DEF s
  <1>2. /\ Keys(s[1]) = {0, 10, 11, 20, own} /\ Alone(s[1]) = {own}
        /\ Keys(s[2]) = {job} /\ Alone(s[2]) = {job} /\ Keys(s[3]) = {} /\ Alone(s[3]) = {}
    BY <1>1, JobKeys, DependentKeys, NoKeys, KeyNumbers
  <1>3. own \in {41, 42} /\ job \in {41, 42}
    BY KeyNumbers
  <1>4. Climbs(s)
    <2>1. \A k \in Keys(s[1]), l \in Keys(s[2]) : Rank(k) < Rank(l) \/ {k, l} \subseteq Jobs
      <3>1. {own, job} \subseteq Jobs
        OBVIOUS
      <3>2. \A k \in Keys(s[1]) : k = own \/ k < 41
        BY <1>2, <1>3
      <3>3. Rank(job) = 42 /\ \A k \in Keys(s[1]) : k < 41 => Rank(k) < 42
        BY <1>2, <1>3, KeyNumbers DEF Rank
      <3> QED BY <3>1, <3>2, <3>3, <1>2
    <2>2. /\ \A k, l \in Keys(s[1]) : k < l => Rank(k) < Rank(l)
          /\ \A k, l \in Keys(s[2]) : ~ (k < l)
      BY <1>2, <1>3, KeyNumbers DEF Rank
    <2>3. \A d \in 1 .. 3 : d = 1 \/ d = 2 \/ d = 3
      OBVIOUS
    <2> QED BY <1>2, <2>1, <2>2, <2>3 DEF Climbs
  <1>5. MovesAll(s)
    BY <1>2, <1>3, KeyNumbers DEF MovesAll
  <1>6. WorksProtected(s)
    BY <1>2, KeyNumbers DEF WorksProtected, Protects, Below
  <1>7. Known(s)
    BY <1>2, <1>3, KeyNumbers DEF Known, HandlerKeys
  <1>8. JobsAlone(s)
    BY <1>1, <1>2, <1>3, KeyNumbers DEF JobsAlone
  <1> QED BY <1>4, <1>5, <1>6, <1>7, <1>8 DEF Sound, s

-----------------------------------------------------------------------------
(* The plans: what a handler may still do from a stack of open calls. *)

NoJob(R) == Keys(R) \cap Jobs = {}
Saves(p) == \E i \in 1 .. Len(p) : p[i].step = "save"
Inner(s, job) == [s EXCEPT ![depth(s) + 1] = Exclusive({job})]

\* The step x, taken with the calls s open, leaves the calls t open.
Follows(s, x, t) ==
    /\ x.step = "acquire" =>
          x.requests # {} /\ depth(s) < 3 /\ t = [s EXCEPT ![depth(s) + 1] = x.requests]
    /\ x.step = "release" => depth(s) > 0 /\ t = [s EXCEPT ![depth(s)] = {}]
    /\ x.step \notin {"acquire", "release"} => t = s

\* Jobs are stored by whoever has the repository alone, and looked through by whoever
\* may lock any of them.
Fits(x, s) ==
    /\ x.step # "acquire" => x.requests = {}
    /\ x.step = "create" => Repository \in Alone(s[1])
    /\ x.step = "reconcile" =>
          depth(s) \in 1 .. 2 /\ \A job \in Jobs : Sound(Inner(s, job))

\* Who locks a job of its own saves it later, and does so before it chooses others.
SavesFirst(x, p, s) ==
    /\ x.step = "acquire" /\ s[1] = {} => NoJob(x.requests) \/ Saves(p)
    /\ \/ x.step = "reconcile"
       \/ s[1] # {} /\ ~ NoJob(x.requests)
       \/ ~ NoJob(s[2]) \/ ~ NoJob(s[3])
       => NoJob(s[1]) \/ (x.step # "save" /\ ~ Saves(p))

\* A job is locked at the beginning of a plan, or when it is chosen.
Local(p, s) ==
    /\ \E S : p \in Seq(S)
    /\ Stack(s) /\ Sound(s)
    /\ p # <<>> =>
          /\ Fits(Head(p), s) /\ SavesFirst(Head(p), Tail(p), s)
          /\ Tail(p) # <<>> => NoJob(Head(Tail(p)).requests)

\* The places in G are in order, and G goes on from each of them.
Closed(G) ==
    \A p, s : <<p, s>> \in G =>
        /\ Local(p, s)
        /\ p # <<>> => \E t : Follows(s, Head(p), t) /\ <<Tail(p), t>> \in G

\* A handler may have the calls s open and the plan p before it.
Good(p, s) == \E G : <<p, s>> \in G /\ Closed(G)

LEMMA GoodLocal ==
  ASSUME NEW p, NEW s, Good(p, s)
  PROVE  Local(p, s)
  BY DEF Good, Closed

LEMMA GoodSound ==
  ASSUME NEW p, NEW s, Good(p, s)
  PROVE  Stack(s) /\ Sound(s)
  BY GoodLocal DEF Local

LEMMA GoodFollows ==
  ASSUME NEW p, NEW s, Good(p, s), p # <<>>
  PROVE  \E t : Follows(s, Head(p), t) /\ Good(Tail(p), t)
  <1>1. PICK G : <<p, s>> \in G /\ Closed(G)
    BY DEF Good
  <1>2. PICK t : Follows(s, Head(p), t) /\ <<Tail(p), t>> \in G
    BY <1>1 DEF Closed
  <1> QED BY <1>1, <1>2 DEF Good

LEMMA GoodBefore ==
  ASSUME NEW p, p # <<>>, NEW s, NEW t, Local(p, s), Follows(s, Head(p), t),
         Good(Tail(p), t)
  PROVE  Good(p, s)
  <1>1. PICK G : <<Tail(p), t>> \in G /\ Closed(G)
    BY DEF Good
  <1> DEFINE H == G \cup {<<p, s>>}
  <1>2. ASSUME NEW q, NEW u, <<q, u>> \in H
        PROVE  /\ Local(q, u)
               /\ q # <<>> => \E v : Follows(u, Head(q), v) /\ <<Tail(q), v>> \in H
    <2>1. CASE <<q, u>> \in G
      BY <1>1, <2>1 DEF Closed
    <2>2. CASE <<q, u>> = <<p, s>>
      BY <1>1, <2>2
    <2> QED BY <1>2, <2>1, <2>2
  <1>3. Closed(H)
    BY <1>2 DEF Closed
  <1> QED BY <1>3 DEF Good

LEMMA GoodEnds == Good(<<>>, NoCalls)
  <1> DEFINE G == {<<<<>>, NoCalls>>}
  <1>1. Stack(NoCalls)
    BY DEF Stack, NoCalls
  <1>2. Sound(NoCalls)
    BY SoundReview, SoundPrefix DEF NoCalls
  <1>3. <<>> \in Seq({})
    OBVIOUS
  <1>4. Local(<<>>, NoCalls)
    BY <1>1, <1>2, <1>3 DEF Local
  <1>5. \A p, s : <<p, s>> \in G => p = <<>> /\ s = NoCalls
    OBVIOUS
  <1>6. Closed(G)
    BY <1>4, <1>5 DEF Closed
  <1> QED BY <1>6 DEF Good

\* One step before a plan.
LEMMA Before ==
  ASSUME NEW S, NEW p \in Seq(S), NEW x
  PROVE  LET q == <<x>> \o p IN
         /\ q \in Seq(S \cup {x}) /\ q # <<>> /\ Head(q) = x /\ Tail(q) = p
         /\ Saves(q) <=> x.step = "save" \/ Saves(p)
  <1> DEFINE q == <<x>> \o p
             U == S \cup {x}
  <1>1. <<x>> \in Seq(U) /\ p \in Seq(U) /\ Len(<<x>>) = 1 /\ <<x>>[1] = x
    BY SeqMonotonic
  <1>2. /\ q \in Seq(U) /\ Len(q) = Len(p) + 1
        /\ \A i \in 1 .. Len(p) + 1 : q[i] = IF i <= 1 THEN <<x>>[i] ELSE p[i - 1]
    <2>1. /\ q \in Seq(U) /\ Len(q) = Len(<<x>>) + Len(p)
          /\ \A i \in 1 .. Len(<<x>>) + Len(p) :
                q[i] = IF i <= Len(<<x>>) THEN <<x>>[i] ELSE p[i - Len(<<x>>)]
      BY <1>1, ConcatProperties
    <2>2. Len(p) \in Nat
      BY <1>1, LenProperties
    <2> HIDE DEF q, U
    <2> QED BY <2>1, <2>2, <1>1
  <1>3. Len(p) \in Nat
    BY <1>1, LenProperties
  <1> HIDE DEF q, U
  <1>4. q[1] = x /\ \A i \in 1 .. Len(p) : q[i + 1] = p[i]
    BY <1>1, <1>2, <1>3
  <1>5. q # <<>> /\ Len(q) > 0
    BY <1>2, <1>3
  <1>6. Head(q) = x
    BY <1>2, <1>4, <1>5
  <1>7. Tail(q) = p
    <2>1. /\ Tail(q) \in Seq(U) /\ Len(Tail(q)) = Len(p)
          /\ \A i \in 1 .. Len(Tail(q)) : Tail(q)[i] = q[i + 1]
      BY <1>2, <1>3, <1>5, HeadTailProperties
    <2> QED BY <2>1, <1>1, <1>4, SeqEqual
  <1>8. ASSUME Saves(q) PROVE x.step = "save" \/ Saves(p)
    <2>1. PICK i \in 1 .. Len(p) + 1 : q[i].step = "save"
      BY <1>2, <1>8 DEF Saves
    <2>2. CASE i = 1
      BY <2>1, <2>2, <1>4
    <2>3. CASE i # 1
      <3>1. i - 1 \in 1 .. Len(p) /\ q[i] = p[i - 1]
        BY <2>3, <1>2, <1>3
      <3> QED BY <2>1, <3>1 DEF Saves
    <2> QED BY <2>2, <2>3
  <1>9. ASSUME x.step = "save" \/ Saves(p) PROVE Saves(q)
    <2>1. CASE x.step = "save"
      <3>1. 1 \in 1 .. Len(q) /\ q[1].step = "save"
        BY <2>1, <1>2, <1>3, <1>4
      <3> QED BY <3>1 DEF Saves
    <2>2. CASE Saves(p)
      <3>1. PICK i \in 1 .. Len(p) : p[i].step = "save"
        BY <2>2 DEF Saves
      <3>2. i + 1 \in 1 .. Len(q) /\ q[i + 1].step = "save"
        BY <3>1, <1>2, <1>3, <1>4
      <3> QED BY <3>2 DEF Saves
    <2> QED BY <1>9, <2>1, <2>2
  <1> QED BY <1>2, <1>5, <1>6, <1>7, <1>8, <1>9 DEF q, U

\* The saves of a plan are those of its first step and of the rest.
LEMMA SavesLater ==
  ASSUME NEW S, NEW p \in Seq(S), p # <<>>
  PROVE  Saves(p) <=> Head(p).step = "save" \/ Saves(Tail(p))
  <1>1. Tail(p) \in Seq(S) /\ p = <<Head(p)>> \o Tail(p)
    <2>1. /\ Head(p) \in S /\ Tail(p) \in Seq(S) /\ Len(Tail(p)) = Len(p) - 1
          /\ \A i \in 1 .. Len(Tail(p)) : Tail(p)[i] = p[i + 1]
      BY HeadTailProperties
    <2>2. Len(p) \in Nat /\ Head(p) = p[1]
      BY LenProperties
    <2> DEFINE q == <<Head(p)>> \o Tail(p)
    <2>3. <<Head(p)>> \in Seq(S) /\ Len(<<Head(p)>>) = 1 /\ <<Head(p)>>[1] = Head(p)
      BY <2>1
    <2>4. /\ q \in Seq(S) /\ Len(q) = 1 + Len(Tail(p))
          /\ \A i \in 1 .. 1 + Len(Tail(p)) :
                q[i] = IF i <= 1 THEN <<Head(p)>>[i] ELSE Tail(p)[i - 1]
      <3>1. /\ q \in Seq(S) /\ Len(q) = Len(<<Head(p)>>) + Len(Tail(p))
            /\ \A i \in 1 .. Len(<<Head(p)>>) + Len(Tail(p)) :
                  q[i] = IF i <= Len(<<Head(p)>>) THEN <<Head(p)>>[i]
                         ELSE Tail(p)[i - Len(<<Head(p)>>)]
        BY <2>1, <2>3, ConcatProperties
      <3> HIDE DEF q
      <3> QED BY <3>1, <2>3
    <2> HIDE DEF q
    <2>5. \A i \in 1 .. Len(p) : q[i] = p[i]
      BY <2>1, <2>2, <2>3, <2>4
    <2>6. Len(q) = Len(p)
      BY <2>1, <2>2, <2>4
    <2>7. q = p
      BY <2>4, <2>5, <2>6, SeqEqual
    <2> QED BY <2>1, <2>7 DEF q
  <1> QED BY <1>1, Before

-----------------------------------------------------------------------------
(* Every plan is good: step by step, from its end. *)

LEMMA StepFields ==
  /\ \A R : acquire(R).step = "acquire" /\ acquire(R).requests = R
  /\ release.step = "release" /\ release.requests = {}
  /\ create.step = "create" /\ create.requests = {}
  /\ save.step = "save" /\ save.requests = {}
  /\ reconcile.step = "reconcile" /\ reconcile.requests = {}
  /\ update.step = "update" /\ update.requests = {}
  BY DEF acquire, release, create, save, reconcile, update

\* A good plan that does not begin with the lock of a job.
Ready(p, s) == Good(p, s) /\ (p # <<>> => NoJob(Head(p).requests))

LEMMA GoodStep ==
  ASSUME NEW p, NEW t, Ready(p, t), NEW x, NEW s, Stack(s), Sound(s), Follows(s, x, t),
         Fits(x, s), SavesFirst(x, p, s)
  PROVE  Good(<<x>> \o p, s)
  <1> DEFINE q == <<x>> \o p
  <1>1. PICK S : p \in Seq(S)
    BY GoodLocal DEF Ready, Local
  <1>2. q \in Seq(S \cup {x}) /\ q # <<>> /\ Head(q) = x /\ Tail(q) = p
    BY <1>1, Before
  <1> HIDE DEF q
  <1>3. Local(q, s)
    BY <1>2 DEF Local, Ready
  <1>4. Good(q, s)
    BY <1>2, <1>3, GoodBefore DEF Ready
  <1> QED BY <1>4 DEF q

\* The same, for the handlers that have no job of their own.
LEMMA ReadyStep ==
  ASSUME NEW p, NEW t, Ready(p, t), NEW x, NEW s, Stack(s), Sound(s), Follows(s, x, t),
         Fits(x, s), NoJob(x.requests), NoJob(s[1])
  PROVE  Ready(<<x>> \o p, s)
  <1>1. SavesFirst(x, p, s)
    BY DEF SavesFirst
  <1>2. Good(<<x>> \o p, s)
    BY <1>1, GoodStep
  <1>3. PICK S : p \in Seq(S)
    BY GoodLocal DEF Ready, Local
  <1>4. Head(<<x>> \o p) = x
    BY <1>3, Before
  <1> QED BY <1>2, <1>4 DEF Ready

LEMMA Nothing == NoJob({})
  BY NoKeys DEF NoJob

LEMMA StackShape ==
  ASSUME NEW a, a # {}, NEW b, b # {}, NEW c, c # {}
  PROVE  /\ Stack(NoCalls) /\ Stack(<<a, {}, {}>>) /\ Stack(<<a, b, {}>>)
              /\ Stack(<<a, b, c>>)
  BY DEF Stack, NoCalls

LEMMA Push1 ==
  ASSUME NEW p, NEW a, a # {},
         NoJob(a), Sound(<<a, {}, {}>>), Ready(p, <<a, {}, {}>>)
  PROVE  Ready(<<acquire(a)>> \o p, NoCalls)
  <1> DEFINE s == NoCalls
             t == <<a, {}, {}>>
             x == acquire(a)
  <1>1. x.step = "acquire" /\ x.requests = a
    BY StepFields
  <1>2. depth(s) = 0 /\ t = [s EXCEPT ![1] = a]
    BY DEF depth, NoCalls
  <1>3. s[1] = {}
    BY DEF NoCalls
  <1>4. Stack(s) /\ Sound(s)
    BY StackShape, SoundPrefix DEF NoCalls
  <1>5. Ready(p, t)
    OBVIOUS
  <1> HIDE DEF s, t, x
  <1>6. Follows(s, x, t)
    BY <1>1, <1>2 DEF Follows
  <1>7. Fits(x, s)
    BY <1>1 DEF Fits
  <1>8. NoJob(x.requests) /\ NoJob(s[1])
    BY <1>1, <1>3, Nothing
  <1>9. Ready(<<x>> \o p, s)
    BY <1>4, <1>5, <1>6, <1>7, <1>8, ReadyStep
  <1> QED BY <1>9 DEF s, t, x

LEMMA Pop1 ==
  ASSUME NEW p, NEW a, a # {},
         NoJob(a), Sound(<<a, {}, {}>>), Ready(p, NoCalls)
  PROVE  Ready(<<release>> \o p, <<a, {}, {}>>)
  <1> DEFINE s == <<a, {}, {}>>
             t == NoCalls
             x == release
  <1>1. x.step = "release" /\ x.requests = {}
    BY StepFields
  <1>2. depth(s) = 1 /\ t = [s EXCEPT ![1] = {}]
    BY DEF depth, NoCalls
  <1>3. s[1] = a
    BY DEF NoCalls
  <1>4. Stack(s) /\ Sound(s)
    BY StackShape, SoundPrefix DEF NoCalls
  <1>5. Ready(p, t)
    OBVIOUS
  <1> HIDE DEF s, t, x
  <1>6. Follows(s, x, t)
    BY <1>1, <1>2 DEF Follows
  <1>7. Fits(x, s)
    BY <1>1 DEF Fits
  <1>8. NoJob(x.requests) /\ NoJob(s[1])
    BY <1>1, <1>3, Nothing
  <1>9. Ready(<<x>> \o p, s)
    BY <1>4, <1>5, <1>6, <1>7, <1>8, ReadyStep
  <1> QED BY <1>9 DEF s, t, x

LEMMA Push2 ==
  ASSUME NEW p, NEW a, a # {}, NEW b, b # {},
         NoJob(a), NoJob(b), Sound(<<a, b, {}>>), Ready(p, <<a, b, {}>>)
  PROVE  Ready(<<acquire(b)>> \o p, <<a, {}, {}>>)
  <1> DEFINE s == <<a, {}, {}>>
             t == <<a, b, {}>>
             x == acquire(b)
  <1>1. x.step = "acquire" /\ x.requests = b
    BY StepFields
  <1>2. depth(s) = 1 /\ t = [s EXCEPT ![2] = b]
    BY DEF depth, NoCalls
  <1>3. s[1] = a
    BY DEF NoCalls
  <1>4. Stack(s) /\ Sound(s)
    BY StackShape, SoundPrefix DEF NoCalls
  <1>5. Ready(p, t)
    OBVIOUS
  <1> HIDE DEF s, t, x
  <1>6. Follows(s, x, t)
    BY <1>1, <1>2 DEF Follows
  <1>7. Fits(x, s)
    BY <1>1 DEF Fits
  <1>8. NoJob(x.requests) /\ NoJob(s[1])
    BY <1>1, <1>3, Nothing
  <1>9. Ready(<<x>> \o p, s)
    BY <1>4, <1>5, <1>6, <1>7, <1>8, ReadyStep
  <1> QED BY <1>9 DEF s, t, x

LEMMA Pop2 ==
  ASSUME NEW p, NEW a, a # {}, NEW b, b # {},
         NoJob(a), Sound(<<a, b, {}>>), Ready(p, <<a, {}, {}>>)
  PROVE  Ready(<<release>> \o p, <<a, b, {}>>)
  <1> DEFINE s == <<a, b, {}>>
             t == <<a, {}, {}>>
             x == release
  <1>1. x.step = "release" /\ x.requests = {}
    BY StepFields
  <1>2. depth(s) = 2 /\ t = [s EXCEPT ![2] = {}]
    BY DEF depth, NoCalls
  <1>3. s[1] = a
    BY DEF NoCalls
  <1>4. Stack(s) /\ Sound(s)
    BY StackShape, SoundPrefix DEF NoCalls
  <1>5. Ready(p, t)
    OBVIOUS
  <1> HIDE DEF s, t, x
  <1>6. Follows(s, x, t)
    BY <1>1, <1>2 DEF Follows
  <1>7. Fits(x, s)
    BY <1>1 DEF Fits
  <1>8. NoJob(x.requests) /\ NoJob(s[1])
    BY <1>1, <1>3, Nothing
  <1>9. Ready(<<x>> \o p, s)
    BY <1>4, <1>5, <1>6, <1>7, <1>8, ReadyStep
  <1> QED BY <1>9 DEF s, t, x

LEMMA Push3 ==
  ASSUME NEW p, NEW a, a # {}, NEW b, b # {}, NEW c, c # {},
         NoJob(a), NoJob(c), Sound(<<a, b, c>>), Ready(p, <<a, b, c>>)
  PROVE  Ready(<<acquire(c)>> \o p, <<a, b, {}>>)
  <1> DEFINE s == <<a, b, {}>>
             t == <<a, b, c>>
             x == acquire(c)
  <1>1. x.step = "acquire" /\ x.requests = c
    BY StepFields
  <1>2. depth(s) = 2 /\ t = [s EXCEPT ![3] = c]
    BY DEF depth, NoCalls
  <1>3. s[1] = a
    BY DEF NoCalls
  <1>4. Stack(s) /\ Sound(s)
    BY StackShape, SoundPrefix DEF NoCalls
  <1>5. Ready(p, t)
    OBVIOUS
  <1> HIDE DEF s, t, x
  <1>6. Follows(s, x, t)
    BY <1>1, <1>2 DEF Follows
  <1>7. Fits(x, s)
    BY <1>1 DEF Fits
  <1>8. NoJob(x.requests) /\ NoJob(s[1])
    BY <1>1, <1>3, Nothing
  <1>9. Ready(<<x>> \o p, s)
    BY <1>4, <1>5, <1>6, <1>7, <1>8, ReadyStep
  <1> QED BY <1>9 DEF s, t, x

LEMMA Pop3 ==
  ASSUME NEW p, NEW a, a # {}, NEW b, b # {}, NEW c, c # {},
         NoJob(a), Sound(<<a, b, c>>), Ready(p, <<a, b, {}>>)
  PROVE  Ready(<<release>> \o p, <<a, b, c>>)
  <1> DEFINE s == <<a, b, c>>
             t == <<a, b, {}>>
             x == release
  <1>1. x.step = "release" /\ x.requests = {}
    BY StepFields
  <1>2. depth(s) = 3 /\ t = [s EXCEPT ![3] = {}]
    BY DEF depth, NoCalls
  <1>3. s[1] = a
    BY DEF NoCalls
  <1>4. Stack(s) /\ Sound(s)
    BY StackShape, SoundPrefix DEF NoCalls
  <1>5. Ready(p, t)
    OBVIOUS
  <1> HIDE DEF s, t, x
  <1>6. Follows(s, x, t)
    BY <1>1, <1>2 DEF Follows
  <1>7. Fits(x, s)
    BY <1>1 DEF Fits
  <1>8. NoJob(x.requests) /\ NoJob(s[1])
    BY <1>1, <1>3, Nothing
  <1>9. Ready(<<x>> \o p, s)
    BY <1>4, <1>5, <1>6, <1>7, <1>8, ReadyStep
  <1> QED BY <1>9 DEF s, t, x

LEMMA Stores ==
  ASSUME NEW p, NEW s, Ready(p, s), Repository \in Alone(s[1]), NoJob(s[1])
  PROVE  Ready(<<create>> \o p, s)
  <1>1. Stack(s) /\ Sound(s)
    BY GoodSound DEF Ready
  <1>2. Follows(s, create, s) /\ Fits(create, s) /\ NoJob(create.requests)
    BY StepFields, Nothing DEF Follows, Fits
  <1> QED BY <1>1, <1>2, ReadyStep

LEMMA Reconciles ==
  ASSUME NEW p, NEW s, Ready(p, s), NoJob(s[1]), depth(s) \in 1 .. 2,
         \A job \in Jobs : Sound(Inner(s, job))
  PROVE  Ready(<<reconcile>> \o p, s)
  <1>1. Stack(s) /\ Sound(s)
    BY GoodSound DEF Ready
  <1>2. Follows(s, reconcile, s) /\ Fits(reconcile, s) /\ NoJob(reconcile.requests)
    BY StepFields, Nothing DEF Follows, Fits
  <1> QED BY <1>1, <1>2, ReadyStep

LEMMA ReadyEnds == Ready(<<>>, NoCalls)
  BY GoodEnds DEF Ready

LEMMA Join0 ==
  ASSUME NEW x
  PROVE  <<x>> \o <<>> = <<x>>
  <1> DEFINE S == {x}
             u == <<x>>
             v == <<>>
             w == <<x>>
  <1>1. u \in Seq(S) /\ v \in Seq(S) /\ w \in Seq(S)
    OBVIOUS
  <1>2. Len(u) = 1 /\ Len(v) = 0 /\ Len(w) = 1 + 0
    OBVIOUS
  <1>3. w[1] = u[1]
    OBVIOUS
  <1> HIDE DEF S, u, v, w
  <1>4. \A i \in 1 .. Len(u) : w[i] = u[i]
    BY <1>2, <1>3
  <1>5. \A i \in 1 .. Len(v) : w[Len(u) + i] = v[i]
    BY <1>2, <1>3
  <1>6. Len(w) = Len(u) + Len(v)
    BY <1>2
  <1>7. u \o v = w
    BY <1>1, <1>4, <1>5, <1>6, JoinedIs
  <1> QED BY <1>7 DEF u, v, w

LEMMA Join1 ==
  ASSUME NEW x, NEW y1
  PROVE  <<x>> \o <<y1>> = <<x, y1>>
  <1> DEFINE S == {x, y1}
             u == <<x>>
             v == <<y1>>
             w == <<x, y1>>
  <1>1. u \in Seq(S) /\ v \in Seq(S) /\ w \in Seq(S)
    OBVIOUS
  <1>2. Len(u) = 1 /\ Len(v) = 1 /\ Len(w) = 1 + 1
    OBVIOUS
  <1>3. w[1] = u[1] /\ w[1 + 1] = v[1]
    OBVIOUS
  <1> HIDE DEF S, u, v, w
  <1>4. \A i \in 1 .. Len(u) : w[i] = u[i]
    BY <1>2, <1>3
  <1>5. \A i \in 1 .. Len(v) : w[Len(u) + i] = v[i]
    BY <1>2, <1>3
  <1>6. Len(w) = Len(u) + Len(v)
    BY <1>2
  <1>7. u \o v = w
    BY <1>1, <1>4, <1>5, <1>6, JoinedIs
  <1> QED BY <1>7 DEF u, v, w

LEMMA Join2 ==
  ASSUME NEW x, NEW y1, NEW y2
  PROVE  <<x>> \o <<y1, y2>> = <<x, y1, y2>>
  <1> DEFINE S == {x, y1, y2}
             u == <<x>>
             v == <<y1, y2>>
             w == <<x, y1, y2>>
  <1>1. u \in Seq(S) /\ v \in Seq(S) /\ w \in Seq(S)
    OBVIOUS
  <1>2. Len(u) = 1 /\ Len(v) = 2 /\ Len(w) = 1 + 2
    OBVIOUS
  <1>3. w[1] = u[1] /\ w[1 + 1] = v[1] /\ w[1 + 2] = v[2]
    OBVIOUS
  <1> HIDE DEF S, u, v, w
  <1>4. \A i \in 1 .. Len(u) : w[i] = u[i]
    BY <1>2, <1>3
  <1>5. \A i \in 1 .. Len(v) : w[Len(u) + i] = v[i]
    <2>1. \A i \in 1 .. 2 : i = 1 \/ i = 2
      OBVIOUS
    <2> QED BY <1>2, <1>3, <2>1
  <1>6. Len(w) = Len(u) + Len(v)
    BY <1>2
  <1>7. u \o v = w
    BY <1>1, <1>4, <1>5, <1>6, JoinedIs
  <1> QED BY <1>7 DEF u, v, w

LEMMA Join3 ==
  ASSUME NEW x, NEW y1, NEW y2, NEW y3
  PROVE  <<x>> \o <<y1, y2, y3>> = <<x, y1, y2, y3>>
  <1> DEFINE S == {x, y1, y2, y3}
             u == <<x>>
             v == <<y1, y2, y3>>
             w == <<x, y1, y2, y3>>
  <1>1. u \in Seq(S) /\ v \in Seq(S) /\ w \in Seq(S)
    OBVIOUS
  <1>2. Len(u) = 1 /\ Len(v) = 3 /\ Len(w) = 1 + 3
    OBVIOUS
  <1>3. w[1] = u[1] /\ w[1 + 1] = v[1] /\ w[1 + 2] = v[2] /\ w[1 + 3] = v[3]
    OBVIOUS
  <1> HIDE DEF S, u, v, w
  <1>4. \A i \in 1 .. Len(u) : w[i] = u[i]
    BY <1>2, <1>3
  <1>5. \A i \in 1 .. Len(v) : w[Len(u) + i] = v[i]
    <2>1. \A i \in 1 .. 3 : i = 1 \/ i = 2 \/ i = 3
      OBVIOUS
    <2> QED BY <1>2, <1>3, <2>1
  <1>6. Len(w) = Len(u) + Len(v)
    BY <1>2
  <1>7. u \o v = w
    BY <1>1, <1>4, <1>5, <1>6, JoinedIs
  <1> QED BY <1>7 DEF u, v, w

LEMMA Join4 ==
  ASSUME NEW x, NEW y1, NEW y2, NEW y3, NEW y4
  PROVE  <<x>> \o <<y1, y2, y3, y4>> = <<x, y1, y2, y3, y4>>
  <1> DEFINE S == {x, y1, y2, y3, y4}
             u == <<x>>
             v == <<y1, y2, y3, y4>>
             w == <<x, y1, y2, y3, y4>>
  <1>1. u \in Seq(S) /\ v \in Seq(S) /\ w \in Seq(S)
    OBVIOUS
  <1>2. Len(u) = 1 /\ Len(v) = 4 /\ Len(w) = 1 + 4
    OBVIOUS
  <1>3. w[1] = u[1] /\ w[1 + 1] = v[1] /\ w[1 + 2] = v[2] /\ w[1 + 3] = v[3] /\ w[1 + 4] = v[4]
    OBVIOUS
  <1> HIDE DEF S, u, v, w
  <1>4. \A i \in 1 .. Len(u) : w[i] = u[i]
    BY <1>2, <1>3
  <1>5. \A i \in 1 .. Len(v) : w[Len(u) + i] = v[i]
    <2>1. \A i \in 1 .. 4 : i = 1 \/ i = 2 \/ i = 3 \/ i = 4
      OBVIOUS
    <2> QED BY <1>2, <1>3, <2>1
  <1>6. Len(w) = Len(u) + Len(v)
    BY <1>2
  <1>7. u \o v = w
    BY <1>1, <1>4, <1>5, <1>6, JoinedIs
  <1> QED BY <1>7 DEF u, v, w

LEMMA Join5 ==
  ASSUME NEW x, NEW y1, NEW y2, NEW y3, NEW y4, NEW y5
  PROVE  <<x>> \o <<y1, y2, y3, y4, y5>> = <<x, y1, y2, y3, y4, y5>>
  <1> DEFINE S == {x, y1, y2, y3, y4, y5}
             u == <<x>>
             v == <<y1, y2, y3, y4, y5>>
             w == <<x, y1, y2, y3, y4, y5>>
  <1>1. u \in Seq(S) /\ v \in Seq(S) /\ w \in Seq(S)
    OBVIOUS
  <1>2. Len(u) = 1 /\ Len(v) = 5 /\ Len(w) = 1 + 5
    OBVIOUS
  <1>3. w[1] = u[1] /\ w[1 + 1] = v[1] /\ w[1 + 2] = v[2] /\ w[1 + 3] = v[3] /\ w[1 + 4] = v[4] /\ w[1 + 5] = v[5]
    OBVIOUS
  <1> HIDE DEF S, u, v, w
  <1>4. \A i \in 1 .. Len(u) : w[i] = u[i]
    BY <1>2, <1>3
  <1>5. \A i \in 1 .. Len(v) : w[Len(u) + i] = v[i]
    <2>1. \A i \in 1 .. 5 : i = 1 \/ i = 2 \/ i = 3 \/ i = 4 \/ i = 5
      OBVIOUS
    <2> QED BY <1>2, <1>3, <2>1
  <1>6. Len(w) = Len(u) + Len(v)
    BY <1>2
  <1>7. u \o v = w
    BY <1>1, <1>4, <1>5, <1>6, JoinedIs
  <1> QED BY <1>7 DEF u, v, w

LEMMA Join6 ==
  ASSUME NEW x, NEW y1, NEW y2, NEW y3, NEW y4, NEW y5, NEW y6
  PROVE  <<x>> \o <<y1, y2, y3, y4, y5, y6>> = <<x, y1, y2, y3, y4, y5, y6>>
  <1> DEFINE S == {x, y1, y2, y3, y4, y5, y6}
             u == <<x>>
             v == <<y1, y2, y3, y4, y5, y6>>
             w == <<x, y1, y2, y3, y4, y5, y6>>
  <1>1. u \in Seq(S) /\ v \in Seq(S) /\ w \in Seq(S)
    OBVIOUS
  <1>2. Len(u) = 1 /\ Len(v) = 6 /\ Len(w) = 1 + 6
    OBVIOUS
  <1>3. w[1] = u[1] /\ w[1 + 1] = v[1] /\ w[1 + 2] = v[2] /\ w[1 + 3] = v[3] /\ w[1 + 4] = v[4] /\ w[1 + 5] = v[5] /\ w[1 + 6] = v[6]
    OBVIOUS
  <1> HIDE DEF S, u, v, w
  <1>4. \A i \in 1 .. Len(u) : w[i] = u[i]
    BY <1>2, <1>3
  <1>5. \A i \in 1 .. Len(v) : w[Len(u) + i] = v[i]
    <2>1. \A i \in 1 .. 6 : i = 1 \/ i = 2 \/ i = 3 \/ i = 4 \/ i = 5 \/ i = 6
      OBVIOUS
    <2> QED BY <1>2, <1>3, <2>1
  <1>6. Len(w) = Len(u) + Len(v)
    BY <1>2
  <1>7. u \o v = w
    BY <1>1, <1>4, <1>5, <1>6, JoinedIs
  <1> QED BY <1>7 DEF u, v, w

LEMMA Join7 ==
  ASSUME NEW x, NEW y1, NEW y2, NEW y3, NEW y4, NEW y5, NEW y6, NEW y7
  PROVE  <<x>> \o <<y1, y2, y3, y4, y5, y6, y7>> = <<x, y1, y2, y3, y4, y5, y6, y7>>
  <1> DEFINE S == {x, y1, y2, y3, y4, y5, y6, y7}
             u == <<x>>
             v == <<y1, y2, y3, y4, y5, y6, y7>>
             w == <<x, y1, y2, y3, y4, y5, y6, y7>>
  <1>1. u \in Seq(S) /\ v \in Seq(S) /\ w \in Seq(S)
    OBVIOUS
  <1>2. Len(u) = 1 /\ Len(v) = 7 /\ Len(w) = 1 + 7
    OBVIOUS
  <1>3. w[1] = u[1] /\ w[1 + 1] = v[1] /\ w[1 + 2] = v[2] /\ w[1 + 3] = v[3] /\ w[1 + 4] = v[4] /\ w[1 + 5] = v[5] /\ w[1 + 6] = v[6] /\ w[1 + 7] = v[7]
    OBVIOUS
  <1> HIDE DEF S, u, v, w
  <1>4. \A i \in 1 .. Len(u) : w[i] = u[i]
    BY <1>2, <1>3
  <1>5. \A i \in 1 .. Len(v) : w[Len(u) + i] = v[i]
    <2>1. \A i \in 1 .. 7 : i = 1 \/ i = 2 \/ i = 3 \/ i = 4 \/ i = 5 \/ i = 6 \/ i = 7
      OBVIOUS
    <2> QED BY <1>2, <1>3, <2>1
  <1>6. Len(w) = Len(u) + Len(v)
    BY <1>2
  <1>7. u \o v = w
    BY <1>1, <1>4, <1>5, <1>6, JoinedIs
  <1> QED BY <1>7 DEF u, v, w

LEMMA Join8 ==
  ASSUME NEW x, NEW y1, NEW y2, NEW y3, NEW y4, NEW y5, NEW y6, NEW y7, NEW y8
  PROVE  <<x>> \o <<y1, y2, y3, y4, y5, y6, y7, y8>> = <<x, y1, y2, y3, y4, y5, y6, y7, y8>>
  <1> DEFINE S == {x, y1, y2, y3, y4, y5, y6, y7, y8}
             u == <<x>>
             v == <<y1, y2, y3, y4, y5, y6, y7, y8>>
             w == <<x, y1, y2, y3, y4, y5, y6, y7, y8>>
  <1>1. u \in Seq(S) /\ v \in Seq(S) /\ w \in Seq(S)
    OBVIOUS
  <1>2. Len(u) = 1 /\ Len(v) = 8 /\ Len(w) = 1 + 8
    OBVIOUS
  <1>3. w[1] = u[1] /\ w[1 + 1] = v[1] /\ w[1 + 2] = v[2] /\ w[1 + 3] = v[3] /\ w[1 + 4] = v[4] /\ w[1 + 5] = v[5] /\ w[1 + 6] = v[6] /\ w[1 + 7] = v[7] /\ w[1 + 8] = v[8]
    OBVIOUS
  <1> HIDE DEF S, u, v, w
  <1>4. \A i \in 1 .. Len(u) : w[i] = u[i]
    BY <1>2, <1>3
  <1>5. \A i \in 1 .. Len(v) : w[Len(u) + i] = v[i]
    <2>1. \A i \in 1 .. 8 : i = 1 \/ i = 2 \/ i = 3 \/ i = 4 \/ i = 5 \/ i = 6 \/ i = 7 \/ i = 8
      OBVIOUS
    <2> QED BY <1>2, <1>3, <2>1
  <1>6. Len(w) = Len(u) + Len(v)
    BY <1>2
  <1>7. u \o v = w
    BY <1>1, <1>4, <1>5, <1>6, JoinedIs
  <1> QED BY <1>7 DEF u, v, w

LEMMA Join9 ==
  ASSUME NEW x, NEW y1, NEW y2, NEW y3, NEW y4, NEW y5, NEW y6, NEW y7, NEW y8, NEW y9
  PROVE  <<x>> \o <<y1, y2, y3, y4, y5, y6, y7, y8, y9>> = <<x, y1, y2, y3, y4, y5, y6, y7, y8, y9>>
  <1> DEFINE S == {x, y1, y2, y3, y4, y5, y6, y7, y8, y9}
             u == <<x>>
             v == <<y1, y2, y3, y4, y5, y6, y7, y8, y9>>
             w == <<x, y1, y2, y3, y4, y5, y6, y7, y8, y9>>
  <1>1. u \in Seq(S) /\ v \in Seq(S) /\ w \in Seq(S)
    OBVIOUS
  <1>2. Len(u) = 1 /\ Len(v) = 9 /\ Len(w) = 1 + 9
    OBVIOUS
  <1>3. w[1] = u[1] /\ w[1 + 1] = v[1] /\ w[1 + 2] = v[2] /\ w[1 + 3] = v[3] /\ w[1 + 4] = v[4] /\ w[1 + 5] = v[5] /\ w[1 + 6] = v[6] /\ w[1 + 7] = v[7] /\ w[1 + 8] = v[8] /\ w[1 + 9] = v[9]
    OBVIOUS
  <1> HIDE DEF S, u, v, w
  <1>4. \A i \in 1 .. Len(u) : w[i] = u[i]
    BY <1>2, <1>3
  <1>5. \A i \in 1 .. Len(v) : w[Len(u) + i] = v[i]
    <2>1. \A i \in 1 .. 9 : i = 1 \/ i = 2 \/ i = 3 \/ i = 4 \/ i = 5 \/ i = 6 \/ i = 7 \/ i = 8 \/ i = 9
      OBVIOUS
    <2> QED BY <1>2, <1>3, <2>1
  <1>6. Len(w) = Len(u) + Len(v)
    BY <1>2
  <1>7. u \o v = w
    BY <1>1, <1>4, <1>5, <1>6, JoinedIs
  <1> QED BY <1>7 DEF u, v, w

LEMMA PlanTwo ==
  ASSUME NEW a, a # {}, NoJob(a), NEW b, b # {}, NoJob(b),
         Sound(<<a, b, {}>>)
  PROVE  Ready(<<acquire(a), acquire(b), release, release>>, NoCalls)
  <1>1. Sound(<<a, {}, {}>>) /\ Sound(<<a, b, {}>>)
    BY SoundPrefix
  <1>2. Ready(<<>>, NoCalls)
    BY ReadyEnds
  <1>3. Ready(<<release>>, <<a, {}, {}>>)
    <2>1. Ready(<<release>> \o <<>>, <<a, {}, {}>>)
      BY <1>1, <1>2, Pop1
    <2> QED BY <2>1, Join0
  <1>4. Ready(<<release, release>>, <<a, b, {}>>)
    <2>1. Ready(<<release>> \o <<release>>, <<a, b, {}>>)
      BY <1>1, <1>3, Pop2
    <2> QED BY <2>1, Join1
  <1>5. Ready(<<acquire(b), release, release>>, <<a, {}, {}>>)
    <2>1. Ready(<<acquire(b)>> \o <<release, release>>, <<a, {}, {}>>)
      BY <1>1, <1>4, Push2
    <2> QED BY <2>1, Join2
  <1>6. Ready(<<acquire(a), acquire(b), release, release>>, NoCalls)
    <2>1. Ready(<<acquire(a)>> \o <<acquire(b), release, release>>, NoCalls)
      BY <1>1, <1>5, Push1
    <2> QED BY <2>1, Join3
  <1> QED BY <1>6

LEMMA PlanPair ==
  ASSUME NEW a, a # {}, NoJob(a), NEW b, b # {}, NoJob(b),
         Sound(<<a, {}, {}>>), Sound(<<b, {}, {}>>)
  PROVE  Ready(<<acquire(a), release, acquire(b), release>>, NoCalls)
  <1>1. Sound(<<a, {}, {}>>) /\ Sound(<<b, {}, {}>>)
    BY SoundPrefix
  <1>2. Ready(<<>>, NoCalls)
    BY ReadyEnds
  <1>3. Ready(<<release>>, <<b, {}, {}>>)
    <2>1. Ready(<<release>> \o <<>>, <<b, {}, {}>>)
      BY <1>1, <1>2, Pop1
    <2> QED BY <2>1, Join0
  <1>4. Ready(<<acquire(b), release>>, NoCalls)
    <2>1. Ready(<<acquire(b)>> \o <<release>>, NoCalls)
      BY <1>1, <1>3, Push1
    <2> QED BY <2>1, Join1
  <1>5. Ready(<<release, acquire(b), release>>, <<a, {}, {}>>)
    <2>1. Ready(<<release>> \o <<acquire(b), release>>, <<a, {}, {}>>)
      BY <1>1, <1>4, Pop1
    <2> QED BY <2>1, Join2
  <1>6. Ready(<<acquire(a), release, acquire(b), release>>, NoCalls)
    <2>1. Ready(<<acquire(a)>> \o <<release, acquire(b), release>>, NoCalls)
      BY <1>1, <1>5, Push1
    <2> QED BY <2>1, Join3
  <1> QED BY <1>6

LEMMA PlanThree ==
  ASSUME NEW a, a # {}, NoJob(a), NEW b, b # {}, NoJob(b), NEW c, c # {}, NoJob(c),
         Sound(<<a, b, c>>)
  PROVE  Ready(<<acquire(a), acquire(b), acquire(c), release, release, release>>, NoCalls)
  <1>1. Sound(<<a, {}, {}>>) /\ Sound(<<a, b, {}>>) /\ Sound(<<a, b, c>>)
    BY SoundPrefix
  <1>2. Ready(<<>>, NoCalls)
    BY ReadyEnds
  <1>3. Ready(<<release>>, <<a, {}, {}>>)
    <2>1. Ready(<<release>> \o <<>>, <<a, {}, {}>>)
      BY <1>1, <1>2, Pop1
    <2> QED BY <2>1, Join0
  <1>4. Ready(<<release, release>>, <<a, b, {}>>)
    <2>1. Ready(<<release>> \o <<release>>, <<a, b, {}>>)
      BY <1>1, <1>3, Pop2
    <2> QED BY <2>1, Join1
  <1>5. Ready(<<release, release, release>>, <<a, b, c>>)
    <2>1. Ready(<<release>> \o <<release, release>>, <<a, b, c>>)
      BY <1>1, <1>4, Pop3
    <2> QED BY <2>1, Join2
  <1>6. Ready(<<acquire(c), release, release, release>>, <<a, b, {}>>)
    <2>1. Ready(<<acquire(c)>> \o <<release, release, release>>, <<a, b, {}>>)
      BY <1>1, <1>5, Push3
    <2> QED BY <2>1, Join3
  <1>7. Ready(<<acquire(b), acquire(c), release, release, release>>, <<a, {}, {}>>)
    <2>1. Ready(<<acquire(b)>> \o <<acquire(c), release, release, release>>, <<a, {}, {}>>)
      BY <1>1, <1>6, Push2
    <2> QED BY <2>1, Join4
  <1>8. Ready(<<acquire(a), acquire(b), acquire(c), release, release, release>>, NoCalls)
    <2>1. Ready(<<acquire(a)>> \o
              <<acquire(b), acquire(c), release, release, release>>, NoCalls)
      BY <1>1, <1>7, Push1
    <2> QED BY <2>1, Join5
  <1> QED BY <1>8

LEMMA PlanAgain ==
  ASSUME NEW a, a # {}, NoJob(a), NEW b, b # {}, NoJob(b), NEW c, c # {}, NoJob(c),
         Sound(<<a, b, c>>)
  PROVE  Ready(<<acquire(a), acquire(b), acquire(c), release, acquire(c),
           release, release, release>>, NoCalls)
  <1>1. Sound(<<a, {}, {}>>) /\ Sound(<<a, b, {}>>) /\ Sound(<<a, b, c>>)
    BY SoundPrefix
  <1>2. Ready(<<>>, NoCalls)
    BY ReadyEnds
  <1>3. Ready(<<release>>, <<a, {}, {}>>)
    <2>1. Ready(<<release>> \o <<>>, <<a, {}, {}>>)
      BY <1>1, <1>2, Pop1
    <2> QED BY <2>1, Join0
  <1>4. Ready(<<release, release>>, <<a, b, {}>>)
    <2>1. Ready(<<release>> \o <<release>>, <<a, b, {}>>)
      BY <1>1, <1>3, Pop2
    <2> QED BY <2>1, Join1
  <1>5. Ready(<<release, release, release>>, <<a, b, c>>)
    <2>1. Ready(<<release>> \o <<release, release>>, <<a, b, c>>)
      BY <1>1, <1>4, Pop3
    <2> QED BY <2>1, Join2
  <1>6. Ready(<<acquire(c), release, release, release>>, <<a, b, {}>>)
    <2>1. Ready(<<acquire(c)>> \o <<release, release, release>>, <<a, b, {}>>)
      BY <1>1, <1>5, Push3
    <2> QED BY <2>1, Join3
  <1>7. Ready(<<release, acquire(c), release, release, release>>, <<a, b, c>>)
    <2>1. Ready(<<release>> \o <<acquire(c), release, release, release>>, <<a, b, c>>)
      BY <1>1, <1>6, Pop3
    <2> QED BY <2>1, Join4
  <1>8. Ready(<<acquire(c), release, acquire(c), release, release, release>>, <<a, b, {}>>)
    <2>1. Ready(<<acquire(c)>> \o
              <<release, acquire(c), release, release, release>>, <<a, b, {}>>)
      BY <1>1, <1>7, Push3
    <2> QED BY <2>1, Join5
  <1>9. Ready(<<acquire(b), acquire(c), release, acquire(c),
               release, release, release>>, <<a, {}, {}>>)
    <2>1. Ready(<<acquire(b)>> \o
              <<acquire(c), release, acquire(c), release, release, release>>, <<a, {}, {}>>)
      BY <1>1, <1>8, Push2
    <2>2. <<acquire(b)>> \o
           <<acquire(c), release, acquire(c), release, release, release>>
        = <<acquire(b), acquire(c), release, acquire(c), release, release, release>>
      BY Join6
    <2> QED BY <2>1, <2>2
  <1>10. Ready(<<acquire(a), acquire(b), acquire(c), release,
               acquire(c), release, release, release>>, NoCalls)
    <2>1. Ready(<<acquire(a)>> \o
              <<acquire(b), acquire(c), release, acquire(c), release, release, release>>, NoCalls)
      BY <1>1, <1>9, Push1
    <2>2. <<acquire(a)>> \o
           <<acquire(b), acquire(c), release, acquire(c), release, release, release>>
        = <<acquire(a), acquire(b), acquire(c), release, acquire(c), release, release, release>>
      BY Join7
    <2> QED BY <2>1, <2>2
  <1> QED BY <1>10

LEMMA PlanEdit ==
  ASSUME NEW a, a # {}, NoJob(a),
         Sound(<<a, {}, {}>>), Repository \in Alone(a),
         \A job \in Jobs : Sound(<<a, Exclusive({job}), {}>>)
  PROVE  Ready(<<acquire(a), create, reconcile, release>>, NoCalls)
  <1>1. Sound(<<a, {}, {}>>)
    BY SoundPrefix
  <1>2. Ready(<<>>, NoCalls)
    BY ReadyEnds
  <1>3. Ready(<<release>>, <<a, {}, {}>>)
    <2>1. Ready(<<release>> \o <<>>, <<a, {}, {}>>)
      BY <1>1, <1>2, Pop1
    <2> QED BY <2>1, Join0
  <1>4. Ready(<<reconcile, release>>, <<a, {}, {}>>)
    <2>1. Ready(<<reconcile>> \o <<release>>, <<a, {}, {}>>)
      <3>1. <<a, {}, {}>>[1] = a /\ depth(<<a, {}, {}>>) = 1
        BY DEF depth
      <3>2. ASSUME NEW job \in Jobs PROVE Sound(Inner(<<a, {}, {}>>, job))
        <4>1. [<<a, {}, {}>> EXCEPT ![2] = Exclusive({job})] = <<a, Exclusive({job}), {}>>
          OBVIOUS
        <4>2. depth(<<a, {}, {}>>) + 1 = 2
          BY <3>1
        <4>3. Inner(<<a, {}, {}>>, job) = [<<a, {}, {}>> EXCEPT ![2] = Exclusive({job})]
          BY <4>2, Zenon DEF Inner
        <4> QED BY <4>1, <4>3
      <3> QED BY <3>1, <3>2, <1>3, Reconciles
    <2> QED BY <2>1, Join1
  <1>5. Ready(<<create, reconcile, release>>, <<a, {}, {}>>)
    <2>1. Ready(<<create>> \o <<reconcile, release>>, <<a, {}, {}>>)
      <3>1. <<a, {}, {}>>[1] = a
        OBVIOUS
      <3> QED BY <3>1, <1>4, Stores
    <2> QED BY <2>1, Join2
  <1>6. Ready(<<acquire(a), create, reconcile, release>>, NoCalls)
    <2>1. Ready(<<acquire(a)>> \o <<create, reconcile, release>>, NoCalls)
      BY <1>1, <1>5, Push1
    <2> QED BY <2>1, Join3
  <1> QED BY <1>6

LEMMA PlanBranch ==
  ASSUME NEW a, a # {}, NoJob(a), NEW b, b # {}, NoJob(b),
         Sound(<<a, b, {}>>), Repository \in Alone(a),
         \A job \in Jobs : Sound(<<a, Exclusive({job}), {}>>)
  PROVE  Ready(<<acquire(a), acquire(b), release, create, reconcile, release>>, NoCalls)
  <1>1. Sound(<<a, {}, {}>>) /\ Sound(<<a, b, {}>>)
    BY SoundPrefix
  <1>2. Ready(<<>>, NoCalls)
    BY ReadyEnds
  <1>3. Ready(<<release>>, <<a, {}, {}>>)
    <2>1. Ready(<<release>> \o <<>>, <<a, {}, {}>>)
      BY <1>1, <1>2, Pop1
    <2> QED BY <2>1, Join0
  <1>4. Ready(<<reconcile, release>>, <<a, {}, {}>>)
    <2>1. Ready(<<reconcile>> \o <<release>>, <<a, {}, {}>>)
      <3>1. <<a, {}, {}>>[1] = a /\ depth(<<a, {}, {}>>) = 1
        BY DEF depth
      <3>2. ASSUME NEW job \in Jobs PROVE Sound(Inner(<<a, {}, {}>>, job))
        <4>1. [<<a, {}, {}>> EXCEPT ![2] = Exclusive({job})] = <<a, Exclusive({job}), {}>>
          OBVIOUS
        <4>2. depth(<<a, {}, {}>>) + 1 = 2
          BY <3>1
        <4>3. Inner(<<a, {}, {}>>, job) = [<<a, {}, {}>> EXCEPT ![2] = Exclusive({job})]
          BY <4>2, Zenon DEF Inner
        <4> QED BY <4>1, <4>3
      <3> QED BY <3>1, <3>2, <1>3, Reconciles
    <2> QED BY <2>1, Join1
  <1>5. Ready(<<create, reconcile, release>>, <<a, {}, {}>>)
    <2>1. Ready(<<create>> \o <<reconcile, release>>, <<a, {}, {}>>)
      <3>1. <<a, {}, {}>>[1] = a
        OBVIOUS
      <3> QED BY <3>1, <1>4, Stores
    <2> QED BY <2>1, Join2
  <1>6. Ready(<<release, create, reconcile, release>>, <<a, b, {}>>)
    <2>1. Ready(<<release>> \o <<create, reconcile, release>>, <<a, b, {}>>)
      BY <1>1, <1>5, Pop2
    <2> QED BY <2>1, Join3
  <1>7. Ready(<<acquire(b), release, create, reconcile, release>>, <<a, {}, {}>>)
    <2>1. Ready(<<acquire(b)>> \o <<release, create, reconcile, release>>, <<a, {}, {}>>)
      BY <1>1, <1>6, Push2
    <2> QED BY <2>1, Join4
  <1>8. Ready(<<acquire(a), acquire(b), release, create, reconcile, release>>, NoCalls)
    <2>1. Ready(<<acquire(a)>> \o
              <<acquire(b), release, create, reconcile, release>>, NoCalls)
      BY <1>1, <1>7, Push1
    <2> QED BY <2>1, Join5
  <1> QED BY <1>8

LEMMA PlanMerge ==
  ASSUME NEW a, a # {}, NoJob(a), NEW b, b # {}, NoJob(b), NEW c, c # {}, NoJob(c),
         Sound(<<a, b, c>>), Repository \in Alone(a),
         \A job \in Jobs : Sound(<<a, b, Exclusive({job})>>)
  PROVE  Ready(<<acquire(a), acquire(b), acquire(c), release, create,
           reconcile, acquire(c), release, release, release>>, NoCalls)
  <1>1. Sound(<<a, {}, {}>>) /\ Sound(<<a, b, {}>>) /\ Sound(<<a, b, c>>)
    BY SoundPrefix
  <1>2. Ready(<<>>, NoCalls)
    BY ReadyEnds
  <1>3. Ready(<<release>>, <<a, {}, {}>>)
    <2>1. Ready(<<release>> \o <<>>, <<a, {}, {}>>)
      BY <1>1, <1>2, Pop1
    <2> QED BY <2>1, Join0
  <1>4. Ready(<<release, release>>, <<a, b, {}>>)
    <2>1. Ready(<<release>> \o <<release>>, <<a, b, {}>>)
      BY <1>1, <1>3, Pop2
    <2> QED BY <2>1, Join1
  <1>5. Ready(<<release, release, release>>, <<a, b, c>>)
    <2>1. Ready(<<release>> \o <<release, release>>, <<a, b, c>>)
      BY <1>1, <1>4, Pop3
    <2> QED BY <2>1, Join2
  <1>6. Ready(<<acquire(c), release, release, release>>, <<a, b, {}>>)
    <2>1. Ready(<<acquire(c)>> \o <<release, release, release>>, <<a, b, {}>>)
      BY <1>1, <1>5, Push3
    <2> QED BY <2>1, Join3
  <1>7. Ready(<<reconcile, acquire(c), release, release, release>>, <<a, b, {}>>)
    <2>1. Ready(<<reconcile>> \o <<acquire(c), release, release, release>>, <<a, b, {}>>)
      <3>1. <<a, b, {}>>[1] = a /\ depth(<<a, b, {}>>) = 2
        BY DEF depth
      <3>2. ASSUME NEW job \in Jobs PROVE Sound(Inner(<<a, b, {}>>, job))
        <4>1. [<<a, b, {}>> EXCEPT ![3] = Exclusive({job})] = <<a, b, Exclusive({job})>>
          OBVIOUS
        <4>2. depth(<<a, b, {}>>) + 1 = 3
          BY <3>1
        <4>3. Inner(<<a, b, {}>>, job) = [<<a, b, {}>> EXCEPT ![3] = Exclusive({job})]
          BY <4>2, Zenon DEF Inner
        <4> QED BY <4>1, <4>3
      <3> QED BY <3>1, <3>2, <1>6, Reconciles
    <2> QED BY <2>1, Join4
  <1>8. Ready(<<create, reconcile, acquire(c), release, release, release>>, <<a, b, {}>>)
    <2>1. Ready(<<create>> \o
              <<reconcile, acquire(c), release, release, release>>, <<a, b, {}>>)
      <3>1. <<a, b, {}>>[1] = a
        OBVIOUS
      <3> QED BY <3>1, <1>7, Stores
    <2> QED BY <2>1, Join5
  <1>9. Ready(<<release, create, reconcile, acquire(c),
               release, release, release>>, <<a, b, c>>)
    <2>1. Ready(<<release>> \o
              <<create, reconcile, acquire(c), release, release, release>>, <<a, b, c>>)
      BY <1>1, <1>8, Pop3
    <2>2. <<release>> \o
           <<create, reconcile, acquire(c), release, release, release>>
        = <<release, create, reconcile, acquire(c), release, release, release>>
      BY Join6
    <2> QED BY <2>1, <2>2
  <1>10. Ready(<<acquire(c), release, create, reconcile,
               acquire(c), release, release, release>>, <<a, b, {}>>)
    <2>1. Ready(<<acquire(c)>> \o
              <<release, create, reconcile, acquire(c), release, release, release>>, <<a, b, {}>>)
      BY <1>1, <1>9, Push3
    <2>2. <<acquire(c)>> \o
           <<release, create, reconcile, acquire(c), release, release, release>>
        = <<acquire(c), release, create, reconcile, acquire(c), release, release, release>>
      BY Join7
    <2> QED BY <2>1, <2>2
  <1>11. Ready(<<acquire(b), acquire(c), release, create,
               reconcile, acquire(c), release, release, release>>, <<a, {}, {}>>)
    <2>1. Ready(<<acquire(b)>> \o
              <<acquire(c), release, create, reconcile, acquire(c), release, release, release>>, <<a, {}, {}>>)
      BY <1>1, <1>10, Push2
    <2>2. <<acquire(b)>> \o
           <<acquire(c), release, create, reconcile, acquire(c), release, release, release>>
        = <<acquire(b), acquire(c), release, create, reconcile, acquire(c), release, release, release>>
      BY Join8
    <2> QED BY <2>1, <2>2
  <1>12. Ready(<<acquire(a), acquire(b), acquire(c), release,
               create, reconcile, acquire(c), release, release, release>>, NoCalls)
    <2>1. Ready(<<acquire(a)>> \o
              <<acquire(b), acquire(c), release, create, reconcile, acquire(c), release, release, release>>, NoCalls)
      BY <1>1, <1>11, Push1
    <2>2. <<acquire(a)>> \o
           <<acquire(b), acquire(c), release, create, reconcile, acquire(c), release, release, release>>
        = <<acquire(a), acquire(b), acquire(c), release, create, reconcile, acquire(c), release, release, release>>
      BY Join9
    <2> QED BY <2>1, <2>2
  <1> QED BY <1>12

LEMMA PlanClaim ==
  ASSUME NEW a, a # {}, NoJob(a),
         Sound(<<a, {}, {}>>),
         \A job \in Jobs : Sound(<<a, Exclusive({job}), {}>>)
  PROVE  Ready(<<acquire(a), reconcile, release>>, NoCalls)
  <1>1. Sound(<<a, {}, {}>>)
    BY SoundPrefix
  <1>2. Ready(<<>>, NoCalls)
    BY ReadyEnds
  <1>3. Ready(<<release>>, <<a, {}, {}>>)
    <2>1. Ready(<<release>> \o <<>>, <<a, {}, {}>>)
      BY <1>1, <1>2, Pop1
    <2> QED BY <2>1, Join0
  <1>4. Ready(<<reconcile, release>>, <<a, {}, {}>>)
    <2>1. Ready(<<reconcile>> \o <<release>>, <<a, {}, {}>>)
      <3>1. <<a, {}, {}>>[1] = a /\ depth(<<a, {}, {}>>) = 1
        BY DEF depth
      <3>2. ASSUME NEW job \in Jobs PROVE Sound(Inner(<<a, {}, {}>>, job))
        <4>1. [<<a, {}, {}>> EXCEPT ![2] = Exclusive({job})] = <<a, Exclusive({job}), {}>>
          OBVIOUS
        <4>2. depth(<<a, {}, {}>>) + 1 = 2
          BY <3>1
        <4>3. Inner(<<a, {}, {}>>, job) = [<<a, {}, {}>> EXCEPT ![2] = Exclusive({job})]
          BY <4>2, Zenon DEF Inner
        <4> QED BY <4>1, <4>3
      <3> QED BY <3>1, <3>2, <1>3, Reconciles
    <2> QED BY <2>1, Join1
  <1>5. Ready(<<acquire(a), reconcile, release>>, NoCalls)
    <2>1. Ready(<<acquire(a)>> \o <<reconcile, release>>, NoCalls)
      BY <1>1, <1>4, Push1
    <2> QED BY <2>1, Join2
  <1> QED BY <1>5

LEMMA RequestsMade ==
  /\ repositoryWrite # {} /\ publishRequests # {} /\ queueRequests # {}
  /\ mergeRequests # {} /\ LFSRequests # {}
  /\ ReviewRepositoryRequests # {} /\ IssueRepositoryRequests # {}
  /\ \A group : GroupRequests(group) # {}
  /\ \A group : ReviewGroupRequests(group) # {} /\ IssueGroupRequests(group) # {}
  /\ \A job : jobRequests(job) # {} /\ Exclusive({job}) # {}
  <1>1. repositoryWrite # {} /\ LFSRequests # {}
    BY NoKeys, RepositoryKeys, LfsKeys
  <1>2. publishRequests # {}
    BY NoKeys, PublishKeys
  <1>3. queueRequests # {} /\ mergeRequests # {}
    BY NoKeys, QueueKeys, MergeKeys
  <1>4. ReviewRepositoryRequests # {} /\ IssueRepositoryRequests # {}
    BY NoKeys, ReviewKeys, IssueKeys
  <1>5. ASSUME NEW group PROVE GroupRequests(group) # {}
    <2>1. group \in Keys(GroupRequests(group))
      BY GroupGroupKeys
    <2> QED BY <2>1, NoKeys
  <1>6. ASSUME NEW group PROVE ReviewGroupRequests(group) # {}
    <2>1. group \in Keys(ReviewGroupRequests(group))
      BY ReviewGroupKeys
    <2> QED BY <2>1, NoKeys
  <1>7. ASSUME NEW group PROVE IssueGroupRequests(group) # {}
    <2>1. group \in Keys(IssueGroupRequests(group))
      BY IssueGroupKeys
    <2> QED BY <2>1, NoKeys
  <1>8. ASSUME NEW job PROVE jobRequests(job) # {} /\ Exclusive({job}) # {}
    <2>1. job \in Keys(jobRequests(job)) /\ job \in Keys(Exclusive({job}))
      BY JobKeys, DependentKeys
    <2> QED BY <2>1, NoKeys
  <1> QED BY <1>1, <1>2, <1>3, <1>4, <1>5, <1>6, <1>7, <1>8

LEMMA RequestsQuiet ==
  /\ NoJob(repositoryWrite) /\ NoJob(publishRequests) /\ NoJob(queueRequests)
  /\ NoJob(mergeRequests) /\ NoJob(LFSRequests)
  /\ NoJob(ReviewRepositoryRequests) /\ NoJob(IssueRepositoryRequests)
  /\ NoJob(GroupRequests(GroupA)) /\ NoJob(GroupRequests(GroupB))
  /\ NoJob(ReviewGroupRequests(ReviewA)) /\ NoJob(ReviewGroupRequests(ReviewB))
  /\ NoJob(IssueGroupRequests(IssueA)) /\ NoJob(IssueGroupRequests(IssueB))
  /\ Repository \in Alone(repositoryWrite)
  <1>1. NoJob(repositoryWrite) /\ Repository \in Alone(repositoryWrite)
    BY RepositoryKeys, KeyNumbers DEF NoJob
  <1>2. NoJob(publishRequests) /\ NoJob(queueRequests)
    BY PublishKeys, QueueKeys, KeyNumbers DEF NoJob
  <1>3. NoJob(mergeRequests) /\ NoJob(LFSRequests)
    BY MergeKeys, LfsKeys, KeyNumbers DEF NoJob
  <1>4. NoJob(ReviewRepositoryRequests) /\ NoJob(IssueRepositoryRequests)
    BY ReviewKeys, IssueKeys, KeyNumbers DEF NoJob
  <1>5. NoJob(GroupRequests(GroupA)) /\ NoJob(GroupRequests(GroupB))
    BY GroupGroupKeys, KeyNumbers DEF NoJob
  <1>6. NoJob(ReviewGroupRequests(ReviewA)) /\ NoJob(ReviewGroupRequests(ReviewB))
    BY ReviewGroupKeys, KeyNumbers DEF NoJob
  <1>7. NoJob(IssueGroupRequests(IssueA)) /\ NoJob(IssueGroupRequests(IssueB))
    BY IssueGroupKeys, KeyNumbers DEF NoJob
  <1> QED BY <1>1, <1>2, <1>3, <1>4, <1>5, <1>6, <1>7

LEMMA NoSave ==
  ASSUME NEW S, NEW p \in Seq(S), ~ Saves(p), NEW x, x.step # "save"
  PROVE  Head(<<x>> \o p) = x /\ ~ Saves(<<x>> \o p)
  BY Before

\* The plan of a handler with a job of its own, which it saves before it looks through
\* the others.
LEMMA PlanJob ==
  ASSUME NEW own \in Jobs
  PROVE  Good(jobUpdate(own), NoCalls)
  <1> DEFINE a == jobRequests(own)
             s == <<a, {}, {}>>
  <1>1. a # {} /\ Stack(s) /\ Stack(NoCalls) /\ Sound(NoCalls)
    BY RequestsMade, StackShape, GoodEnds, GoodSound
  <1>2. Sound(s) /\ \A job \in Jobs : Sound(<<a, Exclusive({job}), {}>>)
    BY SoundJob, SoundPrefix
  <1>3. s[1] = a /\ s[2] = {} /\ s[3] = {} /\ depth(s) = 1 /\ s = [NoCalls EXCEPT ![1] = a]
        /\ NoCalls = [s EXCEPT ![1] = {}]
    BY <1>1 DEF depth, NoCalls
  <1>4. depth(NoCalls) = 0 /\ NoCalls[1] = {} /\ NoCalls[2] = {} /\ NoCalls[3] = {}
    BY DEF depth, NoCalls
  <1>5. \A job \in Jobs : Sound(Inner(s, job))
    <2>1. \A job : [s EXCEPT ![2] = Exclusive({job})] = <<a, Exclusive({job}), {}>>
      OBVIOUS
    <2>2. depth(s) + 1 = 2
      BY <1>3
    <2> HIDE DEF s
    <2>3. ASSUME NEW job \in Jobs PROVE Sound(Inner(s, job))
      <3>1. Inner(s, job) = [s EXCEPT ![2] = Exclusive({job})]
        BY <2>2, Zenon DEF Inner
      <3> QED BY <3>1, <2>1, <1>2
    <2> QED BY <2>3
  <1> HIDE DEF s, a
  <1>6. Ready(<<release>>, s) /\ ~ Saves(<<release>>)
    <2>1. Ready(<<>>, NoCalls) /\ ~ Saves(<<>>)
      BY ReadyEnds DEF Saves
    <2>2. Follows(s, release, NoCalls) /\ Fits(release, s)
      BY <1>3, StepFields DEF Follows, Fits
    <2>3. SavesFirst(release, <<>>, s)
      BY <1>3, StepFields, Nothing DEF SavesFirst
    <2>4. Good(<<release>> \o <<>>, s)
      BY <1>1, <1>2, <2>1, <2>2, <2>3, GoodStep
    <2>5. <<>> \in Seq({}) /\ <<release>> \o <<>> = <<release>>
      BY Join0
    <2>6. Head(<<release>>) = release /\ ~ Saves(<<release>>)
      <3>1. Head(<<release>> \o <<>>) = release /\ ~ Saves(<<release>> \o <<>>)
        BY <2>1, <2>5, NoSave, StepFields
      <3> QED BY <3>1, <2>5
    <2> QED BY <2>4, <2>5, <2>6, StepFields, Nothing DEF Ready
  <1>7. Ready(<<reconcile, release>>, s) /\ ~ Saves(<<reconcile, release>>)
    <2>1. Follows(s, reconcile, s) /\ Fits(reconcile, s)
      <3>1. Follows(s, reconcile, s)
        BY StepFields DEF Follows
      <3>2. depth(s) \in 1 .. 2
        BY <1>3
      <3>3. Fits(reconcile, s)
        BY <1>5, <3>2, StepFields DEF Fits
      <3> QED BY <3>1, <3>3
    <2>2. SavesFirst(reconcile, <<release>>, s)
      BY <1>3, <1>6, StepFields, Nothing DEF SavesFirst
    <2>3. Good(<<reconcile>> \o <<release>>, s)
      BY <1>1, <1>2, <1>6, <2>1, <2>2, GoodStep
    <2>4. <<release>> \in Seq({release}) /\ <<reconcile>> \o <<release>> = <<reconcile, release>>
      BY Join1
    <2>5. Head(<<reconcile, release>>) = reconcile /\ ~ Saves(<<reconcile, release>>)
      <3>1. /\ Head(<<reconcile>> \o <<release>>) = reconcile
            /\ ~ Saves(<<reconcile>> \o <<release>>)
        BY <1>6, <2>4, NoSave, StepFields
      <3> QED BY <3>1, <2>4
    <2> QED BY <2>3, <2>4, <2>5, StepFields, Nothing DEF Ready
  <1>8. Ready(<<save, reconcile, release>>, s) /\ Saves(<<save, reconcile, release>>)
    <2>1. Follows(s, save, s) /\ Fits(save, s)
      BY StepFields DEF Follows, Fits
    <2>2. SavesFirst(save, <<reconcile, release>>, s)
      BY <1>3, StepFields, Nothing DEF SavesFirst
    <2>3. Good(<<save>> \o <<reconcile, release>>, s)
      BY <1>1, <1>2, <1>7, <2>1, <2>2, GoodStep
    <2>4. /\ <<reconcile, release>> \in Seq({reconcile, release})
          /\ <<save>> \o <<reconcile, release>> = <<save, reconcile, release>>
      BY Join2
    <2>5. Head(<<save, reconcile, release>>) = save /\ Saves(<<save, reconcile, release>>)
      <3>1. /\ Head(<<save>> \o <<reconcile, release>>) = save
            /\ Saves(<<save>> \o <<reconcile, release>>)
        BY <2>4, Before, StepFields
      <3> QED BY <3>1, <2>4
    <2> QED BY <2>3, <2>4, <2>5, StepFields, Nothing DEF Ready
  <1>9. Good(<<acquire(a)>> \o <<save, reconcile, release>>, NoCalls)
    <2>1. Follows(NoCalls, acquire(a), s)
      <3>1. acquire(a).step = "acquire" /\ acquire(a).requests = a
        BY StepFields
      <3>2. depth(NoCalls) < 3 /\ s = [NoCalls EXCEPT ![depth(NoCalls) + 1] = a]
        <4>1. depth(NoCalls) < 3 /\ depth(NoCalls) + 1 = 1
          BY <1>4
        <4>2. s = [NoCalls EXCEPT ![1] = a]
          BY <1>3
        <4> QED BY <4>1, <4>2
      <3> QED BY <3>1, <3>2, <1>1 DEF Follows
    <2>2. Fits(acquire(a), NoCalls)
      BY StepFields DEF Fits
    <2>3. SavesFirst(acquire(a), <<save, reconcile, release>>, NoCalls)
      BY <1>4, <1>8, StepFields, Nothing DEF SavesFirst
    <2> QED BY <1>1, <1>8, <2>1, <2>2, <2>3, GoodStep
  <1>10. jobUpdate(own) = <<acquire(a), save, reconcile, release>>
    BY DEF jobUpdate, a, jobRequests
  <1>11. <<acquire(a)>> \o <<save, reconcile, release>> = <<acquire(a), save, reconcile, release>>
    BY Join3
  <1> QED BY <1>9, <1>10, <1>11

LEMMA PlansGood ==
  ASSUME NEW P \in AllPlans
  PROVE  Good(P, NoCalls)
  <1>1. ASSUME P = receivePack PROVE Good(P, NoCalls)
    <2>1. P = <<acquire(repositoryWrite), create, reconcile, release>>
      BY <1>1, JoinedFour DEF receivePack, scheduleBuild, repositoryWrite
    <2>2. Ready(<<acquire(repositoryWrite), create, reconcile, release>>, NoCalls)
      <3>1. Sound(<<repositoryWrite, {}, {}>>)
        BY SoundChange, SoundPrefix
      <3> QED BY <3>1, PlanEdit, RequestsMade, RequestsQuiet, SoundEdit
    <2> QED BY <2>1, <2>2 DEF Ready
  <1>2. ASSUME P = reviewUpdate PROVE Good(P, NoCalls)
    <2>1. P = <<acquire(repositoryWrite), acquire(ReviewRepositoryRequests), release, release>>
      BY <1>2 DEF reviewUpdate, repositoryWrite
    <2>2. Sound(<<repositoryWrite, ReviewRepositoryRequests, {}>>)
      BY SoundChange, SoundPrefix
    <2> QED BY <2>1, <2>2, PlanTwo, RequestsMade, RequestsQuiet DEF Ready
  <1>3. ASSUME P = createIssueBranch PROVE Good(P, NoCalls)
    <2>1. P = <<acquire(repositoryWrite), acquire(IssueRepositoryRequests), release,
                create, reconcile, release>>
      BY <1>3, JoinedSix DEF createIssueBranch, scheduleBuild, repositoryWrite
    <2>2. Ready(<<acquire(repositoryWrite), acquire(IssueRepositoryRequests), release,
                  create, reconcile, release>>, NoCalls)
      BY PlanBranch, RequestsMade, RequestsQuiet, SoundBranch, SoundEdit
    <2> QED BY <2>1, <2>2 DEF Ready
  <1>4. ASSUME P = mergeStoredRequest PROVE Good(P, NoCalls)
    <2>1. P = <<acquire(repositoryWrite), acquire(mergeRequests),
                acquire(ReviewRepositoryRequests), release, create, reconcile,
                acquire(ReviewRepositoryRequests), release, release, release>>
      BY <1>4, JoinedTen DEF mergeStoredRequest, scheduleBuild, repositoryWrite,
         mergeRequests
    <2>2. Ready(<<acquire(repositoryWrite), acquire(mergeRequests),
                  acquire(ReviewRepositoryRequests), release, create, reconcile,
                  acquire(ReviewRepositoryRequests), release, release, release>>, NoCalls)
      BY PlanMerge, RequestsMade, RequestsQuiet, SoundMergeReview, SoundMergeBuild
    <2> QED BY <2>1, <2>2 DEF Ready
  <1>5. ASSUME P = repositoryCounts PROVE Good(P, NoCalls)
    <2>1. P = <<acquire(ReviewRepositoryRequests), release, acquire(IssueRepositoryRequests),
                release>>
      BY <1>5 DEF repositoryCounts
    <2> QED BY <2>1, PlanPair, RequestsMade, RequestsQuiet, SoundReview, SoundIssue DEF Ready
  <1>6. ASSUME NEW job \in Jobs, P = jobUpdate(job) PROVE Good(P, NoCalls)
    BY <1>6, PlanJob
  <1>7. ASSUME P = Claim PROVE Good(P, NoCalls)
    <2>1. P = <<acquire(queueRequests), reconcile, release>>
      BY <1>7 DEF Claim, queueRequests
    <2>2. Job1 \in Jobs
      BY KeyNumbers
    <2>3. Sound(<<queueRequests, {}, {}>>)
      BY <2>2, SoundClaim, SoundPrefix
    <2> QED BY <2>1, <2>3, PlanClaim, RequestsMade, RequestsQuiet, SoundClaim DEF Ready
  <1>8. ASSUME P = lfsUpload PROVE Good(P, NoCalls)
    <2>1. P = <<acquire(LFSRequests), release, acquire(publishRequests), release>>
      BY <1>8 DEF lfsUpload, publishRequests
    <2> QED BY <2>1, PlanPair, RequestsMade, RequestsQuiet, SoundReserve, SoundPublish DEF Ready
  <1>9. ASSUME P = repositoryChange PROVE Good(P, NoCalls)
    <2>1. P = <<acquire(repositoryWrite), acquire(ReviewRepositoryRequests),
                acquire(IssueRepositoryRequests), release, release, release>>
      BY <1>9 DEF repositoryChange, repositoryWrite
    <2> QED BY <2>1, PlanThree, RequestsMade, RequestsQuiet, SoundChange DEF Ready
  <1>10. ASSUME P = groupChangeA PROVE Good(P, NoCalls)
    <2>1. P = <<acquire(GroupRequests(GroupA)), acquire(ReviewGroupRequests(ReviewA)),
                acquire(IssueGroupRequests(IssueA)), release,
                acquire(IssueGroupRequests(IssueA)), release, release, release>>
      BY <1>10 DEF groupChangeA, groupChange
    <2> QED BY <2>1, PlanAgain, RequestsMade, RequestsQuiet, SoundGroupA DEF Ready
  <1>11. ASSUME P = groupChangeB PROVE Good(P, NoCalls)
    <2>1. P = <<acquire(GroupRequests(GroupB)), acquire(ReviewGroupRequests(ReviewB)),
                acquire(IssueGroupRequests(IssueB)), release,
                acquire(IssueGroupRequests(IssueB)), release, release, release>>
      BY <1>11 DEF groupChangeB, groupChange
    <2> QED BY <2>1, PlanAgain, RequestsMade, RequestsQuiet, SoundGroupB DEF Ready
  <1> QED BY <1>1, <1>2, <1>3, <1>4, <1>5, <1>6, <1>7, <1>8, <1>9, <1>10, <1>11, KeyNumbers
             DEF AllPlans

\* A job that is chosen is locked, updated and released before the plan goes on.
LEMMA ChosenGood ==
  ASSUME NEW p, NEW s, Good(p, s), p # <<>>, Head(p).step = "reconcile", NEW job \in Jobs
  PROVE  Good(reconcileJob(job) \o p, s)
  <1> DEFINE u == Inner(s, job)
             a == Exclusive({job})
  <1>1. Local(p, s) /\ Stack(s) /\ Sound(s)
    BY GoodLocal, GoodSound
  <1>2. PICK S : p \in Seq(S)
    BY <1>1 DEF Local
  <1>3. /\ Head(p).requests = {} /\ depth(s) \in 1 .. 2 /\ Sound(u)
        /\ NoJob(s[1]) \/ ~ Saves(p)
    <2>1. Fits(Head(p), s) /\ SavesFirst(Head(p), Tail(p), s)
      BY <1>1 DEF Local
    <2>2. Saves(p) <=> Head(p).step = "save" \/ Saves(Tail(p))
      BY <1>2, SavesLater
    <2> QED BY <2>1, <2>2 DEF Fits, SavesFirst
  <1>4. a # {}
    BY RequestsMade
  <1>5. /\ Stack(u) /\ depth(u) = depth(s) + 1 /\ u[1] = s[1] /\ s[1] # {}
        /\ s = [u EXCEPT ![depth(u)] = {}] /\ u = [s EXCEPT ![depth(s) + 1] = a]
    <2>1. u = [s EXCEPT ![depth(s) + 1] = a]
      BY DEF Inner
    <2> HIDE DEF u, a
    <2>2. CASE depth(s) = 1
      BY <1>1, <1>4, <2>1, <2>2 DEF Stack, depth
    <2>3. CASE depth(s) = 2
      BY <1>1, <1>4, <2>1, <2>3 DEF Stack, depth
    <2> QED BY <2>2, <2>3, <1>3
  <1> HIDE DEF u, a
  <1>6. ASSUME NEW q, NEW x, ~ Saves(p) => ~ Saves(q), x.step # "save", x.step # "reconcile",
               x.step # "acquire" \/ s[1] # {}, NEW v, v[1] = s[1]
        PROVE  SavesFirst(x, q, v)
    BY <1>3, <1>5, <1>6 DEF SavesFirst
  <1> DEFINE p1 == <<release>> \o p
             p2 == <<update>> \o p1
             p3 == <<acquire(a)>> \o p2
  <1>7. /\ p1 \in Seq(S \cup {release}) /\ Head(p1) = release /\ (Saves(p1) <=> Saves(p))
    BY <1>2, Before, StepFields
  <1> HIDE DEF p1
  <1>8. Head(p2) = update /\ (Saves(p2) <=> Saves(p))
    <2>1. PICK S1 : p1 \in Seq(S1)
      BY <1>7
    <2>2. /\ Head(<<update>> \o p1) = update
          /\ Saves(<<update>> \o p1) <=> update.step = "save" \/ Saves(p1)
      BY <2>1, Before
    <2>3. Saves(p1) <=> Saves(p)
      BY <1>7
    <2>4. Saves(<<update>> \o p1) <=> Saves(p1)
      BY <2>2, StepFields
    <2> QED BY <2>2, <2>3, <2>4
  <1> HIDE DEF p2
  <1>9. Ready(p1, u)
    <2>1. Ready(p, s)
      BY <1>3, Nothing DEF Ready
    <2>2. Follows(u, release, s) /\ Fits(release, u)
      BY <1>3, <1>5, StepFields DEF Follows, Fits
    <2>3. SavesFirst(release, p, u)
      BY <1>5, <1>6, StepFields
    <2>4. Good(p1, u)
      BY <1>3, <1>5, <2>1, <2>2, <2>3, GoodStep DEF p1
    <2> QED BY <1>7, <2>4, StepFields, Nothing DEF Ready
  <1>10. Ready(p2, u)
    <2>1. Follows(u, update, u) /\ Fits(update, u)
      BY StepFields DEF Follows, Fits
    <2>2. SavesFirst(update, p1, u)
      BY <1>5, <1>6, <1>7, StepFields
    <2>3. Good(p2, u)
      BY <1>3, <1>5, <1>9, <2>1, <2>2, GoodStep DEF p2
    <2> QED BY <1>8, <2>3, StepFields, Nothing DEF Ready
  <1>11. Good(p3, s)
    <2>1. acquire(a).step = "acquire" /\ acquire(a).requests = a
      BY StepFields
    <2>2. Follows(s, acquire(a), u) /\ Fits(acquire(a), s)
      BY <1>3, <1>4, <1>5, <2>1 DEF Follows, Fits
    <2>3. SavesFirst(acquire(a), p2, s)
      BY <1>5, <1>6, <1>8, <2>1
    <2> QED BY <1>1, <1>10, <2>2, <2>3, GoodStep
  <1>12. reconcileJob(job) \o p = p3
    <2> DEFINE U == S \cup {release, update, acquire(a)}
    <2>1. p \in Seq(U)
      BY <1>2, SeqMonotonic
    <2>2. <<release>> \in Seq(U) /\ <<update>> \in Seq(U) /\ <<acquire(a)>> \in Seq(U)
          /\ <<update, release>> \in Seq(U)
      OBVIOUS
    <2>3. <<acquire(a)>> \o <<update, release>> = <<acquire(a), update, release>>
          /\ <<update>> \o <<release>> = <<update, release>>
      BY Join1, Join2
    <2>4. reconcileJob(job) = <<acquire(a), update, release>>
      BY DEF reconcileJob, a
    <2> HIDE DEF U
    <2>5. <<acquire(a)>> \o <<update, release>> \o p = <<acquire(a)>> \o (<<update, release>> \o p)
      BY <2>1, <2>2, ConcatAssociative
    <2>6. <<update>> \o <<release>> \o p = <<update>> \o (<<release>> \o p)
      BY <2>1, <2>2, ConcatAssociative
    <2> QED BY <2>3, <2>4, <2>5, <2>6 DEF p1, p2
  <1> QED BY <1>11, <1>12
-----------------------------------------------------------------------------
(* The locks, whatever the calls are. *)

\* What is asked of a lock is what calls want, and only a writer keeps readers out.
OwnersOK ==
    \A k \in Key :
        /\ \A c \in lock[k].readers \cup lock[k].blocked :
              k \in Wanted(c) /\ want[c][k] = "shared"
        /\ \A c \in Client : lock[k].writer = c => k \in Wanted(c)
             /\ want[c][k] = "exclusive"
        /\ lock[k].readers \cap lock[k].blocked = {}
        /\ lock[k].writer = NoClient => lock[k].blocked = {}

\* How far a call has come.
CallOK(c) ==
    /\ pc[c] = "idle" => Wanted(c) = {}
    /\ pc[c] = "held" => \A k \in Wanted(c) : Inside(lock[k], c, want[c][k])
    /\ pc[c] = "releasing" =>
          \A k \in Wanted(c) : Requested(lock[k], c) => Inside(lock[k], c,
          want[c][k])
    /\ pc[c] = "locking" =>
          \A k, m \in Wanted(c) :
              Requested(lock[k], c) /\ m < k => Inside(lock[m], c, want[c][m])

KeyLockTypes ==
    /\ pc \in [Client -> {"idle", "locking", "held", "releasing"}]
    /\ want = [c \in Client |-> want[c]]
    /\ \A c \in Client : Wanted(c) \subseteq Key
         /\ \A k \in Wanted(c) : want[c][k] \in Mode
    /\ lock \in [Key -> RWLock(Client)]

LocksInv == KeyLockTypes /\ OwnersOK /\ \A c \in Client : CallOK(c)

\* The normalized form of a request.
LEMMA Normalized ==
  ASSUME NEW R
  PROVE  /\ DOMAIN Strongest(R) = Keys(R)
         /\ \A k \in Keys(R) : /\ Strongest(R)[k] \in Mode
                               /\ Strongest(R)[k] = "exclusive" <=> k \in Alone(R)
  BY DEF Strongest, Keys, Alone, Mode

LEMMA NothingWanted == DOMAIN NoWants = {}
  BY DEF NoWants, Strongest

\* Asking for a lock, or giving it up, lets nobody else out of it.
LEMMA AskingKeepsOthers ==
  ASSUME NEW l \in RWLock(Client), NEW c \in Client, NEW d \in Client, c # d,
         NEW m \in Mode, NEW n \in Mode, MayRequest(l, m),
         NoClient \notin Client
  PROVE  /\ Inside(l, d, n) => Inside(AfterRequest(l, c, m), d, n)
         /\ Requested(AfterRequest(l, c, m), d) <=> Requested(l, d)
  BY DEF RWLock, MayRequest, AfterRequest, Inside, Requested, Mode

LEMMA LeavingKeepsOthers ==
  ASSUME NEW l \in RWLock(Client), NEW c \in Client, NEW d \in Client, c # d,
         NEW m \in Mode, NEW n \in Mode, Inside(l, c, m), NoClient \notin Client
  PROVE  /\ Inside(l, d, n) => Inside(AfterUnlock(l, c, m), d, n)
         /\ Requested(AfterUnlock(l, c, m), d) <=> Requested(l, d)
  BY DEF RWLock, AfterUnlock, Inside, Requested, Mode

LEMMA AskingOwned ==
  ASSUME NEW l \in RWLock(Client), NEW c \in Client, NEW m \in Mode,
         MayRequest(l, m),
         NoClient \notin Client
  PROVE  LET n == AfterRequest(l, c, m) IN
         /\ n \in RWLock(Client)
         /\ n.readers \cup n.blocked \subseteq
              l.readers \cup l.blocked \cup (IF m = "shared" THEN {c} ELSE {})
         /\ n.writer # l.writer => n.writer = c /\ m = "exclusive"
         /\ l.readers \cap l.blocked = {}
              /\ ~ Requested(l, c) => n.readers \cap n.blocked = {}
         /\ (l.writer = NoClient => l.blocked = {}) => (n.writer = NoClient =>
              n.blocked = {})
  BY DEF RWLock, MayRequest, AfterRequest, Requested, Mode

LEMMA LeavingOwned ==
  ASSUME NEW l \in RWLock(Client), NEW c \in Client, NEW m \in Mode,
         Inside(l, c, m),
         NoClient \notin Client, l.readers \cap l.blocked = {}
  PROVE  LET n == AfterUnlock(l, c, m) IN
         /\ n \in RWLock(Client)
         /\ n.readers \cup n.blocked \subseteq l.readers \cup l.blocked
         /\ m = "shared" => n.readers \cup n.blocked \subseteq (l.readers
              \cup l.blocked) \ {c}
         /\ n.writer # NoClient => n.writer = l.writer /\ m = "shared"
         /\ n.readers \cap n.blocked = {}
         /\ (l.writer = NoClient => l.blocked = {}) => (n.writer = NoClient =>
              n.blocked = {})
  BY DEF RWLock, AfterUnlock, Inside, Mode

LEMMA AcquireKeeps ==
  ASSUME LocksInv, NEW c \in Client, NEW R, Acquire(c, R), Keys(R) \subseteq Key,
         NoClient \notin Client
  PROVE  LocksInv'
  <1>1. /\ pc' = [pc EXCEPT ![c] = "locking"] /\ lock' = lock /\ pc[c] = "idle"
        /\ want' = [want EXCEPT ![c] = Strongest(R)]
    BY DEF Acquire, Goto
  <1>2. pc \in [Client -> {"idle", "locking", "held", "releasing"}]
          /\ lock \in [Key -> RWLock(Client)]
        /\ want = [d \in Client |-> want[d]]
    BY DEF LocksInv, KeyLockTypes
  <1>3. \A d \in Client \ {c} : pc'[d] = pc[d] /\ want'[d] = want[d]
    BY <1>1, <1>2
  <1>4. pc'[c] = "locking" /\ want'[c] = Strongest(R)
    BY <1>1, <1>2
  <1>5. \A k \in Key : ~ Requested(lock[k], c)
    <2>1. Wanted(c) = {}
      BY <1>1 DEF LocksInv, CallOK
    <2> QED BY <2>1, <1>2 DEF LocksInv, OwnersOK, Requested
  <1>6. KeyLockTypes'
    <2>1. pc' \in [Client -> {"idle", "locking", "held", "releasing"}]
      BY <1>1, <1>2
    <2>2. want' = [d \in Client |-> want'[d]]
      BY <1>1, <1>2
    <2>3. ASSUME NEW d \in Client
          PROVE  DOMAIN want'[d] \subseteq Key
                   /\ \A k \in DOMAIN want'[d] : want'[d][k] \in Mode
      <3>1. CASE d = c
        BY <3>1, <1>4, Normalized
      <3>2. CASE d # c
        BY <3>2, <1>3 DEF LocksInv, KeyLockTypes, Wanted
      <3> QED BY <3>1, <3>2
    <2> QED BY <2>1, <2>2, <2>3, <1>1, <1>2 DEF KeyLockTypes, Wanted
  <1>7. OwnersOK'
    <2>1. ASSUME NEW k \in Key, NEW d \in lock[k].readers \cup lock[k].blocked
          PROVE  k \in DOMAIN want'[d] /\ want'[d][k] = "shared"
      <3>1. d \in Client /\ d # c
        BY <1>2, <1>5 DEF RWLock, Requested
      <3> QED BY <3>1, <1>3 DEF LocksInv, OwnersOK, Wanted
    <2>2. ASSUME NEW k \in Key, NEW d \in Client, lock[k].writer = d
          PROVE  k \in DOMAIN want'[d] /\ want'[d][k] = "exclusive"
      <3>1. d # c
        BY <2>2, <1>5 DEF Requested
      <3> QED BY <2>2, <3>1, <1>3 DEF LocksInv, OwnersOK, Wanted
    <2> QED BY <2>1, <2>2, <1>1 DEF LocksInv, OwnersOK, Wanted
  <1>8. ASSUME NEW d \in Client PROVE CallOK(d)'
    <2>1. CASE d = c
      <3>1. DOMAIN want'[c] \subseteq Key
        BY <1>4, Normalized
      <3> QED BY <2>1, <3>1, <1>1, <1>4, <1>5 DEF CallOK, Wanted
    <2>2. CASE d # c
      BY <2>2, <1>1, <1>3 DEF LocksInv, CallOK, Wanted
    <2> QED BY <2>1, <2>2
  <1> QED BY <1>6, <1>7, <1>8 DEF LocksInv

LEMMA LockNextKeeps ==
  ASSUME LocksInv, NEW c \in Client, NEW k \in Key, LockNext(c, k),
         NoClient \notin Client
  PROVE  LocksInv'
  <1> DEFINE m == want[c][k]
             n == AfterRequest(lock[k], c, m)
  <1>1. /\ pc' = pc /\ want' = want /\ pc[c] = "locking" /\ k \in Wanted(c)
        /\ lock' = [lock EXCEPT ![k] = n]
        /\ ~ Requested(lock[k], c) /\ MayRequest(lock[k], m)
        /\ \A l \in Wanted(c) : l < k => Inside(lock[l], c, want[c][l])
    BY DEF LockNext
  <1>2. lock \in [Key -> RWLock(Client)] /\ m \in Mode
          /\ Wanted(c) \subseteq Key
    BY <1>1 DEF LocksInv, KeyLockTypes
  <1>3. lock[k] \in RWLock(Client) /\ lock'[k] = n
          /\ \A l \in Key \ {k} : lock'[l] = lock[l]
    BY <1>1, <1>2
  <1>4. /\ n \in RWLock(Client)
        /\ n.readers \cup n.blocked \subseteq
             lock[k].readers \cup lock[k].blocked \cup (IF m = "shared" THEN {c} ELSE {})
        /\ n.writer # lock[k].writer => n.writer = c /\ m = "exclusive"
        /\ n.readers \cap n.blocked = {}
        /\ (n.writer = NoClient => n.blocked = {})
    <2>1. lock[k].readers \cap lock[k].blocked = {}
            /\ (lock[k].writer = NoClient => lock[k].blocked = {})
      BY DEF LocksInv, OwnersOK
    <2> QED BY <2>1, <1>1, <1>2, <1>3, AskingOwned
  <1>5. ASSUME NEW d \in Client, d # c, NEW l \in Wanted(d)
        PROVE  /\ Inside(lock[l], d, want[d][l]) => Inside(lock'[l], d, want[d][l])
               /\ Requested(lock'[l], d) <=> Requested(lock[l], d)
    <2>1. l \in Key /\ want[d][l] \in Mode
      BY DEF LocksInv, KeyLockTypes
    <2>2. CASE l = k
      BY <1>5, <2>1, <2>2, <1>1, <1>2, <1>3, AskingKeepsOthers
    <2>3. CASE l # k
      BY <2>1, <2>3, <1>3
    <2> QED BY <2>2, <2>3
  <1> HIDE DEF m, n
  <1>6. KeyLockTypes'
    <2>1. lock' \in [Key -> RWLock(Client)]
      BY <1>1, <1>2, <1>4
    <2> QED BY <2>1, <1>1 DEF LocksInv, KeyLockTypes, Wanted
  <1>7. OwnersOK'
    <2>1. ASSUME NEW l \in Key, NEW d \in lock'[l].readers \cup lock'[l].blocked
          PROVE  l \in Wanted(d) /\ want[d][l] = "shared"
      <3>1. CASE l = k
        <4>1. d \in lock[k].readers \cup lock[k].blocked \/ (d = c /\ m = "shared")
          BY <2>1, <3>1, <1>3, <1>4
        <4> QED BY <4>1, <3>1, <1>1 DEF LocksInv, OwnersOK, m
      <3>2. CASE l # k
        BY <3>2, <1>3 DEF LocksInv, OwnersOK
      <3> QED BY <3>1, <3>2
    <2>2. ASSUME NEW l \in Key, NEW d \in Client, lock'[l].writer = d
          PROVE  l \in Wanted(d) /\ want[d][l] = "exclusive"
      <3>1. CASE l = k
        <4>1. d = lock[k].writer \/ (d = c /\ m = "exclusive")
          BY <2>2, <3>1, <1>3, <1>4
        <4> QED BY <4>1, <3>1, <1>1 DEF LocksInv, OwnersOK, m
      <3>2. CASE l # k
        BY <2>2, <3>2, <1>3 DEF LocksInv, OwnersOK
      <3> QED BY <3>1, <3>2
    <2>3. ASSUME NEW l \in Key
          PROVE  lock'[l].readers \cap lock'[l].blocked = {}
                 /\ (lock'[l].writer = NoClient => lock'[l].blocked = {})
      BY <1>3, <1>4 DEF LocksInv, OwnersOK
    <2> QED BY <2>1, <2>2, <2>3, <1>1 DEF OwnersOK, Wanted
  <1>8. ASSUME NEW d \in Client PROVE CallOK(d)'
    <2>1. CASE d = c
      <3>1. ASSUME NEW j \in Wanted(c), NEW l \in Wanted(c),
                   Requested(lock'[j], c), l < j
            PROVE  Inside(lock'[l], c, want[c][l])
        <4>1. j \in Key /\ l \in Key
          BY <1>2
        <4>2. Inside(lock[l], c, want[c][l])
          <5>1. CASE j = k
            BY <3>1, <5>1, <1>1
          <5>2. CASE j # k
            BY <3>1, <5>2, <4>1, <1>1, <1>3 DEF LocksInv, CallOK
          <5> QED BY <5>1, <5>2
        <4>3. l # k
          BY <4>2, <1>1 DEF Inside, Requested
        <4> QED BY <4>1, <4>2, <4>3, <1>3
      <3> QED BY <2>1, <3>1, <1>1 DEF CallOK, Wanted
    <2>2. CASE d # c
      BY <2>2, <1>1, <1>5 DEF LocksInv, CallOK, Wanted
    <2> QED BY <2>1, <2>2
  <1> QED BY <1>6, <1>7, <1>8 DEF LocksInv

LEMMA UnlockNextKeeps ==
  ASSUME LocksInv, NEW c \in Client, NEW k \in Key, UnlockNext(c, k),
         NoClient \notin Client
  PROVE  LocksInv'
  <1> DEFINE m == want[c][k]
             n == AfterUnlock(lock[k], c, m)
  <1>1. /\ pc' = pc /\ want' = want /\ pc[c] = "releasing" /\ k \in Wanted(c)
        /\ lock' = [lock EXCEPT ![k] = n] /\ Requested(lock[k], c)
    BY DEF UnlockNext
  <1>2. lock \in [Key -> RWLock(Client)] /\ m \in Mode
          /\ Wanted(c) \subseteq Key
    BY <1>1 DEF LocksInv, KeyLockTypes
  <1>3. lock[k] \in RWLock(Client) /\ lock'[k] = n
          /\ \A l \in Key \ {k} : lock'[l] = lock[l]
    BY <1>1, <1>2
  <1>4. Inside(lock[k], c, m)
    BY <1>1 DEF LocksInv, CallOK
  <1>5. /\ n \in RWLock(Client)
        /\ n.readers \cup n.blocked \subseteq lock[k].readers \cup lock[k].blocked
        /\ m = "shared" => n.readers \cup n.blocked \subseteq (lock[k].readers
             \cup lock[k].blocked) \ {c}
        /\ n.writer # NoClient => n.writer = lock[k].writer /\ m = "shared"
        /\ n.readers \cap n.blocked = {}
        /\ (n.writer = NoClient => n.blocked = {})
    <2>1. lock[k].readers \cap lock[k].blocked = {}
            /\ (lock[k].writer = NoClient => lock[k].blocked = {})
      BY DEF LocksInv, OwnersOK
    <2> QED BY <2>1, <1>2, <1>3, <1>4, LeavingOwned
  <1>6. ~ Requested(lock'[k], c)
    <2>1. CASE m = "shared"
      <3>1. lock[k].writer # c
        BY <1>1, <2>1 DEF LocksInv, OwnersOK
      <3> QED BY <2>1, <3>1, <1>3, <1>5 DEF Requested
    <2>2. CASE m = "exclusive"
      <3>1. c \notin lock[k].readers \cup lock[k].blocked
        BY <1>1, <2>2 DEF LocksInv, OwnersOK
      <3>2. n.writer = NoClient
        BY <1>5, <2>2
      <3> QED BY <3>1, <3>2, <1>3, <1>5 DEF Requested
    <2> QED BY <2>1, <2>2, <1>2 DEF Mode
  <1>7. ASSUME NEW d \in Client, d # c, NEW l \in Wanted(d)
        PROVE  /\ Inside(lock[l], d, want[d][l]) => Inside(lock'[l], d, want[d][l])
               /\ Requested(lock'[l], d) <=> Requested(lock[l], d)
    <2>1. l \in Key /\ want[d][l] \in Mode
      BY DEF LocksInv, KeyLockTypes
    <2>2. CASE l = k
      BY <1>7, <2>1, <2>2, <1>2, <1>3, <1>4, LeavingKeepsOthers
    <2>3. CASE l # k
      BY <2>1, <2>3, <1>3
    <2> QED BY <2>2, <2>3
  <1> HIDE DEF m, n
  <1>8. KeyLockTypes'
    <2>1. lock' \in [Key -> RWLock(Client)]
      BY <1>1, <1>2, <1>5
    <2> QED BY <2>1, <1>1 DEF LocksInv, KeyLockTypes, Wanted
  <1>9. OwnersOK'
    <2>1. ASSUME NEW l \in Key, NEW d \in lock'[l].readers \cup lock'[l].blocked
          PROVE  l \in Wanted(d) /\ want[d][l] = "shared"
      <3>1. d \in lock[l].readers \cup lock[l].blocked
        BY <2>1, <1>3, <1>5
      <3> QED BY <3>1 DEF LocksInv, OwnersOK
    <2>2. ASSUME NEW l \in Key, NEW d \in Client, lock'[l].writer = d
          PROVE  l \in Wanted(d) /\ want[d][l] = "exclusive"
      <3>1. lock[l].writer = d
        BY <2>2, <1>3, <1>5
      <3> QED BY <3>1 DEF LocksInv, OwnersOK
    <2>3. ASSUME NEW l \in Key
          PROVE  lock'[l].readers \cap lock'[l].blocked = {}
                 /\ (lock'[l].writer = NoClient => lock'[l].blocked = {})
      BY <1>3, <1>5 DEF LocksInv, OwnersOK
    <2> QED BY <2>1, <2>2, <2>3, <1>1 DEF OwnersOK, Wanted
  <1>10. ASSUME NEW d \in Client PROVE CallOK(d)'
    <2>1. CASE d = c
      <3>1. ASSUME NEW l \in Wanted(c), Requested(lock'[l], c)
            PROVE  Inside(lock'[l], c, want[c][l])
        <4>1. l # k /\ l \in Key
          BY <3>1, <1>2, <1>6
        <4> QED BY <3>1, <4>1, <1>1, <1>3 DEF LocksInv, CallOK
      <3> QED BY <2>1, <3>1, <1>1 DEF CallOK, Wanted
    <2>2. CASE d # c
      BY <2>2, <1>1, <1>7 DEF LocksInv, CallOK, Wanted
    <2> QED BY <2>1, <2>2
  <1> QED BY <1>8, <1>9, <1>10 DEF LocksInv

\* Entering and leaving the body of a handler touches no lock.
LEMMA LabelKeeps ==
  ASSUME LocksInv, NEW c \in Client, NEW label \in {"held", "releasing"}, Goto(c,
         label),
         want' = want, lock' = lock,
         \A k \in Wanted(c) : Inside(lock[k], c, want[c][k])
  PROVE  LocksInv'
  <1>1. pc \in [Client -> {"idle", "locking", "held", "releasing"}]
    BY DEF LocksInv, KeyLockTypes
  <1>2. pc'[c] = label /\ \A d \in Client \ {c} : pc'[d] = pc[d]
    BY <1>1 DEF Goto
  <1>3. KeyLockTypes'
    BY <1>1 DEF LocksInv, KeyLockTypes, Goto, Wanted
  <1>4. OwnersOK'
    BY DEF LocksInv, OwnersOK, Wanted
  <1>5. ASSUME NEW d \in Client PROVE CallOK(d)'
    BY <1>2 DEF LocksInv, CallOK, Wanted
  <1> QED BY <1>3, <1>4, <1>5 DEF LocksInv

LEMMA DoneKeeps ==
  ASSUME LocksInv, NEW c \in Client, Done(c)
  PROVE  LocksInv'
  <1>1. /\ pc' = [pc EXCEPT ![c] = "idle"] /\ lock' = lock
        /\ want' = [want EXCEPT ![c] = NoWants]
        /\ \A k \in Wanted(c) : ~ Requested(lock[k], c)
    BY DEF Done, Goto
  <1>2. pc \in [Client -> {"idle", "locking", "held", "releasing"}]
          /\ lock \in [Key -> RWLock(Client)]
        /\ want = [d \in Client |-> want[d]]
    BY DEF LocksInv, KeyLockTypes
  <1>3. \A d \in Client \ {c} : pc'[d] = pc[d] /\ want'[d] = want[d]
    BY <1>1, <1>2
  <1>4. pc'[c] = "idle" /\ want'[c] = NoWants
    BY <1>1, <1>2
  <1>5. \A k \in Key : ~ Requested(lock[k], c)
    BY <1>1, <1>2 DEF LocksInv, OwnersOK, Requested
  <1>6. KeyLockTypes'
    <2>1. pc' \in [Client -> {"idle", "locking", "held", "releasing"}]
      BY <1>1, <1>2
    <2>2. want' = [d \in Client |-> want'[d]]
      BY <1>1, <1>2
    <2>3. ASSUME NEW d \in Client
          PROVE  DOMAIN want'[d] \subseteq Key
                   /\ \A k \in DOMAIN want'[d] : want'[d][k] \in Mode
      <3>1. CASE d = c
        BY <3>1, <1>4, NothingWanted
      <3>2. CASE d # c
        BY <3>2, <1>3 DEF LocksInv, KeyLockTypes, Wanted
      <3> QED BY <3>1, <3>2
    <2> QED BY <2>1, <2>2, <2>3, <1>1, <1>2 DEF KeyLockTypes, Wanted
  <1>7. OwnersOK'
    <2>1. ASSUME NEW k \in Key, NEW d \in lock[k].readers \cup lock[k].blocked
          PROVE  k \in DOMAIN want'[d] /\ want'[d][k] = "shared"
      <3>1. d \in Client /\ d # c
        BY <1>2, <1>5 DEF RWLock, Requested
      <3> QED BY <3>1, <1>3 DEF LocksInv, OwnersOK, Wanted
    <2>2. ASSUME NEW k \in Key, NEW d \in Client, lock[k].writer = d
          PROVE  k \in DOMAIN want'[d] /\ want'[d][k] = "exclusive"
      <3>1. d # c
        BY <2>2, <1>5 DEF Requested
      <3> QED BY <2>2, <3>1, <1>3 DEF LocksInv, OwnersOK, Wanted
    <2> QED BY <2>1, <2>2, <1>1 DEF LocksInv, OwnersOK, Wanted
  <1>8. ASSUME NEW d \in Client PROVE CallOK(d)'
    <2>1. CASE d = c
      BY <2>1, <1>4, NothingWanted DEF CallOK, Wanted
    <2>2. CASE d # c
      BY <2>2, <1>1, <1>3 DEF LocksInv, CallOK, Wanted
    <2> QED BY <2>1, <2>2
  <1> QED BY <1>6, <1>7, <1>8 DEF LocksInv

-----------------------------------------------------------------------------
(* The handlers: their open calls are the stack of some place in a plan. *)

LEMMA Depths ==
  ASSUME NEW s, Stack(s)
  PROVE  /\ depth(s) \in 0 .. 3
         /\ \A d \in 1 .. 3 : s[d] = {} <=> d > depth(s)
         /\ depth(s) = 0 => s = NoCalls
  BY DEF Stack, depth, NoCalls

LEMMA Pushed ==
  ASSUME NEW s, NEW t, NEW x, Stack(s), Stack(t), x.step = "acquire", Follows(s, x, t)
  PROVE  /\ depth(s) \in 0 .. 2 /\ depth(t) = depth(s) + 1 /\ t[depth(s) + 1] = x.requests
         /\ \A d \in 1 .. 3 : d # depth(s) + 1 => t[d] = s[d]
  <1> DEFINE R == x.requests
  <1>1. R # {} /\ depth(s) < 3 /\ t = [s EXCEPT ![depth(s) + 1] = R]
    BY DEF Follows
  <1> HIDE DEF R
  <1>2. /\ depth(s) \in 0 .. 2 /\ depth(t) = depth(s) + 1 /\ t[depth(s) + 1] = R
        /\ \A d \in 1 .. 3 : d # depth(s) + 1 => t[d] = s[d]
    BY <1>1 DEF Stack, depth
  <1> QED BY <1>2 DEF R

LEMMA Popped ==
  ASSUME NEW s, NEW t, NEW x, Stack(s), Stack(t), x.step = "release", Follows(s, x, t)
  PROVE  /\ depth(s) \in 1 .. 3 /\ depth(t) = depth(s) - 1 /\ t[depth(s)] = {}
         /\ \A d \in 1 .. 3 : d # depth(s) => t[d] = s[d]
  <1>1. depth(s) > 0 /\ t = [s EXCEPT ![depth(s)] = {}]
    BY DEF Follows
  <1> QED BY <1>1 DEF Stack, depth

\* The calls of h are those of s; the innermost one is at one of the labels.
At(h, s, labels) ==
    \A d \in 1 .. 3 :
        /\ want[<<h, d>>] = Strongest(s[d])
        /\ d < depth(s) => pc[<<h, d>>] = "held"
        /\ d = depth(s) => pc[<<h, d>>] \in labels
        /\ d > depth(s) => pc[<<h, d>>] = "idle"

InPlan(h, s) == Good(plan[h], s) /\ At(h, s, {"locking", "held"})
\* A release has been taken from the plan and is not yet done.
Leaving(h, s) ==
    /\ At(h, s, {"releasing"})
    /\ \E p : Good(p, s) /\ p # <<>> /\ Head(p).step = "release" /\ plan[h] = Tail(p)

\* A handler is at some place of a plan, or on its way to it from the call it releases.
Serving(h) == \E s : InPlan(h, s) \/ Leaving(h, s)

HandlersInv ==
    /\ LocksInv
    /\ plan = [f \in Handler |-> plan[f]]
    /\ \A h \in Handler : Serving(h)

LEMMA DepthIs ==
  ASSUME NEW h, NEW s, Stack(s), At(h, s, {"locking", "held", "releasing"})
  PROVE  Depth(h) = depth(s)
  <1>1. depth(s) \in 0 .. 3
    BY Depths
  <1>2. \A e \in 1 .. 3 : pc[<<h, e>>] # "idle" <=> e <= depth(s)
    BY <1>1 DEF At
  <1>3. \A d \in 0 .. 3 :
           (\A e \in 1 .. 3 : pc[<<h, e>>] # "idle" <=> e <= d) => d = depth(s)
    <2>1. SUFFICES ASSUME NEW d \in 0 .. 3,
                          \A e \in 1 .. 3 : pc[<<h, e>>] # "idle" <=> e <= d
                   PROVE  d = depth(s)
      OBVIOUS
    <2>2. \A e \in 1 .. 3 : e <= d <=> e <= depth(s)
      BY <2>1, <1>2
    <2> QED BY <2>2, <1>1
  <1> QED BY <1>1, <1>2, <1>3 DEF Depth, MaxDepth

\* The labels of the calls of a handler.
LEMMA AtAny ==
  ASSUME NEW h, NEW s, At(h, s, {"locking", "held"}) \/ At(h, s, {"releasing"})
  PROVE  At(h, s, {"locking", "held", "releasing"})
  BY DEF At

LEMMA ServingStack ==
  ASSUME NEW h, NEW s, InPlan(h, s) \/ Leaving(h, s)
  PROVE  Stack(s) /\ Sound(s) /\ At(h, s, {"locking", "held", "releasing"})
  BY AtAny, GoodSound DEF InPlan, Leaving

LEMMA ClientOf ==
  ASSUME HandlerLocksAssumption, NEW h \in Handler, NEW d \in 1 .. 3
  PROVE  <<h, d>> \in Client
  BY DEF HandlerLocksAssumption, MaxDepth

\* A step of one handler leaves the others where they are.
LEMMA OthersServed ==
  ASSUME NEW h \in Handler, NEW g \in Handler, g # h, Serving(g), plan'[g] = plan[g],
         \A d \in 1 .. 3 : pc'[<<g, d>>] = pc[<<g, d>>] /\ want'[<<g, d>>] = want[<<g, d>>]
  PROVE  Serving(g)'
  <1>1. PICK s : InPlan(g, s) \/ Leaving(g, s)
    BY DEF Serving
  <1>2. CASE InPlan(g, s)
    <2>1. InPlan(g, s)'
      BY <1>2 DEF InPlan, At
    <2> QED BY <2>1 DEF Serving
  <1>3. CASE Leaving(g, s)
    <2>1. Leaving(g, s)'
      BY <1>3 DEF Leaving, At
    <2> QED BY <2>1 DEF Serving
  <1> QED BY <1>1, <1>2, <1>3

LEMMA InitiallyServed ==
  ASSUME HandlerLocksAssumption
  PROVE  HInit => HandlersInv
  <1> SUFFICES ASSUME HInit PROVE HandlersInv
    OBVIOUS
  <1>1. /\ pc = [c \in Client |-> "idle"] /\ want = [c \in Client |-> NoWants]
        /\ lock = [k \in Key |-> Unlocked] /\ plan = [h \in Handler |-> <<>>]
    BY DEF HInit, Init
  <1>2. KeyLockTypes
    <2>1. Unlocked \in RWLock(Client)
      BY DEF Unlocked, RWLock
    <2> QED BY <1>1, <2>1, NothingWanted DEF KeyLockTypes, Wanted
  <1>3. OwnersOK
    BY <1>1 DEF OwnersOK, Unlocked, HandlerLocksAssumption
  <1>4. \A c \in Client : CallOK(c)
    BY <1>1, NothingWanted DEF CallOK, Wanted
  <1>5. ASSUME NEW h \in Handler PROVE Serving(h)
    <2>1. Good(plan[h], NoCalls)
      BY <1>1, GoodEnds
    <2>2. At(h, NoCalls, {"locking", "held"})
      <3>1. depth(NoCalls) = 0 /\ \A d \in 1 .. 3 : NoCalls[d] = {}
        BY DEF depth, NoCalls
      <3>2. \A d \in 1 .. 3 : <<h, d>> \in Client
        BY ClientOf
      <3>3. \A d \in 1 .. 3 : pc[<<h, d>>] = "idle" /\ want[<<h, d>>] = NoWants
        BY <3>2, <1>1
      <3>4. \A d \in 1 .. 3 : d > depth(NoCalls) /\ ~ (d < depth(NoCalls))
              /\ d # depth(NoCalls)
        BY <3>1
      <3>5. \A d \in 1 .. 3 : Strongest(NoCalls[d]) = NoWants
        BY <3>1 DEF NoWants
      <3> QED BY <3>3, <3>4, <3>5 DEF At
    <2> QED BY <2>1, <2>2 DEF Serving, InPlan
  <1> QED BY <1>1, <1>2, <1>3, <1>4, <1>5 DEF HandlersInv, LocksInv

LEMMA BeginKeeps ==
  ASSUME HandlerLocksAssumption, HandlersInv, NEW h \in Handler, NEW P \in Plans,
         Begin(h, P)
  PROVE  HandlersInv'
  <1>1. /\ plan' = [plan EXCEPT ![h] = P] /\ pc' = pc /\ want' = want /\ lock' = lock
        /\ Depth(h) = 0
    BY DEF Begin, vars
  <1>2. plan = [g \in Handler |-> plan[g]]
    BY DEF HandlersInv
  <1>3. plan'[h] = P /\ \A g \in Handler \ {h} : plan'[g] = plan[g]
    BY <1>1, <1>2
  <1>4. LocksInv'
    BY <1>1 DEF HandlersInv, LocksInv, KeyLockTypes, OwnersOK, CallOK, Wanted
  <1>5. Serving(h)'
    <2>1. PICK s : InPlan(h, s) \/ Leaving(h, s)
      BY DEF HandlersInv, Serving
    <2>2. Stack(s) /\ depth(s) = 0
      BY <2>1, <1>1, ServingStack, DepthIs
    <2>3. s = NoCalls
      BY <2>2, Depths
    <2>4. ~ Leaving(h, s)
      <3>1. ASSUME Leaving(h, s) PROVE FALSE
        <4>1. PICK p : Good(p, s) /\ p # <<>> /\ Head(p).step = "release"
          BY <3>1 DEF Leaving
        <4>2. PICK t : Follows(s, Head(p), t)
          BY <4>1, GoodFollows
        <4> QED BY <4>1, <4>2, <2>2 DEF Follows
      <3> QED BY <3>1
    <2>5. At(h, NoCalls, {"locking", "held"})'
      BY <2>1, <2>3, <2>4, <1>1 DEF InPlan, At
    <2>6. Good(P, NoCalls)
      BY PlansGood DEF HandlerLocksAssumption
    <2> QED BY <2>5, <2>6, <1>3 DEF Serving, InPlan
  <1>6. \A g \in Handler : Serving(g)'
    BY <1>1, <1>3, <1>5, OthersServed DEF HandlersInv
  <1> QED BY <1>1, <1>2, <1>4, <1>6 DEF HandlersInv

\* A handler that is about to take a step of its plan has all its locks.
LEMMA AtPlace ==
  ASSUME HandlersInv, NEW h \in Handler, NEW name, AtStep(h, name)
  PROVE  \E s : /\ InPlan(h, s) /\ Stack(s) /\ Sound(s) /\ Depth(h) = depth(s)
                /\ depth(s) \in 0 .. 3
                /\ \A d \in 1 .. 3 : d <= depth(s) => pc[<<h, d>>] = "held"
  <1>1. Steady(h)
    BY DEF AtStep
  <1>2. PICK s : InPlan(h, s) \/ Leaving(h, s)
    BY DEF HandlersInv, Serving
  <1>3. Stack(s) /\ Sound(s) /\ Depth(h) = depth(s) /\ depth(s) \in 0 .. 3
    BY <1>2, ServingStack, DepthIs, Depths
  <1>4. ~ Leaving(h, s)
    <2>1. ASSUME Leaving(h, s) PROVE FALSE
      <3>1. PICK p : Good(p, s) /\ p # <<>> /\ Head(p).step = "release"
        BY <2>1 DEF Leaving
      <3>2. PICK t : Follows(s, Head(p), t)
        BY <3>1, GoodFollows
      <3>3. depth(s) \in 1 .. 3
        BY <3>1, <3>2, <1>3 DEF Follows
      <3>4. pc[<<h, depth(s)>>] = "releasing"
        BY <2>1, <3>3 DEF Leaving, At
      <3> QED BY <3>3, <3>4, <1>1 DEF Steady, MaxDepth
    <2> QED BY <2>1
  <1>5. InPlan(h, s)
    BY <1>2, <1>4
  <1>6. ASSUME NEW d \in 1 .. 3, d <= depth(s) PROVE pc[<<h, d>>] = "held"
    <2>1. CASE d < depth(s)
      BY <2>1, <1>5 DEF InPlan, At
    <2>2. CASE d = depth(s)
      BY <2>2, <1>1, <1>5 DEF InPlan, At, Steady, MaxDepth
    <2> QED BY <2>1, <2>2, <1>3, <1>6
  <1> QED BY <1>3, <1>5, <1>6

\* The step a handler takes is the first of its plan.
LEMMA PlanStep ==
  ASSUME HandlersInv, NEW h \in Handler, StepDone(h)
  PROVE  /\ plan'[h] = Tail(plan[h])
         /\ \A g \in Handler \ {h} : plan'[g] = plan[g]
         /\ plan' = [f \in Handler |-> plan'[f]]
  <1>1. /\ plan = [f \in Handler |-> plan[f]]
        /\ plan' = [plan EXCEPT ![h] = Tail(plan[h])]
    BY DEF HandlersInv, StepDone
  <1>2. DOMAIN plan = Handler
    BY <1>1
  <1>3. plan' = [f \in Handler |-> IF f = h THEN Tail(plan[h]) ELSE plan[f]]
    BY <1>1, <1>2
  <1> DEFINE q == plan'
  <1>4. /\ q[h] = Tail(plan[h])
        /\ \A g \in Handler \ {h} : q[g] = plan[g]
        /\ q = [f \in Handler |-> q[f]]
    BY <1>3
  <1> QED BY <1>4

LEMMA CallReleaseKeeps ==
  ASSUME HandlerLocksAssumption, HandlersInv, NEW h \in Handler, CallRelease(h)
  PROVE  HandlersInv'
  <1>1. AtStep(h, "release") /\ StepDone(h) /\ Release(<<h, Depth(h)>>)
    BY DEF CallRelease
  <1>2. PICK s : /\ InPlan(h, s) /\ Stack(s) /\ Depth(h) = depth(s) /\ depth(s) \in 0 .. 3
    BY <1>1, AtPlace
  <1>3. plan[h] # <<>> /\ Head(plan[h]).step = "release"
    BY <1>1 DEF AtStep
  <1>4. Good(plan[h], s) /\ At(h, s, {"locking", "held"})
    BY <1>2 DEF InPlan
  <1>5. /\ plan'[h] = Tail(plan[h])
        /\ \A g \in Handler \ {h} : plan'[g] = plan[g]
        /\ plan' = [f \in Handler |-> plan'[f]]
    BY <1>1, PlanStep
  <1>6. depth(s) \in 1 .. 3
    <2>1. PICK t : Follows(s, Head(plan[h]), t)
      BY <1>3, <1>4, GoodFollows
    <2> QED BY <2>1, <1>2, <1>3 DEF Follows
  <1>7. pc \in [Client -> {"idle", "locking", "held", "releasing"}]
    BY DEF HandlersInv, LocksInv, KeyLockTypes
  <1> DEFINE c == <<h, depth(s)>>
  <1>8. /\ c \in Client /\ pc' = [pc EXCEPT ![c] = "releasing"] /\ want' = want
        /\ lock' = lock /\ pc[c] = "held"
    BY <1>1, <1>2, <1>6, ClientOf DEF Release, Goto
  <1>9. LocksInv'
    <2>1. \A k \in Wanted(c) : Inside(lock[k], c, want[c][k])
      BY <1>8 DEF HandlersInv, LocksInv, CallOK
    <2> HIDE DEF c
    <2> QED BY <1>8, <2>1, LabelKeeps DEF HandlersInv, Goto
  <1>10. Serving(h)'
    <2>1. pc'[<<h, depth(s)>>] = "releasing"
          /\ \A d \in 1 .. 3 : d # depth(s) => pc'[<<h, d>>] = pc[<<h, d>>]
      BY <1>8, <1>7, ClientOf
    <2>2. At(h, s, {"releasing"})'
      BY <2>1, <1>8, <1>2, <1>4 DEF At
    <2>3. Leaving(h, s)'
      BY <2>2, <1>3, <1>4, <1>5 DEF Leaving
    <2> QED BY <2>3 DEF Serving
  <1>11. ASSUME NEW g \in Handler, g # h PROVE Serving(g)'
    <2>1. \A d \in 1 .. 3 : pc'[<<g, d>>] = pc[<<g, d>>]
      BY <1>8, <1>11, <1>7, ClientOf
    <2> QED BY <1>8, <1>11, <2>1, <1>5, OthersServed DEF HandlersInv
  <1>12. \A g \in Handler : Serving(g)'
    BY <1>10, <1>11
  <1> QED BY <1>5, <1>9, <1>12 DEF HandlersInv

LEMMA CallKeeps ==
  ASSUME HandlerLocksAssumption, HandlersInv, NEW h \in Handler, Call(h)
  PROVE  HandlersInv'
  <1> DEFINE R == Head(plan[h]).requests
  <1>1. AtStep(h, "acquire") /\ StepDone(h) /\ Acquire(<<h, Depth(h) + 1>>, R)
    BY DEF Call
  <1>2. PICK s : /\ InPlan(h, s) /\ Stack(s) /\ Depth(h) = depth(s) /\ depth(s) \in 0 .. 3
                 /\ \A d \in 1 .. 3 : d <= depth(s) => pc[<<h, d>>] = "held"
    BY <1>1, AtPlace
  <1>3. plan[h] # <<>> /\ Head(plan[h]).step = "acquire"
    BY <1>1 DEF AtStep
  <1>4. Good(plan[h], s) /\ At(h, s, {"locking", "held"})
    BY <1>2 DEF InPlan
  <1>5. /\ plan'[h] = Tail(plan[h])
        /\ \A g \in Handler \ {h} : plan'[g] = plan[g]
        /\ plan' = [f \in Handler |-> plan'[f]]
    BY <1>1, PlanStep
  <1>6. PICK t : Follows(s, Head(plan[h]), t) /\ Good(Tail(plan[h]), t)
    BY <1>3, <1>4, GoodFollows
  <1>7. Stack(t) /\ Sound(t)
    BY <1>6, GoodSound
  <1>8. /\ depth(s) \in 0 .. 2 /\ depth(t) = depth(s) + 1 /\ t[depth(s) + 1] = R
        /\ \A d \in 1 .. 3 : d # depth(s) + 1 => t[d] = s[d]
    BY <1>2, <1>3, <1>6, <1>7, Pushed
  <1>9. pc \in [Client -> {"idle", "locking", "held", "releasing"}]
           /\ want = [c \in Client |-> want[c]]
    BY DEF HandlersInv, LocksInv, KeyLockTypes
  <1> DEFINE c == <<h, depth(s) + 1>>
  <1>10. depth(s) + 1 \in 1 .. 3
    BY <1>8
  <1>11. c \in Client /\ Acquire(c, R)
    BY <1>10, <1>1, <1>2, ClientOf
  <1> HIDE DEF R
  <1>12. /\ pc' = [pc EXCEPT ![c] = "locking"] /\ lock' = lock
         /\ want' = [want EXCEPT ![c] = Strongest(R)]
    BY <1>11 DEF Acquire, Goto
  <1>13. LocksInv'
    <2>1. Keys(R) \subseteq Key
      BY <1>7, <1>8, <1>10 DEF Sound, Known, HandlerLocksAssumption
    <2> HIDE DEF c
    <2> QED BY <1>11, <2>1, AcquireKeeps DEF HandlersInv, HandlerLocksAssumption
  <1>14. Serving(h)'
    <2>1. /\ pc'[<<h, depth(s) + 1>>] = "locking"
          /\ \A d \in 1 .. 3 : d # depth(s) + 1 => pc'[<<h, d>>] = pc[<<h, d>>]
      BY <1>11, <1>12, <1>9, ClientOf
    <2>2. /\ want'[<<h, depth(s) + 1>>] = Strongest(R)
          /\ \A d \in 1 .. 3 : d # depth(s) + 1 => want'[<<h, d>>] = want[<<h, d>>]
      BY <1>11, <1>12, <1>9, ClientOf
    <2>3. At(h, t, {"locking", "held"})'
      <3>1. SUFFICES ASSUME NEW d \in 1 .. 3
                     PROVE  /\ want'[<<h, d>>] = Strongest(t[d])
                            /\ d < depth(t) => pc'[<<h, d>>] = "held"
                            /\ d = depth(t) => pc'[<<h, d>>] \in {"locking", "held"}
                            /\ d > depth(t) => pc'[<<h, d>>] = "idle"
        BY DEF At
      <3>2. CASE d = depth(s) + 1
        <4>1. want'[<<h, d>>] = Strongest(t[d]) /\ pc'[<<h, d>>] = "locking"
          BY <3>2, <2>1, <2>2, <1>8
        <4> QED BY <3>2, <4>1, <1>8
      <3>3. CASE d # depth(s) + 1
        <4>1. want'[<<h, d>>] = Strongest(t[d])
          BY <3>3, <2>2, <1>8, <1>4 DEF At
        <4>2. d < depth(t) => pc'[<<h, d>>] = "held"
          BY <3>3, <2>1, <1>2, <1>8
        <4>3. d > depth(t) => pc'[<<h, d>>] = "idle"
          BY <3>3, <2>1, <1>8, <1>4 DEF At
        <4> QED BY <3>3, <4>1, <4>2, <4>3, <1>8
      <3> QED BY <3>2, <3>3
    <2> QED BY <2>3, <1>5, <1>6 DEF Serving, InPlan
  <1>15. ASSUME NEW g \in Handler, g # h PROVE Serving(g)'
    <2>1. \A d \in 1 .. 3 : pc'[<<g, d>>] = pc[<<g, d>>] /\ want'[<<g, d>>] = want[<<g, d>>]
      BY <1>12, <1>15, <1>9, ClientOf
    <2> QED BY <1>15, <2>1, <1>5, OthersServed DEF HandlersInv
  <1>16. \A g \in Handler : Serving(g)'
    BY <1>14, <1>15
  <1> QED BY <1>5, <1>13, <1>16 DEF HandlersInv

\* A step of one handler's plan that takes and leaves no lock.
LEMMA PlanMoves ==
  ASSUME HandlersInv, NEW h \in Handler, NEW s, InPlan(h, s), pc' = pc, want' = want,
         lock' = lock, plan' = [f \in Handler |-> plan'[f]],
         \A g \in Handler \ {h} : plan'[g] = plan[g], Good(plan'[h], s)
  PROVE  HandlersInv'
  <1>1. LocksInv'
    BY DEF HandlersInv, LocksInv, KeyLockTypes, OwnersOK, CallOK, Wanted
  <1>2. Serving(h)'
    <2>1. InPlan(h, s)'
      BY DEF InPlan, At
    <2> QED BY <2>1 DEF Serving
  <1>3. \A g \in Handler : Serving(g)'
    BY <1>2, OthersServed DEF HandlersInv
  <1> QED BY <1>1, <1>3 DEF HandlersInv

LEMMA StepKeeps ==
  ASSUME HandlersInv, NEW h \in Handler, NEW name, AtStep(h, name),
         name \notin {"acquire", "release"}, StepDone(h), UNCHANGED vars
  PROVE  HandlersInv'
  <1>1. PICK s : InPlan(h, s)
    BY AtPlace
  <1>2. plan[h] # <<>> /\ Head(plan[h]).step = name
    BY DEF AtStep
  <1>3. PICK t : Follows(s, Head(plan[h]), t) /\ Good(Tail(plan[h]), t)
    BY <1>1, <1>2, GoodFollows DEF InPlan
  <1>4. t = s
    BY <1>2, <1>3 DEF Follows
  <1> QED BY <1>1, <1>3, <1>4, PlanStep, PlanMoves DEF vars

LEMMA ReconcileKeeps ==
  ASSUME HandlersInv, NEW h \in Handler, NEW job \in Jobs, Reconcile(h, job)
  PROVE  HandlersInv'
  <1>1. AtStep(h, "reconcile") /\ UNCHANGED vars
    BY DEF Reconcile
  <1>2. PICK s : InPlan(h, s)
    BY <1>1, AtPlace
  <1>3. plan[h] # <<>> /\ Head(plan[h]).step = "reconcile" /\ Good(plan[h], s)
    BY <1>1, <1>2 DEF AtStep, InPlan
  <1>4. CASE UNCHANGED plan
    BY <1>1, <1>2, <1>3, <1>4, PlanMoves DEF HandlersInv, vars
  <1>5. CASE plan' = [plan EXCEPT ![h] = reconcileJob(job) \o plan[h]]
    <2> DEFINE q == plan'
    <2>3. plan = [f \in Handler |-> plan[f]]
      BY DEF HandlersInv
    <2>4. /\ q[h] = reconcileJob(job) \o plan[h]
          /\ \A g \in Handler \ {h} : q[g] = plan[g]
          /\ q = [f \in Handler |-> q[f]]
      BY <1>5, <2>3
    <2>1. /\ plan'[h] = reconcileJob(job) \o plan[h]
          /\ \A g \in Handler \ {h} : plan'[g] = plan[g]
          /\ plan' = [f \in Handler |-> plan'[f]]
      BY <2>4
    <2>2. Good(plan'[h], s)
      BY <2>1, <1>3, ChosenGood
    <2> QED BY <1>1, <1>2, <2>1, <2>2, PlanMoves DEF vars
  <1> QED BY <1>4, <1>5 DEF Reconcile

LEMMA LocksOnly ==
  ASSUME HandlersInv, LocksInv', pc' = pc, want' = want, plan' = plan
  PROVE  HandlersInv'
  <1>1. ASSUME NEW h \in Handler PROVE Serving(h)'
    <2>1. PICK s : InPlan(h, s) \/ Leaving(h, s)
      BY DEF HandlersInv, Serving
    <2>2. InPlan(h, s)' \/ Leaving(h, s)'
      BY <2>1 DEF InPlan, Leaving, At
    <2> QED BY <2>2 DEF Serving
  <1> QED BY <1>1 DEF HandlersInv

LEMMA ReturnKeeps ==
  ASSUME HandlerLocksAssumption, HandlersInv, NEW h \in Handler, NEW d \in 1 .. 3,
         Return(<<h, d>>), plan' = plan
  PROVE  HandlersInv'
  <1> DEFINE c == <<h, d>>
  <1>1. /\ c \in Client /\ pc[c] = "locking" /\ Goto(c, "held") /\ want' = want
             /\ lock' = lock
        /\ \A k \in Wanted(c) : Inside(lock[k], c, want[c][k])
    BY ClientOf DEF Return
  <1>2. pc \in [Client -> {"idle", "locking", "held", "releasing"}]
    BY DEF HandlersInv, LocksInv, KeyLockTypes
  <1>3. LocksInv'
    <2> HIDE DEF c
    <2> QED BY <1>1, LabelKeeps DEF HandlersInv
  <1>4. pc' = [pc EXCEPT ![c] = "held"]
    BY <1>1 DEF Goto
  <1>5. Serving(h)'
    <2>1. PICK s : InPlan(h, s) \/ Leaving(h, s)
      BY DEF HandlersInv, Serving
    <2>2. depth(s) \in 0 .. 3
      BY <2>1, ServingStack, Depths
    <2>3. ~ Leaving(h, s)
      <3>1. ASSUME At(h, s, {"releasing"}) PROVE FALSE
        BY <1>1, <2>2, <3>1 DEF At
      <3> QED BY <3>1 DEF Leaving
    <2>4. Good(plan[h], s) /\ At(h, s, {"locking", "held"})
      BY <2>1, <2>3 DEF InPlan
    <2>5. d = depth(s)
      BY <1>1, <2>2, <2>4 DEF At
    <2>6. pc'[<<h, d>>] = "held" /\ \A e \in 1 .. 3 : e # d => pc'[<<h, e>>] = pc[<<h, e>>]
      BY <1>1, <1>2, <1>4, ClientOf
    <2>7. At(h, s, {"locking", "held"})'
      BY <1>1, <2>4, <2>5, <2>6 DEF At
    <2> QED BY <2>4, <2>7 DEF Serving, InPlan
  <1>6. ASSUME NEW g \in Handler, g # h PROVE Serving(g)'
    <2>1. \A e \in 1 .. 3 : pc'[<<g, e>>] = pc[<<g, e>>]
      BY <1>2, <1>4, <1>6, ClientOf
    <2> QED BY <1>1, <1>6, <2>1, OthersServed DEF HandlersInv
  <1>7. \A g \in Handler : Serving(g)'
    BY <1>5, <1>6
  <1> QED BY <1>3, <1>7 DEF HandlersInv

LEMMA DoneServes ==
  ASSUME HandlerLocksAssumption, HandlersInv, NEW h \in Handler, NEW d \in 1 .. 3,
         Done(<<h, d>>), plan' = plan
  PROVE  HandlersInv'
  <1> DEFINE c == <<h, d>>
  <1>1. /\ c \in Client /\ pc[c] = "releasing" /\ pc' = [pc EXCEPT ![c] = "idle"]
        /\ want' = [want EXCEPT ![c] = NoWants]
    BY ClientOf DEF Done, Goto
  <1>2. pc \in [Client -> {"idle", "locking", "held", "releasing"}]
          /\ want = [b \in Client |-> want[b]]
    BY DEF HandlersInv, LocksInv, KeyLockTypes
  <1>3. LocksInv'
    <2> HIDE DEF c
    <2>1. Done(c)
      BY DEF c
    <2> QED BY <1>1, <2>1, DoneKeeps DEF HandlersInv
  <1>4. Serving(h)'
    <2>1. PICK s : InPlan(h, s) \/ Leaving(h, s)
      BY DEF HandlersInv, Serving
    <2>2. depth(s) \in 0 .. 3 /\ Stack(s)
      BY <2>1, ServingStack, Depths
    <2>3. ~ InPlan(h, s)
      BY <1>1, <2>2 DEF InPlan, At
    <2>4. Leaving(h, s)
      BY <2>1, <2>3
    <2>12. At(h, s, {"releasing"})
      BY <2>4 DEF Leaving
    <2>5. d = depth(s)
      BY <1>1, <2>2, <2>12 DEF At
    <2>11. PICK p : Good(p, s) /\ p # <<>> /\ Head(p).step = "release" /\ plan[h] = Tail(p)
      BY <2>4 DEF Leaving
    <2>6. PICK t : Follows(s, Head(p), t) /\ Good(plan[h], t)
      BY <2>11, GoodFollows
    <2>7. Stack(t) /\ depth(t) = depth(s) - 1 /\ t[d] = {}
          /\ \A e \in 1 .. 3 : e # d => t[e] = s[e]
      BY <2>2, <2>5, <2>6, <2>11, GoodSound, Popped
    <2>8. pc'[<<h, d>>] = "idle" /\ \A e \in 1 .. 3 : e # d => pc'[<<h, e>>] = pc[<<h, e>>]
      BY <1>1, <1>2, ClientOf
    <2>9. want'[<<h, d>>] = NoWants
            /\ \A e \in 1 .. 3 : e # d => want'[<<h, e>>] = want[<<h, e>>]
      BY <1>1, <1>2, ClientOf
    <2>10. At(h, t, {"locking", "held"})'
      <3>1. SUFFICES ASSUME NEW e \in 1 .. 3
                     PROVE  /\ want'[<<h, e>>] = Strongest(t[e])
                            /\ e < depth(t) => pc'[<<h, e>>] = "held"
                            /\ e = depth(t) => pc'[<<h, e>>] \in {"locking", "held"}
                            /\ e > depth(t) => pc'[<<h, e>>] = "idle"
        BY DEF At
      <3>2. CASE e = d
        <4>1. want'[<<h, e>>] = Strongest(t[e]) /\ pc'[<<h, e>>] = "idle"
          BY <3>2, <2>7, <2>8, <2>9 DEF NoWants
        <4> QED BY <3>2, <4>1, <2>2, <2>5, <2>7
      <3>3. CASE e # d
        <4>1. want'[<<h, e>>] = Strongest(t[e])
          BY <3>3, <2>12, <2>7, <2>9 DEF At
        <4>2. e <= depth(t) => pc'[<<h, e>>] = "held"
          BY <3>3, <2>2, <2>12, <2>5, <2>7, <2>8 DEF At
        <4>3. e > depth(t) => pc'[<<h, e>>] = "idle"
          BY <3>3, <2>2, <2>12, <2>5, <2>7, <2>8 DEF At
        <4> QED BY <4>1, <4>2, <4>3, <2>2, <2>7
      <3> QED BY <3>2, <3>3
    <2> QED BY <2>6, <2>10 DEF Serving, InPlan
  <1>5. ASSUME NEW g \in Handler, g # h PROVE Serving(g)'
    <2>1. \A e \in 1 .. 3 : pc'[<<g, e>>] = pc[<<g, e>>] /\ want'[<<g, e>>] = want[<<g, e>>]
      BY <1>1, <1>2, <1>5, ClientOf
    <2> QED BY <1>5, <2>1, OthersServed DEF HandlersInv
  <1>6. \A g \in Handler : Serving(g)'
    BY <1>4, <1>5
  <1> QED BY <1>3, <1>6 DEF HandlersInv

LEMMA HandlersStep ==
  ASSUME HandlerLocksAssumption, HandlersInv, [HNext]_(hvars)
  PROVE  HandlersInv'
  <1>1. CASE UNCHANGED hvars
    <2>1. LocksInv'
      BY <1>1 DEF HandlersInv, LocksInv, KeyLockTypes, OwnersOK, CallOK, Wanted,
         hvars
    <2> QED BY <1>1, <2>1, LocksOnly DEF hvars
  <1>2. ASSUME NEW h \in Handler, NEW P \in Plans, Begin(h, P) PROVE HandlersInv'
    BY <1>2, BeginKeeps
  <1>3. ASSUME NEW h \in Handler, Lock(h) PROVE HandlersInv'
    <2>1. PICK d \in 1 .. 3 : \E k \in Wanted(<<h, d>>) : LockNext(<<h, d>>, k)
      BY <1>3 DEF Lock, MaxDepth
    <2>2. PICK k \in Wanted(<<h, d>>) : LockNext(<<h, d>>, k)
      BY <2>1
    <2>3. <<h, d>> \in Client /\ k \in Key
      BY <2>2, ClientOf DEF HandlersInv, LocksInv, KeyLockTypes
    <2>4. LocksInv'
      BY <2>2, <2>3, LockNextKeeps DEF HandlersInv, HandlerLocksAssumption
    <2>5. pc' = pc /\ want' = want /\ plan' = plan
      BY <2>2, <1>3 DEF LockNext, Lock
    <2> QED BY <2>4, <2>5, LocksOnly
  <1>4. ASSUME NEW h \in Handler, Unlock(h) PROVE HandlersInv'
    <2>1. PICK d \in 1 .. 3 : \E k \in Wanted(<<h, d>>) : UnlockNext(<<h, d>>, k)
      BY <1>4 DEF Unlock, MaxDepth
    <2>2. PICK k \in Wanted(<<h, d>>) : UnlockNext(<<h, d>>, k)
      BY <2>1
    <2>3. <<h, d>> \in Client /\ k \in Key
      BY <2>2, ClientOf DEF HandlersInv, LocksInv, KeyLockTypes
    <2>4. LocksInv'
      BY <2>2, <2>3, UnlockNextKeeps DEF HandlersInv, HandlerLocksAssumption
    <2>5. pc' = pc /\ want' = want /\ plan' = plan
      BY <2>2, <1>4 DEF UnlockNext, Unlock
    <2> QED BY <2>4, <2>5, LocksOnly
  <1>5. ASSUME NEW h \in Handler, Continue(h) PROVE HandlersInv'
    <2>1. PICK d \in 1 .. 3 : Return(<<h, d>>) \/ Done(<<h, d>>)
      BY <1>5 DEF Continue, MaxDepth
    <2>2. plan' = plan
      BY <1>5 DEF Continue
    <2> QED BY <2>1, <2>2, ReturnKeeps, DoneServes
  <1>6. ASSUME NEW h \in Handler, Call(h) \/ CallRelease(h) PROVE HandlersInv'
    BY <1>6, CallKeeps, CallReleaseKeeps
  <1>7. ASSUME NEW h \in Handler, Create(h) PROVE HandlersInv'
    BY <1>7, StepKeeps DEF Create
  <1>8. ASSUME NEW h \in Handler, Save(h) PROVE HandlersInv'
    BY <1>8, StepKeeps DEF Save
  <1>9. ASSUME NEW h \in Handler, Update(h) PROVE HandlersInv'
    BY <1>9, StepKeeps DEF Update
  <1>10. ASSUME NEW h \in Handler, NothingToReconcile(h) PROVE HandlersInv'
    <2>1. UNCHANGED vars
      BY <1>10 DEF NothingToReconcile
    <2> QED BY <1>10, <2>1, StepKeeps DEF NothingToReconcile
  <1>11. ASSUME NEW h \in Handler, NEW job \in Jobs, Reconcile(h, job) PROVE HandlersInv'
    BY <1>11, ReconcileKeeps
  <1> QED BY <1>1, <1>2, <1>3, <1>4, <1>5, <1>6, <1>7, <1>8, <1>9, <1>10, <1>11
          DEF HNext, Proceed

\* The handlers' locks and plans stay together: what each call has asked for, and
\* where in its plan each handler is (KeyLocks.Acquire, and the handlers of httpapi,
\* runner and lfs).
THEOREM HandlersInvariance ==
  ASSUME HandlerLocksAssumption
  PROVE  HSpec => []HandlersInv
  BY InitiallyServed, HandlersStep, PTL DEF HSpec

-----------------------------------------------------------------------------
(* A group moves alone. *)

\* What an open call wants, by the stack it belongs to.
LEMMA WantedIs ==
  ASSUME HandlersInv, NEW h \in Handler, NEW s, InPlan(h, s) \/ Leaving(h, s),
         NEW d \in 1 .. 3
  PROVE  /\ Wanted(<<h, d>>) = Keys(s[d])
         /\ \A k \in Keys(s[d]) : want[<<h, d>>][k] = "exclusive" <=> k \in Alone(s[d])
  <1>1. want[<<h, d>>] = Strongest(s[d])
    BY ServingStack DEF At
  <1> QED BY <1>1, Normalized DEF Wanted

\* When a call is held, so is every call around it.
LEMMA HeldAround ==
  ASSUME HandlersInv, NEW h \in Handler, NEW s, InPlan(h, s) \/ Leaving(h, s),
         NEW d \in 1 .. 3,
         pc[<<h, d>>] = "held"
  PROVE  \A e \in 1 .. 3 : e <= d => pc[<<h, e>>] = "held"
  <1>1. At(h, s, {"locking", "held", "releasing"}) /\ depth(s) \in 0 .. 3
    BY ServingStack, Depths
  <1>2. d <= depth(s)
    BY <1>1 DEF At
  <1> QED BY <1>1, <1>2 DEF At

\* Nobody else is inside a lock that one call holds alone.
LEMMA AloneInside ==
  ASSUME LocksInv, NEW c \in Client, NEW b \in Client, b # c, NEW k \in Key,
         pc[c] = "held", k \in Wanted(c), want[c][k] = "exclusive",
         pc[b] = "held", k \in Wanted(b), NoClient \notin Client
  PROVE  FALSE
  <1>1. Inside(lock[k], c, "exclusive") /\ Inside(lock[k], b, want[b][k])
    BY DEF LocksInv, CallOK
  <1> QED BY <1>1 DEF Inside

\* The same, for the calls of two handlers.
LEMMA NotTogether ==
  ASSUME HandlerLocksAssumption, HandlersInv, NEW h \in Handler, NEW g \in Handler,
         h # g,
         NEW s, InPlan(h, s) \/ Leaving(h, s), NEW t, InPlan(g, t) \/ Leaving(g, t),
         NEW d \in 1 .. 3, NEW e \in 1 .. 3, pc[<<h, d>>] = "held", pc[<<g, e>>] = "held",
         NEW k, k \in Alone(s[d]), k \in Keys(t[e])
  PROVE  FALSE
  <1>1. k \in Wanted(<<h, d>>) /\ want[<<h, d>>][k] = "exclusive"
    <2>1. k \in Keys(s[d])
      BY DEF Alone
    <2> QED BY <2>1, WantedIs
  <1>2. k \in Wanted(<<g, e>>)
    BY WantedIs
  <1>3. <<h, d>> \in Client /\ <<g, e>> \in Client /\ <<g, e>> # <<h, d>>
    BY ClientOf
  <1>4. k \in Key
    BY <1>1, <1>3 DEF HandlersInv, LocksInv, KeyLockTypes
  <1> QED BY <1>1, <1>2, <1>3, <1>4, AloneInside DEF HandlersInv, HandlerLocksAssumption

LEMMA MovesAlone ==
  ASSUME HandlerLocksAssumption, HandlersInv
  PROVE  GroupMovesAlone
  <1>1. SUFFICES ASSUME NEW h \in Handler, NEW g \in Handler, h # g, ChangesGroup(h),
                        Works(g, Below)
                 PROVE  FALSE
    BY DEF GroupMovesAlone, Below
  <1>2. PICK s : InPlan(h, s) \/ Leaving(h, s)
    BY DEF HandlersInv, Serving
  <1>3. PICK t : InPlan(g, t) \/ Leaving(g, t)
    BY DEF HandlersInv, Serving
  <1>4. Sound(s) /\ Sound(t)
    BY <1>2, <1>3, ServingStack
  <1>5. PICK d \in 1 .. 3, k \in {IssueA, IssueB} :
           pc[<<h, d>>] = "held" /\ k \in Wanted(<<h, d>>)
             /\ want[<<h, d>>][k] = "exclusive"
    BY <1>1 DEF ChangesGroup, MaxDepth
  <1>6. k \in Alone(s[d])
    BY <1>2, <1>5, WantedIs
  <1>7. /\ d = 3 /\ Catalog \in Keys(s[1]) /\ k \in Alone(s[3])
        /\ \/ GroupA \in Alone(s[1]) /\ ReviewA \in Alone(s[2])
           \/ GroupB \in Alone(s[1]) /\ ReviewB \in Alone(s[2])
    <2>1. CASE k = IssueA
      <3>1. IssueA \in Alone(s[d]) /\ d \in 1 .. 3
        BY <2>1, <1>5, <1>6
      <3>2. d = 3 /\ Catalog \in Keys(s[1]) /\ GroupA \in Alone(s[1])
              /\ ReviewA \in Alone(s[2])
        BY <3>1, <1>4 DEF Sound, MovesAll
      <3> QED BY <3>1, <3>2, <2>1
    <2>2. CASE k = IssueB
      <3>1. IssueB \in Alone(s[d]) /\ d \in 1 .. 3
        BY <2>2, <1>5, <1>6
      <3>2. d = 3 /\ Catalog \in Keys(s[1]) /\ GroupB \in Alone(s[1])
              /\ ReviewB \in Alone(s[2])
        BY <3>1, <1>4 DEF Sound, MovesAll
      <3> QED BY <3>1, <3>2, <2>2
    <2> QED BY <2>1, <2>2, <1>5
  <1>8. pc[<<h, 1>>] = "held" /\ pc[<<h, 2>>] = "held" /\ pc[<<h, 3>>] = "held"
    BY <1>2, <1>5, <1>7, HeldAround
  <1>9. PICK e \in 1 .. 3 : pc[<<g, e>>] = "held" /\ Below \cap Wanted(<<g, e>>) # {}
    BY <1>1 DEF Works, MaxDepth
  <1>10. Keys(t[e]) \cap Below # {}
    <2>1. Wanted(<<g, e>>) = Keys(t[e])
      BY <1>3, WantedIs
    <2> QED BY <2>1, <1>9
  <1>11. Protects(t[1])
    BY <1>4, <1>10 DEF Sound, WorksProtected
  <1>12. pc[<<g, 1>>] = "held"
    <2>1. \A i \in 1 .. 3 : i <= e => pc[<<g, i>>] = "held"
      BY <1>3, <1>9, HeldAround
    <2> QED BY <2>1
  <1>13. ASSUME NEW i \in 1 .. 3, NEW l, l \in Alone(s[i]), l \in Keys(t[1]) PROVE FALSE
    <2>1. pc[<<h, i>>] = "held" /\ 1 \in 1 .. 3
      BY <1>8
    <2> QED BY <2>1, <1>1, <1>2, <1>3, <1>12, <1>13, NotTogether
  <1>14. CASE {GroupA, GroupB} \subseteq Keys(t[1])
    BY <1>7, <1>13, <1>14
  <1>15. CASE Catalog \in Alone(t[1])
    <2>1. 1 \in 1 .. 3 /\ Catalog \in Keys(s[1]) /\ pc[<<h, 1>>] = "held"
      BY <1>7, <1>8
    <2> QED BY <2>1, <1>1, <1>2, <1>3, <1>12, <1>15, NotTogether
  <1>16. CASE {ReviewA, ReviewB} \subseteq Keys(t[1])
    BY <1>7, <1>13, <1>16
  <1>17. CASE {IssueA, IssueB} \subseteq Keys(t[1])
    BY <1>5, <1>7, <1>13, <1>17
  <1> QED BY <1>11, <1>14, <1>15, <1>16, <1>17 DEF Protects

\* While a handler moves or deletes a group, nobody works on anything below it
\* (withSidecarGroupLocks, and the ancestry every other handler locks).
THEOREM GroupsMoveAlone ==
  ASSUME HandlerLocksAssumption
  PROVE  HSpec => []GroupMovesAlone
  BY HandlersInvariance, MovesAlone, PTL

-----------------------------------------------------------------------------
(* Handlers that look for jobs to lock do not wait for each other's own jobs. *)

\* The jobs a handler has chosen: it has locked them after its own, or is about to.
Chosen(h) ==
    Jobs \cap (Wanted(<<h, 2>>) \cup Wanted(<<h, 3>>)
        \cup (IF plan[h] # <<>> /\ pc[<<h, 1>>] \in {"locking", "held"}
              THEN Keys(Head(plan[h]).requests) ELSE {}))
Own(h) == Jobs \cap Wanted(<<h, 1>>)
HoldsOwn(h) == IF pc[<<h, 1>>] = "held" THEN Own(h) ELSE {}

\* A job is saved while it is locked as an own one ...
WillSave(h) == pc[<<h, 1>>] = "locking" /\ Own(h) # {} => Saves(plan[h])
\* ... and is then no longer one that reconciliations look for.
HasSaved(h) == HoldsOwn(h) \cap undecided # {} => Saves(plan[h])
\* h has chosen the job that g holds as its own.
Edge(h, g) == Chosen(h) \cap HoldsOwn(g) # {}
NoCircle == \A D \in (SUBSET Handler) \ {{}} : \E h \in D : \A g \in D : ~ Edge(h, g)

JobsInv == /\ \A h \in Handler : WillSave(h) /\ HasSaved(h)
           /\ NoCircle

\* Who has chosen a job has saved its own.
LEMMA ChosenSaved ==
  ASSUME HandlersInv, NEW h \in Handler, Own(h) # {}, Chosen(h) # {}
  PROVE  ~ Saves(plan[h])
  <1>1. PICK s : InPlan(h, s) \/ Leaving(h, s)
    BY DEF HandlersInv, Serving
  <1>2. \A d \in 1 .. 3 : Wanted(<<h, d>>) = Keys(s[d])
    BY <1>1, WantedIs
  <1>3. ~ NoJob(s[1])
    BY <1>2 DEF Own, NoJob
  <1>4. s[1] # {}
    BY <1>3, Nothing
  <1>5. PICK k \in Chosen(h) : TRUE
    OBVIOUS
  <1>6. CASE InPlan(h, s)
    <2>1. Good(plan[h], s)
      BY <1>6 DEF InPlan
    <2>2. CASE plan[h] = <<>>
      <3>1. ~ Saves(<<>>)
        BY DEF Saves
      <3> QED BY <2>2, <3>1
    <2>3. CASE plan[h] # <<>>
      <3>1. Local(plan[h], s)
        BY <2>1, GoodLocal
      <3>2. SavesFirst(Head(plan[h]), Tail(plan[h]), s)
        BY <2>3, <3>1 DEF Local
      <3>3. Saves(plan[h]) <=> Head(plan[h]).step = "save" \/ Saves(Tail(plan[h]))
        BY <2>3, <3>1, SavesLater DEF Local
      <3>4. ~ NoJob(Head(plan[h]).requests) \/ ~ NoJob(s[2]) \/ ~ NoJob(s[3])
        BY <1>2, <1>5 DEF Chosen, NoJob
      <3> QED BY <1>3, <1>4, <3>2, <3>3, <3>4 DEF SavesFirst
    <2> QED BY <2>2, <2>3
  <1>7. CASE Leaving(h, s)
    <2>1. PICK p : Good(p, s) /\ p # <<>> /\ plan[h] = Tail(p)
      BY <1>7 DEF Leaving
    <2>2. /\ SavesFirst(Head(p), Tail(p), s)
          /\ Tail(p) # <<>> => NoJob(Head(Tail(p)).requests)
      BY <2>1, GoodLocal DEF Local
    <2>3. ~ NoJob(s[2]) \/ ~ NoJob(s[3])
      BY <1>2, <1>5, <2>1, <2>2 DEF Chosen, NoJob
    <2> QED BY <1>3, <2>1, <2>2, <2>3 DEF SavesFirst
  <1> QED BY <1>1, <1>6, <1>7

\* Edges to handlers that have chosen nothing close no circle.
LEMMA NoNewCircle ==
  ASSUME NoCircle,
         \A x, y \in Handler : Edge(x, y)' => Edge(x, y) \/ Chosen(y)' = {}
  PROVE  NoCircle'
  <1>1. SUFFICES ASSUME NEW D \in (SUBSET Handler) \ {{}}
                 PROVE  \E h \in D : \A g \in D : ~ Edge(h, g)'
    BY DEF NoCircle
  <1>2. CASE \E h \in D : Chosen(h)' = {}
    BY <1>2 DEF Edge
  <1>3. CASE \A h \in D : Chosen(h)' # {}
    <2>1. PICK h \in D : \A g \in D : ~ Edge(h, g)
      BY DEF NoCircle
    <2>2. \A g \in D : ~ Edge(h, g)'
      BY <1>3, <2>1
    <2> QED BY <2>2
  <1> QED BY <1>2, <1>3

\* A handler that does not move keeps its jobs.
LEMMA SameJobs ==
  ASSUME NEW g \in Handler, plan'[g] = plan[g],
         \A d \in 1 .. 3 : pc'[<<g, d>>] = pc[<<g, d>>] /\ want'[<<g, d>>] = want[<<g, d>>]
  PROVE  /\ Chosen(g)' = Chosen(g) /\ HoldsOwn(g)' = HoldsOwn(g)
         /\ WillSave(g)' <=> WillSave(g)
  <1>1. /\ pc'[<<g, 1>>] = pc[<<g, 1>>]
        /\ Wanted(<<g, 1>>)' = Wanted(<<g, 1>>) /\ Wanted(<<g, 2>>)' = Wanted(<<g, 2>>)
        /\ Wanted(<<g, 3>>)' = Wanted(<<g, 3>>)
    BY DEF Wanted
  <1>2. Own(g)' = Own(g)
    BY <1>1 DEF Own
  <1> QED BY <1>1, <1>2 DEF Chosen, HoldsOwn, WillSave

\* Steps that lock no more jobs, and choose none.
LEMMA FewerJobs ==
  ASSUME JobsInv, NEW h \in Handler, undecided' \subseteq undecided,
         \A g \in Handler \ {h} :
            /\ plan'[g] = plan[g]
            /\ \A d \in 1 .. 3 : /\ pc'[<<g, d>>] = pc[<<g, d>>]
                                 /\ want'[<<g, d>>] = want[<<g, d>>],
         Chosen(h)' \subseteq Chosen(h), HoldsOwn(h)' \subseteq HoldsOwn(h),
         WillSave(h)', HasSaved(h)'
  PROVE  JobsInv'
  <1>1. ASSUME NEW g \in Handler, g # h
        PROVE  /\ Chosen(g)' = Chosen(g) /\ HoldsOwn(g)' = HoldsOwn(g)
               /\ WillSave(g)' <=> WillSave(g) /\ plan'[g] = plan[g]
    BY <1>1, SameJobs
  <1>2. ASSUME NEW g \in Handler PROVE WillSave(g)' /\ HasSaved(g)'
    <2>1. CASE g = h
      BY <2>1
    <2>2. CASE g # h
      <3>1. /\ HoldsOwn(g)' = HoldsOwn(g) /\ WillSave(g)' /\ plan'[g] = plan[g] /\ HasSaved(g)
        BY <1>1, <2>2 DEF JobsInv
      <3> QED BY <3>1 DEF HasSaved
    <2> QED BY <2>1, <2>2
  <1>3. \A g \in Handler : Chosen(g)' \subseteq Chosen(g) /\ HoldsOwn(g)' \subseteq HoldsOwn(g)
    BY <1>1
  <1>4. \A x, y \in Handler : Edge(x, y)' => Edge(x, y)
    BY <1>3 DEF Edge
  <1>5. NoCircle'
    BY <1>4, NoNewCircle DEF JobsInv
  <1> QED BY <1>2, <1>5 DEF JobsInv

\* A step of a plan leaves no job at its head, and takes a save from it or nothing.
LEMMA AfterStep ==
  ASSUME HandlersInv, NEW h \in Handler, NEW name, AtStep(h, name), StepDone(h)
  PROVE  /\ plan'[h] # <<>> => NoJob(Head(plan'[h]).requests)
         /\ Saves(plan[h]) <=> name = "save" \/ Saves(plan'[h])
  <1>1. PICK s : InPlan(h, s)
    BY AtPlace
  <1>2. plan[h] # <<>> /\ Head(plan[h]).step = name /\ plan'[h] = Tail(plan[h])
    BY PlanStep DEF AtStep
  <1>3. Local(plan[h], s)
    BY <1>1, GoodLocal DEF InPlan
  <1>4. Tail(plan[h]) # <<>> => NoJob(Head(Tail(plan[h])).requests)
    BY <1>2, <1>3 DEF Local
  <1>5. Saves(plan[h]) <=> Head(plan[h]).step = "save" \/ Saves(Tail(plan[h]))
    BY <1>2, <1>3, SavesLater DEF Local
  <1> QED BY <1>2, <1>4, <1>5

\* A step of a plan takes the jobs at its head from those that are chosen.
LEMMA FewerChosen ==
  ASSUME HandlersInv, NEW h \in Handler, NEW name, AtStep(h, name), StepDone(h),
         \A d \in 2 .. 3 : Wanted(<<h, d>>)' \subseteq Wanted(<<h, d>>)
  PROVE  Chosen(h)' \subseteq Chosen(h)
  <1>1. Jobs \cap (IF plan'[h] # <<>> /\ pc'[<<h, 1>>] \in {"locking", "held"}
                   THEN Keys(Head(plan'[h]).requests) ELSE {}) = {}
    BY AfterStep DEF NoJob
  <1>2. /\ Wanted(<<h, 2>>)' \subseteq Wanted(<<h, 2>>)
        /\ Wanted(<<h, 3>>)' \subseteq Wanted(<<h, 3>>)
    OBVIOUS
  <1> QED BY <1>1, <1>2 DEF Chosen

LEMMA BeginJobs ==
  ASSUME HandlerLocksAssumption, HandlersInv, JobsInv, NEW h \in Handler, NEW P \in Plans,
         Begin(h, P)
  PROVE  JobsInv'
  <1>1. /\ plan' = [plan EXCEPT ![h] = P] /\ pc' = pc /\ want' = want
        /\ undecided' = undecided /\ Depth(h) = 0
    BY DEF Begin, vars
  <1>2. \A g \in Handler \ {h} : plan'[g] = plan[g]
    BY <1>1 DEF HandlersInv
  <1>3. PICK s : InPlan(h, s) \/ Leaving(h, s)
    BY DEF HandlersInv, Serving
  <1>4. depth(s) = 0 /\ At(h, s, {"locking", "held", "releasing"})
    BY <1>1, <1>3, ServingStack, DepthIs
  <1>5. pc[<<h, 1>>] = "idle"
    BY <1>4 DEF At
  <1>6. /\ pc'[<<h, 1>>] = "idle"
        /\ Wanted(<<h, 2>>)' = Wanted(<<h, 2>>) /\ Wanted(<<h, 3>>)' = Wanted(<<h, 3>>)
    BY <1>1, <1>5 DEF Wanted
  <1>7. Chosen(h)' \subseteq Chosen(h) /\ HoldsOwn(h)' = {} /\ WillSave(h)'
    BY <1>6 DEF Chosen, HoldsOwn, WillSave
  <1>8. HasSaved(h)'
    BY <1>7 DEF HasSaved
  <1>9. \A g \in Handler \ {h} :
           /\ plan'[g] = plan[g]
           /\ \A d \in 1 .. 3 : pc'[<<g, d>>] = pc[<<g, d>>] /\ want'[<<g, d>>] = want[<<g, d>>]
    BY <1>1, <1>2
  <1> QED BY <1>1, <1>7, <1>8, <1>9, FewerJobs

LEMMA CallJobs ==
  ASSUME HandlerLocksAssumption, HandlersInv, JobsInv, NEW h \in Handler, Call(h)
  PROVE  JobsInv'
  <1> DEFINE R == Head(plan[h]).requests
  <1>1. AtStep(h, "acquire") /\ StepDone(h) /\ Acquire(<<h, Depth(h) + 1>>, R)
        /\ undecided' = undecided
    BY DEF Call
  <1>2. PICK s : /\ InPlan(h, s) /\ Stack(s) /\ Depth(h) = depth(s) /\ depth(s) \in 0 .. 3
                 /\ \A d \in 1 .. 3 : d <= depth(s) => pc[<<h, d>>] = "held"
    BY <1>1, AtPlace
  <1>3. plan[h] # <<>> /\ Head(plan[h]).step = "acquire"
    BY <1>1 DEF AtStep
  <1>4. Good(plan[h], s) /\ At(h, s, {"locking", "held"})
    BY <1>2 DEF InPlan
  <1>5. plan'[h] = Tail(plan[h]) /\ (\A g \in Handler \ {h} : plan'[g] = plan[g])
    BY <1>1, PlanStep
  <1>6. depth(s) \in 0 .. 2
    <2>1. PICK t : Follows(s, Head(plan[h]), t)
      BY <1>3, <1>4, GoodFollows
    <2> QED BY <2>1, <1>2, <1>3 DEF Follows
  <1>7. pc \in [Client -> {"idle", "locking", "held", "releasing"}]
           /\ want = [c \in Client |-> want[c]]
    BY DEF HandlersInv, LocksInv, KeyLockTypes
  <1> DEFINE n == depth(s) + 1
             c == <<h, n>>
  <1>8. n \in 1 .. 3
    BY <1>6
  <1>9. c \in Client /\ Acquire(c, R)
    BY <1>8, <1>1, <1>2, ClientOf
  <1>10. SavesFirst(Head(plan[h]), Tail(plan[h]), s)
    BY <1>3, <1>4, GoodLocal DEF Local
  <1>11. Saves(plan[h]) <=> Saves(plan'[h])
    BY <1>1, AfterStep
  <1>12. plan'[h] # <<>> => NoJob(Head(plan'[h]).requests)
    BY <1>1, AfterStep
  <1>13. R = Head(plan[h]).requests
    OBVIOUS
  <1> HIDE DEF R
  <1>14. /\ pc' = [pc EXCEPT ![c] = "locking"]
         /\ want' = [want EXCEPT ![c] = Strongest(R)]
    BY <1>9 DEF Acquire, Goto
  <1> HIDE DEF n
  <1>15. /\ pc'[<<h, n>>] = "locking" /\ want'[<<h, n>>] = Strongest(R)
         /\ \A d \in 1 .. 3 : d # n =>
               pc'[<<h, d>>] = pc[<<h, d>>] /\ want'[<<h, d>>] = want[<<h, d>>]
    BY <1>7, <1>9, <1>14, ClientOf
  <1>16. \A g \in Handler \ {h} :
           /\ plan'[g] = plan[g]
           /\ \A d \in 1 .. 3 : pc'[<<g, d>>] = pc[<<g, d>>] /\ want'[<<g, d>>] = want[<<g, d>>]
    BY <1>5, <1>7, <1>9, <1>14, ClientOf
  <1>17. Wanted(<<h, n>>)' = Keys(R)
    BY <1>15, Normalized DEF Wanted
  <1>18. \A d \in 1 .. 3 : d # n => Wanted(<<h, d>>)' = Wanted(<<h, d>>)
    BY <1>15 DEF Wanted
  <1>19. Jobs \cap (IF plan'[h] # <<>> /\ pc'[<<h, 1>>] \in {"locking", "held"}
                    THEN Keys(Head(plan'[h]).requests) ELSE {}) = {}
    BY <1>12 DEF NoJob
  <1>20. CASE n = 1
    <2>1. depth(s) = 0
      BY <1>6, <1>20 DEF n
    <2>2. s[1] = {}
      BY <1>2, <2>1, Depths
    <2>3. pc'[<<h, 1>>] = "locking" /\ Wanted(<<h, 1>>)' = Keys(R)
      BY <1>15, <1>17, <1>20
    <2>4. Wanted(<<h, 2>>)' = Wanted(<<h, 2>>) /\ Wanted(<<h, 3>>)' = Wanted(<<h, 3>>)
      BY <1>18, <1>20
    <2>5. Chosen(h)' \subseteq Chosen(h)
      BY <1>19, <2>4 DEF Chosen
    <2>6. HoldsOwn(h)' = {}
      BY <2>3 DEF HoldsOwn
    <2>7. WillSave(h)'
      <3>1. NoJob(R) \/ Saves(Tail(plan[h]))
        BY <1>3, <1>10, <1>13, <2>2 DEF SavesFirst
      <3> QED BY <3>1, <1>5, <2>3 DEF WillSave, Own, NoJob
    <2>8. HasSaved(h)'
      BY <2>6 DEF HasSaved
    <2> QED BY <1>1, <1>16, <2>5, <2>6, <2>7, <2>8, FewerJobs
  <1>21. CASE n # 1
    <2>1. depth(s) \in 1 .. 2 /\ n \in 2 .. 3
      BY <1>6, <1>21 DEF n
    <2>2. pc[<<h, 1>>] = "held" /\ pc'[<<h, 1>>] = "held"
          /\ Wanted(<<h, 1>>)' = Wanted(<<h, 1>>)
      BY <1>2, <1>15, <1>18, <1>21, <2>1
    <2>3. Keys(R) \cap Jobs \subseteq Chosen(h)
      BY <1>3, <1>13, <2>2 DEF Chosen
    <2>4. /\ Jobs \cap Wanted(<<h, 2>>)' \subseteq Chosen(h)
          /\ Jobs \cap Wanted(<<h, 3>>)' \subseteq Chosen(h)
      <3>1. ASSUME NEW d \in 2 .. 3 PROVE Jobs \cap Wanted(<<h, d>>)' \subseteq Chosen(h)
        <4>1. CASE d = n
          BY <1>17, <2>3, <4>1
        <4>2. CASE d # n
          <5>1. Wanted(<<h, d>>)' = Wanted(<<h, d>>) /\ d \in {2, 3}
            BY <1>18, <4>2
          <5> QED BY <5>1 DEF Chosen
        <4> QED BY <4>1, <4>2
      <3> QED BY <3>1
    <2>5. Chosen(h)' \subseteq Chosen(h)
      BY <1>19, <2>4 DEF Chosen
    <2>6. HoldsOwn(h)' = HoldsOwn(h) /\ WillSave(h)'
      BY <2>2 DEF HoldsOwn, Own, WillSave
    <2>7. HasSaved(h)'
      BY <1>1, <1>11, <2>6 DEF HasSaved, JobsInv
    <2> QED BY <1>1, <1>16, <2>5, <2>6, <2>7, FewerJobs
  <1> QED BY <1>20, <1>21

LEMMA CallReleaseJobs ==
  ASSUME HandlerLocksAssumption, HandlersInv, JobsInv, NEW h \in Handler, CallRelease(h)
  PROVE  JobsInv'
  <1>1. AtStep(h, "release") /\ StepDone(h) /\ Release(<<h, Depth(h)>>)
        /\ undecided' = undecided
    BY DEF CallRelease
  <1>2. PICK s : InPlan(h, s) /\ Depth(h) = depth(s) /\ depth(s) \in 0 .. 3
    BY <1>1, AtPlace
  <1>3. plan[h] # <<>> /\ Head(plan[h]).step = "release" /\ Good(plan[h], s)
    BY <1>1, <1>2 DEF AtStep, InPlan
  <1>4. depth(s) \in 1 .. 3
    <2>1. PICK t : Follows(s, Head(plan[h]), t)
      BY <1>3, GoodFollows
    <2> QED BY <2>1, <1>2, <1>3 DEF Follows
  <1>5. pc \in [Client -> {"idle", "locking", "held", "releasing"}]
    BY DEF HandlersInv, LocksInv, KeyLockTypes
  <1> DEFINE c == <<h, depth(s)>>
  <1>6. /\ c \in Client /\ pc' = [pc EXCEPT ![c] = "releasing"] /\ want' = want
        /\ pc[c] = "held"
    BY <1>1, <1>2, <1>4, ClientOf DEF Release, Goto
  <1>7. \A g \in Handler \ {h} : plan'[g] = plan[g]
    BY <1>1, PlanStep
  <1>8. \A g \in Handler \ {h} :
           /\ plan'[g] = plan[g]
           /\ \A d \in 1 .. 3 : pc'[<<g, d>>] = pc[<<g, d>>] /\ want'[<<g, d>>] = want[<<g, d>>]
    BY <1>5, <1>6, <1>7, ClientOf
  <1>9. pc'[<<h, 1>>] = pc[<<h, 1>>] \/ (pc'[<<h, 1>>] = "releasing" /\ pc[<<h, 1>>] = "held")
    <2>1. 1 \in 1 .. 3
      OBVIOUS
    <2>2. <<h, 1>> \in Client
      BY <2>1, ClientOf
    <2> QED BY <1>5, <1>6, <2>2
  <1>10. \A d \in 1 .. 3 : Wanted(<<h, d>>)' = Wanted(<<h, d>>)
    BY <1>6 DEF Wanted
  <1>11. Chosen(h)' \subseteq Chosen(h)
    BY <1>1, <1>10, FewerChosen
  <1>12. HoldsOwn(h)' \subseteq HoldsOwn(h)
    BY <1>9, <1>10 DEF HoldsOwn, Own
  <1>13. Saves(plan[h]) <=> Saves(plan'[h])
    BY <1>1, AfterStep
  <1>14. WillSave(h)'
    BY <1>9, <1>10, <1>13 DEF WillSave, Own, JobsInv
  <1>15. HasSaved(h)'
    BY <1>1, <1>12, <1>13 DEF HasSaved, JobsInv
  <1> QED BY <1>1, <1>8, <1>11, <1>12, <1>14, <1>15, FewerJobs

\* Steps that take and leave no lock, and make no job undecided.
LEMMA StepJobs ==
  ASSUME HandlersInv, JobsInv, NEW h \in Handler, NEW name, AtStep(h, name), StepDone(h),
         UNCHANGED vars, undecided' \subseteq undecided,
         name = "save" => undecided' \cap Own(h) = {}
  PROVE  JobsInv'
  <1>1. pc' = pc /\ want' = want
    BY DEF vars
  <1>2. \A g \in Handler \ {h} :
           /\ plan'[g] = plan[g]
           /\ \A d \in 1 .. 3 : pc'[<<g, d>>] = pc[<<g, d>>] /\ want'[<<g, d>>] = want[<<g, d>>]
    BY <1>1, PlanStep
  <1>3. \A d \in 1 .. 3 : Wanted(<<h, d>>)' = Wanted(<<h, d>>)
    BY <1>1 DEF Wanted
  <1>4. Chosen(h)' \subseteq Chosen(h)
    BY <1>3, FewerChosen
  <1>5. Own(h)' = Own(h) /\ HoldsOwn(h)' = HoldsOwn(h) /\ HoldsOwn(h) \subseteq Own(h)
    BY <1>1, <1>3 DEF HoldsOwn, Own
  <1>6. pc[<<h, 1>>] \in {"idle", "held"}
    BY DEF AtStep, Steady, MaxDepth
  <1>7. WillSave(h)'
    BY <1>1, <1>6 DEF WillSave
  <1>8. HasSaved(h)'
    <2>1. Saves(plan[h]) <=> name = "save" \/ Saves(plan'[h])
      BY AfterStep
    <2> QED BY <1>5, <2>1 DEF HasSaved, JobsInv
  <1> QED BY <1>2, <1>4, <1>5, <1>7, <1>8, FewerJobs

\* Who has a repository alone shares no lock of a job of it.
LEMMA NoOwnJobs ==
  ASSUME HandlerLocksAssumption, HandlersInv, NEW h \in Handler, AtStep(h, "create"),
         NEW g \in Handler
  PROVE  HoldsOwn(g) = {}
  <1>1. PICK s : /\ InPlan(h, s) /\ Stack(s) /\ Sound(s) /\ depth(s) \in 0 .. 3
                 /\ \A d \in 1 .. 3 : d <= depth(s) => pc[<<h, d>>] = "held"
    BY AtPlace
  <1>2. Repository \in Alone(s[1])
    <2>1. plan[h] # <<>> /\ Head(plan[h]).step = "create" /\ Local(plan[h], s)
      BY <1>1, GoodLocal DEF AtStep, InPlan
    <2> QED BY <2>1 DEF Local, Fits
  <1>3. pc[<<h, 1>>] = "held"
    <2>1. s[1] # {}
      BY <1>2, NoKeys DEF Alone
    <2>2. 1 \in 1 .. 3 /\ 1 <= depth(s)
      BY <1>1, <2>1, Depths
    <2> QED BY <1>1, <2>2
  <1>4. PICK t : InPlan(g, t) \/ Leaving(g, t)
    BY DEF HandlersInv, Serving
  <1>5. Sound(t) /\ 1 \in 1 .. 3
    BY <1>4, ServingStack
  <1>6. SUFFICES ASSUME NEW k \in HoldsOwn(g) PROVE FALSE
    OBVIOUS
  <1>7. pc[<<g, 1>>] = "held" /\ k \in Jobs /\ k \in Keys(t[1])
    BY <1>4, <1>5, <1>6, WantedIs DEF HoldsOwn, Own
  <1>8. Repository \in Keys(t[1]) \ Alone(t[1])
    BY <1>5, <1>7 DEF Sound, JobsAlone
  <1>9. CASE g = h
    <2>1. Keys(s[1]) = Wanted(<<h, 1>>) /\ Keys(t[1]) = Wanted(<<h, 1>>)
      BY <1>1, <1>4, <1>5, <1>9, WantedIs
    <2>2. want[<<h, 1>>][Repository] = "exclusive" <=> Repository \in Alone(s[1])
      BY <1>1, <1>5, <1>8, <2>1, WantedIs
    <2>3. want[<<h, 1>>][Repository] = "exclusive" <=> Repository \in Alone(t[1])
      BY <1>4, <1>5, <1>8, <1>9, WantedIs
    <2> QED BY <1>2, <1>8, <2>2, <2>3
  <1>10. CASE g # h
    BY <1>1, <1>2, <1>3, <1>4, <1>5, <1>7, <1>8, <1>10, NotTogether
  <1> QED BY <1>9, <1>10

LEMMA CreateJobs ==
  ASSUME HandlerLocksAssumption, HandlersInv, JobsInv, NEW h \in Handler, Create(h)
  PROVE  JobsInv'
  <1>1. AtStep(h, "create") /\ StepDone(h) /\ pc' = pc /\ want' = want
    BY DEF Create, vars
  <1>2. ASSUME NEW g \in Handler
        PROVE  /\ HoldsOwn(g)' = {} /\ HasSaved(g)'
               /\ Chosen(g)' \subseteq Chosen(g) /\ WillSave(g)'
    <2>1. \A d \in 1 .. 3 : Wanted(<<g, d>>)' = Wanted(<<g, d>>)
      BY <1>1 DEF Wanted
    <2>2. HoldsOwn(g)' = {}
      <3>1. HoldsOwn(g) = {}
        BY <1>1, NoOwnJobs
      <3> QED BY <1>1, <2>1, <3>1 DEF HoldsOwn, Own
    <2>3. HasSaved(g)'
      BY <2>2 DEF HasSaved
    <2>4. CASE g = h
      <3>1. Chosen(h)' \subseteq Chosen(h)
        BY <1>1, <2>1, <2>4, FewerChosen
      <3>2. pc[<<h, 1>>] \in {"idle", "held"}
        BY <1>1 DEF AtStep, Steady, MaxDepth
      <3>3. WillSave(h)'
        BY <1>1, <3>2 DEF WillSave
      <3> QED BY <2>2, <2>3, <2>4, <3>1, <3>3
    <2>5. CASE g # h
      <3>1. plan'[g] = plan[g]
        BY <1>1, <2>5, PlanStep
      <3>2. Chosen(g)' = Chosen(g) /\ (WillSave(g)' <=> WillSave(g))
        BY <1>1, <3>1, SameJobs
      <3> QED BY <2>2, <2>3, <3>2 DEF JobsInv
    <2> QED BY <2>4, <2>5
  <1>3. \A x, y \in Handler : Edge(x, y)' => Edge(x, y)
    BY <1>2 DEF Edge
  <1>4. NoCircle'
    BY <1>3, NoNewCircle DEF JobsInv
  <1> QED BY <1>2, <1>4 DEF JobsInv

\* The plan of a handler that has chosen a job.
LEMMA ChosenHead ==
  ASSUME NEW S, NEW p \in Seq(S), NEW job
  PROVE  /\ reconcileJob(job) \o p # <<>>
         /\ Head(reconcileJob(job) \o p) = acquire(Exclusive({job}))
         /\ Saves(reconcileJob(job) \o p) <=> Saves(p)
  <1> DEFINE a == acquire(Exclusive({job}))
             p1 == <<release>> \o p
             p2 == <<update>> \o p1
             p3 == <<a>> \o p2
  <1>1. p1 \in Seq(S \cup {release}) /\ (Saves(p1) <=> Saves(p))
    BY Before, StepFields
  <1> DEFINE S1 == S \cup {release}
             S2 == S1 \cup {update}
  <1>2. p1 \in Seq(S1)
    BY <1>1
  <1> HIDE DEF p1, S1
  <1>3. p2 \in Seq(S2) /\ (Saves(p2) <=> Saves(p1))
    BY <1>2, Before, StepFields
  <1> HIDE DEF p2, S2
  <1>4. a.step = "acquire"
    BY StepFields
  <1> HIDE DEF a
  <1>5. p3 # <<>> /\ Head(p3) = a /\ (Saves(p3) <=> Saves(p2))
    BY <1>3, <1>4, Before
  <1>6. reconcileJob(job) \o p = p3
    <2> DEFINE U == S \cup {release, update, a}
    <2>1. p \in Seq(U)
      BY SeqMonotonic
    <2>2. <<release>> \in Seq(U) /\ <<update>> \in Seq(U) /\ <<a>> \in Seq(U)
          /\ <<update, release>> \in Seq(U)
      OBVIOUS
    <2>3. <<a>> \o <<update, release>> = <<a, update, release>>
          /\ <<update>> \o <<release>> = <<update, release>>
      BY Join1, Join2
    <2>4. reconcileJob(job) = <<a, update, release>>
      BY DEF reconcileJob, a
    <2> HIDE DEF U
    <2>5. <<a>> \o <<update, release>> \o p = <<a>> \o (<<update, release>> \o p)
      BY <2>1, <2>2, ConcatAssociative
    <2>6. <<update>> \o <<release>> \o p = <<update>> \o (<<release>> \o p)
      BY <2>1, <2>2, ConcatAssociative
    <2> QED BY <2>3, <2>4, <2>5, <2>6 DEF p1, p2
  <1> HIDE DEF p3
  <1> QED BY <1>1, <1>3, <1>5, <1>6 DEF a

LEMMA ReconcileJobs ==
  ASSUME HandlerLocksAssumption, HandlersInv, JobsInv, NEW h \in Handler, NEW job \in Jobs,
         Reconcile(h, job)
  PROVE  JobsInv'
  <1>1. AtStep(h, "reconcile") /\ pc' = pc /\ want' = want /\ job \in undecided
    BY DEF Reconcile, vars
  <1>2. \A g \in Handler : /\ Wanted(<<g, 1>>)' = Wanted(<<g, 1>>)
                           /\ Wanted(<<g, 2>>)' = Wanted(<<g, 2>>)
                           /\ Wanted(<<g, 3>>)' = Wanted(<<g, 3>>)
    BY <1>1 DEF Wanted
  <1>3. \A g \in Handler : HoldsOwn(g)' = HoldsOwn(g) /\ Own(g)' = Own(g)
    BY <1>1, <1>2 DEF HoldsOwn, Own
  <1>4. CASE job \in Wanted(<<h, 1>>)
    <2>1. plan' = plan /\ undecided' \subseteq undecided
      BY <1>4 DEF Reconcile
    <2>2. \A g \in Handler : Chosen(g)' = Chosen(g) /\ (WillSave(g)' <=> WillSave(g))
      BY <1>1, <2>1, SameJobs
    <2>3. \A g \in Handler : HasSaved(g)'
      BY <1>3, <2>1 DEF HasSaved, JobsInv
    <2>4. \A x, y \in Handler : Edge(x, y)' => Edge(x, y)
      BY <1>3, <2>2 DEF Edge
    <2>5. NoCircle'
      BY <2>4, NoNewCircle DEF JobsInv
    <2> QED BY <2>2, <2>3, <2>5 DEF JobsInv
  <1>5. CASE job \notin Wanted(<<h, 1>>)
    <2> DEFINE q == reconcileJob(job) \o plan[h]
    <2>1. plan' = [plan EXCEPT ![h] = q] /\ undecided' = undecided
      BY <1>5 DEF Reconcile
    <2>2. PICK s : InPlan(h, s)
      BY <1>1, AtPlace
    <2>3. PICK S : plan[h] \in Seq(S)
      BY <2>2, GoodLocal DEF InPlan, Local
    <2>4. /\ q # <<>> /\ Head(q) = acquire(Exclusive({job}))
          /\ Saves(q) <=> Saves(plan[h])
      BY <2>3, ChosenHead
    <2> HIDE DEF q
    <2>5. plan'[h] = q /\ \A g \in Handler \ {h} : plan'[g] = plan[g]
      BY <2>1 DEF HandlersInv
    <2>6. \A g \in Handler \ {h} : Chosen(g)' = Chosen(g) /\ (WillSave(g)' <=> WillSave(g))
      BY <1>1, <2>5, SameJobs
    <2>7. \A g \in Handler : Saves(plan'[g]) <=> Saves(plan[g])
      BY <2>4, <2>5
    <2>8. ASSUME NEW g \in Handler PROVE WillSave(g)' /\ HasSaved(g)'
      <3>1. Saves(plan'[g]) <=> Saves(plan[g])
        BY <2>7
      <3>2. WillSave(g)'
        BY <1>1, <1>3, <3>1 DEF WillSave, JobsInv
      <3>3. HasSaved(g)'
        BY <1>3, <2>1, <3>1 DEF HasSaved, JobsInv
      <3> QED BY <3>2, <3>3
    <2>9. Keys(Exclusive({job})) = {job}
      BY DependentKeys
    <2>10. Chosen(h)' \subseteq Chosen(h) \cup {job}
      <3>1. Keys(Head(plan'[h]).requests) = {job}
        BY <2>4, <2>5, <2>9, StepFields
      <3>2. /\ Wanted(<<h, 2>>)' = Wanted(<<h, 2>>)
            /\ Wanted(<<h, 3>>)' = Wanted(<<h, 3>>)
        BY <1>2
      <3> QED BY <3>1, <3>2 DEF Chosen
    <2>11. ASSUME NEW x \in Handler, NEW y \in Handler, Edge(x, y)', ~ Edge(x, y)
           PROVE  Chosen(y)' = {}
      <3>1. HoldsOwn(y)' = HoldsOwn(y)
        BY <1>3
      <3>2. x = h
        BY <2>6, <2>11, <3>1 DEF Edge
      <3>3. job \in HoldsOwn(y)
        BY <2>10, <2>11, <3>1, <3>2 DEF Edge
      <3>4. job \in Own(y)
        BY <3>3 DEF HoldsOwn
      <3>5. Saves(plan[y])
        BY <1>1, <3>3 DEF JobsInv, HasSaved
      <3>6. Chosen(y) = {}
        BY <3>4, <3>5, ChosenSaved
      <3>7. y # h
        BY <1>5, <3>4 DEF Own
      <3> QED BY <2>6, <3>6, <3>7
    <2>12. NoCircle'
      BY <2>11, NoNewCircle DEF JobsInv
    <2> QED BY <2>8, <2>12 DEF JobsInv
  <1> QED BY <1>4, <1>5

LEMMA ReturnJobs ==
  ASSUME HandlerLocksAssumption, HandlersInv, JobsInv, NEW h \in Handler, NEW d \in 1 .. 3,
         Return(<<h, d>>), plan' = plan, undecided' = undecided
  PROVE  JobsInv'
  <1>1. /\ <<h, d>> \in Client /\ pc[<<h, d>>] = "locking" /\ want' = want
        /\ pc' = [pc EXCEPT ![<<h, d>>] = "held"]
    BY ClientOf DEF Return, Goto
  <1>2. pc \in [Client -> {"idle", "locking", "held", "releasing"}]
    BY DEF HandlersInv, LocksInv, KeyLockTypes
  <1>3. ASSUME NEW g \in Handler, g # h
        PROVE  \A e \in 1 .. 3 : pc'[<<g, e>>] = pc[<<g, e>>] /\ want'[<<g, e>>] = want[<<g, e>>]
    BY <1>1, <1>2, <1>3, ClientOf
  <1>4. pc'[<<h, d>>] = "held" /\ \A e \in 1 .. 3 : e # d => pc'[<<h, e>>] = pc[<<h, e>>]
    BY <1>1, <1>2, ClientOf
  <1>5. \A g \in Handler \ {h} : Chosen(g)' = Chosen(g) /\ HoldsOwn(g)' = HoldsOwn(g)
                                 /\ (WillSave(g)' <=> WillSave(g))
    BY <1>3, SameJobs
  <1>6. /\ Wanted(<<h, 1>>)' = Wanted(<<h, 1>>) /\ Wanted(<<h, 2>>)' = Wanted(<<h, 2>>)
        /\ Wanted(<<h, 3>>)' = Wanted(<<h, 3>>)
    BY <1>1 DEF Wanted
  <1>7. \/ pc'[<<h, 1>>] = pc[<<h, 1>>]
        \/ pc'[<<h, 1>>] = "held" /\ pc[<<h, 1>>] = "locking"
    <2>1. CASE d = 1
      BY <1>1, <1>4, <2>1
    <2>2. CASE d # 1
      BY <1>4, <2>2
    <2> QED BY <2>1, <2>2
  <1>8. Chosen(h)' = Chosen(h) /\ Own(h)' = Own(h)
    BY <1>6, <1>7 DEF Chosen, Own
  <1>9. HoldsOwn(h)' = HoldsOwn(h) \/ (HoldsOwn(h)' # {} => Saves(plan[h]))
    BY <1>7, <1>8 DEF HoldsOwn, WillSave, JobsInv
  <1>10. WillSave(h)' /\ HasSaved(h)'
    <2>1. WillSave(h)'
      BY <1>7, <1>8 DEF WillSave, JobsInv
    <2>2. HasSaved(h)'
      BY <1>9 DEF HasSaved, JobsInv
    <2> QED BY <2>1, <2>2
  <1>11. \A g \in Handler : WillSave(g)' /\ HasSaved(g)'
    BY <1>5, <1>10 DEF HasSaved, JobsInv
  <1>12. ASSUME NEW x \in Handler, NEW y \in Handler, Edge(x, y)', ~ Edge(x, y)
         PROVE  Chosen(y)' = {}
    <2>1. Chosen(x)' = Chosen(x)
      BY <1>5, <1>8
    <2>2. y = h /\ HoldsOwn(h)' # HoldsOwn(h) /\ HoldsOwn(h)' # {}
      BY <1>5, <1>12, <2>1 DEF Edge
    <2>3. Saves(plan[h]) /\ Own(h) # {}
      BY <1>8, <1>9, <2>2 DEF HoldsOwn
    <2>4. Chosen(h) = {}
      BY <2>3, ChosenSaved
    <2> QED BY <1>8, <2>2, <2>4
  <1>13. NoCircle'
    BY <1>12, NoNewCircle DEF JobsInv
  <1> QED BY <1>11, <1>13 DEF JobsInv

LEMMA DoneJobs ==
  ASSUME HandlerLocksAssumption, HandlersInv, JobsInv, NEW h \in Handler, NEW d \in 1 .. 3,
         Done(<<h, d>>), plan' = plan, undecided' = undecided
  PROVE  JobsInv'
  <1>1. /\ <<h, d>> \in Client /\ pc[<<h, d>>] = "releasing"
        /\ pc' = [pc EXCEPT ![<<h, d>>] = "idle"]
        /\ want' = [want EXCEPT ![<<h, d>>] = NoWants]
    BY ClientOf DEF Done, Goto
  <1>2. pc \in [Client -> {"idle", "locking", "held", "releasing"}]
          /\ want = [b \in Client |-> want[b]]
    BY DEF HandlersInv, LocksInv, KeyLockTypes
  <1>3. \A g \in Handler \ {h} :
           /\ plan'[g] = plan[g]
           /\ \A e \in 1 .. 3 : pc'[<<g, e>>] = pc[<<g, e>>] /\ want'[<<g, e>>] = want[<<g, e>>]
    BY <1>1, <1>2, ClientOf
  <1>4. /\ pc'[<<h, d>>] = "idle" /\ want'[<<h, d>>] = NoWants
        /\ \A e \in 1 .. 3 : e # d =>
              pc'[<<h, e>>] = pc[<<h, e>>] /\ want'[<<h, e>>] = want[<<h, e>>]
    BY <1>1, <1>2, ClientOf
  <1>5. \A e \in 1 .. 3 : Wanted(<<h, e>>)' \subseteq Wanted(<<h, e>>)
    <2>1. Wanted(<<h, d>>)' = {}
      BY <1>4, NothingWanted DEF Wanted
    <2>2. \A e \in 1 .. 3 : e # d => Wanted(<<h, e>>)' = Wanted(<<h, e>>)
      BY <1>4 DEF Wanted
    <2> QED BY <2>1, <2>2
  <1>6. /\ Wanted(<<h, 1>>)' \subseteq Wanted(<<h, 1>>)
        /\ Wanted(<<h, 2>>)' \subseteq Wanted(<<h, 2>>)
        /\ Wanted(<<h, 3>>)' \subseteq Wanted(<<h, 3>>)
    <2>1. 1 \in 1 .. 3 /\ 2 \in 1 .. 3 /\ 3 \in 1 .. 3
      OBVIOUS
    <2> QED BY <1>5, <2>1
  <1>7. pc'[<<h, 1>>] = pc[<<h, 1>>] \/ pc'[<<h, 1>>] = "idle"
    <2>1. CASE d = 1
      BY <1>4, <2>1
    <2>2. CASE d # 1
      BY <1>4, <2>2
    <2> QED BY <2>1, <2>2
  <1>8. Chosen(h)' \subseteq Chosen(h)
    BY <1>6, <1>7 DEF Chosen
  <1>9. Own(h)' \subseteq Own(h)
    BY <1>6 DEF Own
  <1>10. HoldsOwn(h)' \subseteq HoldsOwn(h)
    BY <1>7, <1>9 DEF HoldsOwn
  <1>11. WillSave(h)'
    BY <1>7, <1>9 DEF WillSave, JobsInv
  <1>12. HasSaved(h)'
    BY <1>10 DEF HasSaved, JobsInv
  <1> QED BY <1>3, <1>8, <1>10, <1>11, <1>12, FewerJobs

\* Steps that leave the calls and the plans alone.
LEMMA NothingMoves ==
  ASSUME JobsInv, pc' = pc, want' = want, plan' = plan, undecided' = undecided
  PROVE  JobsInv'
  <1>1. \A g \in Handler : /\ Chosen(g)' = Chosen(g) /\ HoldsOwn(g)' = HoldsOwn(g)
                           /\ WillSave(g)' <=> WillSave(g)
    BY SameJobs
  <1>2. \A g \in Handler : WillSave(g)' /\ HasSaved(g)'
    BY <1>1 DEF JobsInv, HasSaved
  <1>3. \A x, y \in Handler : Edge(x, y)' => Edge(x, y)
    BY <1>1 DEF Edge
  <1>4. NoCircle'
    BY <1>3, NoNewCircle DEF JobsInv
  <1> QED BY <1>2, <1>4 DEF JobsInv

LEMMA InitJobs ==
  ASSUME HandlerLocksAssumption
  PROVE  HInit => JobsInv
  <1> SUFFICES ASSUME HInit PROVE JobsInv
    OBVIOUS
  <1>1. pc = [c \in Client |-> "idle"]
    BY DEF HInit, Init
  <1>2. \A h \in Handler : pc[<<h, 1>>] = "idle"
    <2>1. 1 \in 1 .. 3
      OBVIOUS
    <2> QED BY <1>1, <2>1, ClientOf
  <1>3. \A h \in Handler : HoldsOwn(h) = {}
    BY <1>2 DEF HoldsOwn
  <1> QED BY <1>2, <1>3 DEF JobsInv, WillSave, HasSaved, NoCircle, Edge

LEMMA JobsStep ==
  ASSUME HandlerLocksAssumption, HandlersInv, JobsInv, [HNext]_(hvars)
  PROVE  JobsInv'
  <1>1. CASE UNCHANGED hvars
    BY <1>1, NothingMoves DEF hvars
  <1>2. ASSUME NEW h \in Handler, NEW P \in Plans, Begin(h, P) PROVE JobsInv'
    BY <1>2, BeginJobs
  <1>3. ASSUME NEW h \in Handler, Lock(h) PROVE JobsInv'
    BY <1>3, NothingMoves DEF Lock, LockNext
  <1>4. ASSUME NEW h \in Handler, Unlock(h) PROVE JobsInv'
    BY <1>4, NothingMoves DEF Unlock, UnlockNext
  <1>5. ASSUME NEW h \in Handler, Continue(h) PROVE JobsInv'
    <2>1. PICK d \in 1 .. 3 : Return(<<h, d>>) \/ Done(<<h, d>>)
      BY <1>5 DEF Continue, MaxDepth
    <2>2. plan' = plan /\ undecided' = undecided
      BY <1>5 DEF Continue
    <2> QED BY <2>1, <2>2, ReturnJobs, DoneJobs
  <1>6. ASSUME NEW h \in Handler, Call(h) \/ CallRelease(h) \/ Create(h) PROVE JobsInv'
    BY <1>6, CallJobs, CallReleaseJobs, CreateJobs
  <1>7. ASSUME NEW h \in Handler, Save(h) PROVE JobsInv'
    <2>1. /\ AtStep(h, "save") /\ StepDone(h) /\ UNCHANGED vars
          /\ undecided' = undecided \ Wanted(<<h, 1>>)
      BY <1>7 DEF Save
    <2>2. undecided' \subseteq undecided /\ undecided' \cap Own(h) = {}
      BY <2>1 DEF Own
    <2> QED BY <2>1, <2>2, StepJobs
  <1>8. ASSUME NEW h \in Handler, Update(h) PROVE JobsInv'
    <2>1. /\ AtStep(h, "update") /\ StepDone(h) /\ UNCHANGED vars
          /\ undecided' \subseteq undecided
      BY <1>8 DEF Update
    <2> QED BY <2>1, StepJobs
  <1>9. ASSUME NEW h \in Handler, NothingToReconcile(h) PROVE JobsInv'
    <2>1. /\ AtStep(h, "reconcile") /\ StepDone(h) /\ UNCHANGED vars
          /\ undecided' \subseteq undecided
      BY <1>9 DEF NothingToReconcile
    <2> QED BY <2>1, StepJobs
  <1>10. ASSUME NEW h \in Handler, NEW job \in Jobs, Reconcile(h, job) PROVE JobsInv'
    BY <1>10, ReconcileJobs
  <1> QED BY <1>1, <1>2, <1>3, <1>4, <1>5, <1>6, <1>7, <1>8, <1>9, <1>10
          DEF HNext, Proceed

\* A handler that holds its own job saves it before it chooses other jobs, so the
\* jobs that handlers have chosen lead from each of them to one that has chosen none
\* (Start, Cancel and Complete, and reconcileDependenciesWithLockedJob).
LEMMA JobsInvariance ==
  ASSUME HandlerLocksAssumption
  PROVE  HSpec => [](HandlersInv /\ JobsInv)
  BY InitiallyServed, HandlersStep, InitJobs, JobsStep, PTL DEF HSpec

-----------------------------------------------------------------------------
(* No deadlock: whoever waits for a handler waits at a lower level, or for its own *)
(* job while that handler is after another job.                                     *)

\* h waits in its call d, at the key k.
Waits(h, d, k) ==
    /\ pc[<<h, d>>] = "locking" /\ k \in Wanted(<<h, d>>)
    /\ \A m \in Wanted(<<h, d>>) : m < k => Inside(lock[m], <<h, d>>, want[<<h,
       d>>][m])

\* A writer waits once for the writer before it and once for the readers.
Level(c, k) ==
    2 * Rank(k) + IF Requested(lock[k], c) /\ want[c][k] = "exclusive" THEN 1 ELSE 0

LEMMA RankType ==
  ASSUME NEW k \in HandlerKeys
  PROVE  Rank(k) \in 0 .. 60 /\ k \in Nat
  BY KeyNumbers DEF Rank, HandlerKeys

\* Nobody blocks a call that is inside.
LEMMA BlockedOutside ==
  ASSUME LocksInv, NEW c \in Client, NEW k \in Key, BlockedBy(c, k) # {},
         k \in Wanted(c)
  PROVE  ~ Inside(lock[k], c, want[c][k])
  <1>1. want[c][k] \in Mode /\ lock[k].readers \cap lock[k].blocked = {}
    BY DEF LocksInv, KeyLockTypes, OwnersOK
  <1> QED BY <1>1 DEF BlockedBy, Inside, Requested, Mode

\* Who blocks a call has asked for the lock: as a reader of a lock that c is to
\* write, or as the writer, whom c has still to pass.
LEMMA BlockedByOwner ==
  ASSUME LocksInv, NEW c \in Client, NEW k \in Key, NEW b \in BlockedBy(c, k),
         k \in Wanted(c),
         NoClient \notin Client
  PROVE  /\ b \in Client /\ k \in Wanted(b) /\ Requested(lock[k], b)
         /\ b \in lock[k].readers \/ lock[k].writer = b
         /\ lock[k].writer = b /\ want[b][k] = "exclusive" =>
              ~ (Requested(lock[k], c) /\ want[c][k] = "exclusive")
  <1>1. lock[k] \in RWLock(Client) /\ want[c][k] \in Mode
    BY DEF LocksInv, KeyLockTypes
  <1>2. b \in lock[k].readers \/ lock[k].writer = b
    BY DEF BlockedBy
  <1>3. b # NoClient
    <2>1. ASSUME b = NoClient PROVE FALSE
      <3>1. c \in lock[k].blocked /\ lock[k].writer = NoClient
        BY <2>1, <1>1 DEF BlockedBy, RWLock
      <3> QED BY <3>1 DEF LocksInv, OwnersOK
    <2> QED BY <2>1
  <1>4. b \in Client
    BY <1>1, <1>2, <1>3 DEF RWLock
  <1>5. k \in Wanted(b) /\ Requested(lock[k], b)
    BY <1>2, <1>4 DEF LocksInv, OwnersOK, Requested
  <1>6. ASSUME want[b][k] = "exclusive", Requested(lock[k], c), want[c][k] = "exclusive"
        PROVE  FALSE
    <2>1. b \in lock[k].readers
      BY <1>6 DEF BlockedBy
    <2> QED BY <2>1, <1>6 DEF LocksInv, OwnersOK
  <1> QED BY <1>2, <1>4, <1>5, <1>6

LEMMA LevelsClimb ==
  ASSUME HandlerLocksAssumption, HandlersInv,
         NEW h \in Handler, NEW d \in 1 .. 3, NEW k, Waits(h, d, k),
         NEW g \in Handler, NEW e \in 1 .. 3, <<g, e>> \in BlockedBy(<<h, d>>, k),
         NEW f \in 1 .. 3, NEW l, Waits(g, f, l), BlockedBy(<<g, f>>, l) # {}
  PROVE  \/ Level(<<h, d>>, k) < Level(<<g, f>>, l)
         \/ /\ Level(<<h, d>>, k) <= Level(<<g, f>>, l)
            /\ k \in HoldsOwn(g) /\ f \in 2 .. 3 /\ l \in Jobs
  <1> DEFINE c == <<h, d>>
             b == <<g, e>>
             a == <<g, f>>
  <1>1. LocksInv /\ NoClient \notin Client /\ Key = HandlerKeys
    BY DEF HandlersInv, HandlerLocksAssumption
  <1>2. c \in Client /\ b \in Client /\ a \in Client
    BY ClientOf
  <1>3. k \in Key /\ l \in Key /\ k \in Wanted(c) /\ l \in Wanted(a)
          /\ pc[a] = "locking"
    BY <1>1, <1>2 DEF Waits, LocksInv, KeyLockTypes
  <1>4. Rank(k) \in 0 .. 60 /\ Rank(l) \in 0 .. 60 /\ k \in Nat /\ l \in Nat
    BY <1>1, <1>3, RankType
  <1>5. PICK s : InPlan(g, s) \/ Leaving(g, s)
    BY DEF HandlersInv, Serving
  <1>6. Stack(s) /\ Sound(s) /\ depth(s) \in 0 .. 3
          /\ At(g, s, {"locking", "held", "releasing"})
    BY <1>5, ServingStack, Depths
  <1>7. f = depth(s)
    BY <1>3, <1>6 DEF At
  <1>8. Wanted(a) = Keys(s[f]) /\ Wanted(b) = Keys(s[e])
    BY <1>5, WantedIs
  <1>9. /\ k \in Wanted(b) /\ Requested(lock[k], b)
        /\ b \in lock[k].readers \/ lock[k].writer = b
        /\ lock[k].writer = b /\ want[b][k] = "exclusive" =>
             ~ (Requested(lock[k], c) /\ want[c][k] = "exclusive")
    <2> HIDE DEF c, b
    <2>1. b \in BlockedBy(c, k)
      BY DEF c, b
    <2> QED BY <2>1, <1>1, <1>2, <1>3, BlockedByOwner
  <1>10. e <= f
    <2>1. s[e] # {}
      BY <1>8, <1>9, NoKeys
    <2>2. ~ (e > depth(s))
      BY <2>1, <1>6, Depths
    <2> QED BY <2>2, <1>6, <1>7
  <1>11. ~ Inside(lock[l], a, want[a][l])
    BY <1>1, <1>2, <1>3, BlockedOutside
  <1>12. ASSUME Rank(k) < Rank(l) PROVE Level(c, k) < Level(a, l)
    BY <1>12, <1>4 DEF Level
  <1>13. CASE e < f
    <2>1. Rank(k) < Rank(l) \/ (k \in Jobs /\ l \in Jobs)
      BY <1>3, <1>6, <1>8, <1>9, <1>13 DEF Sound, Climbs
    <2>2. CASE k \in Jobs /\ l \in Jobs
      <3>1. k \in Keys(s[e]) /\ l \in Keys(s[f]) /\ JobsAlone(s)
        BY <1>3, <1>6, <1>8, <1>9 DEF Sound
      <3>2. k \in Alone(s[e]) /\ (e = 2 => s[3] = {})
        BY <2>2, <3>1 DEF JobsAlone
      <3>3. e = 1 /\ f \in 2 .. 3
        <4>1. f = 3 => s[3] # {}
          BY <3>1, NoKeys
        <4> QED BY <1>13, <3>2, <4>1
      <3>4. pc[<<g, 1>>] = "held"
        BY <1>6, <1>7, <3>3 DEF At
      <3>5. k \in HoldsOwn(g)
        BY <1>9, <2>2, <3>3, <3>4 DEF HoldsOwn, Own
      <3>6. want[b][k] = "exclusive"
        <4>1. \A m \in Keys(s[e]) : want[<<g, e>>][m] = "exclusive" <=> m \in Alone(s[e])
          BY <1>5, WantedIs
        <4>2. want[<<g, e>>][k] = "exclusive"
          BY <3>1, <3>2, <4>1
        <4> QED BY <4>2
      <3>7. lock[k].writer = b
        <4>1. b \in lock[k].readers => want[b][k] = "shared"
          BY <1>1, <1>3 DEF LocksInv, OwnersOK
        <4> QED BY <1>9, <3>6, <4>1
      <3>8. ~ (Requested(lock[k], c) /\ want[c][k] = "exclusive")
        BY <1>9, <3>6, <3>7
      <3>9. Rank(k) = 42 /\ Rank(l) = 42
        BY <2>2, KeyNumbers DEF Rank
      <3>10. Level(c, k) = 84
        <4> HIDE DEF c
        <4> QED BY <3>8, <3>9 DEF Level
      <3>11. Level(a, l) \in {84, 85}
        <4> HIDE DEF a
        <4> QED BY <3>9 DEF Level
      <3> QED BY <2>2, <3>3, <3>5, <3>10, <3>11
    <2> QED BY <2>1, <2>2, <1>12
  <1>14. CASE e = f
    <2>1. b = a
      BY <1>14
    <2>2. k \in Wanted(a) /\ Requested(lock[k], a) /\ want[a][k] \in Mode
      BY <2>1, <1>1, <1>2, <1>9 DEF LocksInv, KeyLockTypes
    <2>3. ~ (l < k)
      <3>1. \A m, n \in Wanted(a) : Requested(lock[m], a)
              /\ n < m => Inside(lock[n], a, want[a][n])
        BY <1>1, <1>2, <1>3 DEF LocksInv, CallOK
      <3> QED BY <3>1, <2>2, <1>3, <1>11
    <2>4. CASE k < l
      <3>1. Rank(k) < Rank(l)
        BY <2>2, <2>4, <1>3, <1>6, <1>8 DEF Sound, Climbs
      <3> QED BY <3>1, <1>12
    <2>5. CASE k = l
      <3>1. want[a][k] = "exclusive" /\ lock[k].writer = a
        <4>1. a \notin lock[k].readers \/ want[a][k] = "exclusive"
          BY <2>2, <2>5, <1>11 DEF Inside, Mode
        <4>2. a \in lock[k].readers => want[a][k] = "shared"
          BY <1>1, <1>3 DEF LocksInv, OwnersOK
        <4>3. lock[k].writer = a
          BY <4>1, <4>2, <2>1, <1>9
        <4> QED BY <4>3, <1>1, <1>2, <1>3 DEF LocksInv, OwnersOK
      <3>2. Level(a, l) = 2 * Rank(k) + 1
        BY <3>1, <2>2, <2>5 DEF Level
      <3>3. Level(c, k) = 2 * Rank(k) + 0
        <4>1. ~ (Requested(lock[k], c) /\ want[c][k] = "exclusive")
          BY <3>1, <2>1, <1>9
        <4> HIDE DEF c
        <4> QED BY <4>1 DEF Level
      <3> QED BY <3>2, <3>3, <1>4
    <2> QED BY <2>3, <2>4, <2>5, <1>4
  <1> QED BY <1>10, <1>13, <1>14

\* A set of natural numbers has a smallest one.
LEMMA SmallestGap ==
  ASSUME NEW S \in SUBSET Nat, NEW x \in S
  PROVE  \E n \in S : \A m \in Nat : m < n => m \notin S
  <1>1. PICK n \in S : \A m \in S : ~ (<<m, n>> \in OpToRel(<, Nat))
    BY NatLessThanWellFounded, WFMin
  <1> QED BY <1>1 DEF OpToRel

\* Among handlers that all wait for one another, some wait at the highest level, and
\* those of them that are after a second job wait for each other's own jobs.
LEMMA NobodyWaitsInACircle ==
  ASSUME HandlerLocksAssumption, HandlersInv, JobsInv
  PROVE  NoDeadlock
  <1>1. SUFFICES ASSUME NEW D \in (SUBSET Handler) \ {{}},
                        \A h \in D : \E g \in D : WaitsFor(h, g)
                 PROVE  FALSE
    BY DEF NoDeadlock
  <1> DEFINE Stuck(h, d, k) == \E g \in D, e \in 1 .. 3 :
                                   Waits(h, d, k) /\ <<g, e>> \in BlockedBy(<<h, d>>, k)
             Gaps == {n \in Nat : \E h \in D, d \in 1 .. 3, k \in HandlerKeys :
                          Stuck(h, d, k) /\ n = 121 - Level(<<h, d>>, k)}
  <1>2. ASSUME NEW h \in D
        PROVE  \E d \in 1 .. 3, k \in HandlerKeys : Stuck(h, d, k)
    <2>1. PICK g \in D : WaitsFor(h, g)
      BY <1>1
    <2>2. PICK d \in 1 .. 3, e \in 1 .. 3 :
             /\ pc[<<h, d>>] = "locking"
             /\ \E k \in Wanted(<<h, d>>) :
                   /\ \A m \in Wanted(<<h, d>>) :
                         m < k => Inside(lock[m], <<h, d>>, want[<<h, d>>][m])
                   /\ <<g, e>> \in BlockedBy(<<h, d>>, k)
      BY <2>1 DEF WaitsFor, MaxDepth
    <2>3. PICK k \in Wanted(<<h, d>>) : Waits(h, d, k)
            /\ <<g, e>> \in BlockedBy(<<h, d>>, k)
      BY <2>2 DEF Waits
    <2>4. k \in HandlerKeys
      BY ClientOf DEF HandlersInv, LocksInv, KeyLockTypes, HandlerLocksAssumption
    <2> QED BY <2>3, <2>4
  <1>3. \A h \in D, d \in 1 .. 3, k \in HandlerKeys : Level(<<h, d>>, k) \in 0 .. 121
    BY RankType DEF Level
  <1>4. PICK n \in Gaps : \A m \in Nat : m < n => m \notin Gaps
    <2>1. PICK h \in D : TRUE
      BY <1>1
    <2>2. PICK d \in 1 .. 3, k \in HandlerKeys : Stuck(h, d, k)
      BY <1>2
    <2> DEFINE n == 121 - Level(<<h, d>>, k)
    <2>3. n \in Gaps
      <3>1. Level(<<h, d>>, k) \in 0 .. 121
        BY <1>3
      <3>2. n \in Nat
        BY <3>1
      <3> HIDE DEF Stuck
      <3> QED BY <2>2, <3>2
    <2>4. Gaps \in SUBSET Nat
      OBVIOUS
    <2> HIDE DEF Gaps, n
    <2> QED BY <2>3, <2>4, SmallestGap
  <1>5. PICK h1 \in D, d1 \in 1 .. 3, k1 \in HandlerKeys :
           Stuck(h1, d1, k1) /\ n = 121 - Level(<<h1, d1>>, k1)
    BY <1>4
  <1> DEFINE top == Level(<<h1, d1>>, k1)
             C == {g \in D : \E f \in 2 .. 3, l \in Jobs :
                      Stuck(g, f, l) /\ Level(<<g, f>>, l) = top}
  <1>6. ASSUME NEW h \in D, NEW d \in 1 .. 3, NEW k \in HandlerKeys, Stuck(h, d, k),
               Level(<<h, d>>, k) = top
        PROVE  \E g \in C : k \in HoldsOwn(g)
    <2>1. PICK g \in D, e \in 1 .. 3 : Waits(h, d, k)
            /\ <<g, e>> \in BlockedBy(<<h, d>>, k)
      BY <1>6
    <2>2. PICK f \in 1 .. 3, l \in HandlerKeys : Stuck(g, f, l)
      BY <1>2
    <2>3. \/ Level(<<h, d>>, k) < Level(<<g, f>>, l)
          \/ /\ Level(<<h, d>>, k) <= Level(<<g, f>>, l)
             /\ k \in HoldsOwn(g) /\ f \in 2 .. 3 /\ l \in Jobs
      <3>1. Waits(g, f, l) /\ BlockedBy(<<g, f>>, l) # {}
        BY <2>2
      <3> QED BY <2>1, <3>1, LevelsClimb
    <2>4. Level(<<g, f>>, l) \in 0 .. 121 /\ top \in 0 .. 121
      BY <1>3
    <2>5. ~ (top < Level(<<g, f>>, l))
      <3>1. ASSUME top < Level(<<g, f>>, l) PROVE FALSE
        <4>1. /\ 121 - Level(<<g, f>>, l) \in Nat
              /\ 121 - Level(<<g, f>>, l) < n
          BY <1>5, <2>4, <3>1
        <4>2. 121 - Level(<<g, f>>, l) \in Gaps
          <5> HIDE DEF Stuck
          <5> QED BY <2>2, <4>1
        <4> HIDE DEF Gaps
        <4> QED BY <1>4, <4>1, <4>2
      <3> QED BY <3>1
    <2> HIDE DEF Stuck, top
    <2>6. k \in HoldsOwn(g) /\ f \in 2 .. 3 /\ l \in Jobs /\ top <= Level(<<g, f>>, l)
      BY <1>6, <2>3, <2>5
    <2>7. Level(<<g, f>>, l) = top
      BY <2>4, <2>5, <2>6
    <2> QED BY <2>2, <2>6, <2>7
  <1>7. C # {}
    <2>1. \E g \in C : k1 \in HoldsOwn(g)
      <3> HIDE DEF Stuck, C
      <3> QED BY <1>5, <1>6
    <2> QED BY <2>1
  <1>8. ASSUME NEW h \in C PROVE \E g \in C : Edge(h, g)
    <2>1. PICK d \in 2 .. 3, k \in Jobs : Stuck(h, d, k) /\ Level(<<h, d>>, k) = top
      OBVIOUS
    <2>2. d \in 1 .. 3 /\ k \in HandlerKeys /\ h \in D
      BY DEF Jobs, HandlerKeys
    <2>3. PICK g \in C : k \in HoldsOwn(g)
      <3> HIDE DEF Stuck, C, top
      <3> QED BY <1>6, <2>1, <2>2
    <2>4. k \in Wanted(<<h, d>>)
      BY <2>1 DEF Waits
    <2>5. k \in Chosen(h)
      <3>1. d = 2 \/ d = 3
        OBVIOUS
      <3> HIDE DEF C
      <3> QED BY <2>4, <3>1 DEF Chosen
    <2> HIDE DEF C
    <2> QED BY <2>3, <2>5 DEF Edge
  <1>9. C \in (SUBSET Handler) \ {{}}
    BY <1>7
  <1> HIDE DEF C
  <1> QED BY <1>8, <1>9 DEF JobsInv, NoCircle

\* Handlers never wait for each other.  A merge takes its locks against the order of
\* the keys, and a handler of a job locks, one after another, the jobs that depend on
\* others, whatever their keys: those handlers would wait for each other's own jobs if
\* one of them looked for others before it has saved its own (mergeStoredRequest,
\* Coordinator.Start, Cancel and Complete, reconcileDependenciesWithLockedJob).
THEOREM HandlersDeadlockFree ==
  ASSUME HandlerLocksAssumption
  PROVE  HSpec => []NoDeadlock
  BY JobsInvariance, NobodyWaitsInACircle, PTL
====================================================================================
