-------------------------------- MODULE RWMutex --------------------------------
(***************************************************************************)
(* Go's sync.RWMutex, as internal/lockmgr uses it.  Lock announces the     *)
(* writer, which blocks every later RLock, and returns once the readers    *)
(* inside have left; Unlock lets in all the readers that were blocked.     *)
(***************************************************************************)
CONSTANT NoClient

Mode == {"shared", "exclusive"}

RWLock(Client) ==
    [readers : SUBSET Client, blocked : SUBSET Client, writer : Client \cup {NoClient}]

Unlocked == [readers |-> {}, blocked |-> {}, writer |-> NoClient]

\* c has called RLock or Lock and not yet RUnlock or Unlock.
Requested(l, c) == c \in l.readers \cup l.blocked \/ l.writer = c

\* The call has returned: c holds the lock.
Inside(l, c, mode) ==
    IF mode = "shared" THEN c \in l.readers ELSE l.writer = c /\ l.readers = {}

\* A second writer waits for the first; a reader is always registered at once.
MayRequest(l, mode) == mode = "exclusive" => l.writer = NoClient

AfterRequest(l, c, mode) ==
    IF mode = "exclusive" THEN [l EXCEPT !.writer = c]
    ELSE IF l.writer = NoClient THEN [l EXCEPT !.readers = @ \cup {c}]
    ELSE [l EXCEPT !.blocked = @ \cup {c}]

AfterUnlock(l, c, mode) ==
    IF mode = "shared" THEN [l EXCEPT !.readers = @ \ {c}]
    ELSE [readers |-> l.blocked, blocked |-> {}, writer |-> NoClient]
================================================================================
