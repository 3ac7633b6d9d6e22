-------------------------------- MODULE LockCalls --------------------------------
(***************************************************************************)
(* The Acquire calls that are in progress, and what each of them wants:    *)
(* what the lock manager and the abstract locks it implements agree on.    *)
(***************************************************************************)
EXTENDS RWMutex, Integers

CONSTANTS
    Client,   \* Acquire calls that may be in progress together
    Key,      \* lock keys: numbers, in the order of the key strings
    Requests  \* the argument lists of Acquire: sets of [key, mode]

VARIABLES
    pc,    \* "idle", "locking", "held" or "releasing"
    want   \* the normalized request of each call: the mode of each key

Wanted(c) == DOMAIN want[c]
Goto(c, label) == pc' = [pc EXCEPT ![c] = label]
=================================================================================
