SPECIFICATION Spec
CONSTANTS
    User = {u1, u2}
    Author = u1
    Maintainer = {}
    Deletable = {"source"}
    MaxCommit = 4
    MaxClaim = 1
    MaxFault = 1
INVARIANTS AmbiguousCanBeClosed
