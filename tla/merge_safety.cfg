SPECIFICATION Spec
CONSTANTS
    User = {u1, u2}
    Author = u1
    Maintainer = {}
    Deletable = {"source", "target"}
    MaxCommit = 4
    MaxClaim = 2
    MaxFault = 2
INVARIANTS MergedWasApproved MergedReachedTarget ActiveClaimUndisturbed
PROPERTIES AppliedMergeKept
