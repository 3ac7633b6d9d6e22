SPECIFICATION FairSpec
CONSTANTS
    p1 = p1
    p2 = p2
    Thread = {t1, t2}
    Runner = {r1}
    Push = {p1, p2}
    Name = {1, 2}
    Needs <- PairNeeds
    Manual <- PairManual
    Matches <- PairMatch
    ValidConfig = {p1}
    BuildError = {e1}
    MaxRun = 0
    MaxAttempt = 1
    MaxFault = 1
    NoRunner = NoRunner
    NoJob = NoJob
    NoError = NoError
INVARIANTS FailedForCause
PROPERTIES QueueDrains
