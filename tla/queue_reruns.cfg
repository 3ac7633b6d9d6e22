SPECIFICATION Spec
CONSTANTS
    p1 = p1
    p2 = p2
    Thread = {t1, t2}
    Runner = {r1}
    Push = {p1}
    Name = {1, 2}
    Needs <- ManualNeeds
    Manual <- ManualSet
    Matches <- ManualMatch
    ValidConfig = {p1}
    BuildError = {}
    MaxRun = 1
    MaxAttempt = 2
    MaxFault = 0
    NoRunner = NoRunner
    NoJob = NoJob
    NoError = NoError
SYMMETRY Symmetry
INVARIANTS DependenciesSucceeded
PROPERTIES TerminalStable OldestFirst LeaseRespected
