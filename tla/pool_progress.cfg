SPECIFICATION FairSpec
CONSTANTS
    VM = {v1, v2, v3}
    BuildWorker = {w1, w2}
    IdleCount = 1
    MaxInstances = 2
    MaxBreakdown = 2
    NoVM = NoVM
    Reconciler = Reconciler
INVARIANTS HardCap OneBuildPerMachine DestroyedByOwner ShutdownLeavesNothing
PROPERTIES ReserveReturns ShutdownEnds
