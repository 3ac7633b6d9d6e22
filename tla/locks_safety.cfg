SPECIFICATION ManagerSpec
CONSTANTS
    Client = {c1, c2, c3, c4}
    Key = {1, 2, 3}
    Requests <- MixedRequests
    Entry = {e1, e2, e3, e4}
    NoEntry = NoEntry
    NoClient = NoClient
SYMMETRY Symmetry
INVARIANTS MutualExclusion NoEntryLeaks
PROPERTIES ImplementsKeyLocks
