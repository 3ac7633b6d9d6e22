SPECIFICATION Spec
CONSTANTS
  w1 = w1
  w2 = w2
  p = p
  q = q
  Absent = Absent
  Damaged = Damaged
  None = None
  Worker = {w1, w2}
  Pair = {p}
  OneOpen = TRUE
  MaxId = 2
  MaxNotes = 1
  MaxClock = 1
SYMMETRY Symmetry
INVARIANTS OneOpenPerPair AcknowledgedKept
PROPERTY NothingOverwritten
