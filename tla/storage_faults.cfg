SPECIFICATION Spec
CONSTANTS
  x = x
  y = y
  Absent = Absent
  Groups = {g, h}
  Rooted = TRUE
  Names <- TwoNames
  Repositories = {r1, r2}
  Importable = {r2}
  Sidecars = {"issues", "reviews"}
  MaxDirty = 1
SYMMETRY Symmetry
INVARIANTS NeverMixed StrandedGroupEmpty
PROPERTIES AtomicUntilDirty NothingLost
CHECK_DEADLOCK FALSE
