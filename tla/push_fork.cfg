CONSTANTS
  c1 = c1
  c2 = c2
  c3 = c3
  f1 = f1
  f2 = f2
  p = p
  Zero = Zero
  Commit = {c1, c2, c3}
  File = {f1, f2, p}
  Parents <- ForkParents
  Files <- ForkFiles
  Pointer = {p}
  Branch = {main}
  Tag = {v1}
  Packs <- ForkPacks
  MaxCommand = 2
  MaxObjects = 6
SPECIFICATION Spec
INVARIANTS RefsComplete ReportTrue
PROPERTIES ObjectsValidated
