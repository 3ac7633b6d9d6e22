SPECIFICATION Spec
CONSTANTS
  main = main
  b1 = b1
  b2 = b2
  i1 = i1
  w1 = w1
  w2 = w2
  None = None
  Main = main
  Branch = {main, b1}
  Issue = {i1}
  Prefixed <- AnyOther
  Worker = {w1, w2}
  MaxChange = 2
SYMMETRY Symmetry
INVARIANTS TypeOK AnswerTrue HeadStands
PROPERTIES NoWorkLost
