\* A get in one directory while a put in another has not finished.
CONSTANTS
  Procs = {p1, p2}
  Dirs = {d1, d2}
  Docs = {v1}
  Blocks = 2
  Commands = {"put", "get"}
  Crossing = TRUE
SPECIFICATION Spec
SYMMETRY Symmetry
INVARIANT NothingLost
CHECK_DEADLOCK FALSE
