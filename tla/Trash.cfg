\* Three processes run any commands in two directories, one after the other or,
\* for puts and gets of one directory, at the same time; any may fail or be killed.
CONSTANTS
  Procs = {p1, p2, p3}
  Dirs = {d1, d2}
  Docs = {v1, v2, v3}
  Blocks = 2
  Commands = {"put", "get", "remove"}
  Crossing = FALSE
SPECIFICATION Spec
SYMMETRY Symmetry
VIEW View
INVARIANTS NothingLost RemovesTheOriginal
PROPERTIES NeverOverwrites
CHECK_DEADLOCK FALSE
