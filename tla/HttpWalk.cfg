\* Two clients with a request each; the freed list node may read as NULL.
CONSTANTS
  Conns = {c1, c2}
  Returning = {}
  MaxClientCnt = 2
  BacklogSize = 2
  FdLimit = 6
  MaxChunks = 1
  Asks <- WalkAsks
  PeerEvents = {}
  AfterFree = {"next", "null"}
  StackHolds = {"nobody"}
SPECIFICATION Spec
INVARIANT WalkVisitsAll
CHECK_DEADLOCK FALSE
