\* A complete request from one client, a fragment from another.
CONSTANTS
  Conns = {c1, c2}
  Returning = {}
  MaxClientCnt = 2
  BacklogSize = 2
  FdLimit = 6
  MaxChunks = 1
  Asks <- LineAsks
  PeerEvents = {}
  AfterFree = {"next"}
  StackHolds = {"nobody"}
SPECIFICATION Spec
INVARIANT LineIsOwn
CHECK_DEADLOCK FALSE
