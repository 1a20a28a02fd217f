\* One connection more than MAX_CLIENT_CNT, and one descriptor too few for the
\* file of a second client; peers may reset.
CONSTANTS
  Conns = {c1, c2, c3}
  Returning = {}
  MaxClientCnt = 2
  BacklogSize = 2
  FdLimit = 6
  MaxChunks = 1
  Asks <- LimitsAsks
  PeerEvents = {"rst"}
  AfterFree = {"next", "null"}
  StackHolds = {"nobody", "garbage"}
SPECIFICATION Spec
SYMMETRY ConnSymmetry
INVARIANTS TypeOK CountMatchesList EveryClientWatched
PROPERTIES ClosesOnlyItsOwn
CHECK_DEADLOCK FALSE
