\* Two connections that send, half-close, reset; every outcome of the freed node.
CONSTANTS
  Conns = {c1, c2}
  Returning = {}
  MaxClientCnt = 2
  BacklogSize = 2
  FdLimit = 6
  MaxChunks = 1
  Asks <- SafetyAsks
  PeerEvents = {"fin", "rst", "stall", "sigint"}
  AfterFree = {"next", "null", "garbage"}
  StackHolds = {"nobody", "garbage"}
SPECIFICATION Spec
SYMMETRY ConnSymmetry
INVARIANTS RegisteredAreOpen ReadNeverBlocks NoLeakWithoutReset CleanExitClosedAnswered
PROPERTIES ImplementsService
CHECK_DEADLOCK FALSE
