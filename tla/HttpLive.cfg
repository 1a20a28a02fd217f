\* Peers that come again and again, wait for their answers and may stop reading for
\* a while; SIGINT.
CONSTANTS
  Conns = {c1, c2, c3}
  Returning = {c2, c3}
  MaxClientCnt = 3
  BacklogSize = 1
  FdLimit = 7
  MaxChunks = 1
  Asks <- LiveAsks
  PeerEvents = {"stall", "sigint"}
  AfterFree = {"next"}
  StackHolds = {"nobody"}
SPECIFICATION FairSpec
PROPERTIES RequestsAreServed ShutsDownOnSigint
CHECK_DEADLOCK FALSE
