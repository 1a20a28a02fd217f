\* Files of 0 to 2 bytes; kills and failed reads anywhere; two flipped bits or a
\* burst.
CONSTANTS
  Docs <- SomeDocs
  BufSize = 2
  MaxFlips = 2
  MaxBurst = 6
SPECIFICATION Spec
INVARIANTS AcceptedIsOriginal SealedVerifies DividesCorrectly NothingLost
CHECK_DEADLOCK FALSE
