\* A directory of more than one cluster.
CONSTANTS
  Boots <- OneBoot
  Entries <- MCEntries
  Junk <- MCJunk
  Links = {3, 65528}
  Paths <- OnePath
  ImageBytes = 2100000
  MaxHops = 2
  CharIsSigned = TRUE
SPECIFICATION LsSpec
INVARIANTS EntryInCluster
CHECK_DEADLOCK FALSE
