\* Each of the programs on every short input: texts, sums, images of a few
\* directories in three geometries.
CONSTANTS
  MaxText = 4
  MaxGrepText = 6
  MaxPattern = 3
  BufSize = 3
  IntLimit = 8
  WcTexts <- MCWcTexts
  CatFiles <- MCCatFiles
  GrepTexts <- MCGrepTexts
  Patterns <- MCPatterns
  MultFiles <- MCMultFiles
  Boots <- MCBoots
  Entries <- MCEntries
  Junk <- MCJunk
  Links = {3, 65528}
  Paths <- MCPaths
  ImageBytes = 2100000
  MaxHops = 2
  CharIsSigned = TRUE
SPECIFICATION Spec
INVARIANTS CountsFit CopiesInOrder PrintsMatchingLines VerdictIsRight
           ListsTheDirectory NotFoundIsTrue
PROPERTIES EveryRunEnds
CHECK_DEADLOCK FALSE
