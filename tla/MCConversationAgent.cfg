\* Five rounds with the smallest window that fits them, 2 * 5 - 4, and tools
\* of the beemo-code daemon among the calls.
CONSTANTS
  search1 = search1
  search2 = search2
  other1 = other1
  write1 = write1
  start1 = start1
  source1 = source1
  source2 = source2
  ev1 = ev1
  NoCall = NoCall
  Recovered = search1
  Searches <- TwoSearches
  Others <- WriterAndStart
  Writers <- OneWriter
  Starts <- OneStart
  Gated <- GatedWriter
  SourceLists <- OneList
  Evidence <- OneEvidence
  MaxRounds = 5
  KeepLimit = 6

SPECIFICATION FairSpec
INVARIANTS
  EvidenceKept
  SearchedBeforeGivingUp
PROPERTIES
  RunSpec
  Terminates
CHECK_DEADLOCK FALSE
