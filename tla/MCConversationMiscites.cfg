\* Two searches may number the same sources differently.
CONSTANTS
  search1 = search1
  search2 = search2
  other1 = other1
  write1 = write1
  start1 = start1
  source1 = source1
  source2 = source2
  ev1 = ev1
  NoCall = NoCall
  Recovered = search1
  Searches <- TwoSearches
  Others <- OneOther
  Writers = {}
  Starts = {}
  Gated = {}
  SourceLists <- TwoLists
  Evidence <- OneEvidence
  MaxRounds = 4
  KeepLimit = 12

SPECIFICATION Spec
INVARIANT CitationLeadsToSource
CHECK_DEADLOCK FALSE
