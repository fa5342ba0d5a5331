\* A code run under fairness: the limits are scaled down, and each is reached.
CONSTANTS
  edit1 = edit1
  exec1 = exec1
  start1 = start1
  poll1 = poll1
  look1 = look1
  ev1 = ev1
  NoCall = NoCall
  Edits <- OneEdit
  Execs <- OneExec
  Starts <- OneStart
  Polls <- OnePoll
  Looks <- OneLook
  Gated <- GatedThree
  Evidence <- OneEvidence
  MaxSteps = 6
  FailureLimit = 3
  StallLimit = 4
  StoreReliable = TRUE

SPECIFICATION FairSpec
INVARIANTS
  FinalIsVerified
  RowTellsOutcome
PROPERTIES
  RunSpec
  EndsUnlessFinalsRejected
CHECK_DEADLOCK FALSE
