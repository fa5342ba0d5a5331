\* Model calls of a run, with up to two rejected final answers.
CONSTANTS
  edit1 = edit1
  exec1 = exec1
  NoCall = NoCall
  Edits <- OneEdit
  Execs <- OneExec
  Starts = {}
  Polls = {}
  Looks = {}
  Gated = {}
  Evidence = {}
  MaxSteps = 4
  FailureLimit = 3
  StallLimit = 5
  StoreReliable = FALSE
  MaxRejected = 2

SPECIFICATION CostSpec
INVARIANT ModelCallsBounded
CHECK_DEADLOCK FALSE
