\* Three calls at a time on one process.
CONSTANTS
  p1 = p1
  c1 = c1
  c2 = c2
  c3 = c3
  Processes <- OneProcess
  Callers <- ThreeCallers

SPECIFICATION FairSpec
PROPERTIES
  ExitSeen
  StoppedEnds
  CallsReturn
CHECK_DEADLOCK FALSE
