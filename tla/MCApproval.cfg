\* Three racing answers to one approval, under fairness.
CONSTANTS
  a1 = a1
  r1 = r1
  r2 = r2
  r3 = r3
  s1 = s1
  s2 = s2
  Approvals <- OneApproval
  Sessions <- TwoSessions
  Requests <- ThreeRequests
  SessionOf <- InOneSession
  StoreReliable = TRUE

SPECIFICATION OrderedSpec
INVARIANTS
  DeniedRowDidNotRun
  AcceptedRowDecided
PROPERTIES
  ConsentSpec
  CallsReturn
CHECK_DEADLOCK FALSE
