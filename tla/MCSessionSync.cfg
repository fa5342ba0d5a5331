\* Two requests of a console and a run of another client on its session.
CONSTANTS
  r1 = r1
  r2 = r2
  o1 = o1
  o2 = o2
  Own <- TwoOwn
  Others <- OneOther
  Capacity = 2
  MaxClock = 2

SPECIFICATION Spec
PROPERTIES
  NoEcho
  SkipsOnlyOld
CHECK_DEADLOCK FALSE
