\* Two requests at a time on one session, with two projects to choose from.
CONSTANTS
  Ids = {s1}
  Projects = {p1, p2}
  Requests = {x1, x2}
  None = None
  NoRow = NoRow
  Open = Open

SPECIFICATION Spec
SYMMETRY Symmetry
INVARIANTS
  CodeHasWorkspace
  ActiveHasRun
  CodesInRegistered
  QuietChoiceStands
  InternetAsTold
CHECK_DEADLOCK FALSE
