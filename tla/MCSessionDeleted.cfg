\* One run and a deletion: the run writes the row of the session back.
CONSTANTS
  Ids = {s1}
  Projects = {p1}
  Requests = {x1}
  None = None
  NoRow = NoRow
  Open = Open

SPECIFICATION Spec
INVARIANT DeletedStaysDeleted
CHECK_DEADLOCK FALSE
