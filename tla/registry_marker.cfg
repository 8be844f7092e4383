\* A marker that is replaced between its two reads by a call.
SPECIFICATION Spec
CONSTANTS
  None = None
  Missing = Missing
  Procs = {p, q}
  Folders = {f, g, h}
  Ids = {i, j}
  Storages = {s}
  Default = s
  Requests = {}
  MaxCalls = 4
  MaxUser = 1
  SeparateRaces = FALSE
  MarkerRaces = TRUE
INVARIANTS
  CopiesAreNotChanged
SYMMETRY Symmetry
CHECK_DEADLOCK FALSE
