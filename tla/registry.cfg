\* Two processes, three folders, copies and moves; separate starts do not overlap.
SPECIFICATION Spec
CONSTANTS
  None = None
  Missing = Missing
  Procs = {p, q}
  Folders = {f, g, h}
  Ids = {i, j}
  Storages = {s, t}
  Default = s
  Requests = {t}
  MaxCalls = 3
  MaxUser = 1
  SeparateRaces = FALSE
  MarkerRaces = FALSE
INVARIANTS
  TypeOK
  ClaimHoldsWhileWorking
  RegistryMatchesRepositories
  SeparateInitCanResume
PROPERTIES
  ClaimsAreTakenKnowingly
  MarkersAreReplacedKnowingly
  SeparateInitGoesOn
SYMMETRY Symmetry
CHECK_DEADLOCK FALSE
