\* Creation, deletion, renaming and rebuilding with crashes and index failures.
SPECIFICATION Spec
CONSTANTS
  c1 = c1
  c2 = c2
  c3 = c3
  x = x
  y = y
  Ckpts = {c1, c2, c3}
  Objects = {x, y}
  Occurrences <- Shared
  None = None
  Missing = Missing
  Unreadable = Unreadable
  RecoveryMayNotFinalize = FALSE
INVARIANTS
  TypeOK
  CurrentIndexIsExact
  CrashLeavesIndexCurrent
  NamesAreOfCheckpoints
