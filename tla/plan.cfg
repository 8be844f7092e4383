SPECIFICATION Spec
CONSTANTS
  d = d
  m = m
  f = f
  g = g
  a = a
  b = b
  u = u
  PathOrder <- Nested
  MetaOf <- NestedMeta
  WorkingFiles <- Present
  SnapshotFiles <- Saved
  UserFiles <- Unity
  Dir = Dir
  None = None
  MaxEdits = 1
INVARIANTS
  TypeOK
  OutsideScopeUntouched
  NoFileLost
  CommittedAsPreviewed
  PairsStayTogether
  RolledBackWhole
  UndisturbedRestoreGoesOn
CHECK_DEADLOCK FALSE
