SPECIFICATION Spec
CONSTANTS
  d = d
  m = m
  f = f
  g = g
  a = a
  b = b
  u = u
  PathOrder <- Nested
  MetaOf <- NestedMeta
  WorkingFiles <- Present
  SnapshotFiles <- Saved
  UserFiles <- Unity
  Dir = Dir
  None = None
  MaxEdits = 0
INVARIANT UndisturbedDiscardRollsBack
CHECK_DEADLOCK FALSE
