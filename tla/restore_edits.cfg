SPECIFICATION Spec
CONSTANTS
  p = p
  q = q
  a = a
  b = b
  c = c
  u = u
  Paths = {p, q}
  Data = {a, b, c, u}
  Times = {1, 2, 3}
  None = None
  InitialTrees <- EveryTree
  Checkpoints <- BothCheckpoints
  UserFiles <- EditedFiles
  MaxEdits = 2
  MaxTransactions = 1
  SameVolume = TRUE
  KilledBeforeSync = FALSE
INVARIANTS
  TypeOK
  NoUserDataLost
  RollbackNeverRefuses
