SPECIFICATION FairSpec
CONSTANTS
  p = p
  q = q
  a = a
  b = b
  c = c
  u = u
  Paths = {p, q}
  Data = {a, b, c, u}
  Times = {1, 2, 3}
  None = None
  InitialTrees <- OneTree
  Checkpoints <- BothCheckpoints
  UserFiles <- SavedFiles
  MaxEdits = 1
  MaxTransactions = 2
  SameVolume = FALSE
  KilledBeforeSync = FALSE
INVARIANT UnflaggedTreeIsWhole
PROPERTY RecoveryCompletes
