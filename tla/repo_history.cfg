SPECIFICATION Spec
CONSTANTS
  Ckpts = {c1, c2, c3}
  a = a
  Objects = {a}
  Contents <- SingleContents
  None = None
  CleanupMayFail = TRUE
  RecoveryMayNotFinalize = FALSE
INVARIANT QuiescentConsistency
PROPERTY ImplementsHistory
SYMMETRY Symmetry
