SPECIFICATION FairSpec
CONSTANTS
  Ckpts = {c1, c2}
  a = a
  Objects = {a}
  Contents <- NestedContents
  None = None
  CleanupMayFail = FALSE
  RecoveryMayNotFinalize = FALSE
INVARIANTS
  TypeOK
  PublishedIsDurable
  RecoveryNeverRefuses
  RestoreTargetSurvives
  RecordedOnce
PROPERTY JournalsDrain
