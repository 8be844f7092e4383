\* Replacement and removal of a directory entry on both platforms.
SPECIFICATION Spec
CONSTANTS
  None = None
  Old = Old
  New = New
  Rec = Rec
  Foreign = {x, y}
  MaxWrites = 1
INVARIANTS
  TypeOK
  ReplacementIsAtomic
  RecoveryUnderstands
  OthersSurvive
SYMMETRY Symmetry
CHECK_DEADLOCK FALSE
