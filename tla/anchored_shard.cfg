\* A crash between the detach of a non-empty directory and the rename back.
SPECIFICATION Spec
CONSTANTS
  None = None
  Old = Old
  New = New
  Rec = Rec
  Foreign = {x, y}
  MaxWrites = 1
INVARIANT LiveDirectoryStaysVisible
SYMMETRY Symmetry
CHECK_DEADLOCK FALSE
