\* Reading the working tree while it is edited.
SPECIFICATION Spec
CONSTANTS
  p = p
  q = q
  a = a
  b = b
  c = c
  d = d
  Paths = {p, q}
  Written <- TwoContents
  Times = {1, 2}
  InitialFiles <- OneFile
  None = None
  MaxChanges = 2
  MaxCheckpoints = 2
  MaxScans = 3
INVARIANTS
  TypeOK
  ReadingsAreTrue
  DiffsAreTrue
  CacheIsTrue
  PublishesIntactObjects
SYMMETRY Symmetry
