SPECIFICATION Spec
CONSTANTS
  Bound <- MCBound
  Foreign <- MCForeign
  MaxPerClass = 2
  Size = {0, 2, 5}
  MaxLent = 2
INVARIANTS
  TypeOK
  FreeListsSound
PROPERTY
  BestFit
