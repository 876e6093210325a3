SPECIFICATION Spec
CONSTANTS
  None = None
  Files <- IndexedFiles
INVARIANTS
  SidxFindsFragments
