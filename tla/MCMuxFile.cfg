SPECIFICATION Spec
CONSTANTS
  U32Max = 500
  Mixes <- MCMixes
  MaxReferences = 2
  MaxFaults = 1
INVARIANTS
  SamplesFound
  SidxFindsFragments
  BoxesTile
PROPERTIES
  SoundMixIsWritten
