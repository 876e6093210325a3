SPECIFICATION Spec
CONSTANTS
  None = None
  Requests <- MCRequests
INVARIANTS
  FragmentsFindSamples
  RandomAccessSurvives
  ReferencesTile
  RefreshIsStable
  SoundRequestSucceeds
