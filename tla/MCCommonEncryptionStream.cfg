SPECIFICATION Spec
CONSTANTS
  None = None
  Files <- MCFiles
INVARIANTS
  RootLoopAligned
  PlannedOffsetsHold
  RandomAccessSurvives
  FragmentsFindSamples

  
