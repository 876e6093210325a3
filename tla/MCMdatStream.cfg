SPECIFICATION Spec
CONSTANTS
  None = None
  k1 = k1
  k2 = k2
  BufferLen = 2
  Schemes <- MCSchemes
  Keys <- MCKeys
  Plans <- MCPlans
INVARIANTS
  OutputIsRewrite
  QueueIsWindow
  PartsAgree
  ParserStaysInside
  DoneIsComplete
  FailureHasCause
  WindowIsBounded
PROPERTIES
  ImplementsRewrite
  SoundPlanFinishes
