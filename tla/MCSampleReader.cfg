SPECIFICATION Spec
CONSTANTS
  Sources = {0, 1}
  Plans <- MCPlans
  Lengths <- MCLengths
  BufferSize = 2
  MaxFaults = 2
INVARIANTS
  SamplesArePlanned
  OffsetsAgree
  RefusalHasCause
PROPERTIES
  PlanIsRead
