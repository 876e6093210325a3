SPECIFICATION Spec
CONSTANTS
  U32Max = 90
  Jobs <- MCJobs
  Wildcard = "any"
INVARIANTS
  OutputIsEdited
  FramesAgree
PROPERTIES
  WellFormedIsRewritten
