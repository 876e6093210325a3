SPECIFICATION Spec
CONSTANTS
  None = None
  TrackIds = {1, 2, 3}
  Jobs <- MCJobs
INVARIANTS
  CountsCoverTrack
  ChunksRespectRule
  PlanKeepsTracks
  ChunksLieWhole
  EventsFollowPlan
PROPERTIES
  ImportFinishes
