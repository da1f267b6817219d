SPECIFICATION HSpec
CONSTANTS
  Frames = {"f1", "f2"}
  MaxGrids = 2
  GuidedEarly = TRUE
  FallbackEarly = TRUE
  RetryAfterMisses = 3
  Cooldown = 5
INVARIANTS
  FreshImage
  ResultOfFrame
  WorkBounded
PROPERTIES
  Throttled
