\* Three chunks, two of which may be submitted at a time.
SPECIFICATION Spec
CONSTANTS
  NumChunks = 3
  Jobs = {j1, j2, j3}
  None = None
  Empty = Empty
  SubmitConcurrency = 2
  MissTolerance = 2
INVARIANTS BatchTypeOK SlotsKeepOrder GivenUpForCause WaitersAreServed
PROPERTIES CallReturns
CHECK_DEADLOCK FALSE
