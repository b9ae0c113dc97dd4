CONSTANTS
  Interval = 2
  IterationLimit = {0, 3, Unbounded}
  DurationLimit = {0, 5, Unbounded}
  Unbounded = Unbounded
  Horizon = 9
SPECIFICATION FairSpec
INVARIANTS
  TypeOK
  LoopReportTrue
  ConnectionsOfIteration
  IterationsWithinDuration
PROPERTIES
  LoopEnds
CHECK_DEADLOCK FALSE
