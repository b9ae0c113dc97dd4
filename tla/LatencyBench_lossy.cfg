CONSTANTS
  N = 2
  NumRounds = 2
  MessagesPerClient = 2
  FailFast = FALSE
  MaxTopics = 2
SPECIFICATION BenchFairSpec
PROPERTIES
  ImplementsCohort
  CompleteRounds
  NothingReplacedUnread
  Termination
CHECK_DEADLOCK FALSE
