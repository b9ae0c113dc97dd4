CONSTANTS
  N = 3
  NumRounds = 2
  MessagesPerClient = 1
  FailFast = TRUE
SPECIFICATION MainSpec
INVARIANTS
  ReportTrue
PROPERTIES
  MainExits
CHECK_DEADLOCK FALSE
