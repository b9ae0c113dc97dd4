CONSTANTS
  N = 1
  NumRounds = 3
  MessagesPerClient = 1
  FailFast = FALSE
SPECIFICATION Spec
INVARIANTS
  ContinuesUnlessFailFast
CHECK_DEADLOCK FALSE
