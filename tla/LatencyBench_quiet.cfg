CONSTANTS
  N = 3
  NumRounds = 2
  MessagesPerClient = 1
  FailFast = FALSE
  MaxTopics = 2
SPECIFICATION QuietSpec
PROPERTIES
  QuietCompletes
CHECK_DEADLOCK FALSE
