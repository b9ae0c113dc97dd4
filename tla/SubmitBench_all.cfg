CONSTANTS
  Endpoints = 2
  Iteration = {1, 2, 3}
  Batch = {1, 2}
  Modulus = 4
SPECIFICATION FairSpec
INVARIANTS
  TypeOK
  EveryStatementCounted
PROPERTIES
  NothingReplaced
  Ends
CHECK_DEADLOCK FALSE
