CONSTANTS
  Accounts = 3
  MaxSize = 2
  Runs = 2
SPECIFICATION FairSpec
INVARIANTS
  TypeOK
  BatchesInOrder
  SetupTrue
  SetQuotaTrue
PROPERTIES
  Ends
CHECK_DEADLOCK FALSE
