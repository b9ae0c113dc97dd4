CONSTANTS
  n1 = n1
  n2 = n2
  Nodes <- MCNodes
  SubmitSide <- OnFirst
  SubscribeSide <- OnBoth
  Iterations = 2
  Foreign = {foreign}
SPECIFICATION FairSpec
INVARIANTS
  TypeOK
  AllCounted
PROPERTIES
  MeasuresOwn
  Ends
CHECK_DEADLOCK FALSE
