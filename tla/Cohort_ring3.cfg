CONSTANTS
  N = 3
  NumRounds = 3
  MessagesPerClient = 1
  FailFast = FALSE
SPECIFICATION FairSpec
INVARIANTS
  TypeOK
  BarrierAccounting
  BarrierSound
  PeerFailedMeansPeer
  RoundsAccounted
PROPERTIES
  Termination
  InLockstep
CHECK_DEADLOCK FALSE
