\* The two programs of the socket pair, one process of which may be killed.
SPECIFICATION FairSpec
CONSTANTS
  num_messages = 3
  Setups <- Mixed
INVARIANTS
  TypeOK
  InStep
  LeavesComplete
  OnlyTheSurvivorSuffers
PROPERTIES
  BothEndOrBlock
CHECK_DEADLOCK FALSE
