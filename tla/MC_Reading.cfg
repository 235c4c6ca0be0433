SPECIFICATION FairSpec
CONSTANTS
  BodyLengths = {0, 3}
  MaxMessages = 3
  MaxChunks = 2
INVARIANTS
  TypeOK
  NeverTrapped
  OneReadAtATime
  KeepsItsPlace
PROPERTIES
  Delivers
  EveryMessageProcessed
CHECK_DEADLOCK FALSE
