SPECIFICATION FairSpec
CONSTANTS
  Kinds = {"simple", "prepare"}
  Names = {"s"}
  Versions = 1
  ShareQueries = FALSE
  Replies = {"accept", "command"}
  Faults = {}
  MaxRequests = 3
PROPERTIES
  EveryExecAnswered
CHECK_DEADLOCK FALSE
