SPECIFICATION FairSpec
CONSTANTS
  Kinds = {"simple", "extended", "prepare"}
  Names = {"s"}
  Versions = 1
  ShareQueries = FALSE
  Replies = {"md5", "accept", "command", "begin"}
  Faults = {"break"}
  MaxRequests = 3
PROPERTIES
  SentQueriesAnswered
  EveryRequestAnswered
CHECK_DEADLOCK FALSE
