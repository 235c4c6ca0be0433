SPECIFICATION Spec
CONSTANTS
  Kinds = {"simple"}
  Names = {"s"}
  Versions = 1
  ShareQueries = TRUE
  Replies = {"accept", "command", "error"}
  Faults = {}
  MaxRequests = 3
INVARIANTS
  OwnAnswers
CHECK_DEADLOCK FALSE
