SPECIFICATION Spec
CONSTANTS
  Kinds = {"named", "prepare"}
  Names = {"s"}
  Versions = 2
  ShareQueries = FALSE
  Replies = {"challenge", "accept", "reject", "rows", "error", "setting"}
  Faults = {"disconnect"}
  MaxRequests = 3
INVARIANTS
  TypeOK
  OwnAnswers
  
  StatementsAgree
  ObservedWhileRunning
PROPERTIES
  Executes
CHECK_DEADLOCK FALSE
