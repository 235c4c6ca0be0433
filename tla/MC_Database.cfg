SPECIFICATION FairSpec
CONSTANTS
  Calls = {c1, c2}
  Names = {d}
  NoName = NoName
  Faults = {"refuse", "reject", "lose", "fail"}
INVARIANTS
  OutcomeIsTold
  ConnectionsAreReturned
PROPERTIES
  EveryCallIsAnswered
CHECK_DEADLOCK FALSE
