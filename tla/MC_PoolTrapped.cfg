SPECIFICATION Spec
CONSTANTS
  maximumConnections = 2
  Faults = {"drop"}
  MaxBlocks = 2
  MaxClients = 3
  MaxTicks = 1
INVARIANT NeverTrapped
CHECK_DEADLOCK FALSE
