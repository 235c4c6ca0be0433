SPECIFICATION Spec
CONSTANTS
  maximumConnections = 2
  Faults = {"reject"}
  MaxBlocks = 2
  MaxClients = 4
  MaxTicks = 0
INVARIANT NeverStranded
CHECK_DEADLOCK FALSE
