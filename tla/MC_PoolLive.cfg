SPECIFICATION FairSpec
CONSTANTS
  maximumConnections = 2
  Faults = {"reject", "drop"}
  MaxBlocks = 2
  MaxClients = 3
  MaxTicks = 0
PROPERTIES
  EveryBlockStarts
  DeadClientsLeave
CHECK_DEADLOCK FALSE
