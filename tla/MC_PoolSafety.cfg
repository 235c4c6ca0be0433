SPECIFICATION Spec
CONSTANTS
  maximumConnections = 2
  Faults = {"refuse", "reject", "drop"}
  MaxBlocks = 2
  MaxClients = 3
  MaxTicks = 1
INVARIANTS
  TypeOK
  ExclusiveUse
  InOrder
  NoLostWakeup
  NoStrayConnection
PROPERTIES
  NeverCutOff
  Dispatches
CHECK_DEADLOCK FALSE
