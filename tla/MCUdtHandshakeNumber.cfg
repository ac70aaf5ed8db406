SPECIFICATION Spec
CONSTANTS
  Clients <- OneClient
  MaxData = 1
INVARIANT ClientExpectsFirstPacket
CHECK_DEADLOCK FALSE
