SPECIFICATION FairSpec
CONSTANT MaxSockets = 3
INVARIANTS
  IdsArePartitioned
  OpenSocketIsRouted
PROPERTY GivenUpIsForgotten
CHECK_DEADLOCK FALSE
