SPECIFICATION NakSpec
CONSTANTS
  MaxSeq = 9
  InitSeq = 4
  Packets = 8
INVARIANTS
  LossesArriveExactly
CHECK_DEADLOCK FALSE
