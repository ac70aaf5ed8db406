SPECIFICATION WrapSpec
CONSTANTS
  MaxSeq = 15
  WindowSize = 4
  InitSeq = 8
  Packets = 7
  AckHistory = 2
  MaxAcks = 3
INVARIANT FirstLossIsExpected
CHECK_DEADLOCK FALSE
