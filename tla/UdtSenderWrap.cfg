SPECIFICATION SndSpec
CONSTANTS
  MaxSeq = 7
  InitSeq = 4
  Packets = 5
  SndBufSize = 2
  MaxSplit = 2
  SendWindows = {2, 3}
INVARIANT NextNumberIsAdmitted
CHECK_DEADLOCK FALSE
