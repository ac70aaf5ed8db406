SPECIFICATION LoopFairSpec
CONSTANTS
  MaxSeq = 20
  InitSeq = 14
  Packets = 3
  SndBufSize = 1
  MaxSplit = 2
  SendWindows = {1, 2}
  MaxLosses = 2
INVARIANTS
  AckWaitIsInterrupted
  DataIsNotSleptOver
PROPERTIES
  PostedIsSent
  GapIsRepaired
CHECK_DEADLOCK FALSE
