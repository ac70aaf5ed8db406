SPECIFICATION LoopSpec
CONSTANTS
  MaxSeq = 20
  InitSeq = 14
  Packets = 3
  SndBufSize = 1
  MaxSplit = 2
  SendWindows = {1, 2}
  MaxLosses = 2
PROPERTY ExpWakesSendThread
CHECK_DEADLOCK FALSE
