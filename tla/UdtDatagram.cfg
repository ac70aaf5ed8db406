SPECIFICATION DgramSpec
CONSTANTS
  MaxSeq = 20
  WindowSize = 3
  InitSeq = 4
  Packets = 7
  AckHistory = 2
  MaxAcks = 3
  DataLen = 2
  DgramBufMaxLen = 5
  Lens = {1, 3, 5, 7}
INVARIANTS
  CallbacksOnceInOrder
  DatagramsArriveWhole
PROPERTY ImplementsReceiver
CHECK_DEADLOCK FALSE
