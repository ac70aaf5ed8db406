SPECIFICATION Spec
CONSTANTS
  MaxSeq = 20
  InitSeq = 4
  Packets = 5
  SndBufSize = 1
  MaxSplit = 2
  SendWindows = {1, 4}
  WindowSize = 3
  AckHistory = 2
  MaxAcks = 3
INVARIANTS
  UnackedAreKept
  LossListIsTheGaps
  AckNumberIsNextExpected
  AckedWasDelivered
  MissingCanBeResent
  SilentOnlyIfSenderKnows
PROPERTY ImplementsStream
CHECK_DEADLOCK FALSE
