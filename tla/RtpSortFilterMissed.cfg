SPECIFICATION Spec
CONSTANTS
  MaxSize = 2
  MAX_SEQ_NUMBER = 31
  Start = 28
  Last = 9
  MaxGap = 3
  Lag = 6
  Copies = 1
INVARIANT MissedIsCounted
CHECK_DEADLOCK FALSE
