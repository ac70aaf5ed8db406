SPECIFICATION Spec
CONSTANTS
  MaxSize = 2
  MAX_SEQ_NUMBER = 31
  Start = 28
  Last = 9
  MaxGap = 3
  Lag = 6
  Copies = 1
INVARIANTS
  HandedOverInOrder
  GapsAreReported
  LossIsCounted
PROPERTY OnlyOvertakenAreLate
CHECK_DEADLOCK FALSE
