SPECIFICATION NakSpec
CONSTANTS
  MaxSeq = 20
  InitSeq = 4
  Packets = 4
INVARIANT EntriesFitTheArray
CHECK_DEADLOCK FALSE
