SPECIFICATION Spec
CONSTANTS
  Threads = {t1, t2}
  MaxRequests = 2
  MaxDrops = 1
  MaxBeats = 1
  MaxStarts = 2
INVARIANT HeartbeatJoinCanEnd
CHECK_DEADLOCK FALSE
