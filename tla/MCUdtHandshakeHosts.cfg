SPECIFICATION FairSpec
CONSTANTS
  Clients <- TwoHosts
  MaxData = 1
PROPERTY RequestMakesSocket
CHECK_DEADLOCK FALSE
