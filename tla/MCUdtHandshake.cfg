SPECIFICATION FairSpec
CONSTANTS
  Clients <- OneHost
  MaxData = 1
INVARIANTS
  OneSocketPerClient
  ConnectsToCookieHolder
  ServerExpectsFirstPacket
PROPERTY HandshakeCompletes
CHECK_DEADLOCK FALSE
