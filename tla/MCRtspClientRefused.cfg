SPECIFICATION Spec
CONSTANTS
  Payloads <- MCPayloads
  Channels = {1, 2}
  MaxFrames = 2
  MaxDrops = 1
  MaxCalls = 2
INVARIANT RefusedIsWrongPassword
CHECK_DEADLOCK FALSE
