SPECIFICATION FairSpec
CONSTANTS
  Caller = {k1}
  TokenOk = TRUE
  max_requests = 3
  window_seconds = 2
  burst_max = 2
  PeerRequests <- MCPeerRequests
  CallMethods <- MCCallMethods
  MaxConns = 1
  MaxIds = 2
  MaxPeerFrames = 0
  MaxInFlight = 1
  Sides = {"client"}
  MaxTicks = 0
PROPERTY
  CallEnds
CHECK_DEADLOCK FALSE
