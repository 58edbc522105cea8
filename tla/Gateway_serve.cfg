SPECIFICATION Spec
CONSTANTS
  Caller = {k1, k2}
  TokenOk = TRUE
  max_requests = 3
  window_seconds = 2
  burst_max = 2
  PeerRequests <- MCPeerRequests
  CallMethods <- MCCallMethods
  MaxConns = 2
  MaxIds = 3
  MaxPeerFrames = 4
  MaxInFlight = 1
  Sides = {"client", "peer"}
  MaxTicks = 3
SYMMETRY Callers
INVARIANTS
  AnswersMatch
  LimitsHold
CHECK_DEADLOCK FALSE
