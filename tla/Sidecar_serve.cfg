SPECIFICATION FairSpec
CONSTANTS
  c1 = c1
  p1 = p1
  p2 = p2
  NoPid = NoPid
  Mon = Mon
  NoThread = NoThread
  NoRpc = NoRpc
  Pid = {p1, p2}
  Caller = {c1}
  Rpc = {1, 2}
  max_restarts = 1
  MaxFailures = 2
  DeadLooksAlive = FALSE
INVARIANT ProcessesSound
PROPERTY ResponseIsOwn
PROPERTY CrashRestart
PROPERTY StopReturns
CHECK_DEADLOCK FALSE
