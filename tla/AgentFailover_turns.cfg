SPECIFICATION Spec
CONSTANTS
  Loop = {l1, l2}
  NoLoop = NoLoop
  Session = {s1}
  NoSession = NoSession
  SessionOf <- MCSessionOf
  Models <- MCModels
  ProviderOf <- MCProviderOf
  Profile = {"a", "b"}
  NoProfile = "default"
  ProfileLists <- MCProfileLists
  PriorityOf <- MCPriorityOf
  Kind = {"rate_limit"}
  RetryAfter = {0, 60}
  max_iterations = 2
  OverflowRetries = 1
  TransientRetries = 1
  TickSteps = {30, 60}
  MaxTicks = 1
  MaxTurns = 1
  MaxCalls = 1
SYMMETRY Symmetry
INVARIANTS
  TurnSound
PROPERTIES
  CooldownKept
CHECK_DEADLOCK FALSE
