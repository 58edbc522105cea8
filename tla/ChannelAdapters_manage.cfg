SPECIFICATION FairSpec
CONSTANTS
  discord = discord
  telegram = telegram
  p1 = p1
  p2 = p2
  p3 = p3
  NoPid = NoPid
  Absent = Absent
  NoChannel = NoChannel
  Channel = {discord, telegram}
  Pid = {p1, p2, p3}
  MaxDeaths = 2
  DeadLooksAlive = FALSE
  LaunchFails = TRUE
INVARIANT StopLeavesNone
INVARIANT OnePerChannel
PROPERTY CrashNoticed
