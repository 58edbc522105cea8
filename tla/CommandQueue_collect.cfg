SPECIFICATION FairSpec
CONSTANTS
  s1 = s1
  s2 = s2
  Session = {s1, s2}
  MaxCommands = 3
  NoCommand = NoCommand
  Room = 2
  InitConfig <- CollectConfig
  Configs <- RaisedConfigs
  Overrides <- RaisedLane
  SubmitModes <- CollectOnly
  Cancellable = {}
  Abortable = {}
INVARIANT Serialization
PROPERTY ImplementsMailbox
PROPERTY ConcurrencyLimit
PROPERTY PendingServed
PROPERTY StopReturns
