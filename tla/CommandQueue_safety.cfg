SPECIFICATION Spec
CONSTANTS
  s1 = s1
  s2 = s2
  Session = {s1, s2}
  MaxCommands = 3
  NoCommand = NoCommand
  Room = 1
  InitConfig <- WideConfig
  Configs <- NoConfigs
  Overrides <- NoOverrides
  SubmitModes <- AllModes
  Cancellable = {1, 2, 3}
  Abortable = {s1}
INVARIANT ActiveCountExact
INVARIANT ActiveLaneHasWorker
INVARIANT CancelledNeverRuns
INVARIANT NoDuplicateDelivery
INVARIANT StoppedIsQuiet
PROPERTY StartOrder
