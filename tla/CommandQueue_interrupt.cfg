SPECIFICATION Spec
CONSTANTS
  s1 = s1
  s2 = s2
  Session = {s1, s2}
  MaxCommands = 3
  NoCommand = NoCommand
  Room = 1
  InitConfig <- WideConfig
  Configs <- NoConfigs
  Overrides <- NoOverrides
  SubmitModes <- InterruptModes
  Cancellable = {}
  Abortable = {}
INVARIANT Serialization
