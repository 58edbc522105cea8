SPECIFICATION ConversationSpec
CONSTANTS
  Histories <- MCHistories
  Streams <- MCStreams
  MaxMessages = 7
  KeepRecent = 5
  ProtectRecent = 2
  HardPruneAfter = 3
  Window = 10
  ChunkTokens = 4
  MaxRetries = 2
  MaxHistory = 10
  SpawnThread = {t1, t2}
  Parent = {"main", "other"}
  Depth = {0, 2}
  MaxRuns = 3
  max_depth = 2
  Limits = {0, 1}
  ApiCalls = {"complete", "fail", "cancel", "cleanup"}
  k1 = k1
  Key = {k1}
  Alias = {a1}
  NoKey = NoKey
  Normal <- MCNormal
  Sid = {s1, s2}
  Absent = Absent
  TornStore = TornStore
  Requester = {t1, t2}
  HistoryLimit = 2
  CompactKeep = 1
  MaxReplies = 1
  MaxMsgs = 4
  MaxCrashes = 1
SYMMETRY Symmetry
INVARIANTS
  ProvidersSound
  CallsDelivered
  ContextSound
  RunsTracked
  TranscriptsKept
  RequestsSound
CHECK_DEADLOCK FALSE
