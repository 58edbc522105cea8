SPECIFICATION FairSpec
CONSTANTS
  j1 = j1
  j2 = j2
  j3 = j3
  head = head
  early = early
  late = late
  NoId = NoId
  EveryMinute = EveryMinute
  NoFile = NoFile
  Torn = Torn
  Id = {j1, j2}
  Extends <- MCExtends
  Schedule = {early, late}
  Minutes <- MCMinutes
  Client = {"c1"}
  MaxMinute = 2
  MaxCrashes = 1
  InitFile <- OneJob
INVARIANT JobsSound
INVARIANT RemovedStaysRemoved
PROPERTY NoDoubleRun
PROPERTY DueJobRuns
