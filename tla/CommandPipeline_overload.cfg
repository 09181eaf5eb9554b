CONSTANTS
  d1 = d1  d2 = d2  l1 = l1  l2 = l2  u1 = u1  u2 = u2  u3 = u3
  NoCommand = NoCommand
  Command <- SyncCommand
  LocalCommand <- SyncLocal
  NextCommands <- SyncNext
  Batch <- SyncBatch
  Mode = "InitialSync"
  MaxConcurrent = 2
  MaxRetries = 1
SPECIFICATION FairSpec
PROPERTIES ClientEnds
