CONSTANTS
  d1 = d1  d2 = d2  l1 = l1  l2 = l2  u1 = u1  u2 = u2  u3 = u3
  NoCommand = NoCommand
  Command <- DaemonCommand
  LocalCommand <- DaemonLocal
  NextCommands <- DaemonNext
  Batch <- DaemonBatch
  Mode = "Daemon"
  MaxConcurrent = 3
  MaxRetries = 1
SPECIFICATION Spec
INVARIANTS OneFate ChainOrder StoppedDrained BlocksOnlyWhenDone
