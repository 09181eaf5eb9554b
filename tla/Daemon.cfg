SPECIFICATION Spec
CONSTANTS
  Watched = {l1, l2}
  Foreign = {f1}
INVARIANTS TypeOK DrainedAtExit NoSleepOverItems
PROPERTIES EventsReachWorker ShutdownEnds
