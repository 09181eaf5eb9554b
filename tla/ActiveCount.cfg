CONSTANTS
  Task = {t1, t2}
  Waiter = {w1, w2}
  Free = Free
SPECIFICATION FairCountSpec
INVARIANTS CountTypeOK NoLostWakeup
PROPERTIES ImplementsBarrier
