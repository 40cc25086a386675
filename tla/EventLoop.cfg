CONSTANTS
  Threads = {t1, t2}
  Loop = main
  MaxScheduled = 2
  MaxOther = 2
  MaxDepth = 5
SPECIFICATION FairSpec
INVARIANTS NeverSleepsOnItsQueue NoLostWakeUp
PROPERTIES ScheduledEventuallyRuns ImplementsMailbox
CHECK_DEADLOCK FALSE
