SPECIFICATION FairSpec
CONSTANTS
  t1 = t1
  Task = {t1}
  MaxClock = 2
  MaxCalls = 3
  MaxRestarts = 1
INVARIANT NoTimerLeftOver
PROPERTIES CancelledIsNotDispatched ScheduledTaskEnds
CHECK_DEADLOCK FALSE
