CONSTANTS
  i1 = i1
  k1 = k1
  t1 = t1
  t2 = t2
  None = None
  EvmThread = EvmThread
  OneShot = OneShot
  Isrs <- MCIsrs
  Tasks <- MCNoTask
  Timers <- MCTwoTimers
  DueTimes <- MCDueNow
  Periods <- MCZeroUs
  MAX_WORK_ITEMS = 1
  MAX_EVENTS_HANDLED = 1
  CountLimit = 1
  LongSleep = 6
  TickUs = 1
  PortMaxDelay = 15
  MaxDepth = 1
  MaxTime = 1
  MaxRunning = 1
  EvmQueuesWork = FALSE
SPECIFICATION FairSpec
PROPERTY TimerServed
