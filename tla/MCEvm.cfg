CONSTANTS
  i1 = i1
  k1 = k1
  t1 = t1
  t2 = t2
  None = None
  EvmThread = EvmThread
  OneShot = OneShot
  Isrs <- MCIsrs
  Tasks <- MCTask
  Timers <- MCOneTimer
  DueTimes <- MCThreeUs
  Periods <- MCOneUs
  MAX_WORK_ITEMS = 1
  MAX_EVENTS_HANDLED = 1
  CountLimit = 1
  LongSleep = 6
  TickUs = 2
  PortMaxDelay = 15
  MaxDepth = 2
  MaxTime = 4
  MaxRunning = 2
  EvmQueuesWork = FALSE
SPECIFICATION FairSpec
PROPERTIES
  Served
INVARIANTS
  NoLostWakeup
  NoSleepAfterExit
  SleepNotPastDeadline
