\* Safety of the timer list, and that it implements TimerService.
CONSTANTS
  t1 = t1
  t2 = t2
  t3 = t3
  Timers <- MCTimers
  Times <- MCTimes
  Durations <- MCDurations
  Intervals <- MCIntervals
  Snaps <- MCSnaps
  MaxTime = 2
  MaxSeqNo = 5
  MaxRunning = 2
SPECIFICATION Spec
SYMMETRY MCSymmetry
INVARIANTS
  IntervalKeepsGoing
PROPERTIES
  ImplementsService
