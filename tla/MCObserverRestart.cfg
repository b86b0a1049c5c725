CONSTANTS
  None = None
  Never = Never
  vbus = vbus
  led = led
  led2 = led2
  o1 = o1
  o2 = o2
  i1 = i1
  e1 = e1
  Delays <- MCDelays
  Times <- MCTimes
  MaxDelay = 2
  MaxSteps = 3
  Counts <- MCCounts
  Width = 4
  OnOffTimes <- MCOnOffTimes
  CallsInside = FALSE
  Pins <- MCPins
  PIN_COUNT = PIN_COUNT
  Objects <- MCObjects
  Vbus = vbus
  pVbus_ = pVbus_
  temporary = temporary
  DEBOUNCE_TIME_MS = 1
  MaxQueued = 2
  CleanEdges = TRUE
  Callers <- MCCallers
  ThreadLabel = ThreadLabel
  COUNT_LIMIT = 4
  NoJob = NoJob
  r1 = r1
  r2 = r2
  Reports <- MCReports
  Filters <- MCFilters
  NoData = NoData
  Nothing = Nothing
  MAX_EVENTS = 3
  MAX_WORK_ITEMS = 2
  LastPushedOut = FALSE
  FifoSize = 2
  PacketSize = 1
  Capacities <- MCCapacities
  MaxLen = 3
  Modulus = 8
  SendsInErase = FALSE
  Lines <- MCLines
  Commands <- MCCommands
  MAX_HISTORY_SIZE = 2
  NumLimit = 4
  t1 = t1
  t2 = t2
  n2 = n2
  workThread = workThread
  Reporters = {evmThread, workThread}
  EventNames = {n1, n2}
  ResetEvent = ResetEvent
  NoEvent = NoEvent
  MaxEvents <- MCMaxEvents
  IndexLimit = 4
  Recorders = {t1, t2}
  MaxLate = 2
  Bands <- MCBands
  Channels <- MCChannels
  Messages <- MCMessages
SPECIFICATION Spec
INVARIANT EventPending
CHECK_DEADLOCK FALSE
