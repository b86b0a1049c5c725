CONSTANTS
  h1 = h1
  h2 = h2
  NoHandle = NoHandle
  Handles <- MCHandles
  Notified <- MCHandles
  ServiceLists <- MCServiceLists
  Versions <- MCVersions
  Length <- MCLength
  Chunk = 2
  WRITE_BUF_SIZE = 8
  Sizes = {1, 2}
  QueueSize = 2
  GoesOn = TRUE
SPECIFICATION Spec
INVARIANTS
  BytesThatCame
CHECK_DEADLOCK FALSE
