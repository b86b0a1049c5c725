CONSTANTS
  h1 = h1
  h2 = h2
  NoHandle = NoHandle
  Handles <- MCHandles
  Notified <- MCHandles
  ServiceLists <- MCServiceLists
  Versions <- MCVersions
  Length <- MCLength
  Chunk = 2
  WRITE_BUF_SIZE = 2
  Sizes = {0, 1}
  QueueSize = 2
  GoesOn = FALSE
SPECIFICATION FairSpec
INVARIANTS
  NoStrayAccess
PROPERTIES
  ReadsAreWhole
  WritesDelivered
  RequestsServed
CHECK_DEADLOCK FALSE
