CONSTANTS
  evm = evm
  work = work
  Threads <- MCThreads
  Priority <- MCPriority
  Uses <- MCUses
  Lengths <- MCLengths
  PipeSize = 3
  FifoSize = 1
  Trigger = 0
  MaxSends = 2
  MaxDepth = 3
SPECIFICATION FairSpec
INVARIANTS
  OutputToTarget
  NoByteStranded
PROPERTIES
  ImplementsChannel
  OutputSent
