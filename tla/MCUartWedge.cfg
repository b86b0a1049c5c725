CONSTANTS
  evm = evm
  work = work
  Threads <- MCThreads
  Priority <- MCPriority
  Uses <- MCUses
  Lengths <- MCLengths
  PipeSize = 2
  FifoSize = 1
  Trigger = 0
  MaxSends = 2
  MaxDepth = 2
SPECIFICATION FairSpec
PROPERTY OutputSent
