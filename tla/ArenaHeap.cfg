\* Release build: alignment, disjointness and the block chain over every
\* order of five allocations of the scaled request sizes.  The run stops
\* at the bounds and after a header is overwritten.
CONSTANTS
  BlockData = 64
  HeaderSize = 40
  HeaderAlign = 8
  Requests <- MCRequests
  Stride = 512
  UsizeMax = 2147483647
  MaxBlocks = 4
  MaxAllocs = 5
  DebugAssertions = FALSE
INIT Init
NEXT Next
INVARIANTS
  HeadersAligned
  AllocsAligned
  AllocsDisjoint
  ChainLinksAll
CHECK_DEADLOCK FALSE
