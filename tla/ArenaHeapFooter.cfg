\* Release build: a 72-byte value is below the default block size, so
\* Block::new gives it a default block whose 64 data bytes it overruns.
\* Does every value stay out of the block headers?
CONSTANTS
  BlockData = 64
  HeaderSize = 40
  HeaderAlign = 8
  Requests <- MCRequests
  Stride = 512
  UsizeMax = 2147483647
  MaxBlocks = 4
  MaxAllocs = 5
  DebugAssertions = FALSE
INIT Init
NEXT Next
INVARIANTS
  AllocsInBlock
CHECK_DEADLOCK FALSE
