\* Every kind of put and its panics: the shared literal is never written.
\* A panic ends the process, so a state after one has no successor.
CONSTANTS
  NRegs = 2
  MaxBins = 2
  MaxSubs = 3
  InitSizes <- MCInitSizesPuts
  BuildSizes <- MCBuildSizesPuts
  Units <- MCUnitsPuts
  PutSizes <- MCPutSizesPuts
  Endians <- MCEndiansSmall
  IntValues <- MCIntValues
  Payloads <- MCPayloads
  FloatImages <- MCFloatImages
  MinCopyBytes = 256
  MaxTermBits = 80
  LitBytes <- MCLitBytesShort
  LitViews <- MCLitViewsUnaligned
INIT Init
NEXT Next
INVARIANT
  LiteralImmutable
VIEW MCPutsView
CHECK_DEADLOCK FALSE
