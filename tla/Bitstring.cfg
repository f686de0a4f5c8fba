\* The writable-capability discipline of append over aliased registers.
\* A panic ends the process, so a state after one has no successor.
CONSTANTS
  NRegs = 3
  MaxBins = 3
  MaxSubs = 4
  InitSizes <- MCInitSizesSmall
  BuildSizes <- MCBuildSizesSmall
  Units <- MCUnits
  PutSizes <- MCPutSizesSmall
  Endians <- MCEndiansSmall
  IntValues <- MCIntValues
  Payloads <- MCPayloadsNone
  FloatImages <- MCFloatImagesNone
  MinCopyBytes = 256
  MaxTermBits = 24
  LitBytes <- MCLitBytesShort
  LitViews <- MCLitViews
INIT Init
NEXT Next
INVARIANTS
  TypeOK
  WritableUnique
  BuilderOwnsTarget
VIEW MCCapabilityView
CHECK_DEADLOCK FALSE
