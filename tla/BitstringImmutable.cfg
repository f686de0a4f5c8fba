\* Two in-place appends to one binary, the older term kept in a register,
\* and byte puts after each.
CONSTANTS
  NRegs = 2
  MaxBins = 3
  MaxSubs = 4
  InitSizes <- MCSizes2
  BuildSizes <- MCSizes8
  Units <- MCUnitsPuts
  PutSizes <- MCSizesNone
  Endians <- MCEndiansBig
  IntValues <- MCIntValues
  Payloads <- MCPayloadsTwo
  FloatImages <- MCFloatImagesNone
  MinCopyBytes = 256
  MaxTermBits = 32
  LitBytes <- MCLitBytesEmpty
  LitViews <- MCLitViewsNone
INIT Init
NEXT Next
PROPERTY
  TermsImmutable
CHECK_DEADLOCK FALSE
