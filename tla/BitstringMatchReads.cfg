\* get_binary, get_integer and get_float read the window at the cursor (get_float through copy_bits, forward or backward); get_binary_all runs beside them.
CONSTANTS
  DataSet <- MCBitData
  Views <- MCViews
  ByteCounts <- MCNone
  IntSizes = {0, 5, 8, 16, 24, 64}
  IntFlags <- MCUnsigned
  FloatSizes = {0, 16, 32, 64}
  BinSizes = {3, 8}
  Endians <- MCEndians
SPECIFICATION Spec
INVARIANT ReadAtCursor
CHECK_DEADLOCK FALSE
