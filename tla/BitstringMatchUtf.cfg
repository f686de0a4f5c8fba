\* get_utf8 and get_utf16 against the Unicode definitions, over every get.
CONSTANTS
  DataSet <- MCUtfData
  Views <- MCViews
  ByteCounts <- MCSizes1
  IntSizes = {16}
  IntFlags <- MCUnsigned
  FloatSizes = {32}
  BinSizes = {3}
  Endians <- MCEndians
SPECIFICATION Spec
INVARIANTS TypeOK CursorInWindow FailureKeepsCursor Utf8Decodes Utf16Decodes
CHECK_DEADLOCK FALSE
