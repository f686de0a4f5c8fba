\* split_binary/2 with the other BIFs: its prefix aliases the wrong bytes.
SPECIFICATION Spec
CONSTANTS
  Data <- MCData
  InitViews <- MCInitViews
  Positions <- MCPositions
  Lens <- MCLens
  Counts = {0, 2}
  Patterns <- MCPatterns
  Opts <- MCOpts
  LcpArgs <- MCLcpArgs
  MaxTerms = 5
INVARIANTS
  TermsDenote
CHECK_DEADLOCK FALSE
