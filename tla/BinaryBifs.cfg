\* binary:part, split, match, matches, copy, first, last and
\* longest_common_prefix over chains of sub-binaries.
SPECIFICATION MCSpec
CONSTANTS
  Data <- MCData
  InitViews <- MCInitViews
  Positions <- MCPositions
  Lens <- MCLens
  Counts = {0, 2}
  Patterns <- MCPatterns
  Opts <- MCOpts
  LcpArgs <- MCLcpArgs
  MaxTerms = 5
INVARIANTS
  TypeOK
  TermsDenote
  SplitReassembles
  ValuesAgree
\* A panic ends the process, so the run stops there.
CHECK_DEADLOCK FALSE
