\* finish_loading of two modules against AbstractExports.
CONSTANTS
  Mods <- MCMods
  Exported <- MCExported
  BifMFAs <- MCBifMFAs
  NifMod = "beam_lib"
  NifFuns <- MCNifFuns
  Loaders <- MCLoadersOne
  Ops <- MCOpsBatch
  Callers = {"c1"}
  CallMFAs <- MCCallMFAs
  MaxCalls = 1
  None = None
SPECIFICATION Spec
PROPERTY ImplementsAbstractExports
CHECK_DEADLOCK FALSE
