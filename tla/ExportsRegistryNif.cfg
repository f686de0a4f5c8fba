\* finish_loading of beam_lib and a call of its NIF.
CONSTANTS
  Mods <- MCMods
  Exported <- MCExported
  BifMFAs <- MCBifMFAs
  NifMod = "beam_lib"
  NifFuns <- MCNifFuns
  Loaders <- MCLoadersOne
  Ops <- MCOpsNif
  Callers = {"c1"}
  CallMFAs <- MCCallNif
  MaxCalls = 1
  None = None
SPECIFICATION Spec
INVARIANT NoStubCall
CHECK_DEADLOCK FALSE
