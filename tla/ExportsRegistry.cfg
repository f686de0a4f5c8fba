\* Loads of every kind against two callers: the refinement of AbstractExports
\* for single-module loads (BIF precedence included), and termination under
\* the locks' fairness.  The bounded loads and calls end, so the system stops.
CONSTANTS
  Mods <- MCMods
  Exported <- MCExported
  BifMFAs <- MCBifMFAs
  NifMod = "beam_lib"
  NifFuns <- MCNifFuns
  Loaders <- MCLoaders
  Ops <- MCOps
  Callers = {"c1", "c2"}
  CallMFAs <- MCCallMFAs
  MaxCalls = 2
  None = None
SPECIFICATION Spec
PROPERTIES ImplementsAbstractExports AllFinish
CHECK_DEADLOCK FALSE
