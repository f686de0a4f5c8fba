-------------------------- MODULE AbstractExports --------------------------
(***************************************************************************)
(* What the module registry promises its callers (spec 4.5): a batch of    *)
(* modules handed to finish_loading, or the single module of load_bytes,  *)
(* becomes visible in one step, and a lookup of an MFA resolves to the     *)
(* BIF when there is one, else to the bytecode entry of a loaded module    *)
(* that exports it, else to nothing.                                       *)
(***************************************************************************)
EXTENDS FiniteSets

CONSTANTS
  Mods,        \* module name atoms
  Exported,    \* [Mods -> Seq(function)]: the exports vector of each module
  BifMFAs,     \* the MFAs registered as BIFs at start-up
  Batches,     \* the sets of modules loaded together
  Callers,     \* processes that call through the exports table
  CallMFAs     \* the MFAs they call

VARIABLES
  loaded,      \* the modules whose exports are visible
  result       \* what each caller's last lookup returned

avars == <<loaded, result>>

NoResult == [mfa |-> <<"none", "none">>, kind |-> "none"]

ExportsFun(m, f) == \E i \in DOMAIN Exported[m] : Exported[m][i] = f

(* The export a lookup of mfa finds when the modules in ls are loaded. *)
Resolution(mfa, ls) ==
  IF mfa \in BifMFAs THEN "bif"
  ELSE IF mfa[1] \in ls /\ ExportsFun(mfa[1], mfa[2]) THEN "fun"
  ELSE "none"

Init ==
  /\ loaded = {}
  /\ result = [c \in Callers |-> NoResult]

LoadBatch(B) ==
  /\ B \cap loaded = {}
  /\ loaded' = loaded \cup B
  /\ UNCHANGED result

Resolve(c, mfa) ==
  /\ result' = [result EXCEPT ![c] = [mfa |-> mfa, kind |-> Resolution(mfa, loaded)]]
  /\ UNCHANGED loaded

Next ==
  \/ \E B \in Batches : LoadBatch(B)
  \/ \E c \in Callers, mfa \in CallMFAs : Resolve(c, mfa)

Spec == Init /\ [][Next]_avars
=============================================================================
