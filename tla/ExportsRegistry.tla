-------------------------- MODULE ExportsRegistry --------------------------
(***************************************************************************)
(* The module registry and the exports table shared by all schedulers     *)
(* (src/enigma/src/module.rs, exports_table.rs, bif/load.rs).             *)
(*                                                                         *)
(* Loader processes run load_bytes or finish_loading; every other process *)
(* calls functions: it looks the MFA up in the exports table under the    *)
(* read lock and then runs the code the export points to, holding no      *)
(* lock.  The registry is a parking_lot Mutex and the exports table a     *)
(* parking_lot RwLock; a step of a loader is what it does between two     *)
(* lock operations, or one iteration of a loop under a lock.              *)
(***************************************************************************)
EXTENDS Integers, Sequences, FiniteSets

CONSTANTS
  Mods,        \* module name atoms
  Exported,    \* [Mods -> Seq(function)]: the exports vector of each module
  BifMFAs,     \* the MFAs of bif::BIFS
  NifMod,      \* atom::BEAM_LIB, the module whose NIFs are patched in
  NifFuns,     \* the functions of bif::NIFS for it, as a sequence
  Loaders,     \* loader processes
  Ops,         \* [Loaders -> [kind : {"bytes", "finish"}, mods : Seq(Mods)]]
  Callers,     \* calling processes
  CallMFAs,    \* the MFAs they call
  MaxCalls,    \* calls per caller
  None

ASSUME /\ \A l \in Loaders : Ops[l].kind = "bytes" => Len(Ops[l].mods) = 1
       /\ \A l \in Loaders : Len(Ops[l].mods) >= 1
       \* each module is loaded once, and exports something that is not a BIF
       /\ \A l1, l2 \in Loaders : \A i \in DOMAIN Ops[l1].mods, j \in DOMAIN Ops[l2].mods :
            Ops[l1].mods[i] = Ops[l2].mods[j] => l1 = l2 /\ i = j
       /\ \A m \in Mods : \E i \in DOMAIN Exported[m] : <<m, Exported[m][i]>> \notin BifMFAs

VARIABLES
  modLock,     \* the holder of vm.modules, or None
  expWriter,   \* the holder of the write lock of vm.exports, or None
  registry,    \* the modules added to the registry
  exports,     \* the exports table: MFA -> "none", "bif" or "fun"
  patched,     \* the NIF stubs replaced by CallBifOnly
  lpc,         \* where each loader is
  lidx,        \* the index of the module a loader is at in its batch
  todo,        \* what is left of the loop a loader runs under a lock
  cpc,         \* where each caller is: "idle" or "resolved"
  cres,        \* what each caller's last lookup returned
  outcome,     \* how each caller's last call ended
  ncalls,      \* calls made by each caller
  visible      \* history: the modules whose exports the table showed when
               \* its write lock was last free

vars == <<modLock, expWriter, registry, exports, patched, lpc, lidx, todo,
          cpc, cres, outcome, ncalls, visible>>

AllMFAs == UNION {{<<m, Exported[m][i]>> : i \in DOMAIN Exported[m]} : m \in Mods} \cup BifMFAs \cup CallMFAs
NoResult == [mfa |-> <<"none", "none">>, kind |-> "none"]

CurMod(l) == Ops[l].mods[lidx[l]]

(* ExportsTable::with_rc: the table starts with every BIF. *)
WithRc == [mfa \in AllMFAs |-> IF mfa \in BifMFAs THEN "bif" ELSE "none"]

(* ExportsTable::register *)
Register(mfa) == exports' = [exports EXCEPT ![mfa] = "fun"]

(* ExportsTable::lookup *)
Lookup(mfa) == exports[mfa]

(* The modules all of whose exports are in the table. *)
LoadedMods ==
  {m \in Mods : \A i \in DOMAIN Exported[m] :
                  <<m, Exported[m][i]>> \in BifMFAs \/ exports[<<m, Exported[m][i]>>] = "fun"}

Init ==
  /\ modLock = None
  /\ expWriter = None
  /\ registry = {}
  /\ exports = WithRc
  /\ patched = {}
  /\ lpc = [l \in Loaders |-> "start"]
  /\ lidx = [l \in Loaders |-> 1]
  /\ todo = [l \in Loaders |-> <<>>]
  /\ cpc = [c \in Callers |-> "idle"]
  /\ cres = [c \in Callers |-> NoResult]
  /\ outcome = [c \in Callers |-> "none"]
  /\ ncalls = [c \in Callers |-> 0]
  /\ visible = {}

LoaderVars == <<modLock, expWriter, registry, exports, patched, lpc, lidx, todo>>
CallerVars == <<cpc, cres, outcome, ncalls>>

Goto(l, pc) == lpc' = [lpc EXCEPT ![l] = pc]

-----------------------------------------------------------------------------
(***************************************************************************)
(* load_bytes: both locks are taken, the module is parsed into the        *)
(* registry and its exports processed, and both guards drop on return.    *)
(***************************************************************************)
LoadBytes(l) ==
  /\ lpc[l] = "start" /\ Ops[l].kind = "bytes"
  /\ modLock = None
  /\ modLock' = l
  /\ Goto(l, "lb_lock_exp")
  /\ UNCHANGED <<expWriter, registry, exports, patched, lidx, todo, CallerVars>>

LoadBytesParse(l) ==
  /\ lpc[l] = "lb_lock_exp"
  /\ expWriter = None
  /\ expWriter' = l
  /\ registry' = registry \cup {CurMod(l)}
  /\ todo' = [todo EXCEPT ![l] = Exported[CurMod(l)]]
  /\ Goto(l, "export")
  /\ UNCHANGED <<modLock, exports, patched, lidx, CallerVars>>

(***************************************************************************)
(* finish_loading_1 hands the prepared modules to                         *)
(* finish_loading_modules, which takes the registry lock for each module, *)
(* adds it, processes its exports under the write lock, drops that lock,  *)
(* patches the NIFs of beam_lib under the write lock again, and drops the *)
(* registry lock at the end of the iteration.                             *)
(***************************************************************************)
FinishLoading(l) ==
  /\ lpc[l] = "start" /\ Ops[l].kind = "finish"
  /\ lidx' = [lidx EXCEPT ![l] = 1]
  /\ Goto(l, "lock_mods")
  /\ UNCHANGED <<modLock, expWriter, registry, exports, patched, todo, CallerVars>>

AddModule(l) ==
  /\ lpc[l] = "lock_mods"
  /\ modLock = None
  /\ modLock' = l
  /\ registry' = registry \cup {CurMod(l)}
  /\ Goto(l, "lock_exp")
  /\ UNCHANGED <<expWriter, exports, patched, lidx, todo, CallerVars>>

LockExports(l) ==
  /\ lpc[l] = "lock_exp"
  /\ expWriter = None
  /\ expWriter' = l
  /\ todo' = [todo EXCEPT ![l] = Exported[CurMod(l)]]
  /\ Goto(l, "export")
  /\ UNCHANGED <<modLock, registry, exports, patched, lidx, CallerVars>>

(* Mutant: the BIF override is not checked. *)
ProcessExportNoBifCheck(l) ==
  LET mfa == <<CurMod(l), Head(todo[l])>> IN
  /\ lpc[l] = "export" /\ todo[l] # <<>>
  /\ Register(mfa)
  /\ todo' = [todo EXCEPT ![l] = Tail(@)]
  /\ UNCHANGED <<modLock, expWriter, registry, patched, lpc, lidx, CallerVars>>

(* One iteration of process_exports: an export that is not a BIF is       *)
(* registered with a pointer to its label.                                *)
ProcessExport(l) ==
  LET mfa == <<CurMod(l), Head(todo[l])>> IN
  /\ lpc[l] = "export" /\ todo[l] # <<>>
  /\ IF mfa \in BifMFAs THEN UNCHANGED exports ELSE Register(mfa)
  /\ todo' = [todo EXCEPT ![l] = Tail(@)]
  /\ UNCHANGED <<modLock, expWriter, registry, patched, lpc, lidx, CallerVars>>

(* Mutant: the exports guard is kept past the end of its block. *)
ExportsDoneKeepLock(l) ==
  /\ lpc[l] = "export" /\ todo[l] = <<>>
  /\ IF Ops[l].kind = "bytes"
     THEN /\ expWriter' = None /\ modLock' = None /\ Goto(l, "done")
     ELSE /\ UNCHANGED <<expWriter, modLock>>
          /\ Goto(l, IF CurMod(l) = NifMod THEN "nif_lock" ELSE "unlock_mods")
  /\ UNCHANGED <<registry, exports, patched, lidx, todo, CallerVars>>

(* The end of process_exports: load_bytes returns and drops both guards;  *)
(* finish_loading_modules drops the exports guard and goes on to the NIFs *)
(* of beam_lib.                                                            *)
ExportsDone(l) ==
  /\ lpc[l] = "export" /\ todo[l] = <<>>
  /\ expWriter' = None
  /\ IF Ops[l].kind = "bytes"
     THEN modLock' = None /\ Goto(l, "done")
     ELSE /\ UNCHANGED modLock
          /\ Goto(l, IF CurMod(l) = NifMod THEN "nif_lock" ELSE "unlock_mods")
  /\ UNCHANGED <<registry, exports, patched, lidx, todo, CallerVars>>

(* load_nifs takes the write lock and, for each NIF, overwrites the       *)
(* instruction after its func_info with CallBifOnly.                      *)
LoadNifsLock(l) ==
  /\ lpc[l] = "nif_lock"
  /\ expWriter = None
  /\ expWriter' = l
  /\ todo' = [todo EXCEPT ![l] = NifFuns]
  /\ Goto(l, "patch")
  /\ UNCHANGED <<modLock, registry, exports, patched, lidx, CallerVars>>

LoadNif(l) ==
  /\ lpc[l] = "patch" /\ todo[l] # <<>>
  /\ patched' = patched \cup {<<CurMod(l), Head(todo[l])>>}
  /\ todo' = [todo EXCEPT ![l] = Tail(@)]
  /\ UNCHANGED <<modLock, expWriter, registry, exports, lpc, lidx, CallerVars>>

LoadNifsDone(l) ==
  /\ lpc[l] = "patch" /\ todo[l] = <<>>
  /\ expWriter' = None
  /\ Goto(l, "unlock_mods")
  /\ UNCHANGED <<modLock, registry, exports, patched, lidx, todo, CallerVars>>

(* The registry guard drops at the end of the loop body. *)
UnlockModules(l) ==
  /\ lpc[l] = "unlock_mods"
  /\ modLock' = None
  /\ IF lidx[l] = Len(Ops[l].mods)
     THEN Goto(l, "done") /\ UNCHANGED lidx
     ELSE Goto(l, "lock_mods") /\ lidx' = [lidx EXCEPT ![l] = @ + 1]
  /\ UNCHANGED <<expWriter, registry, exports, patched, todo, CallerVars>>

-----------------------------------------------------------------------------
(***************************************************************************)
(* Callers.  A call looks the MFA up under the read lock (the guard lives *)
(* for the lookup only) and then runs what it found, without a lock.      *)
(***************************************************************************)
Call(c, mfa) ==
  /\ cpc[c] = "idle" /\ ncalls[c] < MaxCalls
  /\ expWriter = None
  /\ cres' = [cres EXCEPT ![c] = [mfa |-> mfa, kind |-> Lookup(mfa)]]
  /\ cpc' = [cpc EXCEPT ![c] = "resolved"]
  /\ ncalls' = [ncalls EXCEPT ![c] = @ + 1]
  /\ UNCHANGED <<outcome, LoaderVars>>

(* Running the export: a BIF, the bytecode (the NIF stub when the         *)
(* instruction after func_info has not been replaced yet), or undef.      *)
Run(c) ==
  LET r == cres[c]
      stub == r.mfa[1] = NifMod /\ (\E i \in DOMAIN NifFuns : NifFuns[i] = r.mfa[2])
              /\ r.mfa \notin patched
  IN  /\ cpc[c] = "resolved"
      /\ outcome' = [outcome EXCEPT ![c] =
                       CASE r.kind = "none" -> "undef"
                         [] r.kind = "fun" /\ stub -> "nif_stub"
                         [] OTHER -> "ok"]
      /\ cpc' = [cpc EXCEPT ![c] = "idle"]
      /\ UNCHANGED <<cres, ncalls, LoaderVars>>

-----------------------------------------------------------------------------
Loader(l) ==
  \/ LoadBytes(l) \/ LoadBytesParse(l)
  \/ FinishLoading(l) \/ AddModule(l) \/ LockExports(l)
  \/ ProcessExport(l) \/ ExportsDone(l)
  \/ LoadNifsLock(l) \/ LoadNif(l) \/ LoadNifsDone(l)
  \/ UnlockModules(l)

Caller(c) == (\E mfa \in CallMFAs : Call(c, mfa)) \/ Run(c)

(* A caller reads the table only under the read lock, so what it can see *)
(* changes only at the steps after which the write lock is free.          *)
Publish == visible' = IF expWriter' = None THEN LoadedMods' ELSE visible

LoaderStep(l) == Loader(l) /\ Publish
CallerStep(c) == Caller(c) /\ Publish

Next == (\E l \in Loaders : LoaderStep(l)) \/ (\E c \in Callers : CallerStep(c))

(* Both locks are parking_lot locks, which hand the lock to a waiting     *)
(* thread at the latest after a bounded time (eventual fairness): a       *)
(* thread that can take a lock infinitely often takes it.                 *)
Fairness == /\ \A l \in Loaders : SF_vars(LoaderStep(l))
            /\ \A c \in Callers : SF_vars(CallerStep(c))

Spec == Init /\ [][Next]_vars /\ Fairness

-----------------------------------------------------------------------------
(***************************************************************************)
(* Properties.                                                             *)
(***************************************************************************)
Abs == INSTANCE AbstractExports
         WITH loaded <- visible, result <- cres,
              Batches <- {{Ops[l].mods[i] : i \in DOMAIN Ops[l].mods} : l \in Loaders}

(* Spec 4.5: the registry implements AbstractExports.  The abstract       *)
(* loaded set is what a caller can observe: the modules whose exports are *)
(* all in the table when the write lock is free.  Every module of a batch *)
(* becomes observable in the same step, no caller sees a module with only *)
(* part of its exports, and a lookup of a BIF finds the BIF.              *)
ImplementsAbstractExports == Abs!Spec

(* Spec 4.5: NIF patching happens at load time under the exports lock, so *)
(* a call that finds beam_lib's export runs the NIF, never the stub.      *)
NoStubCall == \A c \in Callers : outcome[c] # "nif_stub"

(* Every load finishes and every caller makes its calls: no thread waits *)
(* forever on the registry mutex or the exports lock.                    *)
AllFinish ==
  <>(/\ \A l \in Loaders : lpc[l] = "done"
     /\ \A c \in Callers : ncalls[c] = MaxCalls /\ cpc[c] = "idle")
=============================================================================
