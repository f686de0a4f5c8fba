------------------------- MODULE MCExportsRegistry -------------------------
(* Model values for ExportsRegistry.tla: beam_lib with one NIF, a module  *)
(* m2 one of whose exports is also a BIF, and a plain module m3.          *)
EXTENDS ExportsRegistry, TLC

MCMods == {"beam_lib", "m2", "m3"}
MCExported == ("beam_lib" :> <<"f1", "f2">>) @@ ("m2" :> <<"g", "h">>) @@ ("m3" :> <<"k">>)
MCBifMFAs == {<<"m2", "h">>, <<"erlang", "self">>}
MCNifFuns == <<"f1">>

(* One load of each kind, and a second finish_loading that contends for  *)
(* the registry lock.                                                     *)
MCOps == ("l1" :> [kind |-> "finish", mods |-> <<"beam_lib">>])
      @@ ("l2" :> [kind |-> "finish", mods |-> <<"m3">>])
      @@ ("l3" :> [kind |-> "bytes", mods |-> <<"m2">>])
MCLoaders == {"l1", "l2", "l3"}
MCCallMFAs == {<<"beam_lib", "f1">>, <<"m2", "g">>, <<"m2", "h">>, <<"m3", "k">>}

(* A finish_loading of two modules. *)
MCOpsBatch == ("l1" :> [kind |-> "finish", mods |-> <<"m2", "m3">>])
MCLoadersOne == {"l1"}

(* A finish_loading of beam_lib and a call of its NIF. *)
MCOpsNif == ("l1" :> [kind |-> "finish", mods |-> <<"beam_lib">>])
MCCallNif == {<<"beam_lib", "f1">>}
=============================================================================
