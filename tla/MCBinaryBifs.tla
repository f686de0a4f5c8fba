---------------------------- MODULE MCBinaryBifs ----------------------------
(* A four-byte binary, the whole of it, a byte-aligned sub-binary of its  *)
(* middle, and a sub-binary three bits in, as bit syntax leaves one.      *)
EXTENDS BinaryBifs

MCData == <<1, 2, 1, 2>>

MCInitViews ==
  <<[offset |-> 0, bit_offset |-> 0, size |-> 4, bitsize |-> 0],
    [offset |-> 1, bit_offset |-> 0, size |-> 2, bitsize |-> 0],
    [offset |-> 0, bit_offset |-> 3, size |-> 2, bitsize |-> 0]>>

(* <<2>> | <<1,2>> matches <<1,2>> at 0 though <<2>> occurs at 1; <<2>>  *)
(* alone ends the subject with a match; <<255>> is not UTF-8.             *)
MCPatterns == {<<<<2>>, <<1, 2>>>>, <<<<2>>>>, <<<<255>>>>}

(* pos -1 is badarg; len -2 counts back. *)
MCPositions == {-1, 1, 3}
MCLens == {-2, 1, 2}

MCOpts == {<<>>, <<"global">>, <<"trim">>, <<"scope">>}

(* Term indices: the whole binary with its middle, and with the parts a   *)
(* split or part made of it, some of which share a prefix with it.       *)
MCLcpArgs == {<<>>, <<1, 2>>, <<1, 2, 4>>, <<1, 5>>, <<1, 4, 5>>}

(* The binary module's BIFs without split_binary, whose prefix is wrong. *)
MCSpec == Init /\ [][BinaryNext]_vars
====
