---------------------------- MODULE MCArenaHeap ----------------------------
(* The arena scaled by 1/512: a default block has 64 data bytes and the    *)
(* 40-byte header of a 64-bit build.                                       *)
EXTENDS ArenaHeap

(* A byte, a word, a 16-aligned value, a value that fits no block's data   *)
(* but is below the default block size, and a value needing a special      *)
(* block whose size is not a multiple of 8.                                *)
MCRequests ==
  {[size |-> 1, align |-> 1], [size |-> 8, align |-> 8], [size |-> 16, align |-> 16],
   [size |-> 72, align |-> 8], [size |-> 106, align |-> 2]}
====
