------------------------- MODULE MCBitstringMatch -------------------------
(* Model values for BitstringMatch.tla. *)
EXTENDS BitstringMatch

(* Bytes at the boundaries of the UTF-8 and UTF-16 tables: ASCII, the     *)
(* continuation range with the E0/ED/F0 second-byte limits 9F/A0 (and 80, *)
(* a lead no sequence starts with), the two-, three- and four-byte leads,  *)
(* and the surrogate halves D8/DC.                                         *)
MCUtfBytes == {65, 128, 159, 160, 191, 194, 224, 237, 240, 216, 220}

(* Four-byte sequences: U+1F600 in UTF-8, an overlong and a too large     *)
(* four-byte form, a surrogate pair in both byte orders and an unpaired   *)
(* high surrogate, and +infinity as a big-endian f32.                     *)
MCUtfQuads == {<<240, 159, 152, 128>>, <<240, 143, 191, 191>>, <<244, 144, 128, 128>>,
               <<216, 61, 222, 0>>, <<61, 216, 0, 222>>, <<216, 61, 0, 65>>,
               <<127, 128, 0, 0>>}

MCUtfData == [1 .. 3 -> MCUtfBytes] \cup MCUtfQuads

(* The whole binary, an unaligned view, and an aligned view that ends     *)
(* before the binary does.                                                 *)
MCViews == {[kind |-> "bin", start |-> 0, nbits |-> 0],
            [kind |-> "sub", start |-> 3, nbits |-> 20],
            [kind |-> "sub", start |-> 8, nbits |-> 16]}

MCUnsigned == {[endian |-> "big", signed |-> FALSE], [endian |-> "little", signed |-> FALSE]}
MCEndians == {"big", "little"}

(* Data for the reads of bits: a pattern that tells bit order and byte    *)
(* order apart and holds a finite f64 in either byte order, and a NaN    *)
(* for get_float.                                                         *)
MCBitData == [1 .. 3 -> {0, 129, 255}] \cup {<<1, 2, 3, 4, 5, 6, 7, 8>>, <<127, 255, 0, 0>>}

(* Data and views for the runs that each isolate one behaviour. *)
MCViewBin == {[kind |-> "bin", start |-> 0, nbits |-> 0]}
MCViewUnaligned == {[kind |-> "sub", start |-> 3, nbits |-> 16]}
MCBigUnsigned == {[endian |-> "big", signed |-> FALSE]}
MCDataWide == {<<1, 2, 3, 4, 5, 6>>}
MCDataFF == {<<255, 255>>}
MCDataPattern == {<<240, 15, 170>>}
MCDataBadLead == {<<128, 65>>}
MCSizes3 == {3}
MCSizes8 == {8}
MCSizes40 == {40}
MCSizes1 == {1}
MCNone == {}
=============================================================================
