---------------------------- MODULE MCBitstring ----------------------------
(* Model values for Bitstring.tla.  The literal is in x0; x1 holds         *)
(* binary:part(Lit, 1, 1) (byte offset 1) and x2 an 11-bit prefix of the   *)
(* literal that a match made (a bitstring with bitsize 3).                 *)
EXTENDS Bitstring

MCLitBytes == <<1, 2, 3>>
MCLitBytesShort == <<1, 2>>
MCLitBytesEmpty == <<>>
MCLitViews == <<[start |-> 8, nbits |-> 8], [start |-> 0, nbits |-> 11]>>
MCLitViewsNone == <<>>
MCInitSizes == {0, 2}
MCBuildSizes == {0, 8, 16}
MCUnits == {1, 8}
MCPutSizes == {8, 16}
MCEndians == {"big", "little"}
MCIntValues == {4660}                      \* 0x1234
MCPayloads == {<<171>>}                    \* 0xAB
MCPayloadsTwo == {<<171>>, <<205>>}       \* 0xAB, 0xCD
MCFloatImages == {<<0, 0, 0, 0, 0, 0, 240, 63>>}   \* 1.0, little-endian

(* Data for the run over every put: a bit-offset view of the literal, a    *)
(* 4-bit put (unimplemented), and a build size that fits a float.          *)
MCLitViewsUnaligned == <<[start |-> 3, nbits |-> 8]>>
MCBuildSizesPuts == {16, 64}
MCInitSizesPuts == {2}
MCUnitsPuts == {1}
MCPutSizesPuts == {4, 8, 16}

(* Data for the runs that each isolate one behaviour of the builder or of *)
(* the copy branch.                                                        *)
MCLitViewsPart == <<[start |-> 8, nbits |-> 8]>>
MCLitViewsPrefix == <<[start |-> 0, nbits |-> 11]>>
MCSizes1 == {1}
MCSizes2 == {2}
MCSizes8 == {8}
MCSizes16 == {16}
MCSizesNone == {}
MCEndiansBig == {"big"}
MCEndiansLittle == {"little"}

(* Small data for the runs about the capability discipline, where the     *)
(* bytes written do not matter, only who may write them.                 *)
MCInitSizesSmall == {0, 1}
MCBuildSizesSmall == {0, 8}
MCPutSizesSmall == {8}
MCEndiansSmall == {"big"}
MCPayloadsNone == {}
MCFloatImagesNone == {}
(* The capability invariants read no data and no history, and neither data *)
(* nor history decides which step is enabled: states that differ only in  *)
(* them are merged.                                                        *)
MCCapabilityView ==
  <<[b \in DOMAIN bins |-> [writable |-> bins[b].writable, len |-> bins[b].len,
                            cap |-> bins[b].cap]],
    subs, regs, bs, pending, target, panicked>>
(* LiteralImmutable reads the data, not the history, and no step's guard   *)
(* or effect on the data reads the history: states that differ only in    *)
(* target, base and built are merged.                                      *)
MCPutsView == <<bins, subs, regs, bs, pending, panicked, faults>>
=============================================================================
