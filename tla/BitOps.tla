------------------------------- MODULE BitOps -------------------------------
(***************************************************************************)
(* The bit primitive copy_bits of src/src/bitstring.rs (1448-1578) and the *)
(* macros it is built from (10-43), as operators over bytes.              *)
(*                                                                         *)
(* Memory is abstracted to byte-addressed functions: the source src maps *)
(* each address a copy may read to the byte there (whatever lies there, in *)
(* or out of the Vec), the destination a function from the addresses of  *)
(* its buffer to bytes.  A pointer is an address; `ptr.offset(dir)` adds  *)
(* dir.  A u8 shift keeps the low 8 bits, as Rust's << on u8 does for a   *)
(* shift below 8; every shift copy_bits makes is below 8.                 *)
(*                                                                         *)
(* CopyBits returns the new destination and the sets of source addresses *)
(* read and destination addresses written, so that a caller can tell a   *)
(* read or a write outside its buffers.                                   *)
(***************************************************************************)
EXTENDS Integers, Bitwise, TLC

(* byte_offset!, bit_offset! *)
ByteOffset(x) == x \div 8
BitOffset(x) == x % 8

(* make_mask!(n): n low bits set, computed in u16 then truncated. *)
MakeMask(n) == (2^n - 1) % 256

(* u8 << k and u8 >> k for 0 <= k < 8. *)
Shl(x, k) == (x * 2^k) % 256
Shr(x, k) == x \div 2^k

(* The bytewise | and & of Bitwise, tabulated once over the bytes. *)
OrTable == [x \in 0 .. 255 |-> [y \in 0 .. 255 |-> x | y]]
AndTable == [x \in 0 .. 255 |-> [y \in 0 .. 255 |-> x & y]]
BOr(x, y) == OrTable[x][y]
BAnd(x, y) == AndTable[x][y]

(* !mask on a u8 *)
Flip(m) == 255 - m

(* mask_bits!(src, dst, mask) *)
MaskBits(s, d, m) == BOr(BAnd(s, m), BAnd(d, Flip(m)))

(* The addresses dp, dp + ddir, ... of k successive destination bytes. *)
Stride(p, dir, k) == {p + dir * j : j \in 0 .. k - 1}

(* Index j of address a in a walk from p with step dir (dir is 1 or -1). *)
StepOf(a, p, dir) == (a - p) * dir

(* The bytes of w written over D; an address outside D is written too (a  *)
(* buffer overflow) and is reported through DOMAIN w.                     *)
Store(D, w) == [a \in DOMAIN D |-> IF a \in DOMAIN w THEN w[a] ELSE D[a]]

Result(D, w, reads) == [dst |-> Store(D, w), reads |-> reads, writes |-> DOMAIN w]

-----------------------------------------------------------------------------
(* All bits land in one destination byte (doffs + n < 8). *)
CopyInByte(src, sp, so, sdir, D, dp, do, n, lmask, rmask) ==
  LET m == IF BAnd(lmask, rmask) > 0 THEN BAnd(lmask, rmask) ELSE BOr(lmask, rmask)
      twoBytes == so > do /\ so + n > 8
      bits == CASE so = do -> src[sp]
                [] so > do -> IF twoBytes
                              THEN BOr(Shl(src[sp], so - do), Shr(src[sp + sdir], 8 - (so - do)))
                              ELSE Shl(src[sp], so - do)
                [] OTHER -> Shr(src[sp], do - so)
  IN  Result(D, dp :> MaskBits(bits, D[dp], m),
             IF twoBytes THEN {sp, sp + sdir} ELSE {sp})

(* Source and destination have the same bit offset: a masked first byte,  *)
(* count whole bytes, a masked last byte.                                 *)
CopyAligned(src, sp, sdir, D, dp, ddir, lmask, rmask, count) ==
  LET f == IF lmask > 0 THEN 1 ELSE 0
      last == f + count                 \* the step of the masked last byte
      k == last + (IF rmask > 0 THEN 1 ELSE 0)
      Byte(j) == CASE f = 1 /\ j = 0 -> MaskBits(src[sp], D[dp], lmask)
                   [] j = last -> MaskBits(src[sp + sdir * j], D[dp + ddir * j], rmask)
                   [] OTHER -> src[sp + sdir * j]
  IN  Result(D, [a \in Stride(dp, ddir, k) |-> Byte(StepOf(a, dp, ddir))],
             Stride(sp, sdir, k))

(* The bits are shifted into place: every destination byte joins the tail *)
(* of the previous source byte with the head of the next one.             *)
CopyShifted(src, sp, so, sdir, D, dp, do, ddir, n, lmask, rmask, count) ==
  LET lshift == IF so > do THEN so - do ELSE 8 - (do - so)
      rshift == IF so > do THEN 8 - (so - do) ELSE do - so
      first == IF so > do THEN src[sp] ELSE 0
      sp1 == IF so > do /\ so + n > 8 THEN sp + sdir ELSE sp
      f == IF lmask > 0 THEN 1 ELSE 0
      full == f + count                 \* bytes written by the first step and the loop
      In(j) == src[sp1 + sdir * j]      \* the j-th byte the loop reads
      Prev(j) == IF j = 0 THEN first ELSE In(j - 1)
      Joined(j) == BOr(Shl(Prev(j), lshift), Shr(In(j), rshift))
      tailReads == Shl(rmask, rshift) > 0
      Tail == IF tailReads THEN Joined(full) ELSE Shl(Prev(full), lshift)
      Byte(j) == CASE f = 1 /\ j = 0 -> MaskBits(Joined(0), D[dp], lmask)
                   [] j < full -> Joined(j)
                   [] OTHER -> MaskBits(Tail, D[dp + ddir * j], rmask)
      k == full + (IF rmask > 0 THEN 1 ELSE 0)
  IN  Result(D, [a \in Stride(dp, ddir, k) |-> Byte(StepOf(a, dp, ddir))],
             (IF so > do THEN {sp} ELSE {})
             \cup Stride(sp1, sdir, full)
             \cup (IF rmask > 0 /\ tailReads THEN {sp1 + sdir * full} ELSE {}))

(* copy_bits(src, soffs, sdir, dst, doffs, ddir, n): sb and db are the    *)
(* addresses src and dst point to.                                         *)
CopyBits(src, sb, soffs, sdir, D, db, doffs, ddir, n) ==
  LET sp == sb + sdir * ByteOffset(soffs)
      dp == db + ddir * ByteOffset(doffs)
      so == BitOffset(soffs)
      do == BitOffset(doffs)
      deoffs == BitOffset(do + n)
      lmask == IF do > 0 THEN MakeMask(8 - do) ELSE 0
      rmask == IF deoffs > 0 THEN Shl(MakeMask(deoffs), 8 - deoffs) ELSE 0
      count == (IF lmask > 0 THEN n - (8 - do) ELSE n) \div 8
  IN  CASE n = 0 -> Result(D, <<>>, {})
        [] do + n < 8 -> CopyInByte(src, sp, so, sdir, D, dp, do, n, lmask, rmask)
        [] so = do -> CopyAligned(src, sp, sdir, D, dp, ddir, lmask, rmask, count)
        [] OTHER -> CopyShifted(src, sp, so, sdir, D, dp, do, ddir, n, lmask, rmask, count)

=============================================================================
