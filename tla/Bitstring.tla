------------------------------ MODULE Bitstring ------------------------------
(***************************************************************************)
(* The write side of the bitstring engine (src/src/bitstring.rs): the      *)
(* Arc<Binary> objects, the boxed SubBinary terms that view them, the x    *)
(* registers that point to those terms, and the process's Builder.         *)
(*                                                                         *)
(* Operations: init_writable, append (bs_append, both the in-place and     *)
(* the copy path), private_append, and the Builder's put_integer,          *)
(* put_bytes, put_binary_all and put_float, plus the register move that    *)
(* lets two registers alias one boxed term.                                *)
(*                                                                         *)
(* A Vec<u8> is [len, cap, bytes]: bytes is the written prefix of the      *)
(* data, every byte from Len(bytes) up to len - 1 is zero.  This is exact  *)
(* because Binary::with_size zero-fills and resize fills with zeros.       *)
(***************************************************************************)
EXTENDS Integers, Sequences, FiniteSets

CONSTANTS
  NRegs,        \* number of x registers
  MaxBins,      \* bound on Arc<Binary> allocations
  MaxSubs,      \* bound on boxed SubBinary allocations
  InitSizes,    \* byte sizes given to init_writable
  BuildSizes,   \* build sizes in bits given to bs_append / bs_private_append
  Units,        \* unit operand of bs_append
  PutSizes,     \* field sizes in bits of bs_put_integer
  Endians,      \* field flags of bs_put_integer: "big", "little", "native"
  IntValues,    \* small integers put by bs_put_integer
  Payloads,     \* byte sequences put by put_bytes
  FloatImages,  \* host-endian 8-byte images of floats put by put_float
  MinCopyBytes, \* 256: smallest binary the copy path allocates
  MaxTermBits,  \* bound on the bit size of a term a construction makes
  LitBytes,     \* bytes of the literal binary the process starts with, in x0
  LitViews      \* sub-binaries of the literal in x1, x2, ...: [start, nbits]

ASSUME /\ NRegs \in Nat \ {0} /\ MaxBins \in Nat \ {0} /\ MaxSubs \in Nat
       /\ MaxTermBits \in Nat
       /\ InitSizes \subseteq Nat /\ BuildSizes \subseteq Nat
       /\ Units \subseteq Nat \ {0} /\ PutSizes \subseteq Nat \ {0}
       /\ Endians \subseteq {"big", "little", "native"}
       /\ IntValues \subseteq 0 .. 65535
       /\ \A i \in 1 .. Len(LitViews) :
            LitViews[i].start + LitViews[i].nbits <= 8 * Len(LitBytes)

VARIABLES
  bins,      \* Seq of Binary: [writable, len, cap, bytes]
  subs,      \* Seq of boxed SubBinary values
  regs,      \* x registers: a term or NoTerm
  bs,        \* the Builder of the process context: [bin, offset]
  pending,   \* bits the current construction still has to put
  target,    \* history: the sub-binary under construction (0: none)
  base,      \* history: bits of the term the construction started from
  built,     \* history: bits the puts of this construction were asked to write
  panicked,  \* a panic ended the process
  faults     \* undefined behaviour that did not stop the process

vars == <<bins, subs, regs, bs, pending, target, base, built, panicked, faults>>

Regs == 0 .. NRegs - 1
NoTerm == [kind |-> "none", id |-> 0]
Bin(b) == [kind |-> "bin", id |-> b]
Sub(s) == [kind |-> "sub", id |-> s]
(* u32::MAX / 2 and nbytes!(u32::MAX), written out: TLC integers are 32-bit. *)
HalfU32Max == 2147483647
NBytesU32Max == 536870912

Larger(a, b) == IF a >= b THEN a ELSE b

(* The nbytes!, byte_offset! and bit_offset! macros. *)
NBytes(x) == (x + 7) \div 8
ByteOffset(x) == x \div 8
BitOffset(x) == x % 8

(* Mutant: the bit count is stored unmasked. *)
NewSubUnmasked(orig, numBits, offset, w) ==
  [original |-> orig, size |-> ByteOffset(numBits), bitsize |-> numBits,
   offset |-> ByteOffset(offset), bit_offset |-> BitOffset(offset), writable |-> w]

(* SubBinary::new(original, num_bits, offset, is_writable). *)
NewSub(orig, numBits, offset, w) ==
  [original |-> orig, size |-> ByteOffset(numBits), bitsize |-> BitOffset(numBits),
   offset |-> ByteOffset(offset), bit_offset |-> BitOffset(offset), writable |-> w]

(* Binary::with_size(n): zero-filled, writable. *)
WithSize(n) == [writable |-> TRUE, len |-> n, cap |-> n, bytes |-> <<>>]

(* The binary_size! macro: bytes of a term, rounded up for a bitstring. *)
BinarySize(t) ==
  IF t.kind = "bin" THEN bins[t.id].len
  ELSE subs[t.id].size + (IF subs[t.id].bitsize > 0 THEN 1 ELSE 0)

(***************************************************************************)
(* Reading data.                                                           *)
(***************************************************************************)
ByteAt(b, i) == IF i < Len(bins[b].bytes) THEN bins[b].bytes[i + 1] ELSE 0
BitAt(b, i) == (ByteAt(b, i \div 8) \div 2^(7 - (i % 8))) % 2

(* A bit of the data, or g when the read lies past the end of the Vec. *)
BitOrGarbage(b, i, g) == IF i < 8 * bins[b].len THEN BitAt(b, i) ELSE g

(* Packs bits, most significant first, into bytes padded with zero bits. *)
PackBits(bits) ==
  [i \in 1 .. NBytes(Len(bits)) |->
     LET B(j) == IF 8 * (i - 1) + j + 1 <= Len(bits) THEN bits[8 * (i - 1) + j + 1] ELSE 0
     IN  B(0) * 128 + B(1) * 64 + B(2) * 32 + B(3) * 16 + B(4) * 8 + B(5) * 4 + B(6) * 2 + B(7)]

BitsOfBytes(s) == [j \in 1 .. 8 * Len(s) |-> (s[(j - 1) \div 8 + 1] \div 2^(7 - ((j - 1) % 8))) % 2]

(* The bits a term denotes: its binary, first bit and bit count. *)
View(t) ==
  IF t.kind = "bin" THEN [orig |-> t.id, start |-> 0, nbits |-> 8 * bins[t.id].len]
  ELSE [orig  |-> subs[t.id].original,
        start |-> 8 * subs[t.id].offset + subs[t.id].bit_offset,
        nbits |-> 8 * subs[t.id].size + subs[t.id].bitsize]

Content(t) == LET v == View(t) IN [j \in 1 .. v.nbits |-> BitAt(v.orig, v.start + j - 1)]

(***************************************************************************)
(* Vec<u8> operations.                                                     *)
(***************************************************************************)
(* Capacities Vec::reserve(add) may leave: the exact growth is not part of *)
(* the Vec contract, so both the minimal and the doubling policy are kept. *)
Reserve(v, add) ==
  IF v.cap - v.len >= add THEN {v.cap}
  ELSE {v.len + add, Larger(2 * v.cap, v.len + add)}

(* dst[start .. start + Len(s)].copy_from_slice(s), on the written prefix. *)
WriteAt(bytes, start, s) ==
  [i \in 1 .. Larger(Len(bytes), start + Len(s)) |->
     IF i > start /\ i <= start + Len(s) THEN s[i - start]
     ELSE IF i <= Len(bytes) THEN bytes[i] ELSE 0]

(* i32::to_le_bytes / to_be_bytes. *)
I32Bytes(v, little) ==
  LET be == [i \in 1 .. 4 |-> (v \div 2^(8 * (4 - i))) % 256]
  IN  IF little THEN [i \in 1 .. 4 |-> be[5 - i]] ELSE be

(* native_endian!: the hosts this runs on are little-endian. *)
IsLittle(e) == e \in {"little", "native"}

(***************************************************************************)
(* The bits a put is asked to write (spec 4.3), for the history variable   *)
(* built: big-endian is the low sz bits of v, most significant first;      *)
(* little-endian is the same bytes in reverse order.                       *)
(***************************************************************************)
IntBits(v, sz, little) ==
  LET be == [j \in 1 .. sz |-> (v \div 2^(sz - j)) % 2]
      nb == sz \div 8
  IN  IF little /\ sz % 8 = 0
      THEN [j \in 1 .. sz |-> be[8 * (nb - 1 - (j - 1) \div 8) + ((j - 1) % 8) + 1]]
      ELSE be

-----------------------------------------------------------------------------
Init ==
  /\ bins = <<[writable |-> TRUE, len |-> Len(LitBytes), cap |-> Len(LitBytes),
               bytes |-> LitBytes]>>
  \* sub-binaries made by part, split or a match: never writable
  /\ subs = [i \in 1 .. Len(LitViews) |->
               NewSub(1, LitViews[i].nbits, LitViews[i].start, FALSE)]
  /\ regs = [r \in Regs |-> IF r = 0 THEN Bin(1)
                            ELSE IF r <= Len(LitViews) THEN Sub(r) ELSE NoTerm]
  /\ bs = [bin |-> 0, offset |-> 0]
  /\ pending = 0
  /\ target = 0
  /\ base = <<>>
  /\ built = <<>>
  /\ panicked = FALSE
  /\ faults = {}

(* Compiler-generated code runs nothing else until the puts are done. *)
Idle == ~panicked /\ pending = 0

Panic == /\ panicked' = TRUE
         /\ UNCHANGED <<bins, subs, regs, bs, pending, target, base, built, faults>>

(* init_writable(size): a fresh writable binary and an empty writable view. *)
InitWritable(r, n) ==
  /\ Idle
  /\ Len(bins) < MaxBins /\ Len(subs) < MaxSubs
  /\ bins' = Append(bins, WithSize(n))
  /\ subs' = Append(subs, NewSub(Len(bins) + 1, 0, 0, TRUE))
  /\ regs' = [regs EXCEPT ![r] = Sub(Len(subs) + 1)]
  /\ UNCHANGED <<bs, pending, target, base, built, panicked, faults>>

(* The unit check of append; failing it returns None (badarg), a no-op. *)
UnitOk(binSize, unit) ==
  unit > 1 => ~((unit = 8 /\ BitOffset(binSize) # 0) \/ binSize % unit # 0)

(* Mutant: only the flag of the Binary is consulted. *)
IsWritableOriginalOnly(t) ==
  t.kind = "sub" /\ bins[subs[t.id].original].writable

(* Both flags of a sub-binary term must grant writing. *)
IsWritable(t) ==
  t.kind = "sub" /\ subs[t.id].writable /\ bins[subs[t.id].original].writable

StartBuild(t, k, newSub) ==
  /\ pending' = k
  /\ target' = newSub
  /\ base' = Content(t)
  /\ built' = <<>>

(* Mutant: the in-place branch does not clear the flag of its source. *)
AppendInPlaceKeepsFlag(t, dst, k, unit) ==
  LET sb == subs[t.id]
      b == sb.original
      used == 8 * sb.size + sb.bitsize + k
  IN  /\ UnitOk(8 * sb.size + sb.bitsize, unit)
      /\ k > 0 /\ used <= MaxTermBits
      /\ Len(subs) < MaxSubs
      /\ \E c \in (IF bins[b].len < NBytes(used) THEN Reserve(bins[b], 2 * NBytes(used))
                   ELSE {bins[b].cap}) :
            bins' = [bins EXCEPT ![b].cap = c]
      /\ subs' = Append(subs, NewSub(b, used, 0, TRUE))
      /\ regs' = [regs EXCEPT ![dst] = Sub(Len(subs) + 1)]
      /\ bs' = [bin |-> b, offset |-> 0]
      /\ StartBuild(t, k, Len(subs) + 1)
      /\ UNCHANGED <<panicked, faults>>

AppendInPlace(t, dst, k, unit) ==
  LET sb == subs[t.id]
      b == sb.original
      binSize == 8 * sb.size + sb.bitsize
      used == binSize + k
      size == NBytes(used)
  IN  /\ UnitOk(binSize, unit)
      /\ k > 0 /\ used <= MaxTermBits
      /\ Len(subs) < MaxSubs
      \* data.reserve(2 * size) when the Vec is too short: capacity only.
      /\ \E c \in (IF bins[b].len < size THEN Reserve(bins[b], 2 * size) ELSE {bins[b].cap}) :
            bins' = [bins EXCEPT ![b].cap = c]
      /\ subs' = Append([subs EXCEPT ![t.id].writable = FALSE], NewSub(b, used, 0, TRUE))
      /\ regs' = [regs EXCEPT ![dst] = Sub(Len(subs) + 1)]
      /\ bs' = [bin |-> b, offset |-> 0]                 \* Builder::new(pb)
      /\ StartBuild(t, k, Len(subs) + 1)
      /\ UNCHANGED <<panicked, faults>>

(* append, other branch: copy into a new writable binary. *)
AppendCopy(t, dst, k, unit) ==
  LET orig == IF t.kind = "bin" THEN t.id ELSE subs[t.id].original
      bitoffs == IF t.kind = "bin" THEN 0 ELSE subs[t.id].bit_offset
      bitsize == IF t.kind = "bin" THEN 0 ELSE subs[t.id].bitsize
      binSize == 8 * BinarySize(t) + bitsize
      used == binSize + k
      size == Larger(IF used < HalfU32Max THEN 2 * NBytes(used) ELSE NBytesU32Max,
                     MinCopyBytes)
      nb == Len(bins) + 1
  IN  /\ UnitOk(binSize, unit)
      /\ k > 0 /\ used <= MaxTermBits
      /\ Len(bins) < MaxBins /\ Len(subs) < MaxSubs
      \* copy_binary!(new, 0, bin.data, bitoffs, bin_size) into zeroed bytes;
      \* bits read past the end of the Vec are whatever memory holds there
      /\ \E g \in {0, 1} :
            bins' = Append(bins, [WithSize(size) EXCEPT !.bytes =
                      PackBits([j \in 1 .. binSize |-> BitOrGarbage(orig, bitoffs + j - 1, g)])])
      /\ faults' = IF NBytes(bitoffs + binSize) > bins[orig].len
                   THEN faults \cup {"oob_read"} ELSE faults
      /\ subs' = Append(subs, NewSub(nb, used, 0, TRUE))
      /\ regs' = [regs EXCEPT ![dst] = Sub(Len(subs) + 1)]
      /\ bs' = [bin |-> nb, offset |-> 0]
      /\ StartBuild(t, k, Len(subs) + 1)
      /\ UNCHANGED panicked

(* append with build size 0 returns its argument unchanged. *)
AppendNothing(t, dst, unit) ==
  /\ UnitOk(IF IsWritable(t) THEN 8 * subs[t.id].size + subs[t.id].bitsize
            ELSE 8 * BinarySize(t) + (IF t.kind = "sub" THEN subs[t.id].bitsize ELSE 0),
            unit)
  /\ regs' = [regs EXCEPT ![dst] = t]
  /\ UNCHANGED <<bins, subs, bs, pending, target, base, built, panicked, faults>>

BsAppend(src, dst, k, unit) ==
  LET t == regs[src] IN
  /\ Idle
  /\ t # NoTerm
  /\ \/ k = 0 /\ AppendNothing(t, dst, unit)
     \/ IsWritable(t) /\ AppendInPlace(t, dst, k, unit)
     \/ ~IsWritable(t) /\ AppendCopy(t, dst, k, unit)

(* private_append: the compiler emits it only on a writable sub-binary. *)
PrivateAppend(r, k) ==
  LET t == regs[r]
      sb == subs[t.id]
      b == sb.original
      after == 8 * sb.size + sb.bitsize + k
      size == NBytes(after)
  IN  /\ Idle
      /\ t.kind = "sub" /\ sb.writable
      /\ after <= MaxTermBits
      \* data.resize(2 * size, 0) when the capacity is short
      /\ IF bins[b].cap < size
         THEN \E c \in Reserve(bins[b], 2 * size - bins[b].len) :
                bins' = [bins EXCEPT ![b].len = 2 * size, ![b].cap = c]
         ELSE UNCHANGED bins
      /\ bs' = [bin |-> b, offset |-> 0]
      /\ subs' = [subs EXCEPT ![t.id].size = ByteOffset(after), ![t.id].bitsize = BitOffset(after)]
      /\ StartBuild(t, k, t.id)
      /\ UNCHANGED <<regs, panicked, faults>>

-----------------------------------------------------------------------------
(***************************************************************************)
(* Builder puts.  Each consumes its width from pending and records the     *)
(* bits it was asked for in built; the effect on the data is the code's.   *)
(***************************************************************************)
Building(width) == ~panicked /\ bs.bin > 0 /\ 0 < width /\ width <= pending

Advance(width, bits) ==
  /\ bs' = [bs EXCEPT !.offset = @ + width]
  /\ pending' = pending - width
  /\ built' = built \o bits

(* Vec::push(v as u8): appends after the last byte, whatever the offset. *)
Push(byte) ==
  LET v == bins[bs.bin] IN
  \E c \in (IF v.len = v.cap THEN Reserve(v, 1) ELSE {v.cap}) :
     bins' = [bins EXCEPT ![bs.bin] =
                [v EXCEPT !.len = v.len + 1, !.cap = c,
                          !.bytes = WriteAt(v.bytes, v.len, <<byte>>)]]

(* fmt_int(buf, offset, val, bit_size, flags), bit_size a multiple of 8. *)
FmtIntStart(sz) == IF sz \div 8 > 4 THEN sz \div 8 - 4 ELSE ByteOffset(bs.offset)
FmtIntCount(sz) == IF sz \div 8 > 4 THEN 4 ELSE sz \div 8

PutInteger(sz, e, v) ==
  LET bo == BitOffset(bs.offset)
      little == IsLittle(e)
      start == FmtIntStart(sz)
      n == FmtIntCount(sz)
  IN  /\ Building(sz)
      /\ CASE sz = 8 ->
                /\ Push(v % 256)
                /\ Advance(sz, IntBits(v, sz, little))
                /\ UNCHANGED <<subs, regs, target, base, panicked, faults>>
           [] bo + sz <= 8 -> Panic                       \* unimplemented!()
           [] bo = 0 /\ BitOffset(sz) = 0 /\ start + n <= bins[bs.bin].len ->
                /\ bins' = [bins EXCEPT ![bs.bin].bytes =
                              WriteAt(@, start, SubSeq(I32Bytes(v, little), 1, n))]
                /\ Advance(sz, IntBits(v, sz, little))
                /\ UNCHANGED <<subs, regs, target, base, panicked, faults>>
           [] OTHER -> Panic    \* bit-aligned put, unaligned put, or slice out of range

PutBytes(p) ==
  LET start == ByteOffset(bs.offset) IN
  /\ Building(8 * Len(p))
  /\ IF start + Len(p) > bins[bs.bin].len
     THEN Panic
     ELSE /\ bins' = [bins EXCEPT ![bs.bin].bytes = WriteAt(@, start, p)]
          /\ Advance(8 * Len(p), BitsOfBytes(p))
          /\ UNCHANGED <<subs, regs, target, base, panicked, faults>>

PutBinaryAll(r) ==
  LET t == regs[r]
      v == View(t)
      offs == IF t.kind = "bin" THEN 0 ELSE subs[t.id].offset
      total == BinarySize(t)
      start == ByteOffset(bs.offset)
      slice == [i \in 1 .. total |-> ByteAt(v.orig, offs + i - 1)]
  IN  /\ t # NoTerm
      /\ Building(v.nbits)
      /\ IF \/ t.kind = "sub" /\ subs[t.id].bit_offset > 0   \* unimplemented!
            \/ offs + total > bins[v.orig].len
            \/ start + total > bins[bs.bin].len
         THEN Panic
         ELSE /\ bins' = [bins EXCEPT ![bs.bin].bytes = WriteAt(@, start, slice)]
              \* copy_from_slice between overlapping parts of one Vec
              /\ faults' = IF v.orig = bs.bin /\ offs < start + total /\ start < offs + total
                           THEN faults \cup {"overlap"} ELSE faults
              /\ Advance(v.nbits, Content(t))
              /\ UNCHANGED <<subs, regs, target, base, panicked>>

(* put_float: the 8 host-endian bytes of the f64 at the current byte. *)
PutFloat(img) ==
  LET start == ByteOffset(bs.offset) IN
  /\ Building(64)
  /\ IF start + 8 > bins[bs.bin].len
     THEN Panic
     ELSE /\ bins' = [bins EXCEPT ![bs.bin].bytes = WriteAt(@, start, img)]
          /\ Advance(64, BitsOfBytes(img))
          /\ UNCHANGED <<subs, regs, target, base, panicked, faults>>

(* A move instruction: two registers now point to one boxed term. *)
Move(src, dst) ==
  /\ Idle
  /\ src # dst /\ regs[src] # NoTerm
  /\ regs' = [regs EXCEPT ![dst] = regs[src]]
  /\ UNCHANGED <<bins, subs, bs, pending, target, base, built, panicked, faults>>

Next ==
  \/ \E r \in Regs, n \in InitSizes : InitWritable(r, n)
  \/ \E src, dst \in Regs, k \in BuildSizes, u \in Units : BsAppend(src, dst, k, u)
  \/ \E r \in Regs, k \in BuildSizes : PrivateAppend(r, k)
  \/ \E sz \in PutSizes, e \in Endians, v \in IntValues : PutInteger(sz, e, v)
  \/ \E p \in Payloads : PutBytes(p)
  \/ \E r \in Regs : PutBinaryAll(r)
  \/ \E img \in FloatImages : PutFloat(img)
  \/ \E src, dst \in Regs : Move(src, dst)

Spec == Init /\ [][Next]_vars

-----------------------------------------------------------------------------
(***************************************************************************)
(* Properties.                                                             *)
(***************************************************************************)
Byte == 0 .. 255
Term == {NoTerm} \cup {Bin(b) : b \in 1 .. MaxBins} \cup {Sub(s) : s \in 1 .. MaxSubs}

TypeOK ==
  /\ Len(bins) \in 1 .. MaxBins /\ Len(subs) \in 0 .. MaxSubs
  /\ \A b \in 1 .. Len(bins) :
       /\ bins[b].writable \in BOOLEAN
       /\ bins[b].len \in Nat /\ bins[b].cap >= bins[b].len
       /\ Len(bins[b].bytes) <= bins[b].len
       /\ \A i \in 1 .. Len(bins[b].bytes) : bins[b].bytes[i] \in Byte
  /\ \A s \in 1 .. Len(subs) :
       subs[s].original \in 1 .. Len(bins) /\ subs[s].bitsize \in 0 .. 7
       /\ subs[s].bit_offset \in 0 .. 7 /\ subs[s].writable \in BOOLEAN
  /\ regs \in [Regs -> Term]
  /\ bs.bin \in 0 .. Len(bins) /\ bs.offset \in Nat
  /\ pending \in Nat /\ target \in 0 .. Len(subs)
  /\ panicked \in BOOLEAN /\ faults \subseteq {"oob_read", "overlap"}

(* Spec 5, "writable-binary discipline": at most one live sub-binary of a  *)
(* binary holds the writable capability, whatever aliasing and append      *)
(* sequence the registers went through.  append must clear the flag of the *)
(* term it extends.                                                        *)
WritableUnique ==
  \A b \in 1 .. Len(bins) :
    Cardinality({s \in 1 .. Len(subs) : subs[s].original = b /\ subs[s].writable}) <= 1

(* While a construction is in progress the builder writes into the binary  *)
(* of the term under construction, and that term is the writable one: the *)
(* builder never writes into a binary whose capability another term holds. *)
BuilderOwnsTarget ==
  pending > 0 =>
    /\ target > 0
    /\ bs.bin = subs[target].original
    /\ \A s \in 1 .. Len(subs) : subs[s].original = bs.bin /\ subs[s].writable => s = target

(* Spec 8, "append associativity": once the puts of a construction are     *)
(* done, the new term holds the bits of the term it was appended to,       *)
(* followed by the bits that were put.                                     *)
AppendedContent ==
  ~panicked /\ pending = 0 /\ target > 0 => Content(Sub(target)) = base \o built

(* Right after append the new term starts with the bits of its source and *)
(* is exactly k bits longer (spec 4.3, both branches).                    *)
AppendKeepsSource ==
  ~panicked /\ target > 0 /\ built = <<>> =>
    /\ Len(Content(Sub(target))) = Len(base) + pending
    /\ SubSeq(Content(Sub(target)), 1, Len(base)) = base

(* The sub-binaries the registers hold. *)
HeldSubs == {regs[r].id : r \in {r \in Regs : regs[r].kind = "sub"}}

(* A binary term is immutable: no step changes the bits of a sub-binary a *)
(* register still holds, other than the one under construction.  The      *)
(* in-place branch of append shares the binary of its source, so the       *)
(* builder must only write past the source's bits.                         *)
TermsImmutable ==
  [][\A s \in HeldSubs : s # target' => (Content(Sub(s)))' = Content(Sub(s))]_vars

(* Spec 5: the literal binary the process starts with is shared, and it is *)
(* never written.  Appending to it or to a part or match view of it copies *)
(* it; only a term whose own writable flag is set is extended in place, so  *)
(* no put reaches the literal's bytes whatever the registers alias.        *)
LiteralImmutable == bins[1].len = Len(LitBytes) /\ bins[1].bytes = LitBytes

(* No sub-binary reaches past the bytes of its binary: reading any term   *)
(* (matching it, copying it) stays inside the Vec.                         *)
ExtentWithinData ==
  \A s \in 1 .. Len(subs) :
    8 * subs[s].offset + subs[s].bit_offset + 8 * subs[s].size + subs[s].bitsize
      <= 8 * bins[subs[s].original].len
=============================================================================
