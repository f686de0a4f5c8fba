--------------------------- MODULE BitstringMatch ---------------------------
(***************************************************************************)
(* The read side of the bitstring engine (src/src/bitstring.rs 226-1038):  *)
(* a match state created by start_match_3 over a binary or a sub-binary,   *)
(* and the get_* operations that read at its cursor.                       *)
(*                                                                         *)
(* The binary being matched is fixed for a behaviour (matching never       *)
(* writes); Init picks it from DataSet.  Every get records what it         *)
(* returned in last, and the properties compare that with what the window *)
(* of the binary holds at the cursor.                                      *)
(***************************************************************************)
EXTENDS Integers, Sequences, FiniteSets, BitOps

CONSTANTS
  DataSet,      \* the byte sequences the matched binary may hold
  Views,        \* terms start_match_3 is given: [kind, start, nbits]
  ByteCounts,   \* byte counts of get_bytes
  IntSizes,     \* bit sizes of get_integer
  IntFlags,     \* flags of get_integer: [endian, signed]
  FloatSizes,   \* bit sizes of get_float
  BinSizes,     \* bit sizes of get_binary
  Endians       \* "big", "little" (the loader rewrites NATIVE, spec 4.3)

ASSUME /\ \A v \in Views : v.kind \in {"bin", "sub"}
       /\ Endians \subseteq {"big", "little"}

VARIABLES
  data,      \* the bytes of the Binary being matched
  mb,        \* the MatchBuffer: [offset, size] in bits, or NoMatch
  last,      \* what the last get returned
  panicked,  \* a panic ended the process
  faults     \* undefined behaviour that did not stop the process

vars == <<data, mb, last, panicked, faults>>

NoMatch == [offset |-> 0, size |-> -1]
NoGet == [op |-> "none", arg |-> "none", ok |-> FALSE, pos |-> 0, n |-> 0, bits |-> <<>>, cp |-> 0]

(* SMALL_BITS *)
SmallBits == 64

(* TLC's integers are 32-bit and signed: a get_integer field the model    *)
(* reads as a number has at most 30 bits, or reaches unimplemented!.      *)
ASSUME \A n \in IntSizes : n <= 30 \/ n >= SmallBits

NBytes(x) == (x + 7) \div 8

(* native_endian!: the hosts this runs on are little-endian. *)
IsLittle(e) == e \in {"little", "native"}

ByteAt(i) == IF i < Len(data) THEN data[i + 1] ELSE 0
(* Mutant: the bit is not masked out of the byte. *)
BitAtUnmasked(i) == ByteAt(i \div 8) \div 2^(7 - (i % 8))

BitAt(i) == (ByteAt(i \div 8) \div 2^(7 - (i % 8))) % 2

(* n bits of the binary from bit pos, most significant first. *)
BitsAt(pos, n) == [j \in 1 .. n |-> BitAt(pos + j - 1)]

(* The byte made of the 8 bits from bit pos. *)
ByteFrom(pos) ==
  LET b == BitsAt(pos, 8)
  IN  b[1] * 128 + b[2] * 64 + b[3] * 32 + b[4] * 16 + b[5] * 8 + b[6] * 4 + b[7] * 2 + b[8]

(* A zeroed buffer of k bytes at addresses 0 .. k - 1 (vec![0; k], the     *)
(* tmp_buf arrays, a zeroed f32/f64).                                      *)
ZeroBuf(k) == [a \in 0 .. k - 1 |-> 0]

(* The first n bits of a buffer, most significant bit of byte 0 first. *)
BufBits(buf, n) == [j \in 1 .. n |-> (buf[(j - 1) \div 8] \div 2^(7 - ((j - 1) % 8))) % 2]

(* The memory copy_bits reads from: the Vec's bytes, then whatever lies  *)
(* past its end (read as 0) up to the farthest byte a get can copy.     *)
Mem == [a \in 0 .. Len(data) + 9 |-> ByteAt(a)]

(* copy_bits(data, soffs, 1, buf, 0, 1, n) into a zeroed buffer of k bytes. *)
CopyOut(soffs, k, n) == CopyBits(Mem, 0, soffs, 1, ZeroBuf(k), 0, 0, 1, n)

(* The bytes of a bit sequence in reverse order (n a multiple of 8). *)
SwapBytes(bits) ==
  LET nb == Len(bits) \div 8
  IN  [j \in 1 .. Len(bits) |-> bits[8 * (nb - 1 - (j - 1) \div 8) + ((j - 1) % 8) + 1]]

Remaining == mb.size - mb.offset

-----------------------------------------------------------------------------
(***************************************************************************)
(* Recording a get.                                                        *)
(***************************************************************************)
Report(op, arg, bits, cp, width) ==
  /\ last' = [op |-> op, arg |-> arg, ok |-> TRUE, pos |-> mb.offset, n |-> width,
               bits |-> bits, cp |-> cp]
  /\ mb' = [mb EXCEPT !.offset = @ + width]
  /\ UNCHANGED <<data, panicked>>

ReportFailure(op, arg) ==
  /\ last' = [NoGet EXCEPT !.op = op, !.arg = arg, !.pos = mb.offset]
  /\ UNCHANGED <<data, mb, panicked>>

ReportPanic == /\ panicked' = TRUE
               /\ UNCHANGED <<data, mb, last>>

Got(op, arg, bits, cp, width) == Report(op, arg, bits, cp, width) /\ UNCHANGED faults
Failed(op, arg) == ReportFailure(op, arg) /\ UNCHANGED faults
Panic == ReportPanic /\ UNCHANGED faults

Matching == ~panicked /\ mb # NoMatch

-----------------------------------------------------------------------------
Init ==
  /\ data \in DataSet
  /\ mb = NoMatch
  /\ last = NoGet
  /\ panicked = FALSE
  /\ faults = {}

(* start_match_3 with MatchBuffer::from(RcBinary) or from(SubBinary). *)
StartMatch(v) ==
  /\ ~panicked
  /\ v.kind = "sub" => v.start + v.nbits <= 8 * Len(data)
  /\ mb' = IF v.kind = "bin" THEN [offset |-> 0, size |-> 8 * Len(data)]
           ELSE [offset |-> v.start, size |-> v.start + v.nbits]
  /\ last' = NoGet
  /\ UNCHANGED <<data, panicked, faults>>

(* get_bytes: the unaligned branch hands copy_bits the byte offset where   *)
(* it takes a bit offset.                                                  *)
GetBytes(nb) ==
  /\ Matching
  /\ IF Remaining < 8 * nb THEN Failed("bytes", "none")
     ELSE IF BitOffset(mb.offset) = 0
          THEN Got("bytes", "none", BitsAt(mb.offset, 8 * nb), 0, 8 * nb)
          ELSE Got("bytes", "none", BufBits(CopyOut(ByteOffset(mb.offset), nb, 8 * nb).dst, 8 * nb),
                   0, 8 * nb)

(* get_integer, a field inside one byte: b >>= 8 - offs - n; b &= mask. *)
IntInByte(n) ==
  BAnd(Shr(ByteAt(ByteOffset(mb.offset)), 8 - BitOffset(mb.offset) - n), MakeMask(n))

(* A field of at most 8 bits across two bytes: the u16 word of both      *)
(* bytes, shifted right and masked.                                       *)
IntTwoBytes(n) ==
  LET bo == ByteOffset(mb.offset)
  IN  ((ByteAt(bo) * 256 + ByteAt(bo + 1)) \div 2^(16 - BitOffset(mb.offset) - n)) % 2^n

(* The 9..63-bit big-endian branch: the 1 to 7 bits of a partial first   *)
(* byte masked, the whole bytes shifted into w, then the 1 to 7 bits of  *)
(* the last byte shifted right and into w.                                *)
IntWord(n) ==
  LET offs == BitOffset(mb.offset)
      bo == ByteOffset(mb.offset)
      w0 == IF offs = 0 THEN 0 ELSE BAnd(ByteAt(bo), MakeMask(8 - offs))
      b1 == IF offs = 0 THEN bo ELSE bo + 1
      n1 == IF offs = 0 THEN n ELSE n - (8 - offs)
      whole == ByteOffset(n1)
      w[k \in 0 .. whole] == IF k = 0 THEN w0 ELSE w[k - 1] * 256 + ByteAt(b1 + k - 1)
      rest == BitOffset(n1)
  IN  IF rest > 0 THEN w[whole] * 2^rest + Shr(ByteAt(b1 + whole), 8 - rest) ELSE w[whole]

(* get_integer: the value each branch computes; SIGNED is read by none. *)
GetInteger(n, fl) ==
  /\ Matching
  /\ CASE n = 0 -> Got("integer", fl, <<>>, 0, 0)
       [] Remaining < n -> Failed("integer", fl)
       [] n <= 8 - BitOffset(mb.offset) -> Got("integer", fl, <<>>, IntInByte(n), n)
       [] n <= 8 -> Got("integer", fl, <<>>, IntTwoBytes(n), n)
       [] n < SmallBits /\ ~IsLittle(fl.endian) -> Got("integer", fl, <<>>, IntWord(n), n)
       [] OTHER -> Panic                                     \* unimplemented!

(* IEEE exponent all ones: infinity or NaN. *)
NonFinite(bits) ==
  LET e == IF Len(bits) = 32 THEN 8 ELSE 11
  IN  \A j \in 2 .. e + 1 : bits[j] = 1

(* Mutant: the field is always copied forward. *)
FloatImageForward(n, e) ==
  LET k == NBytes(n)
      mem == CopyBits(Mem, 0, mb.offset, 1, ZeroBuf(k), 0, 0, 1, n).dst
  IN  BufBits([a \in 0 .. k - 1 |-> mem[k - 1 - a]], n)

(* The IEEE image of the field, sign bit first.  bit_is_machine_endian!:  *)
(* a little-endian field is copied forward into the little-endian f32/f64 *)
(* memory, a big-endian one backwards from its last byte; the value's     *)
(* most significant byte is the last in memory.                           *)
FloatImage(n, e) ==
  LET k == NBytes(n)
      little == IsLittle(e)
      mem == CopyBits(Mem, 0, mb.offset, 1, ZeroBuf(k),
                      IF little THEN 0 ELSE k - 1, 0, IF little THEN 1 ELSE -1, n).dst
  IN  BufBits([a \in 0 .. k - 1 |-> mem[k - 1 - a]], n)

(* Mutant: the cursor is advanced before the value is checked. *)
GetFloatAdvanceFirst(n, e) ==
  LET ieee == FloatImage(n, e)
  IN  /\ Matching
      /\ CASE n = 0 -> Got("float", e, <<>>, 0, 0)
           [] Remaining < n -> Failed("float", e)
           [] n \notin {32, 64} -> Failed("float", e)
           [] NonFinite(ieee) ->
                /\ last' = [NoGet EXCEPT !.op = "float", !.arg = e, !.pos = mb.offset]
                /\ mb' = [mb EXCEPT !.offset = @ + n]
                /\ UNCHANGED <<data, panicked, faults>>
           [] OTHER -> Got("float", e, ieee, 0, n)

(* get_float *)
GetFloat(n, e) ==
  LET ieee == FloatImage(n, e)
  IN  /\ Matching
      /\ CASE n = 0 -> Got("float", e, <<>>, 0, 0)
           [] Remaining < n -> Failed("float", e)
           [] n \notin {32, 64} -> Failed("float", e)
           [] NonFinite(ieee) -> Failed("float", e)
           [] OTHER -> Got("float", e, ieee, 0, n)

(* SubBinary::new(original, num_bits, offset, false): the fields of the  *)
(* sub-binary a get returns.                                              *)
NewSub(numBits, offset) ==
  [size |-> ByteOffset(numBits), bitsize |-> BitOffset(numBits),
   offset |-> ByteOffset(offset), bit_offset |-> BitOffset(offset)]

(* The bits a sub-binary of the matched binary denotes. *)
SubBits(sb) == BitsAt(8 * sb.offset + sb.bit_offset, 8 * sb.size + sb.bitsize)

(* Mutant: the remaining bits are not checked. *)
GetBinaryUnchecked(n) ==
  /\ Matching
  /\ Got("binary", "none", SubBits(NewSub(n, mb.offset)), 0, n)

GetBinary(n) ==
  /\ Matching
  /\ IF Remaining < n THEN Failed("binary", "none")
     ELSE Got("binary", "none", SubBits(NewSub(n, mb.offset)), 0, n)

(* get_binary_all: the sub-binary is right, the cursor is set to the      *)
(* number of bits that remained.                                          *)
GetBinaryAll ==
  /\ Matching
  /\ last' = [op |-> "binary_all", arg |-> "none", ok |-> TRUE, pos |-> mb.offset,
              n |-> Remaining, bits |-> SubBits(NewSub(Remaining, mb.offset)), cp |-> 0]
  /\ mb' = [mb EXCEPT !.offset = Remaining]
  /\ UNCHANGED <<data, panicked, faults>>
(***************************************************************************)
(* get_utf8.                                                               *)
(***************************************************************************)
(* TRAILING_BYTES_FOR_UTF8: 9 marks a byte no sequence starts with. *)
TrailingBytes(b) ==
  CASE b < 128 -> 0 [] b < 194 -> 9 [] b < 224 -> 1 [] b < 240 -> 2 [] b < 248 -> 3
    [] OTHER -> 9

IsCont(x) == x \div 64 = 2      \* (x & 0xC0) == 0x80

(* align_utf8_bytes: how many bits are copied for an unaligned cursor. *)
AlignBits(rem) == CASE rem < 16 -> 8 [] rem < 32 -> 24 [] OTHER -> 32

(* align_utf8_bytes(tmp_buf): copy_bits from the cursor into tmp_buf. *)
AlignUtf8Bytes == CopyOut(mb.offset, 4, AlignBits(Remaining))

(* The bytes of the Vec from byte offset o on (pos[0 ..] when aligned). *)
VecFrom(o) == [i \in 0 .. 3 |-> ByteAt(o + i)]

(* pos: the Vec from the cursor when aligned, else tmp_buf. *)
Utf8Pos ==
  IF BitOffset(mb.offset) = 0 THEN VecFrom(ByteOffset(mb.offset)) ELSE AlignUtf8Bytes.dst

(* Mutant: the overlong check of E0 sequences is missing. *)
Utf8ResultNoOverlong(p0, a, b, c, rem) ==
  CASE TrailingBytes(p0) = 0 -> [ok |-> TRUE, cp |-> p0, adv |-> 8]
    [] TrailingBytes(p0) = 1 ->
         IF rem < 16 \/ ~IsCont(a) THEN [ok |-> FALSE, cp |-> 0, adv |-> 0]
         ELSE [ok |-> TRUE, cp |-> p0 * 64 + a - 12416, adv |-> 16]
    [] TrailingBytes(p0) = 2 ->
         LET cp == (p0 * 64 + a) * 64 + b - 925824 IN
         IF rem < 24 \/ ~IsCont(a) \/ ~IsCont(b) \/ (55296 <= cp /\ cp <= 57343)
         THEN [ok |-> FALSE, cp |-> 0, adv |-> 0]
         ELSE [ok |-> TRUE, cp |-> cp, adv |-> 24]
    [] TrailingBytes(p0) = 3 ->
         LET cp == ((p0 * 64 + a) * 64 + b) * 64 + c - 63447168 IN
         IF rem < 32 \/ ~IsCont(a) \/ ~IsCont(b) \/ ~IsCont(c) \/ (p0 = 240 /\ a < 144)
            \/ cp > 1114111
         THEN [ok |-> FALSE, cp |-> 0, adv |-> 0]
         ELSE [ok |-> TRUE, cp |-> cp, adv |-> 32]
    [] OTHER -> [ok |-> FALSE, cp |-> -1, adv |-> 0]

(* The match on TRAILING_BYTES_FOR_UTF8 once at least 8 bits remain; cp  *)
(* -1 stands for unreachable!().                                          *)
Utf8Result(p0, a, b, c, rem) ==
  CASE TrailingBytes(p0) = 0 -> [ok |-> TRUE, cp |-> p0, adv |-> 8]
    [] TrailingBytes(p0) = 1 ->
         IF rem < 16 \/ ~IsCont(a) THEN [ok |-> FALSE, cp |-> 0, adv |-> 0]
         ELSE [ok |-> TRUE, cp |-> p0 * 64 + a - 12416, adv |-> 16]
    [] TrailingBytes(p0) = 2 ->
         LET cp == (p0 * 64 + a) * 64 + b - 925824 IN
         IF rem < 24 \/ ~IsCont(a) \/ ~IsCont(b) \/ (p0 = 224 /\ a < 160)
            \/ (55296 <= cp /\ cp <= 57343)
         THEN [ok |-> FALSE, cp |-> 0, adv |-> 0]
         ELSE [ok |-> TRUE, cp |-> cp, adv |-> 24]
    [] TrailingBytes(p0) = 3 ->
         LET cp == ((p0 * 64 + a) * 64 + b) * 64 + c - 63447168 IN
         IF rem < 32 \/ ~IsCont(a) \/ ~IsCont(b) \/ ~IsCont(c) \/ (p0 = 240 /\ a < 144)
            \/ cp > 1114111
         THEN [ok |-> FALSE, cp |-> 0, adv |-> 0]
         ELSE [ok |-> TRUE, cp |-> cp, adv |-> 32]
    [] OTHER -> [ok |-> FALSE, cp |-> -1, adv |-> 0]

GetUtf8 ==
  LET pos == Utf8Pos
      r == Utf8Result(pos[0], pos[1], pos[2], pos[3], Remaining)
      \* align_utf8_bytes reads a byte past the end of the Vec
      overread == BitOffset(mb.offset) # 0 /\ \E a \in AlignUtf8Bytes.reads : a >= Len(data)
  IN  /\ Matching
      /\ IF Remaining < 8 THEN Failed("utf8", "none")
         ELSE /\ faults' = IF overread THEN faults \cup {"utf8_overread"} ELSE faults
              /\ CASE r.cp = -1 -> ReportPanic
                   [] ~r.ok -> ReportFailure("utf8", "none")
                   [] OTHER -> Report("utf8", "none", <<>>, r.cp, r.adv)

(***************************************************************************)
(* get_utf16.                                                              *)
(***************************************************************************)
Utf16Little(e) == e = "little"

(* src: the Vec from the cursor when aligned, else tmp_buf, into which   *)
(* copy_bits copies 32 bits when they remain, else 16.                   *)
Utf16Src ==
  IF BitOffset(mb.offset) = 0 THEN VecFrom(ByteOffset(mb.offset))
  ELSE CopyOut(mb.offset, 4, IF Remaining < 32 THEN 16 ELSE 32).dst

(* Mutant: the bytes of a unit are combined in the other order. *)
Utf16UnitSwapped(x, y, little) == IF little THEN 256 * x + y ELSE x + 256 * y

Utf16Unit(x, y, little) == IF little THEN x + 256 * y ELSE 256 * x + y

GetUtf16(e) ==
  LET little == Utf16Little(e)
      src == Utf16Src
      w1 == Utf16Unit(src[0], src[1], little)
      w2 == Utf16Unit(src[2], src[3], little)
  IN  /\ Matching
      /\ CASE Remaining < 16 -> Failed("utf16", e)
           [] w1 < 55296 \/ w1 > 57343 -> Got("utf16", e, <<>>, w1, 16)
           [] w1 > 56319 -> Failed("utf16", e)
           [] Remaining < 32 -> Failed("utf16", e)
           [] w2 < 56320 \/ w2 > 57343 -> Failed("utf16", e)
           [] OTHER -> Got("utf16", e, <<>>, (w1 % 1024) * 1024 + (w2 % 1024) + 65536, 32)

-----------------------------------------------------------------------------
Next ==
  \/ \E v \in Views : StartMatch(v)
  \/ \E nb \in ByteCounts : GetBytes(nb)
  \/ \E n \in IntSizes, fl \in IntFlags : GetInteger(n, fl)
  \/ \E n \in FloatSizes, e \in Endians : GetFloat(n, e)
  \/ \E n \in BinSizes : GetBinary(n)
  \/ GetBinaryAll
  \/ GetUtf8
  \/ \E e \in Endians : GetUtf16(e)

Spec == Init /\ [][Next]_vars

-----------------------------------------------------------------------------
(***************************************************************************)
(* Reference definitions (spec 4.3 and the Unicode standard).             *)
(***************************************************************************)
SmallerOf(a, b) == IF a <= b THEN a ELSE b

(* The whole bytes of the window from bit pos, at most four. *)
WindowBytes(pos) ==
  [i \in 1 .. SmallerOf(4, (mb.size - pos) \div 8) |-> ByteFrom(pos + 8 * (i - 1))]

In(x, lo, hi) == lo <= x /\ x <= hi

(* The well-formed UTF-8 byte sequences (Unicode table 3-7). *)
Utf8Ref(s) ==
  LET n == Len(s)
      C(i) == n >= i /\ In(s[i], 128, 191)
  IN  CASE n >= 1 /\ s[1] <= 127 -> [ok |-> TRUE, len |-> 1, cp |-> s[1]]
        [] n >= 1 /\ In(s[1], 194, 223) /\ C(2) ->
             [ok |-> TRUE, len |-> 2, cp |-> (s[1] % 32) * 64 + (s[2] % 64)]
        [] n >= 3 /\ C(3)
             /\ \/ s[1] = 224 /\ In(s[2], 160, 191)
                \/ In(s[1], 225, 236) /\ C(2)
                \/ s[1] = 237 /\ In(s[2], 128, 159)
                \/ In(s[1], 238, 239) /\ C(2) ->
             [ok |-> TRUE, len |-> 3, cp |-> (s[1] % 16) * 4096 + (s[2] % 64) * 64 + (s[3] % 64)]
        [] n >= 4 /\ C(3) /\ C(4)
             /\ \/ s[1] = 240 /\ In(s[2], 144, 191)
                \/ In(s[1], 241, 243) /\ C(2)
                \/ s[1] = 244 /\ In(s[2], 128, 143) ->
             [ok |-> TRUE, len |-> 4,
              cp |-> (s[1] % 8) * 262144 + (s[2] % 64) * 4096 + (s[3] % 64) * 64 + (s[4] % 64)]
        [] OTHER -> [ok |-> FALSE, len |-> 0, cp |-> 0]

(* UTF-16: a unit outside the surrogates, or a high then a low surrogate. *)
Utf16Ref(s, e) ==
  LET U(i) == IF e = "little" THEN s[i] + 256 * s[i + 1] ELSE 256 * s[i] + s[i + 1]
  IN  CASE Len(s) >= 2 /\ (U(1) < 55296 \/ U(1) > 57343) -> [ok |-> TRUE, len |-> 2, cp |-> U(1)]
        [] Len(s) >= 4 /\ In(U(1), 55296, 56319) /\ In(U(3), 56320, 57343) ->
             [ok |-> TRUE, len |-> 4, cp |-> (U(1) - 55296) * 1024 + (U(3) - 56320) + 65536]
        [] OTHER -> [ok |-> FALSE, len |-> 0, cp |-> 0]

(* The integer a field denotes: its bits read in the field's byte order,  *)
(* in two's complement when SIGNED.                                       *)
IntRef(pos, n, fl) ==
  LET raw == BitsAt(pos, n)
      bits == IF IsLittle(fl.endian) /\ n > 8 THEN SwapBytes(raw) ELSE raw
      v[j \in 0 .. n] == IF j = 0 THEN 0 ELSE 2 * v[j - 1] + bits[j]
  IN  IF fl.signed /\ n > 0 /\ bits[1] = 1 THEN v[n] - 2^n ELSE v[n]

-----------------------------------------------------------------------------
(***************************************************************************)
(* Properties.                                                             *)
(***************************************************************************)
Bit == {0, 1}

TypeOK ==
  /\ data \in DataSet
  /\ mb \in [offset : Nat, size : Int]
  /\ last.op \in {"none", "bytes", "integer", "float", "binary", "binary_all", "utf8", "utf16"}
  /\ last.ok \in BOOLEAN /\ last.pos \in Nat /\ last.n \in Nat
  /\ last.bits \in Seq(Bit) /\ last.cp \in Int
  /\ panicked \in BOOLEAN
  /\ faults \subseteq {"utf8_overread"}

(* The cursor never passes the end of the window, so remaining() (a usize *)
(* subtraction) never underflows, whatever sequence of gets ran.           *)
CursorInWindow == mb # NoMatch => mb.offset <= mb.size

(* Spec 4.3: no get advances the cursor when it fails. *)
FailureKeepsCursor ==
  ~panicked /\ last.op # "none" /\ ~last.ok => mb.offset = last.pos

(* Spec 8, "binary round-trip": get_bytes and get_binary return the bits  *)
(* of the window at the cursor, get_integer the number those bits denote  *)
(* in the field's byte order (two's complement when SIGNED), which the    *)
(* code computes by shifts and masks per branch, get_float the IEEE image *)
(* the field holds in the requested byte order; each advances the cursor  *)
(* past the field.  The unaligned gets and every get_float go through     *)
(* copy_bits.                                                             *)
ReadAtCursor ==
  ~panicked /\ last.ok /\ last.op \in {"bytes", "binary", "integer", "float"} =>
    /\ mb.offset = last.pos + last.n
    /\ CASE last.op = "integer" -> last.cp = IntRef(last.pos, last.n, last.arg)
         [] last.op = "float" ->
              LET raw == BitsAt(last.pos, last.n)
              IN  last.bits = IF IsLittle(last.arg) THEN SwapBytes(raw) ELSE raw
         [] OTHER -> last.bits = BitsAt(last.pos, last.n)

(* Spec 4.3: get_binary_all takes the rest of the window and leaves        *)
(* nothing remaining.                                                      *)
BinaryAllConsumesWindow ==
  ~panicked /\ last.op = "binary_all" =>
    /\ last.bits = BitsAt(last.pos, mb.size - last.pos)
    /\ mb.offset = mb.size

(* Spec 4.3 and scenario 4: get_utf8 accepts exactly the well-formed       *)
(* sequences at the cursor, returns their code point and advances past     *)
(* them.                                                                   *)
Utf8Decodes ==
  ~panicked /\ last.op = "utf8" =>
    LET r == Utf8Ref(WindowBytes(last.pos)) IN
    /\ last.ok = r.ok
    /\ last.ok => last.cp = r.cp /\ mb.offset = last.pos + 8 * r.len

(* Spec 4.3: get_utf16 decodes one code point with surrogate pairs and    *)
(* rejects unpaired surrogates, in the requested byte order.               *)
Utf16Decodes ==
  ~panicked /\ last.op = "utf16" =>
    LET r == Utf16Ref(WindowBytes(last.pos), last.arg) IN
    /\ last.ok = r.ok
    /\ last.ok => last.cp = r.cp /\ mb.offset = last.pos + 8 * r.len

(* get_utf8 fails on input that is not UTF-8 rather than ending the       *)
(* process (spec 4.3: the get operations return None).                    *)
NoPanic == ~panicked

=============================================================================
