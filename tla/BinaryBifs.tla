----------------------------- MODULE BinaryBifs -----------------------------
(***************************************************************************)
(* The binary BIFs of src/enigma/src/bif/binary.rs: split_binary/2,        *)
(* binary:part/2,3, compile_pattern/1, split/2,3, match/2,3, matches/2,3,  *)
(* longest_common_prefix/1, copy/1,2, first/1 and last/1.                  *)
(*                                                                         *)
(* Every binary term is a view on one RcBinary whose bytes are Data: the   *)
(* four fields of a SubBinary (offset and size in bytes, bit_offset and    *)
(* bitsize in bits; an RcBinary is the view with zero offsets).  The BIFs  *)
(* that return sub-binaries append views to terms; refs holds, for each    *)
(* term, the bits the specification says it stands for, computed from the  *)
(* bits of the argument and never from the view.  Values the other BIFs   *)
(* return are kept in result.  The regex crate is abstracted to what an    *)
(* escaped alternation of literals does: a leftmost-first search.          *)
(***************************************************************************)
EXTENDS Integers, Sequences, SequencesExt

CONSTANTS
  Data,       \* the bytes of the RcBinary every term aliases
  InitViews,  \* the binary terms the process holds at the start
  Positions,  \* the integers passed as pos
  Lens,       \* the integers passed as len
  Counts,     \* the integers passed as the n of copy/2
  Patterns,   \* patterns: sequences of alternatives, each a byte sequence
  Opts,       \* option lists of split/3 and match(es)/3
  LcpArgs,    \* bound: the lists of term indices passed to longest_common_prefix
  MaxTerms    \* bound: terms the process holds

ASSUME \A p \in Patterns : p # <<>> /\ \A k \in DOMAIN p : p[k] # <<>>

VARIABLES
  terms,      \* terms[i]: the view of the i-th binary term
  refs,       \* refs[i]: the bits the specification gives the i-th term
  result,     \* the last value a value-returning BIF gave
  panicked    \* a BIF panicked and the process is gone

vars == <<terms, refs, result, panicked>>

(* The bits of a byte sequence, most significant bit first. *)
BytesToBits(s) == [k \in 1..(8 * Len(s)) |-> (s[(k - 1) \div 8 + 1] \div 2^(7 - ((k - 1) % 8))) % 2]

RECURSIVE BitsToBytes(_)
BitsToBytes(b) ==
  IF Len(b) < 8 THEN <<>>
  ELSE <<FoldLeft(LAMBDA acc, x : 2 * acc + x, 0, SubSeq(b, 1, 8))>> \o BitsToBytes(SubSeq(b, 9, Len(b)))

DataBits == BytesToBits(Data)

(* The bits a view reads from the original binary. *)
ViewBits(v) == LET first == 8 * v.offset + v.bit_offset
               IN  SubSeq(DataBits, first + 1, first + 8 * v.size + v.bitsize)

(* Mutant: the bit offset is not masked to its low three bits. *)
SubBinaryNewUnmasked(numBits, offsetBits) ==
  [offset |-> offsetBits \div 8, bit_offset |-> offsetBits,
   size |-> numBits \div 8, bitsize |-> numBits % 8]

(* SubBinary::new(original, num_bits, offset_bits): the bit counts split   *)
(* into whole bytes and a remainder.                                       *)
SubBinaryNew(numBits, offsetBits) ==
  [offset |-> offsetBits \div 8, bit_offset |-> offsetBits % 8,
   size |-> numBits \div 8, bitsize |-> numBits % 8]

(* Term::to_bytes: a borrowed byte slice, which exists for a byte-aligned *)
(* binary with no trailing bits.                                           *)
Borrowable(v) == v.bit_offset = 0 /\ v.bitsize = 0
ToBytes(v) == SubSeq(Data, v.offset + 1, v.offset + v.size)

(* The pattern compiled by regex::escape(from_utf8(bytes).unwrap()) per   *)
(* alternative: a byte of 0x80 or more starts no UTF-8 sequence of these  *)
(* patterns, so from_utf8 fails and unwrap panics.                         *)
Utf8(p) == \A k \in DOMAIN p : \A j \in DOMAIN p[k] : p[k][j] < 128

(* Regex::find from byte from on: the leftmost start at which an          *)
(* alternative occurs, and there the first alternative in pattern order.  *)
Occurs(s, a, p) == p + Len(a) <= Len(s) /\ SubSeq(s, p + 1, p + Len(a)) = a
Starts(s, alts, from) == {p \in from..Len(s) : \E k \in DOMAIN alts : Occurs(s, alts[k], p)}
Find(s, alts, from) ==
  LET p == Min(Starts(s, alts, from))
      k == Min({j \in DOMAIN alts : Occurs(s, alts[j], p)})
  IN  [start |-> p, end |-> p + Len(alts[k]), alt |-> k]

(* Regex::find_iter: successive finds, each from the end of the last. *)
RECURSIVE FindIter(_, _, _)
FindIter(s, alts, from) ==
  IF Starts(s, alts, from) = {} THEN <<>>
  ELSE LET m == Find(s, alts, from) IN <<m>> \o FindIter(s, alts, m.end)

Init ==
  /\ terms = InitViews
  /\ refs = [i \in DOMAIN InitViews |-> ViewBits(InitViews[i])]
  /\ result = [bif |-> "none", arg |-> 0, in |-> <<>>, err |-> "ok", got |-> <<>>]
  /\ panicked = FALSE

(* A BIF returned Err(badarg!()), or panicked (unwrap, unimplemented!). *)
Fail(bif, i, in) ==
  /\ result' = [bif |-> bif, arg |-> i, in |-> in, err |-> "badarg", got |-> <<>>]
  /\ UNCHANGED <<terms, refs, panicked>>
Panic == panicked' = TRUE /\ UNCHANGED <<terms, refs, result>>
Return(bif, i, in, got) ==
  result' = [bif |-> bif, arg |-> i, in |-> in, err |-> "ok", got |-> got]

(* Terms a BIF returns are put on the process heap. *)
AppendTerms(vs, bs) ==
  /\ Len(terms) + Len(vs) <= MaxTerms
  /\ terms' = terms \o vs
  /\ refs' = refs \o bs

NewIndices(n) == [k \in 1..n |-> Len(terms) + k]

(* split_binary/2: both halves alias the original at the source's offset  *)
(* plus pos; the suffix keeps the trailing bits.                          *)
SplitBinary(i, pos) ==
  LET t == terms[i] IN
  IF pos < 0 \/ t.size < pos THEN Fail("split_binary", i, pos)
  ELSE /\ AppendTerms(<<[t EXCEPT !.size = pos, !.offset = t.offset + pos, !.bitsize = 0],
                         [t EXCEPT !.size = t.size - pos, !.offset = t.offset + pos]>>,
                       <<SubSeq(refs[i], 1, 8 * pos), SubSeq(refs[i], 8 * pos + 1, Len(refs[i]))>>)
       /\ Return("split_binary", i, pos, NewIndices(2))
       /\ UNCHANGED panicked

(* Mutant: the view starts at the source's byte offset, its bit offset   *)
(* dropped.                                                                *)
PartNoBitOffset(bif, i, pos, len) ==
  LET t == terms[i]
      l == IF len < 0 THEN -len ELSE len
      p == IF len < 0 THEN pos - l ELSE pos
  IN  IF (len < 0 /\ l > pos) \/ t.size < p \/ t.size < p + l
      THEN Fail(bif, i, <<pos, len>>)
      ELSE /\ AppendTerms(<<SubBinaryNew(l * 8, t.offset * 8 + p * 8)>>,
                           <<SubSeq(refs[i], 8 * p + 1, 8 * (p + l))>>)
           /\ Return(bif, i, <<pos, len>>, NewIndices(1))
           /\ UNCHANGED panicked

(* part: a negative len counts back from pos; the interval must lie in    *)
(* the source's whole bytes; the view starts at the source's bit position *)
(* plus pos bytes.                                                         *)
Part(bif, i, pos, len) ==
  LET t == terms[i]
      l == IF len < 0 THEN -len ELSE len
      p == IF len < 0 THEN pos - l ELSE pos
  IN  IF (len < 0 /\ l > pos) \/ t.size < p \/ t.size < p + l
      THEN Fail(bif, i, <<pos, len>>)
      ELSE /\ AppendTerms(<<SubBinaryNew(l * 8, t.offset * 8 + t.bit_offset + p * 8)>>,
                           <<SubSeq(refs[i], 8 * p + 1, 8 * (p + l))>>)
           /\ Return(bif, i, <<pos, len>>, NewIndices(1))
           /\ UNCHANGED panicked

(* part_2: the PosLen tuple must have two elements and pos >= 0. *)
Part2(i, tup) ==
  IF Len(tup) # 2 \/ tup[1] < 0 THEN Fail("part/2", i, tup) ELSE Part("part/2", i, tup[1], tup[2])

Part3(i, pos, len) ==
  IF pos < 0 THEN Fail("part/3", i, <<pos, len>>) ELSE Part("part/3", i, pos, len)
(* compile_pattern/1: the escaped alternatives joined with |. *)
CompilePattern(pat) ==
  IF ~Utf8(pat) THEN Panic ELSE Return("compile_pattern", 0, pat, pat) /\ UNCHANGED <<terms, refs, panicked>>

(* The options of split/3 in list order: trim and trim_all reach          *)
(* unimplemented!(), global sets the flag, any other atom is badarg.      *)
SplitOptions(opts) ==
  LET other == {k \in DOMAIN opts : opts[k] # "global"}
  IN  IF other = {} THEN "ok"
      ELSE IF opts[Min(other)] \in {"trim", "trim_all"} THEN "panic" ELSE "badarg"

(* Mutant: last is set to the start of each match rather than its end. *)
GlobalPartsFromStart(len, ms) ==
  LET last == IF ms = <<>> THEN 0 ELSE ms[Len(ms)].start
  IN  [k \in DOMAIN ms |-> [from |-> IF k = 1 THEN 0 ELSE ms[k - 1].start, to |-> ms[k].start]]
      \o (IF last >= len THEN <<>> ELSE <<[from |-> last, to |-> len]>>)

(* The parts of a global split: the bytes before each match, from the end *)
(* of the previous one, then the rest when any of the subject is left.    *)
GlobalParts(len, ms) ==
  LET last == IF ms = <<>> THEN 0 ELSE ms[Len(ms)].end
  IN  [k \in DOMAIN ms |-> [from |-> IF k = 1 THEN 0 ELSE ms[k - 1].end, to |-> ms[k].start]]
      \o (IF last >= len THEN <<>> ELSE <<[from |-> last, to |-> len]>>)

(* split/3: the subject is the original's bytes [offs, offs + size), the  *)
(* parts are views on it; without a match, non-global split returns the   *)
(* subject term itself.                                                    *)
Split(i, pat, opts) ==
  LET t  == terms[i]
      s  == SubSeq(Data, t.offset + 1, t.offset + t.size)
      ms == IF "global" \in Range(opts) THEN FindIter(s, pat, 0)
            ELSE IF Starts(s, pat, 0) = {} THEN <<>> ELSE <<Find(s, pat, 0)>>
      ps == IF "global" \in Range(opts) THEN GlobalParts(Len(s), ms)
            ELSE IF ms = <<>> THEN <<>>
            ELSE <<[from |-> 0, to |-> ms[1].start], [from |-> ms[1].end, to |-> Len(s)]>>
      vs == IF ps = <<>> THEN <<t>>
            ELSE [k \in DOMAIN ps |-> SubBinaryNew((ps[k].to - ps[k].from) * 8, (t.offset + ps[k].from) * 8)]
      bs == IF ps = <<>> THEN <<refs[i]>>
            ELSE [k \in DOMAIN ps |-> SubSeq(refs[i], 8 * ps[k].from + 1, 8 * ps[k].to)]
  IN  CASE t.bit_offset > 0 \/ ~Utf8(pat) \/ SplitOptions(opts) = "panic" -> Panic
        [] SplitOptions(opts) = "badarg" -> Fail("split", i, <<pat, opts>>)
        [] OTHER -> /\ AppendTerms(vs, bs)
                    /\ Return("split", i, <<pat, opts>>,
                              [parts |-> NewIndices(Len(vs)), seps |-> [k \in DOMAIN ms |-> pat[ms[k].alt]]])
                    /\ UNCHANGED panicked

(* match/3 and matches/3: the subject must be a borrowable binary; every  *)
(* option is badarg; the first match, or all of them, as {start, length}. *)
NoMatch == [start |-> -1, len |-> -1]

Matches(bif, i, pat, opts) ==
  LET s  == ToBytes(terms[i])
      fi == FindIter(s, pat, 0)
      ms == [k \in DOMAIN fi |-> [start |-> fi[k].start, len |-> fi[k].end - fi[k].start]]
      m  == Find(s, pat, 0)
  IN  CASE ~Borrowable(terms[i]) -> Fail(bif, i, <<pat, opts>>)
        [] ~Utf8(pat) -> Panic
        [] opts # <<>> -> Fail(bif, i, <<pat, opts>>)
        [] bif = "match" -> Return(bif, i, <<pat, opts>>,
                                   IF Starts(s, pat, 0) = {} THEN NoMatch
                                   ELSE [start |-> m.start, len |-> m.end - m.start])
                            /\ UNCHANGED <<terms, refs, panicked>>
        [] OTHER -> Return(bif, i, <<pat, opts>>, ms) /\ UNCHANGED <<terms, refs, panicked>>

(* longest_common_prefix/1: the length of the first string, cut down by   *)
(* the run of equal leading bytes each later string shares with it.       *)
CommonRun(a, b) ==
  Max({n \in 0..Len(a) : n <= Len(b) /\ SubSeq(a, 1, n) = SubSeq(b, 1, n)})

(* Mutant: each string's run replaces len instead of bounding it. *)
LcpLengthLastRun(strs) ==
  IF strs = <<>> THEN 0
  ELSE FoldLeft(LAMBDA len, str : CommonRun(str, strs[1]), Len(strs[1]), Tail(strs))

LcpLength(strs) ==
  IF strs = <<>> THEN 0
  ELSE FoldLeft(LAMBDA len, str : IF CommonRun(str, strs[1]) < len THEN CommonRun(str, strs[1]) ELSE len,
                Len(strs[1]), Tail(strs))

(* Every element goes through to_bytes().unwrap(), which panics on one    *)
(* that is not a borrowable binary.                                        *)
Lcp(l) ==
  IF \E k \in DOMAIN l : ~Borrowable(terms[l[k]]) THEN Panic
  ELSE /\ Return("longest_common_prefix", 0, l,
              LcpLength([k \in DOMAIN l |-> ToBytes(terms[l[k]])]))
       /\ UNCHANGED <<terms, refs, panicked>>

(* copy: n repetitions of the bytes, appended one after another. *)
RECURSIVE CopyBytes(_, _)
CopyBytes(bytes, n) == IF n = 0 THEN <<>> ELSE bytes \o CopyBytes(bytes, n - 1)

Copy2(i, n) ==
  IF ~Borrowable(terms[i]) \/ n < 0 THEN Fail("copy", i, n)
  ELSE Return("copy", i, n, CopyBytes(ToBytes(terms[i]), n)) /\ UNCHANGED <<terms, refs, panicked>>

Copy1(i) ==
  IF ~Borrowable(terms[i]) THEN Fail("copy", i, 1)
  ELSE Return("copy", i, 1, CopyBytes(ToBytes(terms[i]), 1)) /\ UNCHANGED <<terms, refs, panicked>>

(* first/1 and last/1: badarg for an empty binary. *)
First1(i) ==
  IF ~Borrowable(terms[i]) \/ terms[i].size = 0 THEN Fail("first", i, <<>>)
  ELSE Return("first", i, <<>>, Head(ToBytes(terms[i]))) /\ UNCHANGED <<terms, refs, panicked>>

Last1(i) ==
  IF ~Borrowable(terms[i]) \/ terms[i].size = 0 THEN Fail("last", i, <<>>)
  ELSE Return("last", i, <<>>, ToBytes(terms[i])[terms[i].size]) /\ UNCHANGED <<terms, refs, panicked>>

Tuples == {<<p, l>> : p \in Positions, l \in Lens} \cup {<<0>>}

Alive == ~panicked

(* The BIFs of the binary module; a panic ends the process. *)
BinaryNext ==
  \/ \E i \in DOMAIN terms, tup \in Tuples : Alive /\ Part2(i, tup)
  \/ \E i \in DOMAIN terms, pos \in Positions, len \in Lens : Alive /\ Part3(i, pos, len)
  \/ \E pat \in Patterns : Alive /\ CompilePattern(pat)
  \/ \E i \in DOMAIN terms, pat \in Patterns, opts \in Opts : Alive /\ Split(i, pat, opts)
  \/ \E i \in DOMAIN terms, pat \in Patterns, opts \in Opts : Alive /\ Matches("match", i, pat, opts)
  \/ \E i \in DOMAIN terms, pat \in Patterns, opts \in Opts : Alive /\ Matches("matches", i, pat, opts)
  \/ \E l \in LcpArgs : Alive /\ (\A k \in DOMAIN l : l[k] \in DOMAIN terms) /\ Lcp(l)
  \/ \E i \in DOMAIN terms, n \in Counts : Alive /\ Copy2(i, n)
  \/ \E i \in DOMAIN terms : Alive /\ Copy1(i)
  \/ \E i \in DOMAIN terms : Alive /\ First1(i)
  \/ \E i \in DOMAIN terms : Alive /\ Last1(i)

(* With erlang:split_binary/2, which binary.rs also implements. *)
Next ==
  \/ BinaryNext
  \/ \E i \in DOMAIN terms, pos \in Positions : Alive /\ SplitBinary(i, pos)

Spec == Init /\ [][Next]_vars
-----------------------------------------------------------------------------
View == [offset : 0..Len(Data), bit_offset : 0..7, size : 0..Len(Data), bitsize : 0..7]

TypeOK ==
  /\ terms \in Seq(View)
  /\ refs \in Seq(Seq({0, 1}))
  /\ result.bif \in {"none", "split_binary", "part/2", "part/3", "compile_pattern", "split", "match",
                     "matches", "longest_common_prefix", "copy", "first", "last"}
  /\ panicked \in BOOLEAN

(* The bytes the specification gives the i-th term. *)
RefBytes(i) == BitsToBytes(refs[i])

(* Every binary term a BIF returned reads, through its offset, bit offset, *)
(* size and bitsize, exactly the bits the specification gives it: the     *)
(* slice of its argument's bits, over chains of part, split and           *)
(* split_binary on sub-binaries at any bit offset.                        *)
TermsDenote ==
  /\ Len(terms) = Len(refs)
  /\ \A i \in DOMAIN terms : ViewBits(terms[i]) = refs[i]

(* The parts split/3 returns, with the separators it matched between      *)
(* them, put back together give the subject: no byte is lost, repeated or *)
(* taken from outside it.  The number of parts is not stated: the global  *)
(* loop drops the trailing empty part after a match that ends the subject *)
(* (binary.rs:311), which the comments at 268 and 308 say only trim       *)
(* should remove; that is a separate hazard.                              *)
SplitReassembles ==
  result.bif = "split" /\ result.err = "ok" =>
    LET ps == result.got.parts
        ss == result.got.seps
        pieces == [k \in 1..(Len(ps) + Len(ss)) |->
                     IF k % 2 = 1 THEN refs[ps[(k + 1) \div 2]] ELSE BytesToBits(ss[k \div 2])]
    IN  FlattenSeq(pieces) = refs[result.arg]

(* binary:part is badarg exactly when pos or pos + len leaves [0, byte_size]. *)
PartInRange(r) ==
  /\ Len(r.in) = 2
  /\ LET pos == r.in[1]
         len == r.in[2]
         n   == Len(refs[r.arg]) \div 8
     IN  0 <= pos /\ pos <= n /\ 0 <= pos + len /\ pos + len <= n

(* first, last, copy and longest_common_prefix give the byte-level values *)
(* of the specification over the bytes of their arguments, and part       *)
(* accepts exactly the intervals inside its argument.                     *)
ValuesAgree ==
  /\ result.bif \in {"part/2", "part/3"} => (result.err = "ok" <=> PartInRange(result))
  /\ result.err = "ok" =>
       CASE result.bif = "first" -> result.got = Head(RefBytes(result.arg))
         [] result.bif = "last" -> result.got = Last(RefBytes(result.arg))
         [] result.bif = "copy" -> result.got = FlattenSeq([k \in 1..result.in |-> RefBytes(result.arg)])
         [] result.bif = "longest_common_prefix" ->
              result.got = IF result.in = <<>> THEN 0
                           ELSE Len(LongestCommonPrefix({RefBytes(result.in[k]) : k \in DOMAIN result.in}))
         [] OTHER -> TRUE
====
