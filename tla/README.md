# TLA+ models of the enigma BEAM runtime core

This directory holds TLA+ models of the runtime core described in `spec.md`,
written from the Rust sources under `src/`. Every definition that models code
is listed in `PROJECT.json` ("map") with the source lines it translates. The
runs, what they check, and the findings are listed in `PROJECT.json` too.
They are explained below.

## 1. Inventory

| Component | Source | State it keeps | Operations |
|-----------|--------|----------------|------------|
| Binary / SubBinary terms | `src/src/bitstring.rs` 47-222 | `Binary{is_writable, data: Vec<u8>}` behind an `Arc`; boxed `SubBinary{size, offset, bitsize, bit_offset, is_writable, original}` | `Binary::with_size`, `SubBinary::new`, `binary_size!` |
| Append protocol | `bitstring.rs` 1097-1320 | the sub-binary flags, the `Vec` length and capacity, the process's `bs` builder | `append` (bs_append), `private_append`, `init_writable` |
| Builder | `bitstring.rs` 1580-1725 | `Builder{binary: *mut Vec<u8>, offset}` in the process context | `put_integer` (with `fmt_int`), `put_bytes`, `put_binary_all`, `put_float` |
| Match buffer | `bitstring.rs` 226-1038 | `MatchBuffer{original, offset, size}` inside a boxed `MatchState` | `start_match_3`, `get_bytes`, `get_integer`, `get_float`, `get_binary`, `get_binary_all`, `get_utf8`, `get_utf16` |
| Bit primitives | `bitstring.rs` 10-43, 1322-1578, 1727-1754 | none (pure) | `copy_bits`, `cmp_bits`, `get_bit`, `bytes_to_list`, the mask/offset macros |
| Arena heap | `src/enigma/src/immix/block.rs` | linked list of blocks; each has a base, a layout and a bump cursor; `current_block` | `Heap::new`, `alloc`, `alloc_layout`, `alloc_layout_slow`, `Block::new` |
| Cons lists | `src/src/value/cons.rs` | heap-allocated `Cons{head, tail}` | `from_iter`, `iter`, `unicode_list_to_buf` |
| Module registry and exports table | `src/enigma/src/module.rs`, `exports_table.rs` | `modules` behind a mutex; `exports: MFA -> Fun(InstrPtr) or Bif` behind a RwLock, pre-filled with every BIF; each module's instruction vector | `process_exports`, `load_nifs`, `load_bytes`, `load_module`, `finish_loading_modules`, `register`, `lookup` |
| Loader BIFs | `src/enigma/src/bif/load.rs` | prepared modules as boxed raw pointers held in process terms | `prepare_loading_2` (with `maybe_uncompress`), `finish_loading_1`, `has_prepared_code_on_load_1`, `get_module_info_1/2`, `purge_module_2` (stub) |
| Binary BIFs | `src/enigma/src/bif/binary.rs` | none; results are sub-binaries that alias the argument | `split_binary_2`, `part_2/3`, `split_2/3`, `match_2/3`, `matches_2/3`, `compile_pattern_1`, `copy_1/2`, `first_1`, `last_1`, `longest_common_prefix_1` |
| Map BIFs | `src/enigma/src/bif/maps.rs` | none; immutable HAMT values | `new`, `find`, `get`, `from_list`, `to_list`, `is_key`, `keys`, `values`, `merge`, `put`, `remove`, `update`, `take` |
| Timer BIF | `src/enigma/src/bif/timer.rs` | a delay future spawned on the runtime executor | `send_after_3` |
| Regex BIF | `src/enigma/src/regex.rs` | none | `re:run/3` |
| dtrace BIFs | `src/enigma/src/bif/dtrace.rs` | none | constant stubs |

### How the components interact

* Bytecode builds a bitstring with `bs_init_writable` (`init_writable`), then
  `bs_append` (`append`) or `bs_private_append`, then a series of `bs_put_*`
  instructions that call the `Builder` in the process context. `append` and
  `private_append` rebind that builder to the binary being extended. The
  builder holds a raw pointer to the `Vec<u8>` inside the shared `Arc<Binary>`,
  so every sub-binary over that binary sees what it writes.
* Terms are pointers. Several registers (and heap cells) may point to the same
  boxed `SubBinary`. `append` clears `is_writable` on the boxed value in place,
  so every alias sees the change.
* Matching (`start_match_3`, the `get_*` calls) reads the same `Arc<Binary>`.
  `get_binary`, `get_binary_all`, `split_binary`, `part` and `split` make new
  sub-binaries that alias it.
* Loading a module registers it in the modules registry under its mutex, then
  writes its exports into the exports table under the write lock. Every call
  site of every process reads the exports table under the read lock.
  `finish_loading_modules` drops the exports lock between registering the
  exports of `beam_lib` and patching its NIF stubs.
* `send_after` spawns a future on the tokio executor, which sends the message
  from another thread after the delay.

### What is hard

* **Aliasing and the writable capability** (spec 5). Extending a binary in
  place is sound only if no other term can still grow it and if no term that
  must stay unchanged is written. The capability is two flags checked together.
  It is cleared in place on a shared boxed value. Tests exercise one append at
  a time. The interesting cases are sequences of appends to old and new terms
  through aliases.
* **Lengths against capacities.** `append` reserves capacity but does not
  change the length of the `Vec`. `private_append` tests the capacity but
  resizes the length. The builder indexes by length, except for 8-bit puts,
  which push at the end.
* **Bit arithmetic at boundaries.** These are byte and bit offsets, fields that
  straddle a byte, rounding in `binary_size!`, fixed-width words in
  `get_integer`, and UTF-8/16 buffers copied past the end of the window.
* **Concurrency in the loader.** The registry mutex and the exports RwLock are
  taken in a fixed order. Readers may run between `process_exports` and
  `load_nifs`. NIF patching writes the instruction vector of a module that
  other schedulers may be executing.
* **Timers.** Delivery happens on another thread, after the BIF has returned.

### What makes each component correct

* Append protocol: at most one writable sub-binary per binary (spec 4.3 and 5).
  Appending to a stale term copies and never touches its successor's binary.
  The result of `append(B, k)` followed by `k` bits of puts is `B` followed by
  those bits (spec 8, "append associativity"). No sub-binary extends past the
  bytes of its binary. No legal instruction sequence panics.
* Match buffer: `offset <= size`, and no operation advances on failure. Every
  byte read lies inside the window. `get_binary`/`get_bytes` return the bits at
  the cursor (spec 8, "binary round-trip"). `get_binary_all` leaves nothing
  remaining. UTF-8/16 decoding agrees with the Unicode definition.
* Bit primitives: `copy_bits` writes exactly the requested bits and preserves
  the others. `cmp_bits` agrees with comparing the bit sequences (not
  modelled, see section 5).
* Arena: allocations are aligned, inside their block, never overlap each other
  or a block header, and only move forward.
* Registry: an exported BIF always resolves to the BIF (spec 8, "export
  precedence"). No deadlock between loaders and callers. A caller never runs a
  NIF stub after `finish_loading` returned. `finish_loading` is atomic
  (spec 4.5).
* Binary BIFs: `split_binary` gives the prefix and suffix of its argument.
  `part` stays in range. `split` with `global` returns every part, the empty
  ones included (spec 8, scenarios 1-3).
* Maps: `badmap` is raised before `badkey`. `merge` is left-biased. The map laws
  of spec 8 hold.
* Timer: every armed message is eventually delivered exactly once.

## 2. Plan

The modules are written in this order, most important behaviour first.

1. `Bitstring.tla` (done): the append protocol and the builder over an
   explicit heap of binaries and boxed sub-binaries, with registers that alias
   them. `MCBitstring.tla` and the `Bitstring*.cfg` files check it.
2. `BitstringMatch.tla` (done): the match buffer as a cursor over a binary,
   with every `get_*` operation. Still to do: a composed module that adds `start_match_3`/`get_binary` to
   `Bitstring` so that match-made sub-binaries (byte and bit offsets) feed
   `append`.
3. `BitOps.tla` (done): `copy_bits` with `make_mask!` and `mask_bits!` as
   operators over byte-addressed memory, used by every match-buffer caller of
   `copy_bits`. `cmp_bits` and `bytes_to_list` are not modelled (section 5).
4. `ArenaHeap.tla` (done): bump allocation over blocks with alignment and the
   large-block path. Block sizes are CONSTANTS scaled down from 32 KiB. The
   size comparison in `Block::new` does not depend on scale.
5. `ExportsRegistry.tla` (done): loader processes and calling processes around the
   modules mutex and the exports RwLock. `AbstractExports.tla` is an abstract
   table in which a module's exports appear atomically. It is checked as a
   refinement of the detailed model with `INSTANCE ... WITH`.
6. `BinaryBifs.tla` (done): every BIF of `binary.rs` as an action on views of
   one binary, checked against the specification's bytes of each term.
7. The map BIFs are not modelled (see section 5).
8. `SendAfter.tla`: the timer future, the executor and the receiving mailbox,
   with a liveness property under weak fairness of the executor.

## 3. Modules and runs (current state)

### `Bitstring.tla`

State (all process-local; the bitstring machinery is used by one process at a
time, so there is no concurrency here, only aliasing):

* `bins`: the `Arc<Binary>` objects by identity. Each is a record of
  `writable` (`Binary.is_writable`), `len` and `cap` (the `Vec`'s length and
  capacity) and `bytes`. `bytes` is the prefix of the data that has been
  written; every byte from `Len(bytes)` to `len - 1` is zero. This is exact:
  `Binary::with_size` zero-fills.
* `subs`: the boxed `SubBinary` values by identity (`size`, `offset`,
  `bitsize`, `bit_offset`, `is_writable`, `original`).
* `regs`: the x registers. Each holds a term `Bin(b)`, `Sub(s)` or `NoTerm`.
  Two registers may hold the same boxed term.
* `bs`: the process's `Builder` (`binary`, `offset`).
* `pending`: the number of bits the current construction still has to put.
  This is the contract of compiler-generated code: after `bs_append` or
  `bs_private_append` with size `k`, the `bs_put_*` instructions write `k`
  bits, and nothing else runs in between.
* `target`, `base`, `built`: history variables. They record the term under
  construction, the content its source had, and the bits the puts were asked
  to write.
* `panicked`, `faults`: a panic (`unimplemented!`, an index out of bounds,
  `assert!`) ends the process. `faults` records undefined behaviour that does
  not stop it: unsafe reads beyond the `Vec`.

Actions, each the whole of one Rust function:

| Action | Code | Notes |
|--------|------|-------|
| `InitWritable(r, n)` | `init_writable` | a fresh zero-filled binary and an empty writable view of it; the builder is not rebound |
| `BsAppend(src, dst, k, unit)` | `append` | `AppendNothing` (build size 0), `AppendInPlace` (writable branch: clear the flag, `reserve`, rebind the builder, new writable sub) and `AppendCopy` (copy branch: a new binary of `max(2 * nbytes(used), 256)` bytes, `copy_binary!`, rebind, new writable sub). A failed unit check or a negative size returns `None` and changes nothing, so it is not a step |
| `PrivateAppend(r, k)` | `private_append` | capacity check, `resize` of the length, rebind, the sub-binary grown in place |
| `PutInteger(sz, e, v)` | `Builder::put_integer`, `fmt_int` | 8 bits: `Vec::push`; a field inside one byte, a bit-unaligned start, a size that is not a multiple of 8 or a slice out of range: panic; otherwise `fmt_int` |
| `PutBytes(p)`, `PutFloat(img)` | `put_bytes`, `put_float` | a byte copy at the builder's byte offset, or a panic when the slice is out of range |
| `PutBinaryAll(r)` | `put_binary_all` | panics on a bit offset or an out-of-range slice; an overlapping copy inside one `Vec` is recorded as a fault |
| `Move(src, dst)` | the emulator's `move` | makes two registers point to one boxed term (the emulator loop is not under `src/`) |

`bs_append` and `bs_put_*` are emitted by the compiler in a fixed shape: the
puts that follow an append write exactly its build size, with nothing else in
between. `pending` encodes that contract; the other actions wait for it to be 0.
Reading past the end of a `Vec` (the copy branch can) is undefined behaviour:
the bits read are a nondeterministic choice of all zeros or all ones, and the
fault is recorded.

### `BitstringMatch.tla`

State: `data`, the bytes of the `Binary` being matched; `mb`, the
`MatchBuffer` (`offset` and `size` in bits, or `NoMatch` before
`start_match_3`); `last`, what the last get returned (the operation, its
argument, success, the cursor it read at, the bits or the code point);
`panicked`; and `faults`, the unsafe reads beyond the `Vec`. Matching never
writes the binary, so `data` is chosen in `Init` from `DataSet` and never
changes. `get_integer` computes the field's value with the arithmetic of
each branch: `IntInByte` shifts the byte right and masks it (537-548),
`IntTwoBytes` does the same to the `u16` of two bytes (549-566), and `IntWord`
masks a partial first byte, shifts whole bytes in, then shifts in the top
bits of the last byte (567-607), with the `BitOps` operators `Shr`, `BAnd`
and `MakeMask`. TLC's integers are 32-bit signed, so fields below
`SMALL_BITS` are at most 30 bits (an `ASSUME`), and the `u32` wrap of wider
fields cannot be represented. `get_binary` builds its result with `NewSub`
(`SubBinary::new`: size, bitsize, offset and bit offset from the bit counts)
and returns the bits those four fields denote (`SubBits`). Every other get that copies bits calls `BitOps.CopyBits`, as the
code calls `copy_bits`: `CopyOut` copies from the binary into a zeroed buffer
(`get_bytes`, `align_utf8_bytes`, `get_utf16`), and `FloatImage` copies a
float's bits forward, or backward from the last byte when the field is
little-endian (`get_float` 787-811). A read beyond the `Vec` is recorded as a
fault when one of the addresses `CopyBits` reports as read lies past the end.
No property depends on the value that read returns.

| Action | Code | Notes |
|--------|------|-------|
| `StartMatch(v)` | `start_match_3`, `MatchBuffer::from` | a `Binary` gives `[0, 8 * len]`; a `SubBinary` gives `[offset, offset + size]` in bits |
| `GetBytes(nb)` | `get_bytes` | the aligned branch borrows the bytes; the unaligned branch gives `copy_bits` the byte offset |
| `GetInteger(n, fl)` | `get_integer` | n = 0; too few bits; a field in one or two bytes; the 9..63-bit big-endian branch (`IntWord`); everything else reaches `unimplemented!` (a panic). `SIGNED` is read by no branch |
| `GetFloat(n, e)` | `get_float` | 0 bits; too few bits; a size other than 32 or 64; a non-finite value fails; a little-endian field is copied with `ddir = -1` from the last byte, so the bytes come out reversed |
| `GetBinary(n)`, `GetBinaryAll` | `get_binary`, `get_binary_all` | the result is `SubBinary::new(original, n, offset)`; `get_binary_all` sets the cursor to the number of bits that remained |
| `GetUtf8` | `get_utf8`, `align_utf8_bytes` | the `TRAILING_BYTES_FOR_UTF8` match (`Utf8Result`), with its 9 sent to `unreachable!` (a panic); an unaligned cursor copies 8, 24 or 32 bits |
| `GetUtf16(e)` | `get_utf16` | one unit, or a high surrogate followed by a low one |

The properties compare what a get returned with reference definitions written
from spec 4.3 and from the Unicode standard, not from the code.
`Utf8Ref` is the table of well-formed byte sequences (Unicode table 3-7),
`Utf16Ref` is surrogate-pair decoding, and `IntRef` is the integer a field
denotes. `NATIVE` is not in `Endians`: spec 4.3 says the loader rewrites it to
`LITTLE` or big before the code runs.

### `BitOps.tla`

`copy_bits(src, soffs, sdir, dst, doffs, ddir, n)` (bitstring.rs 1448-1578)
and the macros it uses (10-43), as operators. Memory is byte-addressed: the
source and the destination are functions from their
buffers' addresses to bytes. A pointer is an address, and `offset(dir)` adds
`dir`. Shifts on `u8` keep the low 8 bits (`Shl`, `Shr`). Every shift
`copy_bits` makes is below 8, so no shift overflows. `|` and `&` are the
community `Bitwise` operators, tabulated once over the bytes.

| Operator | Code |
|----------|------|
| `CopyBits` | the prologue (pointers, bit offsets, `lmask`, `rmask`, `count`) and the dispatch on `n = 0`, `doffs + n < 8`, `soffs == doffs` |
| `CopyInByte` | all bits in one destination byte (1477-1500), one or two source bytes |
| `CopyAligned` | equal bit offsets: a masked first byte, `count` whole bytes, a masked last byte (1502-1528) |
| `CopyShifted` | unequal offsets: the first byte, the loop joining two source bytes, and the tail, which reads one more source byte only when `rmask << rshift` is non-zero (1529-1577) |

Each returns the new destination and two sets: the source addresses read and
the destination addresses written. `BitstringMatch` turns a read past the
`Vec` into a fault. The match buffer's callers all copy into offset 0 and a
whole number of bytes, so these runs use the aligned and the shifted whole-byte
loops with forward and backward destinations. The mask branches and
`CopyInByte` are translated from the code like the rest, but no kept run uses
them: the only callers that reach them are `Bitstring`'s `copy_binary!`, which
`Bitstring.tla` still models by its result on the bits.

### `ArenaHeap.tla`

The bump allocator of `immix/block.rs`, scaled by 1/512: `BlockData` = 64
stands for the 32 KiB of a default block, and `HeaderSize` = 40 and
`HeaderAlign` = 8 are the size and alignment of `Block` in a 64-bit build.
The comparison in `Block::new` and the rounding in `alloc_layout` do not
depend on the scale.

| Variable | Code |
|----------|------|
| `blocks[k]` | the k-th `Block` header: `data`, layout size, `next` (an index, 0 for `None`), bump `ptr` |
| `current_block`, `all_blocks` | the two `Cell`s of `Heap` |
| `allocs` | the regions `alloc` has returned and `ptr::write` has filled |
| `ub`, `panicked` | a value written over a header; a panic |

| Definition | Code | Notes |
|------------|------|-------|
| `BlockLayout`, `NewBlock`, `Footer` | `Block::new`, `default_block_layout` | the header is at `data + size - HeaderSize` |
| `Bases` | `Global.alloc` | every address the layout's alignment allows, modulo the largest alignment |
| `Init` | `Heap::new` | one default block |
| `AllocLayout(r)` | `Heap::alloc`, `alloc_layout` | round up, overflow panic, debug assertion, fast path, else `AllocSlow` |
| `AllocSlow(r)` | `alloc_layout_slow` | link, switch, bump, return the block's data |
| `Write` | `ptr::write` in `alloc` | a write over a header sets `ub`, and nothing runs after it |

`DebugAssertions` chooses the build. With it on, the assertions at 150 and
193 panic. With it off (the release build), the write happens.

### `ExportsRegistry.tla` and `AbstractExports.tla`

Loader threads and caller threads share `vm.modules` (a parking_lot `Mutex`)
and `vm.exports` (a parking_lot `RwLock` around `ExportsTable`). `modLock` and
`expWriter` hold the thread that holds each lock, or `None`. A lookup is one
step enabled when no writer holds the exports lock: the read guard lives only
for `lookup`.

| Definition | Code |
|------------|------|
| `WithRc`, `Init` | `ExportsTable::with_rc`: every BIF is in the table from the start |
| `Register`, `Lookup` | `ExportsTable::register`, `lookup` |
| `LoadBytes`, `LoadBytesParse` | `load_bytes` (and `load_module`, which differs only in reading a file) |
| `FinishLoading` | `finish_loading_1` handing its prepared modules over |
| `AddModule`, `LockExports`, `ExportsDone`, `UnlockModules` | one iteration of the loop of `finish_loading_modules` |
| `ProcessExport` | one export of `Module::process_exports`, skipped when it is a BIF |
| `LoadNifsLock`, `LoadNif`, `LoadNifsDone` | `Module::load_nifs` on `beam_lib` |
| `Call`, `Run` | the emulator's external call: lookup under the read lock, then running the export (modelled from spec 4.5, since the dispatch loop is not under `src/`) |

`AbstractExports` is what spec 4.5 promises: a batch of modules becomes
visible in one step, and a lookup returns the BIF, else the loaded export,
else nothing. `ExportsRegistry` maps to it with `loaded <- visible` and
`result <- cres`. `visible` is a history variable: every step (`LoaderStep`,
`CallerStep`) ends with `Publish`, which sets it to `LoadedMods` (the modules
whose every export is in the table) when the step leaves the exports write
lock free, and otherwise keeps it. A caller can only look up while the lock is
free, so `visible` is what callers can observe; a loader's half-done
`process_exports` under the write lock is not yet visible.
`ImplementsAbstractExports` checks `Abs!Spec` as a temporal property.

Fairness: each loader and each caller step is strongly fair (`SF_vars`). A
thread waiting on a parking_lot lock is enabled only while the lock is free.
parking_lot hands the lock to waiters with eventual fairness, so a waiter that
keeps finding the lock free is eventually granted it. Weak fairness would be
too weak for this.

### `BinaryBifs.tla`

Every binary term is a view on one `RcBinary` whose bytes are `Data`.
`terms[i]` has the four fields the BIFs read from a term's boxed header:
`offset`, `bit_offset`, `size` and `bitsize`. An `RcBinary` is the view with
zero offsets. A BIF that returns sub-binaries appends views to `terms`.
`refs[i]` holds the bits the specification gives the term. It is computed
from the argument's `refs` entry, never from a view, so `ViewBits(terms[i])
= refs[i]` is a real check of the offset arithmetic. Value results are kept
in `result`, and a panic sets `panicked` and ends the process.

| Definition | Code |
|------------|------|
| `SubBinaryNew` | `SubBinary::new` (bit counts split into bytes and bits) |
| `SplitBinary` | `split_binary_2` |
| `Part`, `Part2`, `Part3` | `part`, `part_2`, `part_3` |
| `CompilePattern`, `Utf8` | `compile_pattern_1`; the `from_utf8(..).unwrap()` of each alternative |
| `Split`, `SplitOptions`, `GlobalParts` | `split_3`: the unaligned panic, the pattern, the option loop, the global loop and the single match |
| `Matches`, `NoMatch` | `match_3` and `matches_3` |
| `Lcp`, `LcpLength`, `CommonRun` | `longest_common_prefix_1`, `longest_common_prefix` |
| `Copy1`, `Copy2`, `CopyBytes` | `copy_1`, `copy_2`, `copy` |
| `First1`, `Last1` | `first_1`, `last_1` |
| `Borrowable`, `ToBytes` | `Term::to_bytes`: not under `src/`, so modelled from the spec as a borrow of a byte-aligned term with no trailing bits |
| `Occurs`, `Starts`, `Find`, `FindIter` | the regex crate on an escaped alternation of literals: leftmost-first, with each search resuming at the end of the last match |

Four paths panic, and the model explores each one as the end of the process:
* `split` of a subject that starts inside a byte (`unimplemented!`);
* a pattern that is not UTF-8 (`from_utf8(..).unwrap()`);
* the `trim` and `trim_all` options (`unimplemented!`);
* `longest_common_prefix` of a list holding a term that `to_bytes` cannot
  borrow (`unwrap`).

The `_2` forms of `split`, `match` and `matches` call the `_3` form with an
empty option list, so they share its action.

The reference definitions are the specification's, written independently of
the code's loops:
* `LeftmostFirst` and `NoneAfter` describe a search declaratively: no match
  overlaps another, no match skips an earlier occurrence, and each match is
  the first alternative in list order at its position.
* `ValuesAgree` uses `LongestCommonPrefix` of the community module
  `SequencesExt` and byte-level definitions of `first`, `last` and `copy`.

## 4. Runs

The `Bitstring` runs use `MCBitstring.tla`, and the `BitstringMatch` runs use
`MCBitstringMatch.tla`, to give the constants their values. A panic
ends the process, so a state after a panic has no successor: every
cfg says `CHECK_DEADLOCK FALSE` for that reason. A match also simply stops
when its window is used up. The bitstring models have one
process and no concurrency, so they assume no fairness and have no liveness
properties. The arena is also single-threaded: each `alloc` is one step.
Only the registry model has threads, fairness and liveness.

Passing runs (each property has a mutant in `PROJECT.json` that breaks it):

* `capability` (`Bitstring.cfg`): three registers holding the literal
  `<<1, 2>>`, `binary:part(Lit, 1, 1)` and an 11-bit prefix of it; up to 3
  binaries and 4 sub-binaries; build sizes 0 and 8 bits; units 1 and 8; 8-bit
  puts; terms up to 24 bits. That is enough for appends to a stale alias after
  an in-place append, appends to the copy branch's result, private appends
  and moves that alias a writable term. It checks `TypeOK`, `WritableUnique` (at most
  one writable view per binary) and `BuilderOwnsTarget` (while puts are
  pending the builder is bound to the binary of the term under construction,
  and no other view of that binary is writable). About 410 000 distinct
  states, 2 minutes.
* `capability_puts` (`BitstringPuts.cfg`): two registers, build sizes 16 and
  64, puts of 4, 8 and 16 bits, bytes and a float, and a view of the literal at
  bit offset 3. It fires every put and each of its panics, and checks
  `LiteralImmutable`: the literal `<<1, 2>>` is the `Binary` of the
  registers' shared terms, created writable (`Binary::from`), so only the
  sub-binary flag check of `append` (1124) keeps an append from taking it in
  place; the literal's bytes must never change. `VIEW MCPutsView` leaves out
  the history variables, which neither the guards nor the invariant read.
  About 1.5 million states, 1.5 minutes.

* `match_utf` (`BitstringMatchUtf.cfg`): every 3-byte binary over 11 bytes at
  the edges of the UTF-8 and UTF-16 tables (41, 80, 9F, A0, BF, C2, E0, ED,
  F0, D8, DC). Together with the second bytes they cover every overlong,
  surrogate and range limit of the 2- and 3-byte forms. The binaries also
  include seven 4-byte sequences: U+1F600, an overlong F0 form, an F4 form
  above U+10FFFF, surrogate pairs in both orders, an unpaired high surrogate,
  and +infinity. Windows are the whole binary, a view at bit 3 and an aligned
  view that ends early. Between the UTF gets run gets of 1 byte, 3 bits, a
  16-bit integer and a 32-bit float, so the UTF gets happen at every cursor
  these can reach. The run checks `Utf8Decodes`, `Utf16Decodes`,
  `FailureKeepsCursor` (no failed get moves the cursor) and `CursorInWindow`
  (`remaining()` never underflows). About 1.5 million states, 1.5 minutes.
* `match_reads` (`BitstringMatchReads.cfg`): 3-byte binaries over 00, 81
  and FF, a NaN, and the 8-byte binary `<<1,...,8>>`, long enough for a
  64-bit float. Integers of 0, 5, 8, 16, 24 and 64 bits are read in both
  byte orders, floats of 0, 16, 32 and 64 bits, and binaries of 3 and 8 bits,
  at aligned and unaligned cursors (a 5-bit field past bit 3 takes the
  two-byte branch, a 24-bit one at bit 3 the word branch with a partial
  first and last byte). The run checks `ReadAtCursor`: every successful get
  ends where the cursor now is; an integer's value is the value `IntRef`
  gives the field's bits, in the flags' byte order and sign; a float's bits
  are the field in memory order, byte-swapped when little-endian; any other
  get returns the field's bits. 16-bit floats always fail, 64-bit integers
  panic. About 67 000 states, 15 seconds.
  It leaves `get_bytes` out, because at an unaligned cursor it reads the
  wrong bits (hazard `bitstring.rs:492`).

* `arena` (`ArenaHeap.cfg`): a release build. It runs every order of up to
  five allocations of 1-byte, 8-byte, 16-aligned 16-byte, 72-byte and
  106-byte values, over at most 4 blocks, with every block address the
  alignment allows (0 or 8 modulo 16). The 72-byte value is larger than a
  block's data but smaller than the default block size. The 106-byte value
  needs a special block whose size is not a multiple of 8. The run checks
  four properties:
  * `HeadersAligned`: every block header is aligned.
  * `AllocsAligned`: every value is aligned.
  * `AllocsDisjoint`: no two values share a byte.
  * `ChainLinksAll`: the list from `all_blocks` links every block in order
    and ends at `current_block`.

  About 9 600 states. `CHECK_DEADLOCK FALSE`: the run stops at the bounds
  and after undefined behaviour.
* `registry` (`ExportsRegistry.cfg`): the threads and their work are:
  * two callers, each making 2 calls among `beam_lib:f1`, `m2:g`, `m2:h` (a
    BIF) and `m3:k`;
  * a `load_bytes` loader of `m2`;
  * two `finish_loading` loaders, one of `beam_lib` with its NIF `f1`, and
    one of `m3`.

  The run checks two properties:
  * `ImplementsAbstractExports`: this is the refinement. Since the abstract
    lookup returns the BIF first, it also says no load ever shadows a BIF.
  * `AllFinish`: under the fairness above, every loader finishes and every
    caller makes its calls and goes idle.

  About 109 000 states, 1 minute. `CHECK_DEADLOCK FALSE`: the work is
  bounded, so every thread stops. A deadlock would show as stuttering that
  violates `AllFinish`.

* `binary_bifs` (`BinaryBifs.cfg`, with `MCBinaryBifs.tla`): the binary is
  `<<1,2,1,2>>`. The process starts with three views of it: the whole binary,
  its aligned middle `<<2,1>>`, and a 2-byte view starting at bit 3.
  * `pos` is -1, 1 or 3, and `len` is -2, 1 or 2.
  * The patterns are `[<<2>>, <<1,2>>]`, `<<2>>` and the non-UTF-8 `<<255>>`.
    The first one matches `<<1,2>>` at 0 although `<<2>>` occurs at 1. With
    `<<2>>`, the subject ends on a match.
  * The options are `[]`, `[global]`, `[trim]` and `[scope]`.

  `MCSpec` leaves out `split_binary`: its prefix is wrong (see
  `binary_split_binary`), and every term derived from the prefix would
  violate the properties. Up to two terms are added, so a BIF can run on a
  term made by an earlier `part` or `split`. `longest_common_prefix` gets
  lists of two of `<<>>`, `<<1,2>>`, `<<1,2,4>>`, `<<1,5>>` and `<<1,4,5>>`,
  whose common prefixes are 0, 1 and 2 bytes. The run checks four properties:
  * `TermsDenote`: every view reads the bits the specification gives it.
  * `SplitReassembles`: split's parts and the separators it matched
    reassemble the subject. It says nothing of the number of parts: the
    global loop drops a trailing empty part (`binary.rs:311`), which only
    `trim` should do (comments at 268 and 308).
  * `ValuesAgree`: `first`, `last`, `copy` and `longest_common_prefix` agree
    with the byte-level references, and `part` is badarg exactly when the
    interval leaves the argument.

  About 15 500 states, under a minute. `CHECK_DEADLOCK FALSE`: a panic ends
  the process, and a panic is the only state without a successor.

The two capability runs use `VIEW MCCapabilityView`, which leaves out the bytes and
the history variables. This is sound for them: their invariants do not read
those variables, and no guard reads a byte of data (guards read lengths,
capacities, offsets and flags), so merging states that differ only in data
loses no behaviour of the remaining variables.

Violation runs (each isolates one behaviour with the smallest data that shows
it; see "findings" in `PROJECT.json`):

| Run | Property | What the code does |
|-----|----------|--------------------|
| `immutable` | `TermsImmutable` | x0 holds the first appended term; a second in-place append into x1 starts the builder at offset 0, and its put overwrites the bytes x0 holds |
| `arena_footer` | `AllocsInBlock` | a 72-byte value (32 KiB + 8 unscaled) gets a default block and is written over its header |
| `registry_batch` | `ImplementsAbstractExports` | the loader frees the exports lock with `m2` of a batch of `m2` and `m3` exported and `m3` not registered, so `m2` becomes visible alone |
| `registry_nif` | `NoStubCall` | a caller runs `beam_lib:f1` between `process_exports` and `load_nifs` and gets the NIF stub |
| `binary_split_binary` | `TermsDenote` | `split_binary(<<1,2,1,2>>, 1)` returns the prefix `<<2>>`, because the prefix view starts at `offset + pos` |

More defects are modelled but have no run of their own, because the
project keeps at most twelve runs. Each is listed as a hazard in
`PROJECT.json`, with the property that TLC finds violated:

* A 16-bit big-endian put of `0x1234` writes `00 00` (`bitstring.rs:1603`).
  This violates `AppendedContent`.
* Appending to `binary:part(<<1,2>>, 1, 1)` copies byte 0
  (`bitstring.rs:1243`). This violates `AppendKeepsSource`.
* `get_bytes` at bit 3 reads from bit 0 (`bitstring.rs:492`). This violates
  `ReadAtCursor`.
* A 40-bit integer would lose its top 8 bits (`bitstring.rs:581`). TLC's
  32-bit integers cannot hold the field, so no model states it.
* After 3 bits are read, `get_binary_all` leaves the cursor at 13 of 16
  (`bitstring.rs:862`). This violates `BinaryAllConsumesWindow`.
* In a debug build, the assertion at `block.rs:150` panics. This happens when
  a block is filled exactly to its header, its data is 8 modulo 16, and the
  next value is 16-aligned.

* An 8-bit put pushes past the end of the `Vec` (`bitstring.rs:1638`). This
  violates `AppendedContent` with build size 8.
* The copy branch counts a bitstring's trailing bits twice
  (`bitstring.rs:1204`). This violates `AppendKeepsSource` for an 11-bit
  prefix.
* `get_integer` ignores `SIGNED` (`bitstring.rs:545`). This violates
  `ReadAtCursor` with signed flags.
* The in-place branch of `append` reserves capacity but leaves the `Vec`
  length below the new term (`bitstring.rs:1167`). This violates
  `ExtentWithinData`.
* `get_utf8` on the byte 80 panics in `unreachable!` (`bitstring.rs:969`).
  This violates `NoPanic`.
* `binary:split` of a subject with trailing bits drops the bits from its
  last part (`binary.rs:230`). This violates `SplitReassembles` when such a
  subject is among the initial views.

Also, `align_utf8_bytes` reads one byte past the `Vec` at bit 3 of a 3-byte
binary. It is recorded in `faults`.

## 5. Not modelled

* dtrace stubs: they return constants and have no state.
* `cmp_bits` (bitstring.rs 1328-1446): only the unit tests call it. When the
  two bit offsets are equal it computes `b >> 8` on a `u8`. That panics in a
  debug build. In a release build the shift amount is masked to 0, so the
  result is wrong. No production path reaches it, and the run budget went to
  the match buffer's callers of `copy_bits`.
* `bytes_to_list` (1727-1752): nothing calls it.
* `re:run/3` and the regex engine inside `split`/`match`/`matches`: the regex
  crate is external. `BinaryBifs` abstracts the engine to what an escaped
  alternation of literals does. Patterns with an empty alternative are left
  out, because how the crate steps over empty matches is not modelled. Tuple
  options such as `{scope, _}` are not enumerated either.
* The map BIFs (`maps.rs`): each one checks `badmap`, then `badkey`, and
  calls the persistent HAMT once. The HAMT is an external crate, not under
  `src/`. These BIFs hold no state and have no loop, so a model of them could
  only restate the HAMT's map laws.
* Gzip decoding and BEAM chunk decoding: external crates and out of scope
  (spec 1).
* `get_module_info`: it formats terms from a module and changes nothing.
* `prepare_loading_2`, `has_prepared_code_on_load_1` and `purge_module`: they
  decode bytes or return constants. The ownership of the prepared module's raw
  pointer is not modelled. `ExportsRegistry` assumes each prepared module
  reaches `finish_loading` once, so a second `finish_loading` of the same term
  (a double `Box::from_raw`) is not explored.
* `unsafe impl Sync for Heap`: the arena is modelled as used by one thread.
  The model does not ask whether two threads bump one heap's `Cell`s.
