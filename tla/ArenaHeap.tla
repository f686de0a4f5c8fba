----------------------------- MODULE ArenaHeap -----------------------------
(***************************************************************************)
(* The bump allocator of src/enigma/src/immix/block.rs.  A Heap is an      *)
(* intrusive list of blocks; each block is a region from the global        *)
(* allocator whose last HeaderSize bytes hold the Block header (data,      *)
(* layout, next, ptr).  alloc bumps ptr within the current block, and when *)
(* the request does not fit it asks Block::new for a block sized for the   *)
(* request, links it after the current one and bumps in it.                *)
(*                                                                         *)
(* Sizes are scaled: BlockData stands for the 32 KiB of a default block.   *)
(* The global allocator is modelled as handing out the k-th block near     *)
(* k * Stride, at any offset its alignment allows, which leaves the        *)
(* regions disjoint.  A value written over a block header is undefined     *)
(* behaviour from then on, so the model stops there (ub).                  *)
(***************************************************************************)
EXTENDS Integers, Sequences, FiniteSets

CONSTANTS
  BlockData,    \* bytes of a default block before its header (32 * 1024)
  HeaderSize,   \* mem::size_of::<Block>()
  HeaderAlign,  \* mem::align_of::<Block>()
  Requests,     \* the layouts [size, align] of the values allocated
  Stride,       \* spacing of the regions the global allocator returns
  UsizeMax,     \* the largest usize
  MaxBlocks,    \* bound: blocks the global allocator hands out
  MaxAllocs,    \* bound: values allocated in one behaviour
  DebugAssertions \* whether debug_assert! is compiled in

ASSUME HeaderSize % HeaderAlign = 0
ASSUME Stride >= 2 * (BlockData + HeaderSize)
ASSUME \A r \in Requests : r.size % r.align = 0 /\ Stride % r.align = 0

VARIABLES
  blocks,       \* blocks[k]: the header of the k-th block
  current_block,\* Heap.current_block
  all_blocks,   \* Heap.all_blocks
  allocs,       \* the regions handed out, in order: [addr, size, align]
  ub,           \* a write clobbered a block header
  panicked      \* a panic (overflow or a debug assertion) ended the thread

vars == <<blocks, current_block, all_blocks, allocs, ub, panicked>>

DefaultBlockSize == BlockData + HeaderSize

(* round_up_to: n rounded up to a multiple of the power of two divisor. *)
RoundUpTo(n, divisor) == ((n + divisor - 1) \div divisor) * divisor

MaxOf(a, b) == IF a >= b THEN a ELSE b

MaxOfSet(S) == CHOOSE x \in S : \A y \in S : x >= y

(* The None of Block::new(None), the first block of Heap::new. *)
NoLayout == [size |-> 0, align |-> 0]

(* Block::new: the layout for the request that triggered it (or none),    *)
(* the header written at the end of the fresh region, ptr at its start.   *)
(* Mutant: the size of a special block is not rounded to the header's     *)
(* alignment.                                                              *)
BlockLayoutUnrounded(l) ==
  IF l = NoLayout THEN [size |-> DefaultBlockSize, align |-> HeaderAlign]
  ELSE LET align == MaxOf(l.align, HeaderAlign) IN
       IF l.size < DefaultBlockSize THEN [size |-> DefaultBlockSize, align |-> align]
       ELSE [size |-> l.size + HeaderSize, align |-> align]

BlockLayout(l) ==
  IF l = NoLayout THEN [size |-> DefaultBlockSize, align |-> HeaderAlign]
  ELSE LET align == MaxOf(l.align, HeaderAlign) IN
       IF l.size < DefaultBlockSize THEN [size |-> DefaultBlockSize, align |-> align]
       ELSE [size |-> RoundUpTo(l.size, HeaderAlign) + HeaderSize, align |-> align]

(* Global.alloc: a region aligned to the layout's alignment and no more   *)
(* than that, so its address modulo the largest alignment is any multiple *)
(* of the layout's alignment.                                              *)
MaxAlign == MaxOf(HeaderAlign, MaxOfSet({r.align : r \in Requests}))

Bases(l, k) ==
  {k * Stride + o : o \in {o \in 0..(MaxAlign - 1) : o % BlockLayout(l).align = 0}}

NewBlock(l, k, base) ==
  [data |-> base, size |-> BlockLayout(l).size, next |-> 0, ptr |-> base]

(* The address of a block's header: Block::new writes it at data + size - *)
(* size_of::<Block>() and the heap refers to the block by it.             *)
Footer(b) == b.data + b.size - HeaderSize

Init ==
  /\ \E base \in Bases(NoLayout, 1) : blocks = <<NewBlock(NoLayout, 1, base)>>
  /\ current_block = 1
  /\ all_blocks = 1
  /\ allocs = <<>>
  /\ ub = FALSE
  /\ panicked = FALSE

Live == ~ub /\ ~panicked

(* ptr::write of the value: it lands in [p, p + size); over a header it   *)
(* is undefined behaviour.                                                 *)
Write(p, r, bs) ==
  /\ allocs' = Append(allocs, [addr |-> p, size |-> r.size, align |-> r.align])
  /\ ub' = \E k \in DOMAIN bs : p < Footer(bs[k]) + HeaderSize /\ Footer(bs[k]) < p + r.size

(* alloc_layout_slow: a block for this layout, linked after the current   *)
(* one, made current, and bumped by the size; the value goes at its data. *)
(* Mutant: the new block becomes current before the old one is linked to  *)
(* it, so the link is set on the new block itself.                         *)
AllocSlowLinkAfterSwitch(r) ==
  \E base \in Bases(r, Len(blocks) + 1) :
  LET k  == Len(blocks) + 1
      nb == NewBlock(r, k, base)
      bs == Append(blocks, [nb EXCEPT !.next = k, !.ptr = nb.data + r.size])
  IN  /\ k <= MaxBlocks
      /\ IF DebugAssertions /\ nb.data + r.size > Footer(nb)
         THEN /\ panicked' = TRUE /\ current_block' = k
              /\ blocks' = Append([blocks EXCEPT ![current_block].next = k], nb)
              /\ UNCHANGED <<allocs, ub>>
         ELSE /\ blocks' = bs /\ current_block' = k
              /\ Write(nb.data, r, bs) /\ UNCHANGED panicked

(* Mutant: the bump pointer of the new block is left at its data.         *)
AllocSlowNoBump(r) ==
  \E base \in Bases(r, Len(blocks) + 1) :
  LET k  == Len(blocks) + 1
      nb == NewBlock(r, k, base)
      bs == Append([blocks EXCEPT ![current_block].next = k], nb)
  IN  /\ k <= MaxBlocks
      /\ IF DebugAssertions /\ nb.data + r.size > Footer(nb)
         THEN /\ panicked' = TRUE /\ current_block' = k
              /\ blocks' = Append([blocks EXCEPT ![current_block].next = k], nb)
              /\ UNCHANGED <<allocs, ub>>
         ELSE /\ blocks' = bs /\ current_block' = k
              /\ Write(nb.data, r, bs) /\ UNCHANGED panicked

AllocSlow(r) ==
  \E base \in Bases(r, Len(blocks) + 1) :
  LET k  == Len(blocks) + 1
      nb == NewBlock(r, k, base)
      bs == Append([blocks EXCEPT ![current_block].next = k],
                   [nb EXCEPT !.ptr = nb.data + r.size])
  IN  /\ k <= MaxBlocks
      /\ IF DebugAssertions /\ nb.data + r.size > Footer(nb)
         THEN /\ panicked' = TRUE /\ current_block' = k
              /\ blocks' = Append([blocks EXCEPT ![current_block].next = k], nb)
              /\ UNCHANGED <<allocs, ub>>
         ELSE /\ blocks' = bs /\ current_block' = k
              /\ Write(nb.data, r, bs) /\ UNCHANGED panicked

(* Mutant: the bump pointer is not rounded up to the value's alignment.   *)
AllocLayoutUnaligned(r) ==
  LET b == blocks[current_block]
      p == b.ptr
      newPtr == p + r.size
  IN  /\ Live /\ Len(allocs) < MaxAllocs
      /\ IF newPtr > UsizeMax
         THEN panicked' = TRUE /\ UNCHANGED <<blocks, current_block, allocs, ub>>
         ELSE IF newPtr <= Footer(b)
         THEN /\ blocks' = [blocks EXCEPT ![current_block].ptr = newPtr]
              /\ Write(p, r, blocks')
              /\ UNCHANGED <<current_block, panicked>>
         ELSE AllocSlow(r)
      /\ UNCHANGED all_blocks

(* Heap::alloc of a value with layout r: alloc_layout rounds the bump     *)
(* pointer up to the alignment, panics when adding the size overflows,   *)
(* bumps within the current block when the value fits before its header, *)
(* and otherwise takes the slow path; then the value is written.          *)
AllocLayout(r) ==
  LET b == blocks[current_block]
      p == RoundUpTo(b.ptr, r.align)
      newPtr == p + r.size
  IN  /\ Live /\ Len(allocs) < MaxAllocs
      /\ IF (DebugAssertions /\ p > Footer(b)) \/ newPtr > UsizeMax
         THEN panicked' = TRUE /\ UNCHANGED <<blocks, current_block, allocs, ub>>
         ELSE IF newPtr <= Footer(b)
         THEN /\ blocks' = [blocks EXCEPT ![current_block].ptr = newPtr]
              /\ Write(p, r, blocks')
              /\ UNCHANGED <<current_block, panicked>>
         ELSE AllocSlow(r)
      /\ UNCHANGED all_blocks

Next == \E r \in Requests : AllocLayout(r)

Spec == Init /\ [][Next]_vars

-----------------------------------------------------------------------------
(* Each block header sits at an address aligned for Block, whatever size  *)
(* was requested: Block::new rounds a special block's size for this.      *)
HeadersAligned == \A k \in DOMAIN blocks : Footer(blocks[k]) % HeaderAlign = 0

(* Every value alloc hands out is aligned as its type requires, on the    *)
(* fast path (rounded bump pointer) and the slow path (block data).       *)
AllocsAligned == \A i \in DOMAIN allocs : allocs[i].addr % allocs[i].align = 0

(* No two values alloc hands out share a byte: the bump pointer of the    *)
(* block a value went into has moved past it.                             *)
AllocsDisjoint ==
  \A i, j \in DOMAIN allocs :
    i < j => \/ allocs[i].addr + allocs[i].size <= allocs[j].addr
             \/ allocs[j].addr + allocs[j].size <= allocs[i].addr

(* The intrusive list from all_blocks visits every block in the order it  *)
(* was made and ends at the current block, so dropping the heap could     *)
(* reach every block.                                                      *)
ChainLinksAll ==
  /\ \A k \in 1..(Len(blocks) - 1) : blocks[k].next = k + 1
  /\ blocks[current_block].next = 0
  /\ current_block = Len(blocks)

(* Every value lies in the data part of a block, never over a header.     *)
AllocsInBlock ==
  \A i \in DOMAIN allocs : \E k \in DOMAIN blocks :
    /\ blocks[k].data <= allocs[i].addr
    /\ allocs[i].addr + allocs[i].size <= Footer(blocks[k])
=============================================================================
