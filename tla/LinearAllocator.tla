--------------------------- MODULE LinearAllocator ---------------------------
(***************************************************************************)
(* mg_linear_allocator (mgallocator.c): the memory of decoded messages, a  *)
(* linked list of blocks from the underlying allocator.  Only the first    *)
(* block, current_block, takes new objects; large objects get a block of   *)
(* their own, second in the list.  Nothing is freed before a reset.        *)
(*                                                                         *)
(* A block is named by its address.  A freed address may come back.        *)
(***************************************************************************)
EXTENDS Integers, FiniteSets, Functions

CONSTANTS
  Blocks,               \* addresses the underlying allocator gives out
  NULL,
  BlockSize,            \* block_size
  sep_alloc_threshold,
  Align                 \* alignof(max_align_t)

ASSUME AllocatorAssumption ==
  /\ NULL \notin Blocks
  /\ BlockSize \in Nat
  /\ sep_alloc_threshold \in 0 .. BlockSize
  /\ Align \in Nat \ {0}

VARIABLES
  heap,           \* blocks allocated and not freed
  next,           \* mg_memory_block.next
  size,           \* the size each block was allocated with
  current_block,
  current_offset,
  objects         \* history: the objects placed since the last reset

allocator_vars ==
  <<heap, next, size, current_block, current_offset, objects>>

(* An object: its block, its offset in the block's buffer, its length. *)
Object == [block : Blocks, offset : Nat, length : Nat]

(* mg_linear_allocator_init, when it succeeds; when it fails the first     *)
(* block is freed and there is no session.                                 *)
AllocatorInit ==
  /\ current_block \in Blocks
  /\ heap = {current_block}
  /\ next = [b \in Blocks |-> NULL]
  /\ size = [b \in Blocks |-> IF b = current_block THEN BlockSize ELSE 0]
  /\ current_offset = 0
  /\ objects = {}

(* mg_memory_block_alloc, when it succeeds. *)
mg_memory_block_alloc(b, length) ==
  /\ b \in Blocks \ heap
  /\ heap' = heap \cup {b}
  /\ size' = [size EXCEPT ![b] = length]

(* The next multiple of the alignment. *)
Padded(offset) ==
  IF offset % Align = 0 THEN offset ELSE offset + (Align - (offset % Align))

Place(b, offset, length) ==
  objects' = objects \cup {[block |-> b, offset |-> offset, length |-> length]}

(* Mutant: the two assignments in the other order, so that the rest of the *)
(* list is lost.                                                           *)
LinkedToItself(b) == [next EXCEPT ![current_block] = b, ![b] = b]

(* new_block->next = current_block->next; current_block->next = new_block *)
LinkedSecond(b) == [next EXCEPT ![b] = next[current_block], ![current_block] = b]

(* A large object: a block of its own, behind the first. *)
MallocSeparate(length) ==
  /\ length >= sep_alloc_threshold
  /\ \E b \in Blocks :
       /\ mg_memory_block_alloc(b, length)
       /\ next' = LinkedSecond(b)
       /\ Place(b, 0, length)
  /\ UNCHANGED <<current_block, current_offset>>

(* Mutant: the end of the object is not looked at. *)
StartsInBlock(length) == current_offset < BlockSize

FitsInBlock(length) == current_offset + length <= BlockSize

MallocInBlock(length) ==
  /\ length < sep_alloc_threshold
  /\ FitsInBlock(length)
  /\ Place(current_block, current_offset, length)
  /\ current_offset' = Padded(current_offset + length)
  /\ UNCHANGED <<heap, next, size, current_block>>

(* A new first block; what is left of the old one is wasted. *)
MallocNewBlock(length) ==
  /\ length < sep_alloc_threshold
  /\ ~FitsInBlock(length)
  /\ \E b \in Blocks :
       /\ mg_memory_block_alloc(b, BlockSize)
       /\ next' = [next EXCEPT ![b] = current_block]
       /\ current_block' = b
       /\ Place(b, 0, length)
  /\ current_offset' = Padded(length)

mg_linear_allocator_malloc(length) ==
  MallocSeparate(length) \/ MallocInBlock(length) \/ MallocNewBlock(length)

(* malloc() of a block returns NULL: the result is not looked at and its   *)
(* next is written.                                                        *)
WritesThroughNull(length) ==
  length >= sep_alloc_threshold \/ ~FitsInBlock(length)

(* One round of the loop of mg_linear_allocator_reset: the second block is *)
(* taken out of the list and freed, ...                                    *)
ResetFrees ==
  /\ next[current_block] # NULL
  /\ heap' = heap \ {next[current_block]}
  /\ next' = [next EXCEPT ![current_block] = next[next[current_block]]]
  /\ UNCHANGED <<size, current_block, current_offset, objects>>

(* ... and its end. *)
ResetEnds ==
  /\ next[current_block] = NULL
  /\ current_offset' = 0
  /\ UNCHANGED <<heap, next, size, current_block, objects>>

(* One round of the loop of mg_linear_allocator_destroy. *)
DestroyFrees ==
  /\ current_block # NULL
  /\ heap' = heap \ {current_block}
  /\ current_block' = next[current_block]
  /\ UNCHANGED <<next, size, current_offset, objects>>

----------------------------------------------------------------------------
AllocatorTypeOK ==
  /\ heap \subseteq Blocks
  /\ next \in [Blocks -> Blocks \cup {NULL}]
  /\ size \in [Blocks -> Nat]
  /\ current_block \in Blocks \cup {NULL}
  /\ current_offset \in 0 .. BlockSize + Align
  /\ current_offset % Align = 0
  /\ objects \subseteq Object

Disjoint(o, p) ==
  \/ o.block # p.block
  \/ o.offset + o.length <= p.offset
  \/ p.offset + p.length <= o.offset

(* Every object lies in a block that is allocated, inside the size that    *)
(* block was allocated with, aligned, and shares no byte with another one. *)
Placed ==
  /\ \A o \in objects :
       /\ o.block \in heap
       /\ o.offset + o.length <= size[o.block]
       /\ o.offset % Align = 0
  /\ \A o, p \in objects : o = p \/ Disjoint(o, p)

(* The blocks of l, one after the other, are the list that starts with     *)
(* current_block and ends with NULL.                                       *)
IsList(l, n) ==
  /\ current_block = IF n = 0 THEN NULL ELSE l[1]
  /\ \A i \in 1 .. n : next[l[i]] = IF i = n THEN NULL ELSE l[i + 1]

(* The list has an end, and its blocks are exactly the ones allocated and  *)
(* not freed: at no time, in the middle of a reset or a destroy either, is *)
(* a block lost or in the list after it was freed.                         *)
BlocksAccounted ==
  \E l \in Surjection(1 .. Cardinality(heap), heap) : IsList(l, Cardinality(heap))

==============================================================================
