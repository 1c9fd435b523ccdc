------------------------ MODULE DecodedMessages_proofs ------------------------
(***************************************************************************)
(* Proofs about DecodedMessages, for every block size, threshold and       *)
(* alignment the assumptions allow, any lengths and any number of blocks:  *)
(* objects are placed apart, what is used is intact but for one use that    *)
(* never is, and no block is lost.                                         *)
(***************************************************************************)
EXTENDS DecodedMessages, FiniteSetTheorems, TLAPS

(* The allocator is in use: the list has a first block. *)
InUse == pc \notin {"destroy", "destroyed"}

(* The blocks in the list: the first one is of the standard size and none  *)
(* leads to it, and no two lead to the same.                               *)
ListOK ==
  /\ current_block \in heap
  /\ size[current_block] = BlockSize
  /\ \A b \in heap : next[b] \in (heap \ {current_block}) \cup {NULL}
  /\ \A b, c \in heap : next[b] = next[c] /\ next[b] # NULL => b = c

(* What follows current_offset in the first block is free. *)
Room ==
  \A o \in objects : o.block = current_block => o.offset + o.length <= current_offset

(* Objects are there only between a decoding and the next receive. *)
Released == pc \in {"reset", "destroy", "destroyed"} => objects = {}

Memory ==
  /\ Placed
  /\ InUse => ListOK /\ Room
  /\ Released

(* Which pointers are set when, and that the FAILURE is behind a reset     *)
(* from the receive of its acknowledgement on.                             *)
PointersOK ==
  /\ pc = "idle" => message["response"] = {} /\ "response" \notin stale
  /\ pc \in {"idle", "bad", "destroyFailure", "destroy"} => ~acking
  /\ pc # "idle" => message["result"] = {}
  /\ ~acking => message["ack"] = {} /\ "ack" \notin stale
  /\ pc \in {"receive", "reset"} => message[Target] = {} /\ Target \notin stale
  /\ pc \in {"decode", "handle"} => Intact(Target)
  /\ pc = "handle" => message[Target] # {}
  /\ acking /\ pc = "receive" => message["response"] # {}
  /\ acking /\ pc \in {"reset", "decode", "handle"} => "response" \in stale
  /\ pc = "destroyFailure" => "response" \in stale
  /\ Intact("result")

IInv == TypeOK /\ Memory /\ PointersOK

(* What is added to reach a multiple of a. *)
LEMMA UpToMultiple ==
  ASSUME NEW a \in Nat \ {0}, NEW x \in Nat
  PROVE  /\ x % a \in 0 .. a - 1
         /\ (x + (a - (x % a))) % a = 0
<1>1. x % a \in 0 .. a - 1
  BY SMT
<1>2. (x + (a - (x % a))) % a = 0
  BY SMT
<1> QED
  BY <1>1, <1>2

LEMMA ZeroIsMultiple ==
  ASSUME NEW a \in Nat \ {0}
  PROVE  0 % a = 0
  BY SMT

USE AllocatorAssumption, LengthsAssumption

----------------------------------------------------------------------------
(* Padding reaches the next multiple of the alignment. *)
LEMMA PaddedFacts ==
  ASSUME NEW offset \in Nat
  PROVE  /\ Padded(offset) \in Nat
         /\ offset <= Padded(offset)
         /\ Padded(offset) <= offset + Align
         /\ Padded(offset) % Align = 0
<1>1. offset % Align \in 0 .. Align - 1
  BY UpToMultiple
<1>2. (offset + (Align - (offset % Align))) % Align = 0
  BY UpToMultiple
<1> QED
  BY <1>1, <1>2 DEF Padded

LEMMA InitInductive == Init => IInv
<1> SUFFICES ASSUME Init PROVE IInv
  OBVIOUS
<1> USE DEF Init, AllocatorInit
<1>0. 0 % Align = 0
  BY ZeroIsMultiple
<1>1. TypeOK
  <2>1. AllocatorTypeOK
    BY <1>0 DEF AllocatorTypeOK
  <2> QED
    BY <2>1 DEF TypeOK, Labels, Calls, Pointers
<1>2. Memory
  BY DEF Memory, Placed, InUse, ListOK, Room, Released
<1>3. PointersOK
  BY DEF PointersOK, Target, Intact, Pointers
<1> QED
  BY <1>1, <1>2, <1>3 DEF IInv

----------------------------------------------------------------------------
(* The three ways of mg_linear_allocator_malloc. *)

LEMMA SeparatePlaced ==
  ASSUME AllocatorTypeOK, Placed, ListOK, Room,
         NEW length \in Lengths, MallocSeparate(length)
  PROVE  /\ AllocatorTypeOK' /\ Placed' /\ ListOK' /\ Room'
         /\ objects \subseteq objects'
<1> USE DEF AllocatorTypeOK
<1>1. PICK b \in Blocks : /\ mg_memory_block_alloc(b, length)
                          /\ next' = LinkedSecond(b)
                          /\ Place(b, 0, length)
  BY DEF MallocSeparate
<1>2. /\ b \notin heap /\ heap' = heap \cup {b}
      /\ size' = [size EXCEPT ![b] = length]
      /\ next' = [next EXCEPT ![b] = next[current_block], ![current_block] = b]
      /\ objects' = objects \cup {[block |-> b, offset |-> 0, length |-> length]}
      /\ current_block' = current_block /\ current_offset' = current_offset
  BY <1>1 DEF mg_memory_block_alloc, LinkedSecond, Place, MallocSeparate
<1>3. length \in Nat /\ 0 % Align = 0
  BY ZeroIsMultiple
<1>4. AllocatorTypeOK'
  <2>1. [block |-> b, offset |-> 0, length |-> length] \in Object
    BY <1>3 DEF Object
  <2>2. next' \in [Blocks -> Blocks \cup {NULL}]
    BY <1>2 DEF ListOK
  <2> QED
    BY <1>2, <1>3, <2>1, <2>2
<1>5. ListOK'
  <2>1. current_block \in heap' /\ size'[current_block] = BlockSize
    BY <1>2 DEF ListOK
  <2>2. \A c \in heap' : next'[c] = IF c = b THEN next[current_block]
                                    ELSE IF c = current_block THEN b ELSE next[c]
    BY <1>2 DEF ListOK
  <2>3. \A c \in heap' : next'[c] \in (heap' \ {current_block}) \cup {NULL}
    BY <2>2, <1>2 DEF ListOK
  <2>4. \A c, d \in heap' : next'[c] = next'[d] /\ next'[c] # NULL => c = d
    BY <2>2, <1>2 DEF ListOK
  <2> QED
    BY <2>1, <2>3, <2>4, <1>2 DEF ListOK
<1>6. Placed'
  <2>1. \A o \in objects : o.block # b
    BY <1>2 DEF Placed
  <2>2. \A o \in objects' : /\ o.block \in heap'
                            /\ o.offset + o.length <= size'[o.block]
                            /\ o.offset % Align = 0
    BY <2>1, <1>2, <1>3 DEF Placed
  <2>3. \A o, p \in objects' : o = p \/ Disjoint(o, p)
    BY <2>1, <1>2 DEF Placed, Disjoint
  <2> QED
    BY <2>2, <2>3 DEF Placed, Disjoint
<1>7. Room'
  BY <1>2 DEF Room, ListOK
<1> QED
  BY <1>2, <1>4, <1>5, <1>6, <1>7

LEMMA InBlockPlaced ==
  ASSUME AllocatorTypeOK, Placed, ListOK, Room,
         NEW length \in Lengths, MallocInBlock(length)
  PROVE  /\ AllocatorTypeOK' /\ Placed' /\ ListOK' /\ Room'
         /\ objects \subseteq objects'
<1> USE DEF AllocatorTypeOK
<1> DEFINE new == [block |-> current_block, offset |-> current_offset, length |-> length]
<1>1. /\ current_offset + length <= BlockSize
      /\ objects' = objects \cup {new}
      /\ current_offset' = Padded(current_offset + length)
      /\ UNCHANGED <<heap, next, size, current_block>>
  BY DEF MallocInBlock, FitsInBlock, Place
<1>2. length \in Nat /\ current_offset \in Nat /\ current_offset + length \in Nat
  OBVIOUS
<1>3. /\ current_offset' \in 0 .. BlockSize + Align
      /\ current_offset' % Align = 0
      /\ current_offset + length <= current_offset'
  BY <1>1, <1>2, PaddedFacts
<1>4. new \in Object
  BY <1>2 DEF Object, ListOK
<1>5. AllocatorTypeOK'
  BY <1>1, <1>3, <1>4
<1>6. ListOK'
  BY <1>1 DEF ListOK
<1>7. Room'
  BY <1>1, <1>2, <1>3 DEF Room, Object
<1>8. Placed'
  <2>1. \A o \in objects' : /\ o.block \in heap
                            /\ o.offset + o.length <= size[o.block]
                            /\ o.offset % Align = 0
    BY <1>1 DEF Placed, ListOK
  <2>2. \A o \in objects : Disjoint(o, new) /\ Disjoint(new, o)
    BY <1>2 DEF Room, Disjoint
  <2> QED
    BY <1>1, <2>1, <2>2 DEF Placed, Disjoint
<1> QED
  BY <1>1, <1>5, <1>6, <1>7, <1>8

LEMMA NewBlockPlaced ==
  ASSUME AllocatorTypeOK, Placed, ListOK, Room,
         NEW length \in Lengths, MallocNewBlock(length)
  PROVE  /\ AllocatorTypeOK' /\ Placed' /\ ListOK' /\ Room'
         /\ objects \subseteq objects'
<1> USE DEF AllocatorTypeOK
<1>1. PICK b \in Blocks : /\ mg_memory_block_alloc(b, BlockSize)
                          /\ next' = [next EXCEPT ![b] = current_block]
                          /\ current_block' = b
                          /\ Place(b, 0, length)
  BY DEF MallocNewBlock
<1> DEFINE new == [block |-> b, offset |-> 0, length |-> length]
<1>2. /\ b \notin heap /\ heap' = heap \cup {b}
      /\ size' = [size EXCEPT ![b] = BlockSize]
      /\ objects' = objects \cup {new}
      /\ current_offset' = Padded(length)
      /\ length < sep_alloc_threshold
  BY <1>1 DEF mg_memory_block_alloc, Place, MallocNewBlock
<1>3. length \in Nat /\ 0 % Align = 0 /\ length <= BlockSize
  BY <1>2, ZeroIsMultiple
<1>4. /\ current_offset' \in 0 .. BlockSize + Align
      /\ current_offset' % Align = 0
      /\ length <= current_offset'
  BY <1>2, <1>3, PaddedFacts
<1>5. new \in Object
  BY <1>3 DEF Object
<1>6. AllocatorTypeOK'
  BY <1>1, <1>2, <1>4, <1>5
<1>7. ListOK'
  BY <1>1, <1>2 DEF ListOK
<1>8. \A o \in objects : o.block # b
  BY <1>2 DEF Placed
<1>9. Room'
  BY <1>1, <1>2, <1>3, <1>4, <1>8 DEF Room
<1>10. Placed'
  <2>1. \A o \in objects' : /\ o.block \in heap'
                            /\ o.offset + o.length <= size'[o.block]
                            /\ o.offset % Align = 0
    BY <1>2, <1>3, <1>8 DEF Placed
  <2>2. \A o, p \in objects' : o = p \/ Disjoint(o, p)
    BY <1>2, <1>8 DEF Placed, Disjoint
  <2> QED
    BY <2>1, <2>2 DEF Placed, Disjoint
<1> QED
  BY <1>2, <1>6, <1>7, <1>9, <1>10

----------------------------------------------------------------------------
(* The steps that change the list or the pointers. *)

LEMMA ResetInductive ==
  IInv /\ mg_linear_allocator_reset => IInv'
<1> SUFFICES ASSUME IInv, mg_linear_allocator_reset PROVE IInv'
  OBVIOUS
<1> USE DEF IInv, TypeOK, AllocatorTypeOK
<1>1. pc = "reset" /\ objects = {} /\ objects' = {}
  BY DEF mg_linear_allocator_reset, ResetFrees, ResetEnds, Memory, Released
<1>2. ListOK /\ UNCHANGED <<call, acking, message, stale>>
  BY <1>1 DEF mg_linear_allocator_reset, Memory, InUse
<1>3. 0 % Align = 0
  BY ZeroIsMultiple
<1>4. CASE ResetFrees /\ UNCHANGED pc
  <2> DEFINE n == next[current_block]
  <2>1. /\ n \in heap /\ n # current_block /\ current_block \in heap
        /\ next[n] \in (heap \ {n, current_block}) \cup {NULL}
    BY <1>2, <1>4 DEF ListOK, ResetFrees
  <2>2. /\ heap' = heap \ {n}
        /\ next' = [next EXCEPT ![current_block] = next[n]]
        /\ UNCHANGED <<size, current_block, current_offset>>
    BY <1>4 DEF ResetFrees
  <2>3. TypeOK'
    BY <1>1, <1>2, <1>4, <2>1, <2>2
  <2>4. ListOK'
    <3>1. \A b \in heap' : next'[b] = IF b = current_block THEN next[n] ELSE next[b]
      BY <2>1, <2>2
    <3>2. \A b \in heap' : next'[b] \in (heap' \ {current_block}) \cup {NULL}
      BY <3>1, <2>1, <2>2, <1>2 DEF ListOK
    <3>3. \A b, c \in heap' : next'[b] = next'[c] /\ next'[b] # NULL => b = c
      BY <3>1, <2>1, <2>2, <1>2 DEF ListOK
    <3> QED
      BY <3>2, <3>3, <2>1, <2>2, <1>2 DEF ListOK
  <2>5. Memory'
    BY <1>1, <1>4, <2>4 DEF Memory, Placed, InUse, Room, Released
  <2>6. PointersOK'
    BY <1>1, <1>2, <1>4 DEF PointersOK, Target, Intact
  <2> QED
    BY <2>3, <2>5, <2>6
<1>5. CASE ResetEnds /\ pc' = "decode"
  <2>1. TypeOK'
    BY <1>1, <1>2, <1>3, <1>5 DEF ResetEnds, Labels
  <2>2. Memory'
    BY <1>1, <1>2, <1>5 DEF ResetEnds, Memory, Placed, InUse, ListOK, Room, Released
  <2>3. PointersOK'
    BY <1>1, <1>2, <1>5 DEF PointersOK, Target, Intact
  <2> QED
    BY <2>1, <2>2, <2>3
<1> QED
  BY <1>4, <1>5 DEF mg_linear_allocator_reset

LEMMA DecodeInductive ==
  ASSUME NEW length \in Lengths
  PROVE  IInv /\ Decode(length) => IInv'
<1> SUFFICES ASSUME IInv, Decode(length) PROVE IInv'
  OBVIOUS
<1> USE DEF IInv, TypeOK
<1>1. /\ pc = "decode" /\ UNCHANGED <<pc, call, acking, stale>>
      /\ message' = [message EXCEPT ![Target] = @ \cup (objects' \ objects)]
      /\ mg_linear_allocator_malloc(length)
  BY DEF Decode
<1>2. ListOK /\ Room /\ Placed
  BY <1>1 DEF Memory, InUse
<1>3. /\ AllocatorTypeOK' /\ Placed' /\ ListOK' /\ Room'
      /\ objects \subseteq objects'
  BY <1>1, <1>2, SeparatePlaced, InBlockPlaced, NewBlockPlaced
     DEF mg_linear_allocator_malloc
<1>4. Target \in Pointers /\ Target # "result"
  BY DEF Target, Pointers
<1>5. TypeOK'
  BY <1>1, <1>3, <1>4 DEF AllocatorTypeOK
<1>6. Memory'
  BY <1>1, <1>3 DEF Memory, InUse, Released
<1>7. \A p \in Pointers : message'[p] = IF p = Target THEN message[p] \cup (objects' \ objects)
                                        ELSE message[p]
  BY <1>1, <1>4
<1>8. PointersOK'
  BY <1>1, <1>3, <1>4, <1>7 DEF PointersOK, Target, Intact, Pointers
<1> QED
  BY <1>5, <1>6, <1>8

(* A step of the session that leaves the allocator alone. *)
LEMMA MemoryKept ==
  ASSUME IInv, UNCHANGED allocator_vars,
         InUse' => InUse,
         pc' \in {"reset", "destroy", "destroyed"} => pc \in {"reset", "destroy", "destroyed"}
  PROVE  AllocatorTypeOK' /\ Memory'
  BY DEF IInv, TypeOK, AllocatorTypeOK, allocator_vars, Memory, InUse, Placed, Disjoint,
         ListOK, Room, Released

LEMMA HandleInductive ==
  ASSUME NEW type \in Types
  PROVE  IInv /\ Handle(type) => IInv'
<1> SUFFICES ASSUME IInv, Handle(type) PROVE IInv'
  OBVIOUS
<1> USE DEF IInv, TypeOK
<1>1. pc = "handle" /\ ~acking /\ UNCHANGED allocator_vars /\ objects' = objects
  BY DEF Handle, allocator_vars
<1>2. "response" \notin stale /\ message["response"] \subseteq objects
  BY <1>1 DEF PointersOK, Target, Intact
<1>3. CASE HandleDropped(type)
  <2>1. AllocatorTypeOK' /\ Memory'
    BY <1>1, <1>3, MemoryKept DEF HandleDropped, InUse
  <2>2. TypeOK'
    BY <1>1, <1>3, <2>1 DEF HandleDropped, Cleared, Labels, Pointers
  <2>3. PointersOK'
    BY <1>1, <1>3 DEF HandleDropped, Cleared, PointersOK, Target, Intact, Pointers
  <2> QED
    BY <2>1, <2>2, <2>3
<1>4. CASE HandleKept(type)
  <2>1. AllocatorTypeOK' /\ Memory'
    BY <1>1, <1>4, MemoryKept DEF HandleKept, InUse
  <2>2. /\ stale' = {} /\ pc' = "idle" /\ UNCHANGED <<call, acking>>
        /\ message' = [message EXCEPT !["result"] = message["response"], !["response"] = {}]
    BY <1>2, <1>4 DEF HandleKept
  <2>3. TypeOK'
    BY <2>1, <2>2 DEF Labels, Pointers
  <2>4. /\ message'["result"] = message["response"]
        /\ message'["response"] = {} /\ message'["ack"] = message["ack"]
    BY <2>2 DEF Pointers
  <2>5. PointersOK'
    BY <1>1, <1>2, <2>2, <2>4 DEF PointersOK, Target, Intact
  <2> QED
    BY <2>1, <2>3, <2>5
<1>5. CASE HandleFailure(type)
  <2>1. AllocatorTypeOK' /\ Memory'
    BY <1>1, <1>5, MemoryKept DEF HandleFailure, InUse
  <2>2. TypeOK'
    BY <1>5, <2>1 DEF HandleFailure, Labels
  <2>3. PointersOK'
    BY <1>1, <1>5 DEF HandleFailure, PointersOK, Target, Intact
  <2> QED
    BY <2>1, <2>2, <2>3
<1>6. CASE HandleFatal(type)
  <2>1. AllocatorTypeOK' /\ Memory'
    BY <1>1, <1>6, MemoryKept DEF HandleFatal, Invalidate, InUse
  <2>2. TypeOK'
    BY <1>6, <2>1 DEF HandleFatal, Invalidate, Cleared, Labels, Pointers
  <2>3. PointersOK'
    BY <1>1, <1>6 DEF HandleFatal, Invalidate, Cleared, PointersOK, Target, Intact, Pointers
  <2> QED
    BY <2>1, <2>2, <2>3
<1> QED
  BY <1>3, <1>4, <1>5, <1>6 DEF Handle

LEMMA StepInductive == IInv /\ [Next]_vars => IInv'
<1> SUFFICES ASSUME IInv, [Next]_vars PROVE IInv'
  OBVIOUS
<1> USE DEF IInv, TypeOK
<1>1. ASSUME NEW c \in Calls, StartCall(c) PROVE IInv'
  <2>1. AllocatorTypeOK' /\ Memory'
    BY <1>1, MemoryKept DEF StartCall, InUse
  <2>2. TypeOK'
    BY <1>1, <2>1 DEF StartCall, Cleared, Labels, Pointers
  <2>3. PointersOK'
    BY <1>1 DEF StartCall, Cleared, PointersOK, Target, Intact, Pointers, allocator_vars
  <2> QED
    BY <2>1, <2>2, <2>3
<1>2. ASSUME mg_session_receive_message PROVE IInv'
  <2>1. TypeOK'
    BY <1>2 DEF mg_session_receive_message, AllocatorTypeOK, Labels, Pointers
  <2>2. Memory'
    BY <1>2 DEF mg_session_receive_message, Memory, Placed, InUse, ListOK, Room, Released
  <2>3. PointersOK'
    BY <1>2 DEF mg_session_receive_message, PointersOK, Target, Intact, Pointers
  <2> QED
    BY <2>1, <2>2, <2>3
<1>3. ASSUME mg_linear_allocator_reset PROVE IInv'
  BY <1>3, ResetInductive
<1>4. ASSUME ReceiveOrDecodeFails PROVE IInv'
  <2>1. AllocatorTypeOK' /\ Memory'
    BY <1>4, MemoryKept DEF ReceiveOrDecodeFails, Invalidate, InUse
  <2>2. TypeOK'
    BY <1>4, <2>1 DEF ReceiveOrDecodeFails, Invalidate, Cleared, Labels, Pointers
  <2>3. PointersOK'
    BY <1>4 DEF ReceiveOrDecodeFails, Invalidate, Cleared, PointersOK, Target, Intact,
                Pointers, allocator_vars
  <2> QED
    BY <2>1, <2>2, <2>3
<1>5. ASSUME NEW length \in Lengths, Decode(length) PROVE IInv'
  BY <1>5, DecodeInductive
<1>6. ASSUME NEW length \in Lengths, DecodeWithoutMemory(length) PROVE IInv'
  <2>1. AllocatorTypeOK' /\ Memory'
    BY <1>6, MemoryKept DEF DecodeWithoutMemory, InUse
  <2>2. TypeOK'
    BY <1>6, <2>1 DEF DecodeWithoutMemory, Labels
  <2>3. PointersOK'
    BY <1>6 DEF DecodeWithoutMemory, PointersOK, Target, Intact, allocator_vars
  <2> QED
    BY <2>1, <2>2, <2>3
<1>7. ASSUME Decoded PROVE IInv'
  <2>1. AllocatorTypeOK' /\ Memory'
    BY <1>7, MemoryKept DEF Decoded, InUse
  <2>2. TypeOK'
    BY <1>7, <2>1 DEF Decoded, Labels
  <2>3. PointersOK'
    BY <1>7 DEF Decoded, PointersOK, Target, Intact, allocator_vars
  <2> QED
    BY <2>1, <2>2, <2>3
<1>8. ASSUME NEW type \in Types, Handle(type) PROVE IInv'
  BY <1>8, HandleInductive
<1>9. ASSUME Acknowledged PROVE IInv'
  <2>1. AllocatorTypeOK' /\ Memory'
    BY <1>9, MemoryKept DEF Acknowledged, Invalidate, InUse
  <2>2. TypeOK'
    BY <1>9, <2>1 DEF Acknowledged, Invalidate, Cleared, Labels, Pointers
  <2>3. PointersOK'
    BY <1>9 DEF Acknowledged, Invalidate, Cleared, PointersOK, Target, Intact, Pointers,
                allocator_vars
  <2> QED
    BY <2>1, <2>2, <2>3
<1>10. ASSUME DestroyFailure PROVE IInv'
  <2>1. AllocatorTypeOK' /\ Memory'
    BY <1>10, MemoryKept DEF DestroyFailure, InUse
  <2>2. TypeOK'
    BY <1>10, <2>1 DEF DestroyFailure, Cleared, Labels, Pointers
  <2>3. PointersOK'
    BY <1>10 DEF DestroyFailure, Cleared, PointersOK, Target, Intact, Pointers,
                 allocator_vars
  <2> QED
    BY <2>1, <2>2, <2>3
<1>11. ASSUME mg_session_destroy PROVE IInv'
  <2>1. TypeOK'
    BY <1>11 DEF mg_session_destroy, Cleared, AllocatorTypeOK, Labels, Pointers
  <2>2. Memory'
    BY <1>11 DEF mg_session_destroy, Memory, Placed, InUse, Released
  <2>3. PointersOK'
    BY <1>11 DEF mg_session_destroy, Cleared, PointersOK, Target, Intact, Pointers
  <2> QED
    BY <2>1, <2>2, <2>3
<1>12. ASSUME mg_linear_allocator_destroy PROVE IInv'
  <2>1. objects = {} /\ objects' = {}
    BY <1>12 DEF mg_linear_allocator_destroy, DestroyFrees, Memory, Released, allocator_vars
  <2>2. TypeOK'
    BY <1>12, <2>1 DEF mg_linear_allocator_destroy, DestroyFrees, AllocatorTypeOK, Labels,
                       allocator_vars
  <2>3. Memory'
    BY <1>12, <2>1 DEF mg_linear_allocator_destroy, Memory, Placed, InUse, Released
  <2>4. PointersOK'
    BY <1>12, <2>1 DEF mg_linear_allocator_destroy, PointersOK, Target, Intact
  <2> QED
    BY <2>2, <2>3, <2>4
<1>13. ASSUME UNCHANGED vars PROVE IInv'
  <2>1. AllocatorTypeOK' /\ Memory'
    BY <1>13, MemoryKept DEF vars, session_vars, InUse
  <2>2. TypeOK'
    BY <1>13, <2>1 DEF vars, session_vars
  <2>3. PointersOK'
    BY <1>13 DEF vars, session_vars, allocator_vars, PointersOK, Target, Intact
  <2> QED
    BY <2>1, <2>2, <2>3
<1> QED
  BY <1>1, <1>2, <1>3, <1>4, <1>5, <1>6, <1>7, <1>8, <1>9, <1>10, <1>11, <1>12, <1>13
     DEF Next, Stopped

----------------------------------------------------------------------------
LEMMA Inductive == Spec => []IInv
<1>1. Init => IInv
  BY InitInductive
<1>2. IInv /\ [Next]_vars => IInv'
  BY StepInductive
<1> QED
  BY <1>1, <1>2, PTL DEF Spec

(* The allocator's offsets, list and pointers keep their types; the offset *)
(* of the next object is always a multiple of the alignment, which         *)
(* mg_linear_allocator_malloc asserts.                                     *)
THEOREM MemoryTypeCorrect == Spec => []TypeOK
<1>1. IInv => TypeOK
  BY DEF IInv
<1> QED
  BY <1>1, Inductive, PTL

(* For every block size, threshold, alignment and sequence of lengths, the *)
(* objects of a message lie aligned inside allocated blocks and apart from *)
(* one another.                                                            *)
THEOREM ObjectsApart == Spec => []Placed
<1>1. IInv => Placed
  BY DEF IInv, Memory
<1> QED
  BY <1>1, Inductive, PTL

(* Messages of any size, in any order of calls: a message a call looks at, *)
(* or the user holds, has not been released, and the one message that is   *)
(* walked after its release, each time, is the FAILURE that was            *)
(* acknowledged.                                                           *)
THEOREM ResultOutlivesCalls == Spec => []OnlyFailureIsStale
<1>1. IInv => OnlyFailureIsStale
  BY DEF IInv, PointersOK, OnlyFailureIsStale, Used, Intact, Target
<1> QED
  BY <1>1, Inductive, PTL

----------------------------------------------------------------------------
(* No block is lost: a list of distinct blocks is kept through every step. *)

ListsAll(l, n) ==
  /\ l \in [1 .. n -> heap]
  /\ \A i, j \in 1 .. n : l[i] = l[j] => i = j
  /\ \A b \in heap : \E i \in 1 .. n : l[i] = b
  /\ IsList(l, n)

Chained == \E n \in Nat : \E l : ListsAll(l, n)

(* A list of all blocks, each once, is as long as there are blocks. *)
LEMMA ChainedAccounted == Chained => BlocksAccounted
<1> SUFFICES ASSUME Chained PROVE BlocksAccounted
  OBVIOUS
<1>1. PICK n \in Nat : \E l : ListsAll(l, n)
  BY DEF Chained
<1>2. PICK l : ListsAll(l, n)
  BY <1>1
<1>3. l \in Surjection(1 .. n, heap)
  BY <1>2 DEF ListsAll, Surjection
<1>4. l \in Injection(1 .. n, heap)
  BY <1>2 DEF ListsAll, Injection, IsInjective
<1>5. ExistsBijection(1 .. n, heap)
  BY <1>3, <1>4 DEF ExistsBijection, Bijection
<1>6. Cardinality(heap) = n
  BY <1>5, FS_CountingElements
<1> QED
  BY <1>2, <1>3, <1>6 DEF ListsAll, BlocksAccounted

(* A new allocator has one block. *)
LEMMA InitChained == Init => Chained
<1> SUFFICES ASSUME Init PROVE Chained
  OBVIOUS
<1>1. /\ heap = {current_block} /\ current_block \in Blocks
      /\ next[current_block] = NULL
  BY DEF Init, AllocatorInit
<1> DEFINE l == [i \in 1 .. 1 |-> current_block]
<1>2. l \in [1 .. 1 -> heap] /\ l[1] = current_block /\ \A i \in 1 .. 1 : i = 1
  BY <1>1
<1> HIDE DEF l
<1>3. IsList(l, 1)
  BY <1>1, <1>2 DEF IsList
<1>4. ListsAll(l, 1)
  BY <1>1, <1>2, <1>3 DEF ListsAll
<1> QED
  BY <1>4 DEF Chained

(* The list when b is put in front of it, ... *)
LEMMA NewBlockChained ==
  ASSUME IInv, InUse, Chained, NEW length \in Lengths, MallocNewBlock(length)
  PROVE  Chained'
<1>1. PICK b \in Blocks \ heap :
        /\ heap' = heap \cup {b} /\ current_block' = b
        /\ next' = [next EXCEPT ![b] = current_block]
  BY DEF MallocNewBlock, mg_memory_block_alloc
<1>2. PICK n \in Nat : \E l : ListsAll(l, n)
  BY DEF Chained
<1>a. PICK l : ListsAll(l, n)
  BY <1>2
<1>3. /\ l \in [1 .. n -> heap] /\ IsList(l, n)
      /\ \A i, j \in 1 .. n : l[i] = l[j] => i = j
      /\ \A c \in heap : \E i \in 1 .. n : l[i] = c
  BY <1>a DEF ListsAll
<1>4. current_block \in heap /\ heap \subseteq Blocks /\ next \in [Blocks -> Blocks \cup {NULL}]
  BY DEF IInv, Memory, ListOK, TypeOK, AllocatorTypeOK
<1>5. n >= 1 /\ l[1] = current_block
      /\ \A i \in 1 .. n : next[l[i]] = IF i = n THEN NULL ELSE l[i + 1]
  BY <1>3, <1>4 DEF IsList
<1> DEFINE r == [i \in 1 .. n + 1 |-> IF i = 1 THEN b ELSE l[i - 1]]
<1>6. /\ r[1] = b /\ \A i \in 2 .. n + 1 : i - 1 \in 1 .. n /\ r[i] = l[i - 1]
      /\ r \in [1 .. n + 1 -> heap']
  BY <1>1, <1>3
<1> HIDE DEF r
<1>7. ASSUME NEW i \in 1 .. n + 1, NEW j \in 1 .. n + 1, r[i] = r[j] PROVE i = j
  <2>1. CASE i = 1 \/ j = 1
    <3>1. \A k \in 2 .. n + 1 : r[k] # b
      BY <1>1, <1>3, <1>6
    <3> QED
      BY <1>6, <1>7, <2>1, <3>1
  <2>2. CASE i \in 2 .. n + 1 /\ j \in 2 .. n + 1
    <3>1. i - 1 = j - 1
      BY <1>3, <1>6, <1>7, <2>2
    <3> QED
      BY <3>1
  <2> QED
    BY <2>1, <2>2
<1>8. ASSUME NEW c \in heap' PROVE \E i \in 1 .. n + 1 : r[i] = c
  <2>1. CASE c = b
    BY <1>6, <2>1
  <2>2. CASE c # b
    <3>1. PICK i \in 1 .. n : l[i] = c
      BY <1>1, <1>3, <2>2
    <3>2. i + 1 \in 2 .. n + 1 /\ i + 1 \in 1 .. n + 1 /\ (i + 1) - 1 = i
      OBVIOUS
    <3> QED
      BY <1>6, <3>1, <3>2
  <2> QED
    BY <2>1, <2>2
<1>9. ASSUME NEW i \in 1 .. n + 1
      PROVE  next'[r[i]] = IF i = n + 1 THEN NULL ELSE r[i + 1]
  <2>1. CASE i = 1
    <3>1. next'[b] = current_block /\ 2 \in 2 .. n + 1 /\ 2 - 1 = 1 /\ 1 # n + 1
      BY <1>1, <1>4, <1>5
    <3> QED
      BY <1>5, <1>6, <2>1, <3>1
  <2>2. CASE i # 1
    <3>1. i \in 2 .. n + 1 /\ i - 1 \in 1 .. n /\ (i - 1) + 1 = i /\ (i - 1 = n <=> i = n + 1)
      BY <2>2
    <3>2. next'[r[i]] = next[l[i - 1]]
      BY <1>1, <1>3, <1>4, <1>6, <3>1
    <3>3. i # n + 1 => i + 1 \in 2 .. n + 1 /\ (i + 1) - 1 = i
      OBVIOUS
    <3> QED
      BY <1>5, <1>6, <3>1, <3>2, <3>3
  <2> QED
    BY <2>1, <2>2
<1>10. IsList(r, n + 1)'
  BY <1>1, <1>5, <1>6, <1>9 DEF IsList
<1>11. n + 1 \in Nat /\ ListsAll(r, n + 1)'
  BY <1>6, <1>7, <1>8, <1>10 DEF ListsAll
<1> QED
  BY <1>11 DEF Chained
(* ... behind the first one, ... *)
LEMMA SeparateChained ==
  ASSUME IInv, InUse, Chained, NEW length \in Lengths, MallocSeparate(length)
  PROVE  Chained'
<1>1. PICK b \in Blocks \ heap :
        /\ heap' = heap \cup {b} /\ current_block' = current_block
        /\ next' = [next EXCEPT ![b] = next[current_block], ![current_block] = b]
  BY DEF MallocSeparate, mg_memory_block_alloc, LinkedSecond
<1>2. PICK n \in Nat : \E l : ListsAll(l, n)
  BY DEF Chained
<1>a. PICK l : ListsAll(l, n)
  BY <1>2
<1>3. /\ l \in [1 .. n -> heap] /\ IsList(l, n)
      /\ \A i, j \in 1 .. n : l[i] = l[j] => i = j
      /\ \A c \in heap : \E i \in 1 .. n : l[i] = c
  BY <1>a DEF ListsAll
<1>4. current_block \in heap /\ heap \subseteq Blocks /\ next \in [Blocks -> Blocks \cup {NULL}]
  BY DEF IInv, Memory, ListOK, TypeOK, AllocatorTypeOK
<1>5. /\ n >= 1 /\ 1 \in 1 .. n /\ l[1] = current_block
      /\ \A i \in 1 .. n : next[l[i]] = IF i = n THEN NULL ELSE l[i + 1]
  BY <1>3, <1>4 DEF IsList
<1> DEFINE r == [i \in 1 .. n + 1 |-> IF i = 1 THEN l[1] ELSE IF i = 2 THEN b ELSE l[i - 1]]
<1>6. /\ r[1] = current_block /\ r[2] = b
      /\ \A i \in 3 .. n + 1 : i - 1 \in 1 .. n /\ r[i] = l[i - 1] /\ l[i - 1] \in heap
                               /\ l[i - 1] # current_block
      /\ r \in [1 .. n + 1 -> heap']
  BY <1>1, <1>3, <1>4, <1>5
<1>7. \A i \in 1 .. n + 1 : i = 1 \/ i = 2 \/ i \in 3 .. n + 1
  OBVIOUS
<1> HIDE DEF r
<1>8. ASSUME NEW i \in 1 .. n + 1, NEW j \in 1 .. n + 1, r[i] = r[j] PROVE i = j
  <2>1. CASE i \in 3 .. n + 1 /\ j \in 3 .. n + 1
    <3>1. i - 1 = j - 1
      BY <1>3, <1>6, <1>8, <2>1
    <3> QED
      BY <3>1
  <2>2. CASE ~(i \in 3 .. n + 1 /\ j \in 3 .. n + 1)
    BY <1>1, <1>4, <1>6, <1>7, <1>8, <2>2
  <2> QED
    BY <2>1, <2>2
<1>9. ASSUME NEW c \in heap' PROVE \E i \in 1 .. n + 1 : r[i] = c
  <2>1. CASE c = b
    <3>1. 2 \in 1 .. n + 1
      BY <1>5
    <3> QED
      BY <1>6, <2>1, <3>1
  <2>2. CASE c = current_block
    <3>1. 1 \in 1 .. n + 1
      BY <1>5
    <3> QED
      BY <1>6, <2>2, <3>1
  <2>3. CASE c # b /\ c # current_block
    <3>1. PICK i \in 1 .. n : l[i] = c
      BY <1>1, <1>3, <2>3
    <3>2. i + 1 \in 3 .. n + 1 /\ i + 1 \in 1 .. n + 1 /\ (i + 1) - 1 = i
      BY <1>5, <2>3, <3>1
    <3> QED
      BY <1>6, <3>1, <3>2
  <2> QED
    BY <2>1, <2>2, <2>3
<1>10. ASSUME NEW i \in 1 .. n + 1
       PROVE  next'[r[i]] = IF i = n + 1 THEN NULL ELSE r[i + 1]
  <2>1. CASE i = 1
    <3>1. next'[current_block] = b /\ 1 # n + 1 /\ 1 + 1 = 2
      BY <1>1, <1>4, <1>5
    <3> QED
      BY <1>6, <2>1, <3>1
  <2>2. CASE i = 2
    <3>1. next'[b] = next[l[1]]
      BY <1>1, <1>4, <1>5
    <3>2. next[l[1]] = IF 1 = n THEN NULL ELSE l[1 + 1]
      BY <1>5
    <3>3. 1 # n => 3 \in 3 .. n + 1 /\ 3 - 1 = 2 /\ 1 + 1 = 2 /\ 2 + 1 = 3
      BY <1>5
    <3>4. 1 = n <=> 2 = n + 1
      OBVIOUS
    <3> QED
      BY <1>6, <2>2, <3>1, <3>2, <3>3, <3>4
  <2>3. CASE i \in 3 .. n + 1
    <3>1. i - 1 \in 1 .. n /\ (i - 1) + 1 = i /\ (i - 1 = n <=> i = n + 1)
      BY <2>3
    <3>2. next'[r[i]] = next[l[i - 1]]
      BY <1>1, <1>4, <1>6, <2>3
    <3>3. i # n + 1 => i + 1 \in 3 .. n + 1 /\ (i + 1) - 1 = i
      BY <2>3
    <3> QED
      BY <1>5, <1>6, <3>1, <3>2, <3>3
  <2> QED
    BY <1>7, <2>1, <2>2, <2>3
<1>11. IsList(r, n + 1)'
  <2>1. n + 1 # 0
    BY <1>5
  <2>2. current_block' = IF n + 1 = 0 THEN NULL ELSE r[1]
    BY <1>1, <1>6, <2>1
  <2> QED
    BY <1>10, <2>2 DEF IsList
<1>12. n + 1 \in Nat /\ ListsAll(r, n + 1)'
  BY <1>6, <1>8, <1>9, <1>11 DEF ListsAll
<1> QED
  BY <1>12 DEF Chained

(* ... when the second block is taken out of it, ... *)
LEMMA ResetChained ==
  ASSUME IInv, InUse, Chained, ResetFrees
  PROVE  Chained'
<1>1. /\ next[current_block] # NULL /\ heap' = heap \ {next[current_block]}
      /\ next' = [next EXCEPT ![current_block] = next[next[current_block]]]
      /\ current_block' = current_block
  BY DEF ResetFrees
<1>2. PICK n \in Nat : \E l : ListsAll(l, n)
  BY DEF Chained
<1>a. PICK l : ListsAll(l, n)
  BY <1>2
<1>3. /\ l \in [1 .. n -> heap] /\ IsList(l, n)
      /\ \A i, j \in 1 .. n : l[i] = l[j] => i = j
      /\ \A c \in heap : \E i \in 1 .. n : l[i] = c
  BY <1>a DEF ListsAll
<1>4. current_block \in heap /\ heap \subseteq Blocks /\ next \in [Blocks -> Blocks \cup {NULL}]
  BY DEF IInv, Memory, ListOK, TypeOK, AllocatorTypeOK
<1>5. /\ n >= 1 /\ 1 \in 1 .. n /\ l[1] = current_block
      /\ \A i \in 1 .. n : next[l[i]] = IF i = n THEN NULL ELSE l[i + 1]
  BY <1>3, <1>4 DEF IsList
<1>6. n >= 2 /\ 2 \in 1 .. n /\ next[current_block] = l[2]
  <2>1. next[l[1]] = IF 1 = n THEN NULL ELSE l[1 + 1]
    BY <1>5
  <2> QED
    BY <1>1, <1>5, <2>1
<1> DEFINE r == [i \in 1 .. n - 1 |-> IF i = 1 THEN l[1] ELSE l[i + 1]]
<1>7. /\ r[1] = current_block /\ 1 \in 1 .. n - 1
      /\ \A i \in 2 .. n - 1 : i + 1 \in 1 .. n /\ r[i] = l[i + 1] /\ l[i + 1] \in heap
                               /\ l[i + 1] # current_block /\ l[i + 1] # l[2]
      /\ l[2] # current_block
  BY <1>3, <1>5, <1>6
<1>8. \A i \in 1 .. n - 1 : i = 1 \/ i \in 2 .. n - 1
  OBVIOUS
<1>9. r \in [1 .. n - 1 -> heap']
  <2>1. \A i \in 1 .. n - 1 : r[i] \in heap'
    BY <1>1, <1>4, <1>6, <1>7, <1>8
  <2> QED
    BY <2>1
<1> HIDE DEF r
<1>10. ASSUME NEW i \in 1 .. n - 1, NEW j \in 1 .. n - 1, r[i] = r[j] PROVE i = j
  <2>1. CASE i \in 2 .. n - 1 /\ j \in 2 .. n - 1
    <3>1. i + 1 = j + 1
      BY <1>3, <1>7, <1>10, <2>1
    <3> QED
      BY <3>1
  <2>2. CASE ~(i \in 2 .. n - 1 /\ j \in 2 .. n - 1)
    BY <1>7, <1>8, <1>10, <2>2
  <2> QED
    BY <2>1, <2>2
<1>11. ASSUME NEW c \in heap' PROVE \E i \in 1 .. n - 1 : r[i] = c
  <2>1. CASE c = current_block
    BY <1>7, <2>1
  <2>2. CASE c # current_block
    <3>1. PICK i \in 1 .. n : l[i] = c
      BY <1>1, <1>3
    <3>2. i # 1 /\ i # 2
      BY <1>1, <1>5, <1>6, <2>2, <3>1
    <3>3. i - 1 \in 2 .. n - 1 /\ i - 1 \in 1 .. n - 1 /\ (i - 1) + 1 = i
      BY <3>2
    <3> QED
      BY <1>7, <3>1, <3>3
  <2> QED
    BY <2>1, <2>2
<1>12. ASSUME NEW i \in 1 .. n - 1
       PROVE  next'[r[i]] = IF i = n - 1 THEN NULL ELSE r[i + 1]
  <2>1. CASE i = 1
    <3>1. next'[current_block] = next[l[2]]
      BY <1>1, <1>4, <1>6
    <3>2. next[l[2]] = IF 2 = n THEN NULL ELSE l[2 + 1]
      BY <1>5, <1>6
    <3>3. /\ 2 = n <=> 1 = n - 1
          /\ 2 # n => 2 \in 2 .. n - 1 /\ 1 + 1 = 2
      BY <1>6
    <3> QED
      BY <1>7, <2>1, <3>1, <3>2, <3>3
  <2>2. CASE i \in 2 .. n - 1
    <3>1. i + 1 \in 1 .. n /\ (i + 1 = n <=> i = n - 1)
      BY <2>2
    <3>2. next'[r[i]] = next[l[i + 1]]
      BY <1>1, <1>4, <1>7, <2>2
    <3>3. i # n - 1 => i + 1 \in 2 .. n - 1
      BY <2>2
    <3> QED
      BY <1>5, <1>7, <3>1, <3>2, <3>3
  <2> QED
    BY <1>8, <2>1, <2>2
<1>13. n - 1 \in Nat /\ n - 1 # 0
  BY <1>6
<1>14. IsList(r, n - 1)'
  BY <1>1, <1>7, <1>12, <1>13 DEF IsList
<1>15. ListsAll(r, n - 1)'
  BY <1>9, <1>10, <1>11, <1>14 DEF ListsAll
<1> QED
  BY <1>13, <1>15 DEF Chained

(* ... and when the first one is. *)
LEMMA DestroyChained ==
  ASSUME IInv, Chained, DestroyFrees
  PROVE  Chained'
<1>1. /\ current_block # NULL /\ heap' = heap \ {current_block}
      /\ current_block' = next[current_block] /\ next' = next
  BY DEF DestroyFrees
<1>2. PICK n \in Nat : \E l : ListsAll(l, n)
  BY DEF Chained
<1>a. PICK l : ListsAll(l, n)
  BY <1>2
<1>3. /\ l \in [1 .. n -> heap] /\ IsList(l, n)
      /\ \A i, j \in 1 .. n : l[i] = l[j] => i = j
      /\ \A c \in heap : \E i \in 1 .. n : l[i] = c
  BY <1>a DEF ListsAll
<1>4. /\ n >= 1 /\ 1 \in 1 .. n /\ l[1] = current_block
      /\ \A i \in 1 .. n : next[l[i]] = IF i = n THEN NULL ELSE l[i + 1]
  BY <1>1, <1>3 DEF IsList
<1> DEFINE r == [i \in 1 .. n - 1 |-> l[i + 1]]
<1>5. \A i \in 1 .. n - 1 : /\ i + 1 \in 1 .. n /\ r[i] = l[i + 1]
                            /\ l[i + 1] \in heap /\ l[i + 1] # current_block
  BY <1>3, <1>4
<1>6. r \in [1 .. n - 1 -> heap']
  BY <1>1, <1>5
<1> HIDE DEF r
<1>7. ASSUME NEW i \in 1 .. n - 1, NEW j \in 1 .. n - 1, r[i] = r[j] PROVE i = j
  <2>1. i + 1 = j + 1
    BY <1>3, <1>5, <1>7
  <2> QED
    BY <2>1
<1>8. ASSUME NEW c \in heap' PROVE \E i \in 1 .. n - 1 : r[i] = c
  <2>1. PICK i \in 1 .. n : l[i] = c
    BY <1>1, <1>3
  <2>2. i # 1
    BY <1>1, <1>4, <2>1
  <2>3. i - 1 \in 1 .. n - 1 /\ (i - 1) + 1 = i
    BY <2>2
  <2> QED
    BY <1>5, <2>1, <2>3
<1>9. ASSUME NEW i \in 1 .. n - 1
      PROVE  next'[r[i]] = IF i = n - 1 THEN NULL ELSE r[i + 1]
  <2>1. /\ i + 1 \in 1 .. n /\ (i + 1 = n <=> i = n - 1)
        /\ (i # n - 1 => i + 1 \in 1 .. n - 1)
    OBVIOUS
  <2> QED
    BY <1>1, <1>4, <1>5, <2>1
<1>10. current_block' = IF n - 1 = 0 THEN NULL ELSE r[1]
  <2>1. current_block' = IF 1 = n THEN NULL ELSE l[1 + 1]
    BY <1>1, <1>4
  <2>2. (1 = n <=> n - 1 = 0) /\ (1 # n => 1 \in 1 .. n - 1)
    BY <1>4
  <2> QED
    BY <1>5, <2>1, <2>2
<1>11. IsList(r, n - 1)'
  BY <1>9, <1>10 DEF IsList
<1>12. n - 1 \in Nat /\ ListsAll(r, n - 1)'
  BY <1>4, <1>6, <1>7, <1>8, <1>11 DEF ListsAll
<1> QED
  BY <1>12 DEF Chained

LEMMA StepChained == IInv /\ Chained /\ [Next]_vars => Chained'
<1> SUFFICES ASSUME IInv, Chained, [Next]_vars PROVE Chained'
  OBVIOUS
<1>1. ASSUME UNCHANGED <<heap, next, current_block>> PROVE Chained'
  BY <1>1 DEF Chained, ListsAll, IsList
<1>2. ASSUME NEW length \in Lengths, Decode(length) PROVE Chained'
  <2>1. InUse
    BY <1>2 DEF Decode, InUse
  <2>2. CASE MallocInBlock(length)
    BY <1>1, <2>2 DEF MallocInBlock
  <2> QED
    BY <1>2, <2>1, <2>2, SeparateChained, NewBlockChained
       DEF Decode, mg_linear_allocator_malloc
<1>3. CASE mg_linear_allocator_reset
  BY <1>1, <1>3, ResetChained DEF mg_linear_allocator_reset, ResetEnds, InUse
<1>4. CASE mg_linear_allocator_destroy
  BY <1>1, <1>4, DestroyChained DEF mg_linear_allocator_destroy, allocator_vars
<1>5. CASE UNCHANGED vars
  BY <1>1, <1>5 DEF vars, allocator_vars
<1>6. CASE \/ \E c \in Calls : StartCall(c)
           \/ mg_session_receive_message \/ ReceiveOrDecodeFails
           \/ \E length \in Lengths : DecodeWithoutMemory(length)
           \/ Decoded \/ (\E type \in Types : Handle(type))
           \/ Acknowledged \/ DestroyFailure \/ mg_session_destroy
  BY <1>1, <1>6 DEF StartCall, mg_session_receive_message, ReceiveOrDecodeFails,
     DecodeWithoutMemory, Decoded, Handle, Acknowledged, DestroyFailure,
     mg_session_destroy, allocator_vars
<1> QED
  BY <1>2, <1>3, <1>4, <1>5, <1>6 DEF Next, Stopped

(* For any sizes and any sequence of calls: the blocks allocated and not   *)
(* freed are the ones in the list, each once, also between two rounds of   *)
(* the loops of mg_linear_allocator_reset and _destroy; when the latter    *)
(* ends, none is left.                                                     *)
THEOREM NoBlockLost == Spec => []BlocksAccounted
BY InitChained, StepChained, Inductive, ChainedAccounted, PTL DEF Spec


==============================================================================
