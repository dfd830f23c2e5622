----------------------------- MODULE SimpleHeaps -----------------------------
(***************************************************************************)
(* mem::FrameHeap and mem::SeparateHeap, the heaps with one pointer and    *)
(* with one list.                                                          *)
(***************************************************************************)
EXTENDS Integers, Sequences, SequencesExt

CONSTANTS Header, HeapObject, FrameObject, NoHeap   \* FrameObject is sizeof(FrameHeap), in granules

LOCAL Exp == INSTANCE ExpHeap

NULL == 0
-----------------------------------------------------------------------------
(***************************************************************************)
(* FrameHeap: memory handed out from its start, given back all at once.    *)
(* A heap is [base, start, offset, end]; its parent is an ExpHeap.         *)
(* GpuFrameHeap differs in that its object is not in front of its memory:  *)
(* base = start.  objectSize is FrameObject, or 0 for a GpuFrameHeap.      *)
(***************************************************************************)
FrameTryCreate(parent, size, alignment, objectSize) ==
  LET max_size == IF size # 0 THEN size
                  ELSE Exp!GetMaximumAllocatableSize(parent, alignment)
      memory   == Exp!TryAllocate(parent, max_size, alignment)
      start    == memory.address + objectSize
  IN  IF memory.address = NULL THEN [parent |-> parent, heap |-> NoHeap]
      ELSE [parent |-> memory.heap,
            heap |-> [base |-> memory.address, start |-> start, offset |-> start,
                      end |-> memory.address + max_size]]

(* The last granule is never handed out: the end itself counts as too far. *)
FrameTryAllocate(heap, size, alignment) ==
  LET address == Exp!AlignUp(heap.offset, alignment)
  IN  IF heap.end <= address + size THEN [heap |-> heap, address |-> NULL]
      ELSE [heap |-> [heap EXCEPT !.offset = address + size], address |-> address]

FrameFreeAll(heap) == [heap EXCEPT !.offset = heap.start]

(***************************************************************************)
(* The free end goes back to the parent.  What the parent is told to keep  *)
(* is what was handed out, without the heap object in front of it.         *)
(***************************************************************************)
FrameAdjustHeap(parent, heap) ==
  [heap |-> [heap EXCEPT !.end = heap.offset],
   parent |-> Exp!AdjustAllocation(parent, heap.base, heap.offset - heap.start).heap]

(* The parent is told the size in use, not the new size. *)
FrameResizeHeapBack(parent, heap, new_size) ==
  IF heap.start + new_size < heap.offset THEN [parent |-> parent, heap |-> heap]
  ELSE [heap |-> [heap EXCEPT !.end = heap.start + new_size],
        parent |-> Exp!AdjustAllocation(parent, heap.base, heap.offset - heap.start).heap]
-----------------------------------------------------------------------------
(***************************************************************************)
(* SeparateHeap: offsets of memory the processor cannot write to, managed  *)
(* by blocks elsewhere.  A heap is [start, end, used, spare]: used is the  *)
(* sequence of [offset, size] of m_used_block_list, spare counts the       *)
(* management blocks left.                                                 *)
(***************************************************************************)
SeparateCreate(start, size, blocks) ==
  [start |-> start, end |-> start + size, used |-> << >>, spare |-> blocks]

(* Where a search that has passed the first n blocks stands. *)
OffsetAfter(heap, n, alignment) ==
  Exp!AlignUp(IF n = 0 THEN heap.start ELSE heap.used[n].offset + heap.used[n].size, alignment)

(* The room before a block is unsigned: a block that begins before the aligned
   offset offers a huge room. *)
RoomBefore(heap, n, alignment, size) ==
  LET gap == heap.used[n + 1].offset - OffsetAfter(heap, n, alignment)
  IN  gap < 0 \/ size <= gap

(***************************************************************************)
(* The first gap that is large enough, or what follows the last block if   *)
(* it starts in the heap: the size is not compared with the end.  The new  *)
(* block is linked behind the block the gap precedes.                      *)
(***************************************************************************)
SeparateTryAllocate(heap, size, alignment) ==
  LET gaps  == {n \in 0..Len(heap.used) - 1 : RoomBefore(heap, n, alignment, size)}
      found == gaps # {}
      n     == IF found THEN CHOOSE n \in gaps : \A k \in gaps : n <= k ELSE Len(heap.used)
      offset == OffsetAfter(heap, n, alignment)
  IN  IF heap.end < offset THEN [heap |-> heap, address |-> NULL]
      ELSE [heap |-> [heap EXCEPT !.spare = @ - 1,
                        !.used = InsertAt(@, IF found THEN n + 2 ELSE n + 1,
                                          [offset |-> offset, size |-> size])],
            address |-> offset]

SeparateFree(heap, address) ==
  LET blocks == {i \in DOMAIN heap.used : heap.used[i].offset = address}
  IN  IF blocks = {} THEN heap
      ELSE [heap EXCEPT !.spare = @ + 1,
              !.used = RemoveAt(@, CHOOSE i \in blocks : \A k \in blocks : i <= k)]

SeparateGetTotalFreeSize(heap) ==
  heap.end - FoldSeq(LAMBDA b, sum : b.size + sum, heap.start, heap.used)
=============================================================================
