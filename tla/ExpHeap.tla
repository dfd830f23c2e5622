------------------------------- MODULE ExpHeap -------------------------------
(***************************************************************************)
(* mem::ExpHeap, the general purpose heap: blocks, each behind a header,   *)
(* in a list of free blocks kept in the order of their addresses and a     *)
(* list of allocated ones.  A heap is a record                             *)
(*                                                                         *)
(*   [base, start, end, free, used, bestFit]                               *)
(*                                                                         *)
(* base is the address of the heap object itself, which the memory follows.*)
(* free is a sequence of [at, size], used a set of [at, pad, size] (its    *)
(* order has no effect): at is the address of the header, size what        *)
(* follows it, and pad the bytes before the header that were too few for a *)
(* block of their own.  The operators are the member functions, each from  *)
(* a heap to the heap it leaves; addresses count granules.                 *)
(***************************************************************************)
EXTENDS Integers, Sequences, SequencesExt, FiniteSetsExt

CONSTANTS
    Header,       \* sizeof(ExpHeapMemoryBlock), in granules
    HeapObject,   \* sizeof(ExpHeap), in granules
    NoHeap

NULL == 0

AlignUp(x, alignment) == ((x + alignment - 1) \div alignment) * alignment

BlockEnd(b) == b.at + Header + b.size

(***************************************************************************)
(* Gives a range back.  The neighbour that ends or starts there is merged; *)
(* a range too small for a header is refused and lost.                     *)
(***************************************************************************)
AddFreeBlock(heap, start, end) ==
  LET f     == heap.free
      n     == Cardinality({i \in DOMAIN f : \A j \in 1..i : f[j].at < start})
      back  == n < Len(f) /\ f[n + 1].at = end
      front == n > 0 /\ BlockEnd(f[n]) = start
      at    == IF front THEN f[n].at ELSE start
      size  == (IF back THEN BlockEnd(f[n + 1]) ELSE end) - at - Header
  IN  IF size < 0 THEN heap
      ELSE [heap EXCEPT !.free =
              SubSeq(f, 1, IF front THEN n - 1 ELSE n)
                \o << [at |-> at, size |-> size] >>
                \o SubSeq(f, IF back THEN n + 2 ELSE n + 1, Len(f))]

(***************************************************************************)
(* Takes the i-th free block for an allocation at address: what is left in *)
(* front and behind becomes a free block if a block fits there, and else   *)
(* goes with the allocation.                                               *)
(***************************************************************************)
AddUsedBlock(heap, i, address, size) ==
  LET b     == heap.free[i]
      front == address - Header - b.at
      behind == BlockEnd(b) - (address + size)
      Left(at, room) == IF Header + 1 <= room
                        THEN << [at |-> at, size |-> room - Header] >> ELSE << >>
      Rest(room) == IF Header + 1 <= room THEN 0 ELSE room
  IN  [heap EXCEPT
         !.free = SubSeq(@, 1, i - 1) \o Left(b.at, front)
                    \o Left(address + size, behind) \o SubSeq(@, i + 1, Len(@)),
         !.used = @ \cup {[at |-> address - Header, pad |-> Rest(front),
                           size |-> size + Rest(behind)]}]

(* A heap on its own memory: one free block spans what follows the object. *)
Create(address, size, bestFit) ==
  [base |-> address, start |-> address + HeapObject, end |-> address + size,
   bestFit |-> bestFit, used |-> {},
   free |-> << [at |-> address + HeapObject, size |-> size - HeapObject - Header] >>]

AddressIn(b, alignment) == AlignUp(b.at + Header, alignment)

GetMaximumAllocatableSize(heap, alignment) ==
  Max({0} \cup {BlockEnd(b) - AddressIn(b, alignment) : b \in Range(heap.free)})

(***************************************************************************)
(* The free block an allocation takes: the first that fits, or the first   *)
(* of the smallest that fit; 0 when there is none.                         *)
(***************************************************************************)
FindFreeBlock(heap, size, alignment) ==
  LET Fits(b) == AddressIn(b, alignment) + size <= BlockEnd(b)
      fitting == {i \in DOMAIN heap.free : Fits(heap.free[i])}
      Before(i, j) == IF heap.bestFit /\ heap.free[i].size # heap.free[j].size
                      THEN heap.free[i].size < heap.free[j].size ELSE i <= j
  IN  IF fitting = {} THEN 0
      ELSE CHOOSE i \in fitting : \A j \in fitting : Before(i, j)

(***************************************************************************)
(* The heap and the address of an allocation, NULL when nothing fits and   *)
(* the callback for lack of memory does not ask for another try.  A size   *)
(* of 0 stands for all that can be had.                                    *)
(***************************************************************************)
TryAllocate(heap, size, alignment) ==
  LET aligned == IF size # 0 THEN AlignUp(size, alignment)
                 ELSE GetMaximumAllocatableSize(heap, alignment)
      i == FindFreeBlock(heap, aligned, alignment)
  IN  IF i = 0 THEN [heap |-> heap, address |-> NULL]
      ELSE LET address == AddressIn(heap.free[i], alignment)
           IN  [heap |-> AddUsedBlock(heap, i, address, aligned), address |-> address]

(***************************************************************************)
(* A heap in memory of its parent: NULL if the size is too small or the    *)
(* parent has none.                                                        *)
(***************************************************************************)
TryCreate(parent, size, alignment) ==
  LET wanted == IF size # 0 THEN size ELSE GetMaximumAllocatableSize(parent, alignment)
      memory == TryAllocate(parent, wanted, alignment)
  IN  IF wanted < HeapObject + Header + 1 \/ memory.address = NULL
      THEN [parent |-> parent, heap |-> NoHeap]
      ELSE [parent |-> memory.heap, heap |-> Create(memory.address, wanted, TRUE)]

IsAddressAllocation(heap, address) == \E b \in heap.used : b.at = address - Header

BlockOf(heap, address) == CHOOSE b \in heap.used : b.at = address - Header

GetAllocationSize(heap, address) == BlockOf(heap, address).size

\* Mutant: what the alignment skipped is not given back.
Free_NoPad(heap, address) ==
  LET b == BlockOf(heap, address)
  IN  AddFreeBlock([heap EXCEPT !.used = @ \ {b}], b.at, address + b.size)

Free(heap, address) ==
  LET b == BlockOf(heap, address)
  IN  AddFreeBlock([heap EXCEPT !.used = @ \ {b}], b.at - b.pad, address + b.size)

(***************************************************************************)
(* The heap after a change of size of an allocation, and what the call     *)
(* returns.  A smaller size gives the end back.  A larger one is refused   *)
(* unless a free block follows and the two together are NOT larger than    *)
(* new_size: the test is the reverse of the one its comment announces.     *)
(* When it passes, new_free_size wraps, and the block that is written      *)
(* lies beyond the allocation by as much as the heap lacks.                *)
(***************************************************************************)
AdjustAllocation(heap, address, new_size) ==
  LET b    == BlockOf(heap, address)
      size == b.size
      Resized(n) == [heap EXCEPT !.used = (@ \ {b}) \cup {[b EXCEPT !.size = n]}]
      after == {k \in DOMAIN heap.free : heap.free[k].at = address + size}
  IN  CASE new_size = size -> [heap |-> heap, result |-> new_size]
        [] new_size < size ->
             [heap |-> AddFreeBlock(Resized(new_size), address + new_size, address + size),
              result |-> new_size]
        [] new_size > size /\ after = {} -> [heap |-> heap, result |-> size]
        [] new_size > size /\ after # {} ->
             LET k    == CHOOSE k \in after : TRUE
                 room == Header + heap.free[k].size
                 free == address + new_size + Header     \* new_free, as first computed
                 left == address + size + room - free    \* new_free_size, below zero
             IN  IF room + size > new_size THEN [heap |-> heap, result |-> size]
                 ELSE [heap |-> [Resized(free - left - address) EXCEPT
                                   !.free[k] = [at |-> free - left, size |-> left]],
                       result |-> new_size]

(***************************************************************************)
(* Gives the free end of the heap up, to the parent if there is one.       *)
(***************************************************************************)
AdjustHeap(parent, heap) ==
  LET last == Last(heap.free)
  IN  IF heap.free = << >> \/ BlockEnd(last) # heap.end
      THEN [parent |-> parent, heap |-> heap]
      ELSE [heap |-> [heap EXCEPT !.free = Front(@), !.end = last.at],
            parent |-> IF parent = NoHeap THEN NoHeap
                       ELSE AdjustAllocation(parent, heap.base, last.at - heap.base).heap]

(***************************************************************************)
(* Grows the heap at its end; the root heap (no parent here) just does.    *)
(* The answer of the parent, which counts the heap object, is compared     *)
(* with the new size, which does not.  A request to shrink has no effect:  *)
(* the code looks at the last ALLOCATED block and adds its size without    *)
(* the header, which never reaches the end of the heap.                    *)
(***************************************************************************)
ResizeHeapBack(parent, heap, new_size) ==
  LET Grown  == [AddFreeBlock(heap, heap.end, heap.start + new_size) EXCEPT
                   !.end = heap.start + new_size]
      adjust == AdjustAllocation(parent, heap.base, HeapObject + new_size)
  IN  CASE new_size <= heap.end - heap.start -> [parent |-> parent, heap |-> heap]
        [] OTHER ->
             IF parent = NoHeap THEN [parent |-> NoHeap, heap |-> Grown]
             ELSE IF ~IsAddressAllocation(parent, heap.base)
             THEN [parent |-> parent, heap |-> heap]
             ELSE [parent |-> adjust.heap,
                   heap |-> IF adjust.result = new_size THEN Grown ELSE heap]

GetTotalFreeSize(heap) == FoldSeq(LAMBDA b, sum : b.size + sum, 0, heap.free)
=============================================================================
