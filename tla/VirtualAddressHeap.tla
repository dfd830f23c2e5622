------------------------- MODULE VirtualAddressHeap -------------------------
(***************************************************************************)
(* mem::VirtualAddressHeap: pages of the process's address space.  Small   *)
(* allocations share regions of Pages pages, each with a mask of the pages *)
(* taken and, per page, the number of pages of the allocation that begins  *)
(* there, kept in a field that counts modulo Pages; large ones have an     *)
(* address range of their own.  A heap is                                  *)
(*                                                                         *)
(*   [region: region -> [mask, sizes, committed], free: Seq(region),       *)
(*    large: address range -> pages, aborted]                              *)
(*                                                                         *)
(* with the regions that exist as the domain of region; those not in free  *)
(* are in the list of filled ones.  An address is [region, page].          *)
(***************************************************************************)
EXTENDS Integers, Sequences, SequencesExt, FiniteSetsExt, Functions

CONSTANTS Pages, Regions

LOCAL Drop(f, x) == [y \in DOMAIN f \ {x} |-> f[y]]
LOCAL Put(f, x, v) == [y \in DOMAIN f \cup {x} |-> IF y = x THEN v ELSE f[y]]

AllPages == 0..Pages - 1
NewRegion == [mask |-> {}, sizes |-> [p \in AllPages |-> 0], committed |-> {0}]
Unused(heap) == Regions \ (DOMAIN heap.region \cup DOMAIN heap.large)

(* The heap object lives in the first page of its first region. *)
Create(r) ==
  [region |-> [x \in {r} |-> [NewRegion EXCEPT !.mask = {0}]],
   free |-> << r >>, large |-> << >>, aborted |-> FALSE]

(***************************************************************************)
(* Marks count pages from page on as taken.  The count of a first          *)
(* allocation may not fit its field: what overflows is added to the field  *)
(* of the next page, or is lost behind an odd one.  A filled region leaves *)
(* the free list.                                                          *)
(***************************************************************************)
Take(heap, r, page, count) ==
  LET reg   == heap.region[r]
      pages == page..page + count - 1
      carry == IF count >= Pages /\ page = 0
               THEN [reg.sizes EXCEPT ![0] = count % Pages,
                       ![1] = IF @ % 2 = 0 THEN @ + 1 ELSE @]
               ELSE [reg.sizes EXCEPT ![page] = count % Pages]
      mask  == reg.mask \cup (pages \cap AllPages)
  IN  [heap EXCEPT
         !.region[r] = [mask |-> mask, sizes |-> carry,
                        committed |-> reg.committed \cup (pages \cap AllPages)],
         !.free = IF mask = AllPages THEN SelectSeq(@, LAMBDA x : x # r) ELSE @]

(* The pages free at the front of a region, as the count of zero bits has it. *)
FreeAtFront(mask) == IF mask = {} THEN 0 ELSE Min(mask)

FrontFits(mask, first) == mask = {} \/ first <= FreeAtFront(mask)

\* Mutant: the length of the run is not looked at.
RunIn_Any(mask, small) ==
  LET starts == {i \in FreeAtFront(mask) + 1..Pages - 2 : i \notin mask}
  IN  IF starts # {} THEN Min(starts) ELSE Pages - 1

(***************************************************************************)
(* The first run of free pages, behind the front, that holds small pages.  *)
(* The search never uses the last page.  Where the region ends in taken    *)
(* pages it steps over them past the end, and takes the page after the     *)
(* region for a run it found.                                              *)
(***************************************************************************)
RunIn(mask, small) ==
  LET begin  == FreeAtFront(mask) + 1
      Starts == {i \in begin..Pages - 2 : i \notin mask /\ (i = begin \/ i - 1 \in mask)}
      Length(i) == Min({j \in i + 1..Pages : j \in mask \/ j = Pages - 1}) - i
      fitting == {i \in Starts : small <= Length(i)}
      overrun == begin = Pages \/ (begin < Pages - 1 /\ {Pages - 2, Pages - 1} \subseteq mask)
  IN  IF fitting # {} THEN Min(fitting)
      ELSE IF overrun THEN Pages ELSE Pages - 1

(* The regions of the free list that can take the request. *)
CanTake(heap, r, small, first) ==
  LET mask == heap.region[r].mask
  IN  FrontFits(mask, first) \/ RunIn(mask, small) # Pages - 1

(***************************************************************************)
(* An allocation of small pages; first is the number of pages it needs at  *)
(* the front of a region, behind the region's own header, and onPage says  *)
(* that its alignment leaves the first page to the header.                 *)
(***************************************************************************)
TryAllocate(heap, small, first, onPage) ==
  LET taking == {k \in DOMAIN heap.free : CanTake(heap, heap.free[k], small, first)}
      r      == heap.free[Min(taking)]
      page0  == IF onPage THEN 1 ELSE 0
      count0 == IF onPage THEN first - 1 ELSE first
      page   == RunIn(heap.region[r].mask, small)
      new    == CHOOSE x \in Unused(heap) : TRUE
      fresh  == [heap EXCEPT !.region = Put(@, new, NewRegion), !.free = Append(@, new)]
      Given(h, x, p, n) == [heap |-> Take(h, x, p, n), at |-> [region |-> x, page |-> p],
                            pages |-> p..p + n - 1]
      Aborted(h, x, p) == [heap |-> [h EXCEPT !.aborted = TRUE],
                           at |-> [region |-> x, page |-> p], pages |-> {}]
  IN  CASE small >= Pages ->
             [heap |-> [heap EXCEPT !.large = Put(@, new, small)],
              at |-> [region |-> new, page |-> -1], pages |-> {}]
        [] small < Pages /\ taking = {} ->
             IF first > Pages THEN Aborted(heap, new, 0)   \* more than is reserved
             ELSE Given(fresh, new, page0, count0)
        [] small < Pages /\ taking # {} ->
             IF FrontFits(heap.region[r].mask, first) THEN Given(heap, r, page0, count0)
             ELSE IF page = Pages THEN Aborted(heap, r, page)
             ELSE Given(heap, r, page, small)

(***************************************************************************)
(* Gives pages back; the size is read from the field of the first one, and *)
(* a size of 0 is asserted against.  A region without pages is released, a *)
(* filled one goes back to the free list.  The header's page stays.        *)
(***************************************************************************)
Free(heap, at) ==
  LET reg  == heap.region[at.region]
      size == reg.sizes[at.page]
      freed == at.page..at.page + size - 1
      mask == reg.mask \ freed
  IN  CASE at.page = -1 -> [heap EXCEPT !.large = Drop(@, at.region)]
        [] at.page # -1 /\ (size = 0 \/ at.page + size > Pages) ->
             [heap EXCEPT !.aborted = TRUE]
        [] at.page # -1 /\ size # 0 /\ at.page + size <= Pages ->
             IF mask = {}
             THEN [heap EXCEPT !.region = Drop(@, at.region),
                               !.free = SelectSeq(@, LAMBDA x : x # at.region)]
             ELSE [heap EXCEPT
                     !.region[at.region] = [reg EXCEPT !.mask = mask,
                                              !.committed = @ \ (freed \ {0})],
                     !.free = IF reg.mask = AllPages THEN Append(@, at.region) ELSE @]

(***************************************************************************)
(* Shrinks an allocation to count pages.  The pages given to the system    *)
(* are found by adding the page of the allocation to an address that has   *)
(* it already; in page 0 that address is behind the header, so that a page *)
(* more than meant is touched.                                             *)
(***************************************************************************)
AdjustAllocation(heap, at, count) ==
  LET reg  == heap.region[at.region]
      size == reg.sizes[at.page]
      from == 2 * at.page + count
      cut  == from..from + (size - count) - (IF at.page = 0 THEN 0 ELSE 1)
  IN  CASE at.page = -1 ->
             IF heap.large[at.region] < count THEN heap
             ELSE [heap EXCEPT !.large[at.region] = count,
                     !.aborted = @ \/ heap.large[at.region] = count]  \* nothing to decommit
        [] at.page # -1 /\ (size = 0 \/ at.page + size > Pages \/ count = 0 \/ count >= size) ->
             heap
        [] at.page # -1 /\ count \in 1..size - 1 /\ at.page + size <= Pages ->
             [heap EXCEPT
                !.aborted = @ \/ ~(cut \subseteq AllPages),
                !.region[at.region] =
                   [mask |-> reg.mask \ (at.page + count..at.page + size - 1),
                    sizes |-> [reg.sizes EXCEPT ![at.page] = count],
                    committed |-> reg.committed \ cut],
                !.free = IF reg.mask = AllPages THEN Append(@, at.region) ELSE @]

GetSizeOfAllocation(heap, at) ==
  IF at.page = -1 THEN heap.large[at.region] ELSE heap.region[at.region].sizes[at.page]
=============================================================================
