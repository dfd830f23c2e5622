------------------------------- MODULE MCData -------------------------------
(* The run of the data structures: each behaviour is about one of them.  First
   the heaps as their callers drive them: allocations, frees, changes of size
   and a child heap in its parent's memory; then the containers of vp::util;
   then the strings, and the files of vp::res and vp::resbui, written, swapped
   and read back. *)
EXTENDS Integers, Sequences, SequencesExt, FiniteSetsExt

(* A behaviour is about one of the heaps: subject says which one, obj is the
   heap and ref what its caller knows of it. *)
VARIABLES subject, obj, ref

vars == <<subject, obj, ref>>

Becomes(o, r) == subject' = subject /\ obj' = o /\ ref' = r

CONSTANTS
    NoHeap,
    HeapSpan,      \* granules of the parent heap
    Sizes, Alignments,
    HeapSubjects,  \* which heaps this run is about
    ChildSizes     \* granules a child heap is made of

ExpObject == 1    \* granules of an ExpHeap's object

Exp == INSTANCE ExpHeap WITH Header <- 2, HeapObject <- ExpObject
Small == INSTANCE SimpleHeaps WITH Header <- 2, HeapObject <- ExpObject, FrameObject <- 1
Tree == INSTANCE HeapManager
Virt == INSTANCE VirtualAddressHeap WITH Pages <- 6, Regions <- {"r0", "r1"}

Span(a, n) == a..a + n - 1

-----------------------------------------------------------------------------
(* ExpHeap: a parent with at most one child heap in its memory.  ref.lost counts
   the granules a shrinking allocation of the parent gave up and no block took.
   ref.grown says what was made larger, an allocation or the child heap: blocks
   lie beyond their memory then (see the README), over those of somebody else,
   and the behaviour is not followed further. *)
ExpInit == /\ subject = "exp" /\ subject \in HeapSubjects
           /\ \E best \in BOOLEAN :
                obj = [parent |-> Exp!Create(1, HeapSpan, best), child |-> NoHeap]
           /\ ref = [lost |-> 0, grown |-> "none"]

In(h) == IF h = "parent" THEN obj.parent ELSE obj.child

Growing == subject = "exp" /\ ref.grown = "none"

HeapsNow == IF ~Growing THEN {} ELSE IF obj.child = NoHeap THEN {"parent"} ELSE {"parent", "child"}

\* The caller's allocations; the child heap's own one is not among them.
Live(h) == {b.at + 2 : b \in In(h).used} \ (IF obj.child = NoHeap THEN {} ELSE {obj.child.base})

ExpAllocate(h, n, a) ==
    LET r == Exp!TryAllocate(In(h), n, a)
    IN  r.address # 0 /\ Becomes([obj EXCEPT ![h] = r.heap], ref)

ExpFree(h, x) == Becomes([obj EXCEPT ![h] = Exp!Free(@, x)], ref)

ExpShrink(x, n) ==
    LET old  == Exp!GetAllocationSize(obj.parent, x)
        r    == Exp!AdjustAllocation(obj.parent, x, n).heap
        lost == r.free = obj.parent.free
    IN  /\ n < old
        /\ Becomes([obj EXCEPT !.parent = r], IF lost THEN [ref EXCEPT !.lost = @ + old - n] ELSE ref)

ExpCreateChild(n) ==
    LET r == Exp!TryCreate(obj.parent, n, 1)
    IN  /\ obj.child = NoHeap /\ r.heap # NoHeap
        /\ Becomes([parent |-> r.parent, child |-> r.heap], ref)

ExpDestroyChild ==
    /\ obj.child # NoHeap
    /\ Becomes([parent |-> Exp!Free(obj.parent, obj.child.base), child |-> NoHeap], ref)

ExpAdjustChild ==
    LET r == Exp!AdjustHeap(obj.parent, obj.child)
    IN  obj.child # NoHeap /\ Becomes([parent |-> r.parent, child |-> r.heap], ref)

ExpGrow(x, n) ==
    LET r == Exp!AdjustAllocation(obj.parent, x, n).heap
    IN  /\ n > Exp!GetAllocationSize(obj.parent, x)
        /\ Becomes([obj EXCEPT !.parent = r], IF r = obj.parent THEN ref ELSE [ref EXCEPT !.grown = "parent"])

ExpResizeChild(n) ==
    LET r == Exp!ResizeHeapBack(obj.parent, obj.child, n)
        grown == IF r.parent # obj.parent THEN "parent" ELSE IF r.heap # obj.child THEN "child" ELSE "none"
    IN  /\ obj.child # NoHeap
        /\ Becomes([parent |-> r.parent, child |-> r.heap], [ref EXCEPT !.grown = grown])

ExpResizeRoot(n) ==
    LET r == Exp!ResizeHeapBack(NoHeap, obj.parent, n)
    IN  obj.parent.end - obj.parent.start < n /\ Becomes([obj EXCEPT !.parent = r.heap], ref)

ExpNext ==
    \/ \E h \in HeapsNow, n \in Sizes \cup {0}, a \in Alignments : ExpAllocate(h, n, a)
    \/ \E h \in HeapsNow : \E x \in Live(h) : ExpFree(h, x)
    \/ \E h \in HeapsNow \ {"child"}, n \in Sizes : \E x \in Live(h) : ExpShrink(x, n)
    \/ \E h \in HeapsNow \ {"child"}, n \in Sizes : \E x \in Live(h) : ExpGrow(x, n)
    \/ "parent" \in HeapsNow /\ \E n \in ChildSizes : ExpCreateChild(n)
    \/ "parent" \in HeapsNow /\ ExpDestroyChild
    \/ "parent" \in HeapsNow /\ ExpAdjustChild
    \/ "parent" \in HeapsNow /\ \E n \in ChildSizes : ExpResizeChild(n)
    \/ "parent" \in HeapsNow /\ ExpResizeRoot(HeapSpan + 1)

-----------------------------------------------------------------------------
Blocks(heap) == {[at |-> b.at, n |-> 2 + b.size] : b \in ToSet(heap.free)}
                \cup {[at |-> b.at - b.pad, n |-> b.pad + 2 + b.size] : b \in heap.used}

Tiled(heap, lost) ==
    /\ \A b, c \in Blocks(heap) : b # c => Span(b.at, b.n) \cap Span(c.at, c.n) = {}
    /\ FoldSet(LAMBDA b, sum : b.n + sum, lost, Blocks(heap)) = heap.end - heap.start
    /\ \A b \in Blocks(heap) : heap.start <= b.at /\ b.at + b.n <= heap.end
    /\ \A i \in 1..Len(heap.free) - 1 : Exp!BlockEnd(heap.free[i]) < heap.free[i + 1].at

\* Whatever is allocated, freed and shrunk in whatever order, the blocks of a
\* heap lie side by side, free ones never touch (they are merged), and together
\* they are the whole heap but for the ends too small for a block that a
\* shrinking allocation gave up.
BlocksTileHeap ==
    \A h \in HeapsNow : Tiled(In(h), IF h = "parent" THEN ref.lost ELSE 0)

\* A child heap, whatever was given back and by whom, ends inside its own
\* allocation.  When it asks for more (ResizeHeapBack), "the memory must come from
\* a parent heap" holds but for the heap object: the code compares what the parent
\* answers, with the object, with the new size, without it, so a refusal is taken
\* for a consent when the two are equal, and the heap passes its allocation by
\* the size of the object, never by more.
MemoryComesFromParent ==
    subject = "exp" /\ ref.grown # "parent" /\ obj.child # NoHeap =>
      LET passed == obj.child.end - (obj.child.base + Exp!GetAllocationSize(obj.parent, obj.child.base))
      IN  /\ Exp!IsAddressAllocation(obj.parent, obj.child.base)
          /\ passed <= IF ref.grown = "child" THEN ExpObject ELSE 0

-----------------------------------------------------------------------------
(* FrameHeap in memory of an ExpHeap; ref are the granules that a call let the
   heap pass its allocation by, after which the behaviour is not followed. *)
FrameInit ==
    /\ subject = "frame" /\ subject \in HeapSubjects
    /\ \E size \in ChildSizes \cup {0}, object \in {0, 1} :
         LET r == Small!FrameTryCreate(Exp!Create(1, HeapSpan, TRUE), size, 1, object)
         IN  obj = [parent |-> r.parent, heap |-> r.heap]
    /\ ref = 0

FrameAllocate(n, a) ==
    LET r == Small!FrameTryAllocate(obj.heap, n, a)
    IN  /\ r.address # 0
        /\ Becomes([obj EXCEPT !.heap = r.heap], ref)

FrameFreeAll == Becomes([obj EXCEPT !.heap = Small!FrameFreeAll(@)], ref)

\* The size of the object in front, 0 for that of a GpuFrameHeap.
FrameObjectSize == obj.heap.start - obj.heap.base

\* The parent is told to keep what was handed out, without the object.
FrameAdjust ==
    LET r == Small!FrameAdjustHeap(obj.parent, obj.heap)
    IN  /\ obj.heap.start < obj.heap.offset
        /\ Becomes(r, FrameObjectSize)

\* The parent is told to keep what is in use, not the new size.
FrameResize(n) ==
    LET r == Small!FrameResizeHeapBack(obj.parent, obj.heap, n)
    IN  /\ obj.heap.start < obj.heap.offset
        /\ Becomes(r, IF r = obj THEN 0 ELSE FrameObjectSize + n - (obj.heap.offset - obj.heap.start))

\* The rest of the parent is used meanwhile.
FrameParentAllocate(n) ==
    LET r == Exp!TryAllocate(obj.parent, n, 1)
    IN  r.address # 0 /\ Becomes([obj EXCEPT !.parent = r.heap], ref)

Framing == subject = "frame" /\ ref = 0

FrameNext ==
    \/ Framing /\ \E n \in Sizes, a \in Alignments : FrameAllocate(n, a)
    \/ Framing /\ FrameFreeAll
    \/ Framing /\ FrameAdjust
    \/ Framing /\ \E n \in Sizes : FrameResize(n)
    \/ Framing /\ \E n \in Sizes : FrameParentAllocate(n)

\* What a frame heap may hand out stays inside its allocation in the parent, which
\* hands the rest to others: through every order of allocations, of giving all
\* back, and, for a GpuFrameHeap, of giving the free end to the parent.  A heap
\* with its object in front passes its allocation by the object when it gives its
\* end back, and every heap by what it asked for beyond what is in use when it is
\* resized, and by no more (FrameHeap::AdjustHeap, ResizeHeapBack).
FrameInsideItsMemory ==
    subject = "frame" =>
      /\ obj.heap.offset <= obj.heap.end
      /\ obj.heap.end <= obj.heap.base + Exp!GetAllocationSize(obj.parent, obj.heap.base) + ref

-----------------------------------------------------------------------------
(* SeparateHeap: textures in device memory.  Two steps of the code end a
   behaviour (see the README): a block that begins before the aligned offset is
   taken for one behind a huge gap, where ref becomes "huge"; and the block that
   takes a gap is linked behind the block it precedes in memory, after which the
   list is out of order. *)
SepInit == /\ subject = "separate" /\ subject \in HeapSubjects
           /\ obj = Small!SeparateCreate(4, HeapSpan, 4)
           /\ ref = "exact"

SepOrdered == \A i \in 1..Len(obj.used) - 1 : obj.used[i].offset < obj.used[i + 1].offset

SepHuge(a) == \E n \in 0..Len(obj.used) - 1 : obj.used[n + 1].offset < Small!OffsetAfter(obj, n, a)

SepAllocate(n, a) ==
    LET r == Small!SeparateTryAllocate(obj, n, a)
    IN  obj.spare > 0 /\ r.address # 0 /\ Becomes(r.heap, IF SepHuge(a) THEN "huge" ELSE ref)

SepFree(x) == Becomes(Small!SeparateFree(obj, x), ref)

Separating == subject = "separate" /\ ref = "exact" /\ SepOrdered

SepNext ==
    \/ Separating /\ \E n \in Sizes, a \in Alignments : SepAllocate(n, a)
    \/ Separating /\ \E i \in DOMAIN obj.used : SepFree(obj.used[i].offset)

\* As long as the list of used blocks is in the order of memory, no matter in
\* which order blocks were freed, the search finds no memory that somebody has, up
\* to and with the first allocation that takes a gap (SeparateHeap::TryAllocate).
SeparateBlocksAreApart ==
    subject = "separate" /\ ref = "exact" =>
      \A i, j \in DOMAIN obj.used : i # j =>
        Span(obj.used[i].offset, obj.used[i].size) \cap Span(obj.used[j].offset, obj.used[j].size) = {}

-----------------------------------------------------------------------------
(* VirtualAddressHeap; ref.live are the allocations [at, pages].  ref.wild is set
   by the requests the README lists: those of nearly a whole region, and those to
   shrink an allocation in a region. *)
VirtInit == /\ subject = "virtual" /\ subject \in HeapSubjects
            /\ obj = Virt!Create("r0")
            /\ ref = [live |-> {}, wild |-> FALSE]

VirtAllocate(n, over, onPage) ==
    LET first == n + over
        r     == Virt!TryAllocate(obj, n, first, onPage)
    IN  /\ Virt!Unused(obj) # {}
        /\ Becomes(r.heap, [live |-> ref.live \cup {[at |-> r.at, pages |-> r.pages]},
                            wild |-> n < 6 /\ first >= 6])

VirtFree(x) == Becomes(Virt!Free(obj, x.at), [ref EXCEPT !.live = @ \ {x}])

VirtShrink(x, n) ==
    LET r == Virt!AdjustAllocation(obj, x.at, n)
    IN  Becomes(r, [ref EXCEPT !.wild = IF x.at.page = -1 THEN r.aborted ELSE r # obj])

Mapping == subject = "virtual" /\ ~ref.wild

VirtNext ==
    \/ Mapping /\ \E n \in {1, 2, 3, 6}, over \in {1, 2}, onPage \in BOOLEAN : VirtAllocate(n, over, onPage)
    \/ Mapping /\ \E x \in ref.live : VirtFree(x)
    \/ Mapping /\ \E x \in ref.live, n \in Sizes : VirtShrink(x, n)

\* Two allocations of a region never share a page, and the pages of each are
\* marked as taken and backed by memory, until it is freed.
PagesAreApart ==
    Mapping =>
      /\ ~obj.aborted
      /\ \A x \in ref.live : x.at.page # -1 =>
           /\ x.pages \subseteq obj.region[x.at.region].mask
           /\ x.pages \subseteq obj.region[x.at.region].committed
           /\ \A y \in ref.live : y # x /\ y.at.region = x.at.region => x.pages \cap y.pages = {}

-----------------------------------------------------------------------------
(* The tree of heaps, with one thread that asks whose memory an address is. *)
Place == [a |-> [parent |-> "root", from |-> 0, to |-> 4], b |-> [parent |-> "a", from |-> 0, to |-> 2],
          c |-> [parent |-> "root", from |-> 4, to |-> 6], d |-> [parent |-> "a", from |-> 2, to |-> 3]]

Roots == [root |-> [start |-> 0, end |-> 8], second |-> [start |-> 10, end |-> 11],
          third |-> [start |-> 11, end |-> 12]]

TreeObjects == {1, 5}    \* where objects are made

\* Before the heaps of the processor are there; the gpu's heap is at 8 and 9.
NoRoots == [heap |-> [x \in {"gpu"} |-> Tree!NewHeap(8, 10, NoHeap)], roots |-> << >>, gpu_roots |-> << "gpu" >>,
            initialized |-> FALSE, malloc |-> {}, thread |-> [t \in {1} |-> [current |-> "root", lookup |-> NoHeap]]]

\* ref is the set of the objects that were made and not destroyed.
TreeInit ==
    /\ subject = "tree" /\ subject \in HeapSubjects
    /\ obj = NoRoots
    /\ ref = {}

TreeStart ==
    \E heaps \in {<< "root" >>, << "root", "second", "third" >>} :
      obj.malloc = {} /\ Becomes(Tree!InitializeHeapManager(obj, heaps, Roots), ref)

TreeCreate(h) ==
    /\ h \notin DOMAIN obj.heap /\ Place[h].parent \in DOMAIN obj.heap
    /\ \A a \in Place[h].from..Place[h].to - 1 : Tree!IsFree(obj, Place[h].parent, a)
    /\ Becomes(Tree!PushBackChild(obj, Place[h].parent, h, Place[h].from, Place[h].to), ref)

TreeDestroy(h) ==
    /\ h \in DOMAIN obj.heap /\ obj.heap[h].children = << >>
    /\ Becomes(Tree!Destruct(obj, h), ref \ ToSet(obj.heap[h].disposers))

\* The program's end; the heaps have no children any more.
TreeFinalize ==
    LET tree == Tree!FinalizeHeapManager(obj)
        gone == UNION {ToSet(obj.heap[h].disposers) : h \in DOMAIN obj.heap \ DOMAIN tree.heap}
    IN  \A h \in DOMAIN Place : h \notin DOMAIN obj.heap /\ Becomes(tree, ref \ gone)

TreeSetCurrent(h) == Becomes(Tree!SetCurrentThreadHeap(obj, 1, h), ref)

\* A search through a heap that is gone reads freed memory: not followed.
Remembered == {obj.thread[1].current, obj.thread[1].lookup} \ {NoHeap}
Searching == subject = "tree" /\ obj.initialized /\ obj.roots[1] # NoHeap /\ Remembered \subseteq DOMAIN obj.heap

TreeLookup(a) == Searching /\ Becomes(Tree!Lookup(obj, 1, a), ref)

TreeConstruct(a, h) == Searching /\ a \notin ref /\ Becomes(Tree!NewDisposer(obj, 1, a, h), ref \cup {a})

\* What is deleted after the search for its heap ended too early is not followed.
TreeNew(a, h) ==
    /\ obj.initialized => Searching /\ Tree!IsFree(obj, Tree!NewFrom(obj, 1, h), a)
    /\ Becomes(Tree!OperatorNew(obj, 1, a, h), ref)

TreeDelete(a) ==
    /\ obj.initialized => Searching /\ a \in obj.heap[Tree!FindHeapFromAddress(obj, 1, a)].used
    /\ Becomes(Tree!OperatorDelete(obj, 1, a), ref)

TreeNext ==
    \/ subject = "tree" /\ TreeStart
    \/ subject = "tree" /\ \E h \in {NoHeap, "root"} : TreeNew(2, h)
    \/ subject = "tree" /\ TreeDelete(2)
    \/ subject = "tree" /\ \E h \in DOMAIN Place : TreeCreate(h)
    \/ subject = "tree" /\ \E h \in DOMAIN Place : TreeDestroy(h)
    \/ subject = "tree" /\ \E h \in DOMAIN obj.heap : TreeSetCurrent(h)
    \/ subject = "tree" /\ \E a \in 0..7 : TreeLookup(a)
    \/ subject = "tree" /\ \E a \in TreeObjects : TreeConstruct(a, NoHeap) \/ TreeConstruct(a, "root")
    \/ subject = "tree" /\ \E a \in ref : Becomes(Tree!RemoveDisposer(obj, a), ref \ {a})
    \/ subject = "tree" /\ TreeFinalize

Holding(a) == {h \in DOMAIN obj.heap : Tree!IsAddressInHeap(obj, h, a)}

\* An object that lives is in the list of one heap, once, which contains it, so
\* that it is destroyed once (Heap::Destruct, IDisposer).
ObjectsHaveOneHeap ==
    subject = "tree" =>
      /\ UNION {ToSet(obj.heap[h].disposers) : h \in DOMAIN obj.heap} = ref
      /\ \A h \in DOMAIN obj.heap : \A a \in ToSet(obj.heap[h].disposers) :
           /\ h \in Holding(a) /\ Cardinality({i \in DOMAIN obj.heap[h].disposers : obj.heap[h].disposers[i] = a}) = 1
           /\ \A g \in DOMAIN obj.heap \ {h} : a \notin ToSet(obj.heap[g].disposers)

\* The heaps' names: two share one.
HeapName == [root |-> "RootHeap0", second |-> "RootHeap1", third |-> "RootHeap2", gpu |-> "Gpu",
             a |-> "A", b |-> "Shared", c |-> "Shared", d |-> "D"]

\* The heap found by a name has it, and one is found if a root above one that
\* has it comes before the first missing root (FindHeapByName).
NamedHeapIsFound ==
    subject = "tree" /\ Tree!IsAddressFromAnyHeap(obj, 0) =>
      \A n \in {HeapName[h] : h \in DOMAIN HeapName} :
        LET found == Tree!FindHeapByName(obj, HeapName, n)
            named == {h \in DOMAIN obj.heap : HeapName[h] = n /\ (h = "gpu" => Cardinality(DOMAIN Roots \cap DOMAIN obj.heap) = 3)}
        IN  IF named = {} THEN found = NoHeap ELSE found \in named

\* The heap found for an address contains it, whatever the thread remembers of
\* earlier searches, and it is the innermost one unless a remembered heap that
\* contains the address has children (there the search ends too early).  So
\* operator delete gives an address back to the heap that operator new took it from.
FoundHeapOwnsAddress ==
    Searching =>
      \A a \in 0..7 :
        LET h == Tree!FindHeapFromAddress(obj, 1, a)
        IN  /\ h \in Holding(a)
            /\ (\A m \in Remembered \cap Holding(a) : obj.heap[m].children = << >>)
                 => \A c \in Holding(a) : obj.heap[c].parent # h
            /\ Tree!IsAddressFromAnyHeap(obj, a)
            /\ \A m \in DOMAIN obj.heap :
                 a \in obj.heap[m].used /\ (\A x \in Remembered \cap Holding(a) : obj.heap[x].children = << >>)
                   => h = m

-----------------------------------------------------------------------------
CONSTANTS
    ContainerSubjects,  \* which containers this run is about
    TreeNodes,
    Nothing             \* an empty entry, an invalid index
CONSTANT Beyond         \* what is read past an array

Rb == INSTANCE RedBlackTree
C == INSTANCE Containers
Pq == INSTANCE FixedPriorityQueue

-----------------------------------------------------------------------------
(* The red-black tree; ref is the set of its members. *)
RbInit == /\ subject = "rbtree" /\ subject \in ContainerSubjects
          /\ obj = Rb!Empty(TreeNodes)
          /\ ref = {}

RbInsert(n) == Becomes(Rb!Insert(obj, n), ref \cup {n})

\* What a node outside of the tree keeps is written before it is read again:
\* forgotten here, to have fewer states.
RbRemove(n) == Becomes([Rb!Remove(obj, n) EXCEPT !.parent[n] = 0, !.black[n] = FALSE], ref \ {n})

RbNext ==
    \/ subject = "rbtree" /\ \E n \in TreeNodes : RbInsert(n)
    \/ subject = "rbtree" /\ \E n \in ref : RbRemove(n)

RECURSIVE BlackHeights(_)
BlackHeights(n) ==
    IF n = 0 THEN {0}
    ELSE {h + (IF obj.black[n] THEN 1 ELSE 0) :
            h \in BlackHeights(obj.child[0][n]) \cup BlackHeights(obj.child[1][n])}

\* After any inserts and removals no red node has a red child and every way down
\* passes as many black nodes: searches stay short.
TreeIsBalanced ==
    subject = "rbtree" =>
      /\ ~Rb!IsRed(obj, obj.root)
      /\ \A n \in ref : \A s \in {0, 1} :
           Rb!IsRed(obj, obj.child[s][n]) => obj.black[n]
      /\ Cardinality(BlackHeights(obj.root)) = 1

\* The members are reached from the smallest to the largest by GetNext, and each
\* is found; ClearAll hands out the first of them in this order, and perhaps the
\* last one again (not all: see the README).
TreeEnumeratesMembers ==
    subject = "rbtree" =>
      LET all == Rb!InOrder(obj)
          few == Rb!ClearAll(obj)
      IN  /\ ToSet(all) = ref
          /\ \A i \in 1..Len(all) - 1 : all[i] < all[i + 1]
          /\ \A n \in TreeNodes : Rb!Find(obj, n) <=> n \in ref
          /\ IsPrefix(few, all) \/ (IsPrefix(Front(few), all) /\ Last(few) \in ToSet(Front(few)))

-----------------------------------------------------------------------------
(* A ring buffer of three entries; ref is what a queue would hold, or Nothing
   once Remove was called with the first entry elsewhere than at index 0, where
   it takes out another entry or aborts. *)
RingInit == /\ subject = "ring" /\ subject \in ContainerSubjects
            /\ obj = C!RingCreate(3)
            /\ ref = << >>

Queueing == subject = "ring" /\ ref # Nothing

RingInsert(x) == obj.count < obj.size /\ Becomes(C!RingInsert(obj, x), Append(ref, x))

RingRemoveFront == Becomes(C!RingRemoveFront(obj), IF ref = << >> THEN ref ELSE Tail(ref))

RingRemove(i) ==
    Becomes(C!RingRemoved(obj, ref[i]).ring, IF obj.offset = 0 THEN RemoveAt(ref, i) ELSE Nothing)

RingClear == Becomes(C!RingClear(obj), << >>)

RingNext ==
    \/ Queueing /\ \E x \in 1..3 : x \notin ToSet(ref) /\ RingInsert(x)
    \/ Queueing /\ RingRemoveFront
    \/ Queueing /\ \E i \in DOMAIN ref : RingRemove(i)
    \/ Queueing /\ RingClear

RECURSIVE Drained(_)
Drained(r) == IF r.count = 0 THEN << >> ELSE <<C!RingFront(r)>> \o Drained(C!RingRemoveFront(r))

\* What comes out of the ring is what went in and was not taken out, in order,
\* however often the ring has been passed and wherever an entry was removed
\* while the first one was at index 0; there Remove finds every entry, and so do
\* operator[] and an iteration, before what was never put in or taken out again.
RingIsQueue ==
    Queueing => /\ Drained(obj) = ref
                /\ obj.offset = 0 =>
                     /\ \A i \in DOMAIN ref : ~C!RingRemoved(obj, ref[i]).aborted /\ C!RingAt(obj, i - 1) = ref[i]
                     /\ IsPrefix(ref, C!RingVisited(obj))

-----------------------------------------------------------------------------
(* Two intrusive lists over three nodes; ref are the sequences. *)
ListNodes == 1..3
Lists == {8, 9}

ListInit == /\ subject = "list" /\ subject \in ContainerSubjects
            /\ obj = C!ListCreate(ListNodes \cup Lists)
            /\ ref = [l \in Lists |-> << >>]

ListPush(l, n) ==
    \/ Becomes(C!ListPushBack(obj, l, n), [ref EXCEPT ![l] = Append(@, n)])
    \/ Becomes(C!ListPushFront(obj, l, n), [ref EXCEPT ![l] = <<n>> \o @])

ListRemove(n) ==
    Becomes(C!ListRemove(obj, n), [l \in DOMAIN ref |-> SelectSeq(ref[l], LAMBDA x : x # n)])

\* A node popped of one list is put in the other one.
ListMove(l, k) ==
    \/ LET p == C!ListPopFront(obj, l)
       IN  Becomes(C!ListPushBack(p.list, k, p.node), [ref EXCEPT ![l] = Tail(@), ![k] = Append(@, ref[l][1])])
    \/ LET p == C!ListPopBack(obj, l)
       IN  Becomes(C!ListPushFront(p.list, k, p.node), [ref EXCEPT ![l] = Front(@), ![k] = <<Last(ref[l])>> \o @])

ListClear(l) == Becomes(C!ListClear(obj, l, Cardinality(ListNodes)), [ref EXCEPT ![l] = << >>])

ListNext ==
    \/ subject = "list" /\ \E l \in Lists, n \in ListNodes : ~C!ListIsLinked(obj, n) /\ ListPush(l, n)
    \/ subject = "list" /\ \E n \in ListNodes : ListRemove(n)
    \/ subject = "list" /\ \E l \in Lists, k \in Lists : l # k /\ ~C!ListIsEmpty(obj, l) /\ ListMove(l, k)
    \/ subject = "list" /\ \E l \in Lists : ListClear(l)

\* Both ways round, each list is the sequence of what was pushed and not removed,
\* and a node is linked exactly when it is in one.
ListsAreSequences ==
    subject = "list" =>
      /\ \A l \in Lists : /\ C!ListForward(obj, l, 5) = ref[l]
                          /\ C!ListBackward(obj, l, 5) = Reverse(ref[l])
                          /\ C!ListGetCount(obj, l, 5) = Len(ref[l])
                          /\ ref[l] # << >> => /\ C!ListFront(obj, l) = ref[l][1] /\ C!ListBack(obj, l) = Last(ref[l])
                                             /\ C!ListGetNext(obj, Last(ref[l])) = l
      /\ \A n \in ListNodes : C!ListIsLinked(obj, n) <=> n \in ToSet(ref[8]) \cup ToSet(ref[9])

-----------------------------------------------------------------------------
(* The atomic ring of four entries, which holds one, with two threads.  obj.pc
   says where each is: n is the count or the offset it loaded, value what it inserts or
   has read.  The values inserted are 1, 2, ...: ref.next is the next one, ref.out
   what came out.  ref.lapped is set when a thread that still has to write an
   entry has been passed by the whole ring: nothing is claimed then. *)
MaxInserts == 6

AtomicRingInit ==
    /\ subject = "atomic_ring" /\ subject \in ContainerSubjects
    /\ obj = [ring |-> C!AtomicRingCreate(4), pc |-> [t \in {1, 2} |-> [at |-> "idle", n |-> 0, value |-> Nothing]]]
    /\ ref = [next |-> 1, out |-> << >>, aborted |-> FALSE, lapped |-> FALSE, overtaken |-> FALSE]

RingGoes(t, at, n, value, ring, r) ==
    LET pc == [obj.pc EXCEPT ![t] = [at |-> at, n |-> n, value |-> value]]
        lapped == \E u \in {1, 2} : pc[u].at \in {"put", "erase"} /\ ring.count > pc[u].n + 4
    IN  Becomes([ring |-> ring, pc |-> pc], [r EXCEPT !.lapped = @ \/ lapped])

RingCall(t) ==
    /\ obj.pc[t].at = "idle"
    /\ \/ /\ ref.next <= MaxInserts
          /\ RingGoes(t, "room", obj.ring.count, ref.next, obj.ring, [ref EXCEPT !.next = @ + 1])
       \/ RingGoes(t, "peek", obj.ring.offset, Nothing, obj.ring, ref)

\* Insert.  Without room the assertion fails.
RingTestRoom(t) ==
    LET p == obj.pc[t]
    IN  /\ p.at = "room"
        /\ IF C!AtomicRingHasRoom(obj.ring, p.n) THEN RingGoes(t, "reserve", p.n, p.value, obj.ring, ref)
           ELSE RingGoes(t, "abort", p.n, p.value, obj.ring,
                         [ref EXCEPT !.aborted = TRUE, !.overtaken = p.n < obj.ring.offset])

RingReserve(t) ==
    LET p == obj.pc[t]
        r == C!AtomicRingReserve(obj.ring, p.n)
    IN  /\ p.at = "reserve"
        /\ RingGoes(t, IF r.done THEN "put" ELSE "room", r.last, p.value, r.ring, ref)

RingPut(t) ==
    /\ obj.pc[t].at = "put"
    /\ RingGoes(t, "idle", 0, Nothing, C!AtomicRingPut(obj.ring, obj.pc[t].n, obj.pc[t].value), ref)

\* RemoveFront.
RingPeek(t) ==
    LET p == obj.pc[t]
        value == C!AtomicRingPeek(obj.ring, p.n)
    IN  /\ p.at = "peek"
        /\ IF obj.ring.count = p.n THEN RingGoes(t, "idle", 0, Nothing, obj.ring, ref)
           ELSE RingGoes(t, IF value = Nothing THEN "again" ELSE "take", p.n, value, obj.ring, ref)

RingAgain(t) ==
    LET p == obj.pc[t]
    IN  /\ p.at = "again"
        /\ IF obj.ring.offset = p.n THEN RingGoes(t, "idle", 0, Nothing, obj.ring, ref)
           ELSE RingGoes(t, "peek", obj.ring.offset, Nothing, obj.ring, ref)

RingTake(t) ==
    LET p == obj.pc[t]
        r == C!AtomicRingTake(obj.ring, p.n)
    IN  /\ p.at = "take"
        /\ IF r.done THEN RingGoes(t, "erase", r.last, p.value, r.ring, [ref EXCEPT !.out = Append(@, p.value)])
           ELSE RingGoes(t, "peek", r.last, Nothing, obj.ring, ref)

RingErase(t) ==
    /\ obj.pc[t].at = "erase"
    /\ RingGoes(t, "idle", 0, Nothing, C!AtomicRingErase(obj.ring, obj.pc[t].n), ref)

AtomicRinging == subject = "atomic_ring" /\ ~ref.lapped /\ ~ref.aborted

AtomicRingNext ==
    \/ AtomicRinging /\ \E t \in {1, 2} : RingCall(t) \/ RingTestRoom(t) \/ RingReserve(t) \/ RingPut(t)
    \/ AtomicRinging /\ \E t \in {1, 2} : RingPeek(t) \/ RingAgain(t) \/ RingTake(t) \/ RingErase(t)

\* No value comes out twice, and between calls those that went in and did not
\* come out are in the ring; a thread that finds no room saw a full ring, or its
\* count was passed by those who took values: then it stops the program although
\* there is room (AtomicRingBuffer).
AtomicRingKeepsValues ==
    subject = "atomic_ring" /\ ~ref.lapped =>
      /\ Cardinality(ToSet(ref.out)) = Len(ref.out)
      /\ ref.aborted => ref.overtaken \/ obj.ring.count > obj.ring.offset
      /\ (\A t \in {1, 2} : obj.pc[t].at = "idle") =>
           ToSet(ref.out) \cup {obj.ring.array[i % 4] : i \in obj.ring.offset..obj.ring.count - 1} = 1..ref.next - 1

-----------------------------------------------------------------------------
(* Three frame arrays of two entries behind each other and a pointer array; ref is
   what each holds. *)
ArraysInit ==
    /\ subject = "arrays" /\ subject \in ContainerSubjects
    /\ obj = [frames |-> C!BufferedInitialize(3, 2), pointers |-> C!PointerArrayInitialize(2)]
    /\ ref = [frames |-> [f \in 0..2 |-> << >>], pointers |-> << >>]

Current == obj.frames.current

ArraysPush(x) ==
    \/ /\ Len(ref.frames[Current]) < 2
       /\ Becomes([obj EXCEPT !.frames.array[Current] = C!PushValue(@, x)], [ref EXCEPT !.frames[Current] = Append(@, x)])
    \/ /\ Len(ref.pointers) < 2
       /\ Becomes([obj EXCEPT !.pointers = C!PushPointer(@, x)], [ref EXCEPT !.pointers = Append(@, x)])

ArraysPop ==
    \/ /\ ref.frames[Current] # << >>
       /\ Becomes([obj EXCEPT !.frames.array[Current] = C!PopValue(@)], [ref EXCEPT !.frames[Current] = Front(@)])
    \/ /\ ref.pointers # << >>
       /\ Becomes([obj EXCEPT !.pointers = C!PopPointer(@)], [ref EXCEPT !.pointers = Front(@)])

ArraysClear == Becomes([obj EXCEPT !.pointers = C!PointerArrayClear(@)], [ref EXCEPT !.pointers = << >>])

ArraysAdvance == Becomes([obj EXCEPT !.frames = C!AdvanceFrameArray(@)], ref)

ArraysNext ==
    \/ subject = "arrays" /\ \E x \in {1, 2} : ArraysPush(x)
    \/ subject = "arrays" /\ ArraysPop
    \/ subject = "arrays" /\ ArraysClear
    \/ subject = "arrays" /\ ArraysAdvance

\* Each array holds what was pushed and not popped, for the first index too, and
\* the last one is that which was the current one before the frames advanced.
ArraysHoldTheirFrames ==
    subject = "arrays" =>
      /\ \A f \in 0..2 :
           /\ C!ValuesVisited(obj.frames.array[f]) = ref.frames[f]
           /\ ref.frames[f] # << >> => C!ValueAt(obj.frames.array[f], 0) = ref.frames[f][1]
      /\ C!PointersVisited(obj.pointers) = ref.pointers
      /\ ref.pointers # << >> => C!PointerAt(obj.pointers, 0) = ref.pointers[1]
      /\ C!GetLastFrameArray(C!AdvanceFrameArray(obj.frames)) = obj.frames.array[Current]

-----------------------------------------------------------------------------
(* Indices and objects with one caller; ref is the set that is in use. *)
ChainInit ==
    /\ subject \in {"indices", "objects"} \cap ContainerSubjects
    /\ obj = IF subject = "indices" THEN C!IndexCreate(4) ELSE C!ObjectCreate(4)
    /\ ref = {}

IndexAllocate == obj.next # Nothing /\ Becomes(C!IndexAllocate(obj), ref \cup {obj.next})

IndexFree(i) == Becomes(C!IndexFree(obj, i), ref \ {i})

ObjectAllocate == Becomes(C!ObjectAllocate(obj), ref \cup ({obj.free} \ {Nothing}))

ObjectRemoveLast == Becomes(C!ObjectRemoveLast(obj), IF obj.used = << >> THEN ref ELSE ref \ {Last(obj.used)})

ObjectClear == Becomes(C!ObjectClear(obj), {})

ChainNext ==
    \/ subject = "indices" /\ IndexAllocate
    \/ subject = "indices" /\ \E i \in ref : IndexFree(i)
    \/ subject = "objects" /\ ObjectAllocate
    \/ subject = "objects" /\ ObjectRemoveLast
    \/ subject = "objects" /\ ObjectClear

RECURSIVE Chain(_, _, _)
Chain(head, link, max) ==
    IF head = Nothing \/ max = 0 THEN << >>
    ELSE <<head>> \o Chain(link[head], link, max - 1)

\* The chain of the free ones and those in use are all there are, each once, in
\* whatever order they come and go.
ChainHoldsTheRest ==
    subject \in {"indices", "objects"} =>
      LET chain == IF subject = "indices" THEN Chain(obj.next, obj.array, 5) ELSE Chain(obj.free, obj.link, 5)
      IN  /\ Len(chain) = 4 - Cardinality(ref)
          /\ ToSet(chain) \cap ref = {}
          /\ subject = "objects" => ToSet(obj.used) = ref

-----------------------------------------------------------------------------
(* The atomic allocator with two threads; obj.pc says where each is: the call, the
   head it loaded, the entry behind it and the index it frees.  ref.owned are the
   indices of each thread, ref.wild is set when memory past the array is taken
   for an entry. *)
AtomicThreads == {1, 2}
Idle == [at |-> "idle", handle |-> Nothing, entry |-> Nothing, index |-> Nothing]

AtomicInit ==
    /\ subject = "atomic" /\ subject \in ContainerSubjects
    /\ obj = [list |-> C!IndexCreate(4), pc |-> [t \in AtomicThreads |-> Idle]]
    /\ ref = [owned |-> [t \in AtomicThreads |-> {}], wild |-> FALSE]

Goes(t, pc, list, owned) ==
    Becomes([list |-> list, pc |-> [obj.pc EXCEPT ![t] = pc]],
            [owned |-> [ref.owned EXCEPT ![t] = owned], wild |-> ref.wild \/ list.next = Beyond])

AtomicCall(t, i) ==
    /\ obj.pc[t].at = "idle"
    /\ Goes(t, [Idle EXCEPT !.at = "load", !.index = i], obj.list, ref.owned[t] \ {i})

AtomicLoad(t) ==
    LET p == [obj.pc[t] EXCEPT !.handle = obj.list.next]
    IN  /\ obj.pc[t].at = "load"
        /\ IF p.index # Nothing
           THEN Goes(t, [p EXCEPT !.at = "read"], C!IndexLinkFreed(obj.list, p.index, p.handle), ref.owned[t])
           ELSE Goes(t, IF p.handle = Nothing THEN Idle ELSE [p EXCEPT !.at = "read"], obj.list, ref.owned[t])

AtomicRead(t) ==
    LET p == obj.pc[t]
    IN  /\ p.at = "read"
        /\ Goes(t, [p EXCEPT !.at = "exchange", !.entry = C!IndexEntry(obj.list, p.handle)], obj.list, ref.owned[t])

\* A failed exchange gives Allocate the head to try next; Free loads it anew.
AtomicExchange(t) ==
    LET p == obj.pc[t]
        r == C!IndexExchangeHead(obj.list, p.handle, p.entry)
        retry == IF p.index # Nothing THEN [p EXCEPT !.at = "load"]
                 ELSE IF obj.list.next = Nothing THEN Idle
                 ELSE [p EXCEPT !.at = "read", !.handle = obj.list.next]
    IN  /\ p.at = "exchange"
        /\ IF r.done THEN Goes(t, Idle, r.a, ref.owned[t] \cup (IF p.index = Nothing THEN {p.handle} ELSE {}))
           ELSE Goes(t, retry, obj.list, ref.owned[t])

Exchanging == subject = "atomic" /\ ~ref.wild

AtomicNext ==
    \/ Exchanging /\ \E t \in AtomicThreads : \E i \in ref.owned[t] \cup {Nothing} : AtomicCall(t, i)
    \/ Exchanging /\ \E t \in AtomicThreads : AtomicLoad(t)
    \/ Exchanging /\ \E t \in AtomicThreads : AtomicRead(t)
    \/ Exchanging /\ \E t \in AtomicThreads : AtomicExchange(t)

\* Whatever the two threads read between the steps of each other, no index is
\* given to both, and none that is in use is at the head of the free ones.
AtomicIndicesAreUnique ==
    Exchanging =>
      /\ ref.owned[1] \cap ref.owned[2] = {}
      /\ obj.list.next \notin ref.owned[1] \cup ref.owned[2]

-----------------------------------------------------------------------------
(* The hash map of three entries; ref are the entries added since it was last
   cleared, in order. *)
MapInit == /\ subject = "map" /\ subject \in ContainerSubjects
           /\ obj = C!MapCreate(3)
           /\ ref = << >>

MapAdd(hash) ==
    /\ obj.count < obj.size
    /\ Becomes(C!MapAddEntry(obj, hash, Len(ref)), Append(ref, hash))

MapClear == Becomes(C!MapClear(obj), << >>)

MapNext ==
    \/ subject = "map" /\ \E hash \in {1, 2, 3, 4, 6} : MapAdd(hash)
    \/ subject = "map" /\ MapClear

\* Every key finds the index of its first entry, however the searches of others
\* are in its way, and a key that was never added, or was cleared, finds none.
MapFindsFirst ==
    subject = "map" =>
      \A hash \in {1, 2, 3, 4, 6} :
        LET K == {i \in DOMAIN ref : ref[i] = hash}
        IN  C!MapTryGetIndexByKey(obj, hash) = IF K = {} THEN -1 ELSE Min(K) - 1

-----------------------------------------------------------------------------
(* The heap of the scheduler's runnable fibers: inserts, removals of the front or
   of a given fiber, and SetPriorityImpl, which changes the key of a queued fiber
   and then takes it out and puts it back.  ref are the members. *)
PqNodes == 1..6
PqKeys == 1..2

PqInit == /\ subject = "heap" /\ subject \in ContainerSubjects
          /\ obj = [queue |-> << >>, key |-> [n \in PqNodes |-> 1]]
          /\ ref = {}

PqInsert(n) == Becomes([obj EXCEPT !.queue = Pq!Insert(@, obj.key, n)], ref \cup {n})

PqTakeFront ==
    /\ ref # {}
    /\ Becomes([obj EXCEPT !.queue = Pq!RemoveFront(@, obj.key)], ref \ {Pq!Peek(obj.queue)})

PqRemove(n) ==
    Becomes([obj EXCEPT !.queue = Pq!Remove(@, obj.key, Pq!FindIterTo(@, n))], ref \ {n})

PqChangeKey(n, k) ==
    LET key == [obj.key EXCEPT ![n] = k]
    IN  Becomes([queue |-> Pq!Insert(Pq!Remove(obj.queue, key, Pq!FindIterTo(obj.queue, n)), key, n),
                 key   |-> key], ref)

PqNext ==
    \/ subject = "heap" /\ \E n \in PqNodes \ ref : PqInsert(n)
    \/ subject = "heap" /\ PqTakeFront
    \/ subject = "heap" /\ \E n \in ref : PqRemove(n)
    \/ subject = "heap" /\ \E n \in ref, k \in PqKeys : PqChangeKey(n, k)

\* No order of calls leaves a node under a smaller one, in particular not the
\* removal of an inner entry, which may have to move its replacement up, and the
\* entries are the members, each once.
HeapOrder ==
    subject = "heap" =>
      /\ Pq!IsHeap(obj.queue, obj.key)
      /\ Len(obj.queue) = Cardinality(ref)
      /\ ToSet(obj.queue) = ref
-----------------------------------------------------------------------------

CONSTANTS FileSubjects    \* which formats this run is about

By == INSTANCE Byaml
Dev == INSTANCE FileDevices WITH Root <- "content", Words <- 4, DivAlignment <- 2

\* Paths: 1 and 3 collide, as do 2 and 6; 5 and 6 are never added.
FileHash == <<30, 10, 30, 20, 15, 10>>
FileLength == <<1, 3, 4, 7, 2, 2>>
Ar == INSTANCE Archives WITH Hash <- FileHash, Length <- FileLength

-----------------------------------------------------------------------------
(* A byaml file whose root is a dictionary with some of the keys 1, 2 and 3, each
   with a value of one of the kinds below; big data is shared.  ref says how the
   file was written. *)
ByamlKinds == {"u32", "s64", "string", "binary", "array", "dictionary", "hash"}

ByamlKeyTable(n, base) ==
    [By!NoBlock EXCEPT !.type = "key_table", !.count = n,
        !.values = [i \in 1..n + 1 |-> 4 * i], !.chars = [o \in {4 * i : i \in 1..n + 1} |-> base + o \div 4]]

ByamlPairs(t, keys, types, values) ==
    [By!NoBlock EXCEPT !.type = t, !.count = Len(values), !.keys = keys, !.types = types, !.values = values]

ByamlType(kind) == CASE kind = "array" -> "mono_array" [] kind = "hash" -> "hash1" [] OTHER -> kind
ByamlValue(kind) ==
    CASE kind = "u32" -> 7 [] kind = "string" -> 1 [] kind = "s64" -> 300 [] kind = "binary" -> 310
      [] kind = "array" -> 320 [] kind = "dictionary" -> 330 [] kind = "hash" -> 340

\* The file in the host's order.  Key table at 100, strings at 150, root at 200.
ByamlFile(kind) ==
    LET keys == SetToSortSeq(DOMAIN kind, <)
        root == ByamlPairs("dictionary", [i \in 1..Len(keys) |-> keys[i] - 1],
                           [i \in 1..Len(keys) |-> ByamlType(kind[keys[i]])],
                           [i \in 1..Len(keys) |-> ByamlValue(kind[keys[i]])])
    IN  [magic |-> By!cMagic, key_table_offset |-> 100, string_table_offset |-> 150, data_offset |-> 200,
         at |-> [o \in {100, 150, 200, 300, 310, 320, 330, 340, 350, 360} |->
            CASE o = 100 -> ByamlKeyTable(3, 0)
              [] o = 150 -> ByamlKeyTable(2, 50)
              [] o = 200 -> root
              [] o = 300 -> [By!NoBlock EXCEPT !.type = "data", !.values = <<9>>]
              [] o = 310 -> [By!NoBlock EXCEPT !.type = "data", !.values = <<5, 77>>]
              [] o = 320 -> ByamlPairs("mono_array", <<>>, <<"s64">>, <<300, 300>>)
              [] o = 330 -> ByamlPairs("dictionary", <<1, 2>>, <<"u64", "array">>, <<300, 350>>)
              [] o = 340 -> ByamlPairs("hash1", <<11, 12, 15>>, <<"u32", "s64", "u32">>, <<3, 300, 4>>)
              [] o = 350 -> ByamlPairs("array", <<>>, <<"f32", "s64", "binary_aligned">>, <<8, 300, 360>>)
              [] o = 360 -> [By!NoBlock EXCEPT !.type = "data", !.values = <<6, 16>>]]]

ByamlInit ==
    /\ subject = "byaml" /\ subject \in FileSubjects
    /\ \E keys \in SUBSET {1, 2, 3} : \E kind \in [keys -> ByamlKinds] : ref = kind
    /\ obj = ByamlFile(ref)

ByamlNext == subject = "byaml" /\ Becomes(By!SwapByamlEndian(obj), ref)

ByamlArrayReads(it) ==
    \A i \in 0..2 : By!ValueByIndex(obj, it, i, "s64") = IF i < 2 THEN {9} ELSE {}

ByamlNestedReads(it) ==
    /\ By!ValueByKey(obj, it, 2, "u64") = {9} /\ By!ValueByKey(obj, it, 2, "u32") = {}
    /\ Cardinality(By!IteratorByIndex(obj, it, 1)) = 1
    /\ \A array \in By!IteratorByIndex(obj, it, 1) :
         /\ By!ValueByIndex(obj, array, 0, "f32") = {8} /\ By!ValueByIndex(obj, array, 0, "f64") = {8}
         /\ By!ValueByIndex(obj, array, 1, "s64") = {9}
         /\ By!BinaryByIndex(obj, array, 2) = {[size |-> 6, alignment |-> 16]}
         /\ By!TryGetByamlDataByIndex(obj, array, 3) = {}

\* Of a hash array the words are found, not their types.
ByamlHashReads(it) ==
    \A h \in 10..16 :
        {<<d.key_index, d.value>> : d \in By!TryGetByamlDataByHash(obj, it, h)}
          = CASE h = 11 -> {<<0, 3>>} [] h = 12 -> {<<1, 300>>} [] h = 15 -> {<<2, 4>>} [] OTHER -> {}

ByamlReads(it, k) ==
    LET below == By!IteratorByKey(obj, it, k)
    IN  CASE ref[k] = "u32" -> By!ValueByKey(obj, it, k, "u32") = {7} /\ By!ValueByKey(obj, it, k, "u64") = {7}
          [] ref[k] = "s64" -> By!ValueByKey(obj, it, k, "s64") = {9} /\ below = {}
          [] ref[k] = "string" -> By!ValueByKey(obj, it, k, "string") = {52}
          [] ref[k] = "binary" -> By!BinaryByKey(obj, it, k) = {[size |-> 5, alignment |-> 0]}
          [] ref[k] = "array" -> Cardinality(below) = 1 /\ \A i \in below : ByamlArrayReads(i)
          [] ref[k] = "dictionary" -> Cardinality(below) = 1 /\ \A i \in below : ByamlNestedReads(i)
          [] ref[k] = "hash" -> Cardinality(below) = 1 /\ \A i \in below : ByamlHashReads(i)

\* Whatever the byte order of the file, and after it was swapped in place, the
\* calls that read it find under each key and index what was written there, and
\* nothing under the others (ByamlIterator, ResByaml::SwapByamlEndian).
ByamlReadsBack ==
    subject = "byaml" =>
      /\ By!IsReverseEndian(obj) \/ obj = ByamlFile(ref)
      /\ Cardinality(By!RootIterator(obj)) = 1
      /\ \A it \in By!RootIterator(obj) : \A k \in 1..4 :
           LET found == By!TryGetByamlDataByKey(obj, it, k)
           IN  /\ Cardinality(found) = IF k \in DOMAIN ref THEN 1 ELSE 0
               /\ \A d \in found : By!TryGetKeyByData(obj, d) = {k} /\ ByamlReads(it, k)
               /\ UNION {By!TryGetByamlDataByIndex(obj, it, i) : i \in By!TryRemapIndexByKey(obj, it, k)} = found
               /\ By!TryGetKeyIndexByKey(obj, k) = IF k = 4 THEN {} ELSE {k - 1}

-----------------------------------------------------------------------------
(* An archive of at most four files; ref is the node first added for each path. *)
\* The size goes with the path.
SarcNodes == {[path |-> p, size |-> (5 * p) % 9, alignment |-> a] : p \in 1..4, a \in {4, 16}}

SarcInit == subject = "sarc" /\ subject \in FileSubjects /\ obj = <<>> /\ ref = <<>>

SarcAdd(node) ==
    LET list == Ar!AddFile(obj, node)
    IN  Len(list) <= 4 /\ Becomes(list, IF list = obj \/ \E i \in DOMAIN ref : ref[i].path = node.path
                                        THEN ref ELSE Append(ref, node))

SarcNext == subject = "sarc" /\ \E node \in SarcNodes : SarcAdd(node)

Alone(list, node) == Cardinality({i \in DOMAIN list : FileHash[list[i].path] = FileHash[node.path]}) = 1

\* ArchiveFileDevice on the archive a, a byte of which is its place.  It refuses
\* the mode Read (see the README): files are opened with another one, as the reads
\* do not look at the mode.
ArchiveDeviceReads(a) ==
    LET PathAt(i) == CHOOSE p \in 1..4 : Ar!TryGetPathByEntryIndex(a, i - 1) = {p}
        files == [i \in DOMAIN a.entries |->
                    [path |-> PathAt(i), file |-> [k \in 1..a.entries[i].end - a.entries[i].start |-> a.entries[i].start + k]]]
        listed(n) == Dev!ArchiveReadDirectory(files, [entry_index |-> 0], n)
    IN  /\ \A k \in DOMAIN ref : Alone(obj, ref[k]) =>
             LET opened == Dev!ArchiveOpenFile(files, ref[k].path, {"Write"})
                 half == ref[k].size \div 2
             IN  /\ Dev!ArchiveGetFileSize(files, ref[k].path) = {ref[k].size}
                 /\ \A i \in opened.entry : Dev!ArchiveGetFileReference(files, ref[k].path)
                      = {Dev!ArchiveReadFile(files, i, half, 0) \o Dev!ArchiveReadFile(files, i, ref[k].size - half, half)}
                 /\ opened.result = "Success"
        /\ \A n \in 1..4 : /\ IsPrefix(listed(n).entries, listed(4).entries)
                         /\ listed(n).result = "DirectoryExhausted" <=> Len(listed(n).entries) = Len(files)

\* The archive of a machine of the other order.
OtherOrder(a) ==
    LET Swap(header) == [f \in DOMAIN header |-> Ar!SwapEndian(header[f])]
    IN  [a EXCEPT !.sarc = Swap(@), !.sfat = Swap(@), !.sfnt = Swap(@)]

\* The headers of an archive are read in either order; swapped in place, which
\* spoils the header of the names, it is not claimed to open.
ArchiveOpens(list) ==
    LET a == Ar!Serialize(list)
    IN  \A b \in {a, OtherOrder(a)} :
          /\ Ar!SarcInitialize(b) = {[archive |-> b, file_region |-> Ar!FileRegionOffset(list)]}
          /\ Ar!GetFileCount(b) = Len(list)

\* A file whose path has a hash of its own is found in the archive written from
\* the builder, whatever the order of the additions, with its size, where no
\* other file lies, and aligned; a path whose hash no file has is not found
\* (SarcBuilder::AddFile and Serialize, SarcExtractor).
ArchiveReadsBack ==
    subject = "sarc" /\ obj # <<>> =>
      LET a == Ar!Serialize(obj)
          base == Ar!FileRegionOffset(obj)
      IN  /\ \A k \in DOMAIN ref : Alone(obj, ref[k]) =>
               /\ \E e \in ToSet(a.entries) :
                    /\ Ar!TryGetFileByPath(a, ref[k].path) = {[start |-> e.start, size |-> ref[k].size]}
                    /\ (base + e.start) % ref[k].alignment = 0
               /\ Ar!TryGetPathByEntryIndex(a, Ar!TryGetEntryIndexByPath(a, ref[k].path)) = {ref[k].path}
          /\ \A i \in 1..Len(obj) - 1 : a.entries[i].end <= a.entries[i + 1].start
          /\ \A p \in 1..6 : (\A i \in DOMAIN obj : FileHash[obj[i].path] # FileHash[p])
                              => Ar!TryGetFileByPath(a, p) = {}
          /\ ArchiveDeviceReads(a)
          /\ ArchiveOpens(obj)

-----------------------------------------------------------------------------
(* A file with a dictionary, written by the tools of its format with the keys ref,
   at the word 1000, and cast by its users: obj is [format, file, casts]. *)
DictionaryKeys == {<<97>>, <<98>>, <<97, 98>>, <<99>>, <<98, 97, 97>>}

\* The dictionary as the format has it: a node's other side is itself.
ToolNodes(keys) ==
    LET Link(d, i) ==
          LET bit == Ar!FindRefBit(keys[i], d[Ar!SearchNode(d, keys[i], Ar!AllBits).at].key)
          IN  Ar!LinkNode(d, i, bit, 1 - Ar!KeyBit(keys[i], bit))
    IN  FoldLeft(Link, Ar!EmptyNodes(keys), [i \in 1..Len(keys) |-> i])

\* Pointers at 5 and 6, to the entries' pointers at 10 and the nodes at 20; keys
\* at 40, entries at 50.  The last section closes the one before; what is added
\* after it finds the table full.
ToolTable(n) ==
    LET Entry(offset, array, count, stride) ==
          [region_offset |-> offset, array_count |-> array, relocation_count |-> count, array_stride |-> stride]
        first == Ar!AddRelocation(Ar!StartSection(Ar!StreamInitialize(3, 3), 0), Entry(5, 1, 2, 0))
        second == Ar!AddRelocation(Ar!AddRelocation(Ar!StartSection(first, 0), Entry(10, 1, n, 0)), Entry(21, n + 1, 1, 1))
    IN  Ar!StartSection(Ar!AddRelocation(Ar!StartSection(second, 0), Entry(5, 1, 2, 0)), 0)

ToolWords(n) ==
    [o \in {5, 6, 7} \cup {10 + i : i \in 0..n - 1} \cup {20 + i : i \in 0..2 * n + 1} |->
        CASE o = 5 -> 10 [] o = 6 -> 20 [] o = 7 -> 3
          [] o \in 10..19 -> o + 40 [] o >= 20 -> IF o % 2 = 1 THEN 40 + (o - 21) \div 2 ELSE 9]

ToolEntry(i) == [file |-> 60 + i, file_size |-> i, decompressed_size |-> 2 * i,
                 compression |-> IF i = 0 THEN "None" ELSE "Zstandard"]

ToolFile(keys) ==
    LET n == Len(keys)
    IN  [base |-> 1000, is_relocated |-> FALSE, file_count |-> n, word |-> ToolWords(n), table |-> ToolTable(n),
         node |-> [i \in 0..n |-> [ref_bit |-> ToolNodes(keys)[i].ref_bit, child |-> ToolNodes(keys)[i].child]],
         key |-> [o \in 40..40 + n |-> IF o = 40 THEN << >> ELSE keys[o - 40]],
         entry |-> [o \in 50..49 + n |-> ToolEntry(o - 50)]]

CastInit ==
    /\ subject = "dictionary" /\ subject \in FileSubjects
    /\ ref \in UNION {[1..n -> DictionaryKeys] : n \in 0..3}
    /\ Cardinality(ToSet(ref)) = Len(ref)
    /\ \E format \in {"bea", "bntx"} : obj = [format |-> format, file |-> ToolFile(ref), casts |-> 0]

Cast ==
    LET f == IF obj.format = "bea" THEN Ar!BeaResCast(obj.file) ELSE Ar!BntxResCast(obj.file)
    IN  obj.casts < 3 /\ Becomes([obj EXCEPT !.file = f, !.casts = @ + 1], ref)

Uncast == obj.casts \in 1..2 /\ Becomes([obj EXCEPT !.file = Ar!UnrelocateFile(@), !.casts = 3], ref)

CastNext == \/ subject = "dictionary" /\ Cast
            \/ subject = "dictionary" /\ Uncast

\* A ResBea cast once, or a ResBntx cast any number of times, finds by its path
\* and by its index each file that was put in, and no other; words that are no
\* pointers are never touched; and what Build makes of the keys, which it only
\* refuses when one comes twice, never answers with another key than it was asked.
DictionaryReadsBack ==
    subject = "dictionary" =>
      LET f == obj.file
          index(key) == {i \in 0..Len(ref) - 1 : ref[i + 1] = key}
          found(i) == {[ToolEntry(i) EXCEPT !.file = 1000 + @]}
      IN  /\ f.is_relocated /\ (obj.format = "bntx" \/ obj.casts = 1) =>
               /\ \A key \in DictionaryKeys :
                    Ar!BeaTryGetFileByPath(f, key) = UNION {found(i) : i \in index(key)}
               /\ \A i \in 0..3 :
                    /\ Ar!BeaTryGetFileByIndex(f, i) = IF i < Len(ref) THEN found(i) ELSE {}
                    /\ {e.file_path : e \in Ar!BeaTryReadDirectoryEntryByIndex(f, i)}
                         = IF i < Len(ref) THEN {ref[i + 1]} ELSE {}
          /\ \A o \in DOMAIN f.word : o = 7 \/ (o >= 20 /\ o % 2 = 0) => f.word[o] = ToolWords(Len(ref))[o]
          /\ \A keys \in {ref, ref \o ref} :
               LET b == Ar!Build(keys)
               IN  /\ keys = ref => b.done
                   /\ \A key \in DictionaryKeys :
                        LET i == Ar!TryGetEntryIndexByKey(b.nodes, key)
                        IN  i # Ar!cInvalid => keys[i + 1] = key

-----------------------------------------------------------------------------
(* A table of sizes; ref is the size by hash. *)
TableInit == subject = "table" /\ subject \in FileSubjects /\ obj = Ar!EmptyTable /\ ref = [h \in {} |-> 0]

TableSizes == {4, 9}

TableAdd(p, named, size) ==
    LET h == FileHash[p]
    IN  Becomes(Ar!AddEntry(obj, [hash |-> h, size |-> size, path |-> IF named THEN p ELSE 0]),
                IF h \in DOMAIN ref THEN ref ELSE ref @@ (h :> size))

TableRemove(p) ==
    Becomes(Ar!RemoveEntry(obj, p), [h \in DOMAIN ref \ {FileHash[p]} |-> ref[h]])

TableUpdate(p, size) ==
    Becomes(Ar!UpdateSize(obj, p, size), [h \in DOMAIN ref |-> IF h = FileHash[p] THEN size ELSE ref[h]])

TableNext ==
    \/ subject = "table" /\ \E p \in 1..6, named \in BOOLEAN, size \in TableSizes : TableAdd(p, named, size)
    \/ subject = "table" /\ \E p \in 1..6 : TableRemove(p)
    \/ subject = "table" /\ \E p \in 1..6, size \in TableSizes : TableUpdate(p, size)

TableFile(header) ==
    LET t == Ar!SerializeTable(obj)
    IN  [header |-> header, crc |-> t.crc, max_path |-> 32,
         collision |-> IF header = "none" THEN <<>> ELSE t.collision]

\* The table gives for a path the size of the entry that took its hash first, as
\* last updated, and none once it was removed, from all three forms of the file,
\* if the extractor was finalized between two (ResourceSizeTableBuilder,
\* ResourceSizeTableExtractor).
TableReadsBack ==
    subject = "table" =>
      \A header \in {"new", "old", "none"} :
        LET before == Ar!ExtractorInitialize(Ar!NoExtractor, TableFile("new"), Ar!cInvalid)
            x == Ar!ExtractorInitialize(Ar!ExtractorFinalize(before), TableFile(header), Ar!cInvalid)
        IN  /\ \A p \in 1..6 :
                 Ar!TryGetResourceSize(x, p)
                   = IF FileHash[p] \in DOMAIN ref THEN ref[FileHash[p]] ELSE Ar!cInvalid
            /\ x.max_path = IF header = "new" THEN before.max_path ELSE Ar!cDefaultMaxLength
-----------------------------------------------------------------------------
(* A string of at most five characters, as it is assigned, appended to and cut;
   ref is what it should be and the longest it has been. *)
StringSize == 6
Words == {<<>>, <<"a">>, <<"b", "c">>, <<"a", "b", "c">>}

StringInit ==
    subject = "string" /\ subject \in FileSubjects /\ obj = C!StringCreate(StringSize) /\ ref = [string |-> <<>>, longest |-> 0]

StringBecomes(s, string) ==
    Becomes(s, [string |-> string,
                longest |-> IF Len(string) > ref.longest THEN Len(string) ELSE ref.longest])

StringAssign(w) == subject = "string" /\ StringBecomes(C!StringAssign(obj, w), w)
StringFormat(w) == subject = "string" /\ StringBecomes(C!StringFormat(obj, w), w)
StringClear == subject = "string" /\ StringBecomes(C!StringClear(obj), <<>>)

\* AppendFormat is called with what fits; Append takes what fits.
StringAppendFormat(w) ==
    /\ subject = "string" /\ Len(ref.string \o w) < StringSize
    /\ StringBecomes(C!StringAppendFormat(obj, w), ref.string \o w)

StringAppend(w) ==
    subject = "string" /\ StringBecomes(C!StringAppend(obj, w),
        SubSeq(ref.string \o w, 1, IF Len(ref.string \o w) < StringSize THEN Len(ref.string \o w) ELSE StringSize - 1))

StringTruncateStart(n) ==
    subject = "string" /\ StringBecomes(C!StringTruncateStart(obj, n), SubSeq(ref.string, n + 1, Len(ref.string)))

StringTruncateEnd(n) ==
    subject = "string" /\ StringBecomes(C!StringTruncateEnd(obj, n), SubSeq(ref.string, 1, Len(ref.string) - n))

StringNext ==
    \/ \E w \in Words : StringAssign(w) \/ StringFormat(w) \/ StringAppendFormat(w) \/ StringAppend(w)
    \/ StringClear
    \/ \E n \in 1..3 : StringTruncateStart(n) \/ StringTruncateEnd(n)

\* The first m_length characters are those of the string, and a C function sees
\* it with nothing behind, unless it was longer before: then what lies behind it
\* may be left of that (FixedString).
StringIsKept ==
    subject = "string" =>
      LET seen == C!StringGetString(obj)
          fresh == C!StringAssign(C!StringCreate(StringSize), ref.string)
      IN  /\ obj.length = Len(ref.string) /\ C!StringEqual(obj, fresh)
          /\ IsPrefix(ref.string, seen)
          /\ Len(ref.string) = ref.longest => seen = ref.string

\* The path of the parts in ref: a drive or none, folders, a name, an extension.
Delimiters == {"/", "\\"}

Joined(p) ==
    (IF p.drive = <<>> THEN <<>> ELSE p.drive \o <<":", p.delimiter>>)
      \o FlattenSeq([i \in DOMAIN p.folders |-> p.folders[i] \o <<p.delimiter>>]) \o p.name \o <<".">> \o p.extension

PathInit ==
    /\ subject = "path" /\ subject \in FileSubjects
    /\ \E drive \in {<<>>, <<"a">>, <<"a", "b">>}, folders \in {<<<<"b">>>>, <<<<"a", ".">>, <<"b", "a">>>>},
          name \in {<<"a">>, <<"b", ".", "a">>}, extension \in {<<"a">>, <<"b", "a">>}, d \in Delimiters :
            ref = [drive |-> drive, folders |-> folders, name |-> name, extension |-> extension, delimiter |-> d]
    /\ obj = C!StringFormat(C!StringCreate(20), Joined(ref))

PathNext ==
    subject = "path" /\ \E d \in Delimiters :
      Becomes(C!ChangeDirectoryDelimiter(obj, d), [ref EXCEPT !.delimiter = d])

\* The parts of a path with a folder and an extension are those it was made of,
\* before and after its delimiters are changed (util_pathutil.hpp).
PartsAreKept ==
    subject = "path" =>
      LET path == SubSeq(obj.chars, 1, obj.length)
          out == C!StringCreate(20)
          Part(s) == SubSeq(s.chars, 1, s.length)
          file == ref.name \o <<".">> \o ref.extension
          no_drive == Joined([ref EXCEPT !.drive = <<>>])
      IN  /\ path = Joined(ref)
          /\ Part(C!GetDrive(out, path)) = ref.drive
          /\ Part(C!GetPathWithoutDrive(out, path)) = no_drive
          /\ Part(C!GetDirectory(out, path)) \o Part(C!GetFileNameWithExtension(out, path)) = path
          /\ Part(C!GetFileNameWithExtension(out, path)) = file
          /\ Part(C!GetFileNameWithoutExtension(out, path)) = ref.name
          /\ Part(C!GetPathWithoutExtension(out, path)) \o Part(C!GetExtension(out, path)) = path
          /\ Part(C!GetExtension(out, path)) = <<".">> \o ref.extension
-----------------------------------------------------------------------------
(* A device of four files, one of them under its name twice, which somebody
   loads, saves, copies, and opens to read and write.  obj is [world, handle, load],
   the last load of a whole file; ref are the paths that a whole-file operation
   opened.  A u32 is smaller than 4 here. *)
DeviceFiles == (<<"content", "x">> :> <<1, 2, 3, 4, 5>>) @@ (<<"content", "y">> :> <<6, 7>>) @@
               (<<"content", "z">> :> <<>>) @@ (<<"content", "content", "y">> :> <<8, 9, 10, 11>>)
DevicePaths == {<<"x">>, <<"y">>, <<"z">>}

NoLoad == [path |-> <<>>, given |-> Dev!Null, file |-> <<>>, context |-> [buffer |-> Dev!Null], result |-> "Success"]

DeviceInit ==
    /\ subject = "device" /\ subject \in FileSubjects
    /\ obj = [world |-> [disk |-> DeviceFiles, open |-> {}, directories |-> {<<"content">>, <<"content", "content">>}],
              handle |-> Dev!NoHandle, load |-> NoLoad]
    /\ ref = {}

DeviceOpened(path) == ref \cup ({Dev!FormatPath(path)} \cap DOMAIN obj.world.disk)

DeviceLoad(path, size, read_div, no_memory, bad) ==
    LET c == [buffer |-> IF size = 0 THEN Dev!Null ELSE <<>>, file_size |-> size, read_div |-> read_div,
              out_is_file_memory_allocated |-> FALSE]
        l == Dev!LoadFile(obj.world, path, c, no_memory, bad)
    IN  /\ obj.load = NoLoad
        /\ Becomes([obj EXCEPT !.world = l.world,
                        !.load = [path |-> path, given |-> c.buffer, context |-> l.context, result |-> l.result,
                                  file |-> IF Dev!FormatPath(path) \in DOMAIN obj.world.disk
                                           THEN obj.world.disk[Dev!FormatPath(path)] ELSE <<>>]],
                   DeviceOpened(path))

DeviceSave(path) ==
    obj.load = NoLoad /\ Becomes([obj EXCEPT !.world = Dev!SaveFile(@, path, <<12>>).world], DeviceOpened(path))

DeviceCopy(to, from) ==
    /\ to # from /\ obj.load = NoLoad
    /\ Becomes([obj EXCEPT !.world = Dev!CopyFile(@, to, from, 3).world],
               DeviceOpened(to) \cup DeviceOpened(from))

DeviceOpen(path, mode) ==
    LET opened == Dev!OpenFile(obj.world, path, mode)
    IN  /\ obj.handle = Dev!NoHandle /\ obj.load = NoLoad /\ opened.result = "Success"
        /\ Becomes([obj EXCEPT !.world = opened.world, !.handle = opened.handle], ref)

DeviceWrite(offset) ==
    LET written == Dev!WriteFile(obj.world, obj.handle, <<12>>, offset)
    IN  /\ obj.handle # Dev!NoHandle /\ obj.load = NoLoad /\ obj.world.disk = DeviceFiles
        /\ Becomes([obj EXCEPT !.world = written.world], ref)

DeviceClose ==
    /\ obj.handle # Dev!NoHandle /\ obj.load = NoLoad
    /\ Becomes([obj EXCEPT !.world = Dev!CloseFile(@, obj.handle).world, !.handle = Dev!NoHandle], ref)

DeviceGetFileSize(path) == obj.load = NoLoad /\ Becomes([obj EXCEPT !.world = Dev!GetFileSizeOfPath(@, path).world], ref)

DeviceCreateDirectory(path) == obj.load = NoLoad /\ Becomes([obj EXCEPT !.world = Dev!CreateDirectory(@, path).world], ref)

DeviceForgetLoad == obj.load # NoLoad /\ Becomes([obj EXCEPT !.load = NoLoad], ref)

DeviceNext ==
    /\ subject = "device"
    /\ \/ \E path \in DevicePaths :
            \/ \E size \in {0, 2, 5}, read_div \in {0, 1, 2}, no_memory \in BOOLEAN, bad \in {2, 9} :
                    DeviceLoad(path, size, read_div, no_memory, bad)
            \/ DeviceSave(path) \/ \E from \in DevicePaths : DeviceCopy(path, from)
            \/ \E mode \in {{"Read"}, {"Read", "Write"}} : DeviceOpen(path, mode)
            \/ DeviceGetFileSize(path)
       \/ DeviceCreateDirectory(<<"w">>)
       \/ \E offset \in {0, 3} : DeviceWrite(offset)
       \/ DeviceClose \/ DeviceForgetLoad

\* A file that is loaded is whole, whatever blocks it is read in, or the memory
\* that was taken for it is given back; what a file holds nobody changes, as only
\* what lies behind its end can be written; and nothing stays open but what whole
\* files were loaded from or saved to (FileDeviceBase, SystemFileDevice).
DeviceFilesAreWhole ==
    subject = "device" =>
      /\ obj.load.result = "Success" /\ obj.load # NoLoad => obj.load.context.buffer = obj.load.file
      /\ obj.load.result \notin {"Success", "never returns"} /\ obj.load.given = Dev!Null =>
            obj.load.context.buffer = Dev!Null
      /\ obj.load.result = "never returns" => Len(obj.load.file) % 4 = 0
      /\ \A p \in DOMAIN DeviceFiles : IsPrefix(DeviceFiles[p], obj.world.disk[p])
      /\ obj.world.open \subseteq ref \cup {obj.handle.handle}
      /\ Dev!CheckFileExists(obj.world, <<"x">>) = "Success"
      /\ obj.handle # Dev!NoHandle /\ obj.handle.open_mode = {"Read"} /\ obj.handle.file_size > 0 =>
            Dev!ReadFile(obj.world, obj.handle, 3, obj.handle.file_size - 1).bytes
              = <<obj.world.disk[obj.handle.handle][obj.handle.file_size]>>
-----------------------------------------------------------------------------
(* Loads of resources: obj is [m, w, held], the resources that were returned. *)
LoadPaths == {[drive |-> d, names |-> <<n>>, extension |-> e] :
                d \in {"content", "other"}, n \in {"x", "z"}, e \in {"szs", "bin"}}

LoadInit ==
    /\ subject = "loading" /\ subject \in FileSubjects
    /\ obj = [m |-> Dev!NoRegistry, w |-> [disk |-> DeviceFiles, open |-> {}, directories |-> {}], held |-> {}]
    /\ ref = {}

Made(l, w) == Becomes([m |-> l.manager, w |-> w, held |-> obj.held \cup l.resource], ref)

\* The world after a load, whose handle somebody closes in the end.
LoadOf(path, c, no_memory) ==
    LET l == Dev!LoadFileByDrive(obj.m, obj.w, path, c, no_memory, 9)
    IN  [l EXCEPT !.world = obj.w]

LoadStep(path, factory, no_memory, no_resource) ==
    LET c == [buffer |-> Dev!Null, file_size |-> 0, read_div |-> 0, out_is_file_memory_allocated |-> FALSE]
        l == LoadOf(path, c, no_memory)
    IN  /\ obj.held = {} /\ l.result # "crash"
        /\ \/ Made(Dev!LoadResource(obj.m, path, factory, no_resource, l), l.world)
           \/ Made(Dev!LoadResourceWithDecompressor(obj.m, path, factory, no_resource, TRUE, l), l.world)

LoadNext ==
    /\ subject = "loading"
    /\ \/ ~obj.m.initialized /\ Becomes([obj EXCEPT !.m = Dev!RegistryInitialize(@)], ref)
       \/ obj.m.initialized /\ Becomes([obj EXCEPT !.m = Dev!AddFileDevice(@, "other")], ref)
       \/ \E e \in {"szs", "bin"} : \/ Becomes([obj EXCEPT !.m = Dev!RegisterResourceFactory(@, e)], ref \cup {e})
                                   \/ Becomes([obj EXCEPT !.m = Dev!RemoveResourceFactory(@, e)], ref \ {e})
       \/ \E path \in LoadPaths, factory \in {"null", "szs"}, no_memory, no_resource \in BOOLEAN :
              LoadStep(path, factory, no_memory, no_resource)
       \/ obj.held # {} /\ Becomes([obj EXCEPT !.held = {}, !.m.resources = @ - 1], ref)

\* A resource exists if and only if a load that went well returned it: one that
\* fails, at whatever step, leaves none behind; and it has the whole file
\* (ResourceFactoryBase::LoadResource and LoadResourceWithDecompressor).
ResourcesAreReturned ==
    subject = "loading" =>
      /\ obj.m.resources = Cardinality(obj.held)
      /\ \A r \in obj.held : r.file = DeviceFiles[<<"content", "x">>] /\ r.file_size = Len(r.file)

-----------------------------------------------------------------------------
(* The registries of size tables and of extensions: obj is [tables, extensions]. *)
SizeTable(k) ==
    [header |-> "new", collision |-> <<>>, max_path |-> 32,
     crc |-> SetToSortSeq({[hash |-> FileHash[p], size |-> 10 * k + p, path |-> p] : p \in {4, k}},
                          LAMBDA d, e : d.hash < e.hash)]

ExtensionInfo(e) == [extension |-> e, compression_type |-> IF e % 2 = 0 THEN "None" ELSE "Zstandard"]

RegistryInit ==
    /\ subject = "registry" /\ subject \in FileSubjects
    /\ \E set \in SUBSET (1..5) : \E order \in [1..Cardinality(set) -> set] :
         /\ ToSet(order) = set
         /\ obj = [tables |-> <<[file |-> 1, table |-> SizeTable(1)]>>,
                   extensions |-> Dev!ExtensionManagerInitialize([i \in DOMAIN order |-> ExtensionInfo(order[i])])]
         /\ ref = [extensions |-> set, files |-> {}]

RegistryNext ==
    /\ subject = "registry" /\ ref.extensions = {}
    /\ \/ \E k \in {2, 3, 5} \ ref.files :
              Becomes([obj EXCEPT !.tables = Ar!RegisterResourceSizeTable(@, k, SizeTable(k))], [ref EXCEPT !.files = @ \cup {k}])
       \/ \E k \in ref.files :
              LET tables == Ar!UnregisterResourceSizeTable(obj.tables, k)
              IN  Becomes([obj EXCEPT !.tables = tables],
                          [ref EXCEPT !.files = {tables[i].file : i \in 2..Len(tables)}])
       \/ Becomes([obj EXCEPT !.tables = Ar!ClearTables(@)], [ref EXCEPT !.files = {}])

\* An extension that is found is the right one, and the first in the order always
\* is; a path's size is that of the main table, or of one that is registered, and
\* none if no table has it (ExtensionManager, ResourceSizeTableManager).
RegistriesAnswer ==
    subject = "registry" =>
      /\ \A e \in 0..6 : \A i \in Dev!GetExtensionIndex(obj.extensions, e) :
           /\ obj.extensions[i + 1].extension = e
           /\ Dev!GetCompressionExtension(obj.extensions, e) = {ExtensionInfo(e).compression_type}
           /\ Dev!GetResourceUnitManager(obj.extensions, e) = {i + 1}
      /\ \A e \in ref.extensions : (\A d \in ref.extensions : e <= d) => Dev!GetExtensionIndex(obj.extensions, e) = {0}
      /\ \A p \in 1..6 :
           LET size == Ar!TablesGetResourceSize(obj.tables, p)
               having == {k \in ref.files \cup {1} : \E q \in {4, k} : FileHash[p] = FileHash[q]}
           IN  IF having = {} THEN size = Ar!cInvalid ELSE size \div 10 \in IF 1 \in having THEN {1} ELSE having

-----------------------------------------------------------------------------
(* The default archive and three threads that load from it; ref has those that
   acquired it when a release had decided to finalize it, and who is inside. *)
Loaders == {1, 2, 3}
MaxReferences == 6    \* bound: refused loads leave theirs behind

DefaultInit == subject = "default" /\ subject \in FileSubjects /\ obj = Ar!NoDefaultArchive(Loaders) /\ ref = {}

Finalizing == \E t \in Loaders : obj.at[t] = "finalize"

DefaultNext ==
    /\ subject = "default"
    /\ \/ Becomes(Ar!SetDefaultArchive(obj), ref) /\ obj.reference_count < MaxReferences
       \/ \E t \in Loaders :
            \/ obj.at[t] = "idle" /\ Becomes(Ar!BeginAcquire(obj, t), ref)
            \/ /\ obj.at[t] = "acquire" /\ obj.reference_count < MaxReferences
               /\ Becomes(Ar!EndAcquire(obj, t), IF Finalizing THEN ref \cup {t} ELSE ref)
            \/ obj.at[t] = "use" /\ Becomes(Ar!ReleaseDefaultArchive(obj, t), ref \ {t})
            \/ obj.at[t] = "finalize" /\ Becomes(Ar!FinalizeDefaultArchive(obj, t), ref)

\* The archive stays loaded for a thread that acquired it, unless another one was
\* about to finalize it then, and each such thread has its reference
\* (AsyncResourceManager::AcquireDefaultArchive, ReleaseDefaultArchive).
DefaultArchiveIsUsable ==
    subject = "default" =>
      /\ \A t \in Loaders \ ref : obj.at[t] = "use" => obj.is_loaded
      /\ Cardinality({t \in Loaders : obj.at[t] = "use"}) <= obj.reference_count

-----------------------------------------------------------------------------
Init == \/ ExpInit \/ FrameInit \/ SepInit \/ VirtInit \/ TreeInit
        \/ RbInit \/ RingInit \/ AtomicRingInit \/ ListInit \/ ArraysInit \/ ChainInit \/ AtomicInit \/ MapInit \/ PqInit
        \/ ByamlInit \/ SarcInit \/ CastInit \/ TableInit \/ StringInit \/ PathInit \/ DeviceInit
        \/ LoadInit \/ RegistryInit \/ DefaultInit

Next == \/ ExpNext \/ FrameNext \/ SepNext \/ VirtNext \/ TreeNext
        \/ RbNext \/ RingNext \/ AtomicRingNext \/ ListNext \/ ArraysNext \/ ChainNext \/ AtomicNext \/ MapNext \/ PqNext
        \/ ByamlNext \/ SarcNext \/ CastNext \/ TableNext \/ StringNext \/ PathNext \/ DeviceNext
        \/ LoadNext \/ RegistryNext \/ DefaultNext

Spec == Init /\ [][Next]_vars

-----------------------------------------------------------------------------
\* The blocks of an ExpHeap lie side by side and are the whole heap, and what a
\* heap inside another one's memory hands out ends inside its allocation there,
\* but for what the comments of the parts name (ExpHeap, FrameHeap, SeparateHeap).
HeapsTileTheirMemory == BlocksTileHeap /\ MemoryComesFromParent /\ FrameInsideItsMemory /\ SeparateBlocksAreApart

\* No address is handed out twice by a VirtualAddressHeap, and the heap found
\* for an address or a name is the one that holds it, and destroys every object
\* it holds once (HeapManager, Heap).
AddressesAreOwned == PagesAreApart /\ FoundHeapOwnsAddress /\ ObjectsHaveOneHeap /\ NamedHeapIsFound

\* The colours, the black heights and the order of a red-black tree, and the
\* enumeration of its members, survive every insertion and removal.
TreeIsSound == TreeIsBalanced /\ TreeEnumeratesMembers

\* The rings, lists, free chains, the hash map and the priority queue hold what
\* was put in, once and in its order, and nothing else; no index is handed out
\* twice by the allocator that threads share.
ContainersKeepMembers ==
    /\ RingIsQueue /\ ListsAreSequences /\ ChainHoldsTheRest /\ MapFindsFirst /\ HeapOrder
    /\ AtomicIndicesAreUnique /\ AtomicRingKeepsValues /\ ArraysHoldTheirFrames

\* What a string, a path, a byaml file of either byte order, an archive, a
\* dictionary or a table of sizes was made of is what its reader finds there; of
\* archives and tables only paths whose hash no other one has.
FilesReadBack ==
    ByamlReadsBack /\ ArchiveReadsBack /\ DictionaryReadsBack /\ TableReadsBack /\ StringIsKept /\ PartsAreKept

=============================================================================
