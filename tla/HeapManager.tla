----------------------------- MODULE HeapManager -----------------------------
(***************************************************************************)
(* The tree of heaps and the search for the heap that an address is from,  *)
(* with the heap of its last answer that every thread remembers.  tree is  *)
(* a record                                                                *)
(*                                                                         *)
(*   [heap: heap -> [start, end, parent, children, disposers, used],       *)
(*    roots, gpu_roots: Seq(heap), initialized: BOOLEAN, malloc,           *)
(*    thread: thread -> [current, lookup]]                                 *)
(*                                                                         *)
(* children and disposers are the intrusive lists of a heap: of the heaps  *)
(* in it, and of the objects (their addresses) that it will destroy.  used *)
(* has the addresses allocated from it; malloc those from the system.      *)
(***************************************************************************)
EXTENDS Integers, Sequences, SequencesExt, FiniteSetsExt

CONSTANT NoHeap

cMaxRootHeaps == 3

NewHeap(start, end, parent) ==
  [start |-> start, end |-> end, parent |-> parent, children |-> << >>, disposers |-> << >>,
   used |-> {}]

(***************************************************************************)
(* InitializeHeapManager and FinalizeHeapManager.  A count of 4 or 5 is    *)
(* accepted too, and writes past the array of the root heaps.  After the   *)
(* end the manager still counts as initialized.                            *)
(***************************************************************************)
MayInitialize(tree, heaps) == ~tree.initialized /\ Len(heaps) \in 1..5

InitializeHeapManager(tree, heaps, range) ==
  IF ~MayInitialize(tree, heaps) THEN tree
  ELSE [tree EXCEPT
          !.initialized = TRUE,
          !.roots = [i \in 1..cMaxRootHeaps |-> IF i <= Len(heaps) THEN heaps[i] ELSE NoHeap],
          !.heap = [h \in DOMAIN @ \cup ToSet(heaps) |->
                      IF h \in DOMAIN @ THEN @[h] ELSE NewHeap(range[h].start, range[h].end, NoHeap)]]

FinalizeHeapManager(tree) ==
  [tree EXCEPT !.roots = [i \in 1..cMaxRootHeaps |-> NoHeap],
               !.heap = [h \in DOMAIN @ \ ToSet(tree.roots) |-> @[h]]]

IsAddressInHeap(tree, h, a) == tree.heap[h].start <= a /\ a < tree.heap[h].end

(* What HasChildren answers: it is true of a heap without children. *)
HasChildren(tree, h) == tree.heap[h].children = << >>

(***************************************************************************)
(* IHeap::FindHeapFromAddress: from h down, at every level into the first  *)
(* child that contains the address.                                        *)
(***************************************************************************)
FindIn(tree, h, a) ==
  LET inside(x) == SelectSeq(tree.heap[x].children, LAMBDA c : IsAddressInHeap(tree, c, a))
      Down[n \in 0..Cardinality(DOMAIN tree.heap), x \in DOMAIN tree.heap] ==
        IF n = 0 \/ inside(x) = << >> THEN x ELSE Down[n - 1, inside(x)[1]]
  IN  IF IsAddressInHeap(tree, h, a) THEN Down[Cardinality(DOMAIN tree.heap), h]
      ELSE NoHeap

(***************************************************************************)
(* The answer of FindHeapFromAddress to thread t: the remembered heap or   *)
(* the thread's heap at once if HasChildren denies, then what is below     *)
(* them, then what is below the roots.                                     *)
(***************************************************************************)
FindHeapFromAddress(tree, t, a) ==
  LET own == << tree.thread[t].lookup, tree.thread[t].current >>
      known == SelectSeq(own, LAMBDA h : h # NoHeap)
      direct == SelectSeq(known, LAMBDA h : ~HasChildren(tree, h) /\ IsAddressInHeap(tree, h, a))
      below  == SelectSeq(known, LAMBDA h : HasChildren(tree, h) /\ FindIn(tree, h, a) # NoHeap)
      roots  == SelectSeq(tree.roots \o tree.gpu_roots,
                          LAMBDA h : h # NoHeap /\ FindIn(tree, h, a) # NoHeap)
  IN  IF direct # << >> THEN direct[1]
      ELSE IF below # << >> THEN FindIn(tree, below[1], a)
      ELSE IF roots # << >> THEN FindIn(tree, roots[1], a)
      ELSE NoHeap

(* The answer is remembered. *)
Lookup(tree, t, a) ==
  LET h == FindHeapFromAddress(tree, t, a)
  IN  IF h = NoHeap THEN tree ELSE [tree EXCEPT !.thread[t].lookup = h]

(* Heap::PushBackChild, when a heap is made in its parent. *)
PushBackChild(tree, parent, h, start, end) ==
  [tree EXCEPT
     !.heap = [x \in DOMAIN @ \cup {h} |->
                 IF x = h THEN NewHeap(start, end, parent)
                 ELSE IF x = parent THEN [@[x] EXCEPT !.children = Append(@, h)]
                 ELSE @[x]]]

(***************************************************************************)
(* Heap::Destruct: the objects of the heap are destroyed and it leaves its *)
(* parent.  A thread that remembers it goes on doing so.                   *)
(***************************************************************************)
Destruct(tree, h) ==
  [tree EXCEPT
     !.heap = [x \in DOMAIN @ \ {h} |->
                 IF x = @[h].parent
                 THEN [@[x] EXCEPT !.children = SelectSeq(@, LAMBDA c : c # h)]
                 ELSE @[x]]]

(***************************************************************************)
(* An object at the address a, made by thread t in heap h or wherever it   *)
(* is found to lie, joins the list of that heap; its end takes it off.     *)
(***************************************************************************)
NewDisposer(tree, t, a, h) ==
  LET found == IF h = NoHeap THEN FindHeapFromAddress(tree, t, a) ELSE h
      after == IF h = NoHeap THEN Lookup(tree, t, a) ELSE tree
  IN  IF found = NoHeap THEN after ELSE [after EXCEPT !.heap[found].disposers = Append(@, a)]

RemoveDisposer(tree, a) ==
  [tree EXCEPT !.heap = [x \in DOMAIN @ |->
      [@[x] EXCEPT !.disposers = SelectSeq(@, LAMBDA b : b # a)]]]

(***************************************************************************)
(* FindHeapByName: the heaps below a root, each before those below it,     *)
(* then the root; name gives the names.  The first missing root ends the   *)
(* search, before the heaps of the gpu.                                    *)
(***************************************************************************)
Below(tree, h) ==
  LET Walk[n \in 0..Cardinality(DOMAIN tree.heap), x \in DOMAIN tree.heap] ==
        IF n = 0 THEN << >>
        ELSE FoldLeft(LAMBDA found, c : found \o << c >> \o Walk[n - 1, c],
                      << >>, tree.heap[x].children)
  IN  Walk[Cardinality(DOMAIN tree.heap), h]

FirstNamed(tree, roots, name, wanted) ==
  LET order == FoldLeft(LAMBDA s, r : s \o Below(tree, r) \o << r >>, << >>, roots)
      named == SelectSeq(order, LAMBDA h : name[h] = wanted)
  IN  IF named = << >> THEN NoHeap ELSE named[1]

RootsBeforeMissing(tree) ==
  LET missing == {i \in DOMAIN tree.roots : tree.roots[i] = NoHeap}
  IN  IF missing = {} THEN tree.roots \o SelectSeq(tree.gpu_roots, LAMBDA h : h # NoHeap)
      ELSE SubSeq(tree.roots, 1, Min(missing) - 1)

FindHeapByName(tree, name, wanted) == FirstNamed(tree, RootsBeforeMissing(tree), name, wanted)

(* Only the heaps of the processor are looked at, up to the first missing. *)
IsAddressFromAnyHeap(tree, a) ==
  \E i \in DOMAIN tree.roots :
    /\ \A j \in 1..i : tree.roots[j] # NoHeap
    /\ IsAddressInHeap(tree, tree.roots[i], a)

GetCurrentThreadHeap(tree, t) ==
  IF t \in DOMAIN tree.thread THEN tree.thread[t].current ELSE tree.roots[1]

(***************************************************************************)
(* operator new, of the heap h or the thread's own one, which gives out    *)
(* one of its addresses that is free: a.  operator delete gives it back to *)
(* the heap that is found; a heap that did not give it out is damaged.     *)
(***************************************************************************)
IsFree(tree, h, a) ==
  /\ IsAddressInHeap(tree, h, a) /\ a \notin tree.heap[h].used
  /\ \A i \in DOMAIN tree.heap[h].children : ~IsAddressInHeap(tree, tree.heap[h].children[i], a)

NewFrom(tree, t, h) == IF h = NoHeap THEN GetCurrentThreadHeap(tree, t) ELSE h

OperatorNew(tree, t, a, h) ==
  IF ~tree.initialized THEN [tree EXCEPT !.malloc = @ \cup {a}]
  ELSE [tree EXCEPT !.heap[NewFrom(tree, t, h)].used = @ \cup {a}]

DeleteFrom(tree, t, a) ==
  IF ~tree.initialized THEN [tree EXCEPT !.malloc = @ \ {a}]
  ELSE [Lookup(tree, t, a) EXCEPT !.heap[FindHeapFromAddress(tree, t, a)].used = @ \ {a}]

(* All the forms of operator delete ignore what else they are told. *)
OperatorDelete(tree, t, a) == DeleteFrom(tree, t, a)

SetCurrentThreadHeap(tree, t, h) == [tree EXCEPT !.thread[t].current = h]
=============================================================================
