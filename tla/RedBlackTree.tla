---------------------------- MODULE RedBlackTree ----------------------------
(* vp::util::IntrusiveRedBlackTree.  The nodes are positive numbers, their own
   keys; 0 is the null pointer, side 0 left and side 1 right.  A tree is a
   record of the root and, for every node, its child on each side, its parent
   and its colour, which stay what they were when a node leaves the tree unless
   the code clears them.  A trace is the sides of the path from a node up to the
   root, the nearest first: the bits of TreeNodeTrace. *)
EXTENDS Integers, Sequences

Empty(nodes) == [root |-> 0, child |-> [s \in {0, 1} |-> [n \in nodes |-> 0]],
                 parent |-> [n \in nodes |-> 0], black |-> [n \in nodes |-> FALSE]]

IsRed(t, n) == n # 0 /\ ~t.black[n]

Paint(t, n, black) == [t EXCEPT !.black[n] = black]

SideOf(t, p, n) == IF t.child[0][p] # n THEN 1 ELSE 0

SetParent(t, n, p) == IF n = 0 THEN t ELSE [t EXCEPT !.parent[n] = p]

\* Transplant, and the two pointers at the end of a rotation.
Replace(t, n, by) ==
    LET p == t.parent[n]
    IN  IF p = 0 THEN [t EXCEPT !.root = by] ELSE [t EXCEPT !.child[SideOf(t, p, n)][p] = by]

\* RotateLeft (s = 0) and RotateRight (s = 1): n goes down to side s of its child
\* on the other side, which Above names.
Above(t, n, s) == t.child[1 - s][n]
Rotate(t, n, s) ==
    LET up    == Above(t, n, s)
        inner == t.child[s][up]
    IN  SetParent([Replace(t, n, up) EXCEPT !.child[1 - s][n] = inner, !.child[s][up] = n,
                                            !.parent[n] = up, !.parent[up] = t.parent[n]], inner, n)

-----------------------------------------------------------------------------
RECURSIVE Trace(_, _)
Trace(t, n) == IF t.parent[n] = 0 THEN << >>
               ELSE <<SideOf(t, t.parent[n], n)>> \o Trace(t, t.parent[n])

\* InsertFixup from the red node p, whose child on the first side of the trace
\* is red as well.
RECURSIVE InsertFixup(_, _, _)
InsertFixup(t, p, trace) ==
    IF Len(trace) < 2 \/ ~IsRed(t, p) THEN t
    ELSE LET pp    == t.parent[p]
             side  == trace[1]
             uncle == t.child[1 - trace[2]][pp]
             Done(u, top) == Paint(Paint(u, top, TRUE), pp, FALSE)
         IN  IF IsRed(t, uncle)
             THEN InsertFixup(Paint(Paint(Paint(t, p, TRUE), uncle, TRUE), pp, FALSE),
                              t.parent[pp], SubSeq(trace, 3, Len(trace)))
             ELSE IF side = trace[2] THEN Done(Rotate(t, pp, 1 - side), p)
             ELSE Done(Rotate(Rotate(t, p, 1 - side), pp, side), Above(t, p, 1 - side))

RECURSIVE Descend(_, _, _)
Descend(t, n, key) ==
    LET next == IF n = key THEN 0 ELSE t.child[IF n < key THEN 1 ELSE 0][n]
    IN  IF next = 0 THEN n ELSE Descend(t, next, key)

Find(t, key) == t.root # 0 /\ Descend(t, t.root, key) = key

PaintRoot(t) == IF t.root = 0 THEN t ELSE [t EXCEPT !.black[t.root] = TRUE, !.parent[t.root] = 0]

\* A key that is there already goes to the Collision function and changes nothing.
Insert(t, n) ==
    LET at   == Descend(t, t.root, n)
        hung == [t EXCEPT !.child[0][n] = 0, !.child[1][n] = 0, !.black[n] = FALSE, !.parent[n] = at,
                          !.child[IF at < n THEN 1 ELSE 0][at] = n]
    IN  IF t.root = 0 THEN PaintRoot([t EXCEPT !.root = n])
        ELSE IF at = n THEN PaintRoot(t)
        ELSE PaintRoot(InsertFixup(hung, at, Trace(hung, n)))

-----------------------------------------------------------------------------
RECURSIVE First(_, _)
First(t, n) == IF t.child[0][n] = 0 THEN n ELSE First(t, t.child[0][n])

\* RemoveSwap: n, or the node after it when n has both children, leaves its
\* place.  from is where the fixup starts, lost the colour that went away.
RemoveSwap(t, n) ==
    LET p      == t.parent[n]
        lonely == t.child[0][n] = 0 \/ t.child[1][n] = 0
        moved  == IF t.child[1][n] = 0 THEN t.child[0][n] ELSE t.child[1][n]
        next   == First(t, t.child[1][n])
        np     == t.parent[next]
        inner  == t.child[1][next]
        lifted == IF inner # 0 THEN SetParent([t EXCEPT !.child[SideOf(t, np, next)][np] = inner], inner, np)
                  ELSE [t EXCEPT !.child[0][np] = 0]
        taken  == [lifted EXCEPT !.child[1][next] = t.child[1][n], !.child[0][next] = t.child[0][n],
                                 !.parent[next] = p, !.black[next] = t.black[n]]
        placed == Replace(taken, n, next)
    IN  IF lonely
        THEN [tree |-> SetParent(Replace(t, n, moved), moved, p), from |-> p,
              lost |-> t.black[n], trace |-> Trace(t, n)]
        ELSE IF np = n
        THEN [tree |-> [Replace(t, n, next) EXCEPT !.parent[next] = p, !.black[next] = t.black[n],
                                                   !.child[0][next] = t.child[0][n],
                                                   !.parent[t.child[0][n]] = next],
              from |-> next, lost |-> t.black[next], trace |-> Trace(t, next)]
        ELSE [tree |-> SetParent(SetParent(placed, placed.child[0][next], next), placed.child[1][next], next),
              from |-> np, lost |-> t.black[next], trace |-> Trace(t, next)]

\* Mutant: the sibling's far child is not looked at.
RECURSIVE RemoveFixupLoop_NearOnly(_, _, _)
RemoveFixupLoop_NearOnly(t, p, trace) ==
    LET s == trace[1]
        x == t.child[1 - s][p]
        near == t.child[s][x]
    IN  IF IsRed(t, x)
        THEN RemoveFixupLoop_NearOnly(Rotate(Paint(Paint(t, p, FALSE), x, TRUE), p, s), p, <<s>> \o trace)
        ELSE IF IsRed(t, near)
        THEN Paint(Paint(Paint(Rotate(Rotate(t, x, 1 - s), p, s), near, t.black[p]), p, TRUE), x, TRUE)
        ELSE IF IsRed(t, p) THEN Paint(Paint(t, x, FALSE), p, TRUE)
        ELSE IF Len(trace) = 1 THEN Paint(t, x, FALSE)
        ELSE RemoveFixupLoop_NearOnly(Paint(t, x, FALSE), t.parent[p], Tail(trace))

\* The loop of RemoveFixup: side s of p is one black node short.
RECURSIVE RemoveFixupLoop(_, _, _)
RemoveFixupLoop(t, p, trace) ==
    LET s     == trace[1]
        red   == IsRed(t, t.child[1 - s][p])
        u     == IF red THEN Rotate(Paint(Paint(t, p, FALSE), t.child[1 - s][p], TRUE), p, s) ELSE t
        rest  == IF red THEN <<s>> \o Tail(trace) ELSE Tail(trace)
        x     == u.child[1 - s][p]
        near  == u.child[s][x]
        far   == u.child[1 - s][x]
        faded == Paint(u, x, FALSE)
    IN  IF IsRed(u, near)
        THEN Paint(Paint(Paint(Rotate(Rotate(u, x, 1 - s), p, s), near, u.black[p]), p, TRUE), x, TRUE)
        ELSE IF IsRed(u, far)
        THEN Paint(Paint(Paint(Rotate(u, p, s), x, u.black[p]), p, TRUE), far, TRUE)
        ELSE IF IsRed(u, p) THEN Paint(faded, p, TRUE)
        ELSE IF rest = << >> THEN faded
        ELSE RemoveFixupLoop(faded, u.parent[p], rest)

RemoveFixup(t, p, trace, lost) ==
    LET side == t.child[trace[1]][p]
    IN  IF ~lost \/ trace = << >> THEN t
        ELSE IF IsRed(t, side) THEN Paint(t, side, TRUE)
        ELSE RemoveFixupLoop(t, p, trace)

\* Remove: the node keeps its parent and its colour.
Remove(t, n) ==
    LET r == RemoveSwap(t, n)
    IN  PaintRoot([RemoveFixup(r.tree, r.from, r.trace, r.lost)
                     EXCEPT !.child[0][n] = 0, !.child[1][n] = 0])

-----------------------------------------------------------------------------
\* Mutant: behind a right child the enumeration is over.
Ascend_Stop(t, n) == 0

RECURSIVE Ascend(_, _)
Ascend(t, n) == IF t.parent[n] = 0 \/ t.child[1][t.parent[n]] # n THEN t.parent[n]
                ELSE Ascend(t, t.parent[n])

GetNext(t, n) == IF t.child[1][n] # 0 THEN First(t, t.child[1][n])
                 ELSE IF t.parent[n] # 0 /\ t.child[0][t.parent[n]] = n THEN t.parent[n]
                 ELSE Ascend(t, n)

RECURSIVE From(_, _)
From(t, n) == IF n = 0 THEN << >> ELSE <<n>> \o From(t, GetNext(t, n))

InOrder(t) == IF t.root = 0 THEN << >> ELSE From(t, First(t, t.root))

GetCount(t) == Len(InOrder(t))

ForceUnlink(t, n) == [t EXCEPT !.child[0][n] = 0, !.child[1][n] = 0, !.parent[n] = 0, !.black[n] = FALSE]

\* ClearAll: the nodes it hands to its function.  Every node is unlinked as soon
\* as the one after it is known, and a way up through it ends there.
RECURSIVE ClearFrom(_, _)
ClearFrom(t, n) == IF n = 0 THEN << >> ELSE <<n>> \o ClearFrom(ForceUnlink(t, n), GetNext(t, n))

ClearAll(t) == IF t.root = 0 THEN << >> ELSE ClearFrom(t, First(t, t.root))
=============================================================================
