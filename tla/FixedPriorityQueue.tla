------------------------- MODULE FixedPriorityQueue -------------------------
(***************************************************************************)
(* vp::util::FixedPriorityQueue: the array heap in which the scheduler     *)
(* keeps its runnable fibers, largest key first.                           *)
(*                                                                         *)
(* A queue is the sequence of the first m_count entries of m_queue; entry  *)
(* i of the sequence is m_queue[i - 1], so that the children of entry i    *)
(* are entries 2 * i and 2 * i + 1.  Every operator takes the keys of the  *)
(* nodes as a function, because the key is a member of the node that its   *)
(* owner may change.                                                       *)
(*                                                                         *)
(* The loops of the code move a pivot along one path of the tree.  Here a  *)
(* path is the set of the entries the pivot leaves behind, and the result  *)
(* is the queue with that path shifted by one.                             *)
(***************************************************************************)
LOCAL INSTANCE Naturals
LOCAL INSTANCE Sequences
LOCAL INSTANCE FiniteSets

Entries(q) == 1 .. Len(q)

\* Mutant: <= in the loop's condition.
StopsAt_OverEqual(q, key, i, j) == j = 1 \/ key[q[j \div 2]] > key[q[i]]

\* InsertFixup's loop leaves the pivot of entry i at entry j: it climbs over every
\* parent with a strictly smaller key.
StopsAt(q, key, i, j) == j = 1 \/ key[q[j \div 2]] >= key[q[i]]

\* Entries the pivot of entry i climbs through, i included.
PathUp(q, key, i) ==
    LET path[j \in Entries(q)] ==
            IF StopsAt(q, key, i, j) THEN {j} ELSE {j} \cup path[j \div 2]
    IN  path[i]

\* Where InsertFixup leaves the pivot.
Climb(q, key, i) == CHOOSE j \in PathUp(q, key, i) : \A k \in PathUp(q, key, i) : j <= k

InsertFixup(q, key, i) ==
    LET top  == Climb(q, key, i)
        path == PathUp(q, key, i)
    IN  [j \in Entries(q) |->
            IF j = top THEN q[i] ELSE IF j \in path THEN q[j \div 2] ELSE q[j]]

\* The child RemoveFixup compares first: the left one unless the right one is
\* strictly larger.
LargerChild(q, key, i) ==
    IF 2 * i + 1 \in Entries(q) /\ key[q[2 * i + 1]] > key[q[2 * i]]
    THEN 2 * i + 1 ELSE 2 * i

\* RemoveFixup's loop leaves the pivot of entry i at entry j: there is no child
\* with a strictly larger key.
RestsAt(q, key, i, j) ==
    ~(2 * j \in Entries(q) /\ key[q[LargerChild(q, key, j)]] > key[q[i]])

\* Entries the pivot of entry i sinks through, i included.
PathDown(q, key, i) ==
    LET path[j \in Entries(q)] ==
            IF RestsAt(q, key, i, j) THEN {j} ELSE {j} \cup path[LargerChild(q, key, j)]
    IN  path[i]

RemoveFixup(q, key, i) ==
    LET path   == PathDown(q, key, i)
        bottom == CHOOSE j \in path : \A k \in path : k <= j
    IN  [j \in Entries(q) |->
            IF j = bottom THEN q[i]
            ELSE IF j \in path THEN q[LargerChild(q, key, j)]
            ELSE q[j]]

-----------------------------------------------------------------------------
Insert(q, key, node) == InsertFixup(Append(q, node), key, Len(q) + 1)

Peek(q) == q[1]

\* What RemoveFront leaves behind; the node it returns is Peek(q).
RemoveFront(q, key) ==
    IF Len(q) = 1 THEN <<>>
    ELSE RemoveFixup([j \in 1 .. Len(q) - 1 |-> IF j = 1 THEN q[Len(q)] ELSE q[j]], key, 1)

\* The first entry that holds the node; the code asserts that there is one.
FindIterTo(q, node) ==
    CHOOSE i \in Entries(q) : q[i] = node /\ \A j \in 1 .. i - 1 : q[j] # node

\* Mutants: only the way down is repaired; the last entry is dropped.
Remove_DownOnly(q, key, i) ==
    LET last == Len(q)
        rest == [j \in 1 .. last - 1 |-> IF j = i THEN q[last] ELSE q[j]]
    IN  IF i = last THEN SubSeq(q, 1, last - 1) ELSE RemoveFixup(rest, key, i)
Remove_DropLast(q, key, i) == SubSeq(q, 1, Len(q) - 1)

\* Remove(iter): the last entry takes the place of entry i and is moved up or,
\* if it stays where it is, down.
Remove(q, key, i) ==
    LET last == Len(q)
        rest == [j \in 1 .. last - 1 |-> IF j = i THEN q[last] ELSE q[j]]
    IN  IF i = last THEN SubSeq(q, 1, last - 1)
        ELSE IF Climb(rest, key, i) # i THEN InsertFixup(rest, key, i)
        ELSE RemoveFixup(rest, key, i)

\* The order the heap keeps.
IsHeap(q, key) == \A i \in Entries(q) \ {1} : key[q[i \div 2]] >= key[q[i]]
=============================================================================
