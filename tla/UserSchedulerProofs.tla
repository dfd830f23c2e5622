------------------------ MODULE UserSchedulerProofs ------------------------
(***************************************************************************)
(* UserScheduler, for any number of fibers and cores: the invariant        *)
(* KernelInv, kept by the scheduler loop and by each system call that      *)
(* gives the core up.  The modules that put system calls on top of it      *)
(* (ThreadApiProofs, CriticalSectionProofs, AddressArbiterProofs) cite the *)
(* lemmas here.                                                            *)
(*                                                                         *)
(* KernelInv ties the state of each fiber to the place it is in: the       *)
(* queue, a ring, a wait list or a core.  A step moves one fiber from one  *)
(* place to another, and each part of the invariant says that one place    *)
(* holds just the fibers whose state names it; the counts follow.  The     *)
(* parts need each other: RunInv says in what state a fiber comes back to  *)
(* Dispatch, which is what keeps it from being queued twice.               *)
(*                                                                         *)
(* The ready queue comes first: FixedPriorityQueue, for every array and    *)
(* every key.  Insert and Remove keep the heap's order and move no node in *)
(* or out but their own.  The loops of InsertFixup and RemoveFixup walk a  *)
(* path of the tree and shift the nodes on it by one: a walk whose entries *)
(* have falling ranks ends and is such a path, the shift is a permutation, *)
(* and the order holds across the path.                                    *)
(***************************************************************************)
EXTENDS UserScheduler, WellFoundedInduction, FiniteSetTheorems, SequenceTheorems, TLAPS

-----------------------------------------------------------------------------
(* FixedPriorityQueue. *)

\* A set of numbers has a least one: what the proofs by descent below rest on.
LEMMA LeastNumber ==
    ASSUME NEW T, T \subseteq Nat, T # {}
    PROVE  \E m \in T : \A k \in T : m <= k
  <1> DEFINE R == OpToRel(<, Nat)
  <1>1. IsWellFoundedOn(R, Nat)
    BY NatLessThanWellFounded, Zenon
  <1>2. \A k, m \in Nat : k < m => <<k, m>> \in R
    BY Zenon DEF OpToRel
  <1> HIDE DEF R
  <1>3. PICK m \in T : \A k \in T : ~ (<<k, m>> \in R)
    BY <1>1, WFMin
  <1>4. \A k \in T : ~ (k < m)
    BY <1>2, <1>3
  <1> QED BY <1>4

\* Induction over a set of numbers.
LEMMA InductionOnNat ==
    ASSUME NEW S, 0 \in S, \A n \in Nat : n \in S => n + 1 \in S
    PROVE  Nat \subseteq S
  <1> SUFFICES ASSUME Nat \ S # {} PROVE FALSE
    OBVIOUS
  <1>1. PICK m \in Nat \ S : \A k \in Nat \ S : m <= k
    BY LeastNumber
  <1> QED BY <1>1

-----------------------------------------------------------------------------
\* A loop that moves a pivot from entry to entry: it stops at the entries of
\* stops and goes from any other one to next[j], which has a smaller rank.
PathEquation(g, N, stops, next) ==
    \A j \in 1 .. N : g[j] = IF j \in stops THEN {j} ELSE {j} \cup g[next[j]]

\* The recursion that walks from an entry to the next one, rank by rank, until an
\* entry of stops, defines the set of entries on the way (PathUp, PathDown).
LEMMA PathExists ==
    ASSUME NEW N \in Nat, NEW stops, NEW next, NEW rank \in [1 .. N -> 0 .. N],
           \A j \in (1 .. N) \ stops : next[j] \in 1 .. N /\ rank[next[j]] < rank[j]
    PROVE  \E g \in [1 .. N -> SUBSET (1 .. N)] : PathEquation(g, N, stops, next)
  <1> DEFINE Sound(g, n) ==
               \A j \in 1 .. N : rank[j] < n => g[j] = IF j \in stops THEN {j} ELSE {j} \cup g[next[j]]
             S == {n \in Nat : \E g \in [1 .. N -> SUBSET (1 .. N)] : Sound(g, n)}
  <1>1. 0 \in S
    <2>1. [j \in 1 .. N |-> {}] \in [1 .. N -> SUBSET (1 .. N)]
      OBVIOUS
    <2>2. Sound([j \in 1 .. N |-> {}], 0)
      OBVIOUS
    <2> HIDE DEF Sound
    <2> QED BY <2>1, <2>2
  <1>2. ASSUME NEW n \in Nat, n \in S PROVE n + 1 \in S
    <2>1. PICK g \in [1 .. N -> SUBSET (1 .. N)] : Sound(g, n)
      BY <1>2
    <2> DEFINE h == [j \in 1 .. N |-> IF rank[j] = n
                                      THEN IF j \in stops THEN {j} ELSE {j} \cup g[next[j]]
                                      ELSE g[j]]
    <2>2. h \in [1 .. N -> SUBSET (1 .. N)]
      OBVIOUS
    <2>3. ASSUME NEW j \in 1 .. N, rank[j] < n + 1
          PROVE  h[j] = IF j \in stops THEN {j} ELSE {j} \cup h[next[j]]
      <3>1. rank[j] \in 0 .. N
        OBVIOUS
      <3>2. CASE j \in stops
        BY <2>1, <2>3, <3>1, <3>2
      <3>3. CASE j \notin stops
        <4>1. next[j] \in 1 .. N /\ rank[next[j]] < rank[j] /\ rank[next[j]] \in 0 .. N
          BY <3>3
        <4>2. h[next[j]] = g[next[j]]
          BY <4>1, <2>3, <3>1
        <4>3. h[j] = {j} \cup g[next[j]]
          <5>1. CASE rank[j] = n
            BY <5>1, <3>3
          <5>2. CASE rank[j] # n
            <6>1. rank[j] < n
              BY <5>2, <2>3, <3>1
            <6>2. g[j] = IF j \in stops THEN {j} ELSE {j} \cup g[next[j]]
              BY <6>1, <2>1
            <6> QED BY <6>2, <5>2, <3>3
          <5> QED BY <5>1, <5>2
        <4> QED BY <4>2, <4>3, <3>3
      <3> QED BY <3>2, <3>3
    <2>4. Sound(h, n + 1)
      BY <2>3
    <2> HIDE DEF Sound, h
    <2> QED BY <2>2, <2>4
  <1>3. Nat \subseteq S
    <2> HIDE DEF S
    <2> QED BY <1>1, <1>2, InductionOnNat
  <1>4. N + 1 \in S
    <2> HIDE DEF S
    <2> QED BY <1>3
  <1>5. PICK g \in [1 .. N -> SUBSET (1 .. N)] : Sound(g, N + 1)
    BY <1>4
  <1>6. \A j \in 1 .. N : rank[j] < N + 1
    OBVIOUS
  <1>7. PathEquation(g, N, stops, next)
    BY <1>5, <1>6 DEF PathEquation
  <1> QED BY <1>7

\* What such a path is: it starts at i and ends at the one entry of stops in it,
\* and next leads from one of its entries to the one below, and no two to the same.
IsPath(p, i, e, N, stops, next) ==
    /\ p \subseteq 1 .. N /\ i \in p
    /\ e \in p /\ p \cap stops = {e}
    /\ \A k \in p \ {e} : next[k] \in p \ {i}
    /\ \A k \in p \ {i} : \E m \in p \ {e} : next[m] = k
    /\ \A k, m \in p \ {e} : next[k] = next[m] => k = m

\* What that recursion gives is a path, and its end has the least rank of it.
LEMMA PathIsPath ==
    ASSUME NEW N \in Nat, NEW stops, NEW next, NEW rank \in [1 .. N -> 0 .. N],
           \A j \in (1 .. N) \ stops : next[j] \in 1 .. N /\ rank[next[j]] < rank[j],
           NEW g, PathEquation(g, N, stops, next),
           NEW i \in 1 .. N
    PROVE  \E e \in g[i] :
               /\ IsPath(g[i], i, e, N, stops, next)
               /\ \A k \in g[i] : rank[e] <= rank[k] /\ (k # i => rank[k] < rank[i])
  <1> DEFINE Good(j, e) ==
               /\ IsPath(g[j], j, e, N, stops, next)
               /\ \A k \in g[j] : rank[e] <= rank[k] /\ (k # j => rank[k] < rank[j])
             S == {n \in Nat : \A j \in 1 .. N : rank[j] < n => \E e \in g[j] : Good(j, e)}
  <1>1. 0 \in S
    OBVIOUS
  <1>2. ASSUME NEW n \in Nat, n \in S PROVE n + 1 \in S
    <2> SUFFICES ASSUME NEW j \in 1 .. N, rank[j] < n + 1 PROVE \E e \in g[j] : Good(j, e)
      OBVIOUS
    <2>0. g[j] = IF j \in stops THEN {j} ELSE {j} \cup g[next[j]]
      BY DEF PathEquation
    <2>1. CASE j \in stops
      <3>1. Good(j, j)
        BY <2>0, <2>1 DEF IsPath
      <3> QED BY <3>1, <2>0, <2>1
    <2>2. CASE j \notin stops
      <3> DEFINE d == next[j]
      <3>1. d \in 1 .. N /\ rank[d] < rank[j] /\ rank[d] \in 0 .. N /\ rank[j] \in 0 .. N
        BY <2>2
      <3>2. PICK e \in g[d] : Good(d, e)
        <4>1. rank[d] < n
          BY <3>1
        <4> HIDE DEF d, Good
        <4> QED BY <4>1, <3>1, <1>2
      <3>3. g[j] = {j} \cup g[d]
        BY <2>0, <2>2
      <3>4. \A k \in g[d] : k \in 1 .. N /\ rank[k] \in 0 .. N /\ rank[k] <= rank[d] /\ rank[k] < rank[j]
        <4> HIDE DEF d
        <4> TAKE k \in g[d]
        <4>1. k \in 1 .. N /\ rank[k] \in 0 .. N
          BY <3>1, <3>2 DEF IsPath
        <4>2. k # d => rank[k] < rank[d]
          BY <3>2
        <4> QED BY <4>1, <4>2, <3>1
      <3>5. j \notin g[d] /\ j # e
        BY <3>4, <3>2, <3>1
      <3>6. \A k \in g[j] : rank[e] <= rank[k] /\ (k # j => rank[k] < rank[j])
        BY <3>1, <3>2, <3>3, <3>4
      <3> HIDE DEF d
      <3>7. d \in g[d] /\ e \in g[d] /\ g[d] \subseteq 1 .. N /\ g[d] \cap stops = {e}
        BY <3>2 DEF IsPath
      <3>8. \A k \in g[j] \ {e} : next[k] \in g[j] \ {j}
        <4>1. next[j] \in g[d]
          BY <3>7 DEF d
        <4>2. \A k \in g[d] \ {e} : next[k] \in g[d]
          BY <3>2 DEF IsPath
        <4> QED BY <4>1, <4>2, <3>3, <3>5
      <3>9. \A k \in g[j] \ {j} : \E m \in g[j] \ {e} : next[m] = k
        <4> SUFFICES ASSUME NEW k \in g[d] PROVE \E m \in g[j] \ {e} : next[m] = k
          BY <3>3
        <4>1. CASE k = d
          BY <4>1, <3>3, <3>5 DEF d
        <4>2. CASE k # d
          BY <4>2, <3>2, <3>3 DEF IsPath
        <4> QED BY <4>1, <4>2
      <3>10. \A k, m \in g[j] \ {e} : next[k] = next[m] => k = m
        <4>1. \A k \in g[d] \ {e} : next[k] # d
          BY <3>2 DEF IsPath
        <4>2. \A k, m \in g[d] \ {e} : next[k] = next[m] => k = m
          BY <3>2 DEF IsPath
        <4>3. next[j] = d
          BY DEF d
        <4> QED BY <4>1, <4>2, <4>3, <3>3
      <3>11. IsPath(g[j], j, e, N, stops, next)
        <4>1. g[j] \subseteq 1 .. N /\ j \in g[j] /\ e \in g[j] /\ g[j] \cap stops = {e}
          BY <3>3, <3>7, <2>2
        <4> QED BY <4>1, <3>8, <3>9, <3>10 DEF IsPath
      <3> QED BY <3>3, <3>6, <3>7, <3>11
    <2> QED BY <2>1, <2>2
  <1>3. Nat \subseteq S
    <2> HIDE DEF S
    <2> QED BY <1>1, <1>2, InductionOnNat
  <1>4. N + 1 \in S
    <2> HIDE DEF S
    <2> QED BY <1>3
  <1>5. rank[i] < N + 1
    OBVIOUS
  <1>6. PICK e \in g[i] : Good(i, e)
    <2> HIDE DEF Good
    <2> QED BY <1>4, <1>5
  <1> QED BY <1>6

-----------------------------------------------------------------------------
\* r is q, a function on 1 .. N, in another order.
Rearranges(r, q, N) ==
    \E order \in [1 .. N -> 1 .. N] :
        /\ \A j, k \in 1 .. N : order[j] = order[k] => j = k
        /\ \A k \in 1 .. N : \E j \in 1 .. N : order[j] = k
        /\ r = [j \in 1 .. N |-> q[order[j]]]

\* The queue with the path p from i to e moved by one.
Shifted(q, N, p, i, e, next) ==
    [j \in 1 .. N |-> IF j = e THEN q[i] ELSE IF j \in p THEN q[next[j]] ELSE q[j]]

\* Moving the entries of a path by one, and its first one to the end, only permutes
\* the array.
LEMMA ShiftRearranges ==
    ASSUME NEW N \in Nat, NEW q, NEW stops, NEW next, NEW p, NEW i, NEW e,
           IsPath(p, i, e, N, stops, next)
    PROVE  Rearranges(Shifted(q, N, p, i, e, next), q, N)
  <1> DEFINE order == [j \in 1 .. N |-> IF j = e THEN i ELSE IF j \in p THEN next[j] ELSE j]
  <1>1. /\ p \subseteq 1 .. N /\ i \in p /\ e \in p
        /\ \A k \in p \ {e} : next[k] \in p \ {i}
        /\ \A k \in p \ {i} : \E m \in p \ {e} : next[m] = k
        /\ \A k, m \in p \ {e} : next[k] = next[m] => k = m
    BY DEF IsPath
  <1>2. order \in [1 .. N -> 1 .. N]
    BY <1>1
  <1>3. \A j, k \in 1 .. N : order[j] = order[k] => j = k
    <2> SUFFICES ASSUME NEW j \in 1 .. N, NEW k \in 1 .. N, order[j] = order[k], j # k PROVE FALSE
      OBVIOUS
    <2>1. \A m \in 1 .. N : /\ m = e => order[m] = i
                            /\ m \in p \ {e} => order[m] = next[m]
                            /\ m \notin p => order[m] = m
      BY <1>1
    <2> HIDE DEF order
    <2>2. CASE j \in p \ {e}
      BY <2>1, <2>2, <1>1
    <2>3. CASE j = e
      BY <2>1, <2>3, <1>1
    <2>4. CASE j \notin p
      BY <2>1, <2>4, <1>1
    <2> QED BY <2>2, <2>3, <2>4
  <1>4. \A k \in 1 .. N : \E j \in 1 .. N : order[j] = k
    <2> TAKE k \in 1 .. N
    <2>1. CASE k = i
      BY <2>1, <1>1
    <2>2. CASE k \in p \ {i}
      <3>1. PICK m \in p \ {e} : next[m] = k
        BY <2>2, <1>1
      <3> QED BY <3>1, <1>1
    <2>3. CASE k \notin p
      BY <2>3, <1>1
    <2> QED BY <2>1, <2>2, <2>3
  <1>5. Shifted(q, N, p, i, e, next) = [j \in 1 .. N |-> q[order[j]]]
    BY DEF Shifted
  <1> HIDE DEF order
  <1> QED BY <1>2, <1>3, <1>4, <1>5 DEF Rearranges

\* What the loops of the two fixups walk over.
ParentIndex(N)    == [j \in 2 .. N |-> j \div 2]
ChildOf(q, key)   == [j \in 1 .. Len(q) |-> LargerChild(q, key, j)]
ClimbStops(q, key, i) == {j \in Entries(q) : StopsAt(q, key, i, j)}
SinkStops(q, key, i)  == {j \in Entries(q) : RestsAt(q, key, i, j)}

\* The entries InsertFixup visits, from the new node to the ancestor at which it stops.
LEMMA PathUpIsPath ==
    ASSUME NEW q, Len(q) \in Nat, NEW key, NEW i \in Entries(q)
    PROVE  /\ IsPath(PathUp(q, key, i), i, Climb(q, key, i), Len(q),
                     ClimbStops(q, key, i), ParentIndex(Len(q)))
           /\ Climb(q, key, i) \in PathUp(q, key, i)
           /\ \A k \in PathUp(q, key, i) : Climb(q, key, i) <= k
  <1> DEFINE N == Len(q)
             stops == ClimbStops(q, key, i)
             next == ParentIndex(N)
             rank == [j \in 1 .. N |-> j]
             path == CHOOSE path : path = [j \in Entries(q) |->
                         IF StopsAt(q, key, i, j) THEN {j} ELSE {j} \cup path[j \div 2]]
  <1>1. PathUp(q, key, i) = path[i]
    BY DEF PathUp
  <1>2. \A j \in (1 .. N) \ stops : next[j] = j \div 2 /\ next[j] \in 1 .. N /\ next[j] < j
    BY DEF ClimbStops, StopsAt, Entries, ParentIndex
  <1>3. rank \in [1 .. N -> 0 .. N]
    OBVIOUS
  <1>4. \A j \in (1 .. N) \ stops : next[j] \in 1 .. N /\ rank[next[j]] < rank[j]
    BY <1>2
  <1>5. PICK g \in [1 .. N -> SUBSET (1 .. N)] : PathEquation(g, N, stops, next)
    <2> HIDE DEF stops, next, rank
    <2> QED BY <1>3, <1>4, PathExists
  <1>6. g = [j \in Entries(q) |-> IF StopsAt(q, key, i, j) THEN {j} ELSE {j} \cup g[j \div 2]]
    BY <1>5, <1>2 DEF PathEquation, ClimbStops, Entries
  <1>7. path = [j \in Entries(q) |-> IF StopsAt(q, key, i, j) THEN {j} ELSE {j} \cup path[j \div 2]]
    BY <1>6
  <1> HIDE DEF path
  <1>8. PathEquation(path, N, stops, next)
    BY <1>7, <1>2 DEF PathEquation, ClimbStops, Entries
  <1>9. PICK e \in path[i] : /\ IsPath(path[i], i, e, N, stops, next)
                             /\ \A k \in path[i] : rank[e] <= rank[k]
    <2> HIDE DEF stops, next, rank
    <2> QED BY <1>3, <1>4, <1>8, PathIsPath DEF Entries
  <1>10. \A k \in path[i] : k \in 1 .. N /\ e <= k
    BY <1>9 DEF IsPath
  <1>11. Climb(q, key, i) = e
    BY <1>1, <1>10 DEF Climb
  <1> QED BY <1>1, <1>9, <1>10, <1>11

\* The entries RemoveFixup visits, from the hole down to the child at which it stops.
LEMMA PathDownIsPath ==
    ASSUME NEW q, Len(q) \in Nat, NEW key, NEW i \in Entries(q)
    PROVE  \E e \in PathDown(q, key, i) :
               /\ IsPath(PathDown(q, key, i), i, e, Len(q), SinkStops(q, key, i), ChildOf(q, key))
               /\ \A k \in PathDown(q, key, i) : i <= k /\ k <= e
  <1> DEFINE N == Len(q)
             stops == SinkStops(q, key, i)
             next == ChildOf(q, key)
             rank == [j \in 1 .. N |-> N - j]
             path == CHOOSE path : path = [j \in Entries(q) |->
                         IF RestsAt(q, key, i, j) THEN {j} ELSE {j} \cup path[LargerChild(q, key, j)]]
  <1>1. PathDown(q, key, i) = path[i]
    BY DEF PathDown
  <1>2. \A j \in (1 .. N) \ stops : /\ next[j] = LargerChild(q, key, j)
                                     /\ next[j] \in 1 .. N /\ j < next[j]
    BY DEF SinkStops, RestsAt, Entries, ChildOf, LargerChild
  <1>3. rank \in [1 .. N -> 0 .. N]
    OBVIOUS
  <1>4. \A j \in (1 .. N) \ stops : next[j] \in 1 .. N /\ rank[next[j]] < rank[j]
    BY <1>2
  <1>5. PICK g \in [1 .. N -> SUBSET (1 .. N)] : PathEquation(g, N, stops, next)
    <2> HIDE DEF stops, next, rank
    <2> QED BY <1>3, <1>4, PathExists
  <1>6. g = [j \in Entries(q) |->
                IF RestsAt(q, key, i, j) THEN {j} ELSE {j} \cup g[LargerChild(q, key, j)]]
    BY <1>5, <1>2 DEF PathEquation, SinkStops, Entries
  <1>7. path = [j \in Entries(q) |->
                IF RestsAt(q, key, i, j) THEN {j} ELSE {j} \cup path[LargerChild(q, key, j)]]
    BY <1>6
  <1> HIDE DEF path
  <1>8. PathEquation(path, N, stops, next)
    BY <1>7, <1>2 DEF PathEquation, SinkStops, Entries
  <1>9. PICK e \in path[i] : /\ IsPath(path[i], i, e, N, stops, next)
                             /\ \A k \in path[i] : rank[e] <= rank[k]
                             /\ \A k \in path[i] : k # i => rank[k] < rank[i]
    <2> HIDE DEF stops, next, rank
    <2> QED BY <1>3, <1>4, <1>8, PathIsPath DEF Entries
  <1>10. \A k \in path[i] : k \in 1 .. N
    BY <1>9 DEF IsPath
  <1>11. \A k \in path[i] : i <= k /\ k <= e
    <2>1. \A k \in path[i] : rank[k] = N - k
      BY <1>10
    <2>2. rank[i] = N - i /\ i \in 1 .. N
      BY DEF Entries
    <2> HIDE DEF rank
    <2> QED BY <1>9, <1>10, <2>1, <2>2
  <1> QED BY <1>1, <1>9, <1>11
-----------------------------------------------------------------------------
\* InsertFixup permutes the array of nodes: it neither drops nor doubles one.
LEMMA InsertFixupRearranges ==
    ASSUME NEW q, Len(q) \in Nat, NEW key, NEW i \in Entries(q)
    PROVE  Rearranges(InsertFixup(q, key, i), q, Len(q))
  <1> DEFINE top == Climb(q, key, i)
             path == PathUp(q, key, i)
             next == ParentIndex(Len(q))
  <1>1. IsPath(path, i, top, Len(q), ClimbStops(q, key, i), next)
    BY PathUpIsPath
  <1>2. \A j \in path \ {top} : next[j] = j \div 2
    BY <1>1 DEF IsPath, ParentIndex, ClimbStops, StopsAt, Entries
  <1>3. InsertFixup(q, key, i) = Shifted(q, Len(q), path, i, top, next)
    BY <1>2 DEF InsertFixup, Entries, Shifted
  <1> HIDE DEF top, path, next
  <1> QED BY <1>1, <1>3, ShiftRearranges

\* RemoveFixup permutes the array of nodes: it neither drops nor doubles one.
LEMMA RemoveFixupRearranges ==
    ASSUME NEW q, Len(q) \in Nat, NEW key, NEW i \in Entries(q)
    PROVE  Rearranges(RemoveFixup(q, key, i), q, Len(q))
  <1> DEFINE path == PathDown(q, key, i)
             bottom == CHOOSE j \in path : \A k \in path : k <= j
             next == ChildOf(q, key)
  <1>1. PICK e \in path : /\ IsPath(path, i, e, Len(q), SinkStops(q, key, i), next)
                          /\ \A k \in path : k <= e
    BY PathDownIsPath
  <1>2. \A j \in path : j \in 1 .. Len(q)
    BY <1>1 DEF IsPath
  <1>3. bottom = e
    BY <1>1, <1>2
  <1>4. RemoveFixup(q, key, i) = Shifted(q, Len(q), path, i, e, next)
    <2>1. RemoveFixup(q, key, i) = [j \in Entries(q) |->
                IF j = bottom THEN q[i]
                ELSE IF j \in path THEN q[LargerChild(q, key, j)] ELSE q[j]]
      BY DEF RemoveFixup
    <2>2. \A j \in path : next[j] = LargerChild(q, key, j)
      BY <1>2 DEF ChildOf
    <2> HIDE DEF bottom, path, next
    <2> QED BY <2>1, <2>2, <1>3 DEF Entries, Shifted
  <1> HIDE DEF path, bottom, next
  <1> QED BY <1>1, <1>4, ShiftRearranges

\* The nodes of a queue, and a queue that holds each of them once.
Nodes(q) == {q[j] : j \in Entries(q)}
Once(q)  == \A j, k \in Entries(q) : q[j] = q[k] => j = k

\* A permuted array has the same nodes, each as often.
LEMMA RearrangedQueue ==
    ASSUME NEW T, NEW q \in Seq(T), NEW r, Rearranges(r, q, Len(q))
    PROVE  /\ r \in Seq(T) /\ Len(r) = Len(q)
           /\ Nodes(r) = Nodes(q)
           /\ Once(q) => Once(r)
  <1> DEFINE N == Len(q)
  <1>1. PICK order \in [1 .. N -> 1 .. N] :
            /\ \A j, k \in 1 .. N : order[j] = order[k] => j = k
            /\ \A k \in 1 .. N : \E j \in 1 .. N : order[j] = k
            /\ r = [j \in 1 .. N |-> q[order[j]]]
    BY DEF Rearranges
  <1>2. N \in Nat /\ \A j \in 1 .. N : q[j] \in T
    OBVIOUS
  <1>3. r \in Seq(T) /\ Len(r) = N
    BY <1>1, <1>2, SMTT(30)
  <1>4. \A j \in 1 .. N : r[j] = q[order[j]] /\ order[j] \in 1 .. N
    BY <1>1
  <1>5. Nodes(r) = Nodes(q)
    <2>1. \A k \in 1 .. N : \E j \in 1 .. N : r[j] = q[k]
      BY <1>1, <1>4
    <2>2. \A j \in 1 .. N : \E k \in 1 .. N : r[j] = q[k]
      BY <1>4
    <2>3. Entries(r) = 1 .. N /\ Entries(q) = 1 .. N
      BY <1>3 DEF Entries
    <2> HIDE DEF N
    <2>4. \A x \in Nodes(r) : x \in Nodes(q)
      BY <2>2, <2>3 DEF Nodes
    <2>5. \A x \in Nodes(q) : x \in Nodes(r)
      BY <2>1, <2>3 DEF Nodes
    <2> QED BY <2>4, <2>5
  <1>6. ASSUME Once(q) PROVE Once(r)
    <2> SUFFICES ASSUME NEW j \in 1 .. N, NEW k \in 1 .. N, r[j] = r[k] PROVE j = k
      BY <1>3 DEF Once, Entries
    <2>1. q[order[j]] = q[order[k]] /\ order[j] \in 1 .. N /\ order[k] \in 1 .. N
      BY <1>4
    <2>2. order[j] = order[k]
      BY <2>1, <1>6 DEF Once, Entries
    <2> QED BY <2>2, <1>1
  <1> QED BY <1>3, <1>5, <1>6

\* Insert adds the node and nothing else.
THEOREM InsertAdds ==
    ASSUME NEW T, NEW q \in Seq(T), NEW key, NEW node \in T
    PROVE  /\ Insert(q, key, node) \in Seq(T)
           /\ Len(Insert(q, key, node)) = Len(q) + 1
           /\ Nodes(Insert(q, key, node)) = Nodes(q) \cup {node}
           /\ Once(q) /\ node \notin Nodes(q) => Once(Insert(q, key, node))
  <1> DEFINE a == Append(q, node)
  <1>1. a \in Seq(T) /\ Len(a) = Len(q) + 1 /\ Len(a) \in Entries(a)
    BY DEF Entries
  <1>2. \A j \in 1 .. Len(q) : a[j] = q[j]
    OBVIOUS
  <1>3. a[Len(q) + 1] = node
    OBVIOUS
  <1>4. Nodes(a) = Nodes(q) \cup {node}
    <2>1. Entries(a) = Entries(q) \cup {Len(q) + 1}
      BY <1>1 DEF Entries
    <2> HIDE DEF a
    <2> QED BY <1>2, <1>3, <2>1 DEF Nodes, Entries
  <1>5. Once(q) /\ node \notin Nodes(q) => Once(a)
    <2>1. Entries(a) = Entries(q) \cup {Len(q) + 1}
      BY <1>1 DEF Entries
    <2> HIDE DEF a
    <2> QED BY <1>2, <1>3, <2>1 DEF Nodes, Entries, Once
  <1>6. Insert(q, key, node) = InsertFixup(a, key, Len(a))
    BY <1>1 DEF Insert
  <1> HIDE DEF a
  <1>7. Rearranges(InsertFixup(a, key, Len(a)), a, Len(a))
    BY <1>1, InsertFixupRearranges
  <1> QED BY <1>1, <1>4, <1>5, <1>6, <1>7, RearrangedQueue

\* The queue without entry i, whose place the last entry takes.
Moved(q, i) == [j \in 1 .. Len(q) - 1 |-> IF j = i THEN q[Len(q)] ELSE q[j]]

\* The array after Remove's move of the last node over the removed one.
LEMMA MovedQueue ==
    ASSUME NEW T, NEW q \in Seq(T), NEW i \in 1 .. Len(q)
    PROVE  /\ Moved(q, i) \in Seq(T) /\ Len(Moved(q, i)) = Len(q) - 1
           /\ Once(q) => Once(Moved(q, i)) /\ Nodes(Moved(q, i)) = Nodes(q) \ {q[i]}
  <1> DEFINE N == Len(q)
             m == Moved(q, i)
  <1>1. N \in Nat /\ N > 0 /\ \A j \in 1 .. N : q[j] \in T
    OBVIOUS
  <1>2. m \in Seq(T) /\ Len(m) = N - 1
    BY <1>1 DEF Moved
  <1>3. \A j \in 1 .. N - 1 : m[j] = IF j = i THEN q[N] ELSE q[j]
    BY DEF Moved
  <1> HIDE DEF m
  <1>4. ASSUME Once(q) PROVE Once(m)
    BY <1>1, <1>2, <1>3, <1>4 DEF Once, Entries
  <1>5. ASSUME Once(q) PROVE Nodes(m) = Nodes(q) \ {q[i]}
    <2>1. \A j \in 1 .. N - 1 : m[j] \in Nodes(q) \ {q[i]}
      BY <1>1, <1>3, <1>5 DEF Once, Nodes, Entries
    <2>2. ASSUME NEW j \in 1 .. N, q[j] # q[i] PROVE \E k \in 1 .. N - 1 : m[k] = q[j]
      <3>1. CASE j = N
        BY <3>1, <2>2, <1>1, <1>3
      <3>2. CASE j # N
        BY <3>2, <2>2, <1>1, <1>3
      <3> QED BY <3>1, <3>2
    <2>3. Entries(m) = 1 .. N - 1 /\ Entries(q) = 1 .. N
      BY <1>2 DEF Entries
    <2> HIDE DEF N
    <2>4. \A x \in Nodes(m) : x \in Nodes(q) \ {q[i]}
      BY <2>1, <2>3 DEF Nodes
    <2>5. \A x \in Nodes(q) \ {q[i]} : x \in Nodes(m)
      BY <2>2, <2>3 DEF Nodes
    <2> QED BY <2>4, <2>5
  <1> QED BY <1>2, <1>4, <1>5 DEF m

\* RemoveFront takes out the node that Peek returns and nothing else.
THEOREM RemoveFrontRemoves ==
    ASSUME NEW T, NEW q \in Seq(T), NEW key, q # <<>>
    PROVE  /\ RemoveFront(q, key) \in Seq(T)
           /\ Len(RemoveFront(q, key)) = Len(q) - 1
           /\ Peek(q) \in Nodes(q)
           /\ Once(q) => /\ Once(RemoveFront(q, key))
                         /\ Nodes(RemoveFront(q, key)) = Nodes(q) \ {Peek(q)}
  <1>0. Len(q) \in Nat /\ Len(q) > 0 /\ 1 \in 1 .. Len(q)
    OBVIOUS
  <1>1. Peek(q) \in Nodes(q)
    BY <1>0 DEF Peek, Nodes, Entries
  <1>2. CASE Len(q) = 1
    <2>1. RemoveFront(q, key) = <<>>
      BY <1>2 DEF RemoveFront
    <2> QED BY <1>1, <1>2, <2>1 DEF Once, Nodes, Entries, Peek
  <1>3. CASE Len(q) # 1
    <2>1. RemoveFront(q, key) = RemoveFixup(Moved(q, 1), key, 1)
      BY <1>3 DEF RemoveFront, Moved
    <2>2. /\ Moved(q, 1) \in Seq(T) /\ Len(Moved(q, 1)) = Len(q) - 1
          /\ Once(q) => Once(Moved(q, 1)) /\ Nodes(Moved(q, 1)) = Nodes(q) \ {q[1]}
      BY <1>0, MovedQueue
    <2>3. 1 \in Entries(Moved(q, 1))
      BY <1>0, <1>3, <2>2 DEF Entries
    <2>4. Rearranges(RemoveFixup(Moved(q, 1), key, 1), Moved(q, 1), Len(Moved(q, 1)))
      BY <1>0, <2>2, <2>3, RemoveFixupRearranges
    <2> QED BY <1>1, <2>1, <2>2, <2>4, RearrangedQueue DEF Peek
  <1> QED BY <1>2, <1>3

\* Remove takes out entry i and nothing else.
THEOREM RemoveRemoves ==
    ASSUME NEW T, NEW q \in Seq(T), NEW key, NEW i \in Entries(q)
    PROVE  /\ Remove(q, key, i) \in Seq(T)
           /\ Len(Remove(q, key, i)) = Len(q) - 1
           /\ Once(q) => /\ Once(Remove(q, key, i))
                         /\ Nodes(Remove(q, key, i)) = Nodes(q) \ {q[i]}
  <1>0. Len(q) \in Nat /\ Len(q) > 0 /\ i \in 1 .. Len(q)
    BY DEF Entries
  <1>1. /\ Moved(q, i) \in Seq(T) /\ Len(Moved(q, i)) = Len(q) - 1
        /\ Once(q) => Once(Moved(q, i)) /\ Nodes(Moved(q, i)) = Nodes(q) \ {q[i]}
    BY <1>0, MovedQueue
  <1>2. CASE i = Len(q)
    <2>1. Remove(q, key, i) = SubSeq(q, 1, Len(q) - 1)
      BY <1>2 DEF Remove
    <2>2. SubSeq(q, 1, Len(q) - 1) = Moved(q, i)
      BY <1>0, <1>2 DEF Moved
    <2> QED BY <1>1, <2>1, <2>2
  <1>3. CASE i # Len(q)
    <2>1. i \in Entries(Moved(q, i))
      BY <1>0, <1>1, <1>3 DEF Entries
    <2>2. \/ Remove(q, key, i) = InsertFixup(Moved(q, i), key, i)
          \/ Remove(q, key, i) = RemoveFixup(Moved(q, i), key, i)
      BY <1>3 DEF Remove, Moved
    <2>3. Rearranges(Remove(q, key, i), Moved(q, i), Len(Moved(q, i)))
      BY <1>0, <1>1, <2>1, <2>2, InsertFixupRearranges, RemoveFixupRearranges
    <2> QED BY <1>1, <2>3, RearrangedQueue
  <1> QED BY <1>2, <1>3

\* FindIterTo finds a node that is there.
LEMMA FindIterToFinds ==
    ASSUME NEW T, NEW q \in Seq(T), NEW node \in Nodes(q)
    PROVE  FindIterTo(q, node) \in Entries(q) /\ q[FindIterTo(q, node)] = node
  <1> DEFINE S == {i \in Entries(q) : q[i] = node}
  <1>1. S \subseteq Nat /\ S # {}
    BY DEF Nodes, Entries
  <1>2. PICK m \in S : \A k \in S : m <= k
    <2> HIDE DEF S
    <2> QED BY <1>1, LeastNumber
  <1>3. \E i \in Entries(q) : q[i] = node /\ \A j \in 1 .. i - 1 : q[j] # node
    BY <1>2 DEF Entries
  <1> QED BY <1>3 DEF FindIterTo

-----------------------------------------------------------------------------
\* A heap whose entry i may hold any key.
HeapExcept(q, key, i) ==
    \A j \in Entries(q) \ {1} :
        /\ j # i /\ j \div 2 # i => key[q[j \div 2]] >= key[q[j]]
        /\ j \div 2 = i /\ i # 1 => key[q[i \div 2]] >= key[q[j]]

Integral(q, key) == \A j \in Entries(q) : key[q[j]] \in Int

\* The parent of entry j, which is a left or a right child.
LEMMA HalfOf ==
    ASSUME NEW N \in Nat, NEW j \in (1 .. N) \ {1}
    PROVE  j \div 2 \in 1 .. N /\ j \div 2 < j /\ (j = 2 * (j \div 2) \/ j = 2 * (j \div 2) + 1)
  OBVIOUS

\* The largest key is at the front.
THEOREM PeekIsLargest ==
    ASSUME NEW q, Len(q) \in Nat, NEW key, Integral(q, key), IsHeap(q, key)
    PROVE  \A i \in Entries(q) : key[Peek(q)] >= key[q[i]]
  <1> DEFINE N == Len(q)
             S == {n \in Nat : \A i \in 1 .. N : i <= n => key[q[1]] >= key[q[i]]}
  <1>1. 0 \in S
    OBVIOUS
  <1>2. ASSUME NEW n \in Nat, n \in S PROVE n + 1 \in S
    <2> SUFFICES ASSUME NEW i \in 1 .. N, i <= n + 1 PROVE key[q[1]] >= key[q[i]]
      OBVIOUS
    <2>1. CASE i = 1
      BY <2>1 DEF Integral, Entries
    <2>2. CASE i # 1
      <3>1. i \div 2 \in 1 .. N /\ i \div 2 < i
        BY <2>2, HalfOf
      <3>2. key[q[1]] >= key[q[i \div 2]]
        <4>1. i \div 2 <= n
          BY <3>1
        <4> QED BY <4>1, <3>1, <1>2
      <3>3. key[q[i \div 2]] >= key[q[i]]
        BY <2>2 DEF IsHeap, Entries
      <3>4. key[q[1]] \in Int /\ key[q[i]] \in Int /\ key[q[i \div 2]] \in Int
        BY <3>1 DEF Integral, Entries
      <3> QED BY <3>2, <3>3, <3>4
    <2> QED BY <2>1, <2>2
  <1>3. Nat \subseteq S
    <2> HIDE DEF S
    <2> QED BY <1>1, <1>2, InductionOnNat
  <1>4. N \in S
    <2> HIDE DEF S
    <2> QED BY <1>3
  <1> QED BY <1>4 DEF Peek, Entries

\* InsertFixup repairs the heap when the pivot climbs or has no children.
LEMMA InsertFixupRepairs ==
    ASSUME NEW q, Len(q) \in Nat, NEW key, Integral(q, key), NEW i \in Entries(q),
           HeapExcept(q, key, i),
           Climb(q, key, i) # i \/ 2 * i \notin Entries(q)
    PROVE  IsHeap(InsertFixup(q, key, i), key)
  <1> DEFINE N == Len(q)
             P == PathUp(q, key, i)
             top == Climb(q, key, i)
             r == InsertFixup(q, key, i)
  <1>1. /\ P \subseteq 1 .. N /\ i \in P /\ top \in P
        /\ P \cap ClimbStops(q, key, i) = {top}
        /\ \A k \in P \ {top} : ParentIndex(N)[k] \in P \ {i}
        /\ \A k \in P \ {i} : \E m \in P \ {top} : ParentIndex(N)[m] = k
        /\ \A k \in P : top <= k
    BY PathUpIsPath DEF IsPath
  <1>2. \A k \in P \ {top} : /\ k \in 2 .. N /\ k \div 2 \in P \ {i}
                            /\ ParentIndex(N)[k] = k \div 2
                            /\ ~ (key[q[k \div 2]] >= key[q[i]])
    <2> TAKE k \in P \ {top}
    <2>1. k \in 1 .. N /\ k \notin ClimbStops(q, key, i)
      BY <1>1
    <2>2. ~ StopsAt(q, key, i, k)
      BY <2>1 DEF ClimbStops, Entries
    <2>3. k # 1 /\ ~ (key[q[k \div 2]] >= key[q[i]])
      BY <2>2 DEF StopsAt
    <2>4. ParentIndex(N)[k] = k \div 2
      BY <2>1, <2>3 DEF ParentIndex
    <2>5. k \in 2 .. N
      BY <2>1, <2>3
    <2> HIDE DEF P, top, N
    <2> QED BY <2>3, <2>4, <2>5, <1>1
  <1>3. top = 1 \/ key[q[top \div 2]] >= key[q[i]]
    BY <1>1 DEF ClimbStops, StopsAt
  <1>4. \A k \in P \ {i} : \E m \in P \ {top} : m \div 2 = k
    BY <1>1, <1>2
  <1>5. \A j \in 1 .. N : r[j] = IF j = top THEN q[i] ELSE IF j \in P THEN q[j \div 2] ELSE q[j]
    BY DEF InsertFixup, Entries
  <1>6. \A j \in 1 .. N : key[q[j]] \in Int
    BY DEF Integral, Entries
  <1>7. Entries(r) = 1 .. N /\ i \in 1 .. N
    BY DEF InsertFixup, Entries
  <1>8. \A j \in (1 .. N) \ {1} :
            /\ j # i /\ j \div 2 # i => key[q[j \div 2]] >= key[q[j]]
            /\ j \div 2 = i /\ i # 1 => key[q[i \div 2]] >= key[q[j]]
    BY DEF HeapExcept, Entries
  <1>9. top # i \/ 2 * i \notin 1 .. N
    BY DEF Entries
  <1> HIDE DEF P, top, r, N
  <1>10. N \in Nat
    BY DEF N
  <1> SUFFICES ASSUME NEW j \in (1 .. N) \ {1} PROVE key[r[j \div 2]] >= key[r[j]]
    BY <1>7 DEF IsHeap, r
  <1> DEFINE p == j \div 2
  <1>11. p \in 1 .. N /\ p < j /\ (j = 2 * p \/ j = 2 * p + 1)
    BY <1>10, HalfOf
  <1>12. r[j] = IF j = top THEN q[i] ELSE IF j \in P THEN q[p] ELSE q[j]
    BY <1>5
  <1>13. r[p] = IF p = top THEN q[i] ELSE IF p \in P THEN q[p \div 2] ELSE q[p]
    BY <1>5, <1>11
  <1>14. /\ j # i /\ p # i => key[q[p]] >= key[q[j]]
         /\ p = i /\ i # 1 => key[q[i \div 2]] >= key[q[j]]
    BY <1>8
  <1> HIDE DEF p
  <1>15. p \in P \ {top} => /\ p \div 2 \in P /\ p \div 2 # i /\ p \in 2 .. N
                            /\ p # i => key[q[p \div 2]] >= key[q[p]]
    BY <1>2, <1>8
  <1>16. CASE j \in P \ {top}
    <2>1. p \in P /\ p # i /\ ~ (key[q[p]] >= key[q[i]]) /\ r[j] = q[p]
      BY <1>16, <1>2, <1>12 DEF p
    <2>2. CASE p = top
      BY <2>1, <2>2, <1>13, <1>6, <1>7, <1>11 DEF p
    <2>3. CASE p # top
      BY <2>1, <2>3, <1>13, <1>15 DEF p
    <2> QED BY <2>2, <2>3
  <1>17. CASE j = top
    <2>1. p \notin P
      BY <1>17, <1>1, <1>11, <1>10
    <2> QED BY <2>1, <1>17, <1>3, <1>12, <1>13, <1>1 DEF p
  <1>18. CASE j \notin P
    <2>1. r[j] = q[j] /\ j # i
      BY <1>18, <1>1, <1>12
    <2>2. CASE p \notin P
      <3>1. p # i /\ r[p] = q[p]
        BY <2>2, <1>1, <1>13
      <3> QED BY <3>1, <2>1, <1>14 DEF p
    <2>3. CASE p = top
      <3>1. top # i
        BY <2>3, <1>9, <1>11, <1>10, <1>7
      <3>2. PICK m \in P \ {top} : m \div 2 = top
        BY <3>1, <1>1, <1>4
      <3>3. ~ (key[q[top]] >= key[q[i]])
        BY <3>2, <1>2
      <3>4. key[q[p]] >= key[q[j]]
        BY <3>1, <2>3, <2>1, <1>14
      <3>5. key[q[p]] \in Int /\ key[q[j]] \in Int /\ key[q[i]] \in Int
        BY <1>6, <1>11, <1>7
      <3> QED BY <3>3, <3>4, <3>5, <2>3, <2>1, <1>13 DEF p
    <2>4. CASE p \in P \ {top}
      <3>1. r[p] = q[p \div 2]
        BY <2>4, <1>13
      <3>2. p \div 2 \in 1 .. N
        BY <1>15, <2>4, <1>1
      <3>3. CASE p = i
        <4>1. i # 1
          BY <3>3, <1>15, <2>4
        <4> QED BY <4>1, <3>1, <3>3, <1>14, <2>1 DEF p
      <3>4. CASE p # i
        <4>1. key[q[p \div 2]] >= key[q[p]]
          BY <3>4, <1>15, <2>4
        <4>2. key[q[p]] >= key[q[j]]
          BY <3>4, <2>1, <1>14
        <4>3. key[q[p]] \in Int /\ key[q[j]] \in Int /\ key[q[p \div 2]] \in Int
          BY <1>6, <1>11, <3>2
        <4> QED BY <4>1, <4>2, <4>3, <3>1, <2>1 DEF p
      <3> QED BY <3>3, <3>4
    <2> QED BY <2>2, <2>3, <2>4
  <1> QED BY <1>16, <1>17, <1>18

\* LargerChild is a child, and no child has a larger key.
LEMMA LargerChildIsLargest ==
    ASSUME NEW q, Len(q) \in Nat, NEW key, Integral(q, key),
           NEW p \in 1 .. Len(q), 2 * p \in 1 .. Len(q)
    PROVE  /\ LargerChild(q, key, p) \in 1 .. Len(q)
           /\ LargerChild(q, key, p) \div 2 = p
           /\ \A j \in {2 * p, 2 * p + 1} \cap 1 .. Len(q) :
                  key[q[LargerChild(q, key, p)]] >= key[q[j]]
  <1>0. (2 * p + 1) \div 2 = p /\ (2 * p) \div 2 = p
    <2>1. p \in Nat
      OBVIOUS
    <2>2. \A n \in Nat : (2 * n + 1) \div 2 = n
      BY ONLY SMTT(30)
    <2>3. \A n \in Nat : (2 * n) \div 2 = n
      BY ONLY SMTT(30)
    <2> QED BY ONLY <2>1, <2>2, <2>3
  <1>1. \A j \in {2 * p, 2 * p + 1} \cap 1 .. Len(q) : key[q[j]] \in Int
    BY DEF Integral, Entries
  <1>2. key[q[2 * p]] \in Int
    BY <1>1
  <1>3. CASE 2 * p + 1 \in Entries(q) /\ key[q[2 * p + 1]] > key[q[2 * p]]
    <2>1. LargerChild(q, key, p) = 2 * p + 1
      BY <1>3 DEF LargerChild
    <2>2. 2 * p + 1 \in 1 .. Len(q) /\ (2 * p + 1) \div 2 = p
      <3>1. 2 * p + 1 \in 1 .. Len(q)
        BY <1>3 DEF Entries
      <3> QED BY <1>0, <3>1
    <2>3. \A j \in {2 * p, 2 * p + 1} : key[q[2 * p + 1]] >= key[q[j]]
      <3>1. key[q[2 * p + 1]] \in Int
        BY <1>1, <2>2
      <3>2. key[q[2 * p + 1]] >= key[q[2 * p]] /\ key[q[2 * p + 1]] >= key[q[2 * p + 1]]
        BY <1>2, <1>3, <3>1
      <3> QED BY <3>2
    <2> QED BY <2>1, <2>2, <2>3
  <1>4. CASE ~ (2 * p + 1 \in Entries(q) /\ key[q[2 * p + 1]] > key[q[2 * p]])
    <2>1. LargerChild(q, key, p) = 2 * p
      BY <1>4 DEF LargerChild
    <2>2. (2 * p) \div 2 = p
      BY <1>0
    <2>3. \A j \in {2 * p, 2 * p + 1} \cap 1 .. Len(q) : key[q[2 * p]] >= key[q[j]]
      <3>1. 2 * p + 1 \in 1 .. Len(q) => key[q[2 * p]] >= key[q[2 * p + 1]]
        BY <1>1, <1>2, <1>4 DEF Entries
      <3> QED BY <1>2, <3>1
    <2> QED BY <2>1, <2>2, <2>3
  <1> QED BY <1>3, <1>4

\* RemoveFixup repairs the heap when the pivot need not climb.
LEMMA RemoveFixupRepairs ==
    ASSUME NEW q, Len(q) \in Nat, NEW key, Integral(q, key), NEW i \in Entries(q),
           HeapExcept(q, key, i), StopsAt(q, key, i, i)
    PROVE  IsHeap(RemoveFixup(q, key, i), key)
  <1> DEFINE N == Len(q)
             P == PathDown(q, key, i)
             C(j) == LargerChild(q, key, j)
             bottom == CHOOSE j \in P : \A k \in P : k <= j
             r == RemoveFixup(q, key, i)
  <1>1. PICK e \in P : /\ IsPath(P, i, e, N, SinkStops(q, key, i), ChildOf(q, key))
                       /\ \A k \in P : i <= k /\ k <= e
    BY PathDownIsPath
  <1>2. /\ P \subseteq 1 .. N /\ i \in P
        /\ P \cap SinkStops(q, key, i) = {e}
        /\ \A k \in P \ {e} : ChildOf(q, key)[k] \in P \ {i}
        /\ \A k \in P \ {i} : \E m \in P \ {e} : ChildOf(q, key)[m] = k
    BY <1>1 DEF IsPath
  <1>3. bottom = e
    BY <1>1, <1>2
  <1>4. \A j \in 1 .. N : r[j] = IF j = e THEN q[i] ELSE IF j \in P THEN q[C(j)] ELSE q[j]
    <2>1. r = [j \in Entries(q) |-> IF j = bottom THEN q[i] ELSE IF j \in P THEN q[C(j)] ELSE q[j]]
      BY DEF RemoveFixup
    <2> HIDE DEF bottom, P, C, r
    <2> QED BY <2>1, <1>3 DEF Entries
  <1>5. \A j \in 1 .. N : key[q[j]] \in Int
    BY DEF Integral, Entries
  <1>6. Entries(r) = 1 .. N /\ i \in 1 .. N
    BY DEF RemoveFixup, Entries
  <1>7. \A j \in (1 .. N) \ {1} :
            /\ j # i /\ j \div 2 # i => key[q[j \div 2]] >= key[q[j]]
            /\ j \div 2 = i /\ i # 1 => key[q[i \div 2]] >= key[q[j]]
    BY DEF HeapExcept, Entries
  <1>8. i = 1 \/ key[q[i \div 2]] >= key[q[i]]
    BY DEF StopsAt
  <1>9. \A k \in P \ {e} : /\ 2 * k \in 1 .. N /\ key[q[C(k)]] > key[q[i]]
                          /\ C(k) \in P \ {i}
    <2> TAKE k \in P \ {e}
    <2>1. k \in 1 .. N /\ k \notin SinkStops(q, key, i)
      BY <1>2
    <2>2. ~ RestsAt(q, key, i, k)
      BY <2>1 DEF SinkStops, Entries
    <2>3. ChildOf(q, key)[k] = C(k)
      BY <2>1 DEF ChildOf
    <2>4. 2 * k \in 1 .. N /\ key[q[C(k)]] > key[q[i]]
      BY <2>2 DEF RestsAt, Entries
    <2> QED BY <2>3, <2>4, <1>2
  <1>10. \A k \in P \ {i} : \E m \in P \ {e} : C(m) = k
    BY <1>2 DEF ChildOf
  <1>11. 2 * e \in 1 .. N => ~ (key[q[C(e)]] > key[q[i]])
    BY <1>2 DEF SinkStops, RestsAt, Entries
  <1>12. \A m \in 1 .. N : 2 * m \in 1 .. N =>
             /\ C(m) \in 1 .. N /\ C(m) \div 2 = m
             /\ \A j \in {2 * m, 2 * m + 1} \cap 1 .. N : key[q[C(m)]] >= key[q[j]]
    BY LargerChildIsLargest
  <1> HIDE DEF P, C, r, N, bottom
  <1>13. N \in Nat
    BY DEF N
  <1> SUFFICES ASSUME NEW j \in (1 .. N) \ {1} PROVE key[r[j \div 2]] >= key[r[j]]
    BY <1>6 DEF IsHeap, r
  <1> DEFINE p == j \div 2
  <1>14. p \in 1 .. N /\ p < j /\ (j = 2 * p \/ j = 2 * p + 1)
    BY <1>13, HalfOf
  <1>15. 2 * p \in 1 .. N /\ j \in {2 * p, 2 * p + 1} \cap 1 .. N
    BY <1>13, <1>14
  <1>16. r[j] = IF j = e THEN q[i] ELSE IF j \in P THEN q[C(j)] ELSE q[j]
    BY <1>4
  <1>17. r[p] = IF p = e THEN q[i] ELSE IF p \in P THEN q[C(p)] ELSE q[p]
    BY <1>4, <1>14
  <1>18. /\ j # i /\ p # i => key[q[p]] >= key[q[j]]
         /\ p = i /\ i # 1 => key[q[i \div 2]] >= key[q[j]]
    BY <1>7
  <1>19. key[q[C(p)]] >= key[q[j]] /\ C(p) \in 1 .. N
    BY <1>12, <1>14, <1>15
  <1>20. p = j \div 2
    OBVIOUS
  <1> HIDE DEF p
  <1>21. CASE j \in P /\ j # i
    <2>1. PICK m \in P \ {e} : C(m) = j
      BY <1>21, <1>10
    <2>2. m = p
      BY <2>1, <1>12, <1>9, <1>2, <1>20
    <2>3. r[p] = q[j] /\ p \in P /\ p # e
      BY <2>1, <2>2, <1>17
    <2>4. CASE j = e
      <3>1. key[q[j]] > key[q[i]]
        BY <2>1, <1>9
      <3> QED BY <3>1, <2>3, <2>4, <1>16, <1>20, <1>5, <1>6
    <2>5. CASE j # e
      <3>1. r[j] = q[C(j)]
        BY <2>5, <1>21, <1>16
      <3>2. C(j) \in P \ {i} /\ C(j) \in 1 .. N /\ C(j) \div 2 = j /\ 2 * j \in 1 .. N
        BY <2>5, <1>21, <1>9, <1>12
      <3>3. C(j) # 1
        BY <3>2, <1>14
      <3>4. key[q[j]] >= key[q[C(j)]]
        BY <3>2, <3>3, <1>7, <1>21
      <3> QED BY <3>1, <3>4, <2>3, <1>20
    <2> QED BY <2>4, <2>5
  <1>22. CASE j = i
    <2>1. p \notin P
      BY <1>22, <1>1, <1>14, <1>13
    <2>2. r[p] = q[p]
      BY <2>1, <1>17, <1>1
    <2>3. CASE i = e
      BY <2>2, <2>3, <1>22, <1>16, <1>8, <1>20
    <2>4. CASE i # e
      <3>1. r[j] = q[C(i)]
        BY <2>4, <1>22, <1>16, <1>2
      <3>2. C(i) \in 1 .. N /\ C(i) \div 2 = i /\ i # 1 /\ C(i) # 1
        BY <2>4, <1>2, <1>9, <1>12, <1>22
      <3> QED BY <3>1, <3>2, <2>2, <1>7, <1>22, <1>20
    <2> QED BY <2>3, <2>4
  <1>23. CASE j \notin P
    <2>1. r[j] = q[j] /\ j # i
      BY <1>23, <1>16, <1>1, <1>2
    <2>2. CASE p \notin P
      BY <2>1, <2>2, <1>17, <1>18, <1>1, <1>2, <1>20
    <2>3. CASE p \in P \ {e}
      BY <2>1, <2>3, <1>17, <1>19, <1>20
    <2>4. CASE p = e
      <3>1. ~ (key[q[C(p)]] > key[q[i]])
        BY <2>4, <1>11, <1>15
      <3>2. r[p] = q[i]
        BY <2>4, <1>17
      <3>3. key[q[C(p)]] \in Int /\ key[q[i]] \in Int /\ key[q[j]] \in Int
        BY <1>5, <1>6, <1>19
      <3> QED BY <3>1, <3>2, <3>3, <2>1, <1>19, <1>20
    <2> QED BY <2>2, <2>3, <2>4
  <1> QED BY <1>21, <1>22, <1>23

-----------------------------------------------------------------------------
\* Insert keeps the order of the heap.
THEOREM InsertKeepsHeap ==
    ASSUME NEW T, NEW q \in Seq(T), NEW node \in T,
           NEW key, \A t \in T : key[t] \in Int, IsHeap(q, key)
    PROVE  IsHeap(Insert(q, key, node), key)
  <1> DEFINE a == Append(q, node)
             N == Len(q) + 1
  <1>1. a \in Seq(T) /\ Len(a) = N /\ N \in Nat /\ N > 0
    OBVIOUS
  <1>2. \A j \in 1 .. Len(q) : a[j] = q[j]
    OBVIOUS
  <1>3. Integral(a, key)
    BY <1>1 DEF Integral, Entries
  <1>4. HeapExcept(a, key, N)
    <2> SUFFICES ASSUME NEW j \in (1 .. N) \ {1}
                 PROVE  /\ j # N /\ j \div 2 # N => key[a[j \div 2]] >= key[a[j]]
                        /\ j \div 2 # N
      BY <1>1 DEF HeapExcept, Entries
    <2>1. j \div 2 \in 1 .. N /\ j \div 2 < j
      BY <1>1, HalfOf
    <2>2. ASSUME j # N PROVE key[a[j \div 2]] >= key[a[j]]
      <3>1. j \in 1 .. Len(q) /\ j \div 2 \in 1 .. Len(q)
        BY <2>1, <2>2, <1>1
      <3>2. key[q[j \div 2]] >= key[q[j]]
        BY <3>1 DEF IsHeap, Entries
      <3> HIDE DEF a
      <3> QED BY <3>1, <3>2, <1>2
    <2> HIDE DEF a
    <2> QED BY <2>1, <2>2, <1>1
  <1>5. N \in Entries(a) /\ 2 * N \notin Entries(a)
    BY <1>1 DEF Entries
  <1>6. Insert(q, key, node) = InsertFixup(a, key, N)
    BY DEF Insert
  <1> HIDE DEF a, N
  <1> QED BY <1>1, <1>3, <1>4, <1>5, <1>6, InsertFixupRepairs

\* Taking entry i out of a heap in which only entry i may be out of place.
LEMMA MovedHeap ==
    ASSUME NEW T, NEW q \in Seq(T), NEW i \in 1 .. Len(q) - 1, NEW key, HeapExcept(q, key, i)
    PROVE  HeapExcept(Moved(q, i), key, i)
  <1> DEFINE m == Moved(q, i)
             N == Len(q) - 1
  <1>1. Len(m) = N /\ N \in Nat
    BY MovedQueue
  <1>2. \A j \in 1 .. N : j # i => m[j] = q[j]
    BY DEF Moved
  <1> SUFFICES ASSUME NEW j \in (1 .. N) \ {1}
               PROVE  /\ j # i /\ j \div 2 # i => key[m[j \div 2]] >= key[m[j]]
                      /\ j \div 2 = i /\ i # 1 => key[m[i \div 2]] >= key[m[j]]
    BY <1>1 DEF HeapExcept, Entries
  <1>3. j \div 2 \in 1 .. N /\ j \div 2 < j
    BY <1>1, HalfOf
  <1>4. /\ j # i /\ j \div 2 # i => key[q[j \div 2]] >= key[q[j]]
        /\ j \div 2 = i /\ i # 1 => key[q[i \div 2]] >= key[q[j]]
    BY <1>1 DEF HeapExcept, Entries
  <1>5. i # 1 => i \div 2 \in 1 .. N /\ i \div 2 < i
    BY <1>1, HalfOf
  <1> HIDE DEF m, N
  <1> QED BY <1>1, <1>2, <1>3, <1>4, <1>5

\* Remove keeps the order of the heap, also when the key of the node it takes out
\* has just been changed.
THEOREM RemoveKeepsHeap ==
    ASSUME NEW T, NEW q \in Seq(T), NEW i \in Entries(q),
           NEW key, \A t \in T : key[t] \in Int, HeapExcept(q, key, i)
    PROVE  IsHeap(Remove(q, key, i), key)
  <1>0. Len(q) \in Nat /\ Len(q) > 0 /\ i \in 1 .. Len(q)
    BY DEF Entries
  <1>1. Moved(q, i) \in Seq(T) /\ Len(Moved(q, i)) = Len(q) - 1
    BY <1>0, MovedQueue
  <1>2. CASE i = Len(q)
    <2>1. Remove(q, key, i) = SubSeq(q, 1, Len(q) - 1)
      BY <1>2 DEF Remove
    <2> SUFFICES ASSUME NEW j \in (1 .. Len(q) - 1) \ {1}
                 PROVE  key[q[j \div 2]] >= key[q[j]]
      <3>1. Len(SubSeq(q, 1, Len(q) - 1)) = Len(q) - 1
        <4>1. SubSeq(q, 1, Len(q) - 1) = Moved(q, i)
          BY <1>0, <1>2 DEF Moved
        <4> QED BY <4>1, <1>1
      <3>2. \A j \in 1 .. Len(q) - 1 : SubSeq(q, 1, Len(q) - 1)[j] = q[j]
        BY <1>0
      <3>3. \A j \in (1 .. Len(q) - 1) \ {1} : j \div 2 \in 1 .. Len(q) - 1
        BY <1>0
      <3> HIDE DEF Remove
      <3> QED BY <2>1, <3>1, <3>2, <3>3 DEF IsHeap, Entries
    <2>2. j \div 2 \in 1 .. Len(q) /\ j \div 2 < j
      BY <1>0, HalfOf
    <2> QED BY <2>2, <1>0, <1>2 DEF HeapExcept, Entries
  <1>3. CASE i # Len(q)
    <2> DEFINE m == Moved(q, i)
    <2>1. i \in Entries(m) /\ Len(m) \in Nat
      BY <1>0, <1>1, <1>3 DEF Entries
    <2>2. HeapExcept(m, key, i)
      BY <1>0, <1>3, MovedHeap
    <2>3. Integral(m, key)
      BY <1>1 DEF Integral, Entries
    <2>4. Remove(q, key, i) = IF Climb(m, key, i) # i THEN InsertFixup(m, key, i)
                              ELSE RemoveFixup(m, key, i)
      BY <1>3 DEF Remove, Moved
    <2> HIDE DEF m
    <2>5. CASE Climb(m, key, i) # i
      BY <2>1, <2>2, <2>3, <2>4, <2>5, InsertFixupRepairs
    <2>6. CASE Climb(m, key, i) = i
      <3>1. StopsAt(m, key, i, i)
        BY <2>1, <2>6, PathUpIsPath DEF IsPath, ClimbStops
      <3> QED BY <3>1, <2>1, <2>2, <2>3, <2>4, <2>6, RemoveFixupRepairs
    <2> QED BY <2>5, <2>6
  <1> QED BY <1>2, <1>3

\* RemoveFront keeps the order of the heap.
THEOREM RemoveFrontKeepsHeap ==
    ASSUME NEW T, NEW q \in Seq(T), q # <<>>,
           NEW key, \A t \in T : key[t] \in Int, HeapExcept(q, key, 1)
    PROVE  IsHeap(RemoveFront(q, key), key)
  <1>0. Len(q) \in Nat /\ Len(q) > 0
    OBVIOUS
  <1>1. CASE Len(q) = 1
    BY <1>1 DEF RemoveFront, IsHeap, Entries
  <1>2. CASE Len(q) # 1
    <2>0. 1 \in 1 .. Len(q) /\ 1 \in 1 .. Len(q) - 1
      <3> DEFINE N == Len(q)
      <3>1. N \in Nat /\ N > 0 /\ N # 1
        BY <1>0, <1>2
      <3> HIDE DEF N
      <3>2. 1 \in 1 .. N /\ 1 \in 1 .. N - 1
        BY <3>1
      <3> QED BY <3>2 DEF N
    <2> DEFINE m == Moved(q, 1)
    <2>1. m \in Seq(T) /\ Len(m) = Len(q) - 1 /\ 1 \in Entries(m)
      <3> HIDE DEF m
      <3>1. m \in Seq(T) /\ Len(m) = Len(q) - 1
        BY <2>0, MovedQueue DEF m
      <3> QED BY <3>1, <2>0 DEF Entries
    <2>2. HeapExcept(m, key, 1)
      BY <2>0, MovedHeap
    <2>3. Integral(m, key)
      BY <2>1 DEF Integral, Entries
    <2>4. RemoveFront(q, key) = RemoveFixup(m, key, 1)
      BY <1>2 DEF RemoveFront, Moved
    <2>5. StopsAt(m, key, 1, 1)
      BY DEF StopsAt
    <2> HIDE DEF m
    <2> QED BY <2>1, <2>2, <2>3, <2>4, <2>5, <1>0, RemoveFixupRepairs
  <1> QED BY <1>1, <1>2

\* A heap is one at every entry.
LEMMA HeapIsHeapExcept ==
    ASSUME NEW T, NEW q \in Seq(T), NEW key, \A t \in T : key[t] \in Int,
           IsHeap(q, key), NEW i \in Entries(q)
    PROVE  HeapExcept(q, key, i)
  <1> SUFFICES ASSUME NEW j \in Entries(q) \ {1}
               PROVE  /\ j # i /\ j \div 2 # i => key[q[j \div 2]] >= key[q[j]]
                      /\ j \div 2 = i /\ i # 1 => key[q[i \div 2]] >= key[q[j]]
    BY DEF HeapExcept
  <1>1. \A k \in Entries(q) \ {1} : key[q[k \div 2]] >= key[q[k]]
    BY DEF IsHeap
  <1>2. \A k \in Entries(q) : key[q[k]] \in Int
    BY DEF Entries
  <1>3. \A k \in Entries(q) \ {1} : k \div 2 \in Entries(q)
    BY HalfOf DEF Entries
  <1>4. ASSUME j \div 2 = i, i # 1 PROVE key[q[i \div 2]] >= key[q[j]]
    <2>1. key[q[i]] >= key[q[j]] /\ key[q[i \div 2]] >= key[q[i]]
      BY <1>1, <1>4
    <2>2. key[q[i]] \in Int /\ key[q[j]] \in Int /\ key[q[i \div 2]] \in Int
      BY <1>2, <1>3, <1>4
    <2> QED BY <2>1, <2>2
  <1> QED BY <1>1, <1>4

-----------------------------------------------------------------------------
(* Lists of fibers. *)

\* The elements of a list, as a set and as the nodes of a queue.
LEMMA ListElements ==
    ASSUME NEW T, NEW s \in Seq(T)
    PROVE  /\ Elements(s) \subseteq T /\ Elements(s) = Nodes(s)
           /\ Elements(s) = {} <=> s = <<>>
  <1>1. Len(s) \in Nat /\ \A i \in 1 .. Len(s) : s[i] \in T
    OBVIOUS
  <1>2. Elements(s) = Nodes(s)
    BY DEF Elements, Nodes, Entries
  <1>3. s = <<>> => Elements(s) = {}
    BY DEF Elements
  <1>4. s # <<>> => s[1] \in Elements(s)
    BY DEF Elements
  <1> QED BY <1>1, <1>2, <1>3, <1>4 DEF Elements

\* The empty list.
LEMMA EmptyList == Elements(<<>>) = {} /\ Once(<<>>)
  BY DEF Elements, Once, Entries

\* A list of one fiber.
LEMMA ListOfOne ==
    ASSUME NEW f PROVE Elements(<<f>>) = {f} /\ Once(<<f>>) /\ <<f>> # <<>>
  BY DEF Elements, Once, Entries

\* PushBack on an intrusive list.
LEMMA ListAppend ==
    ASSUME NEW T, NEW s \in Seq(T), NEW x \in T
    PROVE  /\ Append(s, x) \in Seq(T)
           /\ Elements(Append(s, x)) = Elements(s) \cup {x}
           /\ Once(s) /\ x \notin Elements(s) => Once(Append(s, x))
  <1> DEFINE a == Append(s, x)
  <1>1. a \in Seq(T) /\ Len(a) = Len(s) + 1 /\ Len(s) \in Nat
    OBVIOUS
  <1>2. \A i \in 1 .. Len(s) : a[i] = s[i]
    OBVIOUS
  <1>3. a[Len(s) + 1] = x
    OBVIOUS
  <1>4. 1 .. Len(a) = (1 .. Len(s)) \cup {Len(s) + 1}
    BY <1>1
  <1> HIDE DEF a
  <1>5. \A y \in Elements(a) : y \in Elements(s) \cup {x}
    BY <1>2, <1>3, <1>4 DEF Elements
  <1>6. \A y \in Elements(s) \cup {x} : y \in Elements(a)
    BY <1>2, <1>3, <1>4 DEF Elements
  <1>7. Once(s) /\ x \notin Elements(s) => Once(a)
    BY <1>2, <1>3, <1>4 DEF Elements, Once, Entries
  <1> QED BY <1>1, <1>5, <1>6, <1>7 DEF a

\* PopFront on an intrusive list.
LEMMA ListTail ==
    ASSUME NEW T, NEW s \in Seq(T), s # <<>>
    PROVE  /\ Head(s) \in T /\ Tail(s) \in Seq(T)
           /\ Elements(s) = Elements(Tail(s)) \cup {Head(s)}
           /\ Once(s) => Once(Tail(s)) /\ Head(s) \notin Elements(Tail(s))
  <1> DEFINE t == Tail(s)
  <1>1. t \in Seq(T) /\ Len(t) = Len(s) - 1 /\ Len(s) \in Nat /\ Len(s) > 0
    OBVIOUS
  <1>2. \A i \in 1 .. Len(t) : t[i] = s[i + 1]
    OBVIOUS
  <1>3. Head(s) = s[1] /\ Head(s) \in T
    OBVIOUS
  <1> HIDE DEF t
  <1>4. \A y \in Elements(s) : y \in Elements(t) \cup {Head(s)}
    <2> SUFFICES ASSUME NEW i \in 1 .. Len(s), i # 1 PROVE s[i] \in Elements(t)
      BY <1>3 DEF Elements
    <2>1. i - 1 \in 1 .. Len(t) /\ t[i - 1] = s[i]
      BY <1>1, <1>2
    <2> QED BY <2>1 DEF Elements
  <1>5. \A y \in Elements(t) \cup {Head(s)} : y \in Elements(s)
    BY <1>1, <1>2, <1>3 DEF Elements
  <1>6. Once(s) => Once(t) /\ Head(s) \notin Elements(t)
    BY <1>1, <1>2, <1>3 DEF Elements, Once, Entries
  <1> QED BY <1>1, <1>3, <1>4, <1>5, <1>6 DEF t

\* A value computed step by step.
Iterates(g, n, a, step) == g[0] = a /\ \A i \in 1 .. n : g[i] = step[<<g[i - 1], i>>]

\* A loop over 1 .. n has a result at each turn: the function that KeptIn and
\* InsertAll define by recursion exists.
LEMMA IterationExists ==
    ASSUME NEW n \in Nat, NEW T, NEW a \in T, NEW step \in [T \X (1 .. n) -> T]
    PROVE  \E g \in [0 .. n -> T] : Iterates(g, n, a, step)
  <1> DEFINE Upto(g, m) == g[0] = a /\ \A i \in 1 .. n : i <= m => g[i] = step[<<g[i - 1], i>>]
             S == {m \in Nat : \E g \in [0 .. n -> T] : Upto(g, m)}
  <1>1. 0 \in S
    <2>1. [i \in 0 .. n |-> a] \in [0 .. n -> T] /\ Upto([i \in 0 .. n |-> a], 0)
      OBVIOUS
    <2> HIDE DEF Upto
    <2> QED BY <2>1
  <1>2. ASSUME NEW m \in Nat, m \in S PROVE m + 1 \in S
    <2>1. PICK g \in [0 .. n -> T] : Upto(g, m)
      BY <1>2
    <2>2. CASE m + 1 > n
      <3>1. Upto(g, m + 1)
        BY <2>1, <2>2
      <3> HIDE DEF Upto
      <3> QED BY <3>1
    <2>3. CASE m + 1 <= n
      <3> DEFINE h == [i \in 0 .. n |-> IF i = m + 1 THEN step[<<g[m], m + 1>>] ELSE g[i]]
      <3>1. <<g[m], m + 1>> \in T \X (1 .. n)
        BY <2>3
      <3>2. h \in [0 .. n -> T]
        BY <3>1
      <3>3. \A i \in 0 .. n : i <= m => h[i] = g[i]
        OBVIOUS
      <3>4. h[m + 1] = step[<<g[m], m + 1>>]
        BY <2>3
      <3> HIDE DEF h
      <3>5. h[0] = a
        BY <3>3, <2>1
      <3>6. ASSUME NEW i \in 1 .. n, i <= m + 1 PROVE h[i] = step[<<h[i - 1], i>>]
        <4>1. CASE i = m + 1
          <5>1. h[i - 1] = g[m] /\ i - 1 = m
            BY <4>1, <3>3, <2>3
          <5> QED BY <5>1, <4>1, <3>4
        <4>2. CASE i <= m
          <5>1. i - 1 \in 0 .. n /\ i - 1 <= m /\ i \in 0 .. n
            BY <4>2
          <5>2. h[i] = g[i] /\ h[i - 1] = g[i - 1]
            BY <5>1, <4>2, <3>3
          <5> QED BY <5>2, <4>2, <2>1
        <4> QED BY <4>1, <4>2, <3>6
      <3>7. Upto(h, m + 1)
        BY <3>5, <3>6
      <3> HIDE DEF Upto
      <3> QED BY <3>2, <3>7
    <2> QED BY <2>2, <2>3
  <1>3. Nat \subseteq S
    <2> HIDE DEF S
    <2> QED BY <1>1, <1>2, InductionOnNat
  <1>4. PICK g \in [0 .. n -> T] : Upto(g, n)
    <2>1. n \in S
      <3> HIDE DEF S
      <3> QED BY <1>3
    <2> HIDE DEF Upto
    <2> QED BY <2>1
  <1> QED BY <1>4 DEF Iterates

\* kept[i] is what is kept of the first i nodes of a list.
KeepsUpTo(kept, s, S, T) ==
    /\ kept[0] = <<>>
    /\ \A i \in 0 .. Len(s) : kept[i] \in Seq(T)
    /\ \A i \in 1 .. Len(s) :
          kept[i] = IF s[i] \in S THEN Append(kept[i - 1], s[i]) ELSE kept[i - 1]

\* KeptIn goes along the list.
LEMMA KeptInSteps ==
    ASSUME NEW T, NEW s \in Seq(T), NEW S
    PROVE  \E kept : KeepsUpTo(kept, s, S, T) /\ KeptIn(s, S) = kept[Len(s)]
  <1> DEFINE n == Len(s)
             step == [p \in Seq(T) \X (1 .. n) |->
                         IF s[p[2]] \in S THEN Append(p[1], s[p[2]]) ELSE p[1]]
             kept == CHOOSE kept : kept = [i \in 0 .. Len(s) |->
                         IF i = 0 THEN <<>>
                         ELSE IF s[i] \in S THEN Append(kept[i - 1], s[i]) ELSE kept[i - 1]]
  <1>0. n \in Nat /\ \A i \in 1 .. n : s[i] \in T
    OBVIOUS
  <1>1. step \in [Seq(T) \X (1 .. n) -> Seq(T)] /\ <<>> \in Seq(T)
    BY <1>0
  <1>2. PICK g \in [0 .. n -> Seq(T)] : Iterates(g, n, <<>>, step)
    <2> HIDE DEF step, n
    <2> QED BY <1>0, <1>1, IterationExists
  <1>3. \A i \in 1 .. n : g[i] = IF s[i] \in S THEN Append(g[i - 1], s[i]) ELSE g[i - 1]
    <2> TAKE i \in 1 .. n
    <2> HIDE DEF n, step
    <2>1. i - 1 \in 0 .. n
      BY <1>0
    <2>2. g[i - 1] \in Seq(T)
      BY <2>1
    <2>3. step[<<g[i - 1], i>>] = IF s[i] \in S THEN Append(g[i - 1], s[i]) ELSE g[i - 1]
      BY <2>2 DEF step
    <2> QED BY <2>3, <1>2 DEF Iterates
  <1>4. g = [i \in 0 .. Len(s) |->
                 IF i = 0 THEN <<>>
                 ELSE IF s[i] \in S THEN Append(g[i - 1], s[i]) ELSE g[i - 1]]
    <2>1. \A i \in 0 .. n : i # 0 => i \in 1 .. n
      BY <1>0
    <2> QED BY <1>2, <1>3, <2>1 DEF Iterates
  <1>5. kept = [i \in 0 .. Len(s) |->
                 IF i = 0 THEN <<>>
                 ELSE IF s[i] \in S THEN Append(kept[i - 1], s[i]) ELSE kept[i - 1]]
    BY <1>4
  <1>6. KeptIn(s, S) = kept[n]
    BY DEF KeptIn
  <1> HIDE DEF kept
  <1>7. kept[0] = <<>> /\ \A i \in 1 .. n : kept[i] = IF s[i] \in S THEN Append(kept[i - 1], s[i])
                                                       ELSE kept[i - 1]
    <2>1. 0 \in 0 .. n /\ \A i \in 1 .. n : i \in 0 .. n /\ i # 0
      BY <1>0
    <2> QED BY <1>5, <2>1
  <1> HIDE DEF step, n
  <1> DEFINE I == {m \in Nat : m <= n => kept[m] \in Seq(T)}
  <1>8. 0 \in I
    BY <1>7, <1>1
  <1>9. ASSUME NEW m \in Nat, m \in I PROVE m + 1 \in I
    <2> SUFFICES ASSUME m + 1 <= n PROVE kept[m + 1] \in Seq(T)
      OBVIOUS
    <2>1. kept[m] \in Seq(T) /\ m + 1 \in 1 .. n /\ m + 1 - 1 = m /\ s[m + 1] \in T
      BY <1>0, <1>9
    <2>2. kept[m + 1] = IF s[m + 1] \in S THEN Append(kept[m], s[m + 1]) ELSE kept[m]
      BY <1>7, <2>1
    <2> QED BY <2>1, <2>2
  <1>10. Nat \subseteq I
    <2> HIDE DEF I
    <2> QED BY <1>8, <1>9, InductionOnNat
  <1>11. \A i \in 0 .. n : kept[i] \in Seq(T)
    BY <1>10, <1>0
  <1>12. KeepsUpTo(kept, s, S, T) /\ KeptIn(s, S) = kept[Len(s)]
    BY <1>6, <1>7, <1>11 DEF n, KeepsUpTo
  <1> QED BY <1>12

\* The nodes of a list that are in S.
LEMMA KeptInList ==
    ASSUME NEW T, NEW s \in Seq(T), NEW S
    PROVE  /\ KeptIn(s, S) \in Seq(T)
           /\ Elements(KeptIn(s, S)) = Elements(s) \cap S
           /\ Once(s) => Once(KeptIn(s, S))
  <1> DEFINE n == Len(s)
  <1>0. n \in Nat /\ \A i \in 1 .. n : s[i] \in T
    OBVIOUS
  <1>1. <<>> \in Seq(T)
    OBVIOUS
  <1>2. PICK kept : KeepsUpTo(kept, s, S, T) /\ KeptIn(s, S) = kept[Len(s)]
    BY KeptInSteps
  <1>3. KeptIn(s, S) = kept[n]
    BY <1>2
  <1>4. kept[0] = <<>> /\ \A i \in 1 .. n : kept[i] = IF s[i] \in S THEN Append(kept[i - 1], s[i])
                                                       ELSE kept[i - 1]
    BY <1>2 DEF KeepsUpTo
  <1> HIDE DEF n
  <1> DEFINE Good(m) == /\ kept[m] \in Seq(T)
                        /\ Elements(kept[m]) = {s[i] : i \in 1 .. m} \cap S
                        /\ Once(s) => Once(kept[m])
             I == {m \in Nat : m <= n => Good(m)}
  <1>5. 0 \in I
    <2>1. {s[i] : i \in 1 .. 0} = {}
      OBVIOUS
    <2> QED BY <2>1, <1>4, <1>1, EmptyList
  <1>6. ASSUME NEW m \in Nat, m \in I PROVE m + 1 \in I
    <2> SUFFICES ASSUME m + 1 <= n PROVE Good(m + 1)
      OBVIOUS
    <2>1. Good(m) /\ m + 1 \in 1 .. n
      BY <1>0, <1>6
    <2>2. kept[m + 1] = IF s[m + 1] \in S THEN Append(kept[m], s[m + 1]) ELSE kept[m]
      BY <1>4, <2>1
    <2>3. {s[i] : i \in 1 .. m + 1} = {s[i] : i \in 1 .. m} \cup {s[m + 1]}
      <3>1. 1 .. m + 1 = (1 .. m) \cup {m + 1}
        OBVIOUS
      <3> QED BY <3>1
    <2>4. CASE s[m + 1] \notin S
      <3>1. kept[m + 1] = kept[m]
        BY <2>2, <2>4
      <3>2. {s[i] : i \in 1 .. m + 1} \cap S = {s[i] : i \in 1 .. m} \cap S
        BY <2>3, <2>4
      <3> QED BY <2>1, <3>1, <3>2
    <2>5. CASE s[m + 1] \in S
      <3> DEFINE a == Append(kept[m], s[m + 1])
      <3>1. /\ a \in Seq(T) /\ Elements(a) = Elements(kept[m]) \cup {s[m + 1]}
            /\ Once(kept[m]) /\ s[m + 1] \notin Elements(kept[m]) => Once(a)
        <4> HIDE DEF a
        <4>1. kept[m] \in Seq(T) /\ s[m + 1] \in T
          BY <2>1, <1>0
        <4> QED BY <4>1, ListAppend DEF a
      <3>2. Once(s) => s[m + 1] \notin Elements(kept[m])
        <4> SUFFICES ASSUME Once(s), NEW i \in 1 .. m, s[m + 1] = s[i] PROVE FALSE
          BY <2>1
        <4>1. i \in Entries(s) /\ m + 1 \in Entries(s) /\ i # m + 1
          BY <1>0, <2>1 DEF Entries, n
        <4> QED BY <4>1 DEF Once
      <3>3. {s[i] : i \in 1 .. m + 1} \cap S = ({s[i] : i \in 1 .. m} \cap S) \cup {s[m + 1]}
        BY <2>3, <2>5
      <3>4. kept[m + 1] = a
        BY <2>2, <2>5
      <3> HIDE DEF a
      <3> QED BY <2>1, <3>1, <3>2, <3>3, <3>4
    <2> QED BY <2>4, <2>5
  <1>7. Nat \subseteq I
    <2> HIDE DEF I
    <2> QED BY <1>5, <1>6, InductionOnNat
  <1>8. Good(n)
    <2>1. n \in I
      <3> HIDE DEF I
      <3> QED BY <1>7, <1>0
    <2> QED BY <2>1, <1>0
  <1> QED BY <1>3, <1>8 DEF Elements, n

\* Insert for each fiber of a list adds exactly those fibers and keeps the heap.
LEMMA InsertAllAdds ==
    ASSUME NEW q \in Seq(Fibers), NEW s \in Seq(Fibers)
    PROVE  /\ InsertAll(q, s) \in Seq(Fibers)
           /\ Elements(InsertAll(q, s)) = Elements(q) \cup Elements(s)
           /\ Once(q) /\ Once(s) /\ Elements(q) \cap Elements(s) = {} => Once(InsertAll(q, s))
           /\ priority \in [Fibers -> Int] /\ IsHeap(q, priority)
                  => IsHeap(InsertAll(q, s), priority)
  <1> DEFINE n == Len(s)
             step == [p \in Seq(Fibers) \X (1 .. n) |-> Insert(p[1], priority, s[p[2]])]
             after == CHOOSE after : after = [i \in 0 .. Len(s) |->
                         IF i = 0 THEN q ELSE Insert(after[i - 1], priority, s[i])]
  <1>0. n \in Nat /\ \A i \in 1 .. n : s[i] \in Fibers
    OBVIOUS
  <1>1. step \in [Seq(Fibers) \X (1 .. n) -> Seq(Fibers)]
    <2> SUFFICES ASSUME NEW r \in Seq(Fibers), NEW i \in 1 .. n
                 PROVE  Insert(r, priority, s[i]) \in Seq(Fibers)
      OBVIOUS
    <2> QED BY <1>0, InsertAdds
  <1>2. PICK g \in [0 .. n -> Seq(Fibers)] : Iterates(g, n, q, step)
    <2> HIDE DEF step, n
    <2> QED BY <1>0, <1>1, IterationExists
  <1>3. \A i \in 1 .. n : g[i] = Insert(g[i - 1], priority, s[i])
    <2> TAKE i \in 1 .. n
    <2> HIDE DEF n, step
    <2>1. i - 1 \in 0 .. n
      BY <1>0
    <2>2. g[i - 1] \in Seq(Fibers)
      BY <2>1
    <2>3. step[<<g[i - 1], i>>] = Insert(g[i - 1], priority, s[i])
      BY <2>2 DEF step
    <2> QED BY <2>3, <1>2 DEF Iterates
  <1>4. g = [i \in 0 .. Len(s) |-> IF i = 0 THEN q ELSE Insert(g[i - 1], priority, s[i])]
    <2>1. \A i \in 0 .. n : i # 0 => i \in 1 .. n
      BY <1>0
    <2> QED BY <1>2, <1>3, <2>1 DEF Iterates
  <1>5. after = [i \in 0 .. Len(s) |-> IF i = 0 THEN q ELSE Insert(after[i - 1], priority, s[i])]
    BY <1>4
  <1>6. InsertAll(q, s) = after[n]
    BY DEF InsertAll
  <1> HIDE DEF after
  <1>7. after[0] = q /\ \A i \in 1 .. n : after[i] = Insert(after[i - 1], priority, s[i])
    <2>1. 0 \in 0 .. n /\ \A i \in 1 .. n : i \in 0 .. n /\ i # 0
      BY <1>0
    <2> QED BY <1>5, <2>1
  <1> HIDE DEF step, n
  <1> DEFINE Good(m) ==
               /\ after[m] \in Seq(Fibers)
               /\ Elements(after[m]) = Elements(q) \cup {s[i] : i \in 1 .. m}
               /\ Once(q) /\ Once(s) /\ Elements(q) \cap Elements(s) = {} => Once(after[m])
               /\ priority \in [Fibers -> Int] /\ IsHeap(q, priority) => IsHeap(after[m], priority)
             I == {m \in Nat : m <= n => Good(m)}
  <1>8. 0 \in I
    <2>1. {s[i] : i \in 1 .. 0} = {}
      OBVIOUS
    <2> QED BY <2>1, <1>7
  <1>9. ASSUME NEW m \in Nat, m \in I PROVE m + 1 \in I
    <2> SUFFICES ASSUME m + 1 <= n PROVE Good(m + 1)
      OBVIOUS
    <2>1. Good(m) /\ m + 1 \in 1 .. n /\ m + 1 - 1 = m
      BY <1>0, <1>9
    <2> DEFINE f == s[m + 1]
               a == Insert(after[m], priority, f)
    <2>2. after[m + 1] = a
      BY <1>7, <2>1
    <2>3. {s[i] : i \in 1 .. m + 1} = {s[i] : i \in 1 .. m} \cup {f}
      <3>1. 1 .. m + 1 = (1 .. m) \cup {m + 1}
        OBVIOUS
      <3> QED BY <3>1
    <2>4. after[m] \in Seq(Fibers) /\ f \in Fibers
      BY <2>1, <1>0
    <2>5. /\ a \in Seq(Fibers) /\ Elements(a) = Elements(after[m]) \cup {f}
          /\ Once(after[m]) /\ f \notin Elements(after[m]) => Once(a)
      <3> HIDE DEF f
      <3>1. /\ a \in Seq(Fibers) /\ Nodes(a) = Nodes(after[m]) \cup {f}
            /\ Once(after[m]) /\ f \notin Nodes(after[m]) => Once(a)
        BY <2>4, InsertAdds
      <3> HIDE DEF a
      <3> QED BY <3>1, <2>4, ListElements
    <2>6. priority \in [Fibers -> Int] /\ IsHeap(after[m], priority) => IsHeap(a, priority)
      <3> HIDE DEF f
      <3> QED BY <2>4, InsertKeepsHeap
    <2>7. Once(s) /\ Elements(q) \cap Elements(s) = {} => f \notin Elements(after[m])
      <3> SUFFICES ASSUME Once(s), Elements(q) \cap Elements(s) = {}, f \in Elements(after[m])
                   PROVE  FALSE
        OBVIOUS
      <3>1. f \in Elements(s)
        BY <1>0, <2>1 DEF Elements, n
      <3>2. PICK i \in 1 .. m : f = s[i]
        BY <3>1, <2>1
      <3>3. i \in Entries(s) /\ m + 1 \in Entries(s) /\ i # m + 1
        BY <1>0, <2>1 DEF Entries, n
      <3> QED BY <3>2, <3>3 DEF Once
    <2> HIDE DEF a, f
    <2> QED BY <2>1, <2>2, <2>3, <2>5, <2>6, <2>7
  <1>10. Nat \subseteq I
    <2> HIDE DEF I
    <2> QED BY <1>8, <1>9, InductionOnNat
  <1>11. Good(n)
    <2>1. n \in I
      <3> HIDE DEF I
      <3> QED BY <1>10, <1>0
    <2> QED BY <2>1, <1>0
  <1> QED BY <1>6, <1>11 DEF Elements, n

\* A list that holds no fiber twice is as long as its set of fibers is large.
LEMMA OnceLength ==
    ASSUME NEW T, NEW s \in Seq(T), Once(s)
    PROVE  IsFiniteSet(Elements(s)) /\ Cardinality(Elements(s)) = Len(s)
  <1> DEFINE g == [i \in 1 .. Len(s) |-> s[i]]
  <1>1. Len(s) \in Nat
    OBVIOUS
  <1>2. g \in [1 .. Len(s) -> Elements(s)]
    BY DEF Elements
  <1>3. g \in Surjection(1 .. Len(s), Elements(s))
    BY <1>2 DEF Surjection, Elements
  <1>4. \A i, j \in 1 .. Len(s) : g[i] = g[j] => i = j
    BY DEF Once, Entries
  <1>5. g \in Injection(1 .. Len(s), Elements(s))
    BY <1>2, <1>4 DEF Injection, IsInjective
  <1>6. ExistsBijection(1 .. Len(s), Elements(s))
    BY <1>3, <1>5 DEF ExistsBijection, Bijection
  <1>7. IsFiniteSet(1 .. Len(s)) /\ Cardinality(1 .. Len(s)) = Len(s)
    <2> DEFINE n == Len(s)
    <2>1. n \in Nat /\ 1 \in Int /\ n \in Int
      BY <1>1
    <2> HIDE DEF n
    <2>2. IsFiniteSet(1 .. n) /\ Cardinality(1 .. n) = IF 1 > n THEN 0 ELSE n - 1 + 1
      BY <2>1, FS_Interval
    <2>3. IsFiniteSet(1 .. n) /\ Cardinality(1 .. n) = n
      BY <2>1, <2>2
    <2> QED BY <2>3 DEF n
  <1> HIDE DEF g
  <1> QED BY <1>6, <1>7, FS_Bijection

-----------------------------------------------------------------------------
(* The invariant of the scheduler, in parts. *)

FieldsInv ==
    /\ fiber_state \in [Fibers -> FiberState]
    /\ activity_level \in [Fibers -> {"Suspended", "Schedulable"}]
    /\ priority \in [Fibers -> Int]
    /\ core_mask \in [Fibers -> SUBSET Cores]
    /\ current_core \in [Fibers -> Cores]
    /\ waitable_object \in [Fibers -> WaitableObjects]
    /\ timeout \in [Fibers -> TimeoutValues]
    /\ last_result \in [Fibers -> {"Success", "Timeout"}]
    /\ \A f \in Fibers : fiber_state[f] # "Unallocated" => core_mask[f] # {}

\* The queue holds the fibers that are Scheduled, each once, in the order of a heap.
QueueInv ==
    /\ m_thread_queue \in Seq(Fibers)
    /\ Once(m_thread_queue)
    /\ Elements(m_thread_queue) = {f \in Fibers : fiber_state[f] = "Scheduled"}
    /\ IsHeap(m_thread_queue, priority)

\* The ring of a core holds the fibers that are ScheduledLocal there, each once.
RingInv ==
    /\ local_ring \in [Cores -> Seq(Fibers)]
    /\ \A c \in Cores :
          /\ Once(local_ring[c])
          /\ Elements(local_ring[c]) =
                 {f \in Fibers : fiber_state[f] = "ScheduledLocal" /\ current_core[f] = c}

\* A waiting fiber is in no more than one wait list, once; any other fiber is in
\* none.  That it is in one (FoundInv) is up to who makes fibers wait.
ParkInv ==
    /\ wait_list \in [Fibers -> Seq(Fibers)] /\ m_wait_list \in Seq(Fibers)
    /\ Once(m_wait_list) /\ \A g \in Fibers : Once(wait_list[g])
    /\ \A f \in Fibers : IF fiber_state[f] = "Waiting"
                         THEN \E g \in Fibers \cup {NoFiber} : Parked(f) \subseteq {g} ELSE Parked(f) = {}

\* A waiting fiber is in some wait list.
FoundInv == \A f \in Fibers : fiber_state[f] = "Waiting" => Parked(f) # {}

\* What a core between two dispatches may run, and in which state.
MayBe(p) == CASE p \in {"boot", "user"} -> {"Running"}
              [] p = "booted"           -> {"Running", "Waiting"}
              [] OTHER                  -> {"Running", "Exiting", "Waiting"}

RunInv ==
    /\ running \in [Cores -> Fibers \cup {NoFiber}]
    /\ \A c \in Cores :
          /\ running[c] # NoFiber <=> phase[c] \in {"boot", "booted", "user", "switched"}
          /\ phase[c] \in {"boot", "booted"} => running[c] = MainFiber
          /\ running[c] # NoFiber => /\ current_core[running[c]] = c
                                     /\ fiber_state[running[c]] \in MayBe(phase[c])
    /\ \A f \in Fibers : fiber_state[f] \in {"Running", "Exiting"} => running[current_core[f]] = f

LockInv ==
    /\ m_scheduler_lock \in Cores \cup {NoCore}
    /\ phase \in [Cores -> Phase]
    /\ LockCoversScheduling

Ready  == {f \in Fibers : fiber_state[f] \in {"Scheduled", "ScheduledLocal"}}
Active == {c \in Cores : phase[c] \notin {"rest", "resting"}}

CountInv == m_runnable_fibers = Cardinality(Ready) /\ m_active_cores = Cardinality(Active)

RestInv ==
    /\ wait_value \in [Cores -> 0 .. Cardinality(Fibers)] /\ armed \in [Cores -> BOOLEAN]
    /\ asleep \subseteq {c \in Cores : phase[c] = "resting"}

KernelInv == FieldsInv /\ QueueInv /\ RingInv /\ ParkInv /\ RunInv /\ LockInv /\ CountInv /\ RestInv

USE SchedulerAssumption

\* No core runs f.
Off(f) == \A c \in Cores : running[c] # f

\* A fiber that is ready to run or parked is on no core, while no core is between a
\* system call and the scheduler loop.
LEMMA IdleIsOff ==
    ASSUME RunInv, NEW f \in Fibers, fiber_state[f] \notin {"Running", "Exiting"},
           fiber_state[f] = "Waiting" => \A c \in Cores : phase[c] \notin {"booted", "switched"}
    PROVE  Off(f)
  BY DEF RunInv, MayBe, Off

\* Where the lock is, no other core schedules.
LEMMA OneSchedules ==
    ASSUME LockInv
    PROVE  /\ LockFree => \A c \in Cores : phase[c] \notin {"booted", "switched", "scan", "queue"}
           /\ \A c \in Cores : m_scheduler_lock = c =>
                 /\ phase[c] \in {"booted", "switched", "scan", "queue"}
                 /\ \A d \in Cores \ {c} : phase[d] \notin {"booted", "switched", "scan", "queue"}
  BY DEF LockInv, LockCoversScheduling, LockFree

\* The ready fibers are finitely many.
LEMMA ReadyIsFinite ==
    IsFiniteSet(Ready) /\ Cardinality(Ready) \in 0 .. Cardinality(Fibers) /\ Cardinality(Fibers) \in Nat
  <1>1. Ready \in SUBSET Fibers
    BY DEF Ready
  <1>2. IsFiniteSet(Ready) /\ Cardinality(Ready) <= Cardinality(Fibers)
    BY <1>1, FS_Subset
  <1> QED BY <1>2, FS_CardinalityType

\* A wake-up for n fibers wakes every sleeper or n of them.
LEMMA Wakes ==
    ASSUME asleep \subseteq Cores, NEW n \in Nat, WakeByAddressSingle(n)
    PROVE  /\ asleep' \subseteq asleep
           /\ asleep' = {} \/ Cardinality(asleep \ asleep') = n
  <1>1. IsFiniteSet(asleep) /\ Cardinality(asleep) \in Nat
    BY FS_Subset, FS_CardinalityType
  <1>2. PICK woken \in SUBSET asleep :
            /\ Cardinality(woken) = (IF n < Cardinality(asleep) THEN n ELSE Cardinality(asleep))
            /\ asleep' = asleep \ woken
    BY DEF WakeByAddressSingle
  <1>3. asleep \ asleep' = woken
    BY <1>2
  <1>4. CASE n < Cardinality(asleep)
    BY <1>2, <1>3, <1>4
  <1>5. CASE ~ (n < Cardinality(asleep))
    <2>1. woken = asleep
      BY <1>1, <1>2, <1>5, FS_Subset
    <2> QED BY <2>1, <1>2
  <1> QED BY <1>2, <1>4, <1>5

\* AddToSchedulerUnsafe: what becomes of the fibers it is given, of the queue and
\* of the count.
LEMMA AddedToScheduler ==
    ASSUME FieldsInv, QueueInv, CountInv, RestInv,
           NEW s \in Seq(Fibers), Once(s), Elements(s) \cap Ready = {},
           AddToSchedulerUnsafe(s), UNCHANGED priority
    PROVE  /\ fiber_state' \in [Fibers -> FiberState]
           /\ \A f \in Fibers : fiber_state'[f] =
                  IF f \notin Elements(s) THEN fiber_state[f]
                  ELSE IF activity_level[f] = "Schedulable" THEN "Scheduled" ELSE "Suspended"
           /\ QueueInv'
           /\ m_runnable_fibers' = Cardinality(Ready')
           /\ asleep' \subseteq asleep
           /\ asleep' = {} \/ Cardinality(asleep \ asleep') = m_runnable_fibers' - m_runnable_fibers
  <1> DEFINE runnable == KeptIn(s, {f \in Fibers : activity_level[f] = "Schedulable"})
             R == Elements(runnable)
  <1>1. /\ runnable \in Seq(Fibers) /\ Once(runnable)
        /\ R = {f \in Elements(s) : activity_level[f] = "Schedulable"}
    <2>1. Elements(s) \subseteq Fibers
      BY ListElements
    <2> QED BY <2>1, KeptInList
  <1>2. /\ fiber_state' = [f \in Fibers |-> IF f \in R THEN "Scheduled"
                               ELSE IF f \in Elements(s) THEN "Suspended" ELSE fiber_state[f]]
        /\ m_thread_queue' = InsertAll(m_thread_queue, runnable)
        /\ m_runnable_fibers' = m_runnable_fibers + Len(runnable)
        /\ WakeByAddressSingle(Len(runnable))
    BY DEF AddToSchedulerUnsafe
  <1>3. Len(runnable) \in Nat
    BY <1>1
  <1>4. Len(runnable) = Cardinality(R) /\ IsFiniteSet(R)
    BY <1>1, OnceLength
  <1> HIDE DEF runnable, R
  <1>5. fiber_state' \in [Fibers -> FiberState]
    BY <1>2 DEF FieldsInv, FiberState
  <1>6. \A f \in Fibers : fiber_state'[f] =
                  IF f \notin Elements(s) THEN fiber_state[f]
                  ELSE IF activity_level[f] = "Schedulable" THEN "Scheduled" ELSE "Suspended"
    BY <1>1, <1>2
  <1>7. R \subseteq Fibers /\ R \cap Ready = {}
    <2>1. Elements(s) \subseteq Fibers
      BY ListElements
    <2> QED BY <2>1, <1>1
  <1>8. QueueInv'
    <2>1. Elements(m_thread_queue) \cap R = {}
      BY <1>7 DEF QueueInv, Ready
    <2>2. /\ m_thread_queue' \in Seq(Fibers) /\ Once(m_thread_queue')
          /\ Elements(m_thread_queue') = Elements(m_thread_queue) \cup R
          /\ IsHeap(m_thread_queue', priority)
      BY <1>1, <1>2, <2>1, InsertAllAdds DEF QueueInv, FieldsInv, R
    <2>3. Elements(m_thread_queue) \cup R = {f \in Fibers : fiber_state'[f] = "Scheduled"}
      <3>1. \A f \in Elements(s) : fiber_state[f] # "Scheduled"
        BY ListElements DEF Ready
      <3> QED BY <3>1, <1>1, <1>2, <1>7 DEF QueueInv
    <2> QED BY <2>2, <2>3 DEF QueueInv
  <1>9. m_runnable_fibers' = Cardinality(Ready')
    <2>1. Ready' = Ready \cup R
      <3>1. \A f \in Elements(s) : fiber_state[f] \notin {"Scheduled", "ScheduledLocal"}
        BY ListElements DEF Ready
      <3> QED BY <3>1, <1>1, <1>2, <1>7 DEF Ready
    <2>2. Cardinality(Ready \cup R) = Cardinality(Ready) + Cardinality(R) - Cardinality(Ready \cap R)
      BY <1>4, ReadyIsFinite, FS_Union
    <2>3. Cardinality(Ready \cap R) = 0
      <3>1. Ready \cap R = {}
        BY <1>7
      <3> QED BY <3>1, FS_EmptySet
    <2> QED BY <2>1, <2>2, <2>3, <1>2, <1>3, <1>4, ReadyIsFinite DEF CountInv
  <1>10. /\ asleep' \subseteq asleep
         /\ asleep' = {} \/ Cardinality(asleep \ asleep') = Len(runnable)
    <2>1. asleep \subseteq Cores
      BY DEF RestInv
    <2> QED BY <2>1, <1>2, <1>3, Wakes
  <1>11. m_runnable_fibers' - m_runnable_fibers = Len(runnable)
    BY <1>2, <1>3, ReadyIsFinite DEF CountInv
  <1> QED BY <1>5, <1>6, <1>8, <1>9, <1>10, <1>11

\* A heap stays one while the keys of its own nodes do not change.
LEMMA HeapOfOthers ==
    ASSUME NEW q \in Seq(Fibers), NEW key, NEW pri, IsHeap(q, key),
           \A f \in Elements(q) : pri[f] = key[f]
    PROVE  IsHeap(q, pri)
  <1> SUFFICES ASSUME NEW j \in Entries(q) \ {1} PROVE pri[q[j \div 2]] >= pri[q[j]]
    BY DEF IsHeap
  <1>1. key[q[j \div 2]] >= key[q[j]]
    BY DEF IsHeap
  <1>2. Len(q) \in Nat
    OBVIOUS
  <1>3. j \div 2 \in 1 .. Len(q) /\ j \in 1 .. Len(q)
    BY <1>2, HalfOf DEF Entries
  <1>4. q[j \div 2] \in Elements(q) /\ q[j] \in Elements(q)
    BY <1>3 DEF Elements
  <1> QED BY <1>1, <1>4

\* Reschedule: what becomes of the fiber, of the queue and of the count.
LEMMA Rescheduled ==
    ASSUME FieldsInv, QueueInv, CountInv, RestInv,
           NEW f \in Fibers, fiber_state[f] # "ScheduledLocal",
           NEW activity, fiber_state[f] = "Scheduled" => activity[f] # "Suspended",
           NEW pri \in [Fibers -> Int], \A g \in Fibers \ {f} : pri[g] = priority[g],
           Reschedule(f, activity, pri), priority' = pri
    PROVE  /\ fiber_state' = [fiber_state EXCEPT ![f] =
                                  IF @ = "Waiting" THEN "Waiting"
                                  ELSE IF activity[f] = "Suspended" THEN "Suspended" ELSE "Scheduled"]
           /\ QueueInv'
           /\ m_runnable_fibers' = Cardinality(Ready')
           /\ asleep' \subseteq asleep
           /\ asleep' = {} \/ Cardinality(asleep \ asleep') >= m_runnable_fibers' - m_runnable_fibers
  <1> DEFINE q == m_thread_queue
  <1>0. /\ q \in Seq(Fibers) /\ Once(q) /\ IsHeap(q, priority) /\ Len(q) \in Nat
        /\ Elements(q) = {g \in Fibers : fiber_state[g] = "Scheduled"}
        /\ Elements(q) = Nodes(q)
    BY ListElements DEF QueueInv
  <1>1. /\ fiber_state \in [Fibers -> FiberState] /\ asleep \subseteq Cores
        /\ m_runnable_fibers = Cardinality(Ready) /\ priority \in [Fibers -> Int]
    BY DEF FieldsInv, RestInv, CountInv
  <1>2. f \notin Elements(q) => IsHeap(q, pri)
    BY <1>0, HeapOfOthers
  <1>3. CASE UNCHANGED readyVars /\ fiber_state[f] = "Waiting"
    <2>1. Ready' = Ready /\ asleep \ asleep' = {}
      BY <1>3 DEF Ready, readyVars
    <2>2. QueueInv'
      BY <1>0, <1>2, <1>3 DEF QueueInv, readyVars
    <2>3. fiber_state' = [fiber_state EXCEPT ![f] =
                                  IF @ = "Waiting" THEN "Waiting"
                                  ELSE IF activity[f] = "Suspended" THEN "Suspended" ELSE "Scheduled"]
      BY <1>1, <1>3 DEF readyVars
    <2> QED BY <2>1, <2>2, <2>3, <1>1, <1>3, ReadyIsFinite, FS_EmptySet DEF readyVars
  <1>4. CASE fiber_state[f] # "Waiting" /\ activity[f] = "Suspended"
    <2>1. /\ fiber_state' = [fiber_state EXCEPT ![f] = "Suspended"]
          /\ UNCHANGED <<m_thread_queue, m_runnable_fibers, asleep>>
      BY <1>4 DEF Reschedule
    <2>2. f \notin Elements(q) /\ f \notin Ready
      BY <1>0, <1>4 DEF Ready
    <2>3. Ready' = Ready /\ asleep \ asleep' = {}
      BY <2>1, <2>2, <1>1 DEF Ready
    <2>4. Elements(q) = {g \in Fibers : fiber_state'[g] = "Scheduled"}
      BY <2>1, <2>2, <1>0, <1>1
    <2>5. QueueInv'
      BY <2>1, <2>2, <2>4, <1>0, <1>2 DEF QueueInv
    <2>6. fiber_state' = [fiber_state EXCEPT ![f] =
                                  IF @ = "Waiting" THEN "Waiting"
                                  ELSE IF activity[f] = "Suspended" THEN "Suspended" ELSE "Scheduled"]
      BY <2>1, <1>4
    <2>7. Cardinality(asleep \ asleep') = 0 /\ m_runnable_fibers' - m_runnable_fibers = 0
      BY <2>1, <2>3, <1>1, ReadyIsFinite, FS_EmptySet
    <2>8. m_runnable_fibers' = Cardinality(Ready') /\ asleep' \subseteq asleep
      BY <2>1, <2>3, <1>1
    <2>9. Cardinality(asleep \ asleep') >= m_runnable_fibers' - m_runnable_fibers
      BY <2>7
    <2> QED BY <2>5, <2>6, <2>8, <2>9
  <1>5. CASE fiber_state[f] # "Waiting" /\ activity[f] # "Suspended"
    <2>1. /\ fiber_state' = [fiber_state EXCEPT ![f] = "Scheduled"]
          /\ WakeByAddressSingle(1)
      BY <1>5 DEF Reschedule
    <2>2. fiber_state' = [fiber_state EXCEPT ![f] =
                                  IF @ = "Waiting" THEN "Waiting"
                                  ELSE IF activity[f] = "Suspended" THEN "Suspended" ELSE "Scheduled"]
      BY <2>1, <1>5
    <2>3. /\ asleep' \subseteq asleep
          /\ asleep' = {} \/ Cardinality(asleep \ asleep') = 1
      BY <2>1, <1>1, Wakes
    <2>4. Ready' = Ready \cup {f} /\ {g \in Fibers : fiber_state'[g] = "Scheduled"} = Elements(q) \cup {f}
      BY <2>1, <1>0, <1>1 DEF Ready
    <2>5. CASE fiber_state[f] = "Scheduled"
      <3> DEFINE i == FindIterTo(q, f)
                 r == Remove(q, pri, i)
      <3>1. m_thread_queue' = Insert(r, pri, f) /\ UNCHANGED m_runnable_fibers
        BY <2>5, <1>5 DEF Reschedule
      <3>2. f \in Elements(q) /\ f \in Ready
        BY <2>5, <1>0 DEF Ready
      <3>3. i \in Entries(q) /\ q[i] = f
        BY <3>2, <1>0, FindIterToFinds
      <3> HIDE DEF i
      <3>4. HeapExcept(q, pri, i)
        <4>1. HeapExcept(q, priority, i)
          <5>1. \A t \in Fibers : priority[t] \in Int
            BY <1>1
          <5> QED BY <5>1, <1>0, <3>3, HeapIsHeapExcept
        <4>2. \A j \in Entries(q) : j # i => q[j] \in Fibers /\ q[j] # f
          BY <1>0, <3>3 DEF Once, Entries
        <4>3. \A j \in Entries(q) : j # i => pri[q[j]] = priority[q[j]]
          BY <4>2
        <4>4. \A j \in Entries(q) \ {1} : j \div 2 \in Entries(q) /\ j \div 2 # j
          BY <1>0, HalfOf DEF Entries
        <4> HIDE DEF q
        <4> QED BY <4>1, <4>3, <4>4, <3>3 DEF HeapExcept
      <3>5. r \in Seq(Fibers) /\ Once(r) /\ Nodes(r) = Nodes(q) \ {f}
        BY <1>0, <3>3, RemoveRemoves
      <3>6. IsHeap(r, pri)
        <4>1. \A t \in Fibers : pri[t] \in Int
          OBVIOUS
        <4> QED BY <4>1, <1>0, <3>3, <3>4, RemoveKeepsHeap
      <3> HIDE DEF r
      <3>7. /\ m_thread_queue' \in Seq(Fibers) /\ Once(m_thread_queue')
            /\ Nodes(m_thread_queue') = Nodes(r) \cup {f}
        BY <3>1, <3>5, InsertAdds
      <3>8. IsHeap(m_thread_queue', pri)
        <4>1. \A t \in Fibers : pri[t] \in Int
          OBVIOUS
        <4> QED BY <4>1, <3>1, <3>5, <3>6, InsertKeepsHeap
      <3>9. Elements(m_thread_queue') = Elements(q) \cup {f}
        <4>1. Elements(m_thread_queue') = Nodes(m_thread_queue')
          BY <3>7, ListElements
        <4> QED BY <4>1, <3>7, <3>5, <1>0
      <3>10. QueueInv'
        BY <3>7, <3>8, <3>9, <2>4 DEF QueueInv
      <3>11. Ready' = Ready
        BY <3>2, <2>4
      <3> QED BY <2>2, <2>3, <3>1, <3>10, <3>11, <1>1, ReadyIsFinite, FS_CardinalityType
    <2>6. CASE fiber_state[f] # "Scheduled"
      <3>1. m_thread_queue' = Insert(q, pri, f) /\ m_runnable_fibers' = m_runnable_fibers + 1
        BY <2>6, <1>5 DEF Reschedule
      <3>2. f \notin Elements(q) /\ f \notin Ready
        BY <2>6, <1>0 DEF Ready
      <3>3. /\ m_thread_queue' \in Seq(Fibers) /\ Once(m_thread_queue')
            /\ Nodes(m_thread_queue') = Nodes(q) \cup {f}
        BY <3>1, <3>2, <1>0, InsertAdds
      <3>4. IsHeap(m_thread_queue', pri)
        <4>1. \A t \in Fibers : pri[t] \in Int
          OBVIOUS
        <4> QED BY <4>1, <3>1, <3>2, <1>0, <1>2, InsertKeepsHeap
      <3>5. Elements(m_thread_queue') = Elements(q) \cup {f}
        <4>1. Elements(m_thread_queue') = Nodes(m_thread_queue')
          BY <3>3, ListElements
        <4> QED BY <4>1, <3>3, <1>0
      <3>6. QueueInv'
        BY <3>3, <3>4, <3>5, <2>4 DEF QueueInv
      <3>7. Cardinality(Ready') = Cardinality(Ready) + 1
        BY <2>4, <3>2, ReadyIsFinite, FS_AddElement
      <3> QED BY <2>2, <2>3, <3>1, <3>6, <3>7, <1>1, ReadyIsFinite
    <2> QED BY <2>5, <2>6
  <1> QED BY <1>3, <1>4, <1>5 DEF Reschedule

-----------------------------------------------------------------------------
(* What leaves a part of the invariant alone. *)

\* The fields keep their types when priorities, masks and activity levels stay.
LEMMA FieldsKept ==
    ASSUME FieldsInv, fiber_state' \in [Fibers -> FiberState], current_core' \in [Fibers -> Cores],
           UNCHANGED fiberVars,
           waitable_object' \in [Fibers -> WaitableObjects],
           timeout' \in [Fibers -> TimeoutValues],
           last_result' \in [Fibers -> {"Success", "Timeout"}],
           \A f \in Fibers : fiber_state[f] = "Unallocated" => fiber_state'[f] = "Unallocated"
    PROVE  FieldsInv'
  BY DEF FieldsInv, fiberVars

\* No fiber enters or leaves the queue.
LEMMA QueueKept ==
    ASSUME QueueInv, UNCHANGED m_thread_queue,
           \A f \in Fibers : fiber_state'[f] = "Scheduled" <=> fiber_state[f] = "Scheduled",
           \A f \in Elements(m_thread_queue) : priority'[f] = priority[f]
    PROVE  QueueInv'
  BY HeapOfOthers DEF QueueInv

\* No fiber enters or leaves a local ring.
LEMMA RingKept ==
    ASSUME RingInv, UNCHANGED local_ring,
           \A f \in Fibers : fiber_state'[f] = "ScheduledLocal" <=> fiber_state[f] = "ScheduledLocal",
           \A f \in Fibers : fiber_state[f] = "ScheduledLocal" => current_core'[f] = current_core[f]
    PROVE  RingInv'
  BY DEF RingInv

\* No fiber enters or leaves a wait list.
LEMMA ParkKept ==
    ASSUME ParkInv, UNCHANGED <<wait_list, m_wait_list>>,
           \A f \in Fibers : fiber_state'[f] = "Waiting" <=> fiber_state[f] = "Waiting"
    PROVE  ParkInv'
  <1>1. \A f : Parked(f)' = Parked(f)
    BY DEF Parked
  <1> QED BY <1>1 DEF ParkInv

\* Fibers that no core runs may change, but not into running ones.
LEMMA RunKept ==
    ASSUME RunInv, UNCHANGED <<running, phase>>,
           \A f \in Fibers :
               \/ fiber_state'[f] = fiber_state[f] /\ current_core'[f] = current_core[f]
               \/ /\ Off(f)
                  /\ fiber_state[f] \notin {"Running", "Exiting"}
                  /\ fiber_state'[f] \notin {"Running", "Exiting"}
    PROVE  RunInv'
  BY DEF RunInv, MayBe, Off

\* A running fiber gives its core to the scheduler.
LEMMA RunSwitched ==
    ASSUME RunInv, LockInv, NEW c \in Cores, NEW f \in Fibers, Runs(f, c), SwitchToScheduler(c),
           UNCHANGED running, current_core'[f] = current_core[f],
           fiber_state'[f] \in {"Running", "Waiting", "Exiting"},
           f = MainFiber => fiber_state'[f] # "Exiting",
           \A g \in Fibers \ {f} :
               \/ fiber_state'[g] = fiber_state[g] /\ current_core'[g] = current_core[g]
               \/ /\ Off(g)
                  /\ fiber_state[g] \notin {"Running", "Exiting"}
                  /\ fiber_state'[g] \notin {"Running", "Exiting"}
    PROVE  RunInv'
  <1>1. /\ phase[c] \in {"user", "boot"} /\ running[c] = f
        /\ phase \in [Cores -> Phase]
        /\ phase' = [phase EXCEPT ![c] = IF @ = "boot" THEN "booted" ELSE "switched"]
    BY DEF Runs, SwitchToScheduler, LockInv
  <1>2. /\ running \in [Cores -> Fibers \cup {NoFiber}]
        /\ \A d \in Cores : running[d] = f => d = c
    BY <1>1 DEF RunInv
  <1>3. ASSUME NEW d \in Cores \ {c}
        PROVE  /\ running'[d] # NoFiber <=> phase'[d] \in {"boot", "booted", "user", "switched"}
               /\ phase'[d] \in {"boot", "booted"} => running'[d] = MainFiber
               /\ running'[d] # NoFiber => /\ current_core'[running'[d]] = d
                                           /\ fiber_state'[running'[d]] \in MayBe(phase'[d])
    <2>1. phase'[d] = phase[d] /\ running'[d] = running[d]
      BY <1>1
    <2>2. CASE running[d] = NoFiber
      BY <2>1, <2>2 DEF RunInv
    <2>3. CASE running[d] # NoFiber
      <3>1. running[d] \in Fibers \ {f} /\ ~Off(running[d])
        BY <1>2, <2>3 DEF Off
      <3>2. /\ fiber_state'[running[d]] = fiber_state[running[d]]
            /\ current_core'[running[d]] = current_core[running[d]]
        BY <3>1
      <3> QED BY <2>1, <2>3, <3>2 DEF RunInv
    <2> QED BY <2>2, <2>3
  <1>4. /\ running'[c] # NoFiber <=> phase'[c] \in {"boot", "booted", "user", "switched"}
        /\ phase'[c] \in {"boot", "booted"} => running'[c] = MainFiber
        /\ running'[c] # NoFiber => /\ current_core'[running'[c]] = c
                                    /\ fiber_state'[running'[c]] \in MayBe(phase'[c])
    <2>1. running'[c] = f /\ f # NoFiber
      BY <1>1
    <2>2. CASE phase[c] = "boot"
      <3>1. f = MainFiber /\ phase'[c] = "booted"
        BY <2>2, <1>1 DEF RunInv
      <3> QED BY <2>1, <3>1, <1>1 DEF MayBe, RunInv
    <2>3. CASE phase[c] = "user"
      <3>1. phase'[c] = "switched"
        BY <2>3, <1>1
      <3> QED BY <2>1, <3>1, <1>1 DEF MayBe, RunInv
    <2> QED BY <1>1, <2>2, <2>3
  <1>5. ASSUME NEW g \in Fibers, fiber_state'[g] \in {"Running", "Exiting"}
        PROVE  running'[current_core'[g]] = g
    <2>1. CASE g = f
      BY <2>1, <1>1 DEF RunInv
    <2>2. CASE g # f
      BY <2>2, <1>5 DEF RunInv
    <2> QED BY <2>1, <2>2
  <1> QED BY <1>2, <1>3, <1>4, <1>5 DEF RunInv

\* The scheduler takes a core back from its fiber.
LEMMA RunEnded ==
    ASSUME RunInv, LockInv, NEW c \in Cores, running[c] # NoFiber,
           running' = [running EXCEPT ![c] = NoFiber],
           phase' = [phase EXCEPT ![c] = "scan"],
           UNCHANGED current_core,
           fiber_state'[running[c]] \notin {"Running", "Exiting"},
           \A g \in Fibers \ {running[c]} : fiber_state'[g] = fiber_state[g]
    PROVE  RunInv'
  <1>1. phase \in [Cores -> Phase] /\ running \in [Cores -> Fibers \cup {NoFiber}]
    BY DEF LockInv, RunInv
  <1>2. \A d \in Cores \ {c} : running[d] # NoFiber => running[d] # running[c]
    BY DEF RunInv
  <1>3. \A d \in Cores \ {c} : phase'[d] = phase[d] /\ running'[d] = running[d]
    BY <1>1
  <1>4. phase'[c] = "scan" /\ running'[c] = NoFiber
    BY <1>1
  <1>5. ASSUME NEW d \in Cores
        PROVE  /\ running'[d] # NoFiber <=> phase'[d] \in {"boot", "booted", "user", "switched"}
               /\ phase'[d] \in {"boot", "booted"} => running'[d] = MainFiber
               /\ running'[d] # NoFiber => /\ current_core'[running'[d]] = d
                                           /\ fiber_state'[running'[d]] \in MayBe(phase'[d])
    <2>1. CASE d = c
      BY <2>1, <1>4
    <2>2. CASE d # c
      <3>1. running'[d] = running[d] /\ phase'[d] = phase[d]
        BY <2>2, <1>3
      <3>2. running[d] # NoFiber => fiber_state'[running[d]] = fiber_state[running[d]]
        BY <2>2, <1>1, <1>2
      <3> QED BY <3>1, <3>2 DEF RunInv
    <2> QED BY <2>1, <2>2
  <1>6. ASSUME NEW g \in Fibers, fiber_state'[g] \in {"Running", "Exiting"}
        PROVE  running'[current_core'[g]] = g
    <2>1. g # running[c] /\ fiber_state[g] \in {"Running", "Exiting"}
      BY <1>6
    <2>2. running[current_core[g]] = g /\ current_core[g] # c
      BY <2>1 DEF RunInv
    <2> QED BY <2>2, <1>1
  <1> QED BY <1>1, <1>5, <1>6 DEF RunInv

\* The scheduler gives its core to a fiber that was ready.
LEMMA RunStarted ==
    ASSUME RunInv, LockInv, NEW c \in Cores, running[c] = NoFiber,
           NEW f \in Ready, Off(f),
           fiber_state \in [Fibers -> FiberState], current_core \in [Fibers -> Cores],
           Dispatch(f, c)
    PROVE  RunInv'
  <1>1. phase \in [Cores -> Phase] /\ running \in [Cores -> Fibers \cup {NoFiber}] /\ f \in Fibers
    BY DEF LockInv, RunInv, Ready
  <1>2. /\ fiber_state' = [fiber_state EXCEPT ![f] = "Running"]
        /\ current_core' = [current_core EXCEPT ![f] = c]
        /\ running' = [running EXCEPT ![c] = f]
        /\ phase' = [phase EXCEPT ![c] = "user"]
    BY DEF Dispatch
  <1>3. ASSUME NEW d \in Cores
        PROVE  /\ running'[d] # NoFiber <=> phase'[d] \in {"boot", "booted", "user", "switched"}
               /\ phase'[d] \in {"boot", "booted"} => running'[d] = MainFiber
               /\ running'[d] # NoFiber => /\ current_core'[running'[d]] = d
                                           /\ fiber_state'[running'[d]] \in MayBe(phase'[d])
    <2>1. CASE d = c
      BY <2>1, <1>1, <1>2 DEF MayBe
    <2>2. CASE d # c
      <3>1. running'[d] = running[d] /\ phase'[d] = phase[d] /\ running[d] # f
        BY <2>2, <1>1, <1>2 DEF Off
      <3> QED BY <3>1, <1>1, <1>2 DEF RunInv
    <2> QED BY <2>1, <2>2
  <1>4. ASSUME NEW g \in Fibers, fiber_state'[g] \in {"Running", "Exiting"}
        PROVE  running'[current_core'[g]] = g
    <2>1. CASE g = f
      BY <2>1, <1>1, <1>2
    <2>2. CASE g # f
      <3>1. running[current_core[g]] = g /\ current_core[g] # c
        BY <2>2, <1>2, <1>4, <1>1 DEF RunInv
      <3> QED BY <2>2, <3>1, <1>1, <1>2
    <2> QED BY <2>1, <2>2
  <1>5. running' \in [Cores -> Fibers \cup {NoFiber}]
    BY <1>1, <1>2
  <1> QED BY <1>3, <1>4, <1>5 DEF RunInv

\* The active cores, when core c goes to phase p.
LEMMA ActiveCores ==
    ASSUME LockInv, NEW c \in Cores, NEW p \in Phase, phase' = [phase EXCEPT ![c] = p]
    PROVE  /\ IsFiniteSet(Active) /\ Cardinality(Active) \in Nat
           /\ p \notin {"rest", "resting"} /\ phase[c] \notin {"rest", "resting"} => Active' = Active
           /\ p \in {"rest", "resting"} /\ phase[c] \in {"rest", "resting"} => Active' = Active
           /\ p \in {"rest", "resting"} /\ phase[c] \notin {"rest", "resting"}
                  => Cardinality(Active') = Cardinality(Active) - 1
           /\ p \notin {"rest", "resting"} /\ phase[c] \in {"rest", "resting"}
                  => Cardinality(Active') = Cardinality(Active) + 1
  <1>1. phase \in [Cores -> Phase] /\ phase'[c] = p /\ \A d \in Cores \ {c} : phase'[d] = phase[d]
    BY DEF LockInv
  <1>2. IsFiniteSet(Active) /\ Cardinality(Active) \in Nat
    <2>1. Active \in SUBSET Cores
      BY DEF Active
    <2> QED BY <2>1, FS_Subset, FS_CardinalityType
  <1>3. p \notin {"rest", "resting"} => Active' = Active \cup {c}
    BY <1>1 DEF Active
  <1>4. p \in {"rest", "resting"} => Active' = Active \ {c}
    BY <1>1 DEF Active
  <1>5. c \in Active <=> phase[c] \notin {"rest", "resting"}
    BY DEF Active
  <1>6. Cardinality(Active \cup {c}) = IF c \in Active THEN Cardinality(Active) ELSE Cardinality(Active) + 1
    BY <1>2, FS_AddElement
  <1>7. Cardinality(Active \ {c}) = IF c \in Active THEN Cardinality(Active) - 1 ELSE Cardinality(Active)
    BY <1>2, FS_RemoveElement
  <1>8. c \in Active => Active \cup {c} = Active
    OBVIOUS
  <1>9. c \notin Active => Active \ {c} = Active
    OBVIOUS
  <1> HIDE DEF Active
  <1> QED BY <1>2, <1>3, <1>4, <1>5, <1>6, <1>7, <1>8, <1>9

-----------------------------------------------------------------------------
(* The lock. *)

\* A step that leaves the lock and the phases alone.
LEMMA LockStutter ==
    ASSUME LockInv, UNCHANGED <<m_scheduler_lock, phase>>
    PROVE  LockInv'
  BY DEF LockInv, LockCoversScheduling

\* A core takes the free lock and enters the scheduler.
LEMMA LockTaken ==
    ASSUME LockInv, LockFree, NEW c \in Cores,
           NEW p \in {"booted", "switched", "scan", "queue"},
           m_scheduler_lock' = c, phase' = [phase EXCEPT ![c] = p]
    PROVE  LockInv'
  BY DEF LockInv, LockCoversScheduling, LockFree, Phase

\* The core that holds the lock goes on with it.
LEMMA LockKept ==
    ASSUME LockInv, NEW c \in Cores, m_scheduler_lock = c,
           NEW p \in {"booted", "switched", "scan", "queue"},
           UNCHANGED m_scheduler_lock, phase' = [phase EXCEPT ![c] = p]
    PROVE  LockInv'
  BY DEF LockInv, LockCoversScheduling, Phase

\* The core that holds the lock releases it and leaves the scheduler.
LEMMA LockReleased ==
    ASSUME LockInv, NEW c \in Cores, m_scheduler_lock = c,
           NEW p \in {"user", "rest"},
           m_scheduler_lock' = NoCore, phase' = [phase EXCEPT ![c] = p]
    PROVE  LockInv'
  BY DEF LockInv, LockCoversScheduling, Phase

\* A core that does not hold the lock moves without it.
LEMMA LockNotNeeded ==
    ASSUME LockInv, NEW c \in Cores, phase[c] \in {"rest", "resting"},
           NEW p \in {"rest", "resting"},
           UNCHANGED m_scheduler_lock, phase' = [phase EXCEPT ![c] = p]
    PROVE  LockInv'
  BY DEF LockInv, LockCoversScheduling, Phase

\* Every step of the scheduler loop.
LEMMA SchedulerStepLock ==
    ASSUME LockInv, NEW c \in Cores, SchedulerStep(c)
    PROVE  LockInv'
  <1>1. CASE StartCore(c)
    BY <1>1, LockTaken DEF StartCore
  <1>2. CASE BootScheduler(c)
    BY <1>2, LockKept DEF BootScheduler, Schedules
  <1>3. CASE PostDispatch(c)
    BY <1>3, LockKept DEF PostDispatch, Schedules
  <1>4. CASE \E f \in Fibers : CancelSleep(c, f)
    BY <1>4, LockStutter DEF CancelSleep
  <1>5. CASE ScheduleLocal(c)
    BY <1>5, LockReleased DEF ScheduleLocal, Dispatch, Schedules
  <1>6. CASE FallBackToQueue(c)
    BY <1>6, LockKept DEF FallBackToQueue, Schedules
  <1>7. CASE ScheduleFromQueue(c)
    BY <1>7, LockReleased DEF ScheduleFromQueue, Dispatch, Schedules
  <1>8. CASE DelegateToRing(c)
    BY <1>8, LockStutter DEF DelegateToRing
  <1>9. CASE Rest(c)
    BY <1>9, LockReleased DEF Rest, Schedules
  <1>10. CASE WaitOnRunnable(c)
    BY <1>10, LockNotNeeded DEF WaitOnRunnable
  <1>11. CASE WakeCore(c)
    <2>1. CASE m_runnable_fibers # 0
      BY <1>11, <2>1, LockTaken DEF WakeCore, LeaveRest
    <2>2. CASE m_runnable_fibers = 0
      BY <1>11, <2>2, LockNotNeeded DEF WakeCore
    <2> QED BY <2>1, <2>2
  <1>12. CASE SkipRest(c)
    BY <1>12, LockTaken DEF SkipRest, LeaveRest
  <1>13. CASE RestTimeout(c)
    BY <1>13, LockStutter DEF RestTimeout
  <1> QED BY <1>1, <1>2, <1>3, <1>4, <1>5, <1>6, <1>7, <1>8, <1>9, <1>10, <1>11, <1>12, <1>13
          DEF SchedulerStep

\* A system call that gives up its core takes the free lock with it.
LEMMA SwitchLock ==
    ASSUME LockInv, LockFree, NEW c \in Cores, SwitchToScheduler(c)
    PROVE  LockInv'
  <1>1. PICK p \in {"booted", "switched"} : phase' = [phase EXCEPT ![c] = p]
    BY DEF SwitchToScheduler
  <1> QED BY <1>1, LockTaken DEF SwitchToScheduler

-----------------------------------------------------------------------------
(* The steps of the scheduler loop. *)

\* A core without a fiber goes to another phase, and the fibers stay where they are.
LEMMA CoreMoves ==
    ASSUME KernelInv, NEW c \in Cores, phase[c] \notin {"boot", "booted", "user", "switched"},
           NEW p \in Phase, p \notin {"boot", "booted", "user", "switched"},
           phase' = [phase EXCEPT ![c] = p],
           UNCHANGED <<fiberVars, waitVars, fiber_state, m_thread_queue, m_runnable_fibers,
                       current_core, local_ring, running>>
    PROVE  /\ FieldsInv' /\ QueueInv' /\ RingInv' /\ ParkInv' /\ RunInv'
           /\ m_runnable_fibers' = Cardinality(Ready')
  <1>1. FieldsInv'
    BY FieldsKept DEF KernelInv, FieldsInv, waitVars
  <1>2. QueueInv'
    BY QueueKept DEF KernelInv, fiberVars
  <1>3. RingInv'
    BY RingKept DEF KernelInv
  <1>4. ParkInv'
    BY ParkKept DEF KernelInv, waitVars
  <1>5. RunInv'
    <2>1. phase \in [Cores -> Phase]
      BY DEF KernelInv, LockInv
    <2>2. phase'[c] = p /\ \A d \in Cores \ {c} : phase'[d] = phase[d]
      BY <2>1
    <2>3. running[c] = NoFiber
      BY DEF KernelInv, RunInv
    <2> QED BY <2>2, <2>3 DEF KernelInv, RunInv
  <1>6. m_runnable_fibers' = Cardinality(Ready')
    BY DEF KernelInv, CountInv, Ready
  <1> QED BY <1>1, <1>2, <1>3, <1>4, <1>5, <1>6

\* A worker thread's first turn of the loop keeps the invariant.
LEMMA StartCoreKeeps ==
    ASSUME KernelInv, NEW c \in Cores, StartCore(c)
    PROVE  KernelInv'
  <1>1. /\ phase[c] = "start" /\ phase' = [phase EXCEPT ![c] = "scan"]
        /\ UNCHANGED <<fiberVars, waitVars, fiber_state, m_thread_queue, m_runnable_fibers,
                       current_core, local_ring, running, wait_value, armed, m_active_cores, asleep>>
    BY DEF StartCore, readyVars, restVars
  <1>2. "scan" \in Phase
    BY DEF Phase
  <1>3. /\ FieldsInv' /\ QueueInv' /\ RingInv' /\ ParkInv' /\ RunInv'
        /\ m_runnable_fibers' = Cardinality(Ready')
    BY <1>1, <1>2, CoreMoves
  <1>4. LockInv'
    BY SchedulerStepLock DEF KernelInv, SchedulerStep
  <1>5. m_active_cores' = Cardinality(Active')
    BY <1>1, <1>2, ActiveCores DEF KernelInv, CountInv
  <1>6. RestInv'
    BY <1>1 DEF KernelInv, RestInv, LockInv
  <1> QED BY <1>3, <1>4, <1>5, <1>6 DEF KernelInv, CountInv

\* Going from the local ring to the queue keeps the invariant.
LEMMA FallBackToQueueKeeps ==
    ASSUME KernelInv, NEW c \in Cores, FallBackToQueue(c)
    PROVE  KernelInv'
  <1>1. /\ phase[c] = "scan" /\ phase' = [phase EXCEPT ![c] = "queue"]
        /\ UNCHANGED <<fiberVars, waitVars, fiber_state, m_thread_queue, m_runnable_fibers,
                       current_core, local_ring, running, wait_value, armed, m_active_cores, asleep>>
    BY DEF FallBackToQueue, readyVars, restVars
  <1>2. "queue" \in Phase
    BY DEF Phase
  <1>3. /\ FieldsInv' /\ QueueInv' /\ RingInv' /\ ParkInv' /\ RunInv'
        /\ m_runnable_fibers' = Cardinality(Ready')
    BY <1>1, <1>2, CoreMoves
  <1>4. LockInv'
    BY SchedulerStepLock DEF KernelInv, SchedulerStep
  <1>5. m_active_cores' = Cardinality(Active')
    BY <1>1, <1>2, ActiveCores DEF KernelInv, CountInv
  <1>6. RestInv'
    BY <1>1 DEF KernelInv, RestInv, LockInv
  <1> QED BY <1>3, <1>4, <1>5, <1>6 DEF KernelInv, CountInv

\* Going to rest keeps the invariant: the core is no longer counted as active.
LEMMA RestKeeps ==
    ASSUME KernelInv, NEW c \in Cores, Rest(c)
    PROVE  KernelInv'
  <1>1. /\ phase[c] = "queue" /\ phase' = [phase EXCEPT ![c] = "rest"]
        /\ m_active_cores' = m_active_cores - 1
        /\ wait_value' = [wait_value EXCEPT ![c] = m_runnable_fibers]
        /\ armed' = [armed EXCEPT ![c] = FiniteRest(c)]
        /\ UNCHANGED <<fiberVars, waitVars, fiber_state, m_thread_queue, m_runnable_fibers,
                       current_core, local_ring, running>>
    BY DEF Rest
  <1>2. "rest" \in Phase
    BY DEF Phase
  <1>3. /\ FieldsInv' /\ QueueInv' /\ RingInv' /\ ParkInv' /\ RunInv'
        /\ m_runnable_fibers' = Cardinality(Ready')
    BY <1>1, <1>2, CoreMoves
  <1>4. LockInv'
    BY SchedulerStepLock DEF KernelInv, SchedulerStep
  <1>5. m_active_cores' = Cardinality(Active')
    BY <1>1, <1>2, ActiveCores DEF KernelInv, CountInv
  <1>6. asleep' \subseteq asleep
    <2>1. asleep \subseteq Cores
      BY DEF KernelInv, RestInv
    <2> QED BY <2>1, Wakes DEF Rest
  <1>7. FiniteRest(c) \in BOOLEAN
    BY DEF FiniteRest
  <1>8. RestInv'
    <2>1. m_runnable_fibers \in 0 .. Cardinality(Fibers)
      BY ReadyIsFinite DEF KernelInv, CountInv
    <2>2. wait_value' \in [Cores -> 0 .. Cardinality(Fibers)] /\ armed' \in [Cores -> BOOLEAN]
      BY <1>1, <1>7, <2>1 DEF KernelInv, RestInv
    <2>3. asleep' \subseteq {d \in Cores : phase'[d] = "resting"}
      BY <1>1, <1>6 DEF KernelInv, RestInv, LockInv
    <2> QED BY <2>2, <2>3 DEF RestInv
  <1> QED BY <1>3, <1>4, <1>5, <1>8 DEF KernelInv, CountInv

\* WaitOnAddress keeps the invariant.
LEMMA WaitOnRunnableKeeps ==
    ASSUME KernelInv, NEW c \in Cores, WaitOnRunnable(c)
    PROVE  KernelInv'
  <1>1. /\ phase[c] = "rest" /\ phase' = [phase EXCEPT ![c] = "resting"]
        /\ asleep' \in {asleep, asleep \cup {c}}
        /\ UNCHANGED <<fiberVars, waitVars, fiber_state, m_thread_queue, m_runnable_fibers,
                       current_core, local_ring, running, wait_value, armed, m_active_cores>>
    BY DEF WaitOnRunnable, restVars
  <1>2. "resting" \in Phase
    BY DEF Phase
  <1>3. /\ FieldsInv' /\ QueueInv' /\ RingInv' /\ ParkInv' /\ RunInv'
        /\ m_runnable_fibers' = Cardinality(Ready')
    BY <1>1, <1>2, CoreMoves
  <1>4. LockInv'
    BY SchedulerStepLock DEF KernelInv, SchedulerStep
  <1>5. m_active_cores' = Cardinality(Active')
    BY <1>1, <1>2, ActiveCores DEF KernelInv, CountInv
  <1>6. RestInv'
    BY <1>1 DEF KernelInv, RestInv, LockInv
  <1> QED BY <1>3, <1>4, <1>5, <1>6 DEF KernelInv, CountInv

\* WakeCore and SkipRest.
LEMMA LeaveRestKeeps ==
    ASSUME KernelInv, NEW c \in Cores, WakeCore(c) \/ SkipRest(c)
    PROVE  KernelInv'
  <1>1. PICK p \in {"scan", "rest"} :
            /\ phase[c] \in {"rest", "resting"} /\ phase' = [phase EXCEPT ![c] = p]
            /\ m_active_cores' = IF p = "scan" THEN m_active_cores + 1 ELSE m_active_cores
            /\ UNCHANGED <<fiberVars, waitVars, fiber_state, m_thread_queue, m_runnable_fibers,
                           current_core, local_ring, running, asleep>>
    <2>1. CASE WakeCore(c) /\ m_runnable_fibers = 0
      BY <2>1 DEF WakeCore, readyVars
    <2>2. CASE WakeCore(c) /\ m_runnable_fibers # 0
      BY <2>2 DEF WakeCore, LeaveRest, readyVars
    <2>3. CASE SkipRest(c)
      BY <2>3 DEF SkipRest, LeaveRest, readyVars
    <2> QED BY <2>1, <2>2, <2>3
  <1>2. p \in Phase
    BY DEF Phase
  <1>3. /\ FieldsInv' /\ QueueInv' /\ RingInv' /\ ParkInv' /\ RunInv'
        /\ m_runnable_fibers' = Cardinality(Ready')
    BY <1>1, <1>2, CoreMoves
  <1>4. LockInv'
    BY SchedulerStepLock DEF KernelInv, SchedulerStep
  <1>5. m_active_cores' = Cardinality(Active')
    BY <1>1, <1>2, ActiveCores DEF KernelInv, CountInv
  <1>6. wait_value' \in [Cores -> 0 .. Cardinality(Fibers)] /\ armed' \in [Cores -> BOOLEAN]
    <2>1. FiniteRest(c) \in BOOLEAN /\ 0 \in 0 .. Cardinality(Fibers)
      BY ReadyIsFinite DEF FiniteRest
    <2> QED BY <2>1 DEF WakeCore, SkipRest, LeaveRest, KernelInv, RestInv
  <1>7. c \notin asleep
    <2>1. CASE WakeCore(c)
      BY <2>1 DEF WakeCore
    <2>2. CASE SkipRest(c)
      BY <2>2 DEF SkipRest, KernelInv, RestInv
    <2> QED BY <2>1, <2>2
  <1>8. RestInv'
    BY <1>1, <1>6, <1>7 DEF KernelInv, RestInv, LockInv
  <1> QED BY <1>3, <1>4, <1>5, <1>8 DEF KernelInv, CountInv

\* A rest whose time is over keeps the invariant.
LEMMA RestTimeoutKeeps ==
    ASSUME KernelInv, NEW c \in Cores, RestTimeout(c)
    PROVE  KernelInv'
  <1>1. UNCHANGED <<fiberVars, waitVars, fiber_state, m_thread_queue, m_runnable_fibers, restVars,
                   current_core, local_ring, m_scheduler_lock, phase, running>>
        /\ asleep' \subseteq asleep
    BY DEF RestTimeout
  <1>2. FieldsInv'
    BY <1>1, FieldsKept DEF KernelInv, FieldsInv, waitVars
  <1>3. QueueInv'
    BY <1>1, QueueKept DEF KernelInv, fiberVars
  <1>4. RingInv'
    BY <1>1, RingKept DEF KernelInv
  <1>5. ParkInv'
    BY <1>1, ParkKept DEF KernelInv, waitVars
  <1>6. RunInv'
    BY <1>1, RunKept DEF KernelInv
  <1>7. LockInv'
    BY <1>1, LockStutter DEF KernelInv
  <1>8. CountInv'
    BY <1>1 DEF KernelInv, CountInv, Ready, Active, restVars
  <1>9. RestInv'
    BY <1>1 DEF KernelInv, RestInv, restVars
  <1> QED BY <1>2, <1>3, <1>4, <1>5, <1>6, <1>7, <1>8, <1>9 DEF KernelInv

\* The main thread's scheduler fiber keeps the invariant: the main fiber it adds is
\* the one that made the first system call.
LEMMA BootSchedulerKeeps ==
    ASSUME KernelInv, NEW c \in Cores, BootScheduler(c)
    PROVE  KernelInv'
  <1> DEFINE f == MainFiber
  <1>1. /\ phase[c] = "booted" /\ phase' = [phase EXCEPT ![c] = "scan"]
        /\ running' = [running EXCEPT ![c] = NoFiber]
        /\ Reschedule(f, activity_level, priority)
        /\ UNCHANGED <<fiberVars, waitVars, restVars, current_core, local_ring>>
    BY DEF BootScheduler
  <1>2. running[c] = f /\ fiber_state[f] \in {"Running", "Waiting"} /\ f \in Fibers
    BY <1>1 DEF KernelInv, RunInv, MayBe
  <1>3. /\ fiber_state' = [fiber_state EXCEPT ![f] =
                              IF @ = "Waiting" THEN "Waiting"
                              ELSE IF activity_level[f] = "Suspended" THEN "Suspended" ELSE "Scheduled"]
        /\ QueueInv'
        /\ m_runnable_fibers' = Cardinality(Ready')
        /\ asleep' \subseteq asleep
    <2>1. priority \in [Fibers -> Int] /\ priority' = priority
      BY <1>1 DEF KernelInv, FieldsInv, fiberVars
    <2> QED BY <2>1, <1>1, <1>2, Rescheduled DEF KernelInv
  <1>4. /\ fiber_state' \in [Fibers -> FiberState]
        /\ fiber_state'[f] \in {"Waiting", "Suspended", "Scheduled"}
        /\ fiber_state'[f] = "Waiting" <=> fiber_state[f] = "Waiting"
        /\ \A g \in Fibers \ {f} : fiber_state'[g] = fiber_state[g]
    BY <1>2, <1>3 DEF KernelInv, FieldsInv, FiberState
  <1> HIDE DEF f
  <1>5. FieldsInv'
    BY <1>1, <1>2, <1>4, FieldsKept DEF KernelInv, FieldsInv, waitVars
  <1>6. RingInv'
    BY <1>1, <1>2, <1>4, RingKept DEF KernelInv
  <1>7. ParkInv'
    BY <1>1, <1>4, ParkKept DEF KernelInv, waitVars
  <1>8. RunInv'
    BY <1>1, <1>2, <1>4, RunEnded DEF KernelInv
  <1>9. LockInv'
    BY SchedulerStepLock DEF KernelInv, SchedulerStep
  <1>10. m_active_cores' = Cardinality(Active')
    BY <1>1, ActiveCores DEF KernelInv, CountInv, Phase, restVars
  <1>11. RestInv'
    BY <1>1, <1>3 DEF KernelInv, RestInv, LockInv, restVars
  <1> QED BY <1>3, <1>5, <1>6, <1>7, <1>8, <1>9, <1>10, <1>11 DEF KernelInv, CountInv

\* The return of SwitchToFiber in Dispatch keeps the invariant, and the state of the
\* fiber that comes back is one of the three that Dispatch expects.
LEMMA PostDispatchKeeps ==
    ASSUME KernelInv, NEW c \in Cores, PostDispatch(c)
    PROVE  KernelInv' /\ aborted' = FALSE
  <1> DEFINE f == running[c]
  <1>1. /\ phase[c] = "switched" /\ phase' = [phase EXCEPT ![c] = "scan"]
        /\ running' = [running EXCEPT ![c] = NoFiber]
        /\ aborted' = (fiber_state[f] \notin {"Running", "Exiting", "Waiting"})
        /\ UNCHANGED <<fiberVars, waitVars, restVars, current_core, local_ring>>
    BY DEF PostDispatch
  <1>2. f # NoFiber /\ f \in Fibers /\ fiber_state[f] \in {"Running", "Exiting", "Waiting"}
    BY <1>1 DEF KernelInv, RunInv, MayBe
  <1>3. /\ fiber_state' \in [Fibers -> FiberState]
        /\ fiber_state'[f] \in {"Waiting", "Suspended", "Scheduled", "Unallocated"}
        /\ fiber_state'[f] = "Waiting" <=> fiber_state[f] = "Waiting"
        /\ \A g \in Fibers \ {f} : fiber_state'[g] = fiber_state[g]
        /\ QueueInv'
        /\ m_runnable_fibers' = Cardinality(Ready')
        /\ asleep' \subseteq asleep
    <2>1. CASE fiber_state[f] = "Running"
      <3>1. AddToSchedulerUnsafe(<<f>>)
        BY <2>1 DEF PostDispatch
      <3>2. <<f>> \in Seq(Fibers) /\ Once(<<f>>) /\ Elements(<<f>>) = {f}
        BY <1>2, ListOfOne
      <3>3. Elements(<<f>>) \cap Ready = {}
        BY <2>1, <3>2 DEF Ready
      <3>4. /\ fiber_state' \in [Fibers -> FiberState]
            /\ \A g \in Fibers : fiber_state'[g] =
                  IF g \notin Elements(<<f>>) THEN fiber_state[g]
                  ELSE IF activity_level[g] = "Schedulable" THEN "Scheduled" ELSE "Suspended"
            /\ QueueInv'
            /\ m_runnable_fibers' = Cardinality(Ready')
            /\ asleep' \subseteq asleep
        <4>1. UNCHANGED priority
          BY <1>1 DEF fiberVars
        <4> HIDE DEF f
        <4> QED BY <4>1, <3>1, <3>2, <3>3, AddedToScheduler DEF KernelInv
      <3> QED BY <3>2, <3>4, <2>1, <1>2
    <2>2. CASE fiber_state[f] # "Running"
      <3>1. /\ fiber_state' = [fiber_state EXCEPT ![f] = IF @ = "Exiting" THEN "Unallocated" ELSE @]
            /\ UNCHANGED <<m_thread_queue, m_runnable_fibers, asleep>>
        BY <2>2 DEF PostDispatch
      <3> HIDE DEF f
      <3>2. /\ fiber_state' \in [Fibers -> FiberState]
            /\ fiber_state'[f] = IF fiber_state[f] = "Exiting" THEN "Unallocated" ELSE fiber_state[f]
            /\ \A g \in Fibers \ {f} : fiber_state'[g] = fiber_state[g]
        BY <3>1, <1>2 DEF KernelInv, FieldsInv, FiberState
      <3>3. QueueInv'
        BY <3>1, <3>2, <1>1, <1>2, QueueKept DEF KernelInv, fiberVars
      <3>4. Ready' = Ready
        BY <3>2, <1>2 DEF Ready
      <3> QED BY <3>1, <3>2, <3>3, <3>4, <2>2, <1>2 DEF KernelInv, CountInv
    <2> QED BY <2>1, <2>2
  <1> HIDE DEF f
  <1>5. FieldsInv'
    BY <1>1, <1>2, <1>3, FieldsKept DEF KernelInv, FieldsInv, waitVars
  <1>6. RingInv'
    BY <1>1, <1>2, <1>3, RingKept DEF KernelInv
  <1>7. ParkInv'
    BY <1>1, <1>3, ParkKept DEF KernelInv, waitVars
  <1>8. RunInv'
    BY <1>1, <1>2, <1>3, RunEnded DEF KernelInv, f
  <1>9. LockInv'
    BY SchedulerStepLock DEF KernelInv, SchedulerStep
  <1>10. m_active_cores' = Cardinality(Active')
    BY <1>1, ActiveCores DEF KernelInv, CountInv, Phase, restVars
  <1>11. RestInv'
    BY <1>1, <1>3 DEF KernelInv, RestInv, LockInv, restVars
  <1> QED BY <1>1, <1>2, <1>3, <1>5, <1>6, <1>7, <1>8, <1>9, <1>10, <1>11 DEF KernelInv, CountInv

\* A fiber leaves the scheduler's wait list and no longer waits.
LEMMA ParkLeft ==
    ASSUME ParkInv, NEW f \in Elements(m_wait_list),
           m_wait_list' = Without(m_wait_list, f), UNCHANGED wait_list,
           fiber_state'[f] # "Waiting",
           \A g \in Fibers \ {f} : fiber_state'[g] = "Waiting" <=> fiber_state[g] = "Waiting"
    PROVE  ParkInv' /\ fiber_state[f] = "Waiting" /\ f \in Fibers
  <1>1. /\ m_wait_list \in Seq(Fibers) /\ Once(m_wait_list) /\ Elements(m_wait_list) \subseteq Fibers
    BY ListElements DEF ParkInv
  <1>2. /\ m_wait_list' \in Seq(Fibers) /\ Once(m_wait_list')
        /\ Elements(m_wait_list') = Elements(m_wait_list) \ {f}
    <2>1. /\ m_wait_list' \in Seq(Fibers) /\ Once(m_wait_list')
          /\ Elements(m_wait_list') = Elements(m_wait_list) \cap (Fibers \ {f})
      BY <1>1, KeptInList DEF Without
    <2> QED BY <2>1, <1>1
  <1>3. \A g \in Fibers \ {f} : Parked(g)' = Parked(g)
    BY <1>2 DEF Parked
  <1>4. NoFiber \in Parked(f)
    BY DEF Parked
  <1>5. fiber_state[f] = "Waiting" /\ Parked(f) = {NoFiber}
    BY <1>1, <1>4 DEF ParkInv
  <1>6. Parked(f)' = {}
    <2>1. {g \in Fibers : f \in Elements(wait_list[g])} = {}
      BY <1>5 DEF Parked
    <2> QED BY <2>1, <1>2 DEF Parked
  <1>7. \A g \in Fibers : IF fiber_state'[g] = "Waiting"
                         THEN \E h \in Fibers \cup {NoFiber} : Parked(g)' \subseteq {h} ELSE Parked(g)' = {}
    <2> TAKE g \in Fibers
    <2>1. CASE g = f
      BY <2>1, <1>6
    <2>2. CASE g # f
      BY <2>2, <1>3 DEF ParkInv
    <2> QED BY <2>1, <2>2
  <1> QED BY <1>1, <1>2, <1>5, <1>7 DEF ParkInv

\* The end of a sleep keeps the invariant: the fiber leaves the wait list.
LEMMA CancelSleepKeeps ==
    ASSUME KernelInv, NEW c \in Cores, NEW f \in Fibers, CancelSleep(c, f)
    PROVE  KernelInv'
  <1>1. /\ phase[c] = "scan" /\ m_scheduler_lock = c /\ f \in Elements(m_wait_list)
        /\ m_wait_list' = Without(m_wait_list, f)
        /\ AddToSchedulerUnsafe(<<f>>)
        /\ last_result' = [g \in Fibers |-> IF g \in Elements(<<f>>) THEN "Timeout" ELSE last_result[g]]
        /\ timeout' = [g \in Fibers |-> IF g \in Elements(<<f>>) THEN "none" ELSE timeout[g]]
        /\ UNCHANGED <<fiberVars, waitable_object, wait_list, restVars, current_core, local_ring,
                       m_scheduler_lock, phase, running>>
    BY DEF CancelSleep, Schedules, TimedOut, EndFiberWaitImpl
  <1>2. fiber_state[f] = "Waiting"
    <2>1. NoFiber \in Parked(f)
      BY <1>1 DEF Parked
    <2> QED BY <2>1 DEF KernelInv, ParkInv
  <1>3. <<f>> \in Seq(Fibers) /\ Once(<<f>>) /\ Elements(<<f>>) = {f}
    BY ListOfOne
  <1>4. /\ fiber_state' \in [Fibers -> FiberState]
        /\ fiber_state'[f] \in {"Scheduled", "Suspended"}
        /\ \A g \in Fibers \ {f} : fiber_state'[g] = fiber_state[g]
        /\ QueueInv'
        /\ m_runnable_fibers' = Cardinality(Ready')
        /\ asleep' \subseteq asleep
    <2>1. Elements(<<f>>) \cap Ready = {}
      BY <1>2, <1>3 DEF Ready
    <2>2. UNCHANGED priority
      BY <1>1 DEF fiberVars
    <2>3. /\ fiber_state' \in [Fibers -> FiberState]
          /\ \A g \in Fibers : fiber_state'[g] =
                IF g \notin Elements(<<f>>) THEN fiber_state[g]
                ELSE IF activity_level[g] = "Schedulable" THEN "Scheduled" ELSE "Suspended"
          /\ QueueInv'
          /\ m_runnable_fibers' = Cardinality(Ready')
          /\ asleep' \subseteq asleep
      BY <2>1, <2>2, <1>1, <1>3, AddedToScheduler DEF KernelInv
    <2> QED BY <2>3, <1>3
  <1>5. FieldsInv'
    <2>1. timeout' \in [Fibers -> TimeoutValues] /\ last_result' \in [Fibers -> {"Success", "Timeout"}]
      BY <1>1 DEF KernelInv, FieldsInv, TimeoutValues
    <2> QED BY <2>1, <1>1, <1>2, <1>4, FieldsKept DEF KernelInv, FieldsInv
  <1>6. RingInv'
    BY <1>1, <1>2, <1>4, RingKept DEF KernelInv
  <1>7. ParkInv'
    BY <1>1, <1>4, ParkLeft DEF KernelInv
  <1>8. RunInv'
    <2>1. \A d \in Cores : phase[d] \notin {"booted", "switched"}
      BY <1>1, OneSchedules DEF KernelInv
    <2>2. Off(f)
      BY <2>1, <1>2, IdleIsOff DEF KernelInv
    <2> QED BY <2>2, <1>1, <1>2, <1>4, RunKept DEF KernelInv
  <1>9. LockInv'
    BY SchedulerStepLock DEF KernelInv, SchedulerStep
  <1>10. m_active_cores' = Cardinality(Active')
    BY <1>1 DEF KernelInv, CountInv, Active, restVars
  <1>11. RestInv'
    BY <1>1, <1>4 DEF KernelInv, RestInv, restVars
  <1> QED BY <1>4, <1>5, <1>6, <1>7, <1>8, <1>9, <1>10, <1>11 DEF KernelInv, CountInv

\* What Dispatch does to the parts of the invariant that do not say where f was.
LEMMA DispatchKeeps ==
    ASSUME KernelInv, NEW c \in Cores, phase[c] \in {"scan", "queue"}, m_scheduler_lock = c,
           NEW f \in Ready, Dispatch(f, c),
           UNCHANGED <<fiberVars, waitVars, restVars, asleep>>
    PROVE  /\ FieldsInv' /\ ParkInv' /\ RunInv' /\ CountInv' /\ RestInv'
           /\ fiber_state'[f] = "Running" /\ f \in Fibers
           /\ \A g \in Fibers \ {f} : fiber_state'[g] = fiber_state[g] /\ current_core'[g] = current_core[g]
  <1>1. /\ fiber_state' = [fiber_state EXCEPT ![f] = "Running"]
        /\ current_core' = [current_core EXCEPT ![f] = c]
        /\ m_runnable_fibers' = m_runnable_fibers - 1
        /\ phase' = [phase EXCEPT ![c] = "user"]
    BY DEF Dispatch
  <1>2. f \in Fibers /\ fiber_state[f] \in {"Scheduled", "ScheduledLocal"}
    BY DEF Ready
  <1>3. /\ fiber_state' \in [Fibers -> FiberState] /\ current_core' \in [Fibers -> Cores]
        /\ fiber_state'[f] = "Running"
        /\ \A g \in Fibers \ {f} : fiber_state'[g] = fiber_state[g] /\ current_core'[g] = current_core[g]
    BY <1>1, <1>2 DEF KernelInv, FieldsInv, FiberState
  <1>4. FieldsInv'
    BY <1>2, <1>3, FieldsKept DEF KernelInv, FieldsInv, waitVars
  <1>5. ParkInv'
    BY <1>2, <1>3, ParkKept DEF KernelInv, waitVars
  <1>6. RunInv'
    <2>1. Off(f)
      BY <1>2, IdleIsOff DEF KernelInv
    <2>2. running[c] = NoFiber
      BY DEF KernelInv, RunInv
    <2> QED BY <2>1, <2>2, RunStarted DEF KernelInv, FieldsInv
  <1>7. CountInv'
    <2>1. Ready' = Ready \ {f}
      BY <1>2, <1>3 DEF Ready
    <2>2. Cardinality(Ready \ {f}) = Cardinality(Ready) - 1
      BY ReadyIsFinite, FS_RemoveElement
    <2>3. Active' = Active
      BY <1>1, ActiveCores DEF KernelInv, Phase
    <2> QED BY <2>1, <2>2, <2>3, <1>1 DEF KernelInv, CountInv, restVars
  <1>8. RestInv'
    BY <1>1 DEF KernelInv, RestInv, LockInv, restVars
  <1> QED BY <1>2, <1>3, <1>4, <1>5, <1>6, <1>7, <1>8

\* Dispatching the head of the local ring keeps the invariant.
LEMMA ScheduleLocalKeeps ==
    ASSUME KernelInv, NEW c \in Cores, ScheduleLocal(c)
    PROVE  KernelInv'
  <1> DEFINE f == Head(local_ring[c])
  <1>1. /\ phase[c] = "scan" /\ m_scheduler_lock = c /\ local_ring[c] # <<>>
        /\ local_ring' = [local_ring EXCEPT ![c] = Tail(@)]
        /\ Dispatch(f, c)
        /\ UNCHANGED <<fiberVars, waitVars, m_thread_queue, restVars, asleep>>
    BY DEF ScheduleLocal, Schedules
  <1>2. /\ local_ring \in [Cores -> Seq(Fibers)]
        /\ \A d \in Cores : /\ Once(local_ring[d])
                            /\ Elements(local_ring[d]) =
                                  {g \in Fibers : fiber_state[g] = "ScheduledLocal" /\ current_core[g] = d}
    BY DEF KernelInv, RingInv
  <1>3. /\ Tail(local_ring[c]) \in Seq(Fibers) /\ Once(Tail(local_ring[c]))
        /\ Elements(local_ring[c]) = Elements(Tail(local_ring[c])) \cup {f}
        /\ f \notin Elements(Tail(local_ring[c]))
    BY <1>1, <1>2, ListTail
  <1>4. f \in Fibers /\ fiber_state[f] = "ScheduledLocal" /\ current_core[f] = c /\ f \in Ready
    BY <1>2, <1>3 DEF Ready
  <1> HIDE DEF f
  <1>5. /\ FieldsInv' /\ ParkInv' /\ RunInv' /\ CountInv' /\ RestInv'
        /\ fiber_state'[f] = "Running"
        /\ \A g \in Fibers \ {f} : fiber_state'[g] = fiber_state[g] /\ current_core'[g] = current_core[g]
    BY <1>1, <1>4, DispatchKeeps
  <1>6. QueueInv'
    BY <1>1, <1>4, <1>5, QueueKept DEF KernelInv, fiberVars
  <1>7. RingInv'
    <2>1. ASSUME NEW d \in Cores
          PROVE  /\ Once(local_ring'[d])
                 /\ Elements(local_ring'[d]) =
                       {g \in Fibers : fiber_state'[g] = "ScheduledLocal" /\ current_core'[g] = d}
      <3>1. CASE d = c
        BY <3>1, <1>1, <1>2, <1>3, <1>4, <1>5
      <3>2. CASE d # c
        <4>1. local_ring'[d] = local_ring[d]
          BY <3>2, <1>1, <1>2
        <4>2. {g \in Fibers : fiber_state'[g] = "ScheduledLocal" /\ current_core'[g] = d}
                  = {g \in Fibers : fiber_state[g] = "ScheduledLocal" /\ current_core[g] = d}
          BY <3>2, <1>4, <1>5
        <4> QED BY <4>1, <4>2, <1>2
      <3> QED BY <3>1, <3>2
    <2>2. local_ring' \in [Cores -> Seq(Fibers)]
      BY <1>1, <1>2, <1>3
    <2> QED BY <2>1, <2>2 DEF RingInv
  <1>8. LockInv'
    BY SchedulerStepLock DEF KernelInv, SchedulerStep
  <1> QED BY <1>5, <1>6, <1>7, <1>8 DEF KernelInv

\* The front of the queue, and the queue without it.
LEMMA FrontOfQueue ==
    ASSUME FieldsInv, QueueInv, m_thread_queue # <<>>
    PROVE  /\ Peek(m_thread_queue) \in Fibers /\ fiber_state[Peek(m_thread_queue)] = "Scheduled"
           /\ \A g \in Elements(m_thread_queue) : priority[Peek(m_thread_queue)] >= priority[g]
           /\ RemoveFront(m_thread_queue, priority) \in Seq(Fibers)
           /\ Once(RemoveFront(m_thread_queue, priority))
           /\ Elements(RemoveFront(m_thread_queue, priority)) =
                 Elements(m_thread_queue) \ {Peek(m_thread_queue)}
           /\ IsHeap(RemoveFront(m_thread_queue, priority), priority)
  <1> DEFINE q == m_thread_queue
  <1>1. /\ q \in Seq(Fibers) /\ Once(q) /\ IsHeap(q, priority) /\ Len(q) \in Nat /\ q # <<>>
        /\ Elements(q) = {g \in Fibers : fiber_state[g] = "Scheduled"} /\ Elements(q) = Nodes(q)
    BY ListElements DEF QueueInv
  <1>2. \A t \in Fibers : priority[t] \in Int
    BY DEF FieldsInv
  <1> HIDE DEF q
  <1>3. /\ RemoveFront(q, priority) \in Seq(Fibers) /\ Once(RemoveFront(q, priority))
        /\ Peek(q) \in Nodes(q) /\ Nodes(RemoveFront(q, priority)) = Nodes(q) \ {Peek(q)}
    BY <1>1, RemoveFrontRemoves
  <1>4. Elements(RemoveFront(q, priority)) = Elements(q) \ {Peek(q)}
    BY <1>1, <1>3, ListElements
  <1>5. IsHeap(RemoveFront(q, priority), priority)
    <2>1. 1 \in Entries(q)
      BY <1>1 DEF Entries
    <2>2. HeapExcept(q, priority, 1)
      BY <2>1, <1>1, <1>2, HeapIsHeapExcept
    <2> QED BY <2>2, <1>1, <1>2, RemoveFrontKeepsHeap
  <1>6. \A g \in Elements(q) : priority[Peek(q)] >= priority[g]
    <2>1. Integral(q, priority)
      BY <1>1, <1>2 DEF Integral, Entries
    <2>2. \A i \in Entries(q) : priority[Peek(q)] >= priority[q[i]]
      BY <2>1, <1>1, PeekIsLargest
    <2> QED BY <2>2, <1>1 DEF Nodes
  <1> QED BY <1>1, <1>3, <1>4, <1>5, <1>6 DEF q

\* Dispatching the front of the queue keeps the invariant.
LEMMA ScheduleFromQueueKeeps ==
    ASSUME KernelInv, NEW c \in Cores, ScheduleFromQueue(c)
    PROVE  KernelInv'
  <1> DEFINE f == Peek(m_thread_queue)
  <1>1. /\ phase[c] = "queue" /\ m_scheduler_lock = c /\ m_thread_queue # <<>>
        /\ m_thread_queue' = RemoveFront(m_thread_queue, priority)
        /\ Dispatch(f, c)
        /\ UNCHANGED <<fiberVars, waitVars, local_ring, restVars, asleep>>
    BY DEF ScheduleFromQueue, Schedules
  <1>2. /\ f \in Fibers /\ fiber_state[f] = "Scheduled" /\ f \in Ready
        /\ m_thread_queue' \in Seq(Fibers) /\ Once(m_thread_queue')
        /\ Elements(m_thread_queue') = Elements(m_thread_queue) \ {f}
        /\ IsHeap(m_thread_queue', priority)
    BY <1>1, FrontOfQueue DEF KernelInv, Ready
  <1> HIDE DEF f
  <1>3. /\ FieldsInv' /\ ParkInv' /\ RunInv' /\ CountInv' /\ RestInv'
        /\ fiber_state'[f] = "Running"
        /\ \A g \in Fibers \ {f} : fiber_state'[g] = fiber_state[g] /\ current_core'[g] = current_core[g]
    BY <1>1, <1>2, DispatchKeeps
  <1>4. QueueInv'
    <2>1. Elements(m_thread_queue') = {g \in Fibers : fiber_state'[g] = "Scheduled"}
      BY <1>2, <1>3 DEF KernelInv, QueueInv
    <2> QED BY <2>1, <1>1, <1>2 DEF QueueInv, fiberVars
  <1>5. RingInv'
    BY <1>1, <1>2, <1>3, RingKept DEF KernelInv
  <1>6. LockInv'
    BY SchedulerStepLock DEF KernelInv, SchedulerStep
  <1> QED BY <1>3, <1>4, <1>5, <1>6 DEF KernelInv

\* RankCores picks one of the fiber's cores.
LEMMA RankCoresInMask ==
    ASSUME FieldsInv, RingInv, NEW f \in Fibers, core_mask[f] # {}
    PROVE  RankCores(f) \in core_mask[f]
  <1> DEFINE M == core_mask[f]
             lengths == {Len(local_ring[c]) : c \in M}
  <1>1. M \subseteq Nat /\ M # {} /\ \A c \in M : Len(local_ring[c]) \in Nat
    <2>1. M \subseteq Cores /\ M # {}
      BY DEF FieldsInv
    <2>2. \A c \in Cores : local_ring[c] \in Seq(Fibers)
      BY DEF RingInv
    <2>3. \A s \in Seq(Fibers) : Len(s) \in Nat
      OBVIOUS
    <2>4. Cores \subseteq Nat
      BY DEF SchedulerAssumption
    <2> HIDE DEF M
    <2> QED BY ONLY <2>1, <2>2, <2>3, <2>4
  <1>2. lengths \subseteq Nat /\ lengths # {}
    BY <1>1
  <1>3. PICK least \in lengths : \A n \in lengths : least <= n
    <2> HIDE DEF lengths
    <2> QED BY <1>2, LeastNumber
  <1> DEFINE shortest == {c \in M : Len(local_ring[c]) = least}
  <1>4. shortest \subseteq Nat /\ shortest # {}
    BY <1>1
  <1>5. PICK d \in shortest : \A c \in shortest : d <= c
    <2> HIDE DEF shortest
    <2> QED BY <1>4, LeastNumber
  <1>6. \A c \in M : \/ Len(local_ring[d]) < Len(local_ring[c])
                     \/ Len(local_ring[d]) = Len(local_ring[c]) /\ d <= c
    <2> TAKE c \in M
    <2>1. least <= Len(local_ring[c]) /\ least \in Nat /\ Len(local_ring[c]) \in Nat
      BY <1>1, <1>3
    <2>2. Len(local_ring[d]) = least
      BY <1>5
    <2>3. CASE Len(local_ring[c]) = least
      BY <2>2, <2>3, <1>5
    <2>4. CASE Len(local_ring[c]) # least
      BY <2>1, <2>2, <2>4
    <2> QED BY <2>3, <2>4
  <1>7. d \in core_mask[f]
    BY <1>5
  <1> QED BY <1>6, <1>7 DEF RankCores

\* Handing the front of the queue to a ring keeps the invariant: the core is one of
\* the fiber's mask.
LEMMA DelegateToRingKeeps ==
    ASSUME KernelInv, NEW c \in Cores, DelegateToRing(c)
    PROVE  KernelInv'
  <1> DEFINE f == Peek(m_thread_queue)
             r == RankCores(f)
  <1>1. /\ phase[c] = "queue" /\ m_scheduler_lock = c /\ m_thread_queue # <<>>
        /\ m_thread_queue' = RemoveFront(m_thread_queue, priority)
        /\ fiber_state' = [fiber_state EXCEPT ![f] = "ScheduledLocal"]
        /\ current_core' = [current_core EXCEPT ![f] = r]
        /\ local_ring' = [local_ring EXCEPT ![r] = Append(@, f)]
        /\ UNCHANGED <<fiberVars, waitVars, m_runnable_fibers, asleep, restVars, m_scheduler_lock,
                       phase, running>>
    BY DEF DelegateToRing, Schedules
  <1>2. /\ f \in Fibers /\ fiber_state[f] = "Scheduled" /\ f \in Ready
        /\ m_thread_queue' \in Seq(Fibers) /\ Once(m_thread_queue')
        /\ Elements(m_thread_queue') = Elements(m_thread_queue) \ {f}
        /\ IsHeap(m_thread_queue', priority)
    BY <1>1, FrontOfQueue DEF KernelInv, Ready
  <1> HIDE DEF f
  <1>3. r \in Cores
    <2>1. core_mask[f] # {} /\ core_mask[f] \subseteq Cores
      BY <1>2 DEF KernelInv, FieldsInv
    <2> QED BY <2>1, <1>2, RankCoresInMask DEF KernelInv
  <1> HIDE DEF r
  <1>4. /\ fiber_state' \in [Fibers -> FiberState] /\ current_core' \in [Fibers -> Cores]
        /\ fiber_state'[f] = "ScheduledLocal" /\ current_core'[f] = r
        /\ \A g \in Fibers \ {f} : fiber_state'[g] = fiber_state[g] /\ current_core'[g] = current_core[g]
    BY <1>1, <1>2, <1>3 DEF KernelInv, FieldsInv, FiberState
  <1>5. FieldsInv'
    BY <1>1, <1>2, <1>4, FieldsKept DEF KernelInv, FieldsInv, waitVars
  <1>6. QueueInv'
    <2>1. Elements(m_thread_queue') = {g \in Fibers : fiber_state'[g] = "Scheduled"}
      BY <1>2, <1>4 DEF KernelInv, QueueInv
    <2> QED BY <2>1, <1>1, <1>2 DEF QueueInv, fiberVars
  <1>7. RingInv'
    <2>1. /\ local_ring \in [Cores -> Seq(Fibers)]
          /\ \A d \in Cores : /\ Once(local_ring[d])
                              /\ Elements(local_ring[d]) =
                                    {g \in Fibers : fiber_state[g] = "ScheduledLocal" /\ current_core[g] = d}
      BY DEF KernelInv, RingInv
    <2>2. f \notin Elements(local_ring[r])
      BY <2>1, <1>2, <1>3
    <2>3. /\ Append(local_ring[r], f) \in Seq(Fibers) /\ Once(Append(local_ring[r], f))
          /\ Elements(Append(local_ring[r], f)) = Elements(local_ring[r]) \cup {f}
      BY <2>1, <2>2, <1>2, <1>3, ListAppend
    <2>4. ASSUME NEW d \in Cores
          PROVE  /\ Once(local_ring'[d])
                 /\ Elements(local_ring'[d]) =
                       {g \in Fibers : fiber_state'[g] = "ScheduledLocal" /\ current_core'[g] = d}
      <3>1. CASE d = r
        <4>1. local_ring'[d] = Append(local_ring[r], f)
          BY <3>1, <1>1, <2>1
        <4>2. {g \in Fibers : fiber_state'[g] = "ScheduledLocal" /\ current_core'[g] = d}
                  = {g \in Fibers : fiber_state[g] = "ScheduledLocal" /\ current_core[g] = d} \cup {f}
          BY <3>1, <1>2, <1>4
        <4> QED BY <3>1, <4>1, <4>2, <2>1, <2>3
      <3>2. CASE d # r
        <4>1. local_ring'[d] = local_ring[d]
          BY <3>2, <1>1, <2>1
        <4>2. {g \in Fibers : fiber_state'[g] = "ScheduledLocal" /\ current_core'[g] = d}
                  = {g \in Fibers : fiber_state[g] = "ScheduledLocal" /\ current_core[g] = d}
          BY <3>2, <1>2, <1>4
        <4> QED BY <4>1, <4>2, <2>1
      <3> QED BY <3>1, <3>2
    <2>5. local_ring' \in [Cores -> Seq(Fibers)]
      BY <1>1, <2>1, <2>3
    <2> QED BY <2>4, <2>5 DEF RingInv
  <1>8. ParkInv'
    BY <1>1, <1>2, <1>4, ParkKept DEF KernelInv, waitVars
  <1>9. RunInv'
    <2>1. Off(f)
      BY <1>2, IdleIsOff DEF KernelInv
    <2> QED BY <2>1, <1>1, <1>2, <1>4, RunKept DEF KernelInv
  <1>10. LockInv'
    BY SchedulerStepLock DEF KernelInv, SchedulerStep
  <1>11. CountInv'
    <2>1. Ready' = Ready
      BY <1>2, <1>4 DEF Ready
    <2> QED BY <2>1, <1>1 DEF KernelInv, CountInv, Active, restVars
  <1>12. RestInv'
    BY <1>1 DEF KernelInv, RestInv, restVars
  <1> QED BY <1>5, <1>6, <1>7, <1>8, <1>9, <1>10, <1>11, <1>12 DEF KernelInv

\* Every step of the scheduler loop keeps the invariant, and none of them aborts.
THEOREM SchedulerStepKeeps ==
    ASSUME KernelInv, NEW c \in Cores, SchedulerStep(c)
    PROVE  KernelInv' /\ (aborted = FALSE => aborted' = FALSE)
  <1>1. KernelInv'
    <2>1. CASE StartCore(c) \/ BootScheduler(c) \/ PostDispatch(c)
      BY <2>1, StartCoreKeeps, BootSchedulerKeeps, PostDispatchKeeps
    <2>2. CASE \E f \in Fibers : CancelSleep(c, f)
      BY <2>2, CancelSleepKeeps
    <2>3. CASE ScheduleLocal(c) \/ FallBackToQueue(c) \/ ScheduleFromQueue(c) \/ DelegateToRing(c)
      BY <2>3, ScheduleLocalKeeps, FallBackToQueueKeeps, ScheduleFromQueueKeeps, DelegateToRingKeeps
    <2>4. CASE Rest(c) \/ WaitOnRunnable(c)
      BY <2>4, RestKeeps, WaitOnRunnableKeeps
    <2>5. CASE WakeCore(c) \/ SkipRest(c)
      BY <2>5, LeaveRestKeeps
    <2>6. CASE RestTimeout(c)
      BY <2>6, RestTimeoutKeeps
    <2> QED BY <2>1, <2>2, <2>3, <2>4, <2>5, <2>6 DEF SchedulerStep
  <1>2. CASE PostDispatch(c)
    BY <1>1, <1>2, PostDispatchKeeps
  <1>3. CASE ~PostDispatch(c)
    <2>1. UNCHANGED aborted
      BY <1>3 DEF SchedulerStep, StartCore, BootScheduler, CancelSleep, ScheduleLocal,
         FallBackToQueue, ScheduleFromQueue, DelegateToRing, Rest, WaitOnRunnable, WakeCore,
         SkipRest, RestTimeout
    <2> QED BY <1>1, <2>1
  <1> QED BY <1>2, <1>3

-----------------------------------------------------------------------------
(* System calls that give up the core. *)

\* The lock and the counts of cores, when a fiber's core goes to its scheduler.
LEMMA SwitchCounts ==
    ASSUME LockInv, CountInv, RestInv, LockFree, NEW c \in Cores, phase[c] \in {"user", "boot"},
           SwitchToScheduler(c), UNCHANGED restVars, UNCHANGED asleep
    PROVE  LockInv' /\ RestInv' /\ m_active_cores' = Cardinality(Active')
  <1>1. LockInv'
    BY SwitchLock
  <1>2. PICK p \in {"booted", "switched"} : phase' = [phase EXCEPT ![c] = p]
    BY DEF SwitchToScheduler
  <1>3. RestInv'
    <2>1. phase \in [Cores -> Phase]
      BY DEF LockInv
    <2> QED BY <2>1, <1>2 DEF RestInv, restVars
  <1>4. Active' = Active
    <2>1. p \in Phase /\ p \notin {"rest", "resting"}
      BY DEF Phase
    <2> QED BY <2>1, <1>2, ActiveCores
  <1> QED BY <1>1, <1>3, <1>4 DEF CountInv, restVars

\* What a call that gives up the core needs to say of its own fiber.
LEMMA CallKeeps ==
    ASSUME KernelInv, NEW f \in Fibers, NEW c \in Cores, Runs(f, c), LockFree,
           SwitchToScheduler(c), fiber_state' \in [Fibers -> FiberState],
           fiber_state'[f] \in {"Running", "Waiting", "Exiting"},
           f = MainFiber => fiber_state'[f] # "Exiting",
           \A g \in Fibers \ {f} : fiber_state'[g] = fiber_state[g],
           UNCHANGED <<fiberVars, m_thread_queue, m_runnable_fibers, asleep, restVars,
                       current_core, local_ring, running>>
    PROVE  /\ QueueInv' /\ RingInv' /\ RunInv' /\ LockInv' /\ CountInv' /\ RestInv'
           /\ fiber_state[f] = "Running"
  <1>1. /\ phase[c] \in {"user", "boot"} /\ running[c] = f /\ fiber_state[f] = "Running"
    BY DEF Runs, KernelInv, RunInv, MayBe
  <1>2. QueueInv'
    BY <1>1, QueueKept DEF KernelInv, fiberVars
  <1>3. RingInv'
    BY <1>1, RingKept DEF KernelInv
  <1>4. RunInv'
    BY RunSwitched DEF KernelInv
  <1>5. LockInv' /\ RestInv' /\ m_active_cores' = Cardinality(Active')
    BY <1>1, SwitchCounts DEF KernelInv
  <1>6. Ready' = Ready
    BY <1>1 DEF Ready
  <1> QED BY <1>1, <1>2, <1>3, <1>4, <1>5, <1>6 DEF KernelInv, CountInv

\* YieldThread keeps the invariant.
LEMMA YieldKeeps ==
    ASSUME KernelInv, NEW f \in Fibers, NEW c \in Cores, YieldThread(f, c)
    PROVE  KernelInv' /\ fiber_state[f] = "Running"
  <1>1. /\ Runs(f, c) /\ LockFree /\ SwitchToScheduler(c)
        /\ UNCHANGED <<fiberVars, waitVars, readyVars, restVars, current_core, local_ring, running,
                       aborted>>
    BY DEF YieldThread
  <1>2. fiber_state[f] = "Running" /\ fiber_state' = fiber_state /\ fiber_state \in [Fibers -> FiberState]
    BY <1>1 DEF Runs, KernelInv, RunInv, MayBe, readyVars, FieldsInv
  <1>3. QueueInv' /\ RingInv' /\ RunInv' /\ LockInv' /\ CountInv' /\ RestInv'
    BY <1>1, <1>2, CallKeeps DEF readyVars
  <1>4. FieldsInv'
    BY <1>1, <1>2 DEF KernelInv, FieldsInv, fiberVars, waitVars
  <1>5. ParkInv'
    BY <1>1, <1>2, ParkKept DEF KernelInv, waitVars
  <1> QED BY <1>2, <1>3, <1>4, <1>5 DEF KernelInv

\* The exit of a fiber keeps the invariant.
LEMMA ExitKeeps ==
    ASSUME KernelInv, NEW f \in Fibers, NEW c \in Cores, ExitFiber(f, c)
    PROVE  KernelInv' /\ fiber_state[f] = "Running"
  <1>1. /\ Runs(f, c) /\ LockFree /\ SwitchToScheduler(c) /\ f # MainFiber
        /\ fiber_state' = [fiber_state EXCEPT ![f] = "Exiting"]
        /\ UNCHANGED <<fiberVars, waitVars, m_thread_queue, m_runnable_fibers, asleep, restVars,
                       current_core, local_ring, running, aborted>>
    BY DEF ExitFiber
  <1>2. /\ fiber_state[f] = "Running" /\ fiber_state \in [Fibers -> FiberState]
        /\ fiber_state' \in [Fibers -> FiberState] /\ fiber_state'[f] = "Exiting"
        /\ \A g \in Fibers \ {f} : fiber_state'[g] = fiber_state[g]
    BY <1>1 DEF Runs, KernelInv, RunInv, MayBe, FieldsInv, FiberState
  <1>3. QueueInv' /\ RingInv' /\ RunInv' /\ LockInv' /\ CountInv' /\ RestInv'
    BY <1>1, <1>2, CallKeeps
  <1>4. FieldsInv'
    BY <1>1, <1>2, FieldsKept DEF KernelInv, FieldsInv, waitVars
  <1>5. ParkInv'
    BY <1>1, <1>2, ParkKept DEF KernelInv, waitVars
  <1> QED BY <1>2, <1>3, <1>4, <1>5 DEF KernelInv

\* A fiber that is in no list joins the list of fiber g, or of the scheduler.
LEMMA ParkEntered ==
    ASSUME ParkInv, NEW f \in Fibers, fiber_state[f] # "Waiting", fiber_state'[f] = "Waiting",
           \A g \in Fibers \ {f} : fiber_state'[g] = "Waiting" <=> fiber_state[g] = "Waiting",
           \/ m_wait_list' = Append(m_wait_list, f) /\ UNCHANGED wait_list
           \/ \E g \in Fibers : wait_list' = [wait_list EXCEPT ![g] = Append(@, f)] /\ UNCHANGED m_wait_list
    PROVE  ParkInv'
  <1>1. /\ wait_list \in [Fibers -> Seq(Fibers)] /\ m_wait_list \in Seq(Fibers)
        /\ Once(m_wait_list) /\ \A g \in Fibers : Once(wait_list[g])
    BY DEF ParkInv
  <1>2. f \notin Elements(m_wait_list) /\ \A g \in Fibers : f \notin Elements(wait_list[g])
    BY DEF ParkInv, Parked
  <1>3. CASE m_wait_list' = Append(m_wait_list, f) /\ UNCHANGED wait_list
    <2>1. /\ m_wait_list' \in Seq(Fibers) /\ Once(m_wait_list')
          /\ Elements(m_wait_list') = Elements(m_wait_list) \cup {f}
      BY <1>1, <1>2, <1>3, ListAppend
    <2>2. \A h \in Fibers \ {f} : Parked(h)' = Parked(h)
      BY <2>1, <1>3 DEF Parked
    <2>3. Parked(f)' = {NoFiber}
      BY <2>1, <1>2, <1>3 DEF Parked
    <2> QED BY <2>1, <2>2, <2>3, <1>1, <1>3, SMTT(30) DEF ParkInv
  <1>4. ASSUME NEW g \in Fibers, wait_list' = [wait_list EXCEPT ![g] = Append(@, f)],
               UNCHANGED m_wait_list
        PROVE  ParkInv'
    <2>1. /\ wait_list'[g] \in Seq(Fibers) /\ Once(wait_list'[g])
          /\ Elements(wait_list'[g]) = Elements(wait_list[g]) \cup {f}
      BY <1>1, <1>2, <1>4, ListAppend
    <2>2. \A h \in Fibers \ {g} : wait_list'[h] = wait_list[h]
      BY <1>1, <1>4
    <2>3. wait_list' \in [Fibers -> Seq(Fibers)] /\ \A h \in Fibers : Once(wait_list'[h])
      BY <2>1, <2>2, <1>1, <1>4
    <2>4. \A h \in Fibers \ {f} : Parked(h)' = Parked(h)
      BY <2>1, <2>2, <1>4 DEF Parked
    <2>5. Parked(f)' = {g}
      BY <2>1, <2>2, <1>2, <1>4 DEF Parked
    <2> QED BY <2>3, <2>4, <2>5, <1>1, <1>4 DEF ParkInv
  <1> QED BY <1>3, <1>4

\* Sleep keeps the invariant.
LEMMA SleepKeeps ==
    ASSUME KernelInv, NEW f \in Fibers, NEW c \in Cores, NEW t \in TimeoutValues, Sleep(f, c, t)
    PROVE  KernelInv' /\ fiber_state[f] = "Running"
  <1>1. /\ Runs(f, c) /\ LockFree /\ SwitchToScheduler(c)
        /\ timeout' = [timeout EXCEPT ![f] = t]
        /\ fiber_state' = [fiber_state EXCEPT ![f] = "Waiting"]
        /\ waitable_object' = [waitable_object EXCEPT ![f] = "time"]
        /\ m_wait_list' = Append(m_wait_list, f)
        /\ UNCHANGED <<fiberVars, last_result, wait_list, m_thread_queue, m_runnable_fibers, asleep,
                       restVars, current_core, local_ring, running, aborted>>
    BY DEF Sleep
  <1>2. /\ fiber_state[f] = "Running" /\ fiber_state \in [Fibers -> FiberState]
        /\ fiber_state' \in [Fibers -> FiberState] /\ fiber_state'[f] = "Waiting"
        /\ \A g \in Fibers \ {f} : fiber_state'[g] = fiber_state[g]
    <2>1. fiber_state[f] = "Running"
      BY <1>1 DEF Runs, KernelInv, RunInv, MayBe
    <2> QED BY <1>1, <2>1 DEF KernelInv, FieldsInv, FiberState
  <1>3. QueueInv' /\ RingInv' /\ RunInv' /\ LockInv' /\ CountInv' /\ RestInv'
    BY <1>1, <1>2, CallKeeps
  <1>4. FieldsInv'
    <2>1. waitable_object' \in [Fibers -> WaitableObjects] /\ timeout' \in [Fibers -> TimeoutValues]
      BY <1>1 DEF KernelInv, FieldsInv, WaitableObjects
    <2> QED BY <2>1, <1>1, <1>2, FieldsKept DEF KernelInv, FieldsInv
  <1>5. ParkInv'
    BY <1>1, <1>2, ParkEntered DEF KernelInv
  <1> QED BY <1>2, <1>3, <1>4, <1>5 DEF KernelInv

\* A step that leaves the scheduler alone, or aborts, keeps the invariant.
LEMMA KernelAborts ==
    ASSUME KernelInv,
           UNCHANGED <<fiberVars, waitVars, readyVars, restVars, current_core, local_ring,
                       m_scheduler_lock, phase, running>>
    PROVE  KernelInv'
  <1>0. UNCHANGED <<fiberVars, waitable_object, timeout, last_result, wait_list, m_wait_list,
                    fiber_state, m_thread_queue, m_runnable_fibers, asleep, wait_value, armed,
                    m_active_cores, current_core, local_ring, m_scheduler_lock, phase, running>>
    BY DEF waitVars, readyVars, restVars
  <1>1. FieldsInv'
    BY <1>0 DEF KernelInv, fiberVars, FieldsInv
  <1>2. QueueInv' /\ RingInv'
    BY <1>0, QueueKept, RingKept DEF KernelInv, fiberVars
  <1>3. ParkInv'
    BY <1>0, ParkKept DEF KernelInv
  <1>4. RunInv'
    BY <1>0, RunKept DEF KernelInv
  <1>5. LockInv'
    BY <1>0, LockStutter DEF KernelInv
  <1>6. CountInv' /\ RestInv'
    BY <1>0 DEF KernelInv, CountInv, RestInv, Ready, Active
  <1> QED BY <1>1, <1>2, <1>3, <1>4, <1>5, <1>6 DEF KernelInv

\* A step that leaves the scheduler alone keeps the invariant.
LEMMA KernelStutter ==
    ASSUME KernelInv, UNCHANGED kernelVars
    PROVE  KernelInv'
  <1>1. UNCHANGED <<fiberVars, waitVars, readyVars, restVars, current_core, local_ring,
                    m_scheduler_lock, phase, running>>
    BY DEF kernelVars, fiberVars, waitVars, readyVars, restVars
  <1> QED BY <1>1, KernelAborts

-----------------------------------------------------------------------------
(* The end of a wait, by a running fiber or by the scheduler. *)

\* A wait list is emptied, and the fibers of it wait no more.
LEMMA ListEmptied ==
    ASSUME ParkInv, NEW g \in Fibers,
           wait_list' = [wait_list EXCEPT ![g] = <<>>], UNCHANGED m_wait_list,
           \A f \in Elements(wait_list[g]) : fiber_state'[f] # "Waiting",
           \A f \in Fibers \ Elements(wait_list[g]) :
               fiber_state'[f] = "Waiting" <=> fiber_state[f] = "Waiting"
    PROVE  ParkInv' /\ \A f \in Elements(wait_list[g]) : f \in Fibers /\ fiber_state[f] = "Waiting"
  <1>1. /\ wait_list \in [Fibers -> Seq(Fibers)] /\ m_wait_list \in Seq(Fibers)
        /\ Once(m_wait_list) /\ \A h \in Fibers : Once(wait_list[h])
    BY DEF ParkInv
  <1>2. /\ wait_list' \in [Fibers -> Seq(Fibers)] /\ \A h \in Fibers : Once(wait_list'[h])
        /\ \A h \in Fibers \ {g} : wait_list'[h] = wait_list[h]
        /\ wait_list'[g] = <<>>
    BY <1>1, EmptyList
  <1>3. Elements(wait_list'[g]) = {} /\ Elements(wait_list[g]) \subseteq Fibers
    BY <1>1, <1>2, EmptyList, ListElements
  <1>4. \A f \in Elements(wait_list[g]) : f \in Fibers /\ fiber_state[f] = "Waiting" /\ Parked(f) = {g}
    <2> SUFFICES ASSUME NEW f \in Elements(wait_list[g])
                 PROVE  f \in Fibers /\ fiber_state[f] = "Waiting" /\ Parked(f) = {g}
      OBVIOUS
    <2>1. f \in Fibers /\ g \in Parked(f)
      BY <1>3 DEF Parked
    <2> QED BY <2>1 DEF ParkInv
  <1>5. \A f \in Fibers \ Elements(wait_list[g]) : Parked(f)' = Parked(f)
    <2> SUFFICES ASSUME NEW f \in Fibers \ Elements(wait_list[g]) PROVE Parked(f)' = Parked(f)
      OBVIOUS
    <2>1. \A h \in Fibers : f \in Elements(wait_list'[h]) <=> f \in Elements(wait_list[h])
      BY <1>2, <1>3
    <2> QED BY <2>1 DEF Parked
  <1>6. \A f \in Elements(wait_list[g]) : Parked(f)' = {}
    <2> SUFFICES ASSUME NEW f \in Elements(wait_list[g]) PROVE Parked(f)' = {}
      OBVIOUS
    <2>1. \A h \in Fibers \ {g} : f \notin Elements(wait_list[h])
      BY <1>4 DEF Parked
    <2>2. \A h \in Fibers : f \notin Elements(wait_list'[h])
      BY <1>2, <1>3, <2>1
    <2>3. f \notin Elements(m_wait_list)
      BY <1>4 DEF Parked
    <2> QED BY <2>2, <2>3 DEF Parked
  <1>7. \A f \in Fibers : IF fiber_state'[f] = "Waiting"
                         THEN \E h \in Fibers \cup {NoFiber} : Parked(f)' \subseteq {h} ELSE Parked(f)' = {}
    <2> TAKE f \in Fibers
    <2>1. CASE f \in Elements(wait_list[g])
      BY <2>1, <1>6
    <2>2. CASE f \notin Elements(wait_list[g])
      BY <2>2, <1>5 DEF ParkInv
    <2> QED BY <2>1, <2>2
  <1> QED BY <1>1, <1>2, <1>4, <1>7 DEF ParkInv

\* EndFiberWaitImpl for waiting fibers keeps the invariant, if the caller unlinks
\* them: whoever it is, the fibers have left the cores they were on.
LEMMA WaitEnded ==
    ASSUME KernelInv, NEW s \in Seq(Fibers), Once(s),
           \A f \in Elements(s) : fiber_state[f] = "Waiting",
           NEW wait_result \in {"Success", "Timeout"}, EndFiberWaitImpl(s, wait_result),
           waitable_object' \in [Fibers -> WaitableObjects],
           \A c \in Cores : phase[c] \notin {"booted", "switched"},
           UNCHANGED <<fiberVars, restVars, current_core, local_ring, m_scheduler_lock, phase, running>>
    PROVE  /\ FieldsInv' /\ QueueInv' /\ RingInv' /\ RunInv' /\ LockInv' /\ CountInv' /\ RestInv'
           /\ \A f \in Fibers : fiber_state'[f] =
                  IF f \notin Elements(s) THEN fiber_state[f]
                  ELSE IF activity_level[f] = "Schedulable" THEN "Scheduled" ELSE "Suspended"
  <1>1. Elements(s) \subseteq Fibers
    BY ListElements
  <1>2. /\ AddToSchedulerUnsafe(s)
        /\ last_result' = [g \in Fibers |-> IF g \in Elements(s) THEN wait_result ELSE last_result[g]]
        /\ timeout' = [g \in Fibers |-> IF g \in Elements(s) THEN "none" ELSE timeout[g]]
    BY DEF EndFiberWaitImpl
  <1>3. /\ fiber_state' \in [Fibers -> FiberState]
        /\ \A g \in Fibers : fiber_state'[g] =
              IF g \notin Elements(s) THEN fiber_state[g]
              ELSE IF activity_level[g] = "Schedulable" THEN "Scheduled" ELSE "Suspended"
        /\ QueueInv'
        /\ m_runnable_fibers' = Cardinality(Ready')
        /\ asleep' \subseteq asleep
    <2>1. Elements(s) \cap Ready = {}
      BY DEF Ready
    <2>2. UNCHANGED priority
      BY DEF fiberVars
    <2> QED BY <2>1, <2>2, <1>2, AddedToScheduler DEF KernelInv
  <1>4. \A f \in Elements(s) : fiber_state'[f] \in {"Scheduled", "Suspended"}
    BY <1>1, <1>3
  <1>5. FieldsInv'
    <2>1. timeout' \in [Fibers -> TimeoutValues] /\ last_result' \in [Fibers -> {"Success", "Timeout"}]
      BY <1>2 DEF KernelInv, FieldsInv, TimeoutValues
    <2>2. \A f \in Fibers : fiber_state'[f] # "Unallocated" => core_mask[f] # {}
      BY <1>3, <1>1 DEF KernelInv, FieldsInv
    <2> QED BY <2>1, <2>2, <1>3, FieldsKept DEF KernelInv, FieldsInv
  <1>6. RingInv'
    BY <1>3, <1>4, RingKept DEF KernelInv
  <1>7. RunInv'
    <2>1. \A f \in Elements(s) : Off(f)
      BY <1>1, IdleIsOff DEF KernelInv
    <2> QED BY <2>1, <1>3, <1>4, RunKept DEF KernelInv
  <1>8. LockInv'
    BY LockStutter DEF KernelInv
  <1>9. m_active_cores' = Cardinality(Active')
    BY DEF KernelInv, CountInv, Active, restVars
  <1>10. RestInv'
    BY <1>3 DEF KernelInv, RestInv, restVars
  <1> QED BY <1>3, <1>5, <1>6, <1>7, <1>8, <1>9, <1>10 DEF CountInv

-----------------------------------------------------------------------------
(* The lists that the end of a wait cuts and joins. *)

\* SubSeq cuts a list without repetitions into two without common nodes.
LEMMA ListCut ==
    ASSUME NEW s \in Seq(Fibers), NEW n \in 0 .. Len(s), Once(s)
    PROVE  LET l == SubSeq(s, 1, n)  r == SubSeq(s, n + 1, Len(s))
           IN  /\ l \in Seq(Fibers) /\ r \in Seq(Fibers) /\ Len(l) = n
               /\ Once(l) /\ Once(r) /\ Elements(l) \cap Elements(r) = {}
               /\ Elements(s) = Elements(l) \cup Elements(r)
  <1> DEFINE l == SubSeq(s, 1, n)
             r == SubSeq(s, n + 1, Len(s))
  <1>0. Len(s) \in Nat /\ n \in Nat /\ n <= Len(s) /\ \A i \in 1 .. Len(s) : s[i] \in Fibers
    OBVIOUS
  <1>1. l \in Seq(Fibers) /\ Len(l) = n /\ \A i \in 1 .. n : l[i] = s[i]
    <2>1. \A i \in 1 .. n : s[i] \in Fibers
      BY <1>0
    <2>2. /\ l \in Seq(Fibers) /\ Len(l) = IF 1 <= n THEN n - 1 + 1 ELSE 0
          /\ \A i \in 1 .. n - 1 + 1 : l[i] = s[1 + i - 1]
      BY <1>0, <2>1, SubSeqProperties
    <2> HIDE DEF l
    <2> QED BY <1>0, <2>2
  <1>2. r \in Seq(Fibers) /\ Len(r) = Len(s) - n /\ \A i \in 1 .. Len(s) - n : r[i] = s[n + i]
    <2>1. \A i \in n + 1 .. Len(s) : s[i] \in Fibers
      BY <1>0
    <2>2. /\ r \in Seq(Fibers) /\ Len(r) = IF n + 1 <= Len(s) THEN Len(s) - (n + 1) + 1 ELSE 0
          /\ \A i \in 1 .. Len(s) - (n + 1) + 1 : r[i] = s[n + 1 + i - 1]
      BY <1>0, <2>1, SubSeqProperties
    <2> HIDE DEF r
    <2>3. Len(r) = Len(s) - n
      BY <1>0, <2>2
    <2>4. ASSUME NEW i \in 1 .. Len(s) - n PROVE r[i] = s[n + i]
      <3>1. i \in 1 .. Len(s) - (n + 1) + 1 /\ n + 1 + i - 1 = n + i
        BY <1>0
      <3>2. r[i] = s[n + 1 + i - 1]
        BY <2>2, <3>1
      <3> QED BY <3>1, <3>2
    <2> QED BY <2>2, <2>3, <2>4
  <1> HIDE DEF l, r
  <1>3. Once(l) /\ Once(r)
    <2>1. \A i, j \in 1 .. Len(s) : s[i] = s[j] => i = j
      BY DEF Once, Entries
    <2>2. Once(l)
      BY <1>0, <1>1, <2>1 DEF Once, Entries
    <2>3. ASSUME NEW i \in 1 .. Len(r), NEW j \in 1 .. Len(r), r[i] = r[j] PROVE i = j
      <3>1. n + i \in 1 .. Len(s) /\ n + j \in 1 .. Len(s) /\ s[n + i] = s[n + j]
        BY <1>0, <1>2, <2>3
      <3> QED BY <1>0, <2>1, <3>1
    <2> QED BY <2>2, <2>3 DEF Once, Entries
  <1>4. Elements(l) \cap Elements(r) = {}
    <2> SUFFICES ASSUME NEW i \in 1 .. Len(l), NEW j \in 1 .. Len(r), l[i] = r[j] PROVE FALSE
      BY DEF Elements
    <2>1. i \in 1 .. Len(s) /\ n + j \in 1 .. Len(s) /\ s[i] = s[n + j] /\ i # n + j
      BY <1>0, <1>1, <1>2
    <2> QED BY <2>1 DEF Once, Entries
  <1>5. Elements(s) = Elements(l) \cup Elements(r)
    <2>1. ASSUME NEW i \in 1 .. Len(s) PROVE s[i] \in Elements(l) \cup Elements(r)
      <3>1. CASE i <= n
        <4>1. i \in 1 .. Len(l) /\ l[i] = s[i]
          BY <1>0, <1>1, <3>1
        <4> QED BY <4>1 DEF Elements
      <3>2. CASE i > n
        <4>1. i - n \in 1 .. Len(r) /\ r[i - n] = s[n + (i - n)] /\ n + (i - n) = i
          BY <1>0, <1>2, <3>2
        <4> QED BY <4>1 DEF Elements
      <3> QED BY <1>0, <3>1, <3>2
    <2>2. ASSUME NEW i \in 1 .. Len(l) PROVE l[i] \in Elements(s)
      BY <1>0, <1>1 DEF Elements
    <2>3. ASSUME NEW i \in 1 .. Len(r) PROVE r[i] \in Elements(s)
      <3>1. n + i \in 1 .. Len(s) /\ r[i] = s[n + i]
        BY <1>0, <1>2
      <3> QED BY <3>1 DEF Elements
    <2> QED BY <2>1, <2>2, <2>3 DEF Elements
  <1> QED BY <1>1, <1>2, <1>3, <1>4, <1>5 DEF l, r

\* Two lists without common nodes are joined.
LEMMA ListJoin ==
    ASSUME NEW s \in Seq(Fibers), NEW t \in Seq(Fibers)
    PROVE  /\ s \o t \in Seq(Fibers)
           /\ Elements(s \o t) = Elements(s) \cup Elements(t)
           /\ Once(s) /\ Once(t) /\ Elements(s) \cap Elements(t) = {} => Once(s \o t)
  <1> DEFINE u == s \o t
             n == Len(s)
  <1>1. /\ u \in Seq(Fibers) /\ Len(u) = n + Len(t)
        /\ \A i \in 1 .. n + Len(t) : u[i] = IF i <= n THEN s[i] ELSE t[i - n]
    BY ConcatProperties
  <1>2. n \in Nat /\ Len(t) \in Nat
    OBVIOUS
  <1> HIDE DEF u
  <1>3. \A i \in 1 .. n : i \in 1 .. Len(u) /\ u[i] = s[i]
    BY <1>1, <1>2
  <1>4. \A i \in 1 .. Len(t) : n + i \in 1 .. Len(u) /\ u[n + i] = t[i]
    <2> SUFFICES ASSUME NEW i \in 1 .. Len(t) PROVE n + i \in 1 .. Len(u) /\ u[n + i] = t[i]
      OBVIOUS
    <2>1. n + i \in 1 .. n + Len(t) /\ ~ (n + i <= n) /\ n + i - n = i
      BY <1>2
    <2> QED BY <1>1, <2>1
  <1> HIDE DEF n
  <1>5. \A i \in 1 .. Len(u) : i \in 1 .. n \/ (i - n \in 1 .. Len(t) /\ n + (i - n) = i)
    BY <1>1, <1>2
  <1>6. Elements(u) = Elements(s) \cup Elements(t)
    <2>1. \A i \in 1 .. Len(u) : u[i] \in Elements(s) \cup Elements(t)
      BY <1>3, <1>4, <1>5 DEF Elements, n
    <2>2. \A i \in 1 .. Len(s) : s[i] \in Elements(u)
      BY <1>3 DEF Elements, n
    <2>3. \A i \in 1 .. Len(t) : t[i] \in Elements(u)
      BY <1>4 DEF Elements
    <2> QED BY <2>1, <2>2, <2>3 DEF Elements
  <1>7. ASSUME Once(s), Once(t), Elements(s) \cap Elements(t) = {} PROVE Once(u)
    <2> SUFFICES ASSUME NEW i \in 1 .. Len(u), NEW j \in 1 .. Len(u), u[i] = u[j] PROVE i = j
      BY DEF Once, Entries
    <2>1. CASE i \in 1 .. n /\ j \in 1 .. n
      BY <1>3, <1>7, <2>1 DEF Once, Entries, n
    <2>2. CASE i \notin 1 .. n /\ j \notin 1 .. n
      <3>1. i - n \in 1 .. Len(t) /\ j - n \in 1 .. Len(t) /\ t[i - n] = t[j - n]
        BY <1>4, <1>5, <2>2
      <3>2. i - n = j - n
        BY <1>7, <3>1 DEF Once, Entries
      <3> QED BY <1>2, <3>2
    <2>3. ASSUME NEW k \in 1 .. n, NEW m \in 1 .. Len(u), m \notin 1 .. n, u[k] = u[m] PROVE FALSE
      <3>1. u[k] \in Elements(s)
        BY <1>3 DEF Elements, n
      <3>2. u[m] \in Elements(t)
        BY <1>4, <1>5, <2>3 DEF Elements
      <3> QED BY <1>7, <2>3, <3>1, <3>2
    <2> QED BY <2>1, <2>2, <2>3
  <1> QED BY <1>1, <1>6, <1>7 DEF u

\* The head of a list of fibers is parked there and nowhere else, and so are the
\* other nodes.
LEMMA ParkedThere ==
    ASSUME ParkInv, NEW p \in Elements(m_wait_list)
    PROVE  /\ p \in Fibers /\ fiber_state[p] = "Waiting" /\ Parked(p) = {NoFiber}
           /\ \A f \in Elements(wait_list[p]) :
                 f \in Fibers \ {p} /\ fiber_state[f] = "Waiting" /\ Parked(f) = {p}
  <1>1. /\ m_wait_list \in Seq(Fibers) /\ Elements(m_wait_list) \subseteq Fibers
        /\ wait_list \in [Fibers -> Seq(Fibers)]
    BY ListElements DEF ParkInv
  <1>2. NoFiber \in Parked(p)
    BY DEF Parked
  <1>3. p \in Fibers /\ fiber_state[p] = "Waiting" /\ Parked(p) = {NoFiber}
    BY <1>1, <1>2 DEF ParkInv
  <1>4. ASSUME NEW f \in Elements(wait_list[p])
        PROVE  f \in Fibers \ {p} /\ fiber_state[f] = "Waiting" /\ Parked(f) = {p}
    <2>1. f \in Fibers /\ p \in Parked(f)
      BY <1>1, <1>3, ListElements DEF Parked
    <2>2. fiber_state[f] = "Waiting" /\ Parked(f) = {p}
      BY <2>1 DEF ParkInv
    <2> QED BY <1>3, <2>1, <2>2
  <1> QED BY <1>3, <1>4

\* The parent p and the first of its children, l, wait no more; the first of the
\* others, r, becomes the parent of the rest, in the scheduler's list or in none.
LEMMA ParkMoved ==
    ASSUME ParkInv, NEW p \in Elements(m_wait_list), NEW l \in Seq(Fibers), NEW r \in Seq(Fibers),
           Once(r), Elements(l) \cap Elements(r) = {},
           Elements(wait_list[p]) = Elements(l) \cup Elements(r),
           \A f \in Fibers : fiber_state'[f] = "Waiting" <=>
                                 fiber_state[f] = "Waiting" /\ f # p /\ f \notin Elements(l),
           \/ /\ r = <<>> /\ wait_list' = [wait_list EXCEPT ![p] = <<>>]
              /\ m_wait_list' = Without(m_wait_list, p)
           \/ /\ r # <<>> /\ wait_list' = [wait_list EXCEPT ![p] = <<>>, ![Head(r)] = @ \o Tail(r)]
              /\ m_wait_list' \in {Append(Without(m_wait_list, p), Head(r)), Without(m_wait_list, p)}
    PROVE  ParkInv'
  <1> DEFINE w == Without(m_wait_list, p)
  <1>1. /\ wait_list \in [Fibers -> Seq(Fibers)] /\ m_wait_list \in Seq(Fibers)
        /\ Once(m_wait_list) /\ \A g \in Fibers : Once(wait_list[g])
    BY DEF ParkInv
  <1>2. /\ p \in Fibers /\ fiber_state[p] = "Waiting" /\ Parked(p) = {NoFiber}
        /\ \A f \in Elements(wait_list[p]) :
              f \in Fibers \ {p} /\ fiber_state[f] = "Waiting" /\ Parked(f) = {p}
    BY ParkedThere
  <1>3. w \in Seq(Fibers) /\ Once(w) /\ Elements(w) = Elements(m_wait_list) \ {p}
    <2>1. w \in Seq(Fibers) /\ Once(w) /\ Elements(w) = Elements(m_wait_list) \cap (Fibers \ {p})
      BY <1>1, KeptInList DEF Without
    <2> QED BY <1>1, <2>1, ListElements
  <1> HIDE DEF w
  <1>4. /\ \A g \in Fibers : p \notin Elements(wait_list[g])
        /\ \A f \in Elements(wait_list[p]) :
              f \notin Elements(m_wait_list) /\ \A g \in Fibers \ {p} : f \notin Elements(wait_list[g])
    BY <1>2 DEF Parked
  <1>5. ASSUME NEW f \in Fibers, f # p, f \notin Elements(wait_list[p]), Parked(f)' = Parked(f)
        PROVE  IF fiber_state'[f] = "Waiting"
               THEN \E g \in Fibers \cup {NoFiber} : Parked(f)' \subseteq {g} ELSE Parked(f)' = {}
    BY <1>5 DEF ParkInv
  <1>6. CASE r = <<>>
    <2>1. wait_list' = [wait_list EXCEPT ![p] = <<>>] /\ m_wait_list' = w
      BY <1>6 DEF w
    <2>2. /\ wait_list' \in [Fibers -> Seq(Fibers)] /\ \A g \in Fibers : Once(wait_list'[g])
          /\ wait_list'[p] = <<>> /\ \A g \in Fibers \ {p} : wait_list'[g] = wait_list[g]
      BY <1>1, <1>2, <2>1, EmptyList
    <2>3. \A f, g \in Fibers : f \in Elements(wait_list'[g]) <=> g # p /\ f \in Elements(wait_list[g])
      BY <2>2, EmptyList
    <2>4. Elements(wait_list[p]) = Elements(l)
      BY <1>6, EmptyList
    <2>5. ASSUME NEW f \in Fibers
          PROVE  IF fiber_state'[f] = "Waiting"
                 THEN \E g \in Fibers \cup {NoFiber} : Parked(f)' \subseteq {g} ELSE Parked(f)' = {}
      <3>1. CASE f = p \/ f \in Elements(wait_list[p])
        <4>1. fiber_state'[f] # "Waiting"
          BY <2>4, <3>1
        <4>2. Parked(f)' = {}
          BY <1>3, <1>4, <2>1, <2>3, <3>1 DEF Parked
        <4> QED BY <4>1, <4>2
      <3>2. CASE f # p /\ f \notin Elements(wait_list[p])
        <4>1. Parked(f)' = Parked(f)
          BY <1>3, <2>1, <2>3, <3>2 DEF Parked
        <4> QED BY <1>5, <3>2, <4>1
      <3> QED BY <3>1, <3>2
    <2> QED BY <1>3, <2>1, <2>2, <2>5 DEF ParkInv
  <1>7. CASE r # <<>>
    <2> DEFINE h == Head(r)
               rest == Tail(r)
    <2>1. /\ wait_list' = [wait_list EXCEPT ![p] = <<>>, ![h] = @ \o rest]
          /\ m_wait_list' \in {Append(w, h), w}
      BY <1>7 DEF w
    <2>2. /\ h \in Fibers /\ rest \in Seq(Fibers) /\ Elements(r) = Elements(rest) \cup {h}
          /\ Once(rest) /\ h \notin Elements(rest)
      BY <1>7, ListTail
    <2> HIDE DEF h, rest
    <2>3. h \in Elements(wait_list[p]) /\ h # p /\ Elements(rest) \subseteq Elements(wait_list[p])
      BY <1>2, <2>2
    <2>4. /\ wait_list'[p] = <<>> /\ wait_list'[h] = wait_list[h] \o rest
          /\ \A g \in Fibers \ {p, h} : wait_list'[g] = wait_list[g]
          /\ DOMAIN wait_list' = Fibers /\ wait_list' = [g \in Fibers |-> wait_list'[g]]
      BY <1>1, <1>2, <2>1, <2>2, <2>3
    <2>5. /\ wait_list'[h] \in Seq(Fibers) /\ Once(wait_list'[h])
          /\ Elements(wait_list'[h]) = Elements(wait_list[h]) \cup Elements(rest)
      <3>1. Elements(wait_list[h]) \cap Elements(rest) = {}
        BY <1>4, <2>2, <2>3
      <3> QED BY <1>1, <2>2, <2>4, <3>1, ListJoin
    <2>6. wait_list' \in [Fibers -> Seq(Fibers)] /\ \A g \in Fibers : Once(wait_list'[g])
      <3>1. \A g \in Fibers : wait_list'[g] \in Seq(Fibers) /\ Once(wait_list'[g])
        <4> TAKE g \in Fibers
        <4>1. CASE g = p
          BY <2>4, <4>1, EmptyList
        <4>2. CASE g = h
          BY <2>5, <4>2
        <4>3. CASE g \notin {p, h}
          BY <1>1, <2>4, <4>3
        <4> QED BY <4>1, <4>2, <4>3
      <3> QED BY <2>4, <3>1
    <2>7. /\ m_wait_list' \in Seq(Fibers) /\ Once(m_wait_list')
          /\ Elements(m_wait_list') \subseteq (Elements(m_wait_list) \ {p}) \cup {h}
          /\ Elements(m_wait_list) \ {p} \subseteq Elements(m_wait_list')
      <3>1. h \notin Elements(w)
        BY <1>3, <1>4, <2>3
      <3>2. /\ Append(w, h) \in Seq(Fibers) /\ Once(Append(w, h))
            /\ Elements(Append(w, h)) = Elements(w) \cup {h}
        BY <1>3, <2>2, <3>1, ListAppend
      <3> QED BY <1>3, <2>1, <3>2
    <2>8. \A f, g \in Fibers : f \in Elements(wait_list'[g]) <=>
              \/ g # p /\ f \in Elements(wait_list[g])
              \/ g = h /\ f \in Elements(rest)
      <3> TAKE f, g \in Fibers
      <3>1. CASE g = p
        BY <2>3, <2>4, <3>1, EmptyList
      <3>2. CASE g = h
        BY <2>3, <2>5, <3>2
      <3>3. CASE g \notin {p, h}
        BY <2>4, <3>3
      <3> QED BY <3>1, <3>2, <3>3
    <2>9. ASSUME NEW f \in Fibers
          PROVE  IF fiber_state'[f] = "Waiting"
                 THEN \E g \in Fibers \cup {NoFiber} : Parked(f)' \subseteq {g} ELSE Parked(f)' = {}
      <3>1. CASE f = p \/ f \in Elements(l)
        <4>1. fiber_state'[f] # "Waiting"
          BY <3>1
        <4>2. f # h /\ f \notin Elements(rest) /\ f \notin Elements(m_wait_list')
          BY <1>2, <1>4, <2>2, <2>3, <2>7, <3>1
        <4>3. \A g \in Fibers : f \notin Elements(wait_list'[g])
          BY <1>4, <2>8, <3>1, <4>2
        <4>4. Parked(f)' = {}
          BY <4>2, <4>3 DEF Parked
        <4> QED BY <4>1, <4>4
      <3>2. CASE f = h
        <4>1. fiber_state'[f] = "Waiting"
          BY <1>2, <2>2, <2>3, <3>2
        <4>2. \A g \in Fibers : f \notin Elements(wait_list'[g])
          BY <1>4, <2>2, <2>3, <2>8, <3>2
        <4>3. Parked(f)' \subseteq {NoFiber}
          BY <4>2 DEF Parked
        <4> QED BY <4>1, <4>3
      <3>3. CASE f \in Elements(rest)
        <4>1. fiber_state'[f] = "Waiting"
          BY <1>2, <2>2, <2>3, <3>3
        <4>2. f # h /\ f \notin Elements(m_wait_list')
          BY <1>4, <2>2, <2>3, <2>7, <3>3
        <4>3. \A g \in Fibers : f \in Elements(wait_list'[g]) => g = h
          BY <1>4, <2>3, <2>8, <3>3
        <4>4. Parked(f)' \subseteq {h}
          BY <4>2, <4>3 DEF Parked
        <4> QED BY <2>2, <4>1, <4>4
      <3>4. CASE f # p /\ f \notin Elements(wait_list[p])
        <4>1. \A g \in Fibers : f \in Elements(wait_list'[g]) <=> f \in Elements(wait_list[g])
          BY <2>3, <2>8, <3>4
        <4>2. f \in Elements(m_wait_list') <=> f \in Elements(m_wait_list)
          BY <2>3, <2>7, <3>4
        <4>3. Parked(f)' = Parked(f)
          BY <4>1, <4>2 DEF Parked
        <4> QED BY <1>5, <3>4, <4>3
      <3> QED BY <2>2, <3>1, <3>2, <3>3, <3>4
    <2> QED BY <2>6, <2>7, <2>9 DEF ParkInv
  <1> QED BY <1>6, <1>7

-----------------------------------------------------------------------------
(* The initial states, and what the invariant says. *)

\* The main thread runs and the fibers that were started are queued.
LEMMA KernelInitInv ==
    ASSUME NEW started \in SUBSET (Fibers \ {MainFiber}), NEW mask_of,
           \A f \in started : mask_of[f] \in (SUBSET Cores) \ {{}},
           KernelInit(started, mask_of)
    PROVE  KernelInv /\ aborted = FALSE
  <1> DEFINE n == Cardinality(started)
             q == m_thread_queue
  <1>1. IsFiniteSet(started) /\ n \in Nat /\ n <= Cardinality(Fibers)
    BY FS_Subset, FS_CardinalityType
  <1>2. Cardinality(Fibers) \in Nat /\ Cardinality(Cores) \in Nat
    BY FS_CardinalityType
  <1>3. q \in [1 .. n -> started] /\ Elements(q) = started
    BY DEF KernelInit
  <1>4. /\ fiber_state = [f \in Fibers |-> IF f = MainFiber THEN "Running"
                              ELSE IF f \in started THEN "Scheduled" ELSE "Unallocated"]
        /\ priority = [f \in Fibers |-> PriorityNormal]
        /\ phase = [c \in Cores |-> IF c = BootCore THEN "boot" ELSE "start"]
        /\ running = [c \in Cores |-> IF c = BootCore THEN MainFiber ELSE NoFiber]
        /\ current_core = [f \in Fibers |-> BootCore]
    BY DEF KernelInit
  <1>5. FieldsInv
    BY DEF KernelInit, FieldsInv, FiberState, WaitableObjects, TimeoutValues
  <1>6. QueueInv
    <2> HIDE DEF n, q
    <2>1. q \in Seq(Fibers) /\ Len(q) = n
      BY <1>1, <1>3
    <2>2. Once(q)
      <3>1. q \in Surjection(1 .. n, started)
        <4>1. \A f \in started : \E i \in 1 .. n : q[i] = f
          BY <1>3, <2>1 DEF Elements
        <4> QED BY <4>1, <1>3 DEF Surjection
      <3>2. IsFiniteSet(1 .. n) /\ Cardinality(1 .. n) = Cardinality(started)
        <4>1. n \in Nat /\ 1 \in Int /\ n \in Int
          BY <1>1
        <4>2. IsFiniteSet(1 .. n) /\ Cardinality(1 .. n) = IF 1 > n THEN 0 ELSE n - 1 + 1
          BY <4>1, FS_Interval
        <4>3. Cardinality(1 .. n) = n
          BY <4>1, <4>2
        <4> QED BY <4>2, <4>3 DEF n
      <3>3. q \in Injection(1 .. n, started)
        BY <1>1, <3>1, <3>2, FS_SurjSameCardinalityImpliesInj
      <3> QED BY <3>3, <2>1 DEF Injection, IsInjective, Once, Entries
    <2>3. Elements(q) = {f \in Fibers : fiber_state[f] = "Scheduled"}
      BY <1>3, <1>4
    <2>4. IsHeap(q, priority)
      <3> SUFFICES ASSUME NEW j \in Entries(q) \ {1} PROVE priority[q[j \div 2]] >= priority[q[j]]
        BY DEF IsHeap
      <3>1. j \div 2 \in 1 .. Len(q) /\ j \in 1 .. Len(q)
        BY <2>1, HalfOf, <1>1 DEF Entries
      <3>2. q[j \div 2] \in Fibers /\ q[j] \in Fibers
        BY <3>1, <2>1
      <3> QED BY <3>2, <1>4
    <2> QED BY <2>1, <2>2, <2>3, <2>4 DEF QueueInv, q
  <1>7. RingInv
    BY <1>4, EmptyList DEF KernelInit, RingInv
  <1>8. ParkInv
    <2>1. wait_list = [f \in Fibers |-> <<>>] /\ m_wait_list = <<>>
      BY DEF KernelInit
    <2>2. \A f \in Fibers : Parked(f) = {}
      BY <2>1, EmptyList DEF Parked
    <2> QED BY <2>1, <2>2, <1>4, EmptyList DEF ParkInv
  <1>9. RunInv
    BY <1>4 DEF RunInv, MayBe
  <1>10. LockInv
    BY <1>4 DEF KernelInit, LockInv, LockCoversScheduling, Phase
  <1>11. CountInv
    <2>1. Ready = started /\ Active = Cores
      BY <1>4 DEF Ready, Active
    <2> QED BY <2>1 DEF KernelInit, CountInv
  <1>12. RestInv
    BY <1>2 DEF KernelInit, RestInv
  <1>13. aborted = FALSE
    BY DEF KernelInit
  <1> QED BY <1>5, <1>6, <1>7, <1>8, <1>9, <1>10, <1>11, <1>12, <1>13 DEF KernelInv

\* A list without repetitions is no longer than the fibers are many.
LEMMA OnceIsList ==
    ASSUME NEW s \in Seq(Fibers), Once(s)
    PROVE  s \in Lists /\ Len(s) \in 0 .. Cardinality(Fibers)
  <1> DEFINE n == Len(s)
  <1>1. Elements(s) \in SUBSET Fibers
    BY ListElements
  <1>2. n \in Nat /\ n <= Cardinality(Fibers) /\ Cardinality(Fibers) \in Nat
    BY <1>1, OnceLength, FS_Subset, FS_CardinalityType
  <1>3. s \in [1 .. n -> Fibers] /\ DOMAIN s = 1 .. n
    OBVIOUS
  <1> HIDE DEF n
  <1>4. n \in 0 .. Cardinality(Fibers)
    BY <1>2
  <1>5. s \in UNION {[1 .. m -> Fibers] : m \in 0 .. Cardinality(Fibers)}
    BY <1>3, <1>4
  <1>6. \A i, j \in DOMAIN s : s[i] = s[j] => i = j
    BY <1>3 DEF Once, Entries, n
  <1> QED BY <1>4, <1>5, <1>6 DEF Lists, n

\* The invariant contains the types.
LEMMA KernelTypes ==
    ASSUME KernelInv, aborted = FALSE
    PROVE  SchedulerTypeOK
  <1>1. /\ wait_list \in [Fibers -> Lists] /\ m_wait_list \in Lists
        /\ m_thread_queue \in Lists /\ local_ring \in [Cores -> Lists]
    <2>1. \A g \in Fibers : wait_list[g] \in Lists
      BY OnceIsList DEF KernelInv, ParkInv
    <2>2. \A c \in Cores : local_ring[c] \in Lists
      BY OnceIsList DEF KernelInv, RingInv
    <2>3. m_wait_list \in Lists /\ m_thread_queue \in Lists
      BY OnceIsList DEF KernelInv, ParkInv, QueueInv
    <2> QED BY <2>1, <2>2, <2>3 DEF KernelInv, ParkInv, RingInv
  <1>2. m_runnable_fibers \in 0 .. Cardinality(Fibers)
    BY ReadyIsFinite DEF KernelInv, CountInv
  <1>3. m_active_cores \in 0 .. Cardinality(Cores)
    <2>1. Active \in SUBSET Cores
      BY DEF Active
    <2>2. Cardinality(Active) \in Nat /\ Cardinality(Active) <= Cardinality(Cores) /\ Cardinality(Cores) \in Nat
      BY <2>1, FS_Subset, FS_CardinalityType
    <2> QED BY <2>2 DEF KernelInv, CountInv
  <1>4. asleep \subseteq Cores
    BY DEF KernelInv, RestInv
  <1> QED BY <1>1, <1>2, <1>3, <1>4 DEF KernelInv, FieldsInv, RunInv, LockInv, RestInv, SchedulerTypeOK

\* The positions of f in a list without repetitions.
Positions(s, f) == {i \in 1 .. Len(s) : s[i] = f}

\* A node that is in a list once has one position in it.
LEMMA PositionsOf ==
    ASSUME NEW s \in Seq(Fibers), Once(s), NEW f
    PROVE  /\ f \in Elements(s) => \E i \in 1 .. Len(s) : Positions(s, f) = {i}
           /\ f \notin Elements(s) => Positions(s, f) = {}
  <1>1. f \in Elements(s) => \E i \in 1 .. Len(s) : Positions(s, f) = {i}
    <2> SUFFICES ASSUME NEW i \in 1 .. Len(s), s[i] = f
                 PROVE  Positions(s, f) = {i}
      BY DEF Elements
    <2> QED BY DEF Once, Entries, Positions
  <1> QED BY <1>1 DEF Elements, Positions

\* No step of the loop makes a fiber wait, and only the end of a sleep takes one
\* out of a wait list.
LEMMA SchedulerStepWaits ==
    ASSUME KernelInv, NEW c \in Cores, SchedulerStep(c)
    PROVE  /\ UNCHANGED <<wait_list, waitable_object>>
           /\ \A f \in Fibers : fiber_state'[f] = "Waiting" => fiber_state[f] = "Waiting"
           /\ \/ UNCHANGED <<m_wait_list, timeout>>
              \/ \E f \in Fibers : CancelSleep(c, f)
  <1>0. fiber_state \in [Fibers -> FiberState] /\ running \in [Cores -> Fibers \cup {NoFiber}]
    BY DEF KernelInv, FieldsInv, RunInv
  <1> DEFINE Calm == \A g \in Fibers : fiber_state'[g] = "Waiting" => fiber_state[g] = "Waiting"
  <1>1. /\ UNCHANGED <<wait_list, waitable_object>>
        /\ UNCHANGED <<m_wait_list, timeout>> \/ \E f \in Fibers : CancelSleep(c, f)
    BY DEF SchedulerStep, StartCore, BootScheduler, CancelSleep, ScheduleLocal, PostDispatch,
           FallBackToQueue, ScheduleFromQueue, DelegateToRing, Rest, WaitOnRunnable, WakeCore,
           SkipRest, RestTimeout, waitVars
  <1>2. ASSUME NEW s, AddToSchedulerUnsafe(s) PROVE Calm
    BY <1>2 DEF AddToSchedulerUnsafe
  <1>3. ASSUME NEW f, NEW st, st # "Waiting", fiber_state' = [fiber_state EXCEPT ![f] = st] PROVE Calm
    BY <1>0, <1>3
  <1>4. ASSUME UNCHANGED fiber_state PROVE Calm
    BY <1>4
  <1>5. ASSUME BootScheduler(c) PROVE Calm
    <2>1. Reschedule(MainFiber, activity_level, priority)
      BY <1>5 DEF BootScheduler
    <2>2. UNCHANGED fiber_state \/ \E st \in {"Suspended", "Scheduled"} :
              fiber_state' = [fiber_state EXCEPT ![MainFiber] = st]
      BY <2>1 DEF Reschedule, readyVars
    <2> QED BY <2>2, <1>3, <1>4
  <1>6. ASSUME PostDispatch(c) PROVE Calm
    <2>1. CASE fiber_state[running[c]] = "Running"
      BY <1>6, <2>1, <1>2 DEF PostDispatch
    <2>2. CASE fiber_state[running[c]] # "Running"
      <3>1. fiber_state' = [fiber_state EXCEPT ![running[c]] =
                                IF fiber_state[running[c]] = "Exiting" THEN "Unallocated" ELSE @]
        BY <1>6, <2>2 DEF PostDispatch
      <3> QED BY <1>0, <3>1
    <2> QED BY <2>1, <2>2
  <1>7. ASSUME NEW f \in Fibers, CancelSleep(c, f) PROVE Calm
    <2>1. AddToSchedulerUnsafe(<<f>>)
      BY <1>7 DEF CancelSleep, EndFiberWaitImpl
    <2> QED BY <2>1, <1>2
  <1>8. ASSUME ScheduleLocal(c) \/ ScheduleFromQueue(c) PROVE Calm
    <2>1. \E f : fiber_state' = [fiber_state EXCEPT ![f] = "Running"]
      BY <1>8 DEF ScheduleLocal, ScheduleFromQueue, Dispatch
    <2> QED BY <2>1, <1>3
  <1>9. ASSUME DelegateToRing(c) PROVE Calm
    <2>1. \E f : fiber_state' = [fiber_state EXCEPT ![f] = "ScheduledLocal"]
      BY <1>9 DEF DelegateToRing
    <2> QED BY <2>1, <1>3
  <1>10. ASSUME StartCore(c) \/ FallBackToQueue(c) \/ Rest(c) \/ WaitOnRunnable(c) \/ WakeCore(c)
              \/ SkipRest(c) \/ RestTimeout(c)
         PROVE  Calm
    <2>1. UNCHANGED fiber_state
      BY <1>10 DEF StartCore, FallBackToQueue, Rest, WaitOnRunnable, WakeCore, SkipRest, RestTimeout,
                   readyVars
    <2> QED BY <1>4, <2>1
  <1> HIDE DEF Calm
  <1>11. Calm
    BY <1>5, <1>6, <1>7, <1>8, <1>9, <1>10 DEF SchedulerStep
  <1> QED BY <1>1, <1>11 DEF Calm

\* A waiting fiber is found as long as none but those found begin to wait.
LEMMA StillFound ==
    ASSUME KernelInv, FoundInv, UNCHANGED wait_list,
           \/ /\ UNCHANGED m_wait_list
              /\ \A f \in Fibers : fiber_state'[f] = "Waiting" => fiber_state[f] = "Waiting"
           \/ \E g \in Fibers :
                 /\ m_wait_list' = Without(m_wait_list, g) /\ fiber_state'[g] # "Waiting"
                 /\ \A f \in Fibers : fiber_state'[f] = "Waiting" => fiber_state[f] = "Waiting"
           \/ \E g \in Fibers :
                 /\ m_wait_list' = Append(m_wait_list, g)
                 /\ \A f \in Fibers \ {g} : fiber_state'[f] = "Waiting" => fiber_state[f] = "Waiting"
    PROVE  FoundInv'
  <1>0. m_wait_list \in Seq(Fibers) /\ Once(m_wait_list)
    BY DEF KernelInv, ParkInv
  <1> SUFFICES ASSUME NEW f \in Fibers, fiber_state'[f] = "Waiting" PROVE Parked(f)' # {}
    BY DEF FoundInv
  <1>1. ASSUME f \in Elements(m_wait_list) => f \in Elements(m_wait_list'), fiber_state[f] = "Waiting"
        PROVE  Parked(f)' # {}
    <2>1. Parked(f) # {}
      BY <1>1 DEF FoundInv
    <2> QED BY <1>1, <2>1 DEF Parked
  <1>2. CASE UNCHANGED m_wait_list /\ fiber_state[f] = "Waiting"
    BY <1>1, <1>2
  <1>3. ASSUME NEW g \in Fibers, m_wait_list' = Without(m_wait_list, g), fiber_state'[g] # "Waiting",
               fiber_state[f] = "Waiting"
        PROVE  Parked(f)' # {}
    <2>1. Elements(m_wait_list') = Elements(m_wait_list) \cap (Fibers \ {g})
      BY <1>0, <1>3, KeptInList DEF Without
    <2>2. f # g
      BY <1>3
    <2> QED BY <1>1, <1>3, <2>1, <2>2
  <1>4. ASSUME NEW g \in Fibers, m_wait_list' = Append(m_wait_list, g), f = g \/ fiber_state[f] = "Waiting"
        PROVE  Parked(f)' # {}
    <2>1. Elements(m_wait_list') = Elements(m_wait_list) \cup {g}
      BY <1>0, <1>4, ListAppend
    <2>2. CASE f = g
      BY <2>1, <2>2 DEF Parked
    <2>3. CASE f # g
      BY <1>1, <1>4, <2>1, <2>3
    <2> QED BY <2>2, <2>3
  <1> QED BY <1>2, <1>3, <1>4

\* The queue holds who is Scheduled, once.
LEMMA KernelQueued ==
    ASSUME KernelInv, NEW f \in Fibers
    PROVE  Queued(f) = (IF fiber_state[f] = "Scheduled" THEN 1 ELSE 0)
  <1>1. /\ m_thread_queue \in Seq(Fibers) /\ Once(m_thread_queue)
        /\ f \in Elements(m_thread_queue) <=> fiber_state[f] = "Scheduled"
    BY DEF KernelInv, QueueInv
  <1> DEFINE P == Positions(m_thread_queue, f)
  <1>0. Queued(f) = Cardinality(P)
    BY DEF Queued, Positions
  <1> HIDE DEF P
  <1>2. CASE fiber_state[f] = "Scheduled"
    <2>1. PICK i : P = {i}
      BY <1>1, <1>2, PositionsOf DEF P
    <2> QED BY <1>0, <2>1, <1>2, FS_Singleton
  <1>3. CASE fiber_state[f] # "Scheduled"
    <2>1. P = {}
      BY <1>1, <1>3, PositionsOf DEF P
    <2> QED BY <1>0, <2>1, <1>3, FS_EmptySet
  <1> QED BY <1>2, <1>3

\* Each fiber is in the one place its state names.
LEMMA KernelPlaces ==
    ASSUME KernelInv, FoundInv
    PROVE  OnePlaceInv
  <1> SUFFICES ASSUME NEW f \in Fibers
               PROVE  /\ Queued(f) = (IF fiber_state[f] = "Scheduled" THEN 1 ELSE 0)
                      /\ IF fiber_state[f] = "ScheduledLocal"
                         THEN \E i \in 1 .. Len(local_ring[current_core[f]]) :
                                  RingOf(f) = {<<current_core[f], i>>}
                         ELSE RingOf(f) = {}
                      /\ IF fiber_state[f] = "Waiting"
                         THEN /\ Cardinality(Parked(f)) = 1
                              /\ \A c \in RunBy(f) : phase[c] \in {"switched", "booted"}
                         ELSE Parked(f) = {}
                      /\ IF fiber_state[f] \in {"Running", "Exiting"}
                         THEN RunBy(f) = {current_core[f]}
                         ELSE fiber_state[f] = "Waiting" \/ RunBy(f) = {}
    BY DEF OnePlaceInv
  <1>1. Queued(f) = (IF fiber_state[f] = "Scheduled" THEN 1 ELSE 0)
    BY KernelQueued
  <1>2. IF fiber_state[f] = "ScheduledLocal"
        THEN \E i \in 1 .. Len(local_ring[current_core[f]]) : RingOf(f) = {<<current_core[f], i>>}
        ELSE RingOf(f) = {}
    <2>1. \A c \in Cores : /\ local_ring[c] \in Seq(Fibers) /\ Once(local_ring[c])
                           /\ Len(local_ring[c]) \in 0 .. Cardinality(Fibers)
                           /\ f \in Elements(local_ring[c])
                                  <=> fiber_state[f] = "ScheduledLocal" /\ current_core[f] = c
      BY OnceIsList DEF KernelInv, RingInv
    <2>2. ASSUME NEW c \in Cores, NEW i \in 1 .. Cardinality(Fibers)
          PROVE  <<c, i>> \in RingOf(f) <=>
                     i \in Positions(local_ring[c], f)
      BY <2>1 DEF RingOf, Positions
    <2>3. RingOf(f) \subseteq Cores \X (1 .. Cardinality(Fibers))
      BY DEF RingOf
    <2>4. current_core[f] \in Cores
      BY DEF KernelInv, FieldsInv
    <2>5. CASE fiber_state[f] = "ScheduledLocal"
      <3> DEFINE d == current_core[f]
      <3>1. PICK i \in 1 .. Len(local_ring[d]) : Positions(local_ring[d], f) = {i}
        BY <2>1, <2>4, <2>5, PositionsOf
      <3>2. i \in 1 .. Cardinality(Fibers)
        <4>1. Len(local_ring[d]) \in 0 .. Cardinality(Fibers)
          BY <2>1, <2>4
        <4> DEFINE n == Len(local_ring[d])
                   k == Cardinality(Fibers)
        <4>2. i \in 1 .. n /\ n \in 0 .. k /\ k \in Nat
          BY <4>1, ReadyIsFinite
        <4> HIDE DEF n, k
        <4>3. i \in 1 .. k
          BY <4>2
        <4> QED BY <4>3 DEF k
      <3>3. \A c \in Cores \ {d} : Positions(local_ring[c], f) = {}
        BY <2>1, PositionsOf
      <3>4. \A c \in Cores, j \in 1 .. Cardinality(Fibers) :
                <<c, j>> \in RingOf(f) <=> c = d /\ j = i
        BY <2>2, <2>4, <3>1, <3>3, ZenonT(60)
      <3>5. <<d, i>> \in RingOf(f)
        BY <3>4, <3>2, <2>4
      <3>6. \A p \in RingOf(f) : p = <<d, i>>
        <4> TAKE p \in RingOf(f)
        <4>1. p = <<p[1], p[2]>> /\ p[1] \in Cores /\ p[2] \in 1 .. Cardinality(Fibers)
          BY <2>3
        <4> QED BY <4>1, <3>4
      <3>7. RingOf(f) = {<<d, i>>}
        BY <3>5, <3>6
      <3> QED BY <3>7, <2>5, <3>1
    <2>6. CASE fiber_state[f] # "ScheduledLocal"
      <3>1. \A c \in Cores : Positions(local_ring[c], f) = {}
        BY <2>1, <2>6, PositionsOf
      <3>2. \A c \in Cores, j \in 1 .. Cardinality(Fibers) : <<c, j>> \notin RingOf(f)
        BY <2>2, <3>1
      <3>3. RingOf(f) = {}
        <4> SUFFICES ASSUME NEW p \in RingOf(f) PROVE FALSE
          OBVIOUS
        <4>1. p = <<p[1], p[2]>> /\ p[1] \in Cores /\ p[2] \in 1 .. Cardinality(Fibers)
          BY <2>3
        <4> QED BY <4>1, <3>2
      <3> QED BY <3>3, <2>6
    <2> QED BY <2>5, <2>6
  <1>3. IF fiber_state[f] = "Waiting"
        THEN /\ Cardinality(Parked(f)) = 1
             /\ \A c \in RunBy(f) : phase[c] \in {"switched", "booted"}
        ELSE Parked(f) = {}
    <2>1. CASE fiber_state[f] = "Waiting"
      <3>1. PICK g : Parked(f) = {g}
        BY <2>1 DEF KernelInv, ParkInv, FoundInv
      <3>2. Cardinality(Parked(f)) = 1
        BY <3>1, FS_Singleton
      <3>3. \A c \in RunBy(f) : phase[c] \in {"switched", "booted"}
        BY <2>1 DEF KernelInv, RunInv, MayBe, RunBy
      <3> QED BY <2>1, <3>2, <3>3
    <2>2. CASE fiber_state[f] # "Waiting"
      BY <2>2 DEF KernelInv, ParkInv
    <2> QED BY <2>1, <2>2
  <1>4. IF fiber_state[f] \in {"Running", "Exiting"}
        THEN RunBy(f) = {current_core[f]}
        ELSE fiber_state[f] = "Waiting" \/ RunBy(f) = {}
    BY DEF KernelInv, RunInv, FieldsInv, MayBe, RunBy
  <1> QED BY <1>1, <1>2, <1>3, <1>4

\* The invariant contains the counts and the cover of the lock.
LEMMA KernelCounts ==
    ASSUME KernelInv
    PROVE  CountsAgree /\ LockCoversScheduling
  BY DEF KernelInv, CountInv, LockInv, CountsAgree, Ready, Active

-----------------------------------------------------------------------------
(* Calls about another fiber. *)

\* A fiber that is suspended, waiting or queued is moved to where its new
\* activity and its new priority put it.
LEMMA RescheduleKeeps ==
    ASSUME KernelInv, NEW t \in Fibers, fiber_state[t] \in {"Suspended", "Waiting", "Scheduled"},
           activity_level' \in [Fibers -> {"Suspended", "Schedulable"}],
           fiber_state[t] = "Scheduled" => activity_level'[t] # "Suspended",
           priority' \in [Fibers -> Int], \A g \in Fibers \ {t} : priority'[g] = priority[g],
           core_mask' \in [Fibers -> SUBSET Cores],
           \A g \in Fibers : fiber_state[g] # "Unallocated" => core_mask'[g] # {},
           \/ Reschedule(t, activity_level', priority')
           \/ UNCHANGED <<readyVars, priority>>,
           UNCHANGED <<waitVars, restVars, current_core, local_ring, m_scheduler_lock, phase, running>>
    PROVE  /\ KernelInv'
           /\ \A g \in Fibers \ {t} : fiber_state'[g] = fiber_state[g]
           /\ \/ fiber_state'[t] = fiber_state[t]
              \/ fiber_state'[t] = IF activity_level'[t] = "Suspended" THEN "Suspended" ELSE "Scheduled"
           /\ asleep' \subseteq asleep
           /\ asleep' = {} \/ Cardinality(asleep \ asleep') >= m_runnable_fibers' - m_runnable_fibers
  <1>1. CASE Reschedule(t, activity_level', priority')
    <2>1. /\ fiber_state' = [fiber_state EXCEPT ![t] =
                                  IF @ = "Waiting" THEN "Waiting"
                                  ELSE IF activity_level'[t] = "Suspended" THEN "Suspended" ELSE "Scheduled"]
          /\ QueueInv'
          /\ m_runnable_fibers' = Cardinality(Ready')
          /\ asleep' \subseteq asleep
          /\ asleep' = {} \/ Cardinality(asleep \ asleep') >= m_runnable_fibers' - m_runnable_fibers
      BY <1>1, Rescheduled DEF KernelInv
    <2>2. /\ fiber_state \in [Fibers -> FiberState] /\ fiber_state' \in [Fibers -> FiberState]
          /\ \A g \in Fibers \ {t} : fiber_state'[g] = fiber_state[g]
          /\ fiber_state'[t] \in {"Suspended", "Waiting", "Scheduled"}
          /\ fiber_state'[t] = "Waiting" <=> fiber_state[t] = "Waiting"
          /\ \/ fiber_state'[t] = fiber_state[t]
             \/ fiber_state'[t] = IF activity_level'[t] = "Suspended" THEN "Suspended" ELSE "Scheduled"
      BY <2>1 DEF KernelInv, FieldsInv, FiberState
    <2>3. FieldsInv'
      BY <2>2 DEF KernelInv, FieldsInv, waitVars
    <2>4. RingInv'
      BY <2>2, RingKept DEF KernelInv
    <2>5. ParkInv'
      BY <2>2, ParkKept DEF KernelInv, waitVars
    <2>6. RunInv'
      <3>1. CASE fiber_state[t] = "Waiting"
        BY <3>1, <2>1, <2>2, RunKept DEF KernelInv
      <3>2. CASE fiber_state[t] # "Waiting"
        <4>1. Off(t)
          BY <3>2, IdleIsOff DEF KernelInv
        <4> QED BY <4>1, <2>2, RunKept DEF KernelInv
      <3> QED BY <3>1, <3>2
    <2>7. LockInv'
      BY LockStutter DEF KernelInv
    <2>8. CountInv' /\ RestInv'
      BY <2>1 DEF KernelInv, CountInv, RestInv, Active, restVars
    <2> QED BY <2>1, <2>2, <2>3, <2>4, <2>5, <2>6, <2>7, <2>8 DEF KernelInv
  <1>2. CASE UNCHANGED <<readyVars, priority>>
    <2>1. FieldsInv'
      BY <1>2 DEF KernelInv, FieldsInv, waitVars, readyVars
    <2>2. QueueInv' /\ RingInv'
      BY <1>2, QueueKept, RingKept DEF KernelInv, readyVars
    <2>3. ParkInv'
      BY <1>2, ParkKept DEF KernelInv, readyVars, waitVars
    <2>4. RunInv'
      BY <1>2, RunKept DEF KernelInv, readyVars
    <2>5. LockInv'
      BY LockStutter DEF KernelInv
    <2>6. CountInv' /\ RestInv'
      BY <1>2 DEF KernelInv, CountInv, RestInv, Ready, Active, readyVars, restVars
    <2>7. asleep' = asleep /\ Cardinality(asleep \ asleep') >= m_runnable_fibers' - m_runnable_fibers
      <3>1. asleep \ asleep' = {} /\ m_runnable_fibers' = m_runnable_fibers
        BY <1>2 DEF readyVars
      <3>2. Cardinality(asleep \ asleep') = 0
        BY <3>1, FS_EmptySet
      <3>3. m_runnable_fibers' - m_runnable_fibers = 0
        BY <3>1, ReadyIsFinite DEF KernelInv, CountInv
      <3> QED BY <3>2, <3>3, <1>2 DEF readyVars
    <2> QED BY <1>2, <2>1, <2>2, <2>3, <2>4, <2>5, <2>6, <2>7 DEF KernelInv, readyVars
  <1> QED BY <1>1, <1>2

\* A storage that no fiber has is given to a new one, which is suspended.
LEMMA NewFiberKeeps ==
    ASSUME KernelInv, NEW t \in Fibers, fiber_state[t] = "Unallocated", wait_list[t] = <<>>,
           fiber_state' = [fiber_state EXCEPT ![t] = "Suspended"],
           activity_level' \in [Fibers -> {"Suspended", "Schedulable"}],
           priority' \in [Fibers -> Int], \A g \in Fibers \ {t} : priority'[g] = priority[g],
           core_mask' \in [Fibers -> SUBSET Cores],
           core_mask'[t] # {}, \A g \in Fibers \ {t} : core_mask'[g] = core_mask[g],
           current_core' = [current_core EXCEPT ![t] = 0],
           waitable_object' = [waitable_object EXCEPT ![t] = "none"],
           timeout' = [timeout EXCEPT ![t] = "none"],
           last_result' = [last_result EXCEPT ![t] = "Success"],
           wait_list' = [wait_list EXCEPT ![t] = <<>>],
           UNCHANGED <<m_wait_list, m_thread_queue, local_ring, m_runnable_fibers, restVars,
                       m_scheduler_lock, phase, running, asleep>>
    PROVE  KernelInv'
  <1>1. /\ fiber_state \in [Fibers -> FiberState] /\ fiber_state' \in [Fibers -> FiberState]
        /\ fiber_state'[t] = "Suspended"
        /\ \A g \in Fibers \ {t} : fiber_state'[g] = fiber_state[g]
        /\ current_core' \in [Fibers -> Cores]
        /\ \A g \in Fibers \ {t} : current_core'[g] = current_core[g]
    BY DEF KernelInv, FieldsInv, FiberState
  <1>2. FieldsInv'
    <2>1. /\ waitable_object' \in [Fibers -> WaitableObjects]
          /\ timeout' \in [Fibers -> TimeoutValues]
          /\ last_result' \in [Fibers -> {"Success", "Timeout"}]
      BY DEF KernelInv, FieldsInv, WaitableObjects, TimeoutValues
    <2> QED BY <1>1, <2>1 DEF KernelInv, FieldsInv
  <1>3. QueueInv'
    <2>1. \A g \in Elements(m_thread_queue) : g \in Fibers \ {t}
      BY DEF KernelInv, QueueInv
    <2> QED BY <1>1, <2>1, QueueKept DEF KernelInv
  <1>4. RingInv'
    BY <1>1, RingKept DEF KernelInv
  <1>5. ParkInv'
    <2>1. wait_list' = wait_list
      BY DEF KernelInv, ParkInv
    <2> QED BY <1>1, <2>1, ParkKept DEF KernelInv
  <1>6. RunInv'
    <2>1. Off(t)
      BY IdleIsOff DEF KernelInv
    <2> QED BY <2>1, <1>1, RunKept DEF KernelInv
  <1>7. LockInv'
    BY LockStutter DEF KernelInv
  <1>8. CountInv' /\ RestInv'
    <2>1. Ready' = Ready
      BY <1>1 DEF Ready
    <2> QED BY <2>1 DEF KernelInv, CountInv, RestInv, Active, restVars
  <1> QED BY <1>2, <1>3, <1>4, <1>5, <1>6, <1>7, <1>8 DEF KernelInv
=============================================================================
