----------------------- MODULE AddressArbiterProofs -----------------------
(***************************************************************************)
(* AddressArbiter, for any number of fibers and cores and any clients of   *)
(* the word.                                                               *)
(*                                                                         *)
(* ArbiterInv is KernelInv with the types: a wait, a wake-up call and a    *)
(* timeout each move fibers between the lists as the scheduler expects,    *)
(* even when waiters are left where nobody finds them.                     *)
(*                                                                         *)
(* ReachInv says where the waiters are as long as none was lost: behind    *)
(* one parent, which is the fiber that the search of the scheduler's list  *)
(* finds.  The search stops at the first fiber with the wait_address, so   *)
(* the order of that list matters; hence the lemmas about First.           *)
(*                                                                         *)
(* SignalInv needs ReachInv: a wake-up call that finds every waiter, and   *)
(* has a count that none exceeds, leaves nobody asleep on the word.        *)
(***************************************************************************)
EXTENDS AddressArbiter, UserSchedulerProofs

USE SchedulerAssumption, AddressAssumption

-----------------------------------------------------------------------------
(* The first node of a list that is in a set. *)

\* x is the first node of s that is in S.
First(s, S, x) == \E i \in 1 .. Len(s) : s[i] = x /\ x \in S /\ \A j \in 1 .. i - 1 : s[j] \notin S

\* What a search for a node in S finds.
Found(s, S) == IF KeptIn(s, S) = <<>> THEN NoFiber ELSE Head(KeptIn(s, S))

\* A list with a node in S has a first one.
LEMMA FirstExists ==
    ASSUME NEW s \in Seq(Fibers), NEW S, Elements(s) \cap S # {}
    PROVE  \E x \in Fibers : First(s, S, x)
  <1> DEFINE n == Len(s)
             Upto(m) == (\E j \in 1 .. m : s[j] \in S) => \E i \in 1 .. m : s[i] \in S /\ \A j \in 1 .. i - 1 : s[j] \notin S
             I == {m \in Nat : m <= n => Upto(m)}
  <1>1. n \in Nat /\ \A i \in 1 .. n : s[i] \in Fibers
    OBVIOUS
  <1> HIDE DEF n
  <1>2. 0 \in I
    OBVIOUS
  <1>3. ASSUME NEW m \in Nat, m \in I PROVE m + 1 \in I
    <2> SUFFICES ASSUME m + 1 <= n, NEW j \in 1 .. m + 1, s[j] \in S
                 PROVE  \E i \in 1 .. m + 1 : s[i] \in S /\ \A k \in 1 .. i - 1 : s[k] \notin S
      OBVIOUS
    <2>1. Upto(m)
      BY <1>1, <1>3
    <2>2. CASE \E k \in 1 .. m : s[k] \in S
      BY <2>1, <2>2
    <2>3. CASE \A k \in 1 .. m : s[k] \notin S
      <3>1. j = m + 1 /\ m + 1 - 1 = m
        BY <2>3
      <3> QED BY <2>3, <3>1
    <2> QED BY <2>2, <2>3
  <1>4. Nat \subseteq I
    <2> HIDE DEF I
    <2> QED BY <1>2, <1>3, InductionOnNat
  <1>5. Upto(n)
    <2>1. n \in I
      <3> HIDE DEF I
      <3> QED BY <1>1, <1>4
    <2> QED BY <2>1, <1>1
  <1>6. PICK i \in 1 .. n : s[i] \in S /\ \A j \in 1 .. i - 1 : s[j] \notin S
    <2>1. \E j \in 1 .. n : s[j] \in S
      BY DEF Elements, n
    <2> QED BY <1>5, <2>1
  <1> QED BY <1>1, <1>6 DEF First, n

\* The search finds the first node, if there is one.
LEMMA SearchFinds ==
    ASSUME NEW s \in Seq(Fibers), NEW S
    PROVE  /\ Elements(s) \cap S = {} => Found(s, S) = NoFiber
           /\ \A x : First(s, S, x) => Found(s, S) = x /\ x \in Elements(s) \cap S /\ x \in Fibers
  <1>1. KeptIn(s, S) \in Seq(Fibers) /\ Elements(KeptIn(s, S)) = Elements(s) \cap S
    BY KeptInList
  <1>2. Elements(s) \cap S = {} => KeptIn(s, S) = <<>>
    BY <1>1, ListElements
  <1>3. ASSUME NEW x, First(s, S, x) PROVE Found(s, S) = x /\ x \in Elements(s) \cap S /\ x \in Fibers
    <2> DEFINE n == Len(s)
    <2>0. n \in Nat /\ \A j \in 1 .. n : s[j] \in Fibers
      OBVIOUS
    <2>1. PICK kept : KeepsUpTo(kept, s, S, Fibers) /\ KeptIn(s, S) = kept[n]
      BY KeptInSteps
    <2>2. PICK i \in 1 .. n : s[i] = x /\ x \in S /\ \A j \in 1 .. i - 1 : s[j] \notin S
      BY <1>3 DEF First
    <2>3. /\ kept[0] = <<>> /\ \A j \in 0 .. n : kept[j] \in Seq(Fibers)
          /\ \A j \in 1 .. n : kept[j] = IF s[j] \in S THEN Append(kept[j - 1], s[j]) ELSE kept[j - 1]
      BY <2>1 DEF KeepsUpTo
    <2> HIDE DEF n
    <2> DEFINE Good(m) == /\ m < i => kept[m] = <<>>
                          /\ m >= i => kept[m] # <<>> /\ Head(kept[m]) = x
               I == {m \in Nat : m <= n => Good(m)}
    <2>4. 0 \in I
      BY <2>0, <2>3
    <2>5. ASSUME NEW m \in Nat, m \in I PROVE m + 1 \in I
      <3> SUFFICES ASSUME m + 1 <= n PROVE Good(m + 1)
        OBVIOUS
      <3>1. Good(m) /\ m + 1 \in 1 .. n /\ m + 1 - 1 = m /\ s[m + 1] \in Fibers /\ kept[m] \in Seq(Fibers)
        BY <2>0, <2>3, <2>5
      <3>2. kept[m + 1] = IF s[m + 1] \in S THEN Append(kept[m], s[m + 1]) ELSE kept[m]
        BY <2>3, <3>1
      <3>3. CASE m + 1 < i
        <4>1. s[m + 1] \notin S
          BY <2>2, <3>1, <3>3
        <4> QED BY <3>1, <3>2, <3>3, <4>1
      <3>4. CASE m + 1 = i
        <4>1. kept[m] = <<>> /\ s[m + 1] = x
          BY <2>2, <3>1, <3>4
        <4>2. kept[m + 1] = Append(<<>>, x)
          BY <2>2, <3>2, <4>1
        <4>3. Append(<<>>, x) # <<>> /\ Head(Append(<<>>, x)) = x
          BY <2>0, <2>2
        <4>4. kept[m + 1] # <<>> /\ Head(kept[m + 1]) = x
          BY <4>2, <4>3
        <4> QED BY <4>4, <3>4
      <3>5. CASE m + 1 > i
        <4>1. kept[m] # <<>> /\ Head(kept[m]) = x
          BY <3>1, <3>5
        <4>2. \A y \in Fibers : Append(kept[m], y) # <<>> /\ Head(Append(kept[m], y)) = Head(kept[m])
          BY <3>1, <4>1
        <4> QED BY <3>1, <3>2, <3>5, <4>1, <4>2
      <3> QED BY <2>0, <3>3, <3>4, <3>5
    <2>6. Nat \subseteq I
      <3> HIDE DEF I
      <3> QED BY <2>4, <2>5, InductionOnNat
    <2>7. Good(n)
      <3>1. n \in I
        <4> HIDE DEF I
        <4> QED BY <2>0, <2>6
      <3> QED BY <3>1, <2>0
    <2>8. kept[n] # <<>> /\ Head(kept[n]) = x
      BY <2>0, <2>7
    <2>9. x \in Elements(s) /\ x \in Fibers
      BY <2>0, <2>2 DEF Elements, n
    <2> QED BY <2>1, <2>2, <2>8, <2>9 DEF Found, n
  <1> QED BY <1>2, <1>3 DEF Found

\* The first node stays the first when a node is appended.
LEMMA FirstAppend ==
    ASSUME NEW s \in Seq(Fibers), NEW S, NEW x, NEW y \in Fibers, First(s, S, x)
    PROVE  First(Append(s, y), S, x)
  <1> DEFINE a == Append(s, y)
  <1>1. /\ Len(a) = Len(s) + 1 /\ Len(s) \in Nat
        /\ \A i \in 1 .. Len(s) : a[i] = s[i]
    OBVIOUS
  <1> HIDE DEF a
  <1>2. PICK i \in 1 .. Len(s) : s[i] = x /\ x \in S /\ \A j \in 1 .. i - 1 : s[j] \notin S
    BY DEF First
  <1>3. i \in 1 .. Len(a) /\ a[i] = x /\ \A j \in 1 .. i - 1 : a[j] \notin S
    BY <1>1, <1>2
  <1> QED BY <1>2, <1>3 DEF First, a

\* The first node stays the first when other nodes are unlinked.
LEMMA FirstKept ==
    ASSUME NEW s \in Seq(Fibers), NEW S, NEW A, NEW x \in A, First(s, S, x)
    PROVE  First(KeptIn(s, A), S, x)
  <1> DEFINE n == Len(s)
  <1>0. n \in Nat /\ \A j \in 1 .. n : s[j] \in Fibers
    OBVIOUS
  <1>1. PICK kept : KeepsUpTo(kept, s, A, Fibers) /\ KeptIn(s, A) = kept[n]
    BY KeptInSteps
  <1>2. PICK i \in 1 .. n : s[i] = x /\ x \in S /\ \A j \in 1 .. i - 1 : s[j] \notin S
    BY DEF First
  <1>3. /\ kept[0] = <<>> /\ \A j \in 0 .. n : kept[j] \in Seq(Fibers)
        /\ \A j \in 1 .. n : kept[j] = IF s[j] \in A THEN Append(kept[j - 1], s[j]) ELSE kept[j - 1]
    BY <1>1 DEF KeepsUpTo
  <1> HIDE DEF n
  <1> DEFINE Good(m) == /\ m < i => Elements(kept[m]) \cap S = {}
                        /\ m >= i => First(kept[m], S, x)
             I == {m \in Nat : m <= n => Good(m)}
  <1>4. 0 \in I
    BY <1>0, <1>3, EmptyList
  <1>5. ASSUME NEW m \in Nat, m \in I PROVE m + 1 \in I
    <2> SUFFICES ASSUME m + 1 <= n PROVE Good(m + 1)
      OBVIOUS
    <2>1. Good(m) /\ m + 1 \in 1 .. n /\ m + 1 - 1 = m /\ s[m + 1] \in Fibers /\ kept[m] \in Seq(Fibers)
      BY <1>0, <1>3, <1>5
    <2>2. kept[m + 1] = IF s[m + 1] \in A THEN Append(kept[m], s[m + 1]) ELSE kept[m]
      BY <1>3, <2>1
    <2>3. CASE m + 1 < i
      <3>1. s[m + 1] \notin S
        BY <1>2, <2>1, <2>3
      <3>2. Elements(Append(kept[m], s[m + 1])) = Elements(kept[m]) \cup {s[m + 1]}
        BY <2>1, ListAppend
      <3>3. Elements(kept[m + 1]) \cap S = {}
        BY <2>1, <2>2, <2>3, <3>1, <3>2
      <3> QED BY <2>1, <2>3, <3>3
    <2>4. CASE m + 1 = i
      <3> DEFINE k == kept[m]
                 a == Append(k, x)
      <3>1. kept[m + 1] = a /\ Elements(k) \cap S = {} /\ k \in Seq(Fibers) /\ x \in Fibers
        BY <1>2, <2>1, <2>2, <2>4
      <3> HIDE DEF k
      <3>2. Len(k) \in Nat /\ Len(a) = Len(k) + 1 /\ a[Len(k) + 1] = x /\ \A j \in 1 .. Len(k) : a[j] = k[j]
        BY <3>1
      <3> HIDE DEF a
      <3>3. \A j \in 1 .. Len(k) : a[j] \notin S
        BY <3>1, <3>2 DEF Elements
      <3>4. Len(k) + 1 \in 1 .. Len(a) /\ Len(k) + 1 - 1 = Len(k)
        BY <3>2
      <3>5. First(a, S, x)
        BY <1>2, <3>2, <3>3, <3>4 DEF First
      <3> QED BY <2>4, <3>1, <3>5
    <2>5. CASE m + 1 > i
      <3>1. First(kept[m], S, x)
        BY <2>1, <2>5
      <3>2. First(Append(kept[m], s[m + 1]), S, x)
        BY <2>1, <3>1, FirstAppend
      <3> QED BY <2>2, <2>5, <3>1, <3>2
    <2> QED BY <1>0, <2>3, <2>4, <2>5
  <1>6. Nat \subseteq I
    <2> HIDE DEF I
    <2> QED BY <1>4, <1>5, InductionOnNat
  <1>7. Good(n)
    <2>1. n \in I
      <3> HIDE DEF I
      <3> QED BY <1>0, <1>6
    <2> QED BY <2>1, <1>0
  <1> QED BY <1>0, <1>1, <1>7

-----------------------------------------------------------------------------
(* The scheduler's invariant under the calls of the arbiter. *)

ArbiterInv ==
    /\ KernelInv /\ aborted = FALSE
    /\ client \in Clients
    /\ word \in 0 .. WordModulus - 1
    /\ wait_address \subseteq Fibers
    /\ pc \in [Fibers -> {"idle", "wake"}]
    /\ lost \in BOOLEAN /\ wild \in BOOLEAN

\* What the clients may ask for.
LEMMA ClientsAsk ==
    ASSUME client \in Clients
    PROVE  /\ \A count \in client.counts : count \in Nat
           /\ \A t \in client.waits \cup client.sleeps : t \in {"finite", "never"}
           /\ client.cores \subseteq Cores
  <1>1. Cardinality(Fibers) \in Nat
    BY FS_CardinalityType
  <1>2. client \in [calls : SUBSET ArbiterCalls, counts : SUBSET (0 .. All),
                    waits : SUBSET {"finite", "never"}, sleeps : SUBSET {"finite", "never"},
                    cores : SUBSET Cores]
    OBVIOUS
  <1>3. client.counts \subseteq 0 .. All /\ All \in Nat
    BY <1>1, <1>2 DEF All
  <1> QED BY <1>2, <1>3

\* The parent p and the nodes of l are released, r stays.
Released(p, l, r) ==
    /\ l \in Seq(Fibers) /\ r \in Seq(Fibers) /\ Once(l) /\ Once(r)
    /\ Elements(l) \cap Elements(r) = {}
    /\ Elements(wait_list[p]) = Elements(l) \cup Elements(r)
    /\ EndFiberWaitImpl(<<p>> \o l, "Success")
    /\ \/ /\ r = <<>> /\ wait_list' = [wait_list EXCEPT ![p] = <<>>]
          /\ m_wait_list' = Without(m_wait_list, p) /\ UNCHANGED lost
       \/ /\ r # <<>> /\ wait_list' = [wait_list EXCEPT ![p] = <<>>, ![Head(r)] = @ \o Tail(r)]
          /\ m_wait_list' = Append(Without(m_wait_list, p), Head(r))
          /\ lost' = (lost \/ Elements(Without(m_wait_list, p)) \cap wait_address # {})

\* WakeParent releases the parent and the first of its children; all of them, when
\* the count is large enough.
LEMMA WakeParentReleases ==
    ASSUME ParkInv, NEW p \in Fibers, NEW count \in Nat, WakeParent(p, count)
    PROVE  \E l, r : Released(p, l, r) /\ (count >= Len(wait_list[p]) => r = <<>>)
  <1> DEFINE children == wait_list[p]
             n == IF count < Len(children) THEN count ELSE Len(children)
             l == SubSeq(children, 1, n)
             r == SubSeq(children, Len(l) + 1, Len(children))
  <1>1. children \in Seq(Fibers) /\ Once(children)
    BY DEF ParkInv
  <1>2. Len(children) \in Nat
    BY <1>1
  <1>3. n \in 0 .. Len(children) /\ (count >= Len(children) => n = Len(children))
    BY <1>2
  <1>4. /\ EndFiberWaitImpl(<<p>> \o l, "Success")
        /\ \/ /\ r = <<>> /\ wait_list' = [wait_list EXCEPT ![p] = <<>>]
              /\ m_wait_list' = Without(m_wait_list, p) /\ UNCHANGED lost
           \/ /\ r # <<>> /\ wait_list' = [wait_list EXCEPT ![p] = <<>>, ![Head(r)] = @ \o Tail(r)]
              /\ m_wait_list' = Append(Without(m_wait_list, p), Head(r))
              /\ lost' = (lost \/ Elements(Without(m_wait_list, p)) \cap wait_address # {})
    BY DEF WakeParent
  <1> HIDE DEF n, children
  <1>5. /\ l \in Seq(Fibers) /\ Len(l) = n /\ Once(l)
        /\ SubSeq(children, n + 1, Len(children)) \in Seq(Fibers)
        /\ Once(SubSeq(children, n + 1, Len(children)))
        /\ Elements(l) \cap Elements(SubSeq(children, n + 1, Len(children))) = {}
        /\ Elements(children) = Elements(l) \cup Elements(SubSeq(children, n + 1, Len(children)))
    BY <1>1, <1>3, ListCut
  <1>6. count >= Len(children) => r = <<>>
    <2> SUFFICES ASSUME count >= Len(children) PROVE SubSeq(children, n + 1, Len(children)) = <<>>
      BY <1>5
    <2>1. Len(children) \in Int /\ n + 1 \in Int /\ Len(children) < n + 1
      BY <1>2, <1>3
    <2> QED BY <2>1, SubSeqEmpty
  <1>7. Released(p, l, r)
    BY <1>4, <1>5 DEF Released, children
  <1> HIDE DEF l, r
  <1> QED BY <1>6, <1>7 DEF children

\* AddressFiber is a search in m_wait_list.
LEMMA AddressFiberIsFound ==
    /\ AddressFiber = Found(m_wait_list, wait_address)
    /\ AddressFiber' = Found(m_wait_list', wait_address')
  BY DEF AddressFiber, Found

\* The search for the parent finds it or there is none.
LEMMA ParentIsFirst ==
    ASSUME ParkInv
    PROVE  /\ AddressFiber = NoFiber => Elements(m_wait_list) \cap wait_address = {}
           /\ AddressFiber # NoFiber =>
                 /\ First(m_wait_list, wait_address, AddressFiber)
                 /\ AddressFiber \in Fibers \cap wait_address /\ AddressFiber \in Elements(m_wait_list)
  <1>1. m_wait_list \in Seq(Fibers)
    BY DEF ParkInv
  <1>2. CASE Elements(m_wait_list) \cap wait_address = {}
    BY <1>1, <1>2, SearchFinds, AddressFiberIsFound
  <1>3. CASE Elements(m_wait_list) \cap wait_address # {}
    <2>1. PICK x \in Fibers : First(m_wait_list, wait_address, x)
      BY <1>1, <1>3, FirstExists
    <2>2. Found(m_wait_list, wait_address) = x /\ x \in Elements(m_wait_list) \cap wait_address
      BY <1>1, <2>1, SearchFinds
    <2> QED BY <2>1, <2>2, AddressFiberIsFound
  <1> QED BY <1>2, <1>3

\* The release of a parent by a wake-up call keeps the scheduler's invariant.
LEMMA ReleaseKeeps ==
    ASSUME KernelInv, LockFree, NEW p \in Elements(m_wait_list), NEW l, NEW r, Released(p, l, r),
           UNCHANGED <<fiberVars, waitable_object, restVars, current_core, local_ring, m_scheduler_lock,
                       phase, running>>
    PROVE  /\ KernelInv'
           /\ \A f \in Fibers : fiber_state'[f] = "Waiting" <=>
                                  fiber_state[f] = "Waiting" /\ f # p /\ f \notin Elements(l)
           /\ \A f \in Fibers : fiber_state'[f] = "Waiting" => timeout'[f] = timeout[f]
  <1> DEFINE s == <<p>> \o l
  <1>1. /\ p \in Fibers /\ fiber_state[p] = "Waiting"
        /\ \A f \in Elements(wait_list[p]) : f \in Fibers \ {p} /\ fiber_state[f] = "Waiting"
    BY ParkedThere DEF KernelInv
  <1>2. l \in Seq(Fibers) /\ Once(l) /\ Elements(l) \subseteq Elements(wait_list[p])
    BY DEF Released
  <1>3. s \in Seq(Fibers) /\ Once(s) /\ Elements(s) = Elements(l) \cup {p}
    <2> DEFINE q == <<p>>
    <2>1. q \in Seq(Fibers) /\ Elements(q) = {p} /\ Once(q)
      BY <1>1, ListOfOne
    <2>2. s = q \o l
      OBVIOUS
    <2> HIDE DEF q, s
    <2>3. Elements(q) \cap Elements(l) = {}
      BY <1>1, <1>2, <2>1
    <2>4. /\ q \o l \in Seq(Fibers) /\ Elements(q \o l) = Elements(q) \cup Elements(l)
          /\ Once(q \o l)
      BY <1>2, <2>1, <2>3, ListJoin
    <2> QED BY <2>1, <2>2, <2>4
  <1>4. EndFiberWaitImpl(s, "Success")
    BY DEF Released
  <1> HIDE DEF s
  <1>5. /\ FieldsInv' /\ QueueInv' /\ RingInv' /\ RunInv' /\ LockInv' /\ CountInv' /\ RestInv'
        /\ \A f \in Fibers : fiber_state'[f] =
               IF f \notin Elements(s) THEN fiber_state[f]
               ELSE IF activity_level[f] = "Schedulable" THEN "Scheduled" ELSE "Suspended"
    <2>1. waitable_object' \in [Fibers -> WaitableObjects]
      BY DEF KernelInv, FieldsInv
    <2>2. \A d \in Cores : phase[d] \notin {"booted", "switched"}
      BY OneSchedules DEF KernelInv
    <2>3. \A f \in Elements(s) : fiber_state[f] = "Waiting"
      BY <1>1, <1>2, <1>3
    <2> QED BY <1>3, <1>4, <2>1, <2>2, <2>3, WaitEnded
  <1>6. \A f \in Fibers : fiber_state'[f] = "Waiting" <=>
                           fiber_state[f] = "Waiting" /\ f # p /\ f \notin Elements(l)
    BY <1>3, <1>5
  <1>7. ParkInv'
    <2>1. /\ ParkInv /\ r \in Seq(Fibers) /\ Once(r) /\ Elements(l) \cap Elements(r) = {}
          /\ Elements(wait_list[p]) = Elements(l) \cup Elements(r)
          /\ \/ /\ r = <<>> /\ wait_list' = [wait_list EXCEPT ![p] = <<>>]
                /\ m_wait_list' = Without(m_wait_list, p)
             \/ /\ r # <<>> /\ wait_list' = [wait_list EXCEPT ![p] = <<>>, ![Head(r)] = @ \o Tail(r)]
                /\ m_wait_list' \in {Append(Without(m_wait_list, p), Head(r)), Without(m_wait_list, p)}
      BY DEF KernelInv, Released
    <2> QED BY <1>2, <1>6, <2>1, ParkMoved
  <1>8. \A f \in Fibers : fiber_state'[f] = "Waiting" => timeout'[f] = timeout[f]
    BY <1>3, <1>4, <1>6 DEF EndFiberWaitImpl
  <1> QED BY <1>5, <1>6, <1>7, <1>8 DEF KernelInv

\* The end of a wait by its timeout keeps it, with one waiter left behind or many.
LEMMA CancelAddressKeeps ==
    ASSUME KernelInv, NEW c \in Cores, NEW f \in Fibers, CancelAddressWait(c, f)
    PROVE  /\ KernelInv'
           /\ \A g \in Fibers : fiber_state'[g] = "Waiting" <=> fiber_state[g] = "Waiting" /\ g # f
  <1>1. /\ phase[c] = "scan" /\ m_scheduler_lock = c /\ f \in Elements(m_wait_list)
        /\ wait_list' = IF wait_list[f] = <<>> THEN wait_list
                        ELSE [wait_list EXCEPT ![f] = <<>>, ![Head(wait_list[f])] = @ \o Tail(wait_list[f])]
        /\ m_wait_list' = Without(m_wait_list, f)
        /\ EndFiberWaitImpl(<<f>>, "Timeout")
        /\ UNCHANGED <<fiberVars, waitable_object, restVars, current_core, local_ring, m_scheduler_lock,
                       phase, running>>
    BY DEF CancelAddressWait, Schedules, TimedOut
  <1>2. fiber_state[f] = "Waiting"
    BY <1>1, ParkedThere DEF KernelInv
  <1>3. <<f>> \in Seq(Fibers) /\ Once(<<f>>) /\ Elements(<<f>>) = {f}
    BY ListOfOne
  <1>4. /\ FieldsInv' /\ QueueInv' /\ RingInv' /\ RunInv' /\ LockInv' /\ CountInv' /\ RestInv'
        /\ \A g \in Fibers : fiber_state'[g] =
               IF g \notin Elements(<<f>>) THEN fiber_state[g]
               ELSE IF activity_level[g] = "Schedulable" THEN "Scheduled" ELSE "Suspended"
    <2>1. waitable_object' \in [Fibers -> WaitableObjects]
      BY <1>1 DEF KernelInv, FieldsInv
    <2>2. \A d \in Cores : phase[d] \notin {"booted", "switched"}
      BY <1>1, OneSchedules DEF KernelInv
    <2>3. \A g \in Elements(<<f>>) : fiber_state[g] = "Waiting"
      BY <1>2, <1>3
    <2> QED BY <1>1, <1>3, <2>1, <2>2, <2>3, WaitEnded
  <1>5. \A g \in Fibers : fiber_state'[g] = "Waiting" <=> fiber_state[g] = "Waiting" /\ g # f
    BY <1>3, <1>4
  <1>6. ParkInv'
    <2> DEFINE r == wait_list[f]
               l == <<>>
    <2>1. /\ wait_list \in [Fibers -> Seq(Fibers)] /\ r \in Seq(Fibers) /\ Once(r)
      BY DEF KernelInv, ParkInv
    <2>2. l \in Seq(Fibers) /\ Elements(l) = {}
      BY EmptyList
    <2>3. \/ /\ r = <<>> /\ wait_list' = [wait_list EXCEPT ![f] = <<>>]
             /\ m_wait_list' = Without(m_wait_list, f)
          \/ /\ r # <<>> /\ wait_list' = [wait_list EXCEPT ![f] = <<>>, ![Head(r)] = @ \o Tail(r)]
             /\ m_wait_list' \in {Append(Without(m_wait_list, f), Head(r)), Without(m_wait_list, f)}
      <3>1. CASE r = <<>>
        <4>1. wait_list = [wait_list EXCEPT ![f] = <<>>]
          BY <2>1, <3>1
        <4> QED BY <1>1, <3>1, <4>1
      <3>2. CASE r # <<>>
        BY <1>1, <3>2
      <3> QED BY <3>1, <3>2
    <2> HIDE DEF l
    <2>4. \A g \in Fibers : fiber_state'[g] = "Waiting" <=>
                               fiber_state[g] = "Waiting" /\ g # f /\ g \notin Elements(l)
      BY <1>5, <2>2
    <2>5. ParkInv /\ Elements(l) \cap Elements(r) = {} /\ Elements(wait_list[f]) = Elements(l) \cup Elements(r)
      BY <2>2 DEF KernelInv
    <2> QED BY <1>1, <2>1, <2>2, <2>3, <2>4, <2>5, ParkMoved
  <1> QED BY <1>4, <1>5, <1>6 DEF KernelInv

\* A wait keeps it: the fiber joins one list.
LEMMA WaitKeeps ==
    ASSUME KernelInv, NEW f \in Fibers, NEW c \in Cores, NEW t \in {"finite", "never"},
           Runs(f, c), LockFree, WaitOnWord(f, c, t),
           UNCHANGED <<fiberVars, restVars, current_core, local_ring, running>>
    PROVE  /\ KernelInv'
           /\ fiber_state[f] = "Running" /\ fiber_state'[f] = "Waiting"
           /\ \A g \in Fibers \ {f} : fiber_state'[g] = fiber_state[g]
  <1>1. /\ waitable_object' = [waitable_object EXCEPT ![f] = "address"]
        /\ fiber_state' = [fiber_state EXCEPT ![f] = "Waiting"]
        /\ timeout' = [timeout EXCEPT ![f] = t]
        /\ JoinAddressWaiters(f) /\ SwitchToScheduler(c)
        /\ UNCHANGED <<last_result, m_thread_queue, m_runnable_fibers, asleep>>
    BY DEF WaitOnWord
  <1>2. fiber_state[f] = "Running" /\ fiber_state \in [Fibers -> FiberState]
    BY DEF Runs, KernelInv, RunInv, MayBe, FieldsInv
  <1>3. /\ fiber_state' \in [Fibers -> FiberState] /\ fiber_state'[f] = "Waiting"
        /\ \A g \in Fibers \ {f} : fiber_state'[g] = fiber_state[g]
    BY <1>1, <1>2 DEF FiberState
  <1>4. QueueInv' /\ RingInv' /\ RunInv' /\ LockInv' /\ CountInv' /\ RestInv'
    BY <1>1, <1>3, CallKeeps
  <1>5. FieldsInv'
    <2>1. waitable_object' \in [Fibers -> WaitableObjects] /\ timeout' \in [Fibers -> TimeoutValues]
      BY <1>1 DEF KernelInv, FieldsInv, WaitableObjects, TimeoutValues
    <2>2. FieldsInv /\ last_result' \in [Fibers -> {"Success", "Timeout"}] /\ current_core' \in [Fibers -> Cores]
      BY <1>1 DEF KernelInv, FieldsInv
    <2>3. \A g \in Fibers : fiber_state[g] = "Unallocated" => fiber_state'[g] = "Unallocated"
      BY <1>2, <1>3
    <2> QED BY <1>3, <2>1, <2>2, <2>3, FieldsKept
  <1>6. ParkInv'
    <2>1. \/ m_wait_list' = Append(m_wait_list, f) /\ UNCHANGED wait_list
          \/ \E g \in Fibers : wait_list' = [wait_list EXCEPT ![g] = Append(@, f)] /\ UNCHANGED m_wait_list
      BY <1>1, ParentIsFirst DEF JoinAddressWaiters, KernelInv
    <2> QED BY <1>2, <1>3, <2>1, ParkEntered DEF KernelInv
  <1> QED BY <1>2, <1>3, <1>4, <1>5, <1>6 DEF KernelInv

\* What a waiting call does: it waits, or yields; the word is decremented either way.
LEMMA WaitSays ==
    ASSUME ArbiterInv, NEW f \in Fibers, NEW c \in Cores, Wait(f, c)
    PROVE  /\ Runs(f, c) /\ LockFree
           /\ UNCHANGED <<fiberVars, restVars, current_core, local_ring, running, aborted, client, pc, wild>>
           /\ word' \in 0 .. WordModulus - 1
           /\ \/ DoNotWait(c)
              \/ word = 0 /\ \E t \in client.waits : WaitOnWord(f, c, t)
           /\ UNCHANGED word \/ "decrement" \in client.calls
  <1>1. word \in 0 .. WordModulus - 1
    BY DEF ArbiterInv
  <1>2. (word + WordModulus - 1) % WordModulus \in 0 .. WordModulus - 1
    <2>1. word + WordModulus - 1 \in Int /\ WordModulus \in Int /\ WordModulus > 0
      BY <1>1
    <2> QED BY <2>1
  <1>3. ASSUME NEW t \in client.waits, "equal" \in client.calls, WaitForAddressIfEqual(f, c, 0, t)
        PROVE  /\ Runs(f, c) /\ LockFree
               /\ UNCHANGED <<fiberVars, restVars, current_core, local_ring, running, aborted, client, word, pc, wild>>
               /\ DoNotWait(c) \/ (word = 0 /\ WaitOnWord(f, c, t))
    BY <1>3 DEF WaitForAddressIfEqual
  <1>4. ASSUME NEW t \in client.waits, NEW d \in BOOLEAN, d => "decrement" \in client.calls,
               WaitForAddressIfLessThan(f, c, 1, t, d)
        PROVE  /\ Runs(f, c) /\ LockFree
               /\ UNCHANGED <<fiberVars, restVars, current_core, local_ring, running, aborted, client, pc, wild>>
               /\ word' \in 0 .. WordModulus - 1
               /\ DoNotWait(c) \/ (word = 0 /\ WaitOnWord(f, c, t))
               /\ UNCHANGED word \/ "decrement" \in client.calls
    <2>1. word < 1 => word = 0
      BY <1>1
    <2> QED BY <1>1, <1>2, <1>4, <2>1 DEF WaitForAddressIfLessThan
  <1>5. PICK t \in client.waits :
            \/ "equal" \in client.calls /\ WaitForAddressIfEqual(f, c, 0, t)
            \/ WaitForAddressIfLessThan(f, c, 1, t, FALSE)
            \/ "decrement" \in client.calls /\ WaitForAddressIfLessThan(f, c, 1, t, TRUE)
    BY DEF Wait
  <1>6. CASE "equal" \in client.calls /\ WaitForAddressIfEqual(f, c, 0, t)
    BY <1>1, <1>3, <1>6
  <1>7. CASE WaitForAddressIfLessThan(f, c, 1, t, FALSE)
    BY <1>4, <1>7
  <1>8. CASE "decrement" \in client.calls /\ WaitForAddressIfLessThan(f, c, 1, t, TRUE)
    BY <1>4, <1>8
  <1> QED BY <1>5, <1>6, <1>7, <1>8

\* A wake-up call of any of the three kinds.
WakeCall(f, c, count) ==
    \/ WakeByAddress(f, c, count)
    \/ WakeByAddressIncrementEqual(f, c, 0, count)
    \/ WakeByAddressModifyLessThan(f, c, 0, count)

\* What a wake-up call does: it releases the parent, or nobody.
LEMMA WakeSays ==
    ASSUME ArbiterInv, NEW f \in Fibers, NEW c \in Cores, NEW count \in client.counts, WakeCall(f, c, count)
    PROVE  /\ Runs(f, c) /\ LockFree /\ WakeReturns(f)
           /\ word' \in 0 .. WordModulus - 1 /\ wild' \in BOOLEAN
           /\ NobodyWoken \/ (AddressFiber # NoFiber /\ WakeParent(AddressFiber, count))
  <1>1. word \in 0 .. WordModulus - 1 /\ wild \in BOOLEAN
    BY DEF ArbiterInv
  <1>2. /\ (0 + 1) % WordModulus \in 0 .. WordModulus - 1
        /\ (0 + WordModulus - 1) % WordModulus \in 0 .. WordModulus - 1
        /\ 0 \in 0 .. WordModulus - 1
    <2>1. 0 + WordModulus - 1 \in Int /\ WordModulus \in Int /\ WordModulus > 0
      OBVIOUS
    <2> QED BY <2>1
  <1>3. CASE WakeByAddress(f, c, count)
    BY <1>1, <1>3 DEF WakeByAddress
  <1>4. CASE WakeByAddressIncrementEqual(f, c, 0, count)
    BY <1>1, <1>2, <1>4 DEF WakeByAddressIncrementEqual
  <1>5. CASE WakeByAddressModifyLessThan(f, c, 0, count)
    BY <1>1, <1>2, <1>5 DEF WakeByAddressModifyLessThan
  <1> QED BY <1>3, <1>4, <1>5 DEF WakeCall

\* A wake-up call keeps the invariant.
LEMMA WakeKeeps ==
    ASSUME ArbiterInv, NEW f \in Fibers, NEW c \in Cores, NEW count \in client.counts, WakeCall(f, c, count)
    PROVE  ArbiterInv'
  <1>1. /\ LockFree /\ WakeReturns(f) /\ word' \in 0 .. WordModulus - 1 /\ wild' \in BOOLEAN
        /\ NobodyWoken \/ (AddressFiber # NoFiber /\ WakeParent(AddressFiber, count))
    BY WakeSays
  <1>2. /\ UNCHANGED <<fiberVars, waitable_object, restVars, current_core, local_ring,
                       m_scheduler_lock, phase, running, aborted, client, wait_address>>
        /\ pc' \in [Fibers -> {"idle", "wake"}]
    BY <1>1 DEF WakeReturns, ArbiterInv
  <1>3. KernelInv' /\ lost' \in BOOLEAN
    <2>1. CASE NobodyWoken
      <3>1. UNCHANGED kernelVars /\ UNCHANGED lost
        BY <1>2, <2>1 DEF NobodyWoken, kernelVars, fiberVars, readyVars, restVars
      <3> QED BY <3>1, KernelStutter DEF ArbiterInv
    <2>2. CASE AddressFiber # NoFiber /\ WakeParent(AddressFiber, count)
      <3>1. AddressFiber \in Fibers /\ AddressFiber \in Elements(m_wait_list) /\ ParkInv /\ count \in Nat
        BY <2>2, ParentIsFirst, ClientsAsk DEF ArbiterInv, KernelInv
      <3>2. PICK l, r : Released(AddressFiber, l, r)
        BY <2>2, <3>1, WakeParentReleases
      <3>3. KernelInv'
        BY <1>1, <1>2, <3>1, <3>2, ReleaseKeeps DEF ArbiterInv
      <3>4. lost' \in BOOLEAN
        BY <3>2 DEF Released, ArbiterInv
      <3> QED BY <3>3, <3>4
    <2> QED BY <1>1, <2>1, <2>2
  <1> QED BY <1>1, <1>2, <1>3 DEF ArbiterInv

\* A waiting call keeps it.
LEMMA WaitCallKeeps ==
    ASSUME ArbiterInv, NEW f \in Fibers, NEW c \in Cores, Wait(f, c)
    PROVE  ArbiterInv'
  <1>1. /\ Runs(f, c) /\ LockFree
        /\ UNCHANGED <<fiberVars, restVars, current_core, local_ring, running, aborted, client, pc, wild>>
        /\ word' \in 0 .. WordModulus - 1
        /\ DoNotWait(c) \/ \E t \in client.waits : WaitOnWord(f, c, t)
    BY WaitSays
  <1>2. CASE DoNotWait(c)
    <2>1. YieldThread(f, c) /\ UNCHANGED <<wait_address, lost>>
      BY <1>1, <1>2 DEF YieldThread, DoNotWait
    <2> QED BY <1>1, <2>1, YieldKeeps DEF ArbiterInv
  <1>3. ASSUME NEW t \in client.waits, WaitOnWord(f, c, t) PROVE ArbiterInv'
    <2>1. t \in {"finite", "never"} /\ KernelInv
      BY ClientsAsk DEF ArbiterInv
    <2>2. KernelInv'
      BY <1>1, <1>3, <2>1, WaitKeeps
    <2>3. wait_address' \subseteq Fibers /\ lost' \in BOOLEAN
      BY <1>3 DEF WaitOnWord, ArbiterInv
    <2> QED BY <1>1, <2>2, <2>3 DEF ArbiterInv
  <1> QED BY <1>1, <1>2, <1>3

\* It holds at the start and every step keeps it.
LEMMA ArbiterInit == ASSUME Init PROVE ArbiterInv
  <1>1. KernelInv
    <2>1. \A f \in Fibers \ {MainFiber} : [g \in Fibers |-> {BootCore}][f] \in (SUBSET Cores) \ {{}}
      OBVIOUS
    <2> QED BY <2>1, KernelInitInv DEF Init
  <1>2. aborted = FALSE
    BY DEF Init, KernelInit
  <1>3. /\ client \in Clients /\ word = 0 /\ wait_address = {}
        /\ pc = [f \in Fibers |-> "idle"] /\ lost = FALSE /\ wild = FALSE
    BY DEF Init
  <1>4. word \in 0 .. WordModulus - 1 /\ pc \in [Fibers -> {"idle", "wake"}]
    BY <1>3
  <1> QED BY <1>1, <1>2, <1>3, <1>4 DEF ArbiterInv

\* The steps there are: of the scheduler loop, and of a fiber in one of its calls.
LEMMA ArbiterSteps ==
    ASSUME Next
    PROVE  \E c \in client.cores :
              \/ SchedulerStep(c) /\ UNCHANGED arbiterVars
              \/ \E f \in Fibers :
                    \/ Wait(f, c) \/ Store(f, c) \/ Clear(f, c)
                    \/ \E count \in client.counts : WakeCall(f, c, count)
                    \/ /\ "sleep" \in client.calls /\ UNCHANGED arbiterVars
                       /\ \E t \in client.sleeps : Sleep(f, c, t)
                    \/ CancelAddressWait(c, f)
  BY DEF Next, ArbiterStep, Signal, WakeCall

\* Every step keeps the invariant of the scheduler.
LEMMA ArbiterNext == ASSUME ArbiterInv, [Next]_vars PROVE ArbiterInv'
  <1>1. CASE UNCHANGED vars
    <2>1. UNCHANGED kernelVars /\ UNCHANGED arbiterVars /\ UNCHANGED aborted
      BY <1>1 DEF vars, kernelVars
    <2> QED BY <2>1, KernelStutter DEF ArbiterInv, arbiterVars
  <1>2. ASSUME NEW c \in Cores, SchedulerStep(c), UNCHANGED arbiterVars PROVE ArbiterInv'
    BY <1>2, SchedulerStepKeeps DEF ArbiterInv, arbiterVars
  <1>3. ASSUME NEW f \in Fibers, NEW c \in Cores, Store(f, c) \/ Clear(f, c) PROVE ArbiterInv'
    <2>1. UNCHANGED kernelVars /\ UNCHANGED aborted /\ UNCHANGED <<client, wait_address, lost, wild>>
      BY <1>3 DEF Store, Clear, kernelVars
    <2>2. word' \in 0 .. WordModulus - 1 /\ pc' \in [Fibers -> {"idle", "wake"}]
      BY <1>3 DEF Store, Clear, ArbiterInv
    <2> QED BY <2>1, <2>2, KernelStutter DEF ArbiterInv
  <1>4. ASSUME NEW f \in Fibers, NEW c \in Cores, NEW t \in client.sleeps, Sleep(f, c, t),
               UNCHANGED arbiterVars
        PROVE  ArbiterInv'
    <2>1. t \in TimeoutValues /\ KernelInv /\ UNCHANGED aborted
      BY <1>4, ClientsAsk DEF ArbiterInv, TimeoutValues, Sleep
    <2> QED BY <1>4, <2>1, SleepKeeps DEF ArbiterInv, arbiterVars
  <1>5. ASSUME NEW f \in Fibers, NEW c \in Cores, CancelAddressWait(c, f) PROVE ArbiterInv'
    <2>1. KernelInv'
      BY <1>5, CancelAddressKeeps DEF ArbiterInv
    <2>2. UNCHANGED <<aborted, client, word, wait_address, pc, wild>> /\ lost' \in BOOLEAN
      BY <1>5 DEF CancelAddressWait, ArbiterInv
    <2> QED BY <2>1, <2>2 DEF ArbiterInv
  <1>6. client.cores \subseteq Cores
    BY ClientsAsk DEF ArbiterInv
  <1>7. CASE Next
    BY <1>2, <1>3, <1>4, <1>5, <1>6, <1>7, ArbiterSteps, WaitCallKeeps, WakeKeeps
  <1> QED BY <1>1, <1>7

\* ArbiterInv: the scheduler's invariant is kept by the arbiter, whatever the clients.
THEOREM ArbiterInvariance == Spec => []ArbiterInv
  <1>1. Init => ArbiterInv
    BY ArbiterInit
  <1>2. ArbiterInv /\ [Next]_vars => ArbiterInv'
    BY ArbiterNext
  <1> QED BY <1>1, <1>2, PTL DEF Spec

\* QueuedOnce: however timeouts and wake-up calls meet, and whatever children are
\* left behind, a fiber whose wait ends is queued once and counted once.
THEOREM WaitEndsOnce == Spec => []QueuedOnce
  <1>1. ArbiterInv => QueuedOnce
    BY KernelQueued, KernelCounts DEF ArbiterInv, QueuedOnce
  <1> QED BY <1>1, ArbiterInvariance, PTL

\* TypeOK: the word keeps its width under the decrement and the increments, and the
\* places of the fibers and of the scheduler are of their types.
THEOREM ArbiterTypes == Spec => []TypeOK
  <1>1. ArbiterInv => TypeOK
    BY KernelTypes DEF ArbiterInv, TypeOK
  <1> QED BY <1>1, ArbiterInvariance, PTL

-----------------------------------------------------------------------------
(* Where the waiters are. *)

\* A fiber that waits on the word is the parent or a child of it.
Reachable ==
    \A f \in Fibers : Awaits(f) =>
        /\ f \in wait_address /\ AddressFiber # NoFiber
        /\ f = AddressFiber \/ f \in Elements(wait_list[AddressFiber])

\* Children and their parents wait on the word, and parents are in the scheduler's
\* list.
Childhood ==
    \A g \in Fibers : \A f \in Elements(wait_list[g]) :
        /\ waitable_object[f] = "address" /\ waitable_object[g] = "address"
        /\ g \in Elements(m_wait_list)

ReachInv == lost \/ (Reachable /\ Childhood)

\* There is one parent.
LEMMA OneParent ==
    ASSUME ParkInv, Reachable, Childhood
    PROVE  /\ \A g \in Elements(m_wait_list) :
                 waitable_object[g] = "address" => Awaits(g) /\ g = AddressFiber
           /\ \A g \in Fibers : wait_list[g] # <<>> => Awaits(g) /\ g = AddressFiber
           /\ \A g \in Fibers : \A f \in Elements(wait_list[g]) : f \in Fibers /\ Awaits(f)
  <1>1. /\ wait_list \in [Fibers -> Seq(Fibers)] /\ m_wait_list \in Seq(Fibers)
        /\ Elements(m_wait_list) \subseteq Fibers
    BY ListElements DEF ParkInv
  <1>2. ASSUME NEW g \in Elements(m_wait_list), waitable_object[g] = "address"
        PROVE  Awaits(g) /\ g = AddressFiber
    <2>1. g \in Fibers /\ fiber_state[g] = "Waiting" /\ Parked(g) = {NoFiber}
      BY ParkedThere
    <2>2. Awaits(g)
      BY <1>2, <2>1 DEF Awaits
    <2>3. AddressFiber \in Fibers /\ (g = AddressFiber \/ g \in Elements(wait_list[AddressFiber]))
      BY <2>1, <2>2, ParentIsFirst DEF Reachable
    <2>4. g \notin Elements(wait_list[AddressFiber])
      BY <2>1, <2>3 DEF Parked
    <2> QED BY <2>2, <2>3, <2>4
  <1>3. ASSUME NEW g \in Fibers, wait_list[g] # <<>> PROVE Awaits(g) /\ g = AddressFiber
    <2>1. wait_list[g] \in Seq(Fibers)
      BY <1>1
    <2>2. Elements(wait_list[g]) # {}
      BY <1>3, <2>1, ListElements
    <2>3. waitable_object[g] = "address" /\ g \in Elements(m_wait_list)
      BY <2>2 DEF Childhood
    <2> QED BY <1>2, <2>3
  <1>4. ASSUME NEW g \in Fibers, NEW f \in Elements(wait_list[g]) PROVE f \in Fibers /\ Awaits(f)
    <2>1. waitable_object[f] = "address" /\ g \in Elements(m_wait_list)
      BY DEF Childhood
    <2> QED BY <2>1, ParkedThere DEF Awaits
  <1> QED BY <1>2, <1>3, <1>4

\* A parent stays the parent while the scheduler's list only grows behind it or loses
\* others, and those who have waited were there before.
LEMMA ParentStays ==
    ASSUME ParkInv, AddressFiber # NoFiber,
           wait_address' \cap Elements(m_wait_list) = wait_address \cap Elements(m_wait_list),
           \/ UNCHANGED m_wait_list
           \/ \E f \in Fibers : m_wait_list' = Append(m_wait_list, f)
           \/ \E f \in Fibers \ {AddressFiber} : m_wait_list' = Without(m_wait_list, f)
    PROVE  AddressFiber' = AddressFiber
  <1>1. m_wait_list \in Seq(Fibers)
    BY DEF ParkInv
  <1> DEFINE p == AddressFiber
             S == wait_address'
  <1>2. First(m_wait_list, wait_address, p) /\ p \in Fibers
    BY ParentIsFirst
  <1>3. First(m_wait_list, S, p)
    <2>1. \A i \in 1 .. Len(m_wait_list) : m_wait_list[i] \in S <=> m_wait_list[i] \in wait_address
      BY DEF Elements
    <2>2. \A i \in 1 .. Len(m_wait_list) : \A j \in 1 .. i - 1 : j \in 1 .. Len(m_wait_list)
      BY <1>1
    <2> HIDE DEF p, S
    <2> QED BY <1>2, <2>1, <2>2 DEF First
  <1>4. First(m_wait_list', S, p) /\ m_wait_list' \in Seq(Fibers)
    <2>1. CASE UNCHANGED m_wait_list
      BY <1>1, <1>3, <2>1
    <2>2. ASSUME NEW f \in Fibers, m_wait_list' = Append(m_wait_list, f)
          PROVE  First(m_wait_list', S, p) /\ m_wait_list' \in Seq(Fibers)
      <3> HIDE DEF p, S
      <3>1. First(Append(m_wait_list, f), S, p) /\ Append(m_wait_list, f) \in Seq(Fibers)
        BY <1>1, <1>3, FirstAppend
      <3> QED BY <2>2, <3>1
    <2>3. ASSUME NEW f \in Fibers \ {p}, m_wait_list' = Without(m_wait_list, f)
          PROVE  First(m_wait_list', S, p) /\ m_wait_list' \in Seq(Fibers)
      <3> HIDE DEF p, S
      <3>1. p \in Fibers \ {f}
        BY <1>2
      <3>2. First(KeptIn(m_wait_list, Fibers \ {f}), S, p) /\ KeptIn(m_wait_list, Fibers \ {f}) \in Seq(Fibers)
        BY <1>1, <1>3, <3>1, FirstKept, KeptInList
      <3> QED BY <2>3, <3>2 DEF Without
    <2> QED BY <2>1, <2>2, <2>3
  <1>5. Found(m_wait_list', S) = p
    <2> HIDE DEF p, S
    <2> QED BY <1>4, SearchFinds
  <1> QED BY <1>5, AddressFiberIsFound

\* Nobody waits any more.
LEMMA NobodyReachable ==
    ASSUME \A f \in Fibers : ~Awaits(f)', \A g \in Fibers : Elements(wait_list'[g]) = {}
    PROVE  ReachInv'
  BY DEF ReachInv, Reachable, Childhood, Awaits

\* The steps of the scheduler loop, of whom only the end of a sleep touches a list.
LEMMA SchedulerReaches ==
    ASSUME ArbiterInv, ReachInv, ParkInv', NEW c \in Cores, SchedulerStep(c), UNCHANGED arbiterVars
    PROVE  ReachInv'
  <1> SUFFICES ASSUME ~lost PROVE Reachable' /\ Childhood'
    BY DEF ReachInv, arbiterVars
  <1>1. Reachable /\ Childhood /\ ParkInv /\ KernelInv
    BY DEF ReachInv, ArbiterInv, KernelInv
  <1>2. /\ UNCHANGED <<wait_list, waitable_object, wait_address>>
        /\ \A f \in Fibers : fiber_state'[f] = "Waiting" => fiber_state[f] = "Waiting"
        /\ UNCHANGED m_wait_list \/ \E f \in Fibers : CancelSleep(c, f)
    BY <1>1, SchedulerStepWaits DEF arbiterVars
  <1>3. \A f \in Fibers : Awaits(f)' => Awaits(f)
    BY <1>2 DEF Awaits
  <1>4. CASE UNCHANGED m_wait_list
    <2>1. AddressFiber' = AddressFiber
      BY <1>2, <1>4, AddressFiberIsFound
    <2> QED BY <1>1, <1>2, <1>3, <1>4, <2>1 DEF Reachable, Childhood
  <1>5. ASSUME NEW x \in Fibers, CancelSleep(c, x) PROVE Reachable' /\ Childhood'
    <2>1. waitable_object[x] = "time" /\ m_wait_list' = Without(m_wait_list, x)
      BY <1>5 DEF CancelSleep
    <2>2. Elements(m_wait_list') = Elements(m_wait_list) \ {x}
      <3>1. m_wait_list \in Seq(Fibers)
        BY <1>1 DEF ParkInv
      <3>2. Elements(m_wait_list') = Elements(m_wait_list) \cap (Fibers \ {x})
        BY <2>1, <3>1, KeptInList DEF Without
      <3> QED BY <3>1, <3>2, ListElements
    <2>3. Childhood'
      BY <1>1, <1>2, <2>1, <2>2 DEF Childhood
    <2>4. ASSUME NEW f \in Fibers, Awaits(f)
          PROVE  /\ AddressFiber' = AddressFiber /\ f \in wait_address /\ AddressFiber # NoFiber
                 /\ f = AddressFiber \/ f \in Elements(wait_list[AddressFiber])
      <3>1. /\ f \in wait_address /\ AddressFiber # NoFiber
            /\ f = AddressFiber \/ f \in Elements(wait_list[AddressFiber])
        BY <1>1, <2>4 DEF Reachable
      <3>2. AddressFiber # x
        <4>1. waitable_object[f] = "address" /\ AddressFiber \in Fibers
          BY <1>1, <2>4, <3>1, ParentIsFirst DEF Awaits
        <4> QED BY <1>1, <2>1, <3>1, <4>1 DEF Childhood
      <3>3. AddressFiber' = AddressFiber
        BY <1>1, <1>2, <2>1, <3>1, <3>2, ParentStays
      <3> QED BY <3>1, <3>3
    <2> QED BY <1>2, <1>3, <2>3, <2>4 DEF Reachable
  <1> QED BY <1>2, <1>4, <1>5

\* A step that moves no fiber into or out of a wait.
LEMMA PlacesStay ==
    ASSUME ReachInv, UNCHANGED <<fiber_state, waitable_object, wait_list, m_wait_list, wait_address, lost>>
    PROVE  ReachInv'
  <1>1. AddressFiber' = AddressFiber
    BY AddressFiberIsFound
  <1>2. \A f \in Fibers : Awaits(f)' = Awaits(f)
    BY DEF Awaits
  <1> QED BY <1>1, <1>2 DEF ReachInv, Reachable, Childhood

\* A fiber that runs is in no list.
LEMMA RunnerIsNowhere ==
    ASSUME KernelInv, NEW f \in Fibers, NEW c \in Cores, Runs(f, c)
    PROVE  /\ fiber_state[f] = "Running" /\ f \notin Elements(m_wait_list)
           /\ \A g \in Fibers : f \notin Elements(wait_list[g])
  <1>1. fiber_state[f] = "Running"
    BY DEF Runs, KernelInv, RunInv, MayBe
  <1>2. Parked(f) = {}
    BY <1>1 DEF KernelInv, ParkInv
  <1> QED BY <1>1, <1>2 DEF Parked

\* The search finds the only node there is to find.
LEMMA OnlyOneFound ==
    ASSUME NEW s \in Seq(Fibers), NEW S, NEW x, Elements(s) \cap S = {x}
    PROVE  Found(s, S) = x
  <1>1. PICK y \in Fibers : First(s, S, y)
    BY FirstExists
  <1>2. Found(s, S) = y /\ y \in Elements(s) \cap S
    BY <1>1, SearchFinds
  <1> QED BY <1>2

\* A sleeper joins the scheduler's list behind the parent.
LEMMA SleepReaches ==
    ASSUME ArbiterInv, ReachInv, NEW f \in Fibers, NEW c \in Cores, NEW t, Sleep(f, c, t), UNCHANGED arbiterVars
    PROVE  ReachInv'
  <1> SUFFICES ASSUME ~lost PROVE Reachable' /\ Childhood'
    BY DEF ReachInv, arbiterVars
  <1>1. Reachable /\ Childhood /\ ParkInv /\ KernelInv
    BY DEF ReachInv, ArbiterInv, KernelInv
  <1>2. /\ fiber_state \in [Fibers -> FiberState] /\ waitable_object \in [Fibers -> WaitableObjects]
        /\ m_wait_list \in Seq(Fibers)
    BY <1>1 DEF KernelInv, FieldsInv, ParkInv
  <1>3. /\ waitable_object' = [waitable_object EXCEPT ![f] = "time"]
        /\ fiber_state' = [fiber_state EXCEPT ![f] = "Waiting"]
        /\ m_wait_list' = Append(m_wait_list, f) /\ UNCHANGED <<wait_list, wait_address>>
        /\ Runs(f, c)
    BY DEF Sleep, arbiterVars
  <1>4. f \notin Elements(m_wait_list) /\ \A g \in Fibers : f \notin Elements(wait_list[g])
    BY <1>1, <1>3, RunnerIsNowhere
  <1>5. Elements(m_wait_list') = Elements(m_wait_list) \cup {f}
    BY <1>2, <1>3, ListAppend
  <1>6. \A g \in Fibers : Awaits(g)' => Awaits(g)
    BY <1>2, <1>3 DEF Awaits
  <1>7. AddressFiber # NoFiber => AddressFiber' = AddressFiber
    BY <1>1, <1>3, ParentStays
  <1>8. Reachable'
    BY <1>1, <1>3, <1>6, <1>7 DEF Reachable
  <1>9. Childhood'
    <2> SUFFICES ASSUME NEW g \in Fibers, NEW h \in Elements(wait_list[g])
                 PROVE  /\ waitable_object'[h] = "address" /\ waitable_object'[g] = "address"
                        /\ g \in Elements(m_wait_list')
      BY <1>3 DEF Childhood
    <2>1. /\ waitable_object[h] = "address" /\ waitable_object[g] = "address"
          /\ g \in Elements(m_wait_list)
      BY <1>1 DEF Childhood
    <2>2. h # f /\ g # f
      BY <1>4, <2>1
    <2>3. waitable_object'[h] = waitable_object[h] /\ waitable_object'[g] = waitable_object[g]
      BY <1>2, <1>3, <2>2
    <2> QED BY <1>5, <2>1, <2>3
  <1> QED BY <1>8, <1>9

\* A waiter joins the children of the parent, or is the parent itself.
LEMMA WaitReaches ==
    ASSUME ArbiterInv, ReachInv, NEW f \in Fibers, NEW c \in Cores, Wait(f, c)
    PROVE  ReachInv'
  <1>1. Runs(f, c) /\ (DoNotWait(c) \/ \E t \in client.waits : WaitOnWord(f, c, t))
    BY WaitSays
  <1>2. CASE DoNotWait(c)
    BY <1>2, PlacesStay DEF DoNotWait, waitVars, readyVars
  <1>3. ASSUME NEW t \in client.waits, WaitOnWord(f, c, t), ~lost' PROVE Reachable' /\ Childhood'
    <2>1. ~lost /\ Reachable /\ Childhood /\ ParkInv /\ KernelInv
      BY <1>3 DEF ReachInv, ArbiterInv, KernelInv, WaitOnWord
    <2>2. /\ fiber_state \in [Fibers -> FiberState] /\ waitable_object \in [Fibers -> WaitableObjects]
          /\ m_wait_list \in Seq(Fibers) /\ wait_list \in [Fibers -> Seq(Fibers)]
      BY <2>1 DEF KernelInv, FieldsInv, ParkInv
    <2>3. /\ waitable_object' = [waitable_object EXCEPT ![f] = "address"]
          /\ fiber_state' = [fiber_state EXCEPT ![f] = "Waiting"]
          /\ wait_address' = wait_address \cup {f}
          /\ JoinAddressWaiters(f)
      BY <1>3 DEF WaitOnWord
    <2>4. f \notin Elements(m_wait_list) /\ \A g \in Fibers : f \notin Elements(wait_list[g])
      BY <1>1, <2>1, RunnerIsNowhere
    <2>5. \A g \in Fibers : Awaits(g)' => g = f \/ Awaits(g)
      BY <2>2, <2>3 DEF Awaits
    <2>6. CASE AddressFiber = NoFiber
      <3>1. m_wait_list' = Append(m_wait_list, f) /\ UNCHANGED wait_list
        BY <2>3, <2>6 DEF JoinAddressWaiters
      <3>2. \A g \in Fibers : ~Awaits(g) /\ wait_list[g] = <<>>
        BY <2>1, <2>6, OneParent DEF Reachable
      <3>3. m_wait_list' \in Seq(Fibers) /\ Elements(m_wait_list') \cap wait_address' = {f}
        <4>1. Elements(m_wait_list) \cap wait_address = {}
          BY <2>1, <2>6, ParentIsFirst
        <4>2. m_wait_list' \in Seq(Fibers) /\ Elements(m_wait_list') = Elements(m_wait_list) \cup {f}
          BY <2>2, <3>1, ListAppend
        <4> QED BY <2>3, <2>4, <4>1, <4>2
      <3>4. AddressFiber' = f
        BY <3>3, OnlyOneFound, AddressFiberIsFound
      <3>5. \A g \in Fibers : Elements(wait_list'[g]) = {}
        BY <3>1, <3>2, EmptyList
      <3> QED BY <2>3, <2>5, <3>2, <3>4, <3>5 DEF Reachable, Childhood
    <2>7. CASE AddressFiber # NoFiber
      <3> DEFINE p == AddressFiber
      <3>1. /\ wait_list' = [wait_list EXCEPT ![p] = Append(@, f)] /\ UNCHANGED m_wait_list
            /\ waitable_object[p] = "address"
        BY <1>3, <2>3, <2>7 DEF JoinAddressWaiters, WaitOnWord
      <3>2. p \in Fibers /\ p \in Elements(m_wait_list) /\ p # f
        BY <2>1, <2>4, <2>7, ParentIsFirst
      <3>3. AddressFiber' = p
        <4>1. wait_address' \cap Elements(m_wait_list) = wait_address \cap Elements(m_wait_list)
          BY <2>3, <2>4
        <4> QED BY <2>1, <2>7, <3>1, <4>1, ParentStays
      <3> HIDE DEF p
      <3>4. /\ Elements(wait_list'[p]) = Elements(wait_list[p]) \cup {f}
            /\ \A g \in Fibers \ {p} : wait_list'[g] = wait_list[g]
        BY <2>2, <3>1, <3>2, ListAppend
      <3>5. Reachable'
        <4> SUFFICES ASSUME NEW g \in Fibers, Awaits(g)'
                     PROVE  g \in wait_address' /\ (g = p \/ g \in Elements(wait_list'[p]))
          BY <3>2, <3>3 DEF Reachable
        <4> QED BY <2>1, <2>3, <2>5, <3>4 DEF Reachable, p
      <3>6. Childhood'
        <4> SUFFICES ASSUME NEW g \in Fibers, NEW h \in Elements(wait_list'[g])
                     PROVE  /\ waitable_object'[h] = "address" /\ waitable_object'[g] = "address"
                            /\ g \in Elements(m_wait_list')
          BY DEF Childhood
        <4>1. \A x : waitable_object[x] = "address" /\ x \in Fibers => waitable_object'[x] = "address"
          BY <2>2, <2>3
        <4>2. waitable_object'[f] = "address"
          BY <2>2, <2>3
        <4>3. CASE h \in Elements(wait_list[g])
          <5>1. h \in Fibers
            BY <2>2, <4>3, ListElements
          <5> QED BY <2>1, <3>1, <4>1, <4>3, <5>1 DEF Childhood
        <4>4. CASE h \notin Elements(wait_list[g])
          <5>1. g = p /\ h = f
            BY <3>4, <4>4
          <5> QED BY <3>1, <3>2, <4>1, <4>2, <5>1
        <4> QED BY <4>3, <4>4
      <3> QED BY <3>5, <3>6
    <2> QED BY <2>6, <2>7
  <1> QED BY <1>1, <1>2, <1>3 DEF ReachInv

\* The release of the parent: the first of those who stay is the new one.
LEMMA ReleaseReaches ==
    ASSUME KernelInv, LockFree, Reachable, Childhood, AddressFiber # NoFiber,
           NEW l, NEW r, Released(AddressFiber, l, r), ~lost',
           UNCHANGED <<fiberVars, waitable_object, restVars, current_core, local_ring, m_scheduler_lock,
                       phase, running, wait_address>>
    PROVE  /\ Reachable' /\ Childhood'
           /\ r = <<>> => \A f \in Fibers : ~Awaits(f)'
  <1> DEFINE p == AddressFiber
  <1>1. /\ wait_list \in [Fibers -> Seq(Fibers)] /\ m_wait_list \in Seq(Fibers) /\ ParkInv
        /\ p \in Fibers /\ p \in Elements(m_wait_list)
    BY ParentIsFirst DEF KernelInv, ParkInv
  <1>2. /\ \A g \in Fibers : wait_list[g] # <<>> => g = p
        /\ \A g \in Fibers : Awaits(g) => g \in wait_address /\ (g = p \/ g \in Elements(wait_list[p]))
        /\ \A g \in Elements(wait_list[p]) : g \in Fibers \ {p} /\ Awaits(g)
    BY <1>1, OneParent, ParkedThere DEF Reachable
  <1> HIDE DEF p
  <1>3. Released(p, l, r)
    BY DEF p
  <1>4. \A g \in Fibers : fiber_state'[g] = "Waiting" <=>
                            fiber_state[g] = "Waiting" /\ g # p /\ g \notin Elements(l)
    BY <1>1, <1>3, ReleaseKeeps
  <1>5. /\ r \in Seq(Fibers) /\ Once(r) /\ Elements(wait_list[p]) = Elements(l) \cup Elements(r)
        /\ \/ /\ r = <<>> /\ wait_list' = [wait_list EXCEPT ![p] = <<>>]
           \/ /\ r # <<>> /\ wait_list' = [wait_list EXCEPT ![p] = <<>>, ![Head(r)] = @ \o Tail(r)]
              /\ m_wait_list' = Append(Without(m_wait_list, p), Head(r))
              /\ Elements(Without(m_wait_list, p)) \cap wait_address = {}
    BY <1>3 DEF Released
  <1>6. \A g \in Fibers : Awaits(g)' => Awaits(g) /\ g \in wait_address /\ g \in Elements(r)
    <2>1. \A g \in Fibers : Awaits(g)' => Awaits(g) /\ g # p /\ g \notin Elements(l)
      BY <1>4 DEF Awaits
    <2> QED BY <1>2, <1>5, <2>1
  <1>7. CASE r = <<>>
    <2>1. \A g \in Fibers : ~Awaits(g)'
      BY <1>6, <1>7, EmptyList
    <2>2. \A g \in Fibers : wait_list'[g] = <<>>
      BY <1>1, <1>2, <1>5, <1>7
    <2>3. \A g \in Fibers : Elements(wait_list'[g]) = {}
      BY <2>2, EmptyList
    <2> QED BY <2>1, <2>3 DEF Reachable, Childhood
  <1>8. CASE r # <<>>
    <2> DEFINE h == Head(r)
               rest == Tail(r)
               w == Without(m_wait_list, p)
    <2>1. /\ h \in Fibers /\ rest \in Seq(Fibers) /\ Elements(r) = Elements(rest) \cup {h}
      BY <1>5, <1>8, ListTail
    <2>2. /\ wait_list' = [wait_list EXCEPT ![p] = <<>>, ![h] = @ \o rest]
          /\ m_wait_list' = Append(w, h) /\ Elements(w) \cap wait_address = {}
      BY <1>5, <1>8
    <2>3. w \in Seq(Fibers)
      BY <1>1, KeptInList DEF Without
    <2> HIDE DEF h, rest, w
    <2>4. h \in Elements(wait_list[p]) /\ h # p /\ wait_list[h] = <<>> /\ h \in wait_address
      <3>1. h \in Elements(wait_list[p])
        BY <1>5, <2>1
      <3> QED BY <1>2, <2>1, <3>1
    <2>5. /\ wait_list'[h] = rest /\ \A g \in Fibers \ {h} : wait_list'[g] = <<>>
      <3>1. wait_list'[h] = <<>> \o rest
        BY <1>1, <2>1, <2>2, <2>4
      <3>2. <<>> \o rest = rest
        BY <2>1
      <3>3. \A g \in Fibers \ {h} : wait_list'[g] = IF g = p THEN <<>> ELSE wait_list[g]
        BY <1>1, <2>1, <2>2
      <3> QED BY <1>2, <3>1, <3>2, <3>3
    <2>6. /\ m_wait_list' \in Seq(Fibers) /\ Elements(m_wait_list') = Elements(w) \cup {h}
      BY <2>1, <2>2, <2>3, ListAppend
    <2>7. AddressFiber' = h
      <3>1. Elements(m_wait_list') \cap wait_address' = {h}
        BY <2>2, <2>4, <2>6
      <3> QED BY <2>6, <3>1, OnlyOneFound, AddressFiberIsFound
    <2>8. Reachable'
      <3> SUFFICES ASSUME NEW g \in Fibers, Awaits(g)'
                   PROVE  g \in wait_address' /\ h # NoFiber /\ (g = h \/ g \in Elements(wait_list'[h]))
        BY <2>7 DEF Reachable
      <3> QED BY <1>6, <2>1, <2>5
    <2>9. Childhood'
      <3> SUFFICES ASSUME NEW g \in Fibers, NEW f \in Elements(wait_list'[g])
                   PROVE  /\ waitable_object'[f] = "address" /\ waitable_object'[g] = "address"
                          /\ g \in Elements(m_wait_list')
        BY DEF Childhood
      <3>1. g = h /\ f \in Elements(rest)
        BY <2>5, EmptyList
      <3>2. f \in Elements(wait_list[p])
        BY <1>5, <2>1, <3>1
      <3>3. Awaits(f) /\ Awaits(h)
        BY <1>2, <2>4, <3>2
      <3> QED BY <2>6, <3>1, <3>3 DEF Awaits
    <2> QED BY <1>8, <2>8, <2>9
  <1> QED BY <1>7, <1>8

\* A wake-up call leaves the waiters it does not wake where the next one finds them.
LEMMA WakeReaches ==
    ASSUME ArbiterInv, ReachInv, NEW f \in Fibers, NEW c \in Cores, NEW count \in client.counts,
           WakeCall(f, c, count)
    PROVE  ReachInv'
  <1>1. /\ LockFree
        /\ UNCHANGED <<fiberVars, waitable_object, restVars, current_core, local_ring, m_scheduler_lock,
                       phase, running, wait_address>>
        /\ NobodyWoken \/ (AddressFiber # NoFiber /\ WakeParent(AddressFiber, count))
    BY WakeSays DEF WakeReturns
  <1>2. CASE NobodyWoken
    BY <1>1, <1>2, PlacesStay DEF NobodyWoken, readyVars
  <1>3. CASE AddressFiber # NoFiber /\ WakeParent(AddressFiber, count)
    <2>1. AddressFiber \in Fibers /\ ParkInv /\ count \in Nat /\ KernelInv
      BY <1>3, ParentIsFirst, ClientsAsk DEF ArbiterInv, KernelInv
    <2>2. PICK l, r : Released(AddressFiber, l, r)
      BY <1>3, <2>1, WakeParentReleases
    <2>3. CASE lost'
      BY <2>3 DEF ReachInv
    <2>4. CASE ~lost'
      <3>1. ~lost
        BY <2>2, <2>4 DEF Released
      <3> QED BY <1>1, <1>3, <2>1, <2>2, <2>4, <3>1, ReleaseReaches DEF ReachInv
    <2> QED BY <2>3, <2>4
  <1> QED BY <1>1, <1>2, <1>3

\* A parent that times out alone was the only waiter.
LEMMA CancelReaches ==
    ASSUME ArbiterInv, ReachInv, NEW f \in Fibers, NEW c \in Cores, CancelAddressWait(c, f)
    PROVE  ReachInv'
  <1> SUFFICES ASSUME ~lost' PROVE ReachInv'
    BY DEF ReachInv
  <1>1. /\ wait_list[f] = <<>> /\ UNCHANGED <<waitable_object, wait_list>> /\ ~lost
        /\ f \in Elements(m_wait_list) /\ waitable_object[f] = "address"
    BY DEF CancelAddressWait, TimedOut
  <1>2. KernelInv /\ ParkInv /\ Reachable /\ Childhood
    BY <1>1 DEF ReachInv, ArbiterInv, KernelInv
  <1>3. /\ f = AddressFiber /\ \A g \in Fibers : wait_list[g] # <<>> => g = f
        /\ \A g \in Fibers : Awaits(g) => g = f \/ g \in Elements(wait_list[f])
    BY <1>1, <1>2, OneParent DEF Reachable
  <1>4. \A g \in Fibers : Elements(wait_list'[g]) = {}
    BY <1>1, <1>3, EmptyList
  <1>5. \A g \in Fibers : fiber_state'[g] = "Waiting" <=> fiber_state[g] = "Waiting" /\ g # f
    BY <1>2, CancelAddressKeeps
  <1>6. \A g \in Fibers : ~Awaits(g)'
    BY <1>1, <1>3, <1>5, EmptyList DEF Awaits
  <1> QED BY <1>4, <1>6, NobodyReachable

\* Every step leaves the waiters where they are found.
LEMMA ReachNext == ASSUME ArbiterInv, ReachInv, [Next]_vars PROVE ReachInv'
  <1>1. CASE UNCHANGED vars
    BY <1>1, PlacesStay DEF vars, kernelVars, arbiterVars
  <1>2. ASSUME NEW f \in Fibers, NEW c \in Cores, Store(f, c) \/ Clear(f, c) PROVE ReachInv'
    BY <1>2, PlacesStay DEF Store, Clear, kernelVars
  <1>3. ParkInv'
    BY ArbiterNext DEF ArbiterInv, KernelInv
  <1>4. client.cores \subseteq Cores
    BY ClientsAsk DEF ArbiterInv
  <1>5. CASE Next
    BY <1>2, <1>3, <1>4, <1>5, ArbiterSteps, SchedulerReaches, SleepReaches, WaitReaches, WakeReaches,
       CancelReaches
  <1> QED BY <1>1, <1>5

\* ReachInv: the waiters are behind one parent, until one is lost.
THEOREM ReachInvariance == Spec => []ReachInv
  <1>1. Init => ReachInv
    <2> SUFFICES ASSUME Init PROVE Reachable /\ Childhood
      BY DEF ReachInv
    <2>1. \A f \in Fibers : waitable_object[f] = "none" /\ wait_list[f] = <<>>
      BY DEF Init, KernelInit
    <2>2. \A f \in Fibers : Elements(wait_list[f]) = {}
      BY <2>1, EmptyList
    <2> QED BY <2>1, <2>2 DEF Reachable, Childhood, Awaits
  <1>2. ArbiterInv /\ ReachInv /\ [Next]_vars => ReachInv'
    BY ReachNext
  <1> QED BY <1>1, <1>2, ArbiterInvariance, PTL DEF Spec

\* WaitersReachable: however the waiters join, time out and are woken, few or all,
\* the next wake-up call finds each of them, but for the three ways to lose one.
THEOREM WaitersAreFound == Spec => []WaitersReachable
  <1>1. ReachInv => WaitersReachable
    BY DEF ReachInv, Reachable, WaitersReachable
  <1> QED BY <1>1, ReachInvariance, PTL

-----------------------------------------------------------------------------
(* The users of an event. *)

\* Who sets the word wakes all the waiters that can be found.
SignalInv == Signallers /\ ~lost => NoMissedSignal

\* A step that changes neither the word nor who waits.
LEMMA SignalStays ==
    ASSUME SignalInv, lost => lost', UNCHANGED <<client, word, pc>>, \A f \in Fibers : Awaits(f)' => Awaits(f)
    PROVE  SignalInv'
  BY DEF SignalInv, NoMissedSignal, Signallers

\* A waiting call of a signaller finds the word 0 or does not wait.
LEMMA WaitSignals ==
    ASSUME ArbiterInv, SignalInv, NEW f \in Fibers, NEW c \in Cores, Wait(f, c)
    PROVE  SignalInv'
  <1>1. /\ UNCHANGED <<client, pc>> /\ word \in 0 .. WordModulus - 1
        /\ UNCHANGED word \/ "decrement" \in client.calls
        /\ DoNotWait(c) \/ (word = 0 /\ \E t \in client.waits : WaitOnWord(f, c, t))
    BY WaitSays DEF ArbiterInv
  <1>2. CASE "decrement" \in client.calls
    <2>1. ~Signallers'
      BY <1>1, <1>2 DEF Signallers
    <2> QED BY <2>1 DEF SignalInv
  <1>3. CASE UNCHANGED word /\ DoNotWait(c)
    <2>1. UNCHANGED lost /\ \A g \in Fibers : Awaits(g)' => Awaits(g)
      BY <1>3 DEF DoNotWait, waitVars, readyVars, Awaits
    <2> QED BY <1>1, <1>3, <2>1, SignalStays
  <1>4. CASE UNCHANGED word /\ word = 0
    BY <1>4 DEF SignalInv, NoMissedSignal
  <1> QED BY <1>1, <1>2, <1>3, <1>4

\* All is more than the children of a fiber can be.
LEMMA ChildrenAreFewer ==
    ASSUME ParkInv, NEW p \in Fibers PROVE All >= Len(wait_list[p])
  <1>1. wait_list[p] \in Seq(Fibers) /\ Once(wait_list[p])
    BY DEF ParkInv
  <1>2. Elements(wait_list[p]) \subseteq Fibers /\ Cardinality(Elements(wait_list[p])) = Len(wait_list[p])
    BY <1>1, OnceLength, ListElements
  <1>3. Len(wait_list[p]) <= Cardinality(Fibers)
    BY <1>2, FS_Subset
  <1>4. Len(wait_list[p]) \in Nat /\ Cardinality(Fibers) \in Nat
    BY <1>1, FS_CardinalityType
  <1> QED BY <1>3, <1>4 DEF All

\* A wake-up call of a signaller releases all the waiters that it finds.
LEMMA SignalReleases ==
    ASSUME ArbiterInv, Signallers, NEW f \in Fibers, NEW c \in Cores, Signal(f, c)
    PROVE  /\ LockFree
           /\ UNCHANGED <<fiberVars, waitable_object, restVars, current_core, local_ring, m_scheduler_lock,
                          phase, running, wait_address, client>>
           /\ \/ AddressFiber = NoFiber /\ NobodyWoken
              \/ AddressFiber # NoFiber /\ \E l, r : Released(AddressFiber, l, r) /\ r = <<>>
  <1>1. PICK count \in client.counts : WakeByAddress(f, c, count)
    BY DEF Signal
  <1>2. WakeCall(f, c, count)
    BY <1>1 DEF WakeCall
  <1>3. /\ LockFree
        /\ UNCHANGED <<fiberVars, waitable_object, restVars, current_core, local_ring, m_scheduler_lock,
                       phase, running, wait_address, client>>
    BY <1>2, WakeSays DEF WakeReturns
  <1>4. count = All /\ All # 0
    <2>1. Cardinality(Fibers) \in Nat
      BY FS_CardinalityType
    <2> QED BY <2>1 DEF Signallers, All
  <1>5. CASE AddressFiber = NoFiber
    BY <1>1, <1>3, <1>5 DEF WakeByAddress
  <1>6. CASE AddressFiber # NoFiber
    <2>1. WakeParent(AddressFiber, count)
      BY <1>1, <1>4, <1>6 DEF WakeByAddress
    <2>2. AddressFiber \in Fibers /\ ParkInv /\ count \in Nat
      BY <1>6, ParentIsFirst, ClientsAsk DEF ArbiterInv, KernelInv
    <2>3. \E l, r : Released(AddressFiber, l, r) /\ (count >= Len(wait_list[AddressFiber]) => r = <<>>)
      BY <2>1, <2>2, WakeParentReleases
    <2> QED BY <1>3, <1>4, <1>6, <2>2, <2>3, ChildrenAreFewer
  <1> QED BY <1>5, <1>6

\* So it leaves nobody waiting.
LEMMA WakeSignals ==
    ASSUME ArbiterInv, ReachInv, NEW f \in Fibers, NEW c \in Cores, Signal(f, c)
    PROVE  SignalInv'
  <1> SUFFICES ASSUME Signallers', ~lost' PROVE \A g \in Fibers : ~Awaits(g)'
    BY DEF SignalInv, NoMissedSignal
  <1>1. UNCHANGED client
    BY DEF Signal, WakeByAddress, WakeReturns
  <1>2. Signallers /\ KernelInv
    BY <1>1 DEF Signallers, ArbiterInv
  <1>3. /\ LockFree
        /\ UNCHANGED <<fiberVars, waitable_object, restVars, current_core, local_ring, m_scheduler_lock,
                       phase, running, wait_address, client>>
        /\ \/ AddressFiber = NoFiber /\ NobodyWoken
           \/ AddressFiber # NoFiber /\ \E l, r : Released(AddressFiber, l, r) /\ r = <<>>
    BY <1>2, SignalReleases
  <1>4. CASE AddressFiber = NoFiber /\ NobodyWoken
    <2>1. ~lost /\ \A g \in Fibers : Awaits(g)' => Awaits(g)
      BY <1>3, <1>4 DEF NobodyWoken, readyVars, Awaits
    <2> QED BY <1>4, <2>1 DEF ReachInv, Reachable
  <1>5. ASSUME AddressFiber # NoFiber, NEW l, NEW r, Released(AddressFiber, l, r), r = <<>>
        PROVE  \A g \in Fibers : ~Awaits(g)'
    <2>1. ~lost
      BY <1>5 DEF Released
    <2> QED BY <1>2, <1>3, <1>5, <2>1, ReleaseReaches DEF ReachInv
  <1> QED BY <1>3, <1>4, <1>5

\* No step leaves a fiber asleep on a word that is set.
LEMMA SignalNext == ASSUME ArbiterInv, ReachInv, SignalInv, [Next]_vars PROVE SignalInv'
  <1>1. CASE UNCHANGED vars
    BY <1>1, SignalStays DEF vars, kernelVars, arbiterVars, Awaits
  <1>2. ASSUME NEW c \in Cores, SchedulerStep(c), UNCHANGED arbiterVars PROVE SignalInv'
    <2>1. \A f \in Fibers : Awaits(f)' => Awaits(f)
      BY <1>2, SchedulerStepWaits DEF Awaits, ArbiterInv
    <2> QED BY <1>2, <2>1, SignalStays DEF arbiterVars
  <1>3. ASSUME NEW f \in Fibers, NEW c \in Cores, Store(f, c) PROVE SignalInv'
    <2>1. pc'[f] = "wake"
      BY <1>3 DEF Store, ArbiterInv
    <2> QED BY <2>1 DEF SignalInv, NoMissedSignal
  <1>4. ASSUME NEW f \in Fibers, NEW c \in Cores, Clear(f, c) PROVE SignalInv'
    BY <1>4 DEF Clear, SignalInv, NoMissedSignal
  <1>5. ASSUME NEW f \in Fibers, NEW c \in Cores, CancelAddressWait(c, f) PROVE SignalInv'
    <2>1. \A g \in Fibers : fiber_state'[g] = "Waiting" => fiber_state[g] = "Waiting"
      BY <1>5, CancelAddressKeeps DEF ArbiterInv
    <2>2. UNCHANGED <<client, word, pc, waitable_object>> /\ (lost => lost')
      BY <1>5 DEF CancelAddressWait
    <2> QED BY <2>1, <2>2, SignalStays DEF Awaits
  <1>6. ASSUME ~Signallers, UNCHANGED client PROVE SignalInv'
    BY <1>6 DEF SignalInv, Signallers
  <1>7. ASSUME NEW f \in Fibers, NEW c \in Cores, ArbiterStep(f, c) PROVE SignalInv'
    <2>1. CASE Wait(f, c) \/ Store(f, c) \/ Clear(f, c) \/ Signal(f, c)
      BY <1>3, <1>4, <2>1, WaitSignals, WakeSignals
    <2>2. ASSUME NEW count \in client.counts,
                 \/ "increment" \in client.calls /\ WakeByAddressIncrementEqual(f, c, 0, count)
                 \/ "modify" \in client.calls /\ WakeByAddressModifyLessThan(f, c, 0, count)
          PROVE  SignalInv'
      <3>1. UNCHANGED client
        BY <2>2 DEF WakeByAddressIncrementEqual, WakeByAddressModifyLessThan, WakeReturns
      <3>2. ~Signallers
        BY <2>2 DEF Signallers
      <3> QED BY <1>6, <3>1, <3>2
    <2>3. CASE "sleep" \in client.calls /\ UNCHANGED arbiterVars
      BY <1>6, <2>3 DEF Signallers, arbiterVars
    <2> QED BY <1>7, <2>1, <2>2, <2>3 DEF ArbiterStep
  <1>8. client.cores \subseteq Cores
    BY ClientsAsk DEF ArbiterInv
  <1> QED BY <1>1, <1>2, <1>5, <1>7, <1>8 DEF Next

\* SignalInv: while no waiter was lost, a fiber does not sleep on an event that was
\* set unless the wake-up call is still to come, whatever timeouts there are.
THEOREM SignalInvariance == Spec => []SignalInv
  <1>1. Init => SignalInv
    BY DEF Init, SignalInv, NoMissedSignal
  <1>2. ArbiterInv /\ ReachInv /\ SignalInv /\ [Next]_vars => SignalInv'
    BY SignalNext
  <1> QED BY <1>1, <1>2, ArbiterInvariance, ReachInvariance, PTL DEF Spec

\* The users of an event give no timeout, as ServiceCriticalSection and ServiceEvent's
\* Wait do not.
PatientSignallers ==
    \A k \in Clients :
        k.calls \subseteq {"equal", "less", "signal"} /\ k.counts = {All} => k.waits \subseteq {"never"}

\* Then no waiter of an event is lost: who is parked waits for the word, for ever.
PatienceInv ==
    Signallers => /\ ~lost
                  /\ \A f \in Fibers : fiber_state[f] = "Waiting" =>
                        waitable_object[f] = "address" /\ timeout[f] = "never"

\* A step that makes no fiber wait.
LEMMA PatienceStays ==
    ASSUME PatienceInv, UNCHANGED <<client, waitable_object, lost>>,
           \A f \in Fibers : fiber_state'[f] = "Waiting" => fiber_state[f] = "Waiting" /\ timeout'[f] = timeout[f]
    PROVE  PatienceInv'
  BY DEF PatienceInv, Signallers

\* No step of the users of an event loses a waiter.
LEMMA PatienceNext ==
    ASSUME PatientSignallers, ArbiterInv, PatienceInv, [Next]_vars
    PROVE  PatienceInv'
  <1>0. UNCHANGED client => Signallers' = Signallers
    BY DEF Signallers
  <1>1. CASE UNCHANGED vars
    BY <1>1, PatienceStays DEF vars, kernelVars, arbiterVars
  <1>2. KernelInv /\ ParkInv
    BY DEF ArbiterInv, KernelInv
  <1>3. Signallers => \A f \in Elements(m_wait_list) : waitable_object[f] = "address" /\ timeout[f] = "never"
    BY <1>2, ParkedThere DEF PatienceInv
  <1>4. ASSUME NEW c \in Cores, SchedulerStep(c), UNCHANGED arbiterVars PROVE PatienceInv'
    <2>1. /\ UNCHANGED <<waitable_object, client, lost>>
          /\ \A f \in Fibers : fiber_state'[f] = "Waiting" => fiber_state[f] = "Waiting"
          /\ UNCHANGED timeout \/ \E f \in Fibers : CancelSleep(c, f)
      BY <1>2, <1>4, SchedulerStepWaits DEF arbiterVars
    <2>2. CASE UNCHANGED timeout
      BY <2>1, <2>2, PatienceStays
    <2>3. ASSUME NEW f \in Fibers, CancelSleep(c, f) PROVE ~Signallers
      BY <1>3, <2>3 DEF CancelSleep, TimedOut
    <2> QED BY <1>0, <2>1, <2>2, <2>3 DEF PatienceInv
  <1>5. ASSUME NEW f \in Fibers, NEW c \in Cores, Store(f, c) \/ Clear(f, c) PROVE PatienceInv'
    BY <1>5, PatienceStays DEF Store, Clear, kernelVars
  <1>6. ASSUME NEW f \in Fibers, NEW c \in Cores, CancelAddressWait(c, f) PROVE PatienceInv'
    <2>1. UNCHANGED client /\ ~Signallers
      BY <1>3, <1>6 DEF CancelAddressWait, TimedOut
    <2> QED BY <1>0, <2>1 DEF PatienceInv
  <1>7. ASSUME NEW f \in Fibers, NEW c \in Cores, Wait(f, c) PROVE PatienceInv'
    <2>1. UNCHANGED client /\ (DoNotWait(c) \/ \E t \in client.waits : WaitOnWord(f, c, t))
      BY <1>7, WaitSays
    <2>2. CASE DoNotWait(c)
      BY <2>1, <2>2, PatienceStays DEF DoNotWait, waitVars, readyVars
    <2>3. ASSUME NEW t \in client.waits, WaitOnWord(f, c, t), Signallers PROVE PatienceInv'
      <3>1. t = "never"
        BY <2>3 DEF PatientSignallers, Signallers, ArbiterInv
      <3>2. ~lost'
        BY <1>2, <1>3, <2>3, ParentIsFirst DEF WaitOnWord, PatienceInv
      <3>3. ASSUME NEW g \in Fibers, fiber_state'[g] = "Waiting"
            PROVE  waitable_object'[g] = "address" /\ timeout'[g] = "never"
        <4>1. /\ fiber_state \in [Fibers -> FiberState] /\ timeout \in [Fibers -> TimeoutValues]
              /\ waitable_object \in [Fibers -> WaitableObjects]
          BY <1>2 DEF KernelInv, FieldsInv
        <4>2. /\ waitable_object' = [waitable_object EXCEPT ![f] = "address"]
              /\ fiber_state' = [fiber_state EXCEPT ![f] = "Waiting"]
              /\ timeout' = [timeout EXCEPT ![f] = t]
          BY <2>3 DEF WaitOnWord
        <4>3. CASE g = f
          BY <3>1, <4>1, <4>2, <4>3
        <4>4. CASE g # f
          BY <2>3, <3>3, <4>1, <4>2, <4>4 DEF PatienceInv
        <4> QED BY <4>3, <4>4
      <3> QED BY <3>2, <3>3 DEF PatienceInv
    <2> QED BY <1>0, <2>1, <2>2, <2>3 DEF PatienceInv
  <1>8. ASSUME NEW f \in Fibers, NEW c \in Cores, Signal(f, c), Signallers PROVE PatienceInv'
    <2>1. /\ LockFree
          /\ UNCHANGED <<fiberVars, waitable_object, restVars, current_core, local_ring, m_scheduler_lock,
                         phase, running, client>>
          /\ \/ NobodyWoken
             \/ AddressFiber # NoFiber /\ \E l, r : Released(AddressFiber, l, r) /\ r = <<>>
      BY <1>8, SignalReleases
    <2>2. CASE NobodyWoken
      BY <2>1, <2>2, PatienceStays DEF NobodyWoken, readyVars
    <2>3. ASSUME AddressFiber # NoFiber, NEW l, NEW r, Released(AddressFiber, l, r), r = <<>>
          PROVE  PatienceInv'
      <3>1. AddressFiber \in Elements(m_wait_list)
        BY <1>2, <2>3, ParentIsFirst
      <3>2. \A g \in Fibers : fiber_state'[g] = "Waiting" =>
                fiber_state[g] = "Waiting" /\ timeout'[g] = timeout[g]
        BY <1>2, <2>1, <2>3, <3>1, ReleaseKeeps
      <3>3. UNCHANGED lost
        BY <2>3 DEF Released
      <3> QED BY <2>1, <3>2, <3>3, PatienceStays
    <2> QED BY <2>1, <2>2, <2>3
  <1>9. ASSUME NEW f \in Fibers, NEW c \in Cores, ArbiterStep(f, c) PROVE PatienceInv'
    <2>1. ASSUME UNCHANGED client, ~Signallers PROVE PatienceInv'
      BY <1>0, <2>1 DEF PatienceInv
    <2>2. CASE Wait(f, c) \/ Store(f, c) \/ Clear(f, c)
      BY <1>5, <1>7, <2>2
    <2>3. CASE Signal(f, c)
      <3>1. UNCHANGED client
        BY <2>3 DEF Signal, WakeByAddress, WakeReturns
      <3> QED BY <1>8, <2>1, <2>3, <3>1
    <2>4. ASSUME NEW count \in client.counts,
                 \/ "increment" \in client.calls /\ WakeByAddressIncrementEqual(f, c, 0, count)
                 \/ "modify" \in client.calls /\ WakeByAddressModifyLessThan(f, c, 0, count)
          PROVE  PatienceInv'
      <3>1. UNCHANGED client
        BY <2>4 DEF WakeByAddressIncrementEqual, WakeByAddressModifyLessThan, WakeReturns
      <3>2. ~Signallers
        BY <2>4 DEF Signallers
      <3> QED BY <2>1, <3>1, <3>2
    <2>5. CASE "sleep" \in client.calls /\ UNCHANGED arbiterVars
      BY <2>1, <2>5 DEF Signallers, arbiterVars
    <2> QED BY <1>9, <2>2, <2>3, <2>4, <2>5 DEF ArbiterStep
  <1>10. client.cores \subseteq Cores
    BY ClientsAsk DEF ArbiterInv
  <1> QED BY <1>1, <1>4, <1>6, <1>9, <1>10 DEF Next

\* NoMissedSignal: a fiber does not sleep on an event that was set, unless the fiber
\* that set it still has its wake-up call to make.  (Waits with a timeout can lose a
\* waiter, and then it is missed; SignalInv says that this is the only way.)
THEOREM SignalsAreNotMissed == ASSUME PatientSignallers PROVE Spec => []NoMissedSignal
  <1>1. Init => PatienceInv
    <2>1. Init => lost = FALSE /\ \A f \in Fibers : fiber_state[f] \in {"Running", "Scheduled", "Unallocated"}
      BY DEF Init, KernelInit
    <2> QED BY <2>1 DEF PatienceInv
  <1>2. ArbiterInv /\ PatienceInv /\ [Next]_vars => PatienceInv'
    BY PatienceNext
  <1>3. SignalInv /\ PatienceInv => NoMissedSignal
    BY DEF SignalInv, PatienceInv, NoMissedSignal
  <1> QED BY <1>1, <1>2, <1>3, ArbiterInvariance, SignalInvariance, PTL DEF Spec
=============================================================================
