------------------------- MODULE HandleTableProofs -------------------------
(***************************************************************************)
(* HandleTable, for every table size and every counter width: the free     *)
(* stack is well formed, a live handle resolves to its object, and a stale *)
(* handle is refused for a whole round of the counter.  And the BusyMutex  *)
(* that guards it, m_table_mutex: it excludes, and serves in the order of  *)
(* arrival, for any number of threads below the modulus of its counters.   *)
(* Its inductive invariant is TypeOK /\ TicketInv: a ticket is unique      *)
(* because the window between the two counters never closes over itself,   *)
(* and it does not because it has as many tickets as there are busy        *)
(* threads.                                                                *)
(***************************************************************************)
EXTENDS HandleTable, BusyMutex, FiniteSetTheorems, TLAPS

-----------------------------------------------------------------------------
(* HandleTable. *)

Issue(h, object) == [handle |-> h, object |-> object, serial |-> reserves, live |-> TRUE]

LEMMA NextCounterType ==
    ASSUME NEW c \in Counters
    PROVE  NextCounter(c) \in Counters
BY HandleTableAssumption DEF Counters, NextCounter

\* When the table is not full the free stack has a top, and it is a free slot.
LEMMA TopIsFree ==
    ASSUME TableTypeOK, FreeListWellFormed, m_active_handles < MaxHandles
    PROVE  m_indice_iter \in FreeSlots
BY HandleTableAssumption DEF TableTypeOK, FreeListWellFormed, IsFreeStack, FreeSlots, Slots

\* A reserve keeps the types.
LEMMA ReserveType ==
    ASSUME TableTypeOK, FreeListWellFormed, NEW object \in Objects, ReserveHandle(object)
    PROVE  TableTypeOK'
<1> DEFINE h == [index |-> m_indice_iter, counter |-> m_counter_value]
<1>1. m_indice_iter \in Slots
  BY TopIsFree DEF ReserveHandle, FreeSlots
<1>2. h \in Handle
  BY <1>1 DEF Handle, TableTypeOK
<1>3. m_indice_iter' \in Slots \cup {-1}
  <2> PICK stack \in [1 .. (MaxHandles - m_active_handles) -> Slots] :
        IsFreeStack(stack, MaxHandles - m_active_handles)
    BY DEF FreeListWellFormed
  <2> QED BY <1>1, HandleTableAssumption DEF ReserveHandle, IsFreeStack, TableTypeOK, FreeSlots, Slots
<1>4. m_counters' \in [Slots -> -1 .. (MaxHandles + CounterLimit)]
  BY <1>1, HandleTableAssumption DEF ReserveHandle, TableTypeOK, Counters
<1>5. /\ m_objects' \in [Slots -> Objects \cup {nullptr}]
      /\ m_active_handles' \in 0 .. MaxHandles
      /\ m_counter_value' \in Counters
      /\ reserves' \in Nat
  BY <1>1, NextCounterType, HandleTableAssumption DEF ReserveHandle, TableTypeOK
<1>6. \A r \in issued' : /\ r \in [handle : Handle, object : Objects, serial : Nat, live : BOOLEAN]
                         /\ r.serial < reserves'
  <2> SUFFICES ASSUME NEW r \in issued'
               PROVE  /\ r \in [handle : Handle, object : Objects, serial : Nat, live : BOOLEAN]
                      /\ r.serial < reserves'
    OBVIOUS
  <2>1. r \in issued \/ r = Issue(h, object)
    BY DEF ReserveHandle, Issue
  <2>2. CASE r \in issued
    BY <2>2 DEF TableTypeOK, ReserveHandle
  <2>3. CASE r = Issue(h, object)
    BY <2>3, <1>2 DEF TableTypeOK, ReserveHandle, Issue
  <2> QED BY <2>1, <2>2, <2>3
<1> QED BY <1>3, <1>4, <1>5, <1>6 DEF TableTypeOK

\* A free keeps the types.
LEMMA FreeType ==
    ASSUME TableTypeOK, FreeListWellFormed, NEW f \in issued, FreeHandle(f.handle)
    PROVE  TableTypeOK'
<1> DEFINE h == f.handle
<1>1. h \in Handle /\ h.index \in Slots
  BY DEF TableTypeOK, Handle
<1>2. m_active_handles \in 1 .. MaxHandles
  \* the slot that is freed is in use, so not every slot is free
  <2> PICK stack \in [1 .. (MaxHandles - m_active_handles) -> Slots] :
        IsFreeStack(stack, MaxHandles - m_active_handles)
    BY DEF FreeListWellFormed
  <2> SUFFICES ASSUME m_active_handles = 0 PROVE FALSE
    BY DEF TableTypeOK
  <2>1. stack \in [1 .. MaxHandles -> FreeSlots]
        /\ \A i, j \in 1 .. MaxHandles : stack[i] = stack[j] => i = j
    BY HandleTableAssumption DEF IsFreeStack
  <2>2. h.index \notin FreeSlots
    BY DEF FreeHandle, IsFreeable, FreeSlots
  <2> DEFINE g == [i \in 1 .. MaxHandles |-> stack[i]]
  <2>3. FreeSlots \subseteq Slots \ {h.index}
    BY <2>2 DEF FreeSlots
  <2>4. IsFiniteSet(Slots) /\ Cardinality(Slots) = MaxHandles
    BY FS_Interval, HandleTableAssumption DEF Slots
  <2>5. IsFiniteSet(Slots \ {h.index}) /\ Cardinality(Slots \ {h.index}) = MaxHandles - 1
    BY <1>1, <2>4, FS_RemoveElement
  <2>6. IsFiniteSet(1 .. MaxHandles) /\ Cardinality(1 .. MaxHandles) = MaxHandles
    BY FS_Interval, HandleTableAssumption
  <2>7. stack \in [1 .. MaxHandles -> Slots \ {h.index}]
    BY <2>1, <2>3
  <2>8. \E i, j \in 1 .. MaxHandles : i # j /\ stack[i] = stack[j]
    BY <2>5, <2>6, <2>7, FS_PigeonHole, HandleTableAssumption
  <2> QED BY <2>1, <2>8
<1>3. /\ m_counters' \in [Slots -> -1 .. (MaxHandles + CounterLimit)]
      /\ m_objects' \in [Slots -> Objects \cup {nullptr}]
      /\ m_indice_iter' \in Slots \cup {-1}
      /\ m_active_handles' \in 0 .. MaxHandles
      /\ m_counter_value' \in Counters
      /\ reserves' \in Nat
  <2>1. m_counters' \in [Slots -> -1 .. (MaxHandles + CounterLimit)]
    <3>1. m_indice_iter \in -1 .. (MaxHandles + CounterLimit)
      BY HandleTableAssumption DEF TableTypeOK, Slots
    <3> QED BY <1>1, <3>1 DEF FreeHandle, TableTypeOK
  <2>2. m_objects' \in [Slots -> Objects \cup {nullptr}]
    BY <1>1 DEF FreeHandle, TableTypeOK
  <2>3. m_active_handles' \in 0 .. MaxHandles
    BY <1>2, HandleTableAssumption DEF FreeHandle
  <2> QED BY <1>1, <2>1, <2>2, <2>3 DEF FreeHandle, TableTypeOK
<1>4. \A r \in issued' : /\ r \in [handle : Handle, object : Objects, serial : Nat, live : BOOLEAN]
                         /\ r.serial < reserves'
  <2> SUFFICES ASSUME NEW q \in issued,
                      NEW r, r = IF q.handle = h THEN [q EXCEPT !.live = FALSE] ELSE q
               PROVE  /\ r \in [handle : Handle, object : Objects, serial : Nat, live : BOOLEAN]
                      /\ r.serial < reserves'
    BY DEF FreeHandle
  <2> QED BY DEF TableTypeOK, FreeHandle
<1> QED BY <1>3, <1>4 DEF TableTypeOK

\* A reserve pops the free stack.
LEMMA ReserveStack ==
    ASSUME TableTypeOK, FreeListWellFormed, NEW object \in Objects, ReserveHandle(object)
    PROVE  FreeListWellFormed'
<1> PICK stack \in [1 .. (MaxHandles - m_active_handles) -> Slots] :
      IsFreeStack(stack, MaxHandles - m_active_handles)
  BY DEF FreeListWellFormed
<1> DEFINE n == MaxHandles - m_active_handles
           top == m_indice_iter
           rest == [i \in 1 .. (n - 1) |-> stack[i]]
<1>1. n \in Nat /\ n > 0 /\ MaxHandles - m_active_handles' = n - 1
  BY HandleTableAssumption DEF TableTypeOK, ReserveHandle
<1>2. top \in FreeSlots /\ top = stack[n]
  BY <1>1, TopIsFree DEF ReserveHandle, IsFreeStack
<1>3. FreeSlots' = FreeSlots \ {top}
  BY <1>2, HandleTableAssumption DEF FreeSlots, ReserveHandle, TableTypeOK, Slots
<1>4. \A i \in 1 .. (n - 1) : i \in 1 .. n /\ stack[i] # top
  BY <1>1, <1>2 DEF IsFreeStack
<1>5. rest \in [1 .. (n - 1) -> FreeSlots'] /\ rest \in [1 .. (n - 1) -> Slots]
  BY <1>3, <1>4 DEF IsFreeStack, FreeSlots
<1>6. \A i, j \in 1 .. (n - 1) : rest[i] = rest[j] => i = j
  BY <1>1, <1>4 DEF IsFreeStack
<1>7. \A s \in FreeSlots' : \E i \in 1 .. (n - 1) : rest[i] = s
  BY <1>1, <1>2, <1>3 DEF IsFreeStack
<1>8. m_indice_iter' = IF n - 1 = 0 THEN -1 ELSE rest[n - 1]
  BY <1>1, <1>2 DEF IsFreeStack, ReserveHandle
<1>9. \A i \in 1 .. (n - 1) : m_counters'[rest[i]] = IF i = 1 THEN -1 ELSE rest[i - 1]
  <2> SUFFICES ASSUME NEW i \in 1 .. (n - 1)
               PROVE  m_counters'[rest[i]] = IF i = 1 THEN -1 ELSE rest[i - 1]
    OBVIOUS
  <2>1. m_counters'[stack[i]] = m_counters[stack[i]]
    BY <1>4 DEF ReserveHandle, TableTypeOK
  <2> QED BY <2>1, <1>1, <1>4 DEF IsFreeStack
<1> PICK newStack, height : newStack = rest /\ height = n - 1
  OBVIOUS
<1> HIDE DEF n, rest, top
<1>10. IsFreeStack(newStack, height)'
  BY <1>5, <1>6, <1>7, <1>8, <1>9 DEF IsFreeStack
<1>11. height = (MaxHandles - m_active_handles)' /\ newStack \in [1 .. height -> Slots]
  BY <1>1, <1>5
<1> QED BY <1>10, <1>11 DEF FreeListWellFormed, Slots

\* A free pushes the slot on it.
LEMMA FreeStack ==
    ASSUME TableTypeOK, FreeListWellFormed, NEW f \in issued, FreeHandle(f.handle)
    PROVE  FreeListWellFormed'
<1> PICK stack \in [1 .. (MaxHandles - m_active_handles) -> Slots] :
      IsFreeStack(stack, MaxHandles - m_active_handles)
  BY DEF FreeListWellFormed
<1> DEFINE n == MaxHandles - m_active_handles
           s == f.handle.index
           more == [i \in 1 .. (n + 1) |-> IF i = n + 1 THEN s ELSE stack[i]]
<1>1. n \in Nat /\ MaxHandles - m_active_handles' = n + 1
  BY HandleTableAssumption DEF TableTypeOK, FreeHandle
<1>2. s \in Slots /\ s \notin FreeSlots
  BY DEF FreeHandle, IsFreeable, FreeSlots, TableTypeOK, Handle
<1>3. FreeSlots' = FreeSlots \cup {s}
  BY <1>2, HandleTableAssumption DEF FreeSlots, FreeHandle, TableTypeOK
<1>4. \A i \in 1 .. (n + 1) : i # n + 1 => i \in 1 .. n /\ stack[i] \in FreeSlots /\ stack[i] # s
  BY <1>1, <1>2 DEF IsFreeStack
<1>5. more \in [1 .. (n + 1) -> FreeSlots'] /\ more \in [1 .. (n + 1) -> Slots]
  BY <1>2, <1>3, <1>4 DEF FreeSlots
<1>6. \A i, j \in 1 .. (n + 1) : more[i] = more[j] => i = j
  BY <1>1, <1>4 DEF IsFreeStack
<1>7. \A t \in FreeSlots' : \E i \in 1 .. (n + 1) : more[i] = t
  <2> SUFFICES ASSUME NEW t \in FreeSlots' PROVE \E i \in 1 .. (n + 1) : more[i] = t
    OBVIOUS
  <2>1. CASE t = s
    BY <2>1, <1>1
  <2>2. CASE t \in FreeSlots
    <3> PICK i \in 1 .. n : stack[i] = t
      BY <2>2 DEF IsFreeStack
    <3> QED BY <1>1
  <2> QED BY <2>1, <2>2, <1>3
<1>8. m_indice_iter' = IF n + 1 = 0 THEN -1 ELSE more[n + 1]
  BY <1>1 DEF FreeHandle
<1>9. \A i \in 1 .. (n + 1) : m_counters'[more[i]] = IF i = 1 THEN -1 ELSE more[i - 1]
  <2> SUFFICES ASSUME NEW i \in 1 .. (n + 1)
               PROVE  m_counters'[more[i]] = IF i = 1 THEN -1 ELSE more[i - 1]
    OBVIOUS
  <2>1. CASE i = n + 1
    BY <2>1, <1>1, <1>2 DEF FreeHandle, TableTypeOK, IsFreeStack
  <2>2. CASE i # n + 1
    <3>1. m_counters'[stack[i]] = m_counters[stack[i]]
      BY <2>2, <1>4 DEF FreeHandle, TableTypeOK
    <3> QED BY <2>2, <3>1, <1>1, <1>4 DEF IsFreeStack
  <2> QED BY <2>1, <2>2
<1> PICK newStack, height : newStack = more /\ height = n + 1
  OBVIOUS
<1> HIDE DEF n, more, s
<1>10. IsFreeStack(newStack, height)'
  BY <1>5, <1>6, <1>7, <1>8, <1>9 DEF IsFreeStack
<1>11. height = (MaxHandles - m_active_handles)' /\ newStack \in [1 .. height -> Slots]
  BY <1>1, <1>5
<1> QED BY <1>10, <1>11 DEF FreeListWellFormed, Slots

-----------------------------------------------------------------------------
\* A reserve: what the set of issued handles becomes.
LEMMA ReserveIssued ==
    ASSUME TableTypeOK, FreeListWellFormed, NEW object \in Objects, ReserveHandle(object)
    PROVE  \E new : /\ issued' = issued \cup {new}
                    /\ new.handle.index = m_indice_iter
                    /\ new.handle.counter = m_counter_value
                    /\ new.object = object /\ new.serial = reserves /\ new.live = TRUE
                    /\ m_indice_iter \in Slots /\ m_objects[m_indice_iter] = nullptr
                    /\ m_counter_value \in Counters
<1> DEFINE new == Issue([index |-> m_indice_iter, counter |-> m_counter_value], object)
<1>1. issued' = issued \cup {new}
  BY DEF ReserveHandle, Issue
<1>2. m_indice_iter \in Slots /\ m_objects[m_indice_iter] = nullptr
  BY TopIsFree DEF ReserveHandle, FreeSlots
<1>3. /\ new.handle.index = m_indice_iter /\ new.handle.counter = m_counter_value
      /\ new.object = object /\ new.serial = reserves /\ new.live = TRUE
  BY DEF Issue
<1>4. m_counter_value \in Counters
  BY DEF TableTypeOK
<1> HIDE DEF new
<1> QED BY <1>1, <1>2, <1>3, <1>4

LEMMA ReserveInv ==
    ASSUME TableTypeOK, FreeListWellFormed, HandleInv, NEW object \in Objects, ReserveHandle(object)
    PROVE  HandleInv'
<1> PICK new : /\ issued' = issued \cup {new}
               /\ new.handle.index = m_indice_iter
               /\ new.handle.counter = m_counter_value
               /\ new.object = object /\ new.serial = reserves /\ new.live = TRUE
               /\ m_indice_iter \in Slots /\ m_objects[m_indice_iter] = nullptr
               /\ m_counter_value \in Counters
  BY ReserveIssued
<1>1. \A r \in issued : /\ r.serial \in Nat /\ r.serial < reserves /\ reserves \in Nat
                        /\ r.handle.index \in Slots /\ r.handle.counter \in Counters
                        /\ r.live \in BOOLEAN /\ r.object \in Objects
  BY DEF TableTypeOK, Handle
<1>2. reserves' = reserves + 1 /\ reserves \in Nat
  BY DEF ReserveHandle, TableTypeOK
<1>3. SerialsUnique'
  BY <1>1 DEF HandleInv, SerialsUnique
<1>4. /\ m_objects' = [m_objects EXCEPT ![m_indice_iter] = object]
      /\ m_counters' = [m_counters EXCEPT ![m_indice_iter] = m_counter_value]
      /\ m_counter_value' = NextCounter(m_counter_value)
  BY DEF ReserveHandle
\* no live handle stands for the slot that is taken: it was free
<1>5. \A r \in issued : r.live => r.handle.index # m_indice_iter
  BY <1>1, HandleTableAssumption DEF HandleInv, UsedSlotsAreLive
<1>6. UsedSlotsAreLive'
  <2>1. \A r \in issued' : r.live =>
          /\ m_objects'[r.handle.index] = r.object
          /\ m_counters'[r.handle.index] = r.handle.counter
    BY <1>1, <1>4, <1>5 DEF HandleInv, UsedSlotsAreLive, TableTypeOK
  <2>2. \A i \in Slots : m_objects'[i] # nullptr =>
          \E r \in issued' : r.live /\ r.handle.index = i
    BY <1>4 DEF HandleInv, UsedSlotsAreLive, TableTypeOK
  <2>3. \A r, q \in issued' : r.live /\ q.live /\ r.handle.index = q.handle.index => r = q
    BY <1>5 DEF HandleInv, UsedSlotsAreLive
  <2> QED BY <2>1, <2>2, <2>3 DEF UsedSlotsAreLive
<1>7. LiveIsYoungest'
  BY <1>1, <1>5 DEF HandleInv, LiveIsYoungest
<1>8. CounterDistance'
  <2> SUFFICES ASSUME NEW r \in issued', reserves' - r.serial <= CounterLimit - 1
      PROVE  \/ m_counter_value' = r.handle.counter + (reserves' - r.serial)
             \/ m_counter_value' = r.handle.counter + (reserves' - r.serial) - (CounterLimit - 1)
    BY DEF CounterDistance
  <2>1. CASE r = new
    BY <2>1, <1>2, <1>4, HandleTableAssumption DEF NextCounter, Counters
  <2>2. CASE r \in issued
    <3>1. reserves - r.serial <= CounterLimit - 1
      BY <2>2, <1>1, <1>2, HandleTableAssumption
    <3>2. \/ m_counter_value = r.handle.counter + (reserves - r.serial)
          \/ m_counter_value = r.handle.counter + (reserves - r.serial) - (CounterLimit - 1)
      BY <2>2, <3>1 DEF HandleInv, CounterDistance
    <3> QED BY <2>2, <3>1, <3>2, <1>1, <1>2, <1>4, HandleTableAssumption DEF NextCounter, Counters
  <2> QED BY <2>1, <2>2
<1>9. RoundDistinct'
  <2> SUFFICES ASSUME NEW r \in issued', NEW q \in issued',
                      r.serial < q.serial, q.serial - r.serial < CounterLimit - 1
               PROVE  r.handle.counter # q.handle.counter
    BY DEF RoundDistinct
  <2>1. CASE r \in issued /\ q \in issued
    BY <2>1 DEF HandleInv, RoundDistinct
  <2>2. CASE r \in issued /\ q = new
    <3>1. \/ m_counter_value = r.handle.counter + (reserves - r.serial)
          \/ m_counter_value = r.handle.counter + (reserves - r.serial) - (CounterLimit - 1)
      BY <2>2, <1>1, HandleTableAssumption DEF HandleInv, CounterDistance
    <3> QED BY <2>2, <3>1, <1>1, HandleTableAssumption DEF Counters
  <2>3. CASE r = new
    BY <2>3, <1>1, <1>2
  <2> QED BY <2>1, <2>2, <2>3
<1> QED BY <1>3, <1>6, <1>7, <1>8, <1>9 DEF HandleInv

\* A free: every record keeps its handle, object and serial; those of the freed
\* handle become stale.
LEMMA FreeIssued ==
    ASSUME TableTypeOK, NEW f \in issued, FreeHandle(f.handle)
    PROVE  \A r \in issued' : \E q \in issued :
              /\ r.handle = q.handle /\ r.object = q.object /\ r.serial = q.serial
              /\ r.live <=> (q.live /\ q.handle # f.handle)
              /\ q.handle # f.handle => r = q
<1> SUFFICES ASSUME NEW q \in issued,
                    NEW r, r = IF q.handle = f.handle THEN [q EXCEPT !.live = FALSE] ELSE q
             PROVE  /\ r.handle = q.handle /\ r.object = q.object /\ r.serial = q.serial
                    /\ r.live <=> (q.live /\ q.handle # f.handle)
                    /\ q.handle # f.handle => r = q
  BY DEF FreeHandle
<1>1. q \in [handle : Handle, object : Objects, serial : Nat, live : BOOLEAN]
  BY DEF TableTypeOK
<1> QED BY <1>1

\* Two records that come from the same one are the same.
LEMMA FreeIssuedSame ==
    ASSUME TableTypeOK, SerialsUnique, NEW f \in issued, FreeHandle(f.handle)
    PROVE  /\ SerialsUnique'
           /\ \A q \in issued : q.handle # f.handle => q \in issued'
<1>1. \A q \in issued : q.handle # f.handle => q \in issued'
  BY DEF FreeHandle
<1>2. SerialsUnique'
  <2> SUFFICES ASSUME NEW a \in issued, NEW b \in issued,
                      NEW r, r = IF a.handle = f.handle THEN [a EXCEPT !.live = FALSE] ELSE a,
                      NEW q, q = IF b.handle = f.handle THEN [b EXCEPT !.live = FALSE] ELSE b,
                      r.serial = q.serial
               PROVE  r = q
    BY DEF SerialsUnique, FreeHandle
  <2>1. /\ a \in [handle : Handle, object : Objects, serial : Nat, live : BOOLEAN]
        /\ b \in [handle : Handle, object : Objects, serial : Nat, live : BOOLEAN]
    BY DEF TableTypeOK
  <2>2. a.serial = b.serial
    BY <2>1
  <2> QED BY <2>2 DEF SerialsUnique
<1> QED BY <1>1, <1>2

LEMMA FreeInv ==
    ASSUME TableTypeOK, HandleInv, NEW f \in issued, FreeHandle(f.handle)
    PROVE  HandleInv'
<1> DEFINE s == f.handle.index
<1>1. \A r \in issued : /\ r.serial \in Nat
                        /\ r.handle \in Handle
                        /\ r.handle.index \in Slots /\ r.handle.counter \in Counters
                        /\ r.live \in BOOLEAN /\ r.object \in Objects
  BY DEF TableTypeOK, Handle
<1>2. /\ m_objects' = [m_objects EXCEPT ![s] = nullptr]
      /\ m_counters' = [m_counters EXCEPT ![s] = m_indice_iter]
      /\ m_objects[s] # nullptr /\ f.handle.counter = m_counters[s]
      /\ UNCHANGED <<m_counter_value, reserves>>
  BY DEF FreeHandle, IsFreeable
<1>3. SerialsUnique' /\ \A q \in issued : q.handle # f.handle => q \in issued'
  BY FreeIssuedSame DEF HandleInv
\* the live handle of the slot is the one that is freed
<1>4. \A q \in issued : q.live /\ q.handle.index = s => q.handle = f.handle
  BY <1>1, <1>2 DEF HandleInv, UsedSlotsAreLive, Handle
<1>5. UsedSlotsAreLive'
  <2>1. \A r \in issued' : r.live =>
          /\ m_objects'[r.handle.index] = r.object
          /\ m_counters'[r.handle.index] = r.handle.counter
    <3> SUFFICES ASSUME NEW r \in issued', r.live
                 PROVE  /\ m_objects'[r.handle.index] = r.object
                        /\ m_counters'[r.handle.index] = r.handle.counter
      OBVIOUS
    <3>1. PICK q \in issued : r = q /\ q.live /\ q.handle # f.handle
      BY FreeIssued
    <3> QED BY <3>1, <1>1, <1>2, <1>4 DEF HandleInv, UsedSlotsAreLive, TableTypeOK
  <2>2. \A i \in Slots : m_objects'[i] # nullptr =>
          \E r \in issued' : r.live /\ r.handle.index = i
    <3> SUFFICES ASSUME NEW i \in Slots, m_objects'[i] # nullptr
                 PROVE  \E r \in issued' : r.live /\ r.handle.index = i
      OBVIOUS
    <3>1. i # s /\ m_objects[i] # nullptr
      BY <1>1, <1>2 DEF TableTypeOK
    <3>2. PICK q \in issued : q.live /\ q.handle.index = i
      BY <3>1 DEF HandleInv, UsedSlotsAreLive
    <3> QED BY <3>1, <3>2, <1>3
  <2>3. \A r, q \in issued' : r.live /\ q.live /\ r.handle.index = q.handle.index => r = q
    <3> SUFFICES ASSUME NEW r \in issued', NEW q \in issued',
                        r.live, q.live, r.handle.index = q.handle.index
                 PROVE  r = q
      OBVIOUS
    <3>1. r \in issued /\ q \in issued
      BY FreeIssued
    <3> QED BY <3>1 DEF HandleInv, UsedSlotsAreLive
  <2> QED BY <2>1, <2>2, <2>3 DEF UsedSlotsAreLive
<1>6. LiveIsYoungest'
  <2> SUFFICES ASSUME NEW r \in issued', NEW q \in issued',
                      r.live, ~q.live, r.handle.index = q.handle.index
               PROVE  q.serial < r.serial
    BY DEF LiveIsYoungest
  <2>1. PICK a \in issued : r = a /\ a.live /\ a.handle # f.handle
    BY FreeIssued
  <2>2. PICK b \in issued : /\ q.handle = b.handle /\ q.serial = b.serial
                            /\ ~q.live <=> ~(b.live /\ b.handle # f.handle)
    BY FreeIssued
  <2>3. b.handle # f.handle \/ b.handle.index = s
    OBVIOUS
  <2>4. a.handle.index # s
    BY <2>1, <1>4
  <2> QED BY <2>1, <2>2, <2>4, <1>1 DEF HandleInv, LiveIsYoungest
<1>7. CounterDistance'
  <2> SUFFICES ASSUME NEW r \in issued', reserves - r.serial <= CounterLimit - 1
      PROVE  \/ m_counter_value = r.handle.counter + (reserves - r.serial)
             \/ m_counter_value = r.handle.counter + (reserves - r.serial) - (CounterLimit - 1)
    BY <1>2 DEF CounterDistance
  <2>1. PICK q \in issued : r.handle = q.handle /\ r.serial = q.serial
    BY FreeIssued
  <2> QED BY <2>1 DEF HandleInv, CounterDistance
<1>8. RoundDistinct'
  <2> SUFFICES ASSUME NEW r \in issued', NEW q \in issued',
                      r.serial < q.serial, q.serial - r.serial < CounterLimit - 1
               PROVE  r.handle.counter # q.handle.counter
    BY DEF RoundDistinct
  <2>1. PICK a \in issued : r.handle = a.handle /\ r.serial = a.serial
    BY FreeIssued
  <2>2. PICK b \in issued : q.handle = b.handle /\ q.serial = b.serial
    BY FreeIssued
  <2> QED BY <2>1, <2>2 DEF HandleInv, RoundDistinct
<1> QED BY <1>3, <1>5, <1>6, <1>7, <1>8 DEF HandleInv

-----------------------------------------------------------------------------
IInv == TableTypeOK /\ FreeListWellFormed /\ HandleInv

LEMMA InitIInv == TableInit => IInv
<1> SUFFICES ASSUME TableInit PROVE IInv
  OBVIOUS
<1>1. TableTypeOK
  BY HandleTableAssumption DEF TableInit, Initialize, TableTypeOK, Slots, Counters
<1>2. FreeListWellFormed
  <2> DEFINE stack == [i \in 1 .. MaxHandles |-> i - 1]
  <2>1. MaxHandles - m_active_handles = MaxHandles /\ FreeSlots = Slots
    BY HandleTableAssumption DEF TableInit, Initialize, FreeSlots
  <2>2. stack \in [1 .. MaxHandles -> Slots]
    BY HandleTableAssumption DEF Slots
  <2>3. \A i, j \in 1 .. MaxHandles : stack[i] = stack[j] => i = j
    OBVIOUS
  <2>4. \A s \in FreeSlots : \E i \in 1 .. MaxHandles : stack[i] = s
    <3> SUFFICES ASSUME NEW s \in Slots PROVE \E i \in 1 .. MaxHandles : stack[i] = s
      BY <2>1
    <3>1. s + 1 \in 1 .. MaxHandles /\ stack[s + 1] = s
      BY HandleTableAssumption DEF Slots
    <3> QED BY <3>1
  <2>5. m_indice_iter = IF MaxHandles = 0 THEN -1 ELSE stack[MaxHandles]
    BY HandleTableAssumption DEF TableInit, Initialize
  <2>6. \A i \in 1 .. MaxHandles :
          m_counters[stack[i]] = IF i = 1 THEN -1 ELSE stack[i - 1]
    BY HandleTableAssumption DEF TableInit, Initialize, Slots
  <2>7. IsFreeStack(stack, MaxHandles)
    BY <2>1, <2>2, <2>3, <2>4, <2>5, <2>6 DEF IsFreeStack
  <2> HIDE DEF stack
  <2> QED BY <2>1, <2>2, <2>7 DEF FreeListWellFormed
<1>3. HandleInv
  BY DEF TableInit, Initialize, HandleInv, SerialsUnique, UsedSlotsAreLive, LiveIsYoungest,
         CounterDistance, RoundDistinct
<1> QED BY <1>1, <1>2, <1>3 DEF IInv

LEMMA NextIInv == IInv /\ [TableNext]_handleVars => IInv'
<1> SUFFICES ASSUME IInv, [TableNext]_handleVars PROVE IInv'
  OBVIOUS
<1>1. ASSUME NEW object \in Objects, ReserveHandle(object) PROVE IInv'
  BY <1>1, ReserveType, ReserveStack, ReserveInv DEF IInv
<1>2. ASSUME NEW r \in issued, FreeHandle(r.handle) PROVE IInv'
  BY <1>2, FreeType, FreeStack, FreeInv DEF IInv
<1>3. CASE UNCHANGED handleVars
  <2>1. TableTypeOK'
    BY <1>3 DEF IInv, handleVars, TableTypeOK
  <2>2. FreeListWellFormed'
    <3> PICK stack, height : /\ height = MaxHandles - m_active_handles
                             /\ stack \in [1 .. height -> Slots]
                             /\ IsFreeStack(stack, height)
      BY DEF IInv, FreeListWellFormed
    <3>1. FreeSlots' = FreeSlots
      BY <1>3 DEF handleVars, FreeSlots
    <3>2. IsFreeStack(stack, height)'
      BY <1>3, <3>1 DEF handleVars, IsFreeStack
    <3>3. height = (MaxHandles - m_active_handles)'
      BY <1>3 DEF handleVars
    <3> QED BY <3>2, <3>3 DEF FreeListWellFormed, Slots
  <2>3. HandleInv'
    BY <1>3 DEF IInv, handleVars, HandleInv, SerialsUnique, UsedSlotsAreLive, LiveIsYoungest,
                CounterDistance, RoundDistinct
  <2> QED BY <2>1, <2>2, <2>3 DEF IInv
<1> QED BY <1>1, <1>2, <1>3 DEF TableNext

\* The inductive invariant holds of every execution of the table.
THEOREM Invariance == TableSpec => []IInv
BY InitIInv, NextIInv, PTL DEF TableSpec

\* The variables keep their types: m_indice_iter never leaves the array and
\* m_active_handles never passes its ends, whatever is reserved and freed.
THEOREM TypeCorrect == TableSpec => []TableTypeOK
<1>1. IInv => TableTypeOK
  BY DEF IInv
<1> QED BY <1>1, Invariance, PTL

\* The free slots are exactly the stack threaded through m_counters.
THEOREM FreeListCorrect == TableSpec => []FreeListWellFormed
<1>1. IInv => FreeListWellFormed
  BY DEF IInv
<1> QED BY <1>1, Invariance, PTL

\* A handle resolves to its object from ReserveHandle to FreeHandle.
THEOREM LiveHandles == TableSpec => []LiveHandleResolves
<1>1. IInv => LiveHandleResolves
  BY DEF IInv, HandleInv, UsedSlotsAreLive, LiveHandleResolves, GetObjectByHandle
<1> QED BY <1>1, Invariance, PTL

\* A freed handle is refused for a whole round of the counter.
THEOREM StaleHandles == TableSpec => []StaleHandleRejected
<1>1. IInv => StaleHandleRejected
  <2> SUFFICES ASSUME IInv, NEW r \in issued, ~r.live,
                      reserves - r.serial <= CounterLimit - 1,
                      GetObjectByHandle(r.handle) # nullptr
               PROVE  FALSE
    BY DEF StaleHandleRejected
  <2>1. /\ r.handle.index \in Slots /\ r.serial \in Nat /\ r.live \in BOOLEAN
        /\ reserves \in Nat
    BY DEF IInv, TableTypeOK, Handle
  <2>2. /\ m_objects[r.handle.index] # nullptr
        /\ m_counters[r.handle.index] = r.handle.counter
    BY DEF GetObjectByHandle
  <2>3. PICK q \in issued : q.live /\ q.handle.index = r.handle.index
    BY <2>1, <2>2 DEF IInv, HandleInv, UsedSlotsAreLive
  <2>4. q.handle.counter = r.handle.counter
    BY <2>2, <2>3 DEF IInv, HandleInv, UsedSlotsAreLive
  <2>5. r.serial < q.serial /\ q.serial < reserves /\ q.serial \in Nat
    BY <2>3 DEF IInv, HandleInv, LiveIsYoungest, TableTypeOK
  <2>6. q.serial - r.serial < CounterLimit - 1
    BY <2>1, <2>5, HandleTableAssumption
  <2> QED BY <2>4, <2>5, <2>6 DEF IInv, HandleInv, RoundDistinct
<1> QED BY <1>1, Invariance, PTL

-----------------------------------------------------------------------------
(* BusyMutex. *)

Inv == TypeOK /\ TicketInv

-----------------------------------------------------------------------------
(* The arithmetic of the window. *)

\* A counter stays within its width.
LEMMA IncrementType ==
    ASSUME NEW n \in Counter
    PROVE  Increment(n) \in Counter
BY BusyMutexAssumption DEF Counter, Increment

\* Distances are natural numbers.
LEMMA AheadNat ==
    ASSUME NEW a \in Counter, NEW b \in Counter
    PROVE  Ahead(a, b) \in Nat
BY BusyMutexAssumption DEF Counter, Ahead

\* Distinct counters are at distinct distances.
LEMMA AheadInjective ==
    ASSUME NEW a \in Counter, NEW b \in Counter, NEW c \in Counter, Ahead(a, b) = Ahead(a, c)
    PROVE  b = c
BY BusyMutexAssumption DEF Counter, Ahead

\* Moving the front one on widens a window that is not full.
LEMMA AheadFront ==
    ASSUME NEW a \in Counter, NEW b \in Counter, Ahead(a, b) + 1 < CounterModulus
    PROVE  Ahead(a, Increment(b)) = Ahead(a, b) + 1
BY BusyMutexAssumption DEF Counter, Ahead, Increment

\* Moving the back one on brings every other counter one nearer.
LEMMA AheadBack ==
    ASSUME NEW a \in Counter, NEW b \in Counter, a # b
    PROVE  Ahead(Increment(a), b) = Ahead(a, b) - 1
BY BusyMutexAssumption DEF Counter, Ahead, Increment

\* A counter is at no distance from itself.
LEMMA AheadSelf ==
    ASSUME NEW a \in Counter
    PROVE  Ahead(a, a) = 0
BY BusyMutexAssumption DEF Counter, Ahead

-----------------------------------------------------------------------------
(* Busy threads are few. *)

\* There are finitely many busy threads.
LEMMA BusyFinite == IsFiniteSet(Busy)
BY BusyMutexAssumption, FS_Subset DEF Busy

\* A thread that is out leaves room for one more ticket.
LEMMA RoomForOne ==
    ASSUME NEW t \in Threads, pc[t] = "out"
    PROVE  /\ Cardinality(Busy \cup {t}) = Cardinality(Busy) + 1
           /\ Cardinality(Busy) + 1 < CounterModulus
           /\ Cardinality(Busy) \in Nat
<1>1. IsFiniteSet(Busy) /\ t \notin Busy
  BY BusyFinite DEF Busy
<1>2. Cardinality(Busy \cup {t}) = Cardinality(Busy) + 1
  BY <1>1, FS_AddElement
<1>3. Cardinality(Busy \cup {t}) <= Cardinality(Threads)
  BY BusyMutexAssumption, FS_Subset DEF Busy
<1>4. Cardinality(Busy) \in Nat /\ Cardinality(Threads) \in Nat
  BY <1>1, BusyMutexAssumption, FS_CardinalityType
<1> QED
  BY <1>2, <1>3, <1>4, BusyMutexAssumption

-----------------------------------------------------------------------------
\* The invariant holds of a fresh mutex, and each step of Enter and Leave keeps it.
LEMMA InitInv == Init => Inv
<1> SUFFICES ASSUME Init PROVE Inv
  OBVIOUS
<1>1. 0 \in Counter
  <2>1. Cardinality(Threads) \in Nat
    BY BusyMutexAssumption, FS_CardinalityType
  <2> QED
    BY <2>1, BusyMutexAssumption DEF Counter
<1>2. TypeOK
  BY <1>1 DEF Init, TypeOK
<1>3. Busy = {}
  BY DEF Init, Busy
<1>4. WindowCountsBusy
  BY <1>1, <1>3, AheadSelf, FS_EmptySet DEF Init, WindowCountsBusy
<1>5. TicketsDistinct /\ TicketsInWindow
  BY <1>3 DEF TicketsDistinct, TicketsInWindow
<1>6. HolderIsServed
  BY DEF Init, HolderIsServed
<1> QED
  BY <1>2, <1>4, <1>5, <1>6 DEF Inv, TicketInv

\* The FetchAdd draws a ticket that nobody has.
LEMMA EnterInv ==
    ASSUME Inv, NEW t \in Threads, Enter(t)
    PROVE  Inv'
<1> USE DEF Inv, TypeOK
<1>1. /\ pc[t] = "out" /\ m_release_count' = m_release_count
      /\ wait' = [wait EXCEPT ![t] = m_lock_count]
      /\ m_lock_count' = Increment(m_lock_count)
      /\ pc' \in [Threads -> {"out", "spin", "in"}] /\ pc'[t] \in {"in", "spin"}
      /\ pc'[t] = "in" => m_release_count = m_lock_count
      /\ \A u \in Threads \ {t} : pc'[u] = pc[u] /\ wait'[u] = wait[u]
      /\ wait'[t] = m_lock_count
  BY DEF Enter, EnterFree
<1>2. TypeOK'
  BY <1>1, IncrementType
<1>3. Busy' = Busy \cup {t} /\ t \notin Busy
  BY <1>1 DEF Busy
<1>4. Ahead(m_release_count, m_lock_count) + 1 < CounterModulus
  BY <1>1, RoomForOne DEF TicketInv, WindowCountsBusy
<1>5. Ahead(m_release_count, m_lock_count)' = Ahead(m_release_count, m_lock_count) + 1
  BY <1>1, <1>4, AheadFront
<1>6. Ahead(m_release_count, m_lock_count) \in Nat
  BY AheadNat
<1>7. WindowCountsBusy'
  BY <1>1, <1>3, <1>5, RoomForOne DEF TicketInv, WindowCountsBusy
<1>8. TicketsInWindow'
  <2> SUFFICES ASSUME NEW u \in Busy'
               PROVE  Ahead(m_release_count', wait'[u]) < Ahead(m_release_count', m_lock_count')
    BY DEF TicketsInWindow
  <2>1. CASE u = t
    BY <2>1, <1>1, <1>5, <1>6
  <2>2. CASE u # t
    <3>1. u \in Busy /\ wait'[u] = wait[u] /\ wait[u] \in Counter
      BY <2>2, <1>1, <1>3 DEF Busy
    <3>2. Ahead(m_release_count, wait[u]) < Ahead(m_release_count, m_lock_count)
      BY <3>1 DEF TicketInv, TicketsInWindow
    <3>3. Ahead(m_release_count, wait[u]) \in Nat
      BY <3>1, AheadNat
    <3> QED
      BY <3>1, <3>2, <3>3, <1>1, <1>5, <1>6
  <2> QED
    BY <2>1, <2>2
<1>9. TicketsDistinct'
  <2>1. \A u \in Busy : wait'[u] = wait[u] /\ wait[u] # m_lock_count
    <3> SUFFICES ASSUME NEW u \in Busy PROVE wait'[u] = wait[u] /\ wait[u] # m_lock_count
      OBVIOUS
    <3>1. u \in Threads \ {t}
      BY <1>3 DEF Busy
    <3>2. Ahead(m_release_count, wait[u]) < Ahead(m_release_count, m_lock_count)
      BY DEF TicketInv, TicketsInWindow
    <3> QED
      BY <3>1, <3>2, <1>1, <1>6
  <2> QED
    BY <2>1, <1>1, <1>3 DEF TicketInv, TicketsDistinct
<1>10. HolderIsServed'
  BY <1>1 DEF TicketInv, HolderIsServed
<1> QED
  BY <1>2, <1>7, <1>8, <1>9, <1>10 DEF TicketInv

\* The end of the spin makes a holder of the thread that is served.
LEMMA SpinInv ==
    ASSUME Inv, NEW t \in Threads, Spin(t)
    PROVE  Inv'
<1>1. TypeOK'
  BY DEF Inv, TypeOK, Spin
<1>2. Busy' = Busy
  BY DEF Inv, TypeOK, Spin, Busy
<1>3. HolderIsServed'
  BY DEF Inv, TypeOK, TicketInv, HolderIsServed, Spin, SpinEnds
<1>4. (TicketsDistinct /\ TicketsInWindow /\ WindowCountsBusy)'
  BY <1>2 DEF Inv, TicketInv, TicketsDistinct, TicketsInWindow, WindowCountsBusy, Spin, Ahead
<1> QED
  BY <1>1, <1>3, <1>4 DEF Inv, TicketInv

\* Leave takes the holder's ticket, and only that, out of the window.
LEMMA LeaveInv ==
    ASSUME Inv, NEW t \in Threads, Leave(t)
    PROVE  Inv'
<1> USE DEF Inv, TypeOK
<1>1. /\ pc[t] = "in" /\ wait' = wait /\ m_lock_count' = m_lock_count
      /\ m_release_count' = Increment(m_release_count)
      /\ pc' = [pc EXCEPT ![t] = "out"]
  BY DEF Leave
<1>2. TypeOK'
  BY <1>1, IncrementType
<1>3. t \in Busy /\ Busy' = Busy \ {t}
  BY <1>1 DEF Busy
<1>4. wait[t] = m_release_count
  BY <1>1 DEF TicketInv, HolderIsServed
<1>5. \A u \in Busy \ {t} : wait[u] # m_release_count /\ wait[u] \in Counter
  BY <1>3, <1>4 DEF TicketInv, TicketsDistinct, Busy
<1>6. \A u \in Busy \ {t} :
          Ahead(m_release_count', wait[u]) = Ahead(m_release_count, wait[u]) - 1
  BY <1>1, <1>5, AheadBack
<1>7. m_release_count # m_lock_count
  <2>1. Ahead(m_release_count, wait[t]) < Ahead(m_release_count, m_lock_count)
    BY <1>3 DEF TicketInv, TicketsInWindow
  <2> QED
    BY <2>1, <1>4, AheadSelf
<1>8. Ahead(m_release_count', m_lock_count') = Ahead(m_release_count, m_lock_count) - 1
  BY <1>1, <1>7, AheadBack
<1>9. WindowCountsBusy'
  <2>1. Cardinality(Busy \ {t}) = Cardinality(Busy) - 1
    BY <1>3, BusyFinite, FS_RemoveElement
  <2> QED
    BY <2>1, <1>3, <1>8 DEF TicketInv, WindowCountsBusy
<1>10. TicketsInWindow'
  <2> SUFFICES ASSUME NEW u \in Busy \ {t}
               PROVE  Ahead(m_release_count', wait[u]) < Ahead(m_release_count', m_lock_count')
    BY <1>1, <1>3 DEF TicketsInWindow
  <2>1. Ahead(m_release_count, wait[u]) < Ahead(m_release_count, m_lock_count)
    BY DEF TicketInv, TicketsInWindow
  <2>2. Ahead(m_release_count, wait[u]) \in Int /\ Ahead(m_release_count, m_lock_count) \in Int
    BY <1>5, AheadNat
  <2> QED
    BY <2>1, <2>2, <1>6, <1>8
<1>11. TicketsDistinct'
  BY <1>1, <1>3 DEF TicketInv, TicketsDistinct
<1>12. HolderIsServed'
  <2>1. \A u \in Threads : pc'[u] = "in" => u \in Busy \ {t} /\ wait[u] = m_release_count
    BY <1>1 DEF TicketInv, HolderIsServed, Busy
  <2> QED
    BY <2>1, <1>5 DEF HolderIsServed
<1> QED
  BY <1>2, <1>9, <1>10, <1>11, <1>12 DEF TicketInv

-----------------------------------------------------------------------------
\* The window invariant holds whatever the threads do.
THEOREM TicketInvariance == Spec => []Inv
<1>1. Inv /\ [Next]_vars => Inv'
  <2> SUFFICES ASSUME Inv, [Next]_vars PROVE Inv'
    OBVIOUS
  <2>1. CASE \E t \in Threads : Enter(t)
    BY <2>1, EnterInv
  <2>2. CASE \E t \in Threads : Spin(t)
    BY <2>2, SpinInv
  <2>3. CASE \E t \in Threads : Leave(t)
    BY <2>3, LeaveInv
  <2>4. CASE UNCHANGED vars
    BY <2>4 DEF vars, Inv, TypeOK, TicketInv, TicketsDistinct, TicketsInWindow,
                WindowCountsBusy, HolderIsServed, Busy, Ahead
  <2> QED
    BY <2>1, <2>2, <2>3, <2>4 DEF Next
<1> QED
  BY InitInv, <1>1, PTL DEF Spec

\* The counters never leave their width.
THEOREM TicketTypes == Spec => []TypeOK
BY TicketInvariance, PTL DEF Inv

\* The tickets in use are exactly those between the two counters.
THEOREM TicketWindow == Spec => []TicketInv
BY TicketInvariance, PTL DEF Inv

\* Enter excludes: two threads that are in have the ticket being served, and
\* tickets are distinct.
THEOREM Exclusion == Spec => []MutualExclusion
<1>1. Inv => MutualExclusion
  BY DEF Inv, TicketInv, HolderIsServed, TicketsDistinct, MutualExclusion, Busy
<1> QED
  BY TicketInvariance, <1>1, PTL

-----------------------------------------------------------------------------
(* The refinement: the threads, in the order of their tickets, are served in *)
(* the order in which they asked.                                            *)

\* The place of busy thread t in the queue, from 1.
Place(t) == Ahead(m_release_count, wait[t]) + 1

\* q lists the busy threads by their places.
InOrder(q) ==
    /\ q \in Seq(Threads) /\ Len(q) = Cardinality(Busy)
    /\ \A i \in DOMAIN q : q[i] \in Busy /\ Place(q[i]) = i
    /\ \A t \in Busy : Place(t) \in DOMAIN q /\ q[Place(t)] = t

\* As many distinct places as there are busy threads leave none free.
LEMMA EveryPlaceIsTaken ==
    ASSUME Inv
    PROVE  /\ \A t \in Busy : Place(t) \in 1 .. Cardinality(Busy)
           /\ \A i \in 1 .. Cardinality(Busy) : \E t \in Busy : Place(t) = i
<1> DEFINE D == Cardinality(Busy)
           f == [t \in Busy |-> Place(t)]
<1>1. D \in Nat /\ IsFiniteSet(Busy)
  BY BusyFinite, FS_CardinalityType
<1>2. \A t \in Busy : wait[t] \in Counter /\ Place(t) \in 1 .. D
  <2> SUFFICES ASSUME NEW t \in Busy PROVE wait[t] \in Counter /\ Place(t) \in 1 .. D
    OBVIOUS
  <2>1. wait[t] \in Counter /\ m_release_count \in Counter
    BY DEF Inv, TypeOK, Busy
  <2>2. Ahead(m_release_count, wait[t]) \in Nat
    BY <2>1, AheadNat
  <2>3. Ahead(m_release_count, wait[t]) < D
    BY DEF Inv, TicketInv, TicketsInWindow, WindowCountsBusy
  <2> QED
    BY <1>1, <2>1, <2>2, <2>3 DEF Place
<1>3. \A t, u \in Busy : Place(t) = Place(u) => t = u
  <2> SUFFICES ASSUME NEW t \in Busy, NEW u \in Busy, Place(t) = Place(u) PROVE t = u
    OBVIOUS
  <2>1. m_release_count \in Counter
    BY DEF Inv, TypeOK
  <2>2. /\ Ahead(m_release_count, wait[t]) \in Nat
        /\ Ahead(m_release_count, wait[u]) \in Nat
    BY <1>2, <2>1, AheadNat
  <2>3. Ahead(m_release_count, wait[t]) = Ahead(m_release_count, wait[u])
    BY <2>2 DEF Place
  <2>4. wait[t] = wait[u]
    BY <1>2, <2>1, <2>3, AheadInjective
  <2> QED
    BY <2>4 DEF Inv, TicketInv, TicketsDistinct
<1>4. f \in Injection(Busy, 1 .. D)
  BY <1>2, <1>3 DEF Injection, IsInjective
<1>5. IsFiniteSet(1 .. D) /\ Cardinality(1 .. D) = D
  BY <1>1, FS_Interval
<1>6. f \in Surjection(Busy, 1 .. D)
  BY <1>4, <1>5, FS_Injection
<1> HIDE DEF D
<1>7. \A i \in 1 .. D : \E t \in Busy : Place(t) = i
  BY <1>6 DEF Surjection
<1> QED
  BY <1>2, <1>7 DEF D

\* The queue of the mapping lists the busy threads, and is the only one that does.
LEMMA QueueInOrder == Inv => InOrder(TicketQueue)
<1> SUFFICES ASSUME Inv PROVE InOrder(TicketQueue)
  OBVIOUS
<1>1. Cardinality(Busy) \in Nat
  BY BusyFinite, FS_CardinalityType
<1>2. \A t \in Busy : wait[t] \in Counter /\ m_release_count \in Counter
  BY DEF Inv, TypeOK, Busy
<1>3. \A t \in Busy : \A i \in Nat :
          Ahead(m_release_count, wait[t]) = i - 1 <=> Place(t) = i
  BY <1>2, AheadNat DEF Place
<1>4. \A i \in 1 .. Cardinality(Busy) :
          TicketQueue[i] \in Busy /\ Place(TicketQueue[i]) = i
  <2> SUFFICES ASSUME NEW i \in 1 .. Cardinality(Busy)
               PROVE  TicketQueue[i] \in Busy /\ Place(TicketQueue[i]) = i
    OBVIOUS
  <2>1. TicketQueue[i] = CHOOSE t \in Busy : Ahead(m_release_count, wait[t]) = i - 1
    BY DEF TicketQueue
  <2>2. \E t \in Busy : Ahead(m_release_count, wait[t]) = i - 1
    BY <1>1, <1>3, EveryPlaceIsTaken
  <2> QED
    BY <1>1, <1>3, <2>1, <2>2
<1>5. \A t, u \in Busy : Place(t) = Place(u) => t = u
  <2>1. \A t, u \in Busy : Place(t) = Place(u)
            => Ahead(m_release_count, wait[t]) = Ahead(m_release_count, wait[u])
    BY <1>2, AheadNat DEF Place
  <2> QED
    BY <1>2, <2>1, AheadInjective DEF Inv, TicketInv, TicketsDistinct
<1>6. /\ TicketQueue \in Seq(Threads) /\ Len(TicketQueue) = Cardinality(Busy)
      /\ DOMAIN TicketQueue = 1 .. Cardinality(Busy)
  <2> DEFINE D == Cardinality(Busy)
  <2>1. TicketQueue \in [1 .. D -> Threads]
    BY <1>4 DEF TicketQueue, Busy
  <2> HIDE DEF D
  <2>2. D \in Nat
    BY <1>1 DEF D
  <2> QED
    BY <2>1, <2>2 DEF D
<1> QED
  BY <1>4, <1>5, <1>6, EveryPlaceIsTaken DEF InOrder

LEMMA QueueIsUnique ==
    ASSUME Inv, NEW q, InOrder(q)
    PROVE  TicketQueue = q
<1>1. InOrder(TicketQueue)
  BY QueueInOrder
<1>2. DOMAIN TicketQueue = DOMAIN q
  BY <1>1 DEF InOrder
<1>3. \A i \in DOMAIN q : TicketQueue[i] = q[i]
  BY <1>1, <1>2 DEF InOrder
<1> QED
  BY <1>1, <1>2, <1>3 DEF InOrder

\* The thread that is in is the holder, and is served first.
LEMMA HolderIs ==
    ASSUME Inv
    PROVE  /\ \A t \in Threads : pc[t] = "in" => Holder = t
           /\ (\A t \in Threads : pc[t] # "in") => Holder = NoThread
           /\ Holder = NoThread => \A t \in Threads : pc[t] # "in"
           /\ \A t \in Busy : wait[t] = m_release_count <=> Place(t) = 1
<1>1. \A t, u \in Threads : pc[t] = "in" /\ pc[u] = "in" => t = u
  BY DEF Inv, TicketInv, HolderIsServed, TicketsDistinct, Busy
<1>2. \A t \in Threads : pc[t] = "in" => Holder = t
  BY <1>1 DEF Holder
<1>3. \A t \in Busy : wait[t] = m_release_count <=> Place(t) = 1
  <2> SUFFICES ASSUME NEW t \in Busy PROVE wait[t] = m_release_count <=> Place(t) = 1
    OBVIOUS
  <2>1. wait[t] \in Counter /\ m_release_count \in Counter
    BY DEF Inv, TypeOK, Busy
  <2>2. Ahead(m_release_count, m_release_count) = 0
    BY <2>1, AheadSelf
  <2>3. Ahead(m_release_count, wait[t]) \in Nat
    BY <2>1, AheadNat
  <2>4. Ahead(m_release_count, wait[t]) = 0 => wait[t] = m_release_count
    BY <2>1, <2>2, AheadInjective
  <2> QED
    BY <2>2, <2>3, <2>4 DEF Place
<1> QED
  BY <1>2, <1>3, BusyMutexAssumption DEF Holder

LEMMA NextQueueInOrder == Inv' => InOrder(TicketQueue)'
BY QueueInOrder, PTL

LEMMA NextHolderIs ==
    ASSUME Inv'
    PROVE  /\ \A t \in Threads : pc'[t] = "in" => Holder' = t
           /\ (\A t \in Threads : pc'[t] # "in") => Holder' = NoThread
<1>1. \A t, u \in Threads : pc'[t] = "in" /\ pc'[u] = "in" => t = u
  BY DEF Inv, TicketInv, HolderIsServed, TicketsDistinct, Busy
<1> QED
  BY <1>1 DEF Holder

\* A fresh mutex maps to a lock that nobody asked for.
LEMMA InitRefines == Init => FairLock!Init
<1> SUFFICES ASSUME Init PROVE FairLock!Init
  OBVIOUS
<1>1. Inv
  BY InitInv
<1>2. Busy = {}
  BY DEF Init, Busy
<1>3. Len(TicketQueue) = 0 /\ TicketQueue \in Seq(Threads)
  BY <1>1, <1>2, QueueInOrder, FS_EmptySet DEF InOrder
<1>4. Holder = NoThread
  BY <1>1, HolderIs DEF Init
<1> QED
  BY <1>3, <1>4 DEF FairLock!Init

\* A queue in order is unique also in the next state.
LEMMA NextQueueIsUnique ==
    ASSUME Inv', NEW q, InOrder(q)'
    PROVE  TicketQueue' = q
<1>1. InOrder(TicketQueue)'
  BY NextQueueInOrder
<1> QED
  BY <1>1 DEF InOrder

\* The FetchAdd puts the thread behind those that asked before it.
LEMMA EnterRefines ==
    ASSUME Inv, Inv', NEW t \in Threads, Enter(t)
    PROVE  FairLock!Request(t)
<1>1. /\ pc[t] = "out" /\ pc \in [Threads -> {"out", "spin", "in"}]
      /\ m_release_count' = m_release_count /\ wait'[t] = m_lock_count
      /\ m_release_count \in Counter /\ m_lock_count \in Counter
      /\ \A u \in Threads \ {t} : pc'[u] = pc[u] /\ wait'[u] = wait[u]
      /\ pc'[t] = IF m_release_count = m_lock_count THEN "in" ELSE "spin"
  BY DEF Enter, EnterFree, Inv, TypeOK
<1>2. Busy' = Busy \cup {t} /\ t \notin Busy
  BY <1>1 DEF Busy
<1>3. Cardinality(Busy') = Cardinality(Busy) + 1 /\ Cardinality(Busy) \in Nat
  BY <1>1, <1>2, RoomForOne
<1>4. InOrder(TicketQueue)
  BY QueueInOrder
<1>5. \A u \in Busy : Ahead(m_release_count, wait[u])' = Ahead(m_release_count, wait[u])
  BY <1>1, <1>2 DEF Busy, Ahead
<1>6. Ahead(m_release_count, m_lock_count) = Cardinality(Busy)
  BY DEF Inv, TicketInv, WindowCountsBusy
<1>7. Ahead(m_release_count, wait[t])' = Cardinality(Busy)
  BY <1>1, <1>6 DEF Ahead
<1>8. PICK q : q = Append(TicketQueue, t)
  OBVIOUS
<1>9. /\ q \in Seq(Threads) /\ Len(q) = Cardinality(Busy) + 1
      /\ DOMAIN q = 1 .. Cardinality(Busy) + 1
      /\ q[Cardinality(Busy) + 1] = t
      /\ \A i \in 1 .. Cardinality(Busy) : q[i] = TicketQueue[i]
      /\ DOMAIN TicketQueue = 1 .. Cardinality(Busy)
  BY <1>3, <1>4, <1>8 DEF InOrder
<1>10. InOrder(q)'
  <2>1. \A i \in DOMAIN q : q[i] \in Busy' /\ Ahead(m_release_count, wait[q[i]])' + 1 = i
    <3> SUFFICES ASSUME NEW i \in DOMAIN q
                 PROVE  q[i] \in Busy' /\ Ahead(m_release_count, wait[q[i]])' + 1 = i
      OBVIOUS
    <3>1. CASE i = Cardinality(Busy) + 1
      BY <3>1, <1>2, <1>7, <1>9
    <3>2. CASE i \in 1 .. Cardinality(Busy)
      <4>1. q[i] \in Busy /\ Ahead(m_release_count, wait[q[i]]) + 1 = i
        BY <3>2, <1>4, <1>9 DEF InOrder, Place
      <4> QED
        BY <4>1, <1>2, <1>5
    <3> QED
      BY <3>1, <3>2, <1>3, <1>9
  <2>2. \A u \in Busy' : /\ Ahead(m_release_count, wait[u])' + 1 \in DOMAIN q
                         /\ q[Ahead(m_release_count, wait[u])' + 1] = u
    <3> SUFFICES ASSUME NEW u \in Busy'
                 PROVE  /\ Ahead(m_release_count, wait[u])' + 1 \in DOMAIN q
                        /\ q[Ahead(m_release_count, wait[u])' + 1] = u
      OBVIOUS
    <3>1. CASE u = t
      BY <3>1, <1>3, <1>7, <1>9
    <3>2. CASE u \in Busy
      <4>1. Place(u) \in 1 .. Cardinality(Busy) /\ TicketQueue[Place(u)] = u
        BY <3>2, <1>4, <1>9 DEF InOrder
      <4> QED
        BY <3>2, <4>1, <1>3, <1>5, <1>9 DEF Place
    <3> QED
      BY <3>1, <3>2, <1>2
  <2> QED
    BY <2>1, <2>2, <1>3, <1>9 DEF InOrder, Place
<1>11. TicketQueue' = Append(TicketQueue, t)
  BY <1>8, <1>10, NextQueueIsUnique
<1>12. \A i \in DOMAIN TicketQueue : TicketQueue[i] # t
  BY <1>2, <1>4 DEF InOrder
<1>13. TicketQueue = <<>> <=> m_release_count = m_lock_count
  <2>1. Cardinality(Busy) = 0 <=> m_release_count = m_lock_count
    BY <1>1, <1>6, AheadSelf, AheadInjective
  <2> QED
    BY <2>1, <1>4 DEF InOrder
<1>14. Holder' = IF TicketQueue = <<>> THEN t ELSE Holder
  <2>1. CASE m_release_count = m_lock_count
    <3>1. pc'[t] = "in"
      BY <2>1, <1>1
    <3>2. Holder' = t
      BY <3>1, NextHolderIs
    <3> QED
      BY <3>2, <2>1, <1>13
  <2>2. CASE m_release_count # m_lock_count
    <3>1. \A u \in Threads : pc'[u] = "in" <=> pc[u] = "in"
      BY <2>2, <1>1
    <3>2. CASE \E u \in Threads : pc[u] = "in"
      <4>1. PICK u \in Threads : pc[u] = "in"
        BY <3>2
      <4>2. Holder = u /\ Holder' = u
        BY <4>1, <3>1, HolderIs, NextHolderIs
      <4> QED
        BY <4>2, <2>2, <1>13
    <3>3. CASE \A u \in Threads : pc[u] # "in"
      BY <3>3, <3>1, <2>2, <1>13, HolderIs, NextHolderIs
    <3> QED
      BY <3>2, <3>3
  <2> QED
    BY <2>1, <2>2
<1> QED
  BY <1>11, <1>12, <1>14 DEF FairLock!Request

\* The thread whose spin ends is the one that asked first.
LEMMA SpinRefines ==
    ASSUME Inv, Inv', NEW t \in Threads, Spin(t)
    PROVE  FairLock!Grant
<1>1. /\ pc[t] = "spin" /\ wait[t] = m_release_count
      /\ pc \in [Threads -> {"out", "spin", "in"}]
      /\ pc' = [pc EXCEPT ![t] = "in"]
      /\ wait' = wait /\ m_release_count' = m_release_count
  BY DEF Spin, SpinEnds, Inv, TypeOK
<1>2. t \in Busy /\ Busy' = Busy
  BY <1>1 DEF Busy
<1>3. InOrder(TicketQueue)
  BY QueueInOrder
<1>4. Place(t) = 1
  BY <1>1, <1>2, HolderIs
<1>5. TicketQueue # <<>> /\ Head(TicketQueue) = t
  BY <1>2, <1>3, <1>4 DEF InOrder
<1>6. \A u \in Threads : pc[u] # "in"
  <2> SUFFICES ASSUME NEW u \in Threads, pc[u] = "in" PROVE FALSE
    OBVIOUS
  <2>1. u \in Busy /\ wait[u] = wait[t]
    BY <1>1 DEF Inv, TicketInv, HolderIsServed, Busy
  <2>2. u = t
    BY <1>2, <2>1 DEF Inv, TicketInv, TicketsDistinct
  <2> QED
    BY <1>1, <2>2
<1>7. Holder = NoThread
  BY <1>6, HolderIs
<1>8. Holder' = t
  BY <1>1, NextHolderIs
<1>9. TicketQueue' = TicketQueue
  BY <1>1, <1>2 DEF TicketQueue, Ahead
<1> QED
  BY <1>5, <1>7, <1>8, <1>9 DEF FairLock!Grant

\* Leave takes out the first thread and brings the others one place forward.
LEMMA LeaveRefines ==
    ASSUME Inv, Inv', NEW t \in Threads, Leave(t)
    PROVE  FairLock!Release
<1>1. /\ pc[t] = "in" /\ wait' = wait
      /\ m_release_count' = Increment(m_release_count)
      /\ pc \in [Threads -> {"out", "spin", "in"}]
      /\ pc' = [pc EXCEPT ![t] = "out"]
      /\ m_release_count \in Counter /\ wait \in [Threads -> Counter]
  BY DEF Leave, Inv, TypeOK
<1>2. t \in Busy /\ Busy' = Busy \ {t}
  BY <1>1 DEF Busy
<1>3. wait[t] = m_release_count /\ Place(t) = 1
  BY <1>1, <1>2, HolderIs DEF Inv, TicketInv, HolderIsServed
<1>4. InOrder(TicketQueue)
  BY QueueInOrder
<1>5. /\ Cardinality(Busy') = Cardinality(Busy) - 1
      /\ Cardinality(Busy) \in Nat /\ Cardinality(Busy) >= 1
  <2>1. Cardinality(Busy) \in Nat /\ IsFiniteSet(Busy)
    BY BusyFinite, FS_CardinalityType
  <2>2. Place(t) \in 1 .. Cardinality(Busy)
    BY <1>2, <1>4, <2>1 DEF InOrder
  <2> QED
    BY <1>2, <2>1, <2>2, FS_RemoveElement
<1>6. \A u \in Busy' :
          /\ Ahead(m_release_count, wait[u]) \in Nat
          /\ Ahead(m_release_count, wait[u])' = Ahead(m_release_count, wait[u]) - 1
  <2> SUFFICES ASSUME NEW u \in Busy'
               PROVE  /\ Ahead(m_release_count, wait[u]) \in Nat
                      /\ Ahead(m_release_count, wait[u])' = Ahead(m_release_count, wait[u]) - 1
    OBVIOUS
  <2>1. u \in Busy /\ wait[u] \in Counter /\ wait[u] # m_release_count
    BY <1>1, <1>2, <1>3 DEF Inv, TicketInv, TicketsDistinct, Busy
  <2>2. Ahead(m_release_count', wait[u]) = Ahead(m_release_count, wait[u]) - 1
    BY <1>1, <2>1, AheadBack
  <2> QED
    BY <1>1, <2>1, <2>2, AheadNat DEF Ahead
<1>7. PICK q : q = Tail(TicketQueue)
  OBVIOUS
<1>8. /\ q \in Seq(Threads) /\ Len(q) = Cardinality(Busy) - 1
      /\ DOMAIN q = 1 .. Cardinality(Busy) - 1
      /\ DOMAIN TicketQueue = 1 .. Cardinality(Busy)
      /\ \A i \in 1 .. Cardinality(Busy) - 1 : q[i] = TicketQueue[i + 1]
  BY <1>4, <1>5, <1>7 DEF InOrder
<1>9. InOrder(q)'
  <2>1. \A i \in DOMAIN q : q[i] \in Busy' /\ Ahead(m_release_count, wait[q[i]])' + 1 = i
    <3> SUFFICES ASSUME NEW i \in DOMAIN q
                 PROVE  q[i] \in Busy' /\ Ahead(m_release_count, wait[q[i]])' + 1 = i
      OBVIOUS
    <3>1. i \in Nat /\ i >= 1 /\ i + 1 \in DOMAIN TicketQueue /\ q[i] = TicketQueue[i + 1]
      BY <1>5, <1>8
    <3>2. q[i] \in Busy /\ Place(q[i]) = i + 1
      BY <1>4, <3>1 DEF InOrder
    <3>3. q[i] \in Busy'
      BY <3>1, <3>2, <1>2, <1>3
    <3> QED
      BY <3>1, <3>2, <3>3, <1>6 DEF Place
  <2>2. \A u \in Busy' : /\ Ahead(m_release_count, wait[u])' + 1 \in DOMAIN q
                         /\ q[Ahead(m_release_count, wait[u])' + 1] = u
    <3> SUFFICES ASSUME NEW u \in Busy'
                 PROVE  /\ Ahead(m_release_count, wait[u])' + 1 \in DOMAIN q
                        /\ q[Ahead(m_release_count, wait[u])' + 1] = u
      OBVIOUS
    <3>1. u \in Busy /\ u # t
      BY <1>2
    <3>2. Place(u) \in 1 .. Cardinality(Busy) /\ TicketQueue[Place(u)] = u
      BY <3>1, <1>4, <1>8 DEF InOrder
    <3>3. Place(u) # 1
      <4>1. TicketQueue[1] = t
        BY <1>2, <1>3, <1>4 DEF InOrder
      <4> QED
        BY <3>1, <3>2, <4>1
    <3>4. Ahead(m_release_count, wait[u])' + 1 = Place(u) - 1
      BY <1>6 DEF Place
    <3> QED
      BY <3>2, <3>3, <3>4, <1>5, <1>8
  <2> QED
    BY <2>1, <2>2, <1>5, <1>8 DEF InOrder, Place
<1>10. TicketQueue' = Tail(TicketQueue)
  BY <1>7, <1>9, NextQueueIsUnique
<1>11. Holder # NoThread
  BY <1>1, HolderIs, BusyMutexAssumption
<1>12. Holder' = NoThread
  <2>1. \A u \in Threads : pc'[u] # "in"
    BY <1>1 DEF Inv, TicketInv, HolderIsServed, TicketsDistinct, Busy
  <2> QED
    BY <2>1, NextHolderIs
<1> QED
  BY <1>10, <1>11, <1>12 DEF FairLock!Release

\* Whatever the threads do, BusyMutex takes only steps that a fair lock takes:
\* Enter asks, the end of a spin is the grant to the thread that asked first,
\* and Leave releases.
THEOREM ServesInOrder == Spec => FairLock!Init /\ [][FairLock!Next]_FairLock!vars
<1>1. Inv /\ Inv' /\ [Next]_vars => [FairLock!Next]_FairLock!vars
  <2> SUFFICES ASSUME Inv, Inv', [Next]_vars PROVE [FairLock!Next]_FairLock!vars
    OBVIOUS
  <2>1. CASE \E t \in Threads : Enter(t)
    BY <2>1, EnterRefines DEF FairLock!Next
  <2>2. CASE \E t \in Threads : Spin(t)
    BY <2>2, SpinRefines DEF FairLock!Next
  <2>3. CASE \E t \in Threads : Leave(t)
    BY <2>3, LeaveRefines DEF FairLock!Next
  <2>4. CASE UNCHANGED vars
    BY <2>4 DEF vars, FairLock!vars, TicketQueue, Holder, Busy, Ahead
  <2> QED
    BY <2>1, <2>2, <2>3, <2>4 DEF Next
<1> QED
  BY InitRefines, TicketInvariance, <1>1, PTL DEF Spec
=============================================================================
