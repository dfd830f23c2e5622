---------------------------- MODULE HandleTable ----------------------------
(***************************************************************************)
(* awn::ukern::HandleTable: the table that turns a fiber's storage into a  *)
(* 32-bit handle and back.                                                 *)
(*                                                                         *)
(* One array, m_counters, has two meanings.  For a used slot it holds the  *)
(* counter half of the handle that was given out; for a free slot it holds *)
(* the index of the next free slot, so that the free slots form a stack    *)
(* whose top is m_indice_iter.  A handle is                                *)
(*     (index & 0x7fff) | (counter << CounterBitOffset)                    *)
(* and is modelled by the pair of its two halves.                          *)
(*                                                                         *)
(* Every method holds m_table_mutex (a BusyMutex, see module BusyMutex)    *)
(* from its first to its last line, so each is one step.                   *)
(***************************************************************************)
EXTENDS Integers

CONSTANTS
    MaxHandles,   \* slots of the table (256 in the code)
    CounterLimit, \* first value of m_counter_value + 1 that is negative as an
                  \* s16 (0x8000 in the code): counters run over 1..CounterLimit-1
    Objects,      \* the objects that can be registered
    nullptr,      \* not an object
    MaxReserves   \* bound of the model: number of successful ReserveHandle calls

ASSUME HandleTableAssumption ==
    /\ MaxHandles \in Nat \ {0}
    /\ CounterLimit \in Nat /\ CounterLimit > 1
    /\ nullptr \notin Objects
    /\ MaxReserves \in Nat

VARIABLES
    m_counters,
    m_objects,
    m_indice_iter,
    m_active_handles,
    m_counter_value,
    reserves,   \* ghost: number of successful ReserveHandle calls so far
    issued      \* ghost: one record per handle ever given out

tableVars == <<m_counters, m_objects, m_indice_iter, m_active_handles, m_counter_value>>
handleVars == <<m_counters, m_objects, m_indice_iter, m_active_handles, m_counter_value,
          reserves, issued>>

Slots    == 0 .. MaxHandles - 1
Counters == 1 .. CounterLimit - 1
Handle   == [index : Slots, counter : Counters]

-----------------------------------------------------------------------------
(* What the three methods compute. *)

\* Mutants: the wrap forgotten; the counter stuck at its last value.
NextCounter_NoWrap(c) == c + 1
NextCounter_Stuck(c) == IF c + 1 < CounterLimit THEN c + 1 ELSE c

\* The counter after c: the increment, back to 1 where the s16 turns negative.
NextCounter(c) == IF c + 1 < CounterLimit THEN c + 1 ELSE 1

\* GetObjectByHandle, for a handle whose index is inside the table.
GetObjectByHandle(h) ==
    IF h.counter = m_counters[h.index] THEN m_objects[h.index] ELSE nullptr

\* Mutant: the counter half of the handle is not compared.
IsFreeable_AnyCounter(h) == m_objects[h.index] # nullptr

\* The guard of FreeHandle's successful path.
IsFreeable(h) ==
    /\ m_objects[h.index] # nullptr
    /\ h.counter = m_counters[h.index]

-----------------------------------------------------------------------------
\* Initialize: slot i links to slot i - 1 and the last slot is on top.
Initialize ==
    /\ m_active_handles = 0
    /\ m_counter_value = 1
    /\ m_objects = [i \in Slots |-> nullptr]
    /\ m_counters = [i \in Slots |-> i - 1]
    /\ m_indice_iter = MaxHandles - 1

TableInit ==
    /\ Initialize
    /\ reserves = 0
    /\ issued = {}

\* ReserveHandle(out_handle, object): pop the free stack, stamp the slot with
\* the running counter.  A full table returns false and changes nothing.
ReserveHandle(object) ==
    /\ m_active_handles < MaxHandles
    /\ LET h == [index |-> m_indice_iter, counter |-> m_counter_value]
       IN  /\ m_indice_iter' = m_counters[h.index]
           /\ m_counters' = [m_counters EXCEPT ![h.index] = h.counter]
           /\ m_objects' = [m_objects EXCEPT ![h.index] = object]
           /\ m_active_handles' = m_active_handles + 1
           /\ m_counter_value' = NextCounter(m_counter_value)
           /\ reserves' = reserves + 1
           /\ issued' = issued \cup
                {[handle |-> h, object |-> object, serial |-> reserves, live |-> TRUE]}

\* Mutant: the freed slot is not chained to the old top of the stack.
FreeHandle_NoLink(h) ==
    /\ IsFreeable(h)
    /\ m_objects' = [m_objects EXCEPT ![h.index] = nullptr]
    /\ m_indice_iter' = h.index
    /\ m_active_handles' = m_active_handles - 1
    /\ issued' = {IF r.handle = h THEN [r EXCEPT !.live = FALSE] ELSE r : r \in issued}
    /\ UNCHANGED <<m_counters, m_counter_value, reserves>>

\* FreeHandle(handle) with a handle that was given out, live or stale.  The
\* caller that frees with the live one retires it.
FreeHandle(h) ==
    /\ IsFreeable(h)
    /\ m_objects' = [m_objects EXCEPT ![h.index] = nullptr]
    /\ m_counters' = [m_counters EXCEPT ![h.index] = m_indice_iter]
    /\ m_indice_iter' = h.index
    /\ m_active_handles' = m_active_handles - 1
    /\ issued' = {IF r.handle = h THEN [r EXCEPT !.live = FALSE] ELSE r : r \in issued}
    /\ UNCHANGED <<m_counter_value, reserves>>

TableNext ==
    \/ \E object \in Objects : reserves < MaxReserves /\ ReserveHandle(object)
    \/ \E r \in issued : FreeHandle(r.handle)

TableSpec == TableInit /\ [][TableNext]_handleVars
-----------------------------------------------------------------------------
(* Properties. *)

TableTypeOK ==
    /\ m_counters \in [Slots -> -1 .. (MaxHandles + CounterLimit)]
    /\ m_objects \in [Slots -> Objects \cup {nullptr}]
    /\ m_indice_iter \in Slots \cup {-1}
    /\ m_active_handles \in 0 .. MaxHandles
    /\ m_counter_value \in Counters
    /\ reserves \in Nat
    /\ \A r \in issued : /\ r \in [handle : Handle, object : Objects, serial : Nat, live : BOOLEAN]
                         /\ r.serial < reserves

FreeSlots == {i \in Slots : m_objects[i] = nullptr}

\* The free slots, and only they, are threaded through m_counters as a stack
\* that ends in -1: stack[1] is its bottom, m_indice_iter its top, and it is as
\* high as m_active_handles says there are slots left.  Without it ReserveHandle
\* would hand out a slot in use or lose one for good.
IsFreeStack(stack, height) ==
    /\ stack \in [1 .. height -> FreeSlots]
    /\ \A i, j \in 1 .. height : stack[i] = stack[j] => i = j
    /\ \A s \in FreeSlots : \E i \in 1 .. height : stack[i] = s
    /\ m_indice_iter = IF height = 0 THEN -1 ELSE stack[height]
    /\ \A i \in 1 .. height :
          m_counters[stack[i]] = IF i = 1 THEN -1 ELSE stack[i - 1]

FreeListWellFormed ==
    \E stack \in [1 .. (MaxHandles - m_active_handles) -> Slots] :
        IsFreeStack(stack, MaxHandles - m_active_handles)

\* From ReserveHandle until FreeHandle a handle resolves, through
\* GetObjectByHandle, to the very object it was reserved for.
LiveHandleResolves ==
    \A r \in issued : r.live => GetObjectByHandle(r.handle) = r.object

\* A freed handle resolves to nothing, however its slot has been reused since,
\* until CounterLimit - 1 handles have been given out after it (that is when
\* the counter comes round and the same 32 bits may be issued again).
StaleHandleRejected ==
    \A r \in issued :
        ~r.live /\ reserves - r.serial <= CounterLimit - 1
            => GetObjectByHandle(r.handle) = nullptr

-----------------------------------------------------------------------------
(* What FreeListWellFormed, LiveHandleResolves and StaleHandleRejected rest    *)
(* on: together with them the parts below are preserved by every step.         *)

\* Handles are numbered in the order they were given out.
SerialsUnique == \A r, q \in issued : r.serial = q.serial => r = q

\* A slot is in use exactly when one live handle stands for it.
UsedSlotsAreLive ==
    /\ \A r \in issued : r.live =>
          /\ m_objects[r.handle.index] = r.object
          /\ m_counters[r.handle.index] = r.handle.counter
    /\ \A i \in Slots : m_objects[i] # nullptr =>
          \E r \in issued : r.live /\ r.handle.index = i
    /\ \A r, q \in issued : r.live /\ q.live /\ r.handle.index = q.handle.index => r = q

\* Of two handles for one slot the live one is the younger.
LiveIsYoungest ==
    \A r, q \in issued :
        r.live /\ ~q.live /\ r.handle.index = q.handle.index => q.serial < r.serial

\* How far the counter has moved since a handle of the current round.
CounterDistance ==
    \A r \in issued : reserves - r.serial <= CounterLimit - 1 =>
        \/ m_counter_value = r.handle.counter + (reserves - r.serial)
        \/ m_counter_value = r.handle.counter + (reserves - r.serial) - (CounterLimit - 1)

\* Handles less than a round apart have different counters.
RoundDistinct ==
    \A r, q \in issued :
        r.serial < q.serial /\ q.serial - r.serial < CounterLimit - 1
            => r.handle.counter # q.handle.counter

HandleInv ==
    /\ SerialsUnique
    /\ UsedSlotsAreLive
    /\ LiveIsYoungest
    /\ CounterDistance
    /\ RoundDistinct
=============================================================================
