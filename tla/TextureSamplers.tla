--------------------------- MODULE TextureSamplers ---------------------------
(* gfx: TextureSamplerManager counts the TextureBinders of each texture and keeps
   one descriptor slot per texture; each binder belongs to a thread.  Vulkan, the
   separate heap (SeparateHeap) and descriptors are external: a block of texture
   memory is in use or not.  RegisterSampler uses its null node for every sampler
   that is not there yet, so that there is never one, and what samplers do with
   theirs is left out. *)
EXTENDS Naturals, FiniteSets

CONSTANTS
    Binders,      \* TextureBinders
    Count,        \* entries of the handle table
    Blocks,       \* texture memory
    None,
    MaxCalls      \* bound: calls of each binder

VARIABLES
    m_next_index, m_handle_array,   \* the handle table
    m_texture_array,                \* [reference_count, separate_memory, texture]
    memory,                         \* blocks that are in use
    m_texture_slot, call, calls,    \* of each binder; call: [pc, next]
    crashed

vars == <<m_next_index, m_handle_array, m_texture_array, memory, m_texture_slot,
          call, calls, crashed>>

Slots == 0 .. Count - 1
cInvalidHandle == Count
cInvalidDescriptorSlot == 0
Idle == [pc |-> "idle", next |-> None]

Init ==
    /\ m_next_index = 0
    /\ m_handle_array = [i \in Slots |-> i + 1]
    /\ m_texture_array = [s \in Slots |->
          [reference_count |-> 0, separate_memory |-> None, texture |-> FALSE]]
    /\ memory = {}
    /\ m_texture_slot = [b \in Binders |-> cInvalidDescriptorSlot]
    /\ call = [b \in Binders |-> Idle]
    /\ calls = [b \in Binders |-> 0]
    /\ crashed = FALSE

table == <<m_next_index, m_handle_array>>
-----------------------------------------------------------------------------
\* BindTexture with new memory, with the caller's memory, or with the slot of
\* another binder, which is read here; and ReleaseTexture alone.
Begin(b, next) ==
    /\ call[b] = Idle /\ calls[b] < MaxCalls
    /\ call' = [call EXCEPT ![b] = [pc |-> "release", next |-> next]]
    /\ calls' = [calls EXCEPT ![b] = @ + 1]
    /\ UNCHANGED <<table, m_texture_array, memory, m_texture_slot, crashed>>

BindTexture(b) == Begin(b, [kind |-> "texture"]) \/ Begin(b, [kind |-> "memory"])
CopyBinder(b, rhs) == Begin(b, [kind |-> "slot", slot |-> m_texture_slot[rhs]])
ReleaseTexture(b) == Begin(b, [kind |-> "none"])

\* ReleaseTexture and UnregisterTextureView: slot 0 is the invalid one and a
\* texture's.  The value tested is the one after the decrement.
Release(b) ==
    LET s == m_texture_slot[b]
        last_value == m_texture_array[s].reference_count - 1
    IN /\ call[b].pc = "release"
       /\ IF s = cInvalidDescriptorSlot
          THEN /\ call' = [call EXCEPT ![b].pc = "bind"]
               /\ UNCHANGED <<m_texture_array, m_texture_slot>>
          ELSE /\ m_texture_array' = [m_texture_array EXCEPT ![s].reference_count = @ - 1]
               /\ call' = [call EXCEPT ![b].pc = IF last_value = 1 THEN "destruct" ELSE "bind"]
               /\ m_texture_slot' = [m_texture_slot EXCEPT ![b] =
                      IF last_value = 1 THEN @ ELSE cInvalidDescriptorSlot]
       /\ UNCHANGED <<table, memory, calls, crashed>>

\* FixedAtomicIndexAllocator::Free: what follows the next index is the next one
\* then, and no index comes back.  With none left it reads behind its array.
FreeIndex(index) ==
    /\ m_handle_array' = [m_handle_array EXCEPT ![index] = m_next_index]
    /\ m_next_index' = IF m_next_index = cInvalidHandle THEN m_next_index
                       ELSE m_handle_array'[m_next_index]
    /\ crashed' = (m_next_index = cInvalidHandle)

Destruct(b) ==
    LET s == m_texture_slot[b]
    IN /\ call[b].pc = "destruct"
       /\ memory' = memory \ {m_texture_array[s].separate_memory}
       /\ m_texture_array' = [m_texture_array EXCEPT ![s].texture = FALSE]
       /\ FreeIndex(s)
       /\ m_texture_slot' = [m_texture_slot EXCEPT ![b] = cInvalidDescriptorSlot]
       /\ call' = [call EXCEPT ![b].pc = "bind"]
       /\ UNCHANGED calls

\* FixedAtomicIndexAllocator::Allocate
NextIndex(index) == m_handle_array[index]

\* RegisterTextureView: no memory or no slot is an assertion.  A texture in the
\* caller's memory keeps the separate memory of its node.
RegisterTextureView(b) ==
    LET s == m_next_index
        own == call[b].next.kind = "texture"
    IN /\ call[b].pc = "bind" /\ call[b].next.kind \in {"texture", "memory"}
       /\ IF s = cInvalidHandle \/ (own /\ memory = Blocks)
          THEN crashed' = TRUE /\ UNCHANGED <<table, m_texture_array, memory, m_texture_slot, call>>
          ELSE /\ \E block \in IF own THEN Blocks \ memory ELSE {None} :
                     /\ memory' = IF own THEN memory \cup {block} ELSE memory
                     /\ m_texture_array' = [m_texture_array EXCEPT ![s] =
                           [reference_count |-> 1, texture |-> TRUE,
                            separate_memory |-> IF own THEN block ELSE @.separate_memory]]
               /\ m_next_index' = NextIndex(s)
               /\ m_texture_slot' = [m_texture_slot EXCEPT ![b] = s]
               /\ call' = [call EXCEPT ![b] = Idle]
               /\ UNCHANGED <<m_handle_array, crashed>>
       /\ UNCHANGED calls

ReferencesAfter_Keep(count) == count
ReferencesAfter(count) == count + 1

ReferenceTextureView(b) ==
    LET s == call[b].next.slot
    IN /\ call[b].pc = "bind" /\ call[b].next.kind = "slot"
       /\ m_texture_array' = [m_texture_array EXCEPT ![s].reference_count = ReferencesAfter(@)]
       /\ m_texture_slot' = [m_texture_slot EXCEPT ![b] = s]
       /\ call' = [call EXCEPT ![b] = Idle]
       /\ UNCHANGED <<table, memory, calls, crashed>>

EndRelease(b) ==
    /\ call[b].pc = "bind" /\ call[b].next.kind = "none"
    /\ call' = [call EXCEPT ![b] = Idle]
    /\ UNCHANGED <<table, m_texture_array, memory, m_texture_slot, calls, crashed>>

\* RegisterSampler of a sampler that is not in the tree, as none ever is.
RegisterSampler(b) ==
    /\ call[b] = Idle
    /\ crashed' = TRUE
    /\ UNCHANGED <<table, m_texture_array, memory, m_texture_slot, call, calls>>

Next ==
    /\ ~crashed
    /\ \E b \in Binders :
          \/ BindTexture(b) \/ ReleaseTexture(b) \/ \E rhs \in Binders : CopyBinder(b, rhs)
          \/ Release(b) \/ Destruct(b) \/ RegisterTextureView(b) \/ ReferenceTextureView(b)
          \/ EndRelease(b) \/ RegisterSampler(b)
Spec == Init /\ [][Next]_vars
-----------------------------------------------------------------------------
\* The count of a texture is the number of its binders, but for slot 0, whoever
\* binds, copies and releases at the same time (ReleaseTexture, BindTexture).
CountsAreBinders ==
    \A s \in Slots \ {cInvalidDescriptorSlot} :
        m_texture_array[s].reference_count =
            Cardinality({b \in Binders : m_texture_slot[b] = s /\ call[b].pc # "destruct"})
=============================================================================
