---------------------------- MODULE LocalArchives ----------------------------
(* res: ThreadLocalArchiveManager gives each thread that asks a binder for an
   archive of its own, from a ring of free ones, and takes it back when the thread
   unregisters or exits.  SetThreadLocalArchive wants an archive that is there and
   not initialized, which GetThreadLocalArchive never gives: no binder is ever set,
   and what is done to a set one is left out.  Nobody else unregisters a thread
   that exits.  The exit of a thread and Calculate do not take m_cs: the model stops
   where somebody changes the tree or the ring that another is in (Race). *)
EXTENDS Naturals, Sequences, FiniteSets

CONSTANTS
    Threads, Binders,
    None, Unset,    \* no binder; an entry of a ring that was never written
    MaxExits        \* bound: threads that exit, and come again in the same storage

VARIABLES
    m_is_trigger_clear_tree,
    m_free_archive_ring_buffer,   \* binders, the first one out first
    tree, nodes,                  \* thread -> binder; tree nodes never given out, or freed
    m_registered_thread_ring,     \* its array, as far as it is written
    tls,
    m_cs,           \* what is done under it, and for which thread
    exiting,        \* the thread whose destructors run, under m_tls_cs
    walking,        \* Calculate walks over the tree
    exits, crashed

vars == <<m_is_trigger_clear_tree, m_free_archive_ring_buffer, tree, nodes,
          m_registered_thread_ring, tls, m_cs, exiting, walking, exits, crashed>>
home_vars == <<m_free_archive_ring_buffer, tree, nodes, tls, crashed>>

max_thread_count == Cardinality(Binders)
Nobody == [at |-> "none", thread |-> None, binder |-> None]

Init ==
    /\ m_is_trigger_clear_tree = FALSE
    /\ m_free_archive_ring_buffer = CHOOSE s \in [1 .. max_thread_count -> Binders] :
                                         \A i, j \in DOMAIN s : s[i] = s[j] => i = j
    /\ tree = [t \in Threads |-> None] /\ nodes = max_thread_count
    /\ m_registered_thread_ring = [i \in 1 .. max_thread_count |-> Unset]
    /\ tls = [t \in Threads |-> None]
    /\ m_cs = Nobody /\ exiting = Nobody /\ walking = FALSE
    /\ exits = 0 /\ crashed = FALSE

Registered == {t \in Threads : tree[t] # None}
Return(binder) == Append(m_free_archive_ring_buffer, binder)
-----------------------------------------------------------------------------
\* RegisterThread, GetThreadLocalArchive, UnregisterThread and its sibling for the
\* current thread: m_cs is taken, and then the section done.

Lock(at, t) == /\ m_cs = Nobody /\ exiting.thread # t
               /\ m_cs' = [at |-> at, thread |-> t, binder |-> None]
               /\ UNCHANGED <<home_vars, m_is_trigger_clear_tree, m_registered_thread_ring, exiting, walking, exits>>
RegisterThread(t) == Lock("register", t)
GetThreadLocalArchive(t) == tls[t] = None /\ RegisterThread(t)
UnregisterThread(t) == Lock("unregister", t)

Unlock == /\ m_cs' = Nobody
          /\ UNCHANGED <<m_is_trigger_clear_tree, m_registered_thread_ring, exiting, walking, exits>>

\* A thread that is in the tree already has its slot set; a new one has not, and
\* comes here again with its next call.  Without a node the null one is used.
Register(t) ==
    /\ m_cs.at = "register" /\ m_cs.thread = t
    /\ \/ /\ tree[t] # None
          /\ tls' = [tls EXCEPT ![t] = tree[t]]
          /\ UNCHANGED <<tree, nodes, m_free_archive_ring_buffer, crashed>>
       \/ /\ tree[t] = None /\ m_free_archive_ring_buffer = <<>>
          /\ UNCHANGED home_vars
       \/ /\ tree[t] = None /\ m_free_archive_ring_buffer # <<>>
          /\ m_free_archive_ring_buffer' = Tail(m_free_archive_ring_buffer)
          /\ crashed' = (nodes = 0)
          /\ nodes' = IF nodes = 0 THEN 0 ELSE nodes - 1
          /\ tree' = IF nodes = 0 THEN tree ELSE [tree EXCEPT ![t] = Head(m_free_archive_ring_buffer)]
          /\ UNCHANGED tls
    /\ Unlock

\* UnregisterCurrentThread reads the node after it is freed, where the binder still is.
Unregister(t) ==
    /\ m_cs.at = "unregister" /\ m_cs.thread = t
    /\ \/ tree[t] = None /\ UNCHANGED home_vars
       \/ /\ tree[t] # None
          /\ tls' = [tls EXCEPT ![t] = None]
          /\ m_free_archive_ring_buffer' = Return(tree[t])
          /\ tree' = [tree EXCEPT ![t] = None]
          /\ nodes' = nodes + 1
          /\ UNCHANGED crashed
    /\ Unlock
-----------------------------------------------------------------------------
\* TlsDestructor: a thread without an archive has the tree looked through; for
\* another one the tree is searched for its binder, the node taken out, which
\* nobody frees, and the binder given back.

TlsDestructor(t) ==
    /\ exits < MaxExits /\ exiting = Nobody /\ m_cs.thread # t
    /\ exits' = exits + 1
    /\ \/ /\ tls[t] = None
          /\ m_is_trigger_clear_tree' = TRUE
          /\ UNCHANGED exiting
       \/ /\ tls[t] # None
          /\ exiting' = [at |-> "search", thread |-> t, binder |-> tls[t]]
          /\ UNCHANGED m_is_trigger_clear_tree
    /\ UNCHANGED <<home_vars, m_registered_thread_ring, m_cs, walking>>

SearchTree(t) ==
    /\ exiting.at = "search"
    /\ tree[t] = exiting.binder
    /\ exiting' = [exiting EXCEPT !.at = "remove"]
    /\ UNCHANGED <<home_vars, m_is_trigger_clear_tree, m_registered_thread_ring, m_cs, walking, exits>>

RemoveNode(t) ==
    /\ exiting.at = "remove" /\ tree[t] = exiting.binder
    /\ tree' = [tree EXCEPT ![t] = None]
    /\ tls' = [tls EXCEPT ![exiting.thread] = None]
    /\ exiting' = [exiting EXCEPT !.at = "insert"]
    /\ UNCHANGED <<nodes, m_free_archive_ring_buffer, crashed, m_is_trigger_clear_tree,
                   m_registered_thread_ring, m_cs, walking, exits>>

InsertBinder ==
    /\ exiting.at = "insert"
    /\ m_free_archive_ring_buffer' = Return(exiting.binder)
    /\ exiting' = Nobody
    /\ UNCHANGED <<tree, nodes, tls, crashed, m_is_trigger_clear_tree, m_registered_thread_ring,
                   m_cs, walking, exits>>

\* Calculate, on the control thread: the threads of the tree are written to a ring
\* and all entries of its array read, the ones behind its count too.  A thread that
\* was ever made is valid for good; what is not one is not in the tree either, and
\* the null node is used.
BeginCalculate ==
    /\ m_is_trigger_clear_tree /\ ~walking
    /\ m_is_trigger_clear_tree' = FALSE
    /\ walking' = TRUE
    /\ UNCHANGED <<home_vars, m_registered_thread_ring, m_cs, exiting, exits>>
Calculate ==
    /\ walking
    /\ walking' = FALSE
    /\ \E order \in [1 .. Cardinality(Registered) -> Registered] :
          /\ \A i, j \in DOMAIN order : order[i] = order[j] => i = j
          /\ m_registered_thread_ring' = [i \in 1 .. max_thread_count |->
                IF i \in DOMAIN order THEN order[i] ELSE m_registered_thread_ring[i]]
    /\ crashed' = \E i \in 1 .. max_thread_count : m_registered_thread_ring'[i] = Unset
    /\ UNCHANGED <<m_is_trigger_clear_tree, m_free_archive_ring_buffer, tree, nodes, tls, m_cs, exiting, exits>>
-----------------------------------------------------------------------------
\* What is done under m_cs changes the tree and the ring, or only looks.
SectionChanges ==
    \/ m_cs.at = "register" /\ tree[m_cs.thread] = None /\ m_free_archive_ring_buffer # <<>>
    \/ m_cs.at = "unregister" /\ tree[m_cs.thread] # None
\* Somebody changes the tree or the ring while another is in it: undefined.
Race ==
    \/ SectionChanges /\ (walking \/ exiting # Nobody)
    \/ exiting.at = "remove" /\ (walking \/ m_cs # Nobody)

Next ==
    /\ ~crashed /\ ~Race
    /\ \/ \E t \in Threads :
             \/ RegisterThread(t) \/ GetThreadLocalArchive(t) \/ UnregisterThread(t)
             \/ Register(t) \/ Unregister(t)
             \/ TlsDestructor(t) \/ SearchTree(t) \/ RemoveNode(t)
       \/ InsertBinder \/ BeginCalculate \/ Calculate
Spec == Init /\ [][Next]_vars
-----------------------------------------------------------------------------
\* A binder is free once, or on its way back, or belongs to one thread, and none
\* gets lost, whoever registers, unregisters and exits, as long as nobody changes
\* the tree or the ring while another is in it (RegisterThread, TlsDestructor).
Freed == m_free_archive_ring_buffer \o (IF exiting.at = "insert" THEN <<exiting.binder>> ELSE <<>>)
BindersHaveOneHome ==
    LET free == {Freed[i] : i \in DOMAIN Freed}
        given == {tree[t] : t \in Registered}
    IN ~crashed => /\ free \cup given = Binders
                   /\ Len(Freed) + Cardinality(Registered) = max_thread_count

\* What a thread finds in its slot is the binder the tree has for it: nobody uses
\* one that was given to another (GetThreadLocalArchive, UnregisterThread).
SlotIsOwn == \A t \in Threads : tls[t] \in {None, tree[t]}
=============================================================================
