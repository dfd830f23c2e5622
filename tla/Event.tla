-------------------------------- MODULE Event --------------------------------
(* sys::Event, a monitor over a critical section and a condition variable of
   ukern: its users are fibers.  The lists of the kernel decide who is woken
   (ConditionVariable models their steps one by one): the first waiter is in the
   scheduler's list, the others are in the list of the first, and the next owner
   of m_cs is taken from the list of its owner, whoever put a fiber there.

   A call up to its end, or to its wait, is one step.  With one fiber to hand
   m_cs to, Leave makes it the owner, so that a waiter that is woken leaves, or
   waits again, in the step of who wakes it.  m_wake_id never decides: with
   manual reset m_signal_state is still set when the waiter looks.

   The kernel does not come back from a hand-over with two fibers in the list,
   nor from a broadcast that goes on in another list: "stuck". *)
EXTENDS Naturals, FiniteSets

CONSTANTS Threads, Nobody

VARIABLES
    m_auto_reset_mode,  \* given to the constructor
    m_signal_state,
    parent,             \* the waiter in the scheduler's list
    behind,             \* the waiters in each fiber's own list
    stuck

vars == <<m_auto_reset_mode, m_signal_state, parent, behind, stuck>>

Init ==
    /\ m_auto_reset_mode \in BOOLEAN
    /\ m_signal_state = FALSE
    /\ parent = Nobody
    /\ behind = [t \in Threads |-> {}]
    /\ stuck = FALSE

LeftBehind == UNION {behind[t] : t \in Threads}
Awake == Threads \ (LeftBehind \cup {parent})

\* The list of t has somebody in it when it gets the waiter that is woken.
HandsOverTwo(t) == behind[t] # {}

\* Signal of the condition variable with automatic reset, else Broadcast.  The
\* waiter takes the signal of an event with automatic reset; who waited behind
\* it stays in its list.
Signal(t) ==
    /\ t \in Awake
    /\ IF parent = Nobody
       THEN m_signal_state' = TRUE /\ UNCHANGED <<parent, stuck>>
       ELSE IF HandsOverTwo(t) \/ (~m_auto_reset_mode /\ behind[parent] # {})
       THEN m_signal_state' = TRUE /\ stuck' = TRUE /\ UNCHANGED parent
       ELSE m_signal_state' = ~m_auto_reset_mode /\ parent' = Nobody /\ UNCHANGED stuck
    /\ UNCHANGED <<m_auto_reset_mode, behind>>

Clear(t) ==
    /\ t \in Awake
    /\ m_signal_state' = FALSE
    /\ UNCHANGED <<m_auto_reset_mode, parent, behind, stuck>>

\* An event that is signaled is not waited for, and not cleared either.  To wait
\* is to leave m_cs: a fiber in the own list of t, left there by an earlier
\* signal, is woken, finds nothing and waits again.
Wait(t) ==
    /\ t \in Awake /\ ~m_signal_state
    /\ IF Cardinality(behind[t]) > 1
       THEN stuck' = TRUE /\ UNCHANGED <<parent, behind>>
       ELSE IF parent = Nobody
       THEN parent' = t /\ UNCHANGED <<behind, stuck>>
       ELSE /\ behind' = [behind EXCEPT ![t] = {}, ![parent] = @ \cup {t} \cup behind[t]]
            /\ UNCHANGED <<parent, stuck>>
    /\ UNCHANGED <<m_auto_reset_mode, m_signal_state>>

\* While t is inside, others come to m_cs: with the waiter that t wakes, and
\* those in its list already, they may be two.
Contend(t) ==
    /\ t \in Awake
    /\ LET list == behind[t] \cup (Awake \ {t}) \cup ({parent} \ {Nobody})
       IN Cardinality(list) > 1 /\ Awake # {t}
    /\ stuck' = TRUE
    /\ UNCHANGED <<m_auto_reset_mode, m_signal_state, parent, behind>>

Next == ~stuck /\ \E t \in Threads : Signal(t) \/ Clear(t) \/ Wait(t) \/ Contend(t)

Spec == Init /\ [][Next]_vars

-----------------------------------------------------------------------------
TypeOK ==
    /\ m_auto_reset_mode \in BOOLEAN /\ m_signal_state \in BOOLEAN /\ stuck \in BOOLEAN
    /\ parent \in Threads \cup {Nobody}
    /\ behind \in [Threads -> SUBSET Threads]

\* Nobody waits where the next signal looks while the event is signaled.  With
\* manual reset nobody waits anywhere else either: all who wait are behind the
\* first.
NoSleeperIsForgotten ==
    /\ m_signal_state /\ ~stuck => parent = Nobody
    /\ ~m_auto_reset_mode => \A t \in Threads : behind[t] # {} => t = parent
=============================================================================
