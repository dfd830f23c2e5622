----------------------------- MODULE MCServices ------------------------------
(* The composition of sys: each behaviour is about one of its services, the  *)
(* subject.  Those who use it are processes of the kernel, fibers or native  *)
(* threads.                                                                  *)
EXTENDS Naturals, Sequences, FiniteSets

CONSTANTS
    Fibers, Natives,          \* users of a ServiceMessageQueue, an event
    LockFibers, LockNatives,  \* users of a ServiceCriticalSection or ServiceMutex
    Clients,                  \* users of a MessageQueue or an Event, fibers
    Objects, Looping,         \* threads of a ThreadManager, and those in Looping mode
    Messages, NoMessage, Max, \* what a queue takes, and how much of it
    Few, FewMessages,         \* bounds: see Crowd
    Slots, Internal, MaxSteps, MaxDepth, None,
    Subjects

\* Fibers and native threads are different things, as are messages and none, a
\* queue has a buffer (its Initialize is given one), and the slots are indices.
ASSUME ServicesAssumption ==
    /\ Fibers \cap Natives = {} /\ None \notin LockFibers \cup LockNatives \cup Clients
    /\ NoMessage \notin Messages
    /\ Max \in Nat \ {0} /\ MaxDepth \in Nat /\ MaxSteps \in Nat
    /\ Slots = 0 .. Cardinality(Slots) - 1 /\ Internal \subseteq Slots
    /\ IsFiniteSet(Slots) /\ IsFiniteSet(Fibers) /\ IsFiniteSet(Clients)
    /\ None # "destructor"

VARIABLES
    subject,
    s_m_message_buffer, s_m_count, s_m_offset, s_wait_value, s_pc, s_call,
    s_received, s_wild,
    q_m_message_buffer, q_m_pending_messages, q_m_current_message, q_call,
    q_asleep, q_owner, q_stuck, q_received,
    e_m_auto_reset_mode, e_m_signal_state, e_parent, e_behind, e_stuck,
    v_m_is_auto_reset, v_m_state, v_pc, v_last, v_timed, v_broken,
    k_recursive, k_m_owner, k_m_lock_count, k_holder, k_depth, k_pc,
    o_m_thread_list, o_m_tls_destructor_array, o_state, o_messages, o_tls,
    o_steps

s_vars == <<s_m_message_buffer, s_m_count, s_m_offset, s_wait_value, s_pc,
        s_call, s_received, s_wild>>
q_vars == <<q_m_message_buffer, q_m_pending_messages, q_m_current_message,
        q_call, q_asleep, q_owner, q_stuck, q_received>>
e_vars == <<e_m_auto_reset_mode, e_m_signal_state, e_parent, e_behind, e_stuck>>
v_vars == <<v_m_is_auto_reset, v_m_state, v_pc, v_last, v_timed, v_broken>>
k_vars == <<k_recursive, k_m_owner, k_m_lock_count, k_holder, k_depth, k_pc>>
o_vars == <<o_m_thread_list, o_m_tls_destructor_array, o_state, o_messages,
        o_tls, o_steps>>
vars == <<subject, s_vars, q_vars, e_vars, v_vars, k_vars, o_vars>>

Ring == INSTANCE ServiceMessageQueue WITH
    m_message_buffer <- s_m_message_buffer, m_count <- s_m_count,
    m_offset <- s_m_offset, wait_value <- s_wait_value, pc <- s_pc,
    call <- s_call, received <- s_received, wild <- s_wild
Mq == INSTANCE MessageQueue WITH
    Threads <- Clients, m_max_messages <- Max, Nobody <- None,
    m_message_buffer <- q_m_message_buffer,
    m_pending_messages <- q_m_pending_messages,
    m_current_message <- q_m_current_message, call <- q_call,
    asleep <- q_asleep, owner <- q_owner, stuck <- q_stuck,
    received <- q_received
Ev == INSTANCE Event WITH
    Threads <- Clients, Nobody <- None, m_auto_reset_mode <- e_m_auto_reset_mode,
    m_signal_state <- e_m_signal_state, parent <- e_parent, behind <- e_behind,
    stuck <- e_stuck
Se == INSTANCE ServiceEvent WITH
    m_is_auto_reset <- v_m_is_auto_reset, m_state <- v_m_state, pc <- v_pc,
    last <- v_last, timed <- v_timed, broken <- v_broken
Lk == INSTANCE ServiceLock WITH
    Fibers <- LockFibers, Natives <- LockNatives, Nobody <- None,
    recursive <- k_recursive, m_owner <- k_m_owner,
    m_lock_count <- k_m_lock_count, holder <- k_holder, depth <- k_depth,
    pc <- k_pc
Th == INSTANCE ThreadObjects WITH
    Threads <- Objects, ExitMessage <- "exit", m_max <- Max,
    m_thread_list <- o_m_thread_list,
    m_tls_destructor_array <- o_m_tls_destructor_array, state <- o_state,
    messages <- o_messages, tls <- o_tls, steps <- o_steps

\* Everybody but the subject rests in its initial state.
Init ==
    /\ subject \in Subjects
    /\ Ring!Init /\ Mq!Init /\ Th!Init
    /\ Ev!Init /\ (e_m_auto_reset_mode => subject = "event")
    /\ Se!Init /\ (v_m_is_auto_reset => subject = "service event")
    /\ Lk!Init /\ (k_recursive => subject = "lock")

\* Bound: a few threads send every message, or all of them a few, and then the
\* others only send and receive.
Crowd ==
    IF subject = "ring" THEN \A t \in Fibers \cup Natives : s_call'[t] # Ring!NoCall => t \in Few
    ELSE \A t \in Fibers \cup Natives :
            /\ s_call'[t].message \in FewMessages \cup {NoMessage}
            /\ t \notin Few => s_call'[t].op \in {"none", "send", "receive"}

RingNext == /\ subject \in {"ring", "many"} /\ Ring!Next /\ Crowd
            /\ UNCHANGED <<subject, q_vars, e_vars, v_vars, k_vars, o_vars>>
\* Bound: a few clients make every call with every message, the others only
\* send and receive one, while nobody else has another.
MqCrowd ==
    \A t \in Clients \ Few : q_call'[t] # Mq!NoCall =>
        /\ q_call'[t].op \in {"send", "receive"}
        /\ \A s \in Clients : q_call'[s].message \in FewMessages \cup {NoMessage}

MqNext == /\ subject = "monitor" /\ Mq!Next /\ MqCrowd
          /\ UNCHANGED <<subject, s_vars, e_vars, v_vars, k_vars, o_vars>>
EvNext == /\ subject = "event" /\ Ev!Next
          /\ UNCHANGED <<subject, s_vars, q_vars, v_vars, k_vars, o_vars>>
SeNext == /\ subject = "service event" /\ Se!Next
          /\ UNCHANGED <<subject, s_vars, q_vars, e_vars, k_vars, o_vars>>
LkNext == /\ subject = "lock" /\ Lk!Next
          /\ UNCHANGED <<subject, s_vars, q_vars, e_vars, v_vars, o_vars>>
ThNext == /\ subject = "threads" /\ Th!Next
          /\ UNCHANGED <<subject, s_vars, q_vars, e_vars, v_vars, k_vars>>

Next == RingNext \/ MqNext \/ EvNext \/ SeNext \/ LkNext \/ ThNext

\* The steps a process takes by itself, which the kernel does not put off for
\* ever: fibers and native threads are scheduled, but nobody has to call.  Who
\* comes to m_message_mutex is in its list, and the next to have it: strong.
Fairness ==
    /\ \A p \in Clients : SF_q_vars(subject = "monitor" /\ Mq!Step(p))
    /\ \A p \in Fibers \cup Natives :
          WF_v_vars(/\ subject = "service event" /\ ~v_m_is_auto_reset /\ ~v_broken
                    /\ Se!Waiting(p) \/ Se!Signalling(p))
    /\ \A p \in Objects : WF_o_vars(subject = "threads" /\ Th!Thread(p))

Spec == Init /\ [][Next]_vars /\ Fairness
-----------------------------------------------------------------------------
\* Nobody sleeps on a message, a free slot or a signal that is there, unless
\* somebody is on the way to wake it; and whoever sleeps has left the mark in
\* the word that makes the others wake it (WaitForMessage, ServiceEvent::Wait).
NobodySleepsOnNews ==
    /\ Ring!NoSleeperIsForgotten /\ Ring!SleepersAreAnnounced
    /\ Mq!NoSleeperIsForgotten
    /\ Ev!NoSleeperIsForgotten
    /\ Se!NoSleeperIsForgotten /\ Se!SleepersAreAnnounced

\* The unlocked look at m_owner lets one holder in at a time, a native thread
\* or a fiber (ServiceCriticalSection and Mutex, Enter and Leave).
OnlyTheHolderIsIn == Lk!OnlyTheHolderIsIn

\* The ring of ServiceMessageQueue and the one of MessageQueue are bounded
\* queues with a jam at the front, whatever calls interleave.
QueuesAreBounded == Ring!ImplementsBoundedQueue /\ Mq!ImplementsBoundedQueue

\* What p waits for, by the component: a message or a slot that is there, a
\* signal it announced itself for, the handling of an exit message.
Expects(p) ==
    \/ /\ subject = "monitor" /\ p \in Clients
       /\ q_call[p] # Mq!NoCall /\ Mq!Possible(q_call[p].op) /\ ~q_stuck
    \/ /\ subject = "service event" /\ p \in Fibers \cup Natives /\ ~v_m_is_auto_reset
       /\ v_pc[p] = "asleep" /\ v_last[p] = 0 /\ ~v_timed[p] /\ v_m_state = 2 /\ ~v_broken
    \/ /\ subject = "threads" /\ p \in Objects /\ o_state[p] = "running"
       /\ "exit" \in {o_messages[p][i] : i \in DOMAIN o_messages[p]}

\* Whoever waits for what has come goes on, or somebody else takes it
\* (MessageQueue's calls, ServiceEvent::Wait, ThreadBase::Run).
CallsReturn == \A p \in Fibers \cup Natives \cup Clients \cup Objects : Expects(p) ~> ~Expects(p)
=============================================================================
