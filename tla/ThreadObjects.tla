---------------------------- MODULE ThreadObjects ----------------------------
(* sys::ThreadBase with its fiber (Thread) and native (ServiceThread) kinds, *)
(* and the ThreadManager's list and thread-local slots.  The kernel's view   *)
(* of a fiber is ThreadApi's, the message queue ServiceMessageQueue's.       *)
EXTENDS Integers, Sequences, FiniteSets, SequencesExt

CONSTANTS Threads, Looping,   \* the threads, and those that run in Looping mode
          Slots, Internal,    \* the thread-local slots, and those kept for internal use
          ExitMessage, m_max,   \* m_exit_message, and the messages a queue holds
          MaxSteps,           \* bound: the messages sent, and the data set, per thread
          None

VARIABLES m_thread_list, m_tls_destructor_array, state, messages,
          tls,        \* the slots of m_tls_slot_array with data, of each thread
          steps
vars == <<m_thread_list, m_tls_destructor_array, state, messages, tls, steps>>
tls_vars == <<m_tls_destructor_array, tls>>

Init == /\ m_thread_list = <<>>
        /\ m_tls_destructor_array = [s \in Slots |-> None]
        /\ state = [t \in Threads |-> "none"]
        /\ messages = [t \in Threads |-> <<>>]
        /\ tls = [t \in Threads |-> {}]
        /\ steps = [t \in Threads |-> 0]
-----------------------------------------------------------------------------
\* The constructor registers the thread; the list never loses it again.
Construct(t) == /\ state[t] = "none"
                /\ state' = [state EXCEPT ![t] = "created"]
                /\ m_thread_list' = Append(m_thread_list, t)
                /\ UNCHANGED <<tls_vars, messages, steps>>

StartThread(t) == /\ state[t] = "created"
                  /\ state' = [state EXCEPT ![t] = "running"]
                  /\ UNCHANGED <<m_thread_list, tls_vars, messages, steps>>

SendMessage(t) == /\ state[t] \in {"created", "running"}
                  /\ Len(messages[t]) < m_max /\ steps[t] < MaxSteps
                  /\ messages' = [messages EXCEPT ![t] = Append(@, "work")]
                  /\ steps' = [steps EXCEPT ![t] = @ + 1]
                  /\ UNCHANGED <<m_thread_list, tls_vars, state>>

\* ThreadMain with a message: it may store something in a slot that is in use.
ThreadMain(t) == \/ UNCHANGED <<tls, steps>>
                 \/ \E s \in Slots : /\ m_tls_destructor_array[s] # None /\ steps[t] < MaxSteps
                                     /\ tls' = [tls EXCEPT ![t] = @ \cup {s}]
                                     /\ steps' = [steps EXCEPT ![t] = @ + 1]

\* A Looping thread that finds no message gets the null one, which may be its exit message.
Run(t) ==
    LET none == messages[t] = <<>>
        exits == IF none THEN ExitMessage = "null" ELSE Head(messages[t]) = ExitMessage
    IN /\ state[t] = "running" /\ (none => t \in Looping)
       /\ messages' = [messages EXCEPT ![t] = IF none THEN @ ELSE Tail(@)]
       /\ IF exits
          THEN state' = [state EXCEPT ![t] = "leaving"] /\ UNCHANGED <<tls, steps>>
          ELSE ThreadMain(t) /\ UNCHANGED state
       /\ UNCHANGED <<m_thread_list, m_tls_destructor_array>>

\* The destructor of every slot in use is called with what the thread has
\* there, which may have been stored for an earlier user of the slot.
InvokeThreadTlsDestructors(t) ==
    /\ state[t] = "leaving"
    /\ tls' = [tls EXCEPT ![t] = {}]
    /\ state' = [state EXCEPT ![t] = "exited"]
    /\ UNCHANGED <<m_thread_list, m_tls_destructor_array, messages, steps>>
-----------------------------------------------------------------------------
\* ExitThread from a client: the exit message, when there is room for it, and
\* then the wait for the thread's end.
ExitThread(t) == /\ state[t] \in {"running", "leaving", "exited"} /\ ~\E i \in DOMAIN messages[t] :
                        messages[t][i] = ExitMessage
                 /\ Len(messages[t]) < m_max
                 /\ messages' = [messages EXCEPT ![t] = Append(@, ExitMessage)]
                 /\ UNCHANGED <<m_thread_list, tls_vars, state, steps>>

\* ~ThreadBase: by now the object is a ThreadBase, so its ExitThread sends the
\* message but does not wait.  The callers modelled waited before.
Destruct(t) == /\ state[t] = "exited" /\ Len(messages[t]) < m_max
               /\ state' = [state EXCEPT ![t] = "destroyed"]
               /\ UNCHANGED <<m_thread_list, tls_vars, messages, steps>>
-----------------------------------------------------------------------------
\* The first unused slot, from below for a user and from above for internal use.
SearchUnusedTlsSlotUnsafe(internal) ==
    LET unused == {s \in IF internal THEN Internal ELSE Slots \ Internal : m_tls_destructor_array[s] = None}
    IN IF internal THEN CHOOSE s \in unused : \A r \in unused : r <= s
       ELSE CHOOSE s \in unused : \A r \in unused : s <= r

\* With no unused slot left the assertion stops the process.
AllocateTlsSlot(internal) ==
    /\ \E s \in IF internal THEN Internal ELSE Slots \ Internal : m_tls_destructor_array[s] = None
    /\ m_tls_destructor_array' = [m_tls_destructor_array EXCEPT ![SearchUnusedTlsSlotUnsafe(internal)] = "destructor"]
    /\ UNCHANGED <<m_thread_list, state, messages, tls, steps>>

\* The threads keep what they have stored.
FreeTlsSlot(s) == /\ m_tls_destructor_array[s] # None
                  /\ m_tls_destructor_array' = [m_tls_destructor_array EXCEPT ![s] = None]
                  /\ UNCHANGED <<m_thread_list, state, messages, tls, steps>>
-----------------------------------------------------------------------------
Thread(t) == Run(t) \/ InvokeThreadTlsDestructors(t)
Next == \/ \E t \in Threads : \/ Construct(t) \/ StartThread(t) \/ SendMessage(t) \/ Thread(t)
                              \/ ExitThread(t) \/ Destruct(t)
        \/ \E internal \in BOOLEAN : AllocateTlsSlot(internal)
        \/ \E s \in Slots : FreeTlsSlot(s)
Fairness == \A t \in Threads : WF_vars(Thread(t))
Spec == Init /\ [][Next]_vars /\ Fairness
-----------------------------------------------------------------------------
TypeOK == \A t \in Threads : Len(messages[t]) <= m_max

\* A thread that was sent its exit message exits, and does so only then or
\* by finding no message in Looping mode.
ExitThreadReturns ==
    \A t \in Threads : (state[t] = "running" /\ \E i \in DOMAIN messages[t] : messages[t][i] = ExitMessage)
                          ~> state[t] \in {"exited", "destroyed"}
=============================================================================
