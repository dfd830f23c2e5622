---------------------------- MODULE MessageQueue ----------------------------
(* sys::MessageQueue, a monitor: every call runs under m_message_mutex, which it
   gives up only to wait on one of two condition variables.  The lock and the
   condition variables are those of ukern (CriticalSection, ConditionVariable),
   its users are fibers.  A call up to its end or its wait is one step; the waiter
   that a broadcast wakes is the next to have the mutex.

   The kernel does not come back from a broadcast to several waiters, nor from a
   hand-over of the mutex with several fibers in the list of its owner: "stuck". *)
EXTENDS Naturals, Sequences, FiniteSets

CONSTANTS Threads, Messages, m_max_messages, NoMessage, Nobody

Jams     == {"jam", "tryjam"}
Sends    == {"send", "trysend"} \cup Jams
Receives == {"receive", "tryreceive"}
Trying   == {"tryjam", "trysend", "tryreceive", "trypeek"}
NoCall   == [op |-> "none", message |-> NoMessage]

VARIABLES
    m_message_buffer, m_pending_messages, m_current_message,
    call,      \* the call each thread is in
    asleep,    \* the threads that wait, by the condition variable
    owner,     \* the thread the mutex was handed to
    stuck,
    received   \* the last message the queue gave out

buffer == <<m_message_buffer, m_pending_messages, m_current_message>>
waiting == <<asleep, owner, stuck>>
vars == <<buffer, call, waiting, received>>

Init ==
    /\ m_message_buffer = [i \in 0..m_max_messages - 1 |-> NoMessage]
    /\ m_pending_messages = 0 /\ m_current_message = 0
    /\ call = [t \in Threads |-> NoCall]
    /\ asleep = [m_message_sent_cv |-> {}, m_buffer_full_cv |-> {}]
    /\ owner = Nobody /\ stuck = FALSE
    /\ received = NoMessage

Broadcast(cv) ==
    IF Cardinality(asleep[cv]) > 1
    THEN stuck' = TRUE /\ UNCHANGED <<asleep, owner>>
    ELSE /\ asleep' = [asleep EXCEPT ![cv] = {}]
         /\ owner' \in IF asleep[cv] = {} THEN {Nobody} ELSE asleep[cv]
         /\ UNCHANGED stuck

\* Mutant: receivers are not told of a message that is jammed.
Announce_NotJams(op) == IF op \in Jams THEN owner' = Nobody /\ UNCHANGED <<asleep, stuck>> ELSE Broadcast("m_message_sent_cv")

Announce(op) == Broadcast("m_message_sent_cv")

\* Mutant: an index past the end is the last one.
Slot_Clamped(i) == IF m_max_messages <= i THEN m_max_messages - 1 ELSE i

Slot(i) == IF m_max_messages <= i THEN i - m_max_messages ELSE i

SendMessageImpl(m) ==
    /\ m_message_buffer' = [m_message_buffer EXCEPT ![Slot(m_pending_messages + m_current_message)] = m]
    /\ m_pending_messages' = m_pending_messages + 1
    /\ Announce("send")
    /\ UNCHANGED <<m_current_message, received>>

JamMessageImpl(m) ==
    LET index == (IF m_current_message < 1 THEN m_current_message + m_max_messages ELSE m_current_message) - 1
    IN  /\ m_message_buffer' = [m_message_buffer EXCEPT ![index] = m]
        /\ m_pending_messages' = m_pending_messages + 1
        /\ m_current_message' = index
        /\ Announce("jam")
        /\ UNCHANGED received

RecieveMessageImpl ==
    /\ received' = m_message_buffer[m_current_message]
    /\ m_pending_messages' = m_pending_messages - 1
    /\ m_current_message' = Slot(m_current_message + 1)
    /\ Broadcast("m_buffer_full_cv")
    /\ UNCHANGED m_message_buffer

Possible(op) == IF op \in Sends THEN m_pending_messages < m_max_messages ELSE m_pending_messages # 0

-----------------------------------------------------------------------------
Call(t, op, m) ==
    /\ call[t] = NoCall
    /\ call' = [call EXCEPT ![t] = [op |-> op, message |-> m]]
    /\ UNCHANGED <<buffer, waiting, received>>

Awake(t) == call[t] # NoCall /\ \A cv \in DOMAIN asleep : t \notin asleep[cv]

\* t is inside, or the next to be.
Enters(t) == Awake(t) /\ owner \in {t, Nobody}

Returns(t) == call' = [call EXCEPT ![t] = NoCall]

Send(t) ==
    /\ Enters(t) /\ call[t].op \in Sends \ Jams /\ Possible(call[t].op)
    /\ SendMessageImpl(call[t].message)
    /\ Returns(t)

Jam(t) ==
    /\ Enters(t) /\ call[t].op \in Jams /\ Possible(call[t].op)
    /\ JamMessageImpl(call[t].message)
    /\ Returns(t)

Receive(t) ==
    /\ Enters(t) /\ call[t].op \in Receives /\ Possible(call[t].op)
    /\ RecieveMessageImpl
    /\ Returns(t)

\* TryPeekMessage, or a try that finds the ring full or empty.
Leave(t) ==
    /\ Enters(t) /\ call[t].op \in Trying
    /\ Possible(call[t].op) => call[t].op = "trypeek"
    /\ Returns(t)
    /\ owner' = Nobody
    /\ UNCHANGED <<buffer, asleep, stuck, received>>

\* WaitForMessage and WaitForMessageClear.
Wait(t) ==
    /\ Enters(t) /\ call[t].op \notin Trying /\ ~Possible(call[t].op)
    /\ LET cv == IF call[t].op \in Sends THEN "m_buffer_full_cv" ELSE "m_message_sent_cv"
       IN  asleep' = [asleep EXCEPT ![cv] = @ \cup {t}]
    /\ owner' = Nobody
    /\ UNCHANGED <<buffer, call, stuck, received>>

\* The waiters a call of t may wake.
Wakes(t) ==
    IF call[t].op = "trypeek" \/ ~Possible(call[t].op) THEN {}
    ELSE IF call[t].op \in Sends THEN asleep.m_message_sent_cv ELSE asleep.m_buffer_full_cv

\* While t is inside, others come to the mutex: there are two in its list when
\* it leaves, or waits.
Contend(t) ==
    /\ Enters(t)
    /\ LET others == {s \in Threads \ {t} : Awake(s)}
       IN others # {} /\ Cardinality(others \cup Wakes(t)) > 1
    /\ stuck' = TRUE
    /\ UNCHANGED <<buffer, call, asleep, owner, received>>

Step(t) == ~stuck /\ (Send(t) \/ Jam(t) \/ Receive(t) \/ Leave(t) \/ Wait(t))

Calls(t) == \/ \E op \in Sends, m \in Messages : Call(t, op, m)
            \/ \E op \in Receives \cup {"trypeek"} : Call(t, op, NoMessage)

Next == \E t \in Threads : (~stuck /\ (Calls(t) \/ Contend(t))) \/ Step(t)

\* Who comes to the mutex is in its list, and the next to have it.
Fairness == \A t \in Threads : SF_vars(Step(t))

Spec == Init /\ [][Next]_vars
FairSpec == Spec /\ Fairness

-----------------------------------------------------------------------------
TypeOK ==
    /\ m_pending_messages \in 0..m_max_messages
    /\ m_current_message \in 0..m_max_messages - 1
    /\ m_message_buffer \in [0..m_max_messages - 1 -> Messages \cup {NoMessage}]

\* The messages in the ring, the next one first.
Contents == [i \in 1..m_pending_messages |-> m_message_buffer[Slot(m_current_message + i - 1)]]

Abstract == INSTANCE BoundedQueue WITH queue <- Contents, Max <- m_max_messages

\* The ring under the monitor is a bounded queue.
ImplementsBoundedQueue == Abstract!Spec

\* Nobody sleeps while what it waits for is there.
NoSleeperIsForgotten == ~stuck =>
    /\ asleep.m_message_sent_cv # {} => m_pending_messages = 0
    /\ asleep.m_buffer_full_cv # {} => m_pending_messages = m_max_messages

\* Every call that can go on returns, or another one takes what it waited for.
CallsReturn == \A t \in Threads : (call[t] # NoCall /\ Possible(call[t].op)) ~> (call[t] = NoCall \/ ~Possible(call[t].op) \/ stuck)
=============================================================================
