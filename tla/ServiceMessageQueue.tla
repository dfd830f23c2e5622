------------------------- MODULE ServiceMessageQueue -------------------------
(* sys::ServiceMessageQueue: a ring of messages under a BusyMutex, and two words
   on which receivers and senders wait.  A word is 0, 1 while somebody waits, or
   2 when there is news; it is changed outside of the mutex as well.

   A call is the steps the others can see: the section under the mutex, the look
   at the word, the wait, and the wake-up of those who wait.  Fibers are woken by
   ukern::WakeByAddress, which sets the word to 2, and native threads by the
   system, after which they look at the word again.  ukern::WaitOnAddress compares
   and blocks in one step (AddressArbiter).  A wake-up of several fibers follows
   an unlinked node: "wild", after which nothing is said. *)
EXTENDS Naturals, Sequences, FiniteSets

CONSTANTS Fibers, Natives, Messages, Max, NoMessage

Threads == Fibers \cup Natives

Blocking == {"send", "jam", "receive"}
Trying   == {"trysend", "tryjam", "tryreceive"}
Receives == {"receive", "tryreceive"}
Jams     == {"jam", "tryjam"}

VARIABLES
    m_message_buffer, m_count, m_offset,
    wait_value,  \* m_message_wait_value and m_clear_wait_value
    pc,          \* where each thread is
    call,        \* the call it makes and the message it has to send
    received,    \* the last message the queue gave out
    wild

NoCall == [op |-> "none", message |-> NoMessage]

buffer == <<m_message_buffer, m_count, m_offset>>
vars == <<buffer, wait_value, pc, call, received, wild>>

Init ==
    /\ m_message_buffer = [i \in 0..Max - 1 |-> NoMessage]
    /\ m_count = 0 /\ m_offset = 0
    /\ wait_value = [w \in {"message", "clear"} |-> 0]
    /\ pc = [t \in Threads |-> "idle"]
    /\ call = [t \in Threads |-> NoCall]
    /\ received = NoMessage
    /\ wild = FALSE

\* The word a thread waits on, and the one it signals once it has succeeded.
WaitsOn(t) == IF call[t].op \in Receives THEN "message" ELSE "clear"
Signals(t) == IF call[t].op \in Receives THEN "clear" ELSE "message"

Goes(t, place) ==
    /\ pc' = [pc EXCEPT ![t] = place]
    /\ call' = IF place = "idle" THEN [call EXCEPT ![t] = NoCall] ELSE call

-----------------------------------------------------------------------------
Call(t, op, m) ==
    /\ pc[t] = "idle"
    /\ call' = [call EXCEPT ![t] = [op |-> op, message |-> m]]
    /\ pc' = [pc EXCEPT ![t] = "section"]
    /\ UNCHANGED <<buffer, wait_value, received, wild>>

\* Mutant: the end of the ring is not the start of it for a sender.
Slot_NoWrap(i) == IF i > Max THEN i - Max ELSE IF i = Max THEN i - 1 ELSE i

Slot(i) == IF i >= Max THEN i - Max ELSE i

Insert(t) ==
    LET front == (IF m_offset < 1 THEN m_offset + Max ELSE m_offset) - 1
        at    == IF call[t].op \in Jams THEN front ELSE Slot(m_offset + m_count)
    IN  /\ m_message_buffer' = [m_message_buffer EXCEPT ![at] = call[t].message]
        /\ m_offset' = IF call[t].op \in Jams THEN front ELSE m_offset
        /\ m_count' = m_count + 1
        /\ UNCHANGED received

Remove(t) ==
    /\ received' = m_message_buffer[m_offset]
    /\ m_offset' = Slot(m_offset + 1)
    /\ m_count' = m_count - 1
    /\ UNCHANGED m_message_buffer

Possible(t) == IF call[t].op \in Receives THEN m_count # 0 ELSE m_count < Max

\* A blocking call that finds the ring full, or empty, takes back the news the
\* word holds.
Refused(t) ==
    /\ UNCHANGED <<buffer, received>>
    /\ IF call[t].op \in Trying
       THEN Goes(t, "idle") /\ UNCHANGED wait_value
       ELSE /\ wait_value' = [wait_value EXCEPT ![WaitsOn(t)] = IF @ = 2 THEN 0 ELSE @]
            /\ Goes(t, "look")

\* The section under m_busy_mutex.
Section(t) ==
    /\ pc[t] = "section"
    /\ IF Possible(t)
       THEN /\ IF call[t].op \in Receives THEN Remove(t) ELSE Insert(t)
            /\ Goes(t, "signal")
            /\ UNCHANGED wait_value
       ELSE Refused(t)
    /\ UNCHANGED wild

\* WaitForMessage and WaitForMessageClear up to the wait.
Look(t) ==
    /\ pc[t] = "look"
    /\ wait_value' = [wait_value EXCEPT ![WaitsOn(t)] = IF @ = 0 THEN 1 ELSE @]
    /\ Goes(t, IF wait_value[WaitsOn(t)] = 2 THEN "section" ELSE "wait")
    /\ UNCHANGED <<buffer, received, wild>>

\* WaitOnAddress: blocks while the word is 1.
Wait(t) ==
    /\ pc[t] = "wait"
    /\ Goes(t, IF wait_value[WaitsOn(t)] = 1 THEN "asleep" ELSE "section")
    /\ UNCHANGED <<buffer, wait_value, received, wild>>

Signal(t) ==
    /\ pc[t] = "signal"
    /\ wait_value' = [wait_value EXCEPT ![Signals(t)] = IF @ = 0 THEN 2 ELSE @]
    /\ Goes(t, IF wait_value[Signals(t)] = 1 THEN "wake" ELSE "idle")
    /\ UNCHANGED <<buffer, received, wild>>

Sleepers(t) == {s \in Threads : pc[s] = "asleep" /\ WaitsOn(s) = Signals(t)}

\* ukern::WakeByAddress, SignalType_SignalAndIncrementIfEqual with the value 1.
WakeFibers(t) ==
    /\ pc[t] = "wake"
    /\ IF wait_value[Signals(t)] # 1 THEN Goes(t, "wakeagain") /\ UNCHANGED <<wait_value, wild>>
       ELSE /\ wait_value' = [wait_value EXCEPT ![Signals(t)] = 2]
            /\ IF Cardinality(Sleepers(t) \cap Fibers) > 1 THEN wild' = TRUE /\ UNCHANGED pc
               ELSE /\ pc' = [s \in Threads |-> IF s = t THEN "wakenative"
                                                 ELSE IF s \in Sleepers(t) \cap Fibers THEN "section" ELSE pc[s]]
                    /\ UNCHANGED wild
            /\ UNCHANGED call
    /\ UNCHANGED <<buffer, received>>

\* Mutant: one of the native threads is woken.
Woken_Single(t) ==
    LET who == Sleepers(t) \cap Natives IN IF who = {} THEN {} ELSE {CHOOSE s \in who : TRUE}

Woken(t) == Sleepers(t) \cap Natives

\* WakeByAddressAll, and the next round if the word was not 1 any more.
WakeNatives(t) ==
    /\ pc[t] \in {"wakenative", "wakeagain"}
    /\ pc' = [s \in Threads |-> IF s = t THEN (IF pc[t] = "wakenative" THEN "idle" ELSE "signal")
                                ELSE IF s \in Woken(t) THEN "wait" ELSE pc[s]]
    /\ call' = IF pc[t] = "wakenative" THEN [call EXCEPT ![t] = NoCall] ELSE call
    /\ UNCHANGED <<buffer, wait_value, received, wild>>

Step(t) == Section(t) \/ Look(t) \/ Wait(t) \/ Signal(t) \/ WakeFibers(t) \/ WakeNatives(t)

Calls(t) ==
    \/ \E op \in (Blocking \cup Trying) \ Receives, m \in Messages : Call(t, op, m)
    \/ \E op \in Receives : Call(t, op, NoMessage)

Next == ~wild /\ \E t \in Threads : Calls(t) \/ Step(t)

\* Fibers and native threads run on once they have made a call.
Fairness == \A t \in Threads : WF_vars(~wild /\ Step(t))

Spec == Init /\ [][Next]_vars
FairSpec == Spec /\ Fairness

-----------------------------------------------------------------------------
\* The messages in the ring, the next one first.
Contents == [i \in 1..m_count |-> m_message_buffer[Slot(m_offset + i - 1)]]

Abstract == INSTANCE BoundedQueue WITH queue <- Contents

\* The ring, its wrap-around and the jams at its front are a bounded queue: no
\* message is lost, doubled, overtaken or given to two receivers.
ImplementsBoundedQueue == Abstract!Spec

TypeOK ==
    /\ m_message_buffer \in [0..Max - 1 -> Messages \cup {NoMessage}]
    /\ m_count \in 0..Max /\ m_offset \in 0..Max - 1
    /\ wait_value \in [{"message", "clear"} -> 0..2]
    /\ pc \in [Threads -> {"idle", "section", "look", "wait", "asleep", "signal", "wake", "wakenative", "wakeagain"}]
    /\ call \in [Threads -> [op : Blocking \cup Trying \cup {"none"}, message : Messages \cup {NoMessage}]]
    /\ received \in Messages \cup {NoMessage} /\ wild \in BOOLEAN

\* Nobody sleeps while what it waits for is there, unless somebody is on the way
\* to wake it: the word, changed outside of the mutex, never loses the news.
NoSleeperIsForgotten == ~wild =>
    \A t \in Threads : pc[t] = "asleep" /\ Possible(t) =>
        \E s \in Threads : Signals(s) = WaitsOn(t) /\ pc[s] \in {"signal", "wake", "wakenative", "wakeagain"}

\* Who sleeps is announced in the word, or is about to be woken.
SleepersAreAnnounced == ~wild =>
    \A t \in Threads : pc[t] = "asleep" /\ wait_value[WaitsOn(t)] # 1 =>
        t \in Natives /\ \E s \in Threads : Signals(s) = WaitsOn(t) /\ pc[s] = "wakenative"

\* A call that could go on does, or another one takes what it waited for.
CallsReturn ==
    \A t \in Threads : (pc[t] # "idle" /\ Possible(t)) ~> (pc[t] = "idle" \/ ~Possible(t) \/ wild)
=============================================================================
