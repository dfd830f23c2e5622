---------------------------- MODULE ServiceEvent ----------------------------
(* sys::ServiceEvent, which fibers and native threads wait on and signal without
   a lock.  The word m_state is 0, 1 while somebody waits, or 2 once signaled.

   The steps are those the others can see: the exchange on the word, the wait,
   what a native thread tests when the system has woken it, and the wake-up.
   ukern::WaitOnAddress compares and blocks in one step (AddressArbiter).

   Nothing is said any more once the event is `broken`: a signal with nobody to
   wake follows a null pointer, one with several fibers to wake an unlinked node;
   the fibers behind one that times out are in no list (AddressArbiter: lost);
   and an assertion refuses the timeout of a native thread.  No timeout is over
   before the wait begins. *)
EXTENDS Naturals, FiniteSets

CONSTANTS Fibers, Natives

Threads == Fibers \cup Natives

VARIABLES
    m_is_auto_reset,  \* given to the constructor
    m_state, pc,
    last,     \* the local variable of each thread that waits
    timed,    \* the thread is in TimedWait
    broken

vars == <<m_is_auto_reset, m_state, pc, last, timed, broken>>

Init ==
    /\ m_is_auto_reset \in BOOLEAN
    /\ m_state = 0
    /\ pc = [t \in Threads |-> "idle"]
    /\ last = [t \in Threads |-> 0]
    /\ timed = [t \in Threads |-> FALSE]
    /\ broken = FALSE

\* A thread that is idle keeps nothing of its last call.
Goes(t, place) ==
    /\ pc' = [pc EXCEPT ![t] = place]
    /\ last' = IF place = "idle" THEN [last EXCEPT ![t] = 0] ELSE last
    /\ timed' = IF place = "idle" THEN [timed EXCEPT ![t] = FALSE] ELSE timed

-----------------------------------------------------------------------------
CallWait(t, with_timeout) ==
    /\ pc[t] = "idle"
    /\ pc' = [pc EXCEPT ![t] = "look"]
    /\ timed' = [timed EXCEPT ![t] = with_timeout]
    /\ UNCHANGED <<m_is_auto_reset, m_state, last, broken>>

CallSignal(t) ==
    /\ pc[t] = "idle"
    /\ Goes(t, "signal")
    /\ UNCHANGED <<m_is_auto_reset, m_state, broken>>

\* Mutant: the word is set to 0 whatever it was.
Clear_Waiters(t) == pc[t] = "idle" /\ m_state' = 0 /\ UNCHANGED <<m_is_auto_reset, pc, last, timed, broken>>

Clear(t) ==
    /\ pc[t] = "idle"
    /\ m_state' = IF m_state = 2 THEN 0 ELSE m_state
    /\ UNCHANGED <<m_is_auto_reset, pc, last, timed, broken>>

\* Wait and TimedWait up to the wait, with manual reset: the first to wait sets
\* the word to 1.
LookManual(t) ==
    /\ ~m_is_auto_reset /\ pc[t] = "look"
    /\ IF m_state = 2
       THEN Goes(t, "idle") /\ UNCHANGED m_state
       ELSE /\ m_state' = 1
            /\ last' = [last EXCEPT ![t] = m_state]
            /\ pc' = [pc EXCEPT ![t] = "wait"]
            /\ UNCHANGED timed
    /\ UNCHANGED <<m_is_auto_reset, broken>>

\* With automatic reset: `continue` evaluates WaitImpl(last), which waits only if
\* the word was 1 when the thread looked.
LookAuto(t) ==
    /\ m_is_auto_reset /\ pc[t] = "look"
    /\ CASE m_state = 0 -> m_state' = 1 /\ UNCHANGED <<pc, last, timed>>
         [] m_state = 1 -> /\ pc' = [pc EXCEPT ![t] = "wait"]
                           /\ last' = [last EXCEPT ![t] = 1]
                           /\ UNCHANGED <<m_state, timed>>
         [] m_state = 2 -> Goes(t, "idle") /\ m_state' = 0
    /\ UNCHANGED <<m_is_auto_reset, broken>>

\* The kernel blocks who finds a 1.  A fiber that finds another value leaves, or
\* looks again with automatic reset; a native thread tests it.
Wait(t) ==
    /\ pc[t] = "wait"
    /\ Goes(t, IF m_state = 1 THEN "asleep"
               ELSE IF t \in Natives THEN "test"
               ELSE IF m_is_auto_reset THEN "look" ELSE "idle")
    /\ UNCHANGED <<m_is_auto_reset, m_state, broken>>

\* What ends a native thread's loop.  Wait compares two local variables, so
\* that a thread that found a 1 when it came goes on for ever.
TestManual(t) ==
    /\ pc[t] = "test" /\ ~m_is_auto_reset
    /\ IF timed[t]
       THEN /\ Goes(t, IF m_state = 2 THEN "idle" ELSE "wait")
            /\ m_state' = IF m_state = 0 THEN 1 ELSE m_state
       ELSE Goes(t, IF last[t] = 1 THEN "wait" ELSE "idle") /\ UNCHANGED m_state
    /\ UNCHANGED <<m_is_auto_reset, broken>>

TestAuto(t) ==
    /\ pc[t] = "test" /\ m_is_auto_reset
    /\ Goes(t, IF timed[t] THEN (IF m_state = 1 THEN "wait" ELSE "look") ELSE "wait")
    /\ UNCHANGED <<m_is_auto_reset, m_state, broken>>

Asleep(set) == {t \in set : pc[t] = "asleep"}

\* A timeout ends the wait of a fiber; the others that sleep are lost if it came
\* first, and stay where they are if it did not.
ExpireFiber(t) ==
    /\ t \in Fibers /\ pc[t] = "asleep" /\ timed[t]
    /\ \/ Goes(t, "idle") /\ UNCHANGED broken
       \/ Asleep(Fibers) # {t} /\ broken' = TRUE /\ UNCHANGED <<pc, last, timed>>
    /\ UNCHANGED <<m_is_auto_reset, m_state>>

\* A native thread looks what time is left.  When there is none it leaves the
\* loop, with manual reset to assert that `last`, which is 0 or 1, is 2.
ExpireNative(t) ==
    /\ t \in Natives /\ pc[t] = "asleep" /\ timed[t]
    /\ \/ Goes(t, "test") /\ UNCHANGED broken
       \/ ~m_is_auto_reset /\ broken' = TRUE /\ UNCHANGED <<pc, last, timed>>
    /\ UNCHANGED <<m_is_auto_reset, m_state>>

-----------------------------------------------------------------------------
\* Mutant: the word is set to 2 whatever it was.
Signal_Store(t) ==
    /\ pc[t] = "signal"
    /\ Goes(t, IF m_state = 1 THEN "wake" ELSE "idle")
    /\ m_state' = 2
    /\ UNCHANGED <<m_is_auto_reset, broken>>

Signal(t) ==
    /\ pc[t] = "signal"
    /\ Goes(t, IF m_state = 1 THEN "wake" ELSE "idle")
    /\ m_state' = IF m_state = 0 THEN 2 ELSE m_state
    /\ UNCHANGED <<m_is_auto_reset, broken>>

\* The threads `woken` go on at `place`, or are done, and t goes to the next step.
Wakes(t, woken, place, next) ==
    /\ pc' = [s \in Threads |-> IF s = t THEN next ELSE IF s \in woken THEN place ELSE pc[s]]
    /\ last' = [s \in Threads |-> IF s = t \/ (s \in woken /\ place = "idle") THEN 0 ELSE last[s]]
    /\ timed' = [s \in Threads |-> IF s = t \/ (s \in woken /\ place = "idle") THEN FALSE ELSE timed[s]]

\* SignalType_SignalAndIncrementIfEqual: the word is 2, and the fiber that waits
\* is woken.
WakeFibersManual(t) ==
    /\ pc[t] = "wake" /\ ~m_is_auto_reset
    /\ IF m_state # 1 THEN Goes(t, "wakeagain") /\ UNCHANGED <<m_state, broken>>
       ELSE /\ m_state' = 2
            /\ IF Cardinality(Asleep(Fibers)) > 1 THEN broken' = TRUE /\ UNCHANGED <<pc, last, timed>>
               ELSE Wakes(t, Asleep(Fibers), "idle", "wakenative") /\ UNCHANGED broken
    /\ UNCHANGED m_is_auto_reset

\* SignalType_SignalAndModifyByWaiterCountIfEqual with a count of 1: the first
\* fiber that waits and one more.  The word becomes 0 if there was only the
\* first, and stays 1 otherwise.
WakeFibersAuto(t) ==
    /\ pc[t] = "wake" /\ m_is_auto_reset
    /\ LET waiting == Asleep(Fibers) IN
       IF m_state # 1 THEN Goes(t, "wakeagain") /\ UNCHANGED <<m_state, broken>>
       ELSE IF waiting = {} THEN broken' = TRUE /\ m_state' = 2 /\ UNCHANGED <<pc, last, timed>>
       ELSE \E woken \in SUBSET waiting :
              /\ Cardinality(woken) = IF Cardinality(waiting) = 1 THEN 1 ELSE 2
              /\ m_state' = IF Cardinality(waiting) = 1 THEN 0 ELSE 1
              /\ Wakes(t, woken, "idle", "wakenative")
              /\ UNCHANGED broken
    /\ UNCHANGED m_is_auto_reset

\* Mutant: one native thread is woken with manual reset too.
WakeNatives_Single(t) ==
    /\ pc[t] \in {"wakenative", "wakeagain"}
    /\ \E woken \in SUBSET Asleep(Natives) :
         /\ Cardinality(woken) = (IF Asleep(Natives) = {} THEN 0 ELSE 1)
         /\ Wakes(t, woken, "test", IF pc[t] = "wakenative" THEN "idle" ELSE "signal")
    /\ UNCHANGED <<m_is_auto_reset, m_state, broken>>

\* WakeByAddressAll, or WakeByAddressSingle with automatic reset, and the next
\* round if the word had changed.
WakeNatives(t) ==
    /\ pc[t] \in {"wakenative", "wakeagain"}
    /\ \E woken \in SUBSET Asleep(Natives) :
         /\ IF m_is_auto_reset THEN Cardinality(woken) = (IF Asleep(Natives) = {} THEN 0 ELSE 1)
            ELSE woken = Asleep(Natives)
         /\ Wakes(t, woken, "test", IF pc[t] = "wakenative" THEN "idle" ELSE "signal")
    /\ UNCHANGED <<m_is_auto_reset, m_state, broken>>

Waiting(t) == LookManual(t) \/ LookAuto(t) \/ Wait(t) \/ TestManual(t) \/ TestAuto(t)
Signalling(t) == Signal(t) \/ WakeFibersManual(t) \/ WakeFibersAuto(t) \/ WakeNatives(t)

Calls(t) == (\E w \in BOOLEAN : CallWait(t, w)) \/ CallSignal(t) \/ Clear(t)

Next == ~broken /\ \E t \in Threads : Calls(t) \/ Waiting(t) \/ Signalling(t) \/ ExpireFiber(t) \/ ExpireNative(t)

\* Threads that are awake run on.
Fairness == \A t \in Threads : WF_vars(~broken /\ (Waiting(t) \/ Signalling(t)))

Spec == Init /\ [][Next]_vars
FairSpec == Spec /\ Fairness

-----------------------------------------------------------------------------
TypeOK ==
    /\ m_is_auto_reset \in BOOLEAN /\ m_state \in 0..2
    /\ pc \in [Threads -> {"idle", "look", "wait", "asleep", "test", "signal", "wake", "wakenative", "wakeagain"}]
    /\ last \in [Threads -> 0..1]
    /\ timed \in [Threads -> BOOLEAN]
    /\ broken \in BOOLEAN

OnTheWay == \E s \in Threads : pc[s] \in {"signal", "wake", "wakenative", "wakeagain"}

\* Nobody sleeps on an event that is signaled, unless the one who signaled it is
\* about to wake it (manual reset).
NoSleeperIsForgotten ==
    ~broken /\ ~m_is_auto_reset /\ m_state = 2 /\ (\E t \in Threads : pc[t] = "asleep") => OnTheWay

\* A thread sleeps only while the word says so: nobody who comes to signal can
\* overlook it.  (With automatic reset this is true of the fibers.)
SleepersAreAnnounced == ~broken =>
    \A t \in Threads : pc[t] = "asleep" /\ (m_is_auto_reset => t \in Fibers) => m_state = 1 \/ OnTheWay

\* Who announced itself, and sleeps when the event is signaled, leaves: even if
\* the event is cleared again at once (manual reset).
AnnouncedWaitReturns ==
    \A t \in Threads : (~m_is_auto_reset /\ pc[t] = "asleep" /\ last[t] = 0 /\ ~timed[t] /\ m_state = 2) ~> (pc[t] = "idle" \/ broken)

\* "Wake all waiters": who waits on an event that stays signaled leaves.
AllWaitersWake ==
    \A t \in Threads : (pc[t] = "asleep" /\ m_state = 2) ~> (pc[t] = "idle" \/ m_state # 2 \/ broken)
=============================================================================
