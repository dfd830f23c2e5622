----------------------------- MODULE ServiceLock -----------------------------
(* sys::ServiceCriticalSection and sys::ServiceMutex, which fibers and native
   threads share.  Exclusion is that of a lock of the system, which `holder` has
   `depth` times; a fiber that sees an owner waits on a word instead, which is
   always 0, so that it is not told when the owner left before it waits.  A
   thread in "acquire" is blocked by the system, and with it the core a fiber
   runs on. *)
EXTENDS Naturals, FiniteSets

CONSTANTS
    Fibers, Natives, Nobody,
    MaxDepth  \* bound: how often the owner of a ServiceMutex enters

Threads == Fibers \cup Natives

VARIABLES
    recursive,  \* the lock is a ServiceMutex, whose owner may enter again
    m_owner, m_lock_count, holder, depth, pc

vars == <<recursive, m_owner, m_lock_count, holder, depth, pc>>

Init ==
    /\ recursive \in BOOLEAN
    /\ m_owner = Nobody /\ m_lock_count = 0
    /\ holder = Nobody /\ depth = 0
    /\ pc = [t \in Threads |-> "out"]

Goes(t, place) == pc' = [pc EXCEPT ![t] = place]

\* Enter: a native thread goes to the system, a fiber looks at the owner first.
Enter(t) ==
    /\ pc[t] = "out" \/ (recursive /\ pc[t] = "in" /\ depth < MaxDepth)
    /\ Goes(t, IF t \in Natives THEN "acquire" ELSE "look")
    /\ UNCHANGED <<recursive, m_owner, m_lock_count, holder, depth>>

Look(t) ==
    /\ pc[t] = "look"
    /\ Goes(t, IF m_owner = Nobody \/ (recursive /\ m_owner = t) THEN "acquire" ELSE "wait")
    /\ UNCHANGED <<recursive, m_owner, m_lock_count, holder, depth>>

\* WaitOnAddress: the word is 0, which is what it is compared with.
Wait(t) ==
    /\ pc[t] = "wait"
    /\ Goes(t, "asleep")
    /\ UNCHANGED <<recursive, m_owner, m_lock_count, holder, depth>>

\* Mutant: who has seen no owner takes the lock.
Acquire_Seen(t) ==
    /\ pc[t] = "acquire"
    /\ m_owner = Nobody \/ (recursive /\ m_owner = t)
    /\ holder' = t /\ depth' = depth + 1
    /\ m_owner' = t
    /\ m_lock_count' = m_lock_count + 1
    /\ Goes(t, "in")
    /\ UNCHANGED recursive

\* The system's lock is free, or a CRITICAL_SECTION of the same thread.
Acquire(t) ==
    /\ pc[t] = "acquire"
    /\ holder = Nobody \/ (recursive /\ holder = t)
    /\ holder' = t /\ depth' = depth + 1
    /\ m_owner' = t
    /\ m_lock_count' = m_lock_count + 1
    /\ Goes(t, "in")
    /\ UNCHANGED recursive

\* Leave: the owner is cleared, a fiber is woken, the system's lock given back.
Disown(t) ==
    /\ pc[t] = "in"
    /\ m_lock_count' = m_lock_count - 1
    /\ m_owner' = IF m_lock_count = 1 THEN Nobody ELSE m_owner
    /\ Goes(t, IF m_lock_count = 1 THEN "wake" ELSE "release")
    /\ UNCHANGED <<recursive, holder, depth>>

\* SignalType_Signal with a count of 1: the first fiber that waits and one more.
Wake(t) ==
    /\ pc[t] = "wake"
    /\ \E woken \in SUBSET {f \in Fibers : pc[f] = "asleep"} :
         /\ Cardinality(woken) = IF Cardinality({f \in Fibers : pc[f] = "asleep"}) < 2
                                 THEN Cardinality({f \in Fibers : pc[f] = "asleep"}) ELSE 2
         /\ pc' = [s \in Threads |-> IF s = t THEN "release" ELSE IF s \in woken THEN "look" ELSE pc[s]]
    /\ UNCHANGED <<recursive, m_owner, m_lock_count, holder, depth>>

Release(t) ==
    /\ pc[t] = "release"
    /\ depth' = depth - 1
    /\ holder' = IF depth = 1 THEN Nobody ELSE holder
    /\ Goes(t, IF depth = 1 THEN "out" ELSE "in")
    /\ UNCHANGED <<recursive, m_owner, m_lock_count>>

Next == \E t \in Threads :
    Enter(t) \/ Look(t) \/ Wait(t) \/ Acquire(t) \/ Disown(t) \/ Wake(t) \/ Release(t)

Spec == Init /\ [][Next]_vars

-----------------------------------------------------------------------------
TypeOK ==
    /\ recursive \in BOOLEAN
    /\ m_owner \in Threads \cup {Nobody} /\ holder \in Threads \cup {Nobody}
    /\ m_lock_count \in 0..MaxDepth + 1 /\ depth \in 0..MaxDepth + 1
    /\ pc \in [Threads -> {"out", "look", "wait", "asleep", "acquire", "in", "wake", "release"}]

\* The unlocked look at m_owner never lets two threads in: who is in holds the
\* system's lock, nobody else has a part of it, and the counts agree, however a
\* fiber's look and another one's Leave interleave.
OnlyTheHolderIsIn ==
    /\ \A t \in Threads : pc[t] \in {"in", "wake", "release"} => holder = t
    /\ m_owner # Nobody => holder = m_owner /\ m_lock_count > 0
    /\ holder = Nobody <=> depth = 0
=============================================================================
