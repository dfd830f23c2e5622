----------------------------- MODULE BusyMutex -----------------------------
(***************************************************************************)
(* vp::util::BusyMutex (x86): a ticket spin lock in one 32-bit word, its   *)
(* upper half m_lock_count, its lower half m_release_count.  It protects   *)
(* the handle table, allocators and heaps.                                 *)
(*                                                                         *)
(* Enter adds one to the upper half of the word and reads both halves in   *)
(* the same interlocked operation; its ticket is the upper half before the *)
(* addition.  Leave increments the lower half alone.  Both halves wrap.    *)
(***************************************************************************)
EXTENDS Naturals, Sequences, FiniteSets

CONSTANTS
    Threads,
    CounterModulus, \* 2^16 in the code
    NoThread

\* A wrapped counter would serve two threads if more threads than it counts
\* could be inside Enter at once.
ASSUME BusyMutexAssumption ==
    /\ CounterModulus \in Nat
    /\ IsFiniteSet(Threads)
    /\ Cardinality(Threads) < CounterModulus
    /\ NoThread \notin Threads

VARIABLES
    m_release_count,
    m_lock_count,
    wait,  \* the ticket of each thread's last Enter
    pc     \* "out", "spin" or "in"

vars == <<m_release_count, m_lock_count, wait, pc>>

Counter == 0 .. CounterModulus - 1

\* Mutants: a counter that does not wrap; one that stops at its last value.
Increment_NoWrap(n) == n + 1
Increment_Saturate(n) == IF n + 1 = CounterModulus THEN n ELSE n + 1

\* The next value of a counter of the word's width.
Increment(n) == IF n + 1 = CounterModulus THEN 0 ELSE n + 1

\* The ticket drawn is the one being served.
EnterFree(t) == m_release_count = m_lock_count

Init ==
    /\ m_release_count = 0 /\ m_lock_count = 0
    /\ wait = [t \in Threads |-> 0]
    /\ pc = [t \in Threads |-> "out"]

\* Enter: the FetchAdd, and its test of the two halves.
Enter(t) ==
    /\ pc[t] = "out"
    /\ wait' = [wait EXCEPT ![t] = m_lock_count]
    /\ m_lock_count' = Increment(m_lock_count)
    /\ pc' = [pc EXCEPT ![t] = IF EnterFree(t) THEN "in" ELSE "spin"]
    /\ UNCHANGED m_release_count

\* Mutants: the spin waits for the turn after its own; for any later one too.
SpinEnds_Next(t) == m_release_count = Increment(wait[t])
SpinEnds_NotBefore(t) == m_release_count >= wait[t]

\* The condition on which the loop of Enter ends.
SpinEnds(t) == m_release_count = wait[t]

Spin(t) ==
    /\ pc[t] = "spin" /\ SpinEnds(t)
    /\ pc' = [pc EXCEPT ![t] = "in"]
    /\ UNCHANGED <<m_release_count, m_lock_count, wait>>

Leave(t) ==
    /\ pc[t] = "in"
    /\ m_release_count' = Increment(m_release_count)
    /\ pc' = [pc EXCEPT ![t] = "out"]
    /\ UNCHANGED <<m_lock_count, wait>>

Next == \E t \in Threads : Enter(t) \/ Spin(t) \/ Leave(t)

Spec == Init /\ [][Next]_vars

\* A spinning thread runs again and again, and the holder leaves.
Fairness == \A t \in Threads : WF_vars(Spin(t)) /\ WF_vars(Leave(t))

FairSpec == Spec /\ Fairness

-----------------------------------------------------------------------------
(* Properties. *)

\* The counters stay within their width and every thread is in or out of Enter.
TypeOK ==
    /\ m_release_count \in Counter /\ m_lock_count \in Counter
    /\ wait \in [Threads -> Counter]
    /\ pc \in [Threads -> {"out", "spin", "in"}]

\* At most one thread is between Enter and Leave, also after either counter of
\* the word has wrapped.
MutualExclusion == \A t, u \in Threads : pc[t] = "in" /\ pc[u] = "in" => t = u

\* The threads inside Enter and Leave, and how far counter b is ahead of a.
Busy == {t \in Threads : pc[t] # "out"}
Ahead(a, b) == IF b >= a THEN b - a ELSE b + CounterModulus - a

\* Why it holds, and what the proof needs: the tickets of the busy threads are
\* distinct, lie between the two counters and are as many as those count, and
\* the holder's is the one being served.
TicketsDistinct == \A t, u \in Busy : wait[t] = wait[u] => t = u
TicketsInWindow ==
    \A t \in Busy : Ahead(m_release_count, wait[t]) < Ahead(m_release_count, m_lock_count)
WindowCountsBusy == Ahead(m_release_count, m_lock_count) = Cardinality(Busy)
HolderIsServed   == \A t \in Threads : pc[t] = "in" => wait[t] = m_release_count

TicketInv == TicketsDistinct /\ TicketsInWindow /\ WindowCountsBusy /\ HolderIsServed

\* A thread that spins gets the lock.
EveryTicketIsServed == \A t \in Threads : pc[t] = "spin" ~> pc[t] = "in"

\* The abstract specification, its queue the threads inside in the order of
\* their tickets: Enter and Leave serve them one by one in the order of FetchAdd.
TicketQueue ==
    [i \in 1 .. Cardinality(Busy) |->
        CHOOSE t \in Busy : Ahead(m_release_count, wait[t]) = i - 1]

Holder ==
    IF \E t \in Threads : pc[t] = "in"
    THEN CHOOSE t \in Threads : pc[t] = "in" ELSE NoThread

FairLock == INSTANCE FairLock WITH queue <- TicketQueue, holder <- Holder

ImplementsFairLock == FairLock!Spec
=============================================================================
