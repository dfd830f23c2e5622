------------------------------ MODULE FairLock ------------------------------
(***************************************************************************)
(* What a BusyMutex promises: one holder at a time, served in the order in *)
(* which the threads asked.                                                *)
(***************************************************************************)
EXTENDS Sequences

CONSTANTS Threads, NoThread

VARIABLES
    queue,  \* the threads that asked and have not left, the holder first
    holder

vars == <<queue, holder>>

Init == queue = <<>> /\ holder = NoThread

\* A thread asks; it holds the lock at once if nobody else asked.
Request(t) ==
    /\ \A i \in DOMAIN queue : queue[i] # t
    /\ queue' = Append(queue, t)
    /\ holder' = IF queue = <<>> THEN t ELSE holder

\* The first thread of the queue notices that its turn has come.
Grant ==
    /\ holder = NoThread /\ queue # <<>>
    /\ holder' = Head(queue)
    /\ UNCHANGED queue

Release ==
    /\ holder # NoThread
    /\ queue' = Tail(queue)
    /\ holder' = NoThread

Next == (\E t \in Threads : Request(t)) \/ Grant \/ Release

Spec == Init /\ [][Next]_vars /\ WF_vars(Grant)
=============================================================================
