------------------------- MODULE ConditionVariable -------------------------
(***************************************************************************)
(* awn::ukern::InternalConditionVariable over CriticalSection: Wait,       *)
(* TimedWait, Signal and Broadcast with WaitKeyImpl, SignalKeyImpl,        *)
(* TransferFiberForSignalKey and KeyArbiter::CancelWait.                   *)
(*                                                                         *)
(* One condition variable, waited on with the lock CvLock.  Its first      *)
(* waiter, the parent, is in the scheduler's wait list; the next ones are  *)
(* in the parent's own wait_list, the very list in which waiters for the   *)
(* locks it owns are.  The fibers neither sleep nor use another condition  *)
(* variable, so m_wait_list holds nobody but the parent and wait_address,  *)
(* by which it is found, is left out.                                      *)
(*                                                                         *)
(* stolen: a wait that timed out has taken the lock from its owner.        *)
(* wild: list code has left its list or has spliced two lists into one;    *)
(* the behaviour is undefined from there and the model stops.              *)
(***************************************************************************)
EXTENDS CriticalSection

CONSTANTS
    CvLock,
    Waiters,    \* the fibers that call Wait and TimedWait
    Timeouts    \* {"never"} for Wait, "finite" for TimedWait

ASSUME ConditionVariableAssumption ==
    /\ CvLock \in Locks
    /\ Waiters \subseteq Fibers
    /\ Timeouts \subseteq {"finite", "never"}

VARIABLES
    m_cv,   \* 1 while somebody may wait
    stolen, \* a wait that timed out has taken the lock from its owner
    wild

cvVars == <<m_cv, stolen, wild>>
allVars == <<vars, cvVars>>

Parent == IF m_wait_list = <<>> THEN NoFiber ELSE Head(m_wait_list)

\* m_wait_list and wait_list (lists, before) once f has joined the waiters: a
\* child of the parent if there is one, else the parent.
JoinCvWaiters(f, lists) ==
    IF Parent = NoFiber
    THEN m_wait_list' = <<f>> /\ wait_list' = lists
    ELSE wait_list' = [lists EXCEPT ![Parent] = Append(@, f)] /\ UNCHANGED m_wait_list

-----------------------------------------------------------------------------
\* Mutant: the lock is just cleared while others queue for it.
WaitReleasesLock_NoHandOver(f) ==
    /\ m_handle' = [m_handle EXCEPT ![CvLock] = Unlocked]
    /\ JoinCvWaiters(f, wait_list)
    /\ fiber_state' = [fiber_state EXCEPT ![f] = "Waiting"]
    /\ waitable_object' = [waitable_object EXCEPT ![f] = "key"]
    /\ lock_address' = [lock_address EXCEPT ![f] = CvLock]
    /\ UNCHANGED <<m_thread_queue, m_runnable_fibers, asleep, last_result>>

\* The part of WaitKeyImpl that releases the lock, to the one fiber that waits
\* for it or to nobody, and leaves f waiting.
WaitReleasesLock(f) ==
    IF wait_list[f] = <<>>
    THEN /\ m_handle' = [m_handle EXCEPT ![CvLock] = Unlocked]
         /\ JoinCvWaiters(f, wait_list)
         /\ fiber_state' = [fiber_state EXCEPT ![f] = "Waiting"]
         /\ waitable_object' = [waitable_object EXCEPT ![f] = "key"]
         /\ lock_address' = [lock_address EXCEPT ![f] = CvLock]
         /\ UNCHANGED <<m_thread_queue, m_runnable_fibers, asleep, last_result>>
    ELSE LET next_owner == Head(wait_list[f])
         IN  /\ m_handle' = [m_handle EXCEPT ![lock_address[next_owner]] = Tag(next_owner)]
             /\ JoinCvWaiters(f, [wait_list EXCEPT ![f] = <<>>])
             /\ m_thread_queue' = Insert(m_thread_queue, priority, next_owner)
             /\ m_runnable_fibers' = m_runnable_fibers + 1
             /\ WakeByAddressSingle(1)
             /\ fiber_state' = [fiber_state EXCEPT ![next_owner] = "Scheduled", ![f] = "Waiting"]
             /\ waitable_object' = [waitable_object EXCEPT ![next_owner] = "none", ![f] = "key"]
             /\ lock_address' = [lock_address EXCEPT ![next_owner] = NoLock, ![f] = CvLock]
             /\ last_result' = [last_result EXCEPT ![next_owner] = "Success"]

\* Wait and TimedWait: the integrity checks, then WaitKeyImpl.  Two fibers or
\* more behind f: ReleaseLockWaitListUnsafe does not end.
WaitKey(f, c, absolute_timeout) ==
    /\ At(f, c, "idle") /\ LockFree
    /\ CvLock \in held[f] /\ f \in Waiters
    /\ IF m_handle[CvLock].owner # f
       THEN \* the VP_ASSERT in front, or ResultInvalidLockAddressValue, which
            \* Wait aborts on and TimedWait does not look at
            /\ aborted' \in (IF absolute_timeout = "never" THEN {TRUE} ELSE BOOLEAN)
            /\ UNCHANGED <<waitVars, readyVars, phase, m_scheduler_lock, m_handle, lock_address,
                           pc, held, m_cv>>
       ELSE IF Len(wait_list[f]) > 1
       THEN /\ ReleaseLockWaitListUnsafe(f, c)
            /\ held' = [held EXCEPT ![f] = @ \ {CvLock}]
            /\ UNCHANGED <<m_wait_list, phase, aborted, m_cv>>
       ELSE /\ WaitReleasesLock(f)
            /\ m_cv' = 1
            /\ timeout' = [g \in Fibers |->
                              IF g = f THEN absolute_timeout
                              ELSE IF g \in Elements(wait_list[f]) THEN "none" ELSE timeout[g]]
            /\ SwitchToScheduler(c)
            /\ Goto(f, "waited")
            /\ held' = [held EXCEPT ![f] = @ \ {CvLock}]
            /\ UNCHANGED aborted
    /\ UNCHANGED <<fiberVars, restVars, current_core, local_ring, running, operand, handle, stolen, wild>>

\* Wait and TimedWait return: whoever ended the wait has seen to the lock.
WaitReturns(f, c) ==
    /\ At(f, c, "waited")
    /\ held' = [held EXCEPT ![f] = @ \cup {CvLock}]
    /\ Return(f)
    /\ UNCHANGED <<kernelVars, m_handle, lock_address, cvVars>>

\* Signal and Broadcast: nothing more if m_cv is 0.
BeginSignal(f, c, call) ==
    /\ At(f, c, "idle") /\ m_cv = 1
    /\ Goto(f, call)
    /\ UNCHANGED <<kernelVars, m_handle, lock_address, operand, handle, held, cvVars>>

\* Mutant: the owner is not told.
TransferToOwner_NoBit(p, call) ==
    LET owner == m_handle[CvLock].owner
    IN  /\ wild' = (owner = NoFiber \/ (call = "broadcast" /\ wait_list[p] # <<>>))
        /\ wait_list' = IF owner = NoFiber THEN wait_list
                        ELSE [wait_list EXCEPT ![owner] = Append(@, p)]
        /\ UNCHANGED <<m_handle, waitable_object, timeout, last_result, readyVars>>

\* TransferFiberForSignalKey of the parent p when the lock is taken: p, which
\* keeps its children, waits for the lock.  A loop on to a second child would
\* continue in the list of the lock's owner.
TransferToOwner(p, call) ==
    LET owner == m_handle[CvLock].owner
    IN  /\ wild' = (owner = NoFiber \/ (call = "broadcast" /\ wait_list[p] # <<>>))
        /\ m_handle' = [m_handle EXCEPT ![CvLock].waiters = TRUE]
        /\ wait_list' = IF owner = NoFiber THEN wait_list
                        ELSE [wait_list EXCEPT ![owner] = Append(@, p)]
        /\ UNCHANGED <<waitable_object, timeout, last_result, readyVars>>

\* Mutant: the parent is made runnable without the lock.
TakeLockBack_NotTaken(p, call) ==
    /\ m_handle' = m_handle
    /\ wait_list' = wait_list
    /\ waitable_object' = [waitable_object EXCEPT ![p] = "none"]
    /\ EndFiberWaitImpl(<<p>>, "Success")
    /\ UNCHANGED wild

\* The same when the lock is free: p owns it and is runnable.  A broadcast moves
\* the first child to the end of p's list, as a waiter for the lock, and finds
\* itself at the end; the other children are there already.
TakeLockBack(p, call) ==
    LET transfers == call = "broadcast" /\ wait_list[p] # <<>>
    IN  /\ m_handle' = [m_handle EXCEPT ![CvLock] = [owner |-> p, waiters |-> transfers]]
        /\ wait_list' = IF transfers
                        THEN [wait_list EXCEPT ![p] = Append(Tail(@), Head(@))] ELSE wait_list
        /\ waitable_object' = [waitable_object EXCEPT ![p] = "none"]
        /\ EndFiberWaitImpl(<<p>>, "Success")
        /\ UNCHANGED wild

\* SignalKeyImpl(&m_cv, 1 or -1).
SignalKey(f, c) ==
    /\ Runs(f, c) /\ pc[f] \in {"signal", "broadcast"} /\ LockFree
    /\ IF Parent = NoFiber
       THEN UNCHANGED <<waitVars, readyVars, m_handle, m_cv, wild>>
       ELSE /\ IF m_handle[CvLock] = Unlocked
               THEN TakeLockBack(Parent, pc[f]) ELSE TransferToOwner(Parent, pc[f])
            /\ m_wait_list' = <<>>
            /\ m_cv' = 0
    /\ Goto(f, "idle")
    /\ UNCHANGED <<fiberVars, restVars, current_core, local_ring, m_scheduler_lock, phase, running,
                   aborted, lock_address, operand, handle, held, stolen>>

-----------------------------------------------------------------------------
\* wait_list when the parent f gives its children to the first of them, which is
\* not put in any list itself.
OrphanFirstChild(f) ==
    IF wait_list[f] = <<>> THEN wait_list
    ELSE [wait_list EXCEPT ![f] = <<>>, ![Head(wait_list[f])] = @ \o Tail(wait_list[f])]

\* Mutant: f returns as if the lock were its own.
CancelWithLock_NotTaken(f) ==
    /\ m_handle' = m_handle
    /\ m_wait_list' = Without(m_wait_list, f)
    /\ wait_list' = OrphanFirstChild(f)
    /\ EndFiberWaitImpl(<<f>>, "Timeout")
    /\ UNCHANGED wild

\* KeyArbiter::CancelWait with the lock free: f returns with it.
CancelWithLock(f) ==
    /\ m_handle' = [m_handle EXCEPT ![CvLock] = Tag(f)]
    /\ m_wait_list' = Without(m_wait_list, f)
    /\ wait_list' = OrphanFirstChild(f)
    /\ EndFiberWaitImpl(<<f>>, "Timeout")
    /\ UNCHANGED wild

\* KeyArbiter::CancelWait with the lock taken: the word names f from now on, f is
\* put behind the owner, and the owner is taken from its list and "Suspended".
\* With children, f is still in m_wait_list when it is put in the other list.
CancelStealingLock(f) ==
    LET owner == m_handle[CvLock].owner
        left  == OrphanFirstChild(f)
    IN  /\ wild' = (owner = NoFiber \/ wait_list[f] # <<>>)
        /\ m_handle' = [m_handle EXCEPT ![CvLock] = WithChildWaitersBit(Tag(f))]
        /\ m_wait_list' = Without(Without(m_wait_list, f), owner)
        /\ IF owner = NoFiber THEN UNCHANGED <<wait_list, fiber_state>>
           ELSE /\ wait_list' = [g \in Fibers |-> IF g = owner THEN Append(left[g], f)
                                                  ELSE Without(left[g], owner)]
                /\ fiber_state' = [fiber_state EXCEPT ![owner] = "Suspended"]
        /\ UNCHANGED <<m_thread_queue, m_runnable_fibers, asleep, last_result, timeout>>

\* SchedulerFiberMain finds the parent's time over.
CancelKeyWait(c, f) ==
    /\ phase[c] = "scan" /\ Schedules(c)
    /\ TimedOut(f, c) /\ waitable_object[f] = "key"
    /\ IF m_handle[CvLock] = Unlocked
       THEN CancelWithLock(f) /\ UNCHANGED stolen
       ELSE CancelStealingLock(f) /\ stolen' = TRUE
    /\ UNCHANGED <<fiberVars, waitable_object, restVars, current_core, local_ring, m_scheduler_lock,
                   phase, running, aborted, lock_address, pc, operand, handle, held, m_cv>>

-----------------------------------------------------------------------------
CvStep(f, c) ==
    \/ \E absolute_timeout \in Timeouts : WaitKey(f, c, absolute_timeout)
    \/ WaitReturns(f, c)
    \/ BeginSignal(f, c, "signal") \/ BeginSignal(f, c, "broadcast")
    \/ SignalKey(f, c)

CvInit == Init /\ m_cv = 0 /\ stolen = FALSE /\ wild = FALSE

CvNext ==
    /\ ~wild
    /\ \/ Next /\ UNCHANGED cvVars
       \/ \E c \in Cores, f \in Fibers : CvStep(f, c) \/ CancelKeyWait(c, f)

CvSpec == CvInit /\ [][CvNext]_allVars

\* The cores' threads run; a fiber finishes the call it is in (it gets the
\* scheduler lock, which is free again and again, also when resting cores take it
\* in between), leaves what it entered, gives up its core, and, if it does not
\* wait, signals, again and again.
CvFairness ==
    /\ \A c \in Cores : WF_allVars(SchedulerStep(c) /\ UNCHANGED <<lockVars, cvVars>>)
    /\ \A f \in Fibers :
        /\ SF_allVars(\E c \in Cores :
               /\ UNCHANGED cvVars
               /\ \/ CompareExchange(f, c) \/ SetWaitersBit(f, c)
                  \/ ArbitrateLock(f, c) \/ Recheck(f, c) \/ ArbitrateUnlock(f, c))
        /\ SF_allVars(\E c \in Cores : WaitReturns(f, c) \/ SignalKey(f, c))
        /\ \A l \in Locks : SF_allVars(\E c \in Cores : Leave(f, c, l) /\ UNCHANGED cvVars)
        /\ SF_allVars(\E c \in Cores : Yield(f, c) /\ UNCHANGED cvVars)
    /\ \A f \in Fibers \ Waiters :
        SF_allVars(\E c \in Cores : BeginSignal(f, c, "signal"))

CvFairSpec == CvSpec /\ CvFairness

-----------------------------------------------------------------------------
(* Properties. *)

\* The condition variable's word, the places in its calls and the rest have
\* their types.
CvTypeOK ==
    /\ SchedulerTypeOK
    /\ m_handle \in [Locks -> Word]
    /\ lock_address \in [Fibers -> Locks \cup {NoLock}]
    /\ pc \in [Fibers -> PC \cup {"waited", "signal", "broadcast"}]
    /\ operand \in [Fibers -> Locks \cup {NoLock}] /\ handle \in [Fibers -> Word]
    /\ held \in [Fibers -> SUBSET Locks]
    /\ m_cv \in {0, 1} /\ stolen \in BOOLEAN /\ wild \in BOOLEAN

\* A fiber that is back from Wait or TimedWait owns the lock by its word, for as
\* long as it does not leave or wait again, until a wait that times out steals it.
WaiterOwnsLock == stolen \/ \A f \in Fibers : CvLock \in held[f] => m_handle[CvLock].owner = f

\* No waiter is lost.  One that nobody has signalled is the parent, or behind
\* it, and m_cv lets the next Signal through; one that was signalled is queued
\* at the owner of the lock, whose word sends that owner's Leave to the queue.
WaitersAreSignalled ==
    (LockFree /\ ~wild /\ ~aborted /\ ~stolen) => \A f \in Fibers :
        fiber_state[f] = "Waiting" /\ pc[f] = "waited" =>
            \/ m_cv = 1 /\ Parent # NoFiber /\ f \in {Parent} \cup Elements(wait_list[Parent])
            \/ LET w == m_handle[CvLock]
               IN  w.waiters /\ w.owner # NoFiber /\ f \in Elements(wait_list[w.owner])

\* List code stays in the list it walks, and moves only nodes that are in none.
ListsAreSound == ~wild

\* Every call returns, Wait once it is signalled again and again, the others once
\* the lock is left, unless the program aborts, hangs in ReleaseLockWaitListUnsafe
\* or has had a lock stolen.
WaitsReturn ==
    \A f \in Fibers :
        pc[f] # "idle" ~>
            \/ pc[f] = "idle"
            \/ wild \/ aborted \/ stolen
            \/ \E g \in Fibers : pc[g] = "hung"

=============================================================================
