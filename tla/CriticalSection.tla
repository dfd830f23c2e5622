-------------------------- MODULE CriticalSection --------------------------
(***************************************************************************)
(* awn::ukern::InternalCriticalSection over UserScheduler: Enter, TryEnter *)
(* and Leave with the slow paths ArbitrateLockImpl, ArbitrateUnlockImpl    *)
(* and ReleaseLockWaitListUnsafe.                                          *)
(*                                                                         *)
(* A lock is a word: the handle of its owner or 0, and HasChildWaitersBit. *)
(* Here it is the record [owner, waiters], with NoFiber for the handle 0.  *)
(* The fast paths are single interlocked operations of a running fiber and *)
(* take no lock; the slow paths hold m_scheduler_lock.  All the waiters of *)
(* all the locks of a fiber are in one list, its wait_list.                *)
(*                                                                         *)
(* The fibers exist from the start and none exits.  The wait_tag of a      *)
(* waiter is always its own handle and is left out.                        *)
(***************************************************************************)
EXTENDS UserScheduler

CONSTANTS Locks, NoLock

\* A fiber that holds a lock enters only greater ones.
ASSUME LocksAssumption == Locks \subseteq Nat /\ NoLock \notin Locks

VARIABLES
    m_handle,      \* the word of each lock
    lock_address,  \* FiberLocalStorage::lock_address
    pc,            \* where each fiber is in Enter or Leave
    operand,       \* the lock it is at
    handle,        \* Enter's local variable
    held           \* ghost: the locks whose Enter returned and that were not left

lockVars == <<m_handle, lock_address, pc, operand, handle, held>>
vars == <<kernelVars, lockVars>>

Word     == [owner : Fibers \cup {NoFiber}, waiters : BOOLEAN]
Unlocked == [owner |-> NoFiber, waiters |-> FALSE]
Tag(f)   == [owner |-> f, waiters |-> FALSE]
WithChildWaitersBit(w) == [w EXCEPT !.waiters = TRUE]

PC == {"idle", "exchange", "set_bit", "arbitrate", "recheck", "unlock", "hung"}

\* Running fiber f is at the given place of its call.
At(f, c, place) == Runs(f, c) /\ pc[f] = place

Goto(f, place) == pc' = [pc EXCEPT ![f] = place]
Return(f)      == Goto(f, "idle") /\ operand' = [operand EXCEPT ![f] = NoLock]
                                  /\ handle' = [handle EXCEPT ![f] = Unlocked]

-----------------------------------------------------------------------------
\* A fiber calls Enter.
BeginEnter(f, c, lock) ==
    /\ At(f, c, "idle") /\ \A l \in held[f] : l < lock
    /\ Goto(f, "exchange") /\ operand' = [operand EXCEPT ![f] = lock]
    /\ UNCHANGED <<kernelVars, m_handle, lock_address, handle, held>>

\* The CompareExchange that heads the acquire loop.
CompareExchange(f, c) ==
    /\ At(f, c, "exchange")
    /\ LET l == operand[f]
       IN  IF m_handle[l] = Unlocked
           THEN /\ m_handle' = [m_handle EXCEPT ![l] = Tag(f)]
                /\ held' = [held EXCEPT ![f] = @ \cup {l}]
                /\ Return(f)
           ELSE /\ handle' = [handle EXCEPT ![f] = m_handle[l]]
                /\ Goto(f, IF m_handle[l].waiters THEN "arbitrate" ELSE "set_bit")
                /\ UNCHANGED <<m_handle, operand, held>>
    /\ UNCHANGED <<kernelVars, lock_address>>

\* Mutant: a store of the word read before, with the bit, instead of the FetchOr.
SetWaitersBit_Store(f, c) ==
    /\ At(f, c, "set_bit")
    /\ LET l == operand[f]
       IN  /\ m_handle' = [m_handle EXCEPT ![l] = WithChildWaitersBit(handle[f])]
           /\ Goto(f, IF m_handle[l] = handle[f] THEN "arbitrate" ELSE "exchange")
    /\ UNCHANGED <<kernelVars, lock_address, operand, handle, held>>

\* The FetchOr of HasChildWaitersBit: back to the loop's head if the word is not
\* what it was.
SetWaitersBit(f, c) ==
    /\ At(f, c, "set_bit")
    /\ LET l == operand[f]
       IN  /\ m_handle' = [m_handle EXCEPT ![l] = WithChildWaitersBit(@)]
           /\ Goto(f, IF m_handle[l] = handle[f] THEN "arbitrate" ELSE "exchange")
    /\ UNCHANGED <<kernelVars, lock_address, operand, handle, held>>

\* Mutant: the waiter is put in its own list.
JoinWaitList_Own(handle_fiber, f) == [wait_list EXCEPT ![f] = Append(@, f)]

\* The waiter goes to the end of the list of the lock's owner.
JoinWaitList(handle_fiber, f) == [wait_list EXCEPT ![handle_fiber] = Append(@, f)]

\* ArbitrateLockImpl(handle & ~HasChildWaitersBit, &m_handle, tag).
ArbitrateLock(f, c) ==
    /\ At(f, c, "arbitrate") /\ LockFree
    /\ LET l            == operand[f]
           handle_fiber == handle[f].owner
       IN  IF \/ handle_fiber \in {NoFiber, f}
              \/ m_handle[l] # WithChildWaitersBit(Tag(handle_fiber))
           THEN \* ResultInvalidHandle or ResultInvalidLockAddressValue: Enter aborts
                /\ aborted' = TRUE
                /\ UNCHANGED <<fiber_state, waitable_object, timeout, wait_list, m_scheduler_lock,
                               phase, lock_address, pc>>
           ELSE /\ fiber_state' = [fiber_state EXCEPT ![f] = "Waiting"]
                /\ waitable_object' = [waitable_object EXCEPT ![f] = "lock"]
                /\ timeout' = [timeout EXCEPT ![f] = "never"]
                /\ lock_address' = [lock_address EXCEPT ![f] = l]
                /\ wait_list' = JoinWaitList(handle_fiber, f)
                /\ SwitchToScheduler(c)
                /\ Goto(f, "recheck")
                /\ UNCHANGED aborted
    /\ UNCHANGED <<fiberVars, last_result, m_wait_list, m_thread_queue, m_runnable_fibers, asleep,
                   restVars, current_core, local_ring, running, m_handle, operand, handle, held>>

\* Enter goes on after its wait: the lock is the fiber's or the loop starts over.
Recheck(f, c) ==
    /\ At(f, c, "recheck")
    /\ IF m_handle[operand[f]].owner = f
       THEN /\ held' = [held EXCEPT ![f] = @ \cup {operand[f]}]
            /\ Return(f)
       ELSE Goto(f, "exchange") /\ UNCHANGED <<operand, handle, held>>
    /\ UNCHANGED <<kernelVars, m_handle, lock_address>>

\* Mutant: only the bit is looked at.
TryEnter_TestsBit(f, c, lock) ==
    /\ At(f, c, "idle") /\ \A l \in held[f] : l < lock
    /\ ~m_handle[lock].waiters
    /\ m_handle' = [m_handle EXCEPT ![lock] = Tag(f)]
    /\ held' = [held EXCEPT ![f] = @ \cup {lock}]
    /\ UNCHANGED <<kernelVars, lock_address, pc, operand, handle>>

\* TryEnter that succeeds; one that fails changes nothing.
TryEnter(f, c, lock) ==
    /\ At(f, c, "idle") /\ \A l \in held[f] : l < lock
    /\ m_handle[lock] = Unlocked
    /\ m_handle' = [m_handle EXCEPT ![lock] = Tag(f)]
    /\ held' = [held EXCEPT ![f] = @ \cup {lock}]
    /\ UNCHANGED <<kernelVars, lock_address, pc, operand, handle>>

\* Leave: the fast path if nobody set the bit.
Leave(f, c, lock) ==
    /\ At(f, c, "idle") /\ lock \in held[f]
    /\ held' = [held EXCEPT ![f] = @ \ {lock}]
    /\ IF m_handle[lock] = Tag(f)
       THEN /\ m_handle' = [m_handle EXCEPT ![lock] = Unlocked]
            /\ UNCHANGED <<pc, operand>>
       ELSE /\ Goto(f, "unlock") /\ operand' = [operand EXCEPT ![f] = lock]
            /\ UNCHANGED m_handle
    /\ UNCHANGED <<kernelVars, lock_address, handle>>

\* ReleaseLockWaitListUnsafe of fiber f: the head of its list becomes the owner
\* of the lock that the head waits for.  The loop that should move the other
\* waiters to the new owner's list follows the links of a node it has just
\* relinked and does not end: f hangs in it with the scheduler lock held.
ReleaseLockWaitListUnsafe(f, c) ==
    LET next_owner == Head(wait_list[f])
        others     == Tail(wait_list[f])
    IN  /\ m_handle' = [m_handle EXCEPT ![lock_address[next_owner]] =
                           [owner |-> next_owner, waiters |-> others # <<>>]]
        /\ lock_address' = [lock_address EXCEPT ![next_owner] = NoLock]
        /\ IF others = <<>>
           THEN /\ wait_list' = [wait_list EXCEPT ![f] = <<>>]
                /\ waitable_object' = [waitable_object EXCEPT ![next_owner] = "none"]
                /\ EndFiberWaitImpl(<<next_owner>>, "Success")
                /\ UNCHANGED m_scheduler_lock
                /\ Return(f)
           ELSE /\ Goto(f, "hung")
                /\ m_scheduler_lock' = c
                /\ UNCHANGED <<wait_list, waitable_object, timeout, last_result, readyVars,
                               operand, handle>>

\* ArbitrateUnlockImpl.
ArbitrateUnlock(f, c) ==
    /\ At(f, c, "unlock") /\ LockFree
    /\ IF wait_list[f] = <<>> \/ m_handle[operand[f]] # WithChildWaitersBit(Tag(f))
       THEN \* ResultRequiresLock or ResultInvalidLockAddressValue: Leave aborts
            /\ aborted' = TRUE
            /\ UNCHANGED <<waitable_object, timeout, last_result, wait_list, readyVars,
                           m_scheduler_lock, m_handle, lock_address, pc, operand, handle>>
       ELSE ReleaseLockWaitListUnsafe(f, c) /\ UNCHANGED aborted
    /\ UNCHANGED <<fiberVars, m_wait_list, restVars, current_core, local_ring, phase, running, held>>

\* A fiber gives up its core between two calls.
Yield(f, c) == At(f, c, "idle") /\ YieldThread(f, c) /\ UNCHANGED lockVars

-----------------------------------------------------------------------------
LockStep(f, c) ==
    \/ \E l \in Locks : BeginEnter(f, c, l) \/ TryEnter(f, c, l) \/ Leave(f, c, l)
    \/ CompareExchange(f, c) \/ SetWaitersBit(f, c) \/ ArbitrateLock(f, c) \/ Recheck(f, c)
    \/ ArbitrateUnlock(f, c)

\* Every fiber is started; their masks hold one core, which lets them run on any.
Init ==
    /\ KernelInit(Fibers \ {MainFiber}, [f \in Fibers |-> {BootCore}])
    /\ m_handle = [l \in Locks |-> Unlocked]
    /\ lock_address = [f \in Fibers |-> NoLock]
    /\ pc = [f \in Fibers |-> "idle"]
    /\ operand = [f \in Fibers |-> NoLock]
    /\ handle = [f \in Fibers |-> Unlocked]
    /\ held = [f \in Fibers |-> {}]

Next ==
    \E c \in Cores :
        \/ SchedulerStep(c) /\ UNCHANGED lockVars
        \/ \E f \in Fibers : LockStep(f, c) \/ Yield(f, c)

Spec == Init /\ [][Next]_vars

-----------------------------------------------------------------------------
(* Properties. *)

\* The words, the fibers' places in their calls and the kernel have their types.
TypeOK ==
    /\ SchedulerTypeOK
    /\ m_handle \in [Locks -> Word]
    /\ lock_address \in [Fibers -> Locks \cup {NoLock}]
    /\ pc \in [Fibers -> PC]
    /\ operand \in [Fibers -> Locks \cup {NoLock}]
    /\ handle \in [Fibers -> Word]
    /\ held \in [Fibers -> SUBSET Locks]

\* No two fibers are between Enter and Leave of one lock, on any number of
\* cores, whatever the waiters bit and the hand-over do to its word.
MutualExclusion == \A f, g \in Fibers : f # g => held[f] \cap held[g] = {}

\* The word of a lock names the fiber that holds it until that fiber leaves:
\* the slow paths of other fibers, and the hand-over of another lock of the
\* holder, do not write it.
WordNamesHolder == \A f \in Fibers : \A l \in held[f] : m_handle[l].owner = f

\* A waiter is where the next Leave looks for it: in the list of the owner of
\* its lock, whose word has the bit.  (A Leave in ReleaseLockWaitListUnsafe holds
\* the scheduler lock.)
WaitersAreReachable ==
    LockFree => \A f \in Fibers :
        fiber_state[f] = "Waiting" =>
            LET w == m_handle[lock_address[f]]
            IN  w.waiters /\ w.owner # NoFiber /\ f \in Elements(wait_list[w.owner])

=============================================================================
