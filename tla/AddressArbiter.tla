--------------------------- MODULE AddressArbiter ---------------------------
(***************************************************************************)
(* awn::ukern::WaitOnAddress and WakeByAddress over UserScheduler: the     *)
(* three ways to wait on a word (WaitForAddressIfEqualImpl and             *)
(* WaitForAddressIfLessThanImpl, with and without decrement), the three    *)
(* ways to wake (WakeByAddressImpl, WakeByAddressIncrementEqualImpl and    *)
(* WakeByAddressModifyLessThanImpl) and WaitAddressArbiter::CancelWait.    *)
(*                                                                         *)
(* The first waiter, the parent, is in the scheduler's wait list, where it *)
(* is found by its wait_address; the next ones are in the parent's         *)
(* wait_list.  There is one word.  A fiber's wait_address is never reset:  *)
(* wait_address is the set of the fibers that have ever waited.            *)
(*                                                                         *)
(* lost: a waiter was made a child of a fiber that merely sleeps, or was   *)
(* the child of a parent that timed out, or became the parent behind a     *)
(* fiber that merely sleeps; nobody finds it from then on.                 *)
(* wild: a null fiber is used, or a fiber made runnable twice; the model   *)
(* stops there.  The fibers exist from the start and none exits.           *)
(***************************************************************************)
EXTENDS UserScheduler

CONSTANTS
    WordModulus,   \* 2^32 in the code
    Clients        \* what the users of the word do, one of them in a behaviour

All == Cardinality(Fibers) + 1   \* stands for the count 0xffffffff

ArbiterCalls == {"equal", "less", "decrement", "signal", "increment", "modify", "sleep"}

ASSUME AddressAssumption ==
    /\ WordModulus \in Nat /\ WordModulus > 2
    /\ Clients \subseteq [calls : SUBSET ArbiterCalls, counts : SUBSET (0 .. All),
                          waits : SUBSET {"finite", "never"}, sleeps : SUBSET {"finite", "never"},
                          cores : SUBSET Cores]

VARIABLES
    client,        \* the calls, their counts and timeouts, and the cores that run
    word,          \* *wait_address
    wait_address,
    pc,            \* "idle", or "wake" between a store and the wake-up after it
    lost,          \* a waiter was left where no wake-up call looks
    wild

arbiterVars == <<client, word, wait_address, pc, lost, wild>>
vars == <<kernelVars, arbiterVars>>

\* The first fiber of the scheduler's wait list with the wait_address.
AddressFiber ==
    LET found == KeptIn(m_wait_list, wait_address)
    IN  IF found = <<>> THEN NoFiber ELSE Head(found)

-----------------------------------------------------------------------------
\* A waiter is a child of the fiber that waits already, or a parent itself.
JoinAddressWaiters(f) ==
    IF AddressFiber = NoFiber
    THEN m_wait_list' = Append(m_wait_list, f) /\ UNCHANGED wait_list
    ELSE wait_list' = [wait_list EXCEPT ![AddressFiber] = Append(@, f)] /\ UNCHANGED m_wait_list

\* Fiber f waits and gives up its core.
WaitOnWord(f, c, absolute_timeout) ==
    /\ waitable_object' = [waitable_object EXCEPT ![f] = "address"]
    /\ wait_address' = wait_address \cup {f}
    /\ fiber_state' = [fiber_state EXCEPT ![f] = "Waiting"]
    /\ timeout' = [timeout EXCEPT ![f] = absolute_timeout]
    /\ JoinAddressWaiters(f)
    /\ lost' = (lost \/ (AddressFiber # NoFiber /\ waitable_object[AddressFiber] # "address"))
    /\ SwitchToScheduler(c)
    /\ UNCHANGED <<last_result, m_thread_queue, m_runnable_fibers, asleep>>

\* The value is not the one to wait for: the call only yields.
DoNotWait(c) ==
    /\ SwitchToScheduler(c)
    /\ UNCHANGED <<waitVars, readyVars, wait_address, lost>>

\* Mutant: the word is not looked at again under the lock.
WaitForAddressIfEqual_NoCompare(f, c, value, absolute_timeout) ==
    /\ Runs(f, c) /\ pc[f] = "idle" /\ LockFree
    /\ WaitOnWord(f, c, absolute_timeout)
    /\ UNCHANGED <<fiberVars, restVars, current_core, local_ring, running, aborted, client, word, pc, wild>>

WaitForAddressIfEqual(f, c, value, absolute_timeout) ==
    /\ Runs(f, c) /\ pc[f] = "idle" /\ LockFree
    /\ IF word = value THEN WaitOnWord(f, c, absolute_timeout) ELSE DoNotWait(c)
    /\ UNCHANGED <<fiberVars, restVars, current_core, local_ring, running, aborted, client, word, pc, wild>>

\* The decrement takes place whether the fiber waits or not; the old value decides.
WaitForAddressIfLessThan(f, c, value, absolute_timeout, do_decrement) ==
    /\ Runs(f, c) /\ pc[f] = "idle" /\ LockFree
    /\ word' = IF do_decrement THEN (word + WordModulus - 1) % WordModulus ELSE word
    /\ IF word < value THEN WaitOnWord(f, c, absolute_timeout) ELSE DoNotWait(c)
    /\ UNCHANGED <<fiberVars, restVars, current_core, local_ring, running, aborted, client, pc, wild>>

-----------------------------------------------------------------------------
\* Mutant: the waiters that stay are left with the parent that goes.
WakeParent_NoTransfer(p, count) ==
    LET children == wait_list[p]
        woken    == SubSeq(children, 1, IF count < Len(children) THEN count ELSE Len(children))
    IN  /\ EndFiberWaitImpl(<<p>> \o woken, "Success")
        /\ wait_list' = [wait_list EXCEPT ![p] = SubSeq(children, Len(woken) + 1, Len(children))]
        /\ m_wait_list' = Without(m_wait_list, p)
        /\ UNCHANGED lost

\* Release the parent p and, of its children, as many as count; the first of the
\* others becomes the parent of the rest, at the end of the scheduler's wait list.
WakeParent(p, count) ==
    LET children == wait_list[p]
        woken    == SubSeq(children, 1, IF count < Len(children) THEN count ELSE Len(children))
        left     == SubSeq(children, Len(woken) + 1, Len(children))
    IN  /\ EndFiberWaitImpl(<<p>> \o woken, "Success")
        /\ IF left = <<>>
           THEN /\ wait_list' = [wait_list EXCEPT ![p] = <<>>]
                /\ m_wait_list' = Without(m_wait_list, p)
                /\ UNCHANGED lost
           ELSE /\ wait_list' = [wait_list EXCEPT ![p] = <<>>, ![Head(left)] = @ \o Tail(left)]
                /\ m_wait_list' = Append(Without(m_wait_list, p), Head(left))
                /\ lost' = (lost \/ Elements(Without(m_wait_list, p)) \cap wait_address # {})

NobodyWoken == UNCHANGED <<readyVars, last_result, timeout, wait_list, m_wait_list, lost>>

\* The end of a wake-up call.
WakeReturns(f) ==
    /\ pc' = [pc EXCEPT ![f] = "idle"]
    /\ UNCHANGED <<fiberVars, waitable_object, restVars, current_core, local_ring,
                   m_scheduler_lock, phase, running, aborted, client, wait_address>>

WakeByAddress(f, c, count) ==
    /\ Runs(f, c) /\ LockFree
    /\ IF count = 0 \/ AddressFiber = NoFiber THEN NobodyWoken ELSE WakeParent(AddressFiber, count)
    /\ WakeReturns(f)
    /\ UNCHANGED <<word, wild>>

\* The loop over the children follows the link of a child it has just unlinked,
\* which is that child: it is made runnable count times.
WakeByAddressIncrementEqual(f, c, value, count) ==
    /\ Runs(f, c) /\ LockFree
    /\ IF word # value THEN NobodyWoken /\ UNCHANGED <<word, wild>>
       ELSE /\ word' = (value + 1) % WordModulus
            /\ IF AddressFiber = NoFiber THEN NobodyWoken /\ UNCHANGED wild
               ELSE /\ WakeParent(AddressFiber, count)
                    /\ wild' = (count > 1 /\ wait_list[AddressFiber] # <<>>)
    /\ WakeReturns(f)

\* Without a waiter the word is modified and then the null fiber used.
WakeByAddressModifyLessThan(f, c, value, count) ==
    /\ Runs(f, c) /\ LockFree
    /\ IF word # value THEN NobodyWoken /\ UNCHANGED <<word, wild>>
       ELSE IF AddressFiber = NoFiber
       THEN /\ word' = (value + 1) % WordModulus
            /\ wild' = TRUE
            /\ NobodyWoken
       ELSE /\ word' = IF 0 < count /\ Len(wait_list[AddressFiber]) >= count
                       THEN value ELSE (value + WordModulus - 1) % WordModulus
            /\ WakeParent(AddressFiber, count)
            /\ UNCHANGED wild
    /\ WakeReturns(f)

\* Mutant: the fiber that timed out stays in the scheduler's wait list.
CancelAddressWait_NoUnlink(c, f) ==
    /\ phase[c] = "scan" /\ Schedules(c)
    /\ TimedOut(f, c) /\ waitable_object[f] = "address"
    /\ EndFiberWaitImpl(<<f>>, "Timeout")
    /\ UNCHANGED <<fiberVars, waitable_object, wait_list, m_wait_list, restVars, current_core,
                   local_ring, m_scheduler_lock, phase, running, aborted, arbiterVars>>

\* WaitAddressArbiter::CancelWait: the first child is made the parent of the
\* others, but not put in the scheduler's wait list.
CancelAddressWait(c, f) ==
    /\ phase[c] = "scan" /\ Schedules(c)
    /\ TimedOut(f, c) /\ waitable_object[f] = "address"
    /\ wait_list' = IF wait_list[f] = <<>> THEN wait_list
                    ELSE [wait_list EXCEPT ![f] = <<>>, ![Head(wait_list[f])] = @ \o Tail(wait_list[f])]
    /\ m_wait_list' = Without(m_wait_list, f)
    /\ lost' = (lost \/ wait_list[f] # <<>>)
    /\ EndFiberWaitImpl(<<f>>, "Timeout")
    /\ UNCHANGED <<fiberVars, waitable_object, restVars, current_core, local_ring, m_scheduler_lock,
                   phase, running, aborted, client, word, wait_address, pc, wild>>

-----------------------------------------------------------------------------
(* The users of the word, as ServiceEvent and ServiceCriticalSection are: wait  *)
(* while it is 0, set it to 1 and then wake, set it back to 0.                  *)

\* The store of a signaller, which will wake the waiters next.
Store(f, c) ==
    /\ Runs(f, c) /\ pc[f] = "idle" /\ "signal" \in client.calls
    /\ word' = 1
    /\ pc' = [pc EXCEPT ![f] = "wake"]
    /\ UNCHANGED <<kernelVars, client, wait_address, lost, wild>>

Clear(f, c) ==
    /\ Runs(f, c) /\ pc[f] = "idle" /\ word # 0
    /\ word' = 0
    /\ UNCHANGED <<kernelVars, client, wait_address, pc, lost, wild>>

Signal(f, c) == \E count \in client.counts : pc[f] = "wake" /\ WakeByAddress(f, c, count)

Wait(f, c) ==
    \E t \in client.waits :
        \/ "equal" \in client.calls /\ WaitForAddressIfEqual(f, c, 0, t)
        \/ "less" \in client.calls /\ WaitForAddressIfLessThan(f, c, 1, t, FALSE)
        \/ "decrement" \in client.calls /\ WaitForAddressIfLessThan(f, c, 1, t, TRUE)

ArbiterStep(f, c) ==
    \/ Wait(f, c) \/ Store(f, c) \/ Clear(f, c) \/ Signal(f, c)
    \/ \E count \in client.counts :
        \/ "increment" \in client.calls /\ pc[f] = "idle" /\ WakeByAddressIncrementEqual(f, c, 0, count)
        \/ "modify" \in client.calls /\ pc[f] = "idle" /\ WakeByAddressModifyLessThan(f, c, 0, count)
    \/ "sleep" \in client.calls /\ pc[f] = "idle" /\ (\E t \in client.sleeps : Sleep(f, c, t))
           /\ UNCHANGED arbiterVars

\* The clients that TLC takes: the users of an event on two cores; and on one core,
\* users of every other way to wait and to wake, in three groups; a wake-up with the
\* count 0 is the one that leaves waiters behind when two fibers wait.
MCClients ==
    { [calls |-> {"equal", "less", "signal"}, counts |-> {All}, waits |-> {"never"},
       sleeps |-> {}, cores |-> Cores],
      [calls |-> {"decrement", "signal"}, counts |-> {0, 1}, waits |-> {"finite"},
       sleeps |-> {}, cores |-> {BootCore}],
      [calls |-> {"equal", "signal", "sleep"}, counts |-> {1}, waits |-> {"never"},
       sleeps |-> {"finite"}, cores |-> {BootCore}],
      [calls |-> {"equal", "increment", "modify"}, counts |-> {0, 1, 2}, waits |-> {"finite", "never"},
       sleeps |-> {}, cores |-> {BootCore}] }

Init ==
    /\ KernelInit(Fibers \ {MainFiber}, [f \in Fibers |-> {BootCore}])
    /\ client \in Clients
    /\ word = 0
    /\ wait_address = {}
    /\ pc = [f \in Fibers |-> "idle"]
    /\ lost = FALSE
    /\ wild = FALSE

Next ==
    /\ ~wild
    /\ \E c \in client.cores :
        \/ SchedulerStep(c) /\ UNCHANGED arbiterVars
        \/ \E f \in Fibers : ArbiterStep(f, c) \/ CancelAddressWait(c, f)

Spec == Init /\ [][Next]_vars

\* The cores' threads run, and a fiber that stored the word goes on to wake: it
\* gets the scheduler lock, which is free again and again.
Fairness ==
    /\ \A c \in Cores : WF_vars(c \in client.cores /\ SchedulerStep(c) /\ UNCHANGED arbiterVars)
    /\ \A f \in Fibers : SF_vars(\E c \in client.cores : Signal(f, c))

FairSpec == Spec /\ Fairness

-----------------------------------------------------------------------------
(* Properties. *)

\* The word keeps its width; the kernel and the users' places have their types.
TypeOK ==
    /\ SchedulerTypeOK
    /\ word \in 0 .. WordModulus - 1
    /\ wait_address \subseteq Fibers
    /\ pc \in [Fibers -> {"idle", "wake"}]
    /\ lost \in BOOLEAN
    /\ wild \in BOOLEAN

Awaits(f) == fiber_state[f] = "Waiting" /\ waitable_object[f] = "address"

\* The users of an event: who sets the word wakes everybody who waits for that.
Signallers == client.calls \subseteq {"equal", "less", "signal"} /\ client.counts = {All}

\* A fiber does not sleep on a word that was set, unless the fiber that set it
\* still has its wake-up call to make: the comparison and the wait are one step
\* for WakeByAddressImpl.
NoMissedSignal ==
    Signallers => \A f \in Fibers : Awaits(f) /\ word = 1 => \E g \in Fibers : pc[g] = "wake"

\* A wake-up call finds every waiter: the parent, or one of its children.  There
\* are the three ways to lose one that "lost" records and no other.
WaitersReachable ==
    ~wild /\ ~lost => \A f \in Fibers :
        Awaits(f) => AddressFiber # NoFiber /\ f \in {AddressFiber} \cup Elements(wait_list[AddressFiber])

\* A fiber is made runnable once for a wait, by its timeout or by a wake-up call
\* but never by both: it is queued once, and counted once.
QueuedOnce ==
    wild \/ /\ CountsAgree
            /\ \A f \in Fibers : Queued(f) = (IF fiber_state[f] = "Scheduled" THEN 1 ELSE 0)

\* A waiter is woken if the word is set and stays set.
WaitEnds == \A f \in Fibers :
    (Signallers /\ Awaits(f) /\ word = 1) ~> (~Awaits(f) \/ word # 1 \/ lost \/ wild)

=============================================================================
