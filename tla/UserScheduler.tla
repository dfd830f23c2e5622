--------------------------- MODULE UserScheduler ---------------------------
(***************************************************************************)
(* awn::ukern::impl::UserScheduler: cooperative fibers multiplexed over a  *)
(* fixed set of cores (one Win32 thread per core).                         *)
(*                                                                         *)
(* m_scheduler_lock is held from the system call in which a fiber gives up *)
(* its core, across SwitchToFiber, through the scheduler loop, to the call *)
(* in which the next fiber resumes.  The model keeps that lock as a        *)
(* variable: phase[c] says where in this path core c is,                   *)
(*    "start"     a worker thread that has not taken the lock yet          *)
(*    "user"      a fiber runs on the core; the lock is free or another's   *)
(*    "boot"      the same, before the main thread's first system call     *)
(*    "booted"    its scheduler fiber's first instructions (lock held)     *)
(*    "switched"  Dispatch after SwitchToFiber          (lock held)        *)
(*    "scan"      SchedulerFiberMain: wait list, local ring (lock held)     *)
(*    "queue"     SchedulerFiberMain: priority queue    (lock held)         *)
(*    "rest"      lock released, WaitOnAddress not yet called              *)
(*    "resting"   in WaitOnAddress (in the set asleep) or back from it     *)
(* so that steps of running fibers that need no lock interleave with it.   *)
(*                                                                         *)
(* Time is abstracted: a timeout is "none" (0), "finite" or "never", and a *)
(* finite one may have expired whenever it is compared with the clock.     *)
(* VP_ASSERT and RESULT_ABORT_UNLESS end the process: aborted.             *)
(***************************************************************************)
EXTENDS Integers, Sequences, FiniteSets, FixedPriorityQueue

CONSTANTS
    Fibers,         \* the fiber storages of sUserFiberLocalAllocator
    MainFiber,      \* the fiber made of the main thread
    Cores,          \* core numbers
    BootCore,       \* the main thread's core (core 0)
    NoFiber, NoCore,
    PriorityNormal  \* cPriorityNormal, the main fiber's priority

ASSUME SchedulerAssumption ==
    /\ MainFiber \in Fibers /\ NoFiber \notin Fibers /\ IsFiniteSet(Fibers)
    /\ BootCore = 0 /\ BootCore \in Cores /\ NoCore \notin Cores /\ IsFiniteSet(Cores) /\ Cores \subseteq Nat
    /\ PriorityNormal \in Int

VARIABLES
    (* FiberLocalStorage *)
    fiber_state,
    activity_level,   \* "Suspended" or "Schedulable"
    priority,
    core_mask,        \* a set of cores
    current_core,
    waitable_object,  \* the kind of WaitableObject, or "none"
    timeout,
    last_result,
    wait_list,        \* the fibers queued behind this one
    (* UserScheduler *)
    m_wait_list,
    m_thread_queue,
    local_ring,       \* m_scheduler_local_ring_table
    m_runnable_fibers,
    m_active_cores,
    m_scheduler_lock, \* the core that holds it, or NoCore
    (* what each core is doing *)
    phase,
    running,          \* the fiber switched to on the core, or NoFiber
    wait_value,       \* m_runnable_fibers as the core saw it before resting
    armed,            \* the core computed a finite time to rest
    asleep,           \* cores blocked in WaitOnAddress on m_runnable_fibers
    aborted

fiberVars == <<activity_level, priority, core_mask>>
waitVars  == <<waitable_object, timeout, last_result, wait_list, m_wait_list>>
readyVars == <<fiber_state, m_thread_queue, m_runnable_fibers, asleep>>
restVars  == <<wait_value, armed, m_active_cores>>
kernelVars == <<fiber_state, activity_level, priority, core_mask, current_core,
                waitable_object, timeout, last_result, wait_list, m_wait_list,
                m_thread_queue, local_ring, m_runnable_fibers, m_active_cores,
                m_scheduler_lock, phase, running, wait_value, armed, asleep, aborted>>

FiberState == {"Unallocated", "Unscheduled", "Scheduled", "ScheduledLocal",
               "Running", "Exiting", "Waiting", "Suspended"}
Phase == {"start", "boot", "booted", "user", "switched", "scan", "queue", "rest", "resting"}

\* The fibers of a list, those of them that are in S in their order, and the
\* list without one of them.
Elements(s) == {s[i] : i \in 1 .. Len(s)}
KeptIn(s, S) ==
    LET kept[i \in 0 .. Len(s)] ==
            IF i = 0 THEN <<>>
            ELSE IF s[i] \in S THEN Append(kept[i - 1], s[i]) ELSE kept[i - 1]
    IN  kept[Len(s)]
Without(s, f) == KeptIn(s, Fibers \ {f})

LockFree == m_scheduler_lock = NoCore

\* Fiber f executes user code on core c.
Runs(f, c) == phase[c] \in {"user", "boot"} /\ running[c] = f /\ aborted = FALSE

\* Core c executes the scheduler with the lock held.
Schedules(c) == m_scheduler_lock = c /\ aborted = FALSE

-----------------------------------------------------------------------------
(* Making fibers runnable. *)

\* n calls of WakeByAddressSingle(&m_runnable_fibers), which wakes some sleeper.
WakeByAddressSingle(n) ==
    \E woken \in SUBSET asleep :
        /\ Cardinality(woken) = (IF n < Cardinality(asleep) THEN n ELSE Cardinality(asleep))
        /\ asleep' = asleep \ woken

\* m_thread_queue.Insert for each fiber of the sequence, in order.
InsertAll(q, s) ==
    LET after[i \in 0 .. Len(s)] ==
            IF i = 0 THEN q ELSE Insert(after[i - 1], priority, s[i])
    IN  after[Len(s)]

\* Mutant: suspension is looked at only where fibers are started.
AddToSchedulerUnsafe_EvenSuspended(s) ==
    /\ fiber_state' = [f \in Fibers |-> IF f \in Elements(s) THEN "Scheduled" ELSE fiber_state[f]]
    /\ m_thread_queue' = InsertAll(m_thread_queue, s)
    /\ m_runnable_fibers' = m_runnable_fibers + Len(s)
    /\ WakeByAddressSingle(Len(s))

\* AddToSchedulerUnsafe for fibers that are neither waiting nor queued: those
\* that are suspended stay out of the queue.
AddToSchedulerUnsafe(s) ==
    LET runnable == KeptIn(s, {f \in Fibers : activity_level[f] = "Schedulable"})
    IN  /\ fiber_state' = [f \in Fibers |->
              IF f \in Elements(runnable) THEN "Scheduled"
              ELSE IF f \in Elements(s) THEN "Suspended" ELSE fiber_state[f]]
        /\ m_thread_queue' = InsertAll(m_thread_queue, runnable)
        /\ m_runnable_fibers' = m_runnable_fibers + Len(runnable)
        /\ WakeByAddressSingle(Len(runnable))

\* AddToSchedulerUnsafe(f) with the priorities pri, for a fiber in any state but
\* ScheduledLocal: what is in the queue is moved to its place for the new
\* priority, what is not is added.
Reschedule(f, activity, pri) ==
    IF fiber_state[f] = "Waiting" THEN UNCHANGED readyVars
    ELSE IF activity[f] = "Suspended" THEN
        /\ fiber_state' = [fiber_state EXCEPT ![f] = "Suspended"]
        /\ UNCHANGED <<m_thread_queue, m_runnable_fibers, asleep>>
    ELSE
        /\ IF fiber_state[f] = "Scheduled"
           THEN /\ m_thread_queue' =
                      Insert(Remove(m_thread_queue, pri, FindIterTo(m_thread_queue, f)), pri, f)
                /\ UNCHANGED m_runnable_fibers
           ELSE /\ m_thread_queue' = Insert(m_thread_queue, pri, f)
                /\ m_runnable_fibers' = m_runnable_fibers + 1
        /\ fiber_state' = [fiber_state EXCEPT ![f] = "Scheduled"]
        /\ WakeByAddressSingle(1)

\* WaitableObject::EndFiberWaitImpl for each fiber of the sequence, but for the
\* Unlink, which the caller writes down with its other list operations.
EndFiberWaitImpl(s, wait_result) ==
    /\ AddToSchedulerUnsafe(s)
    /\ last_result' = [f \in Fibers |-> IF f \in Elements(s) THEN wait_result ELSE last_result[f]]
    /\ timeout' = [f \in Fibers |-> IF f \in Elements(s) THEN "none" ELSE timeout[f]]

-----------------------------------------------------------------------------
(* The scheduler loop of core c. *)

\* A worker's InternalSchedulerFiberMain: take the lock for the first pass.
StartCore(c) ==
    /\ phase[c] = "start" /\ LockFree /\ aborted = FALSE
    /\ m_scheduler_lock' = c
    /\ phase' = [phase EXCEPT ![c] = "scan"]
    /\ UNCHANGED <<fiberVars, waitVars, readyVars, restVars, current_core, local_ring,
                   running, aborted>>

\* SwitchToFiber(GetSchedulerFiber(current_fiber)): the end of every system call
\* that gives up the core.
SwitchToScheduler(c) ==
    /\ m_scheduler_lock' = c
    /\ phase' = [phase EXCEPT ![c] = IF @ = "boot" THEN "booted" ELSE "switched"]

\* InternalSchedulerMainThreadFiberMain, entered by the main thread's first
\* system call: the main fiber is added whatever its state, unless it waits.
BootScheduler(c) ==
    /\ phase[c] = "booted" /\ Schedules(c)
    /\ running' = [running EXCEPT ![c] = NoFiber]
    /\ phase' = [phase EXCEPT ![c] = "scan"]
    /\ Reschedule(MainFiber, activity_level, priority)
    /\ UNCHANGED <<fiberVars, waitVars, restVars, current_core, local_ring, m_scheduler_lock,
                   aborted>>

\* Mutant: Dispatch forgets that a fiber may come back waiting.
PostDispatch_NoWaiting(c) ==
    /\ phase[c] = "switched" /\ Schedules(c)
    /\ running' = [running EXCEPT ![c] = NoFiber]
    /\ phase' = [phase EXCEPT ![c] = "scan"]
    /\ aborted' = (fiber_state[running[c]] \notin {"Running", "Exiting"})
    /\ IF fiber_state[running[c]] = "Running" THEN AddToSchedulerUnsafe(<<running[c]>>)
       ELSE /\ fiber_state' = [fiber_state EXCEPT ![running[c]] =
                                  IF @ = "Exiting" THEN "Unallocated" ELSE @]
            /\ UNCHANGED <<m_thread_queue, m_runnable_fibers, asleep>>
    /\ UNCHANGED <<fiberVars, waitVars, restVars, current_core, local_ring, m_scheduler_lock>>

\* Dispatch, after its SwitchToFiber returns: what becomes of the fiber.
PostDispatch(c) ==
    /\ phase[c] = "switched" /\ Schedules(c)
    /\ running' = [running EXCEPT ![c] = NoFiber]
    /\ phase' = [phase EXCEPT ![c] = "scan"]
    /\ aborted' = (fiber_state[running[c]] \notin {"Running", "Exiting", "Waiting"})
    /\ IF fiber_state[running[c]] = "Running" THEN AddToSchedulerUnsafe(<<running[c]>>)
       ELSE /\ fiber_state' = [fiber_state EXCEPT ![running[c]] =
                                  IF @ = "Exiting" THEN "Unallocated" ELSE @]
            /\ UNCHANGED <<m_thread_queue, m_runnable_fibers, asleep>>
    /\ UNCHANGED <<fiberVars, waitVars, restVars, current_core, local_ring, m_scheduler_lock>>

\* IsSchedulable, true part of its timeout test: f is in the scheduler's wait
\* list, may run on core c, and its time is over.
TimedOut(f, c) ==
    /\ f \in Elements(m_wait_list)
    /\ c \in core_mask[f]
    /\ waitable_object[f] # "none" /\ timeout[f] = "finite"

\* TimeWaiter::CancelWait.
CancelSleep(c, f) ==
    /\ phase[c] = "scan" /\ Schedules(c)
    /\ TimedOut(f, c) /\ waitable_object[f] = "time"
    /\ m_wait_list' = Without(m_wait_list, f)
    /\ EndFiberWaitImpl(<<f>>, "Timeout")
    /\ UNCHANGED <<fiberVars, waitable_object, wait_list, restVars, current_core, local_ring,
                   m_scheduler_lock, phase, running, aborted>>

\* Mutants: the count is not taken down; the fiber keeps the core it had.
Dispatch_NoDecrement(f, c) ==
    /\ fiber_state' = [fiber_state EXCEPT ![f] = "Running"]
    /\ current_core' = [current_core EXCEPT ![f] = c]
    /\ m_runnable_fibers' = m_runnable_fibers
    /\ running' = [running EXCEPT ![c] = f]
    /\ phase' = [phase EXCEPT ![c] = "user"]
    /\ m_scheduler_lock' = NoCore
Dispatch_StaleCore(f, c) ==
    /\ fiber_state' = [fiber_state EXCEPT ![f] = "Running"]
    /\ UNCHANGED current_core
    /\ m_runnable_fibers' = m_runnable_fibers - 1
    /\ running' = [running EXCEPT ![c] = f]
    /\ phase' = [phase EXCEPT ![c] = "user"]
    /\ m_scheduler_lock' = NoCore

\* Dispatch(fiber, core_number) up to SwitchToFiber; the fiber resumes in the
\* system call it left (or in UserFiberMain) and releases the lock.
Dispatch(f, c) ==
    /\ fiber_state' = [fiber_state EXCEPT ![f] = "Running"]
    /\ current_core' = [current_core EXCEPT ![f] = c]
    /\ m_runnable_fibers' = m_runnable_fibers - 1
    /\ running' = [running EXCEPT ![c] = f]
    /\ phase' = [phase EXCEPT ![c] = "user"]
    /\ m_scheduler_lock' = NoCore

\* The local ring goes first.
ScheduleLocal(c) ==
    /\ phase[c] = "scan" /\ Schedules(c)
    /\ local_ring[c] # <<>>
    /\ local_ring' = [local_ring EXCEPT ![c] = Tail(@)]
    /\ Dispatch(Head(local_ring[c]), c)
    /\ UNCHANGED <<fiberVars, waitVars, m_thread_queue, restVars, asleep, aborted>>

\* Nothing in the ring: fall back to the priority queue.
FallBackToQueue(c) ==
    /\ phase[c] = "scan" /\ Schedules(c)
    /\ local_ring[c] = <<>>
    /\ phase' = [phase EXCEPT ![c] = "queue"]
    /\ UNCHANGED <<fiberVars, waitVars, readyVars, restVars, current_core, local_ring,
                   m_scheduler_lock, running, aborted>>

\* The tests for "the current core is preferred".  A mask of one core passes the
\* first one whatever that core is.
CoreIsPreferred(f, c) ==
    \/ Cardinality(core_mask[f]) = 1
    \/ current_core[f] = c /\ c \in core_mask[f]

\* The lowest of the fiber's cores among those with the shortest ring.
RankCores(f) ==
    CHOOSE c \in core_mask[f] : \A d \in core_mask[f] :
        \/ Len(local_ring[c]) < Len(local_ring[d])
        \/ Len(local_ring[c]) = Len(local_ring[d]) /\ c <= d

ScheduleFromQueue(c) ==
    /\ phase[c] = "queue" /\ Schedules(c)
    /\ m_thread_queue # <<>>
    /\ CoreIsPreferred(Peek(m_thread_queue), c)
    /\ m_thread_queue' = RemoveFront(m_thread_queue, priority)
    /\ Dispatch(Peek(m_thread_queue), c)
    /\ UNCHANGED <<fiberVars, waitVars, local_ring, restVars, asleep, aborted>>

\* Not preferred here: hand the fiber to the ring of one of its cores, and go on
\* with the queue.
DelegateToRing(c) ==
    /\ phase[c] = "queue" /\ Schedules(c)
    /\ m_thread_queue # <<>>
    /\ LET f == Peek(m_thread_queue)
           found_core == RankCores(f)
       IN  /\ ~CoreIsPreferred(f, c)
           /\ m_thread_queue' = RemoveFront(m_thread_queue, priority)
           /\ fiber_state' = [fiber_state EXCEPT ![f] = "ScheduledLocal"]
           /\ current_core' = [current_core EXCEPT ![f] = found_core]
           /\ local_ring' = [local_ring EXCEPT ![found_core] = Append(@, f)]
    /\ UNCHANGED <<fiberVars, waitVars, m_runnable_fibers, asleep, restVars, m_scheduler_lock,
                   phase, running, aborted>>

\* Mutant: the loop over the wait list looks at its first fiber only.
FiniteRest_First(c) ==
    m_wait_list # <<>> /\ c \in core_mask[m_wait_list[1]] /\ timeout[m_wait_list[1]] = "finite"

\* The time to rest is finite when a fiber in the wait list has a timeout that
\* this core may serve.
FiniteRest(c) == \E f \in Elements(m_wait_list) : c \in core_mask[f] /\ timeout[f] = "finite"

\* No fiber was found: read the count, release the lock.  The last core to rest
\* alerts another one.
Rest(c) ==
    /\ phase[c] = "queue" /\ Schedules(c)
    /\ m_thread_queue = <<>>
    /\ m_active_cores' = m_active_cores - 1
    /\ IF m_runnable_fibers # 0 /\ m_active_cores' = 0
       THEN WakeByAddressSingle(1) ELSE UNCHANGED asleep
    /\ wait_value' = [wait_value EXCEPT ![c] = m_runnable_fibers]
    /\ armed' = [armed EXCEPT ![c] = FiniteRest(c)]
    /\ phase' = [phase EXCEPT ![c] = "rest"]
    /\ m_scheduler_lock' = NoCore
    /\ UNCHANGED <<fiberVars, waitVars, fiber_state, m_thread_queue, m_runnable_fibers,
                   current_core, local_ring, running, aborted>>

\* Mutant: a wait that does not compare.
WaitOnRunnable_NoCompare(c) ==
    /\ phase[c] = "rest" /\ aborted = FALSE
    /\ phase' = [phase EXCEPT ![c] = "resting"]
    /\ asleep' = asleep \cup {c}
    /\ UNCHANGED <<fiberVars, waitVars, fiber_state, m_thread_queue, m_runnable_fibers,
                   restVars, current_core, local_ring, m_scheduler_lock, running, aborted>>

\* WaitOnAddress(&m_runnable_fibers, &wait_value, ..): sleeps only if the count
\* is still the one that was read.
WaitOnRunnable(c) ==
    /\ phase[c] = "rest" /\ aborted = FALSE
    /\ phase' = [phase EXCEPT ![c] = "resting"]
    /\ asleep' = IF m_runnable_fibers = wait_value[c] THEN asleep \cup {c} ELSE asleep
    /\ UNCHANGED <<fiberVars, waitVars, fiber_state, m_thread_queue, m_runnable_fibers,
                   restVars, current_core, local_ring, m_scheduler_lock, running, aborted>>

\* Back from the wait with the lock reacquired.
LeaveRest(c) ==
    /\ m_active_cores' = m_active_cores + 1
    /\ m_scheduler_lock' = c
    /\ phase' = [phase EXCEPT ![c] = "scan"]
    /\ UNCHANGED <<wait_value, armed>>

\* Back from WaitOnAddress, with the lock: rest again while there is nothing
\* runnable, with the time to rest computed anew.
WakeCore(c) ==
    /\ phase[c] = "resting" /\ c \notin asleep
    /\ LockFree /\ aborted = FALSE
    /\ IF m_runnable_fibers # 0
       THEN LeaveRest(c)
       ELSE /\ wait_value' = [wait_value EXCEPT ![c] = 0]
            /\ armed' = [armed EXCEPT ![c] = FiniteRest(c)]
            /\ phase' = [phase EXCEPT ![c] = "rest"]
            /\ UNCHANGED <<m_active_cores, m_scheduler_lock>>
    /\ UNCHANGED <<fiberVars, waitVars, readyVars, current_core, local_ring, running, aborted>>

\* Mutant: continue for break, which tests m_runnable_fibers == 0.
SkipRest_Continue(c) ==
    /\ phase[c] = "rest" /\ armed[c]
    /\ LockFree /\ aborted = FALSE
    /\ IF m_runnable_fibers # 0 THEN LeaveRest(c)
       ELSE UNCHANGED <<m_active_cores, wait_value, armed, m_scheduler_lock, phase>>
    /\ UNCHANGED <<fiberVars, waitVars, readyVars, current_core, local_ring, running, aborted>>

\* time_left == 0: the core does not sleep at all.
SkipRest(c) ==
    /\ phase[c] = "rest" /\ armed[c]
    /\ LockFree /\ aborted = FALSE
    /\ LeaveRest(c)
    /\ UNCHANGED <<fiberVars, waitVars, readyVars, current_core, local_ring, running, aborted>>

\* WaitOnAddress times out.
RestTimeout(c) ==
    /\ c \in asleep /\ armed[c] /\ aborted = FALSE
    /\ asleep' = asleep \ {c}
    /\ UNCHANGED <<fiberVars, waitVars, fiber_state, m_thread_queue, m_runnable_fibers, restVars,
                   current_core, local_ring, m_scheduler_lock, phase, running, aborted>>

SchedulerStep(c) ==
    \/ StartCore(c) \/ BootScheduler(c) \/ PostDispatch(c)
    \/ \E f \in Fibers : CancelSleep(c, f)
    \/ ScheduleLocal(c) \/ FallBackToQueue(c)
    \/ ScheduleFromQueue(c) \/ DelegateToRing(c)
    \/ Rest(c) \/ WaitOnRunnable(c) \/ WakeCore(c) \/ SkipRest(c)
    \/ RestTimeout(c)

-----------------------------------------------------------------------------
(* System calls that need nothing but the scheduler. *)

\* SleepThreadImpl(0): YieldThread.
YieldThread(f, c) ==
    /\ Runs(f, c) /\ LockFree
    /\ SwitchToScheduler(c)
    /\ UNCHANGED <<fiberVars, waitVars, readyVars, restVars, current_core, local_ring, running,
                   aborted>>

\* SleepThreadImpl(absolute_timeout).  GetAbsoluteTimeToWakeup makes "never" of
\* a span that is not positive.
Sleep(f, c, absolute_timeout) ==
    /\ Runs(f, c) /\ LockFree
    /\ timeout' = [timeout EXCEPT ![f] = absolute_timeout]
    /\ fiber_state' = [fiber_state EXCEPT ![f] = "Waiting"]
    /\ waitable_object' = [waitable_object EXCEPT ![f] = "time"]
    /\ m_wait_list' = Append(m_wait_list, f)
    /\ SwitchToScheduler(c)
    /\ UNCHANGED <<fiberVars, last_result, wait_list, m_thread_queue, m_runnable_fibers, asleep,
                   restVars, current_core, local_ring, running, aborted>>

\* ExitFiberImpl, called when the fiber's function returns.  The function of
\* the main fiber is the process's.
ExitFiber(f, c) ==
    /\ Runs(f, c) /\ LockFree /\ f # MainFiber
    /\ fiber_state' = [fiber_state EXCEPT ![f] = "Exiting"]
    /\ SwitchToScheduler(c)
    /\ UNCHANGED <<fiberVars, waitVars, m_thread_queue, m_runnable_fibers, asleep, restVars,
                   current_core, local_ring, running, aborted>>

-----------------------------------------------------------------------------
\* Initialize: the main thread runs as a fiber on its core, the workers start.
\* The fibers of started may have been created and started by then.
KernelInit(started, mask_of) ==
    /\ fiber_state = [f \in Fibers |-> IF f = MainFiber THEN "Running"
                                      ELSE IF f \in started THEN "Scheduled" ELSE "Unallocated"]
    /\ activity_level = [f \in Fibers |-> IF f \in started \cup {MainFiber} THEN "Schedulable"
                                         ELSE "Suspended"]
    /\ priority = [f \in Fibers |-> PriorityNormal]
    /\ core_mask = [f \in Fibers |-> IF f \in started THEN mask_of[f]
                                    ELSE IF f = MainFiber THEN {BootCore} ELSE {}]
    /\ current_core = [f \in Fibers |-> BootCore]
    /\ waitable_object = [f \in Fibers |-> "none"]
    /\ timeout = [f \in Fibers |-> "none"]
    /\ last_result = [f \in Fibers |-> "Success"]
    /\ wait_list = [f \in Fibers |-> <<>>]
    /\ m_wait_list = <<>>
    /\ m_thread_queue \in {q \in [1 .. Cardinality(started) -> started] : Elements(q) = started}
    /\ local_ring = [c \in Cores |-> <<>>]
    /\ m_runnable_fibers = Cardinality(started)
    /\ m_active_cores = Cardinality(Cores)
    /\ m_scheduler_lock = NoCore
    /\ phase = [c \in Cores |-> IF c = BootCore THEN "boot" ELSE "start"]
    /\ running = [c \in Cores |-> IF c = BootCore THEN MainFiber ELSE NoFiber]
    /\ wait_value = [c \in Cores |-> 0]
    /\ armed = [c \in Cores |-> FALSE]
    /\ asleep = {}
    /\ aborted = FALSE

-----------------------------------------------------------------------------
(* Invariants of the scheduler, whatever the system calls above it. *)

WaitableObjects == {"none", "time", "lock", "key", "address"}
TimeoutValues   == {"none", "finite", "never"}
Lists           == {s \in UNION {[1 .. n -> Fibers] : n \in 0 .. Cardinality(Fibers)} :
                        \A i, j \in DOMAIN s : s[i] = s[j] => i = j}

SchedulerTypeOK ==
    /\ fiber_state \in [Fibers -> FiberState]
    /\ activity_level \in [Fibers -> {"Suspended", "Schedulable"}]
    /\ priority \in [Fibers -> Int]
    /\ core_mask \in [Fibers -> SUBSET Cores]
    /\ current_core \in [Fibers -> Cores]
    /\ waitable_object \in [Fibers -> WaitableObjects]
    /\ timeout \in [Fibers -> TimeoutValues]
    /\ last_result \in [Fibers -> {"Success", "Timeout"}]
    /\ wait_list \in [Fibers -> Lists] /\ m_wait_list \in Lists
    /\ m_thread_queue \in Lists /\ local_ring \in [Cores -> Lists]
    /\ m_runnable_fibers \in 0 .. Cardinality(Fibers)
    /\ m_active_cores \in 0 .. Cardinality(Cores)
    /\ m_scheduler_lock \in Cores \cup {NoCore}
    /\ phase \in [Cores -> Phase]
    /\ running \in [Cores -> Fibers \cup {NoFiber}]
    /\ wait_value \in [Cores -> 0 .. Cardinality(Fibers)]
    /\ armed \in [Cores -> BOOLEAN]
    /\ asleep \subseteq Cores
    /\ aborted \in BOOLEAN

\* How often f is in the queue, in a ring, in a wait list.
Queued(f)  == Cardinality({i \in 1 .. Len(m_thread_queue) : m_thread_queue[i] = f})
RingOf(f)  == {p \in Cores \X (1 .. Cardinality(Fibers)) :
                  p[2] <= Len(local_ring[p[1]]) /\ local_ring[p[1]][p[2]] = f}
Parked(f)  == {g \in Fibers : f \in Elements(wait_list[g])} \cup
              (IF f \in Elements(m_wait_list) THEN {NoFiber} ELSE {})
RunBy(f)   == {c \in Cores : running[c] = f}

OnePlaceInv ==
    aborted \/ \A f \in Fibers :
        /\ Queued(f) = (IF fiber_state[f] = "Scheduled" THEN 1 ELSE 0)
        /\ IF fiber_state[f] = "ScheduledLocal"
           THEN \E i \in 1 .. Len(local_ring[current_core[f]]) : RingOf(f) = {<<current_core[f], i>>}
           ELSE RingOf(f) = {}
        /\ IF fiber_state[f] = "Waiting"
           THEN /\ Cardinality(Parked(f)) = 1
                /\ \A c \in RunBy(f) : phase[c] \in {"switched", "booted"}
           ELSE Parked(f) = {}
        /\ IF fiber_state[f] \in {"Running", "Exiting"}
           THEN RunBy(f) = {current_core[f]}
           ELSE fiber_state[f] = "Waiting" \/ RunBy(f) = {}

\* m_runnable_fibers, the word cores sleep on, counts the queue and the rings.
CountsAgree ==
    aborted \/
    /\ m_runnable_fibers =
           Cardinality({f \in Fibers : fiber_state[f] \in {"Scheduled", "ScheduledLocal"}})
    /\ m_active_cores = Cardinality({c \in Cores : phase[c] \notin {"rest", "resting"}})

\* Exactly the core that is between a system call and the next dispatch holds
\* m_scheduler_lock: the lock is handed over SwitchToFiber, not dropped.
LockCoversScheduling ==
    \A c \in Cores : m_scheduler_lock = c
                         <=> phase[c] \in {"booted", "switched", "scan", "queue"}

=============================================================================
