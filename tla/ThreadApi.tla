----------------------------- MODULE ThreadApi -----------------------------
(***************************************************************************)
(* awn::ukern's thread API over UserScheduler: fibers that create, start,  *)
(* suspend, resume, re-prioritise, move, join, yield, sleep and exit.      *)
(*                                                                         *)
(* A call that names another fiber resolves its handle BEFORE it takes     *)
(* m_scheduler_lock and uses the pointer after: call[f] is the call of     *)
(* fiber f between the two.  A handle is the fiber it was given out for;   *)
(* that the handle of a fiber that is gone does not resolve, even when its *)
(* storage is used again, is what module HandleTable shows.                *)
(*                                                                         *)
(* The clients of an instance suspend, re-prioritise and move fibers only  *)
(* in the states ActivityTargets, PriorityTargets and MaskTargets, and     *)
(* only the fibers Admins do.  A fiber that is suspended while it is       *)
(* queued stays in the queue: its state as a target is SuspendedQueued.    *)
(* None of the states is ScheduledLocal: what FixedRingBuffer::Remove does *)
(* to a ring is outside of this model.                                     *)
(***************************************************************************)
EXTENDS UserScheduler

CONSTANTS
    Calls,          \* the system calls the fibers of an instance make
    CreateCores,    \* core_id arguments of CreateThread
    Masks,          \* arguments of SetThreadCoreMask
    CreatePriorities,  \* arguments of CreateThread, after the offset is added
    SetPriorities,     \* arguments of SetThreadPriority
    Timeouts,       \* "finite", "never"
    Admins, ActivityTargets, PriorityTargets, MaskTargets

ThreadCalls == {"yield", "sleep", "exit", "create", "join", "activity", "priority", "mask"}

ASSUME ThreadApiAssumption ==
    /\ Calls \subseteq ThreadCalls
    /\ CreateCores \subseteq Cores /\ Masks \subseteq SUBSET Cores
    /\ CreatePriorities \cup SetPriorities \subseteq Int
    /\ Timeouts \subseteq {"finite", "never"}
    /\ Admins \subseteq Fibers
    /\ ActivityTargets \cup PriorityTargets \cup MaskTargets
           \subseteq (FiberState \ {"ScheduledLocal", "Unallocated"}) \cup {"SuspendedQueued"}

VARIABLE call

vars == <<kernelVars, call>>

NoCall == [op |-> "none", target |-> NoFiber]
CallRecord == [op : {"none", "join", "activity", "priority", "mask"}, target : Fibers \cup {NoFiber}]

\* GetFiberByHandle: the storage, for the handle of a fiber that still exists.
Resolves(f) == fiber_state[f] # "Unallocated"

\* f is in user code, not in the middle of a call.
Free(f) == call[f] = NoCall

-----------------------------------------------------------------------------
\* Mutant: the new fiber has the handle of the one that was in its storage.
CreateThread_SameHandle(f, c) ==
    /\ Runs(f, c) /\ Free(f) /\ LockFree
    /\ \E new \in {g \in Fibers : fiber_state[g] = "Unallocated"} :
        /\ fiber_state' = [fiber_state EXCEPT ![new] = "Suspended"]
        /\ activity_level' = [activity_level EXCEPT ![new] = "Suspended"]
        /\ core_mask' = [core_mask EXCEPT ![new] = {0}]
        /\ waitable_object' = [waitable_object EXCEPT ![new] = "none"]
        /\ timeout' = [timeout EXCEPT ![new] = "none"]
        /\ last_result' = [last_result EXCEPT ![new] = "Success"]
    /\ UNCHANGED <<priority, current_core, wait_list, call, m_wait_list, m_thread_queue,
                   local_ring, m_runnable_fibers, restVars, m_scheduler_lock, phase, running,
                   asleep, aborted>>

\* CreateThreadImpl.  A join that waits for the last user of the storage finds
\* from now on that its handle resolves to nothing.
CreateThread(f, c) ==
    /\ Runs(f, c) /\ Free(f) /\ LockFree
    /\ \E new \in {g \in Fibers : fiber_state[g] = "Unallocated"},
          pri \in CreatePriorities, core_id \in CreateCores :
        /\ fiber_state' = [fiber_state EXCEPT ![new] = "Suspended"]
        /\ activity_level' = [activity_level EXCEPT ![new] = "Suspended"]
        /\ priority' = [priority EXCEPT ![new] = pri]
        /\ core_mask' = [core_mask EXCEPT ![new] = {core_id}]
        /\ current_core' = [current_core EXCEPT ![new] = 0]
        /\ waitable_object' = [waitable_object EXCEPT ![new] = "none"]
        /\ timeout' = [timeout EXCEPT ![new] = "none"]
        /\ last_result' = [last_result EXCEPT ![new] = "Success"]
        /\ wait_list' = [wait_list EXCEPT ![new] = <<>>]
        /\ call' = [h \in Fibers |-> IF call[h].op = "join" /\ call[h].target = new
                                     THEN [call[h] EXCEPT !.target = NoFiber] ELSE call[h]]
    /\ UNCHANGED <<m_wait_list, m_thread_queue, local_ring, m_runnable_fibers, restVars,
                   m_scheduler_lock, phase, running, asleep, aborted>>

\* SetActivity of a queued fiber leaves it in the queue, with the state Suspended.
TargetState(f) ==
    IF fiber_state[f] = "Suspended" /\ f \in Elements(m_thread_queue) THEN "SuspendedQueued"
    ELSE fiber_state[f]

\* The states of a fiber in which the clients may name it in a call.
Targets(op) ==
    CASE op = "activity" -> ActivityTargets
      [] op = "priority" -> PriorityTargets
      [] op = "mask"     -> MaskTargets
      [] op = "join"     -> FiberState \cup {"SuspendedQueued"}

\* The first lines of ExitThreadImpl, SetActivityImpl, SetPriorityImpl and
\* SetCoreMaskImpl: the handle is resolved without the scheduler lock.
GetFiberByHandle(f, c, op) ==
    /\ Runs(f, c) /\ Free(f)
    /\ \E target \in Fibers :
        /\ Resolves(target) /\ TargetState(target) \in Targets(op)
        /\ IF op = "join" THEN target # f ELSE f \in Admins
        /\ call' = [call EXCEPT ![f] = [op |-> op, target |-> target]]
    /\ UNCHANGED kernelVars

\* The rest of SetActivityImpl.
SetActivity(f, c) ==
    /\ Runs(f, c) /\ call[f].op = "activity" /\ LockFree
    /\ LET fiber_local == call[f].target
       IN  \E level \in {"Suspended", "Schedulable"} :
                /\ activity_level' = [activity_level EXCEPT ![fiber_local] = level]
                /\ IF activity_level[fiber_local] = level THEN UNCHANGED readyVars
                   ELSE Reschedule(fiber_local, activity_level', priority)
    /\ call' = [call EXCEPT ![f] = NoCall]
    /\ UNCHANGED <<priority, core_mask, waitVars, restVars, current_core, local_ring,
                   m_scheduler_lock, phase, running, aborted>>

\* Mutant: a queued fiber stays where its old priority put it.
SetPriority_NoReschedule(f, c) ==
    /\ Runs(f, c) /\ call[f].op = "priority" /\ LockFree
    /\ \E pri \in SetPriorities : priority' = [priority EXCEPT ![call[f].target] = pri]
    /\ call' = [call EXCEPT ![f] = NoCall]
    /\ UNCHANGED <<activity_level, core_mask, waitVars, readyVars, restVars, current_core,
                   local_ring, m_scheduler_lock, phase, running, aborted>>

\* The rest of SetPriorityImpl: the priorities it accepts are those outside of
\* CreateThread's range, and the new one is written before the queue is searched
\* for the fiber.
SetPriority(f, c) ==
    /\ Runs(f, c) /\ call[f].op = "priority" /\ LockFree
    /\ LET fiber_local == call[f].target
       IN  \E pri \in {p \in SetPriorities : ~(-2 <= p /\ p <= 2)} :
                /\ priority' = [priority EXCEPT ![fiber_local] = pri]
                /\ IF priority[fiber_local] = pri THEN UNCHANGED readyVars
                   ELSE Reschedule(fiber_local, activity_level, priority')
    /\ call' = [call EXCEPT ![f] = NoCall]
    /\ UNCHANGED <<activity_level, core_mask, waitVars, restVars, current_core, local_ring,
                   m_scheduler_lock, phase, running, aborted>>

\* The rest of SetCoreMaskImpl.
SetCoreMask(f, c) ==
    /\ Runs(f, c) /\ call[f].op = "mask" /\ LockFree
    /\ LET fiber_local == call[f].target
       IN  \E mask \in Masks :
                /\ core_mask' = [core_mask EXCEPT ![fiber_local] = mask]
                /\ IF core_mask[fiber_local] = mask THEN UNCHANGED readyVars
                   ELSE Reschedule(fiber_local, activity_level, priority)
    /\ call' = [call EXCEPT ![f] = NoCall]
    /\ UNCHANGED <<activity_level, priority, waitVars, restVars, current_core, local_ring,
                   m_scheduler_lock, phase, running, aborted>>

\* One turn of ExitThreadImpl's loop: return once the handle resolves to
\* nothing, else yield and look again.
JoinThread(f, c) ==
    /\ call[f].op = "join"
    /\ IF call[f].target # NoFiber /\ Resolves(call[f].target)
       THEN YieldThread(f, c) /\ UNCHANGED call
       ELSE /\ Runs(f, c)
            /\ call' = [call EXCEPT ![f] = NoCall]
            /\ UNCHANGED kernelVars

-----------------------------------------------------------------------------
\* Fiber f, running on core c, goes on with or starts a call.
ThreadStep(f, c) ==
    \/ "yield" \in Calls /\ Free(f) /\ YieldThread(f, c) /\ UNCHANGED call
    \/ "sleep" \in Calls /\ Free(f) /\ (\E t \in Timeouts : Sleep(f, c, t)) /\ UNCHANGED call
    \/ "exit" \in Calls /\ Free(f) /\ ExitFiber(f, c) /\ UNCHANGED call
    \/ "create" \in Calls /\ CreateThread(f, c)
    \/ \E op \in Calls \cap {"join", "activity", "priority", "mask"} : GetFiberByHandle(f, c, op)
    \/ SetActivity(f, c) \/ SetPriority(f, c) \/ SetCoreMask(f, c) \/ JoinThread(f, c)

Init == KernelInit({}, <<>>) /\ call = [f \in Fibers |-> NoCall]

Next == \E c \in Cores :
            \/ SchedulerStep(c) /\ UNCHANGED call
            \/ \E f \in Fibers : ThreadStep(f, c)

Spec == Init /\ [][Next]_vars

\* f gives up its core.
GivesUp(f) ==
    \E c \in Cores :
        \/ /\ Free(f)
           /\ \/ "yield" \in Calls /\ YieldThread(f, c)
              \/ "sleep" \in Calls /\ (\E t \in Timeouts : Sleep(f, c, t))
              \/ "exit" \in Calls /\ ExitFiber(f, c)
           /\ UNCHANGED call
        \/ JoinThread(f, c)

\* The core's threads run, the clock passes every finite timeout, and a fiber
\* that runs makes again and again a call that gives up its core: scheduling is
\* cooperative, so a fiber that never does would rightly keep its core.
Fairness ==
    /\ \A c \in Cores :
        /\ WF_vars(SchedulerStep(c) /\ UNCHANGED call)
        /\ SF_vars(SkipRest(c) /\ UNCHANGED call)
        /\ \A f \in Fibers : SF_vars(CancelSleep(c, f) /\ UNCHANGED call)
    /\ \A f \in Fibers :
        /\ SF_vars(GivesUp(f))
        /\ WF_vars(\E c \in Cores : SetActivity(f, c) \/ SetPriority(f, c) \/ SetCoreMask(f, c))

FairSpec == Spec /\ Fairness

-----------------------------------------------------------------------------
(* Properties. *)

\* Every variable has the type of the field it stands for; m_runnable_fibers
\* and m_active_cores, which are unsigned in the code, never pass below zero.
TypeOK == SchedulerTypeOK /\ call \in [Fibers -> CallRecord]

\* Each fiber is in exactly the one place its fiber_state names: queued once
\* and only once by AddToSchedulerUnsafe, run by one core, or in one wait list.
\* A second place would be two cores running on one stack.
OnePlace == OnePlaceInv

\* Dispatch's VP_ASSERT(false) is unreachable: a fiber comes back to the
\* scheduler running, exiting or waiting.
NoAbort == aborted = FALSE

\* Whatever was done to it when, a suspended fiber is not made runnable: not by
\* the end of its wait nor by a change of its priority (AddToSchedulerUnsafe), nor
\* when it comes back from the one turn it still gets when it was queued as it was
\* suspended (Dispatch).
InRing(f) == \E c \in Cores : f \in Elements(local_ring[c])
StaysSuspended(f) == activity_level[f] = "Suspended" /\ activity_level'[f] = "Suspended"
SuspendedStays ==
    [][\A f \in Fibers : StaysSuspended(f) /\ f \notin Elements(m_thread_queue) =>
           /\ f \notin Elements(m_thread_queue')
           /\ ~InRing(f) => ~InRing(f)' /\ (RunBy(f)' # {} => RunBy(f) # {})]_vars

\* A core takes from the queue a fiber of the highest priority in it, also
\* after SetPriorityImpl changed the priority of a queued one.
HighestPriorityFirst ==
    [][\A c \in Cores : ScheduleFromQueue(c) =>
           \A g \in Elements(m_thread_queue) : priority[running'[c]] >= priority[g]]_vars

\* While fibers are queued and a core is asleep, another core is on its way to
\* the queue: neither AddToSchedulerUnsafe's wake-up nor the window between
\* ReleaseSRWLock and WaitOnAddress loses one.  (For fibers of one core each.)
NoLostWakeup ==
    (m_thread_queue # <<>> /\ LockFree /\ asleep # {}) =>
        \E c \in Cores \ asleep : phase[c] \in {"start", "rest", "resting"}

\* A fiber that sleeps for a finite time is served: some core of its mask is
\* awake, or rests no longer than the sleep ("Find next wakeup time").
TimersServed ==
    aborted \/ \A f \in Elements(m_wait_list) :
        timeout[f] = "finite" => \E c \in core_mask[f] : c \notin asleep \/ armed[c]

\* The heap keeps no order among three fibers of one priority, so that one of them
\* may be passed over for ever.
Crowded == Cardinality({f \in Fibers : fiber_state[f] \in {"Scheduled", "Running"}}) > 2

\* On one core a runnable fiber runs, or it comes to compete with two others:
\* AddToSchedulerUnsafe puts the fiber that yields behind it.
RunnableFiberRuns ==
    \A f \in Fibers : fiber_state[f] = "Scheduled" ~> (fiber_state[f] = "Running" \/ Crowded)

\* A sleep with a finite timeout ends, however the other fibers use the core.
SleepEnds ==
    \A f \in Fibers : fiber_state[f] = "Waiting" ~> fiber_state[f] # "Waiting"

\* ExitThreadImpl returns to a fiber that joined a fiber that exited, also when
\* a third fiber gives the storage to a new one before the join looks again.
JoinReturns ==
    \A f, g \in Fibers : (call[f] = [op |-> "join", target |-> g] /\ fiber_state[g] = "Exiting")
                             ~> (call[f] = NoCall \/ Crowded)

=============================================================================
