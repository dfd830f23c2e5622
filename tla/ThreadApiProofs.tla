--------------------------- MODULE ThreadApiProofs ---------------------------
(***************************************************************************)
(* ThreadApi and MCThreadMasks: each fiber is in one place, Dispatch does  *)
(* not abort, suspended fibers are not queued, the front of the queue is   *)
(* the highest, timers are served and no wake-up is lost.                  *)
(*                                                                         *)
(* The calls that name another fiber look it up before they take           *)
(* m_scheduler_lock and use it after, so their effect on a fiber whose     *)
(* state has changed in between is what the code leaves open.  SafeClients *)
(* are the programs that rule this out: those of one core, which a fiber   *)
(* in a call does not give up, and those of any number of cores in which   *)
(* one fiber makes such calls, on suspended fibers.  SuspendingClients are *)
(* those of one core that suspend queued fibers too: what the invariant of *)
(* the others says of suspended fibers is false of them.                   *)
(*                                                                         *)
(* LockIsHeld needs no such assumption: it does not mention fibers.        *)
(***************************************************************************)
EXTENDS MCThreadMasks, UserSchedulerProofs

\* The clients of one core; one client of which the targets are parked.
OneCore  == /\ Cores = {BootCore}
            /\ ActivityTargets \subseteq {"Suspended", "Waiting"}
            /\ PriorityTargets \cup MaskTargets \subseteq {"Suspended", "Waiting", "Scheduled"}
OneAdmin == /\ \A f, g \in Admins : f = g
            /\ ActivityTargets \cup PriorityTargets \cup MaskTargets \subseteq {"Suspended"}
SafeClients == {} \notin Masks /\ (OneCore \/ OneAdmin)
SuspendingClients ==
    /\ Cores = {BootCore} /\ {} \notin Masks
    /\ ActivityTargets \cup PriorityTargets \cup MaskTargets \subseteq {"Suspended", "Waiting", "Scheduled"}

\* A call between GetFiberByHandle and m_scheduler_lock.
Pending(f) == call[f].op \in {"activity", "priority", "mask"}

\* What is known of the target of a call in progress: on one core its caller runs, so
\* the target is in the state it was found in; with one admin it is suspended, which
\* only that admin changes.
CallInv ==
    /\ call \in [Fibers -> CallRecord]
    /\ \A f \in Fibers : Pending(f) =>
          /\ f \in Admins /\ call[f].target \in Fibers
          /\ OneCore  => /\ running[BootCore] = f /\ phase[BootCore] \in {"boot", "user"}
                         /\ fiber_state[call[f].target] \in
                               IF call[f].op = "activity" THEN {"Suspended", "Waiting"}
                               ELSE {"Suspended", "Waiting", "Scheduled"}
          /\ OneAdmin => fiber_state[call[f].target] = "Suspended"

\* Among the states that SafeClients name none is a suspended fiber in the queue, so that
\* no suspended fiber is ready.
SuspendedIsParked ==
    \A f \in Fibers : activity_level[f] = "Suspended"
                          => fiber_state[f] \in {"Suspended", "Waiting", "Unallocated"}

\* No fiber waits for another one: the thread API parks fibers in m_wait_list only.
NoLists == wait_list = [f \in Fibers |-> <<>>]

\* The inductive invariant.
ThreadInv == KernelInv /\ CallInv /\ SuspendedIsParked /\ NoLists /\ aborted = FALSE

\* No core that rests for ever may serve a timeout.
RestsForTimers == \A c \in Cores : phase[c] \in {"rest", "resting"} /\ ~armed[c] => ~FiniteRest(c)

USE SchedulerAssumption, ThreadApiAssumption

-----------------------------------------------------------------------------
(* The scheduler loop below the thread API. *)

\* The fibers of which the loop changes the state are put where their activity
\* level says, or were ready and go on.
LEMMA SchedulerStepParks ==
    ASSUME KernelInv, SuspendedIsParked, NEW c \in Cores, SchedulerStep(c)
    PROVE  /\ UNCHANGED <<fiberVars, wait_list>>
           /\ SuspendedIsParked'
           /\ \A g \in Fibers : fiber_state[g] = "Suspended" => fiber_state'[g] = "Suspended"
  <1>0. UNCHANGED <<fiberVars, wait_list>>
    BY DEF SchedulerStep, StartCore, BootScheduler, CancelSleep, ScheduleLocal, PostDispatch,
           FallBackToQueue, ScheduleFromQueue, DelegateToRing, Rest, WaitOnRunnable, WakeCore,
           SkipRest, RestTimeout, waitVars
  <1>1. fiber_state \in [Fibers -> FiberState] /\ activity_level \in [Fibers -> {"Suspended", "Schedulable"}]
    BY DEF KernelInv, FieldsInv
  <1> DEFINE Goal == /\ SuspendedIsParked'
                     /\ \A g \in Fibers : fiber_state[g] = "Suspended" => fiber_state'[g] = "Suspended"
             Parks(f) == /\ fiber_state[f] # "Suspended"
                         /\ \A g \in Fibers \ {f} : fiber_state'[g] = fiber_state[g]
                         /\ activity_level[f] = "Suspended"
                                => fiber_state'[f] \in {"Suspended", "Waiting", "Unallocated"}
  <1>2. \A f \in Fibers : Parks(f) => Goal
    BY <1>0 DEF SuspendedIsParked, fiberVars
  <1>3. UNCHANGED fiber_state => Goal
    BY <1>0 DEF SuspendedIsParked, fiberVars
  <1> SUFFICES Goal
    BY <1>0
  <1> HIDE DEF Goal
  <1>4. CASE BootScheduler(c)
    <2>1. /\ phase[c] = "booted" /\ fiber_state[MainFiber] \in {"Running", "Waiting"}
          /\ Reschedule(MainFiber, activity_level, priority)
      BY <1>4 DEF BootScheduler, KernelInv, RunInv, MayBe
    <2>2. \/ UNCHANGED fiber_state
          \/ fiber_state' = [fiber_state EXCEPT ![MainFiber] = "Suspended"]
          \/ activity_level[MainFiber] # "Suspended" /\ fiber_state' = [fiber_state EXCEPT ![MainFiber] = "Scheduled"]
      BY <2>1 DEF Reschedule, readyVars
    <2>3. CASE ~ UNCHANGED fiber_state
      <3>1. Parks(MainFiber)
        BY <1>1, <2>1, <2>2, <2>3
      <3> HIDE DEF Parks
      <3> QED BY <1>2, <3>1
    <2> QED BY <1>3, <2>3
  <1>5. ASSUME NEW f \in Fibers, fiber_state[f] \in {"Running", "Waiting"}, AddToSchedulerUnsafe(<<f>>)
        PROVE  Goal
    <2>1. <<f>> \in Seq(Fibers) /\ Elements(<<f>>) = {f} /\ Once(<<f>>)
      BY ListOfOne
    <2>2. Elements(<<f>>) \cap Ready = {} /\ UNCHANGED priority
      BY <1>0, <1>5, <2>1 DEF Ready, fiberVars
    <2>3. \A g \in Fibers : fiber_state'[g] =
                  IF g \notin Elements(<<f>>) THEN fiber_state[g]
                  ELSE IF activity_level[g] = "Schedulable" THEN "Scheduled" ELSE "Suspended"
      BY <1>5, <2>1, <2>2, AddedToScheduler DEF KernelInv
    <2>4. Parks(f)
      BY <1>5, <2>1, <2>3
    <2> HIDE DEF Parks
    <2> QED BY <1>2, <2>4
  <1>6. CASE PostDispatch(c)
    <2> DEFINE f == running[c]
    <2>1. f \in Fibers /\ fiber_state[f] \in {"Running", "Exiting", "Waiting"}
      BY <1>6 DEF PostDispatch, KernelInv, RunInv, MayBe
    <2>2. CASE fiber_state[f] = "Running"
      BY <1>5, <1>6, <2>1, <2>2 DEF PostDispatch
    <2>3. CASE fiber_state[f] # "Running"
      <3>1. fiber_state' = [fiber_state EXCEPT ![f] = IF @ = "Exiting" THEN "Unallocated" ELSE @]
        BY <1>6, <2>3 DEF PostDispatch
      <3>2. CASE fiber_state[f] = "Exiting"
        <4>1. Parks(f)
          BY <3>1, <3>2, <2>1, <1>1
        <4> HIDE DEF Parks
        <4> QED BY <1>2, <2>1, <4>1
      <3>3. CASE fiber_state[f] # "Exiting"
        <4>1. UNCHANGED fiber_state
          BY <3>1, <3>3, <2>1, <1>1
        <4> QED BY <1>3, <4>1
      <3> QED BY <3>2, <3>3
    <2> QED BY <2>2, <2>3
  <1>7. ASSUME NEW f \in Fibers, CancelSleep(c, f)
        PROVE  Goal
    <2>1. f \in Elements(m_wait_list) /\ AddToSchedulerUnsafe(<<f>>)
      BY <1>7 DEF CancelSleep, TimedOut, EndFiberWaitImpl
    <2>2. fiber_state[f] = "Waiting"
      BY <2>1 DEF KernelInv, ParkInv, Parked
    <2> QED BY <1>5, <2>1, <2>2
  <1>8. ASSUME NEW f \in Ready, NEW st \in {"Running", "ScheduledLocal"},
               fiber_state' = [fiber_state EXCEPT ![f] = st]
        PROVE  Goal
    <2>1. f \in Fibers /\ fiber_state[f] \in {"Scheduled", "ScheduledLocal"} /\ activity_level[f] # "Suspended"
      BY DEF Ready, SuspendedIsParked
    <2>2. Parks(f)
      BY <1>1, <1>8, <2>1
    <2> HIDE DEF Parks
    <2> QED BY <1>2, <2>1, <2>2
  <1>9. CASE ScheduleLocal(c)
    <2>1. Head(local_ring[c]) \in Ready
      <3>1. local_ring[c] \in Seq(Fibers) /\ local_ring[c] # <<>>
        BY <1>9 DEF ScheduleLocal, KernelInv, RingInv
      <3>2. Head(local_ring[c]) \in Elements(local_ring[c])
        BY <3>1, ListTail
      <3> QED BY <3>2 DEF KernelInv, RingInv, Ready
    <2> QED BY <1>8, <1>9, <2>1 DEF ScheduleLocal, Dispatch
  <1>10. CASE ScheduleFromQueue(c) \/ DelegateToRing(c)
    <2>1. Peek(m_thread_queue) \in Ready
      <3>1. m_thread_queue # <<>>
        BY <1>10 DEF ScheduleFromQueue, DelegateToRing
      <3> QED BY <3>1, FrontOfQueue DEF KernelInv, Ready
    <2> QED BY <1>8, <1>10, <2>1 DEF ScheduleFromQueue, DelegateToRing, Dispatch
  <1>11. CASE StartCore(c) \/ FallBackToQueue(c) \/ Rest(c) \/ WaitOnRunnable(c) \/ WakeCore(c)
               \/ SkipRest(c) \/ RestTimeout(c)
    BY <1>3, <1>11 DEF StartCore, FallBackToQueue, Rest, WaitOnRunnable, WakeCore, SkipRest,
                       RestTimeout, readyVars
  <1> QED BY <1>0, <1>4, <1>6, <1>7, <1>9, <1>10, <1>11 DEF SchedulerStep

\* The loop needs the core: a core of which the fiber is in user code does not
\* take a step of it.
LEMMA UserCoreIsBusy ==
    ASSUME KernelInv, NEW c \in Cores, phase[c] \in {"boot", "user"}
    PROVE  ~SchedulerStep(c)
  <1>1. c \notin asleep
    BY DEF KernelInv, RestInv
  <1> QED BY <1>1 DEF SchedulerStep, StartCore, BootScheduler, CancelSleep, ScheduleLocal, PostDispatch,
           FallBackToQueue, ScheduleFromQueue, DelegateToRing, Rest, WaitOnRunnable, WakeCore,
           SkipRest, RestTimeout

-----------------------------------------------------------------------------
(* The calls. *)

\* Who runs is Running, and no suspended fiber runs.
LEMMA RunnerIsRunning ==
    ASSUME ThreadInv, NEW f \in Fibers, NEW c \in Cores, Runs(f, c)
    PROVE  /\ fiber_state[f] = "Running" /\ activity_level[f] = "Schedulable"
           /\ running[c] = f /\ phase[c] \in {"boot", "user"}
  <1>1. /\ running[c] = f /\ phase[c] \in {"boot", "user"} /\ fiber_state[f] = "Running"
    BY DEF ThreadInv, KernelInv, Runs, RunInv, MayBe
  <1>2. activity_level[f] \in {"Suspended", "Schedulable"}
    BY DEF ThreadInv, KernelInv, FieldsInv
  <1> QED BY <1>1, <1>2 DEF ThreadInv, SuspendedIsParked

\* On one core there is no call in progress but that of the fiber that runs.
LEMMA OnlyTheRunnerCalls ==
    ASSUME ThreadInv, OneCore, NEW f \in Fibers, NEW c \in Cores, Runs(f, c)
    PROVE  \A g \in Fibers \ {f} : ~Pending(g)
  <1>1. c = BootCore /\ running[BootCore] = f
    BY RunnerIsRunning DEF OneCore
  <1> QED BY <1>1 DEF ThreadInv, CallInv

\* Calls in progress stay safe in a step that starts none.
LEMMA CallKept ==
    ASSUME CallInv, call' \in [Fibers -> CallRecord],
           \A g \in Fibers : Pending(g)' => call'[g] = call[g],
           OneAdmin => \A t \in Fibers : fiber_state[t] = "Suspended" => fiber_state'[t] = "Suspended",
           OneCore => \/ \A g \in Fibers : ~Pending(g)'
                      \/ UNCHANGED <<running, phase, fiber_state>>
    PROVE  CallInv'
  <1> SUFFICES ASSUME NEW g \in Fibers, Pending(g)'
               PROVE  /\ g \in Admins /\ call'[g].target \in Fibers
                      /\ OneCore  => /\ running'[BootCore] = g /\ phase'[BootCore] \in {"boot", "user"}
                                     /\ fiber_state'[call'[g].target] \in
                                           IF call'[g].op = "activity" THEN {"Suspended", "Waiting"}
                                           ELSE {"Suspended", "Waiting", "Scheduled"}
                      /\ OneAdmin => fiber_state'[call'[g].target] = "Suspended"
    BY DEF CallInv
  <1>1. call'[g] = call[g] /\ Pending(g)
    BY DEF Pending
  <1>2. /\ g \in Admins /\ call[g].target \in Fibers
        /\ OneCore  => /\ running[BootCore] = g /\ phase[BootCore] \in {"boot", "user"}
                       /\ fiber_state[call[g].target] \in
                             IF call[g].op = "activity" THEN {"Suspended", "Waiting"}
                             ELSE {"Suspended", "Waiting", "Scheduled"}
        /\ OneAdmin => fiber_state[call[g].target] = "Suspended"
    BY <1>1 DEF CallInv
  <1> QED BY <1>1, <1>2

\* The scheduler loop keeps the invariant of the thread API.
LEMMA SchedulerKeepsThreads ==
    ASSUME ThreadInv, NEW c \in Cores, SchedulerStep(c), UNCHANGED call
    PROVE  ThreadInv'
  <1>1. KernelInv' /\ aborted' = FALSE
    BY SchedulerStepKeeps DEF ThreadInv
  <1>2. /\ SuspendedIsParked' /\ NoLists'
        /\ \A g \in Fibers : fiber_state[g] = "Suspended" => fiber_state'[g] = "Suspended"
    BY SchedulerStepParks DEF ThreadInv, NoLists
  <1>3. CallInv'
    <2>1. call' \in [Fibers -> CallRecord] /\ \A g \in Fibers : Pending(g)' <=> Pending(g)
      BY DEF ThreadInv, CallInv, Pending
    <2>2. OneCore => \A g \in Fibers : ~Pending(g)
      BY UserCoreIsBusy DEF ThreadInv, CallInv, OneCore
    <2> QED BY <1>2, <2>1, <2>2, CallKept DEF ThreadInv
  <1> QED BY <1>1, <1>2, <1>3 DEF ThreadInv

\* A fiber that is not in the middle of a call about another one gives up its core.
LEMMA GivingUpKeepsThreads ==
    ASSUME ThreadInv, NEW f \in Fibers, NEW c \in Cores, ~Pending(f), UNCHANGED call,
           YieldThread(f, c) \/ (\E t \in Timeouts : Sleep(f, c, t)) \/ ExitFiber(f, c)
    PROVE  ThreadInv'
  <1>1. Runs(f, c)
    BY DEF YieldThread, Sleep, ExitFiber
  <1>2. KernelInv'
    <2>1. \A t \in Timeouts : t \in TimeoutValues
      BY DEF TimeoutValues
    <2> QED BY <2>1, YieldKeeps, SleepKeeps, ExitKeeps DEF ThreadInv
  <1>3. fiber_state[f] = "Running" /\ activity_level[f] = "Schedulable"
    BY <1>1, RunnerIsRunning
  <1>4. /\ UNCHANGED <<activity_level, wait_list, aborted>>
        /\ \A g \in Fibers \ {f} : fiber_state'[g] = fiber_state[g]
    <2>1. fiber_state \in [Fibers -> FiberState]
      BY DEF ThreadInv, KernelInv, FieldsInv
    <2> QED BY <2>1 DEF YieldThread, Sleep, ExitFiber, fiberVars, waitVars, readyVars
  <1>5. SuspendedIsParked'
    BY <1>3, <1>4 DEF ThreadInv, SuspendedIsParked
  <1>6. CallInv'
    <2>1. call' \in [Fibers -> CallRecord] /\ \A g \in Fibers : Pending(g)' <=> Pending(g)
      BY DEF ThreadInv, CallInv, Pending
    <2>2. OneCore => \A g \in Fibers : ~Pending(g)
      BY <1>1, OnlyTheRunnerCalls
    <2>3. \A t \in Fibers : fiber_state[t] = "Suspended" => fiber_state'[t] = "Suspended"
      BY <1>3, <1>4
    <2> QED BY <2>1, <2>2, <2>3, CallKept DEF ThreadInv
  <1> QED BY <1>2, <1>4, <1>5, <1>6 DEF ThreadInv, NoLists

\* CreateThread keeps the invariant: the storage it takes is in no list.
LEMMA CreateKeepsThreads ==
    ASSUME ThreadInv, NEW f \in Fibers, NEW c \in Cores, CreateThread(f, c)
    PROVE  ThreadInv'
  <1>1. PICK new \in Fibers, pri \in CreatePriorities, core_id \in CreateCores :
            /\ fiber_state[new] = "Unallocated"
            /\ fiber_state' = [fiber_state EXCEPT ![new] = "Suspended"]
            /\ activity_level' = [activity_level EXCEPT ![new] = "Suspended"]
            /\ priority' = [priority EXCEPT ![new] = pri]
            /\ core_mask' = [core_mask EXCEPT ![new] = {core_id}]
            /\ current_core' = [current_core EXCEPT ![new] = 0]
            /\ waitable_object' = [waitable_object EXCEPT ![new] = "none"]
            /\ timeout' = [timeout EXCEPT ![new] = "none"]
            /\ last_result' = [last_result EXCEPT ![new] = "Success"]
            /\ wait_list' = [wait_list EXCEPT ![new] = <<>>]
            /\ call' = [h \in Fibers |-> IF call[h].op = "join" /\ call[h].target = new
                                         THEN [call[h] EXCEPT !.target = NoFiber] ELSE call[h]]
    BY DEF CreateThread
  <1>2. /\ Runs(f, c) /\ Free(f)
        /\ UNCHANGED <<m_wait_list, m_thread_queue, local_ring, m_runnable_fibers, restVars,
                       m_scheduler_lock, phase, running, asleep, aborted>>
    BY DEF CreateThread
  <1>3. /\ activity_level \in [Fibers -> {"Suspended", "Schedulable"}]
        /\ priority \in [Fibers -> Int] /\ core_mask \in [Fibers -> SUBSET Cores]
        /\ wait_list = [g \in Fibers |-> <<>>] /\ fiber_state \in [Fibers -> FiberState]
    BY DEF ThreadInv, NoLists, KernelInv, FieldsInv
  <1>4. /\ activity_level' \in [Fibers -> {"Suspended", "Schedulable"}]
        /\ priority' \in [Fibers -> Int] /\ \A g \in Fibers \ {new} : priority'[g] = priority[g]
        /\ core_mask' \in [Fibers -> SUBSET Cores]
        /\ core_mask'[new] # {} /\ \A g \in Fibers \ {new} : core_mask'[g] = core_mask[g]
    BY <1>1, <1>3
  <1>5. KernelInv'
    BY <1>1, <1>2, <1>3, <1>4, NewFiberKeeps DEF ThreadInv
  <1>6. /\ fiber_state'[new] = "Suspended"
        /\ \A g \in Fibers \ {new} : fiber_state'[g] = fiber_state[g] /\ activity_level'[g] = activity_level[g]
    BY <1>1, <1>3
  <1>7. SuspendedIsParked'
    BY <1>6 DEF ThreadInv, SuspendedIsParked
  <1>8. NoLists' /\ aborted' = FALSE
    BY <1>1, <1>2, <1>3 DEF ThreadInv, NoLists
  <1>9. CallInv'
    <2>1. \A h \in Fibers : call[h] \in CallRecord
      BY DEF ThreadInv, CallInv
    <2>2. call' \in [Fibers -> CallRecord] /\ \A h \in Fibers : Pending(h)' => call'[h] = call[h]
      BY <1>1, <2>1 DEF CallRecord, Pending
    <2>3. ~Pending(f)
      BY <1>2 DEF Free, NoCall, Pending
    <2>4. OneCore => \A h \in Fibers : ~Pending(h)'
      <3>1. OneCore => \A h \in Fibers : ~Pending(h)
        BY <1>2, <2>3, OnlyTheRunnerCalls
      <3> QED BY <3>1, <2>2 DEF Pending
    <2>5. \A t \in Fibers : fiber_state[t] = "Suspended" => fiber_state'[t] = "Suspended"
      BY <1>6
    <2> QED BY <2>2, <2>4, <2>5, CallKept DEF ThreadInv
  <1> QED BY <1>5, <1>7, <1>8, <1>9 DEF ThreadInv

\* A call that has looked its target up, and has not taken the lock yet, keeps it.
LEMMA LookupKeepsThreads ==
    ASSUME ThreadInv, NEW f \in Fibers, NEW c \in Cores,
           NEW op \in {"join", "activity", "priority", "mask"}, GetFiberByHandle(f, c, op)
    PROVE  ThreadInv'
  <1>1. PICK target \in Fibers :
            /\ TargetState(target) \in Targets(op)
            /\ op # "join" => f \in Admins
            /\ call' = [call EXCEPT ![f] = [op |-> op, target |-> target]]
    BY DEF GetFiberByHandle
  <1>2. Runs(f, c) /\ Free(f) /\ UNCHANGED kernelVars
    BY DEF GetFiberByHandle
  <1>3. KernelInv' /\ aborted' = FALSE
    BY <1>2, KernelStutter DEF ThreadInv, kernelVars
  <1>4. SuspendedIsParked' /\ NoLists'
    BY <1>2 DEF ThreadInv, SuspendedIsParked, NoLists, kernelVars
  <1>5. CallInv'
    <2>1. call \in [Fibers -> CallRecord]
      BY DEF ThreadInv, CallInv
    <2>2. call' \in [Fibers -> CallRecord]
      BY <1>1, <2>1 DEF CallRecord
    <2>3. ASSUME NEW g \in Fibers, Pending(g)'
          PROVE  /\ g \in Admins /\ call'[g].target \in Fibers
                 /\ OneCore  => /\ running'[BootCore] = g /\ phase'[BootCore] \in {"boot", "user"}
                                /\ fiber_state'[call'[g].target] \in
                                      IF call'[g].op = "activity" THEN {"Suspended", "Waiting"}
                                      ELSE {"Suspended", "Waiting", "Scheduled"}
                 /\ OneAdmin => fiber_state'[call'[g].target] = "Suspended"
      <3>1. CASE g = f
        <4>1. call'[g] = [op |-> op, target |-> target]
          BY <3>1, <1>1, <2>1
        <4>2. op \in {"activity", "priority", "mask"}
          BY <4>1, <2>3 DEF Pending
        <4>3. OneCore => running[BootCore] = f /\ phase[BootCore] \in {"boot", "user"}
          BY <1>2, RunnerIsRunning DEF OneCore
        <4>4. OneCore => fiber_state[target] \in IF op = "activity" THEN {"Suspended", "Waiting"}
                                                 ELSE {"Suspended", "Waiting", "Scheduled"}
          BY <1>1, <4>2 DEF Targets, OneCore, TargetState
        <4>5. OneAdmin => fiber_state[target] = "Suspended"
          BY <1>1, <4>2 DEF Targets, OneAdmin, TargetState
        <4> QED BY <3>1, <1>1, <1>2, <4>1, <4>2, <4>3, <4>4, <4>5 DEF kernelVars
      <3>2. CASE g # f
        <4>1. call'[g] = call[g] /\ Pending(g)
          BY <3>2, <1>1, <2>1, <2>3 DEF Pending
        <4> QED BY <4>1, <1>2 DEF ThreadInv, CallInv, kernelVars
      <3> QED BY <3>1, <3>2
    <2> QED BY <2>2, <2>3 DEF CallInv
  <1> QED BY <1>3, <1>4, <1>5 DEF ThreadInv

\* The second half of a call about another fiber: its target, and what becomes of
\* the fields that Reschedule looks at.
LEMMA SetReschedules ==
    ASSUME SafeClients, ThreadInv, NEW f \in Fibers, NEW c \in Cores, Pending(f),
           SetActivity(f, c) \/ SetPriority(f, c) \/ SetCoreMask(f, c),
           NEW t, t = call[f].target
    PROVE  /\ t \in Fibers /\ fiber_state[t] \in {"Suspended", "Waiting", "Scheduled"}
           /\ activity_level' \in [Fibers -> {"Suspended", "Schedulable"}]
           /\ fiber_state[t] = "Scheduled" => activity_level'[t] # "Suspended"
           /\ \A g \in Fibers \ {t} : activity_level'[g] = activity_level[g]
           /\ priority' \in [Fibers -> Int] /\ \A g \in Fibers \ {t} : priority'[g] = priority[g]
           /\ core_mask' \in [Fibers -> SUBSET Cores]
           /\ \A g \in Fibers : fiber_state[g] # "Unallocated" => core_mask'[g] # {}
           /\ \/ Reschedule(t, activity_level', priority')
              \/ UNCHANGED <<readyVars, priority>>
           /\ UNCHANGED <<waitVars, restVars, current_core, local_ring, m_scheduler_lock, phase,
                          running, aborted>>
           /\ call' = [call EXCEPT ![f] = NoCall] /\ Runs(f, c)
  <1>1. /\ t \in Fibers
        /\ fiber_state[t] \in {"Suspended", "Waiting", "Scheduled"}
        /\ call[f].op = "activity" => fiber_state[t] # "Scheduled"
        /\ call' = [call EXCEPT ![f] = NoCall] /\ Runs(f, c)
        /\ call \in [Fibers -> CallRecord]
    BY DEF SafeClients, ThreadInv, CallInv, SetActivity, SetPriority, SetCoreMask
  <1>2. /\ activity_level \in [Fibers -> {"Suspended", "Schedulable"}]
        /\ priority \in [Fibers -> Int] /\ core_mask \in [Fibers -> SUBSET Cores]
        /\ \A g \in Fibers : fiber_state[g] # "Unallocated" => core_mask[g] # {}
    BY DEF ThreadInv, KernelInv, FieldsInv
  <1>0. activity_level[t] = "Suspended" => fiber_state[t] \in {"Suspended", "Waiting", "Unallocated"}
    BY <1>1 DEF ThreadInv, SuspendedIsParked
  <1>18. t \in Fibers
    BY <1>1, Zenon
  <1>19. activity_level \in [Fibers -> {"Suspended", "Schedulable"}]
    BY <1>2, Zenon
  <1>20. activity_level[t] \in {"Suspended", "Schedulable"}
    BY <1>18, <1>19
  <1>3. fiber_state[t] = "Scheduled" => activity_level[t] = "Schedulable"
    BY <1>0, <1>20
  <1>4. UNCHANGED <<waitVars, restVars, current_core, local_ring, m_scheduler_lock, phase, running, aborted>>
    BY SMTT(30) DEF SetActivity, SetPriority, SetCoreMask
  <1>5. /\ activity_level' \in [Fibers -> {"Suspended", "Schedulable"}]
        /\ fiber_state[t] = "Scheduled" => activity_level'[t] # "Suspended"
        /\ \A g \in Fibers \ {t} : activity_level'[g] = activity_level[g]
        /\ priority' \in [Fibers -> Int] /\ \A g \in Fibers \ {t} : priority'[g] = priority[g]
        /\ core_mask' \in [Fibers -> SUBSET Cores]
        /\ \A g \in Fibers : fiber_state[g] # "Unallocated" => core_mask'[g] # {}
        /\ \/ Reschedule(t, activity_level', priority')
           \/ UNCHANGED <<readyVars, priority>>
    <2>1. CASE SetActivity(f, c)
      <3>1. PICK level \in {"Suspended", "Schedulable"} :
                /\ activity_level' = [activity_level EXCEPT ![t] = level]
                /\ UNCHANGED readyVars \/ Reschedule(t, activity_level', priority)
        BY <2>1 DEF SetActivity
      <3>2. UNCHANGED <<priority, core_mask>> /\ fiber_state[t] # "Scheduled"
        BY <2>1, <1>1 DEF SetActivity
      <3>3. UNCHANGED readyVars \/ Reschedule(t, activity_level', priority')
        BY <3>1, <3>2
      <3> QED BY <3>1, <3>2, <3>3, <1>1, <1>2
    <2>2. CASE SetPriority(f, c)
      <3>1. PICK pri \in SetPriorities :
                /\ priority' = [priority EXCEPT ![t] = pri]
                /\ \/ priority[t] = pri /\ UNCHANGED readyVars
                   \/ Reschedule(t, activity_level, priority')
        BY <2>2 DEF SetPriority
      <3>2. UNCHANGED <<activity_level, core_mask>>
        BY <2>2 DEF SetPriority
      <3>3. priority' \in [Fibers -> Int] /\ \A g \in Fibers \ {t} : priority'[g] = priority[g]
        BY <3>1, <1>1, <1>2
      <3>4. \/ UNCHANGED <<readyVars, priority>>
            \/ Reschedule(t, activity_level', priority')
        BY <3>1, <3>2, <1>1, <1>2
      <3> QED BY <3>2, <3>3, <3>4, <1>2, <1>3
    <2>3. CASE SetCoreMask(f, c)
      <3>1. PICK mask \in Masks :
                /\ core_mask' = [core_mask EXCEPT ![t] = mask]
                /\ UNCHANGED readyVars \/ Reschedule(t, activity_level, priority)
        BY <2>3 DEF SetCoreMask
      <3>2. UNCHANGED <<activity_level, priority>>
        BY <2>3 DEF SetCoreMask
      <3>3. mask # {} /\ mask \in SUBSET Cores
        BY DEF SafeClients
      <3>4. UNCHANGED <<readyVars, priority>> \/ Reschedule(t, activity_level', priority')
        BY <3>1, <3>2
      <3>5. /\ core_mask' \in [Fibers -> SUBSET Cores]
            /\ \A g \in Fibers : fiber_state[g] # "Unallocated" => core_mask'[g] # {}
        BY <3>1, <3>3, <1>1, <1>2
      <3> QED BY <3>2, <3>4, <3>5, <1>2, <1>3
    <2> QED BY <2>1, <2>2, <2>3
  <1> QED BY <1>1, <1>4, <1>5

\* SetActivity, SetPriority and SetCoreMask keep it, and wake as many cores as they
\* make fibers ready.
LEMMA SetKeepsThreads ==
    ASSUME SafeClients, ThreadInv, NEW f \in Fibers, NEW c \in Cores, Pending(f),
           SetActivity(f, c) \/ SetPriority(f, c) \/ SetCoreMask(f, c)
    PROVE  /\ ThreadInv'
           /\ asleep' \subseteq asleep
           /\ asleep' = {} \/ Cardinality(asleep \ asleep') >= m_runnable_fibers' - m_runnable_fibers
  <1> DEFINE t == call[f].target
  <1> HIDE DEF t
  <1>1. /\ t \in Fibers /\ fiber_state[t] \in {"Suspended", "Waiting", "Scheduled"}
        /\ activity_level' \in [Fibers -> {"Suspended", "Schedulable"}]
        /\ fiber_state[t] = "Scheduled" => activity_level'[t] # "Suspended"
        /\ \A g \in Fibers \ {t} : activity_level'[g] = activity_level[g]
        /\ priority' \in [Fibers -> Int] /\ \A g \in Fibers \ {t} : priority'[g] = priority[g]
        /\ core_mask' \in [Fibers -> SUBSET Cores]
        /\ \A g \in Fibers : fiber_state[g] # "Unallocated" => core_mask'[g] # {}
        /\ \/ Reschedule(t, activity_level', priority')
           \/ UNCHANGED <<readyVars, priority>>
        /\ UNCHANGED <<waitVars, restVars, current_core, local_ring, m_scheduler_lock, phase,
                       running, aborted>>
        /\ call' = [call EXCEPT ![f] = NoCall] /\ Runs(f, c)
    BY SetReschedules DEF t
  <1>6. /\ KernelInv'
        /\ \A g \in Fibers \ {t} : fiber_state'[g] = fiber_state[g]
        /\ \/ fiber_state'[t] = fiber_state[t]
           \/ fiber_state'[t] = IF activity_level'[t] = "Suspended" THEN "Suspended" ELSE "Scheduled"
        /\ asleep' \subseteq asleep
        /\ asleep' = {} \/ Cardinality(asleep \ asleep') >= m_runnable_fibers' - m_runnable_fibers
    BY <1>1, RescheduleKeeps DEF ThreadInv
  <1>7. SuspendedIsParked'
    BY <1>1, <1>6 DEF ThreadInv, SuspendedIsParked
  <1>8. NoLists' /\ aborted' = FALSE
    BY <1>1 DEF ThreadInv, NoLists, waitVars
  <1>9. CallInv'
    <2>1. call' \in [Fibers -> CallRecord] /\ call'[f] = NoCall /\ \A g \in Fibers \ {f} : call'[g] = call[g]
      BY <1>1 DEF ThreadInv, CallInv, CallRecord, NoCall
    <2>2. \A g \in Fibers \ {f} : ~Pending(g)
      <3>1. CASE OneCore
        BY <3>1, <1>1, OnlyTheRunnerCalls
      <3>2. CASE OneAdmin
        BY <3>2 DEF OneAdmin, ThreadInv, CallInv
      <3> QED BY <3>1, <3>2 DEF SafeClients
    <2>3. \A g \in Fibers : ~Pending(g)'
      BY <2>1, <2>2 DEF Pending, NoCall
    <2> QED BY <2>1, <2>3 DEF CallInv
  <1> QED BY <1>6, <1>7, <1>8, <1>9 DEF ThreadInv

\* JoinThread keeps it.
LEMMA JoinKeepsThreads ==
    ASSUME ThreadInv, NEW f \in Fibers, NEW c \in Cores, JoinThread(f, c)
    PROVE  ThreadInv'
  <1>1. ~Pending(f)
    BY DEF JoinThread, Pending
  <1>2. CASE YieldThread(f, c) /\ UNCHANGED call
    BY <1>1, <1>2, GivingUpKeepsThreads
  <1>3. CASE call' = [call EXCEPT ![f] = NoCall] /\ UNCHANGED kernelVars
    <2>1. KernelInv' /\ aborted' = FALSE
      BY <1>3, KernelStutter DEF ThreadInv, kernelVars
    <2>2. SuspendedIsParked' /\ NoLists'
      BY <1>3 DEF ThreadInv, SuspendedIsParked, NoLists, kernelVars
    <2>3. CallInv'
      <3>1. call' \in [Fibers -> CallRecord] /\ \A g \in Fibers : Pending(g)' => call'[g] = call[g]
        BY <1>3 DEF ThreadInv, CallInv, CallRecord, NoCall, Pending
      <3> QED BY <3>1, <1>3, CallKept DEF ThreadInv, kernelVars
    <2> QED BY <2>1, <2>2, <2>3 DEF ThreadInv
  <1> QED BY <1>2, <1>3 DEF JoinThread

-----------------------------------------------------------------------------
(* The invariant of the thread API. *)

\* Every call of the thread API keeps the invariant.
LEMMA ThreadStepKeeps ==
    ASSUME SafeClients, ThreadInv, NEW f \in Fibers, NEW c \in Cores, ThreadStep(f, c)
    PROVE  ThreadInv'
  <1>1. CASE Free(f) /\ UNCHANGED call
             /\ (YieldThread(f, c) \/ (\E t \in Timeouts : Sleep(f, c, t)) \/ ExitFiber(f, c))
    <2>1. ~Pending(f)
      BY <1>1 DEF Free, NoCall, Pending
    <2> QED BY <1>1, <2>1, GivingUpKeepsThreads
  <1>2. CASE CreateThread(f, c)
    BY <1>2, CreateKeepsThreads
  <1>3. CASE \E op \in Calls \cap {"join", "activity", "priority", "mask"} : GetFiberByHandle(f, c, op)
    BY <1>3, LookupKeepsThreads
  <1>4. CASE SetActivity(f, c) \/ SetPriority(f, c) \/ SetCoreMask(f, c)
    <2>1. Pending(f)
      BY <1>4 DEF SetActivity, SetPriority, SetCoreMask, Pending
    <2> QED BY <1>4, <2>1, SetKeepsThreads
  <1>5. CASE JoinThread(f, c)
    BY <1>5, JoinKeepsThreads
  <1> QED BY <1>1, <1>2, <1>3, <1>4, <1>5 DEF ThreadStep

\* A step that changes nothing keeps it.
LEMMA ThreadStutter ==
    ASSUME ThreadInv, UNCHANGED vars
    PROVE  ThreadInv'
  <1>1. KernelInv' /\ aborted' = FALSE
    BY KernelStutter DEF ThreadInv, vars, kernelVars
  <1>2. SuspendedIsParked' /\ NoLists'
    BY DEF ThreadInv, SuspendedIsParked, NoLists, vars, kernelVars
  <1>3. CallInv'
    BY CallKept DEF ThreadInv, CallInv, Pending, vars, kernelVars
  <1> QED BY <1>1, <1>2, <1>3 DEF ThreadInv

\* It holds after the scheduler's initialization.
LEMMA ThreadInit ==
    ASSUME Init
    PROVE  ThreadInv
  <1>1. KernelInit({}, <<>>) /\ call = [f \in Fibers |-> NoCall]
    BY DEF Init
  <1>2. KernelInv /\ aborted = FALSE
    <2>1. {} \in SUBSET (Fibers \ {MainFiber})
      OBVIOUS
    <2> QED BY <1>1, <2>1, KernelInitInv
  <1>3. CallInv
    BY <1>1 DEF CallInv, CallRecord, NoCall, Pending
  <1>4. SuspendedIsParked /\ NoLists
    BY <1>1 DEF KernelInit, SuspendedIsParked, NoLists
  <1> QED BY <1>2, <1>3, <1>4 DEF ThreadInv

\* Every step keeps it.
LEMMA ThreadNext ==
    ASSUME SafeClients, ThreadInv, [Next]_vars
    PROVE  ThreadInv'
  <1>1. CASE Next
    <2>1. PICK c \in Cores : \/ SchedulerStep(c) /\ UNCHANGED call
                             \/ \E f \in Fibers : ThreadStep(f, c)
      BY <1>1 DEF Next
    <2> QED BY <2>1, SchedulerKeepsThreads, ThreadStepKeeps
  <1>2. CASE UNCHANGED vars
    BY <1>2, ThreadStutter
  <1> QED BY <1>1, <1>2

\* ThreadInv is an invariant of the thread API.
THEOREM ThreadInvariance == ASSUME SafeClients PROVE Spec => []ThreadInv
  <1>1. Init => ThreadInv
    BY ThreadInit
  <1>2. ThreadInv /\ [Next]_vars => ThreadInv'
    BY ThreadNext
  <1> QED BY <1>1, <1>2, PTL DEF Spec

\* Who waits is in a list: fibers begin to wait in Sleep only, which puts them in
\* m_wait_list.
LEMMA CallFinds ==
    ASSUME ThreadInv, FoundInv, NEW f \in Fibers, NEW c \in Cores, ThreadStep(f, c)
    PROVE  FoundInv'
  <1>0. KernelInv /\ fiber_state \in [Fibers -> FiberState]
    BY DEF ThreadInv, KernelInv, FieldsInv
  <1> DEFINE Calm == \A g \in Fibers : fiber_state'[g] = "Waiting" => fiber_state[g] = "Waiting"
  <1>1. ASSUME UNCHANGED <<wait_list, m_wait_list>>, Calm PROVE FoundInv'
    BY <1>0, <1>1, StillFound
  <1>2. ASSUME NEW g, NEW st, st # "Waiting", fiber_state' = [fiber_state EXCEPT ![g] = st] PROVE Calm
    BY <1>0, <1>2
  <1>3. CASE YieldThread(f, c) \/ UNCHANGED kernelVars
    <2>1. UNCHANGED <<wait_list, m_wait_list, fiber_state>>
      BY <1>3 DEF YieldThread, waitVars, readyVars, kernelVars
    <2> QED BY <1>1, <2>1
  <1>4. CASE \E t \in Timeouts : Sleep(f, c, t)
    <2>1. /\ m_wait_list' = Append(m_wait_list, f) /\ UNCHANGED wait_list
          /\ fiber_state' = [fiber_state EXCEPT ![f] = "Waiting"]
      BY <1>4 DEF Sleep
    <2>2. \A g \in Fibers \ {f} : fiber_state'[g] = "Waiting" => fiber_state[g] = "Waiting"
      BY <1>0, <2>1
    <2> QED BY <1>0, <2>1, <2>2, StillFound
  <1>5. CASE ExitFiber(f, c)
    <2>1. UNCHANGED <<wait_list, m_wait_list>> /\ fiber_state' = [fiber_state EXCEPT ![f] = "Exiting"]
      BY <1>5 DEF ExitFiber, waitVars
    <2>2. Calm
      BY <1>2, <2>1
    <2> QED BY <1>1, <2>1, <2>2
  <1>6. CASE CreateThread(f, c)
    <2>1. PICK new \in Fibers : /\ fiber_state' = [fiber_state EXCEPT ![new] = "Suspended"]
                                /\ wait_list' = [wait_list EXCEPT ![new] = <<>>] /\ UNCHANGED m_wait_list
      BY <1>6 DEF CreateThread
    <2>2. UNCHANGED wait_list
      BY <2>1 DEF ThreadInv, NoLists
    <2>3. Calm
      BY <1>2, <2>1
    <2> QED BY <1>1, <2>1, <2>2, <2>3
  <1>7. CASE SetActivity(f, c) \/ SetPriority(f, c) \/ SetCoreMask(f, c)
    <2>1. UNCHANGED <<wait_list, m_wait_list>>
      BY <1>7 DEF SetActivity, SetPriority, SetCoreMask, waitVars
    <2>2. \/ UNCHANGED readyVars
          \/ \E activity, pri : Reschedule(call[f].target, activity, pri)
      BY <1>7 DEF SetActivity, SetPriority, SetCoreMask
    <2>3. UNCHANGED fiber_state \/ \E st \in {"Suspended", "Scheduled"} :
                                       fiber_state' = [fiber_state EXCEPT ![call[f].target] = st]
      BY <2>2 DEF Reschedule, readyVars
    <2>4. Calm
      <3>1. CASE UNCHANGED fiber_state
        BY <3>1
      <3>2. ASSUME NEW st \in {"Suspended", "Scheduled"},
                   fiber_state' = [fiber_state EXCEPT ![call[f].target] = st]
            PROVE  Calm
        BY <1>2, <3>2
      <3> QED BY <2>3, <3>1, <3>2
    <2> QED BY <1>1, <2>1, <2>4
  <1> QED BY <1>3, <1>4, <1>5, <1>6, <1>7 DEF ThreadStep, GetFiberByHandle, JoinThread

\* A waiting fiber is in a list.
THEOREM FoundInvariance == ASSUME SafeClients PROVE Spec => []FoundInv
  <1>1. Init => FoundInv
    BY DEF Init, KernelInit, FoundInv
  <1>2. ThreadInv /\ FoundInv /\ [Next]_vars => FoundInv'
    <2> SUFFICES ASSUME ThreadInv, FoundInv, [Next]_vars PROVE FoundInv'
      OBVIOUS
    <2>0. KernelInv
      BY DEF ThreadInv
    <2>1. ASSUME NEW c \in Cores, SchedulerStep(c) PROVE FoundInv'
      <3>1. /\ UNCHANGED wait_list
            /\ \A f \in Fibers : fiber_state'[f] = "Waiting" => fiber_state[f] = "Waiting"
            /\ UNCHANGED m_wait_list \/ \E f \in Fibers : CancelSleep(c, f)
        BY <2>0, <2>1, SchedulerStepWaits
      <3>2. CASE UNCHANGED m_wait_list
        BY <2>0, <3>1, <3>2, StillFound
      <3>3. ASSUME NEW f \in Fibers, CancelSleep(c, f) PROVE FoundInv'
        <4>1. m_wait_list' = Without(m_wait_list, f) /\ AddToSchedulerUnsafe(<<f>>)
          BY <3>3 DEF CancelSleep, EndFiberWaitImpl
        <4>2. fiber_state'[f] # "Waiting"
          BY <4>1, ListOfOne DEF AddToSchedulerUnsafe
        <4> QED BY <2>0, <3>1, <4>1, <4>2, StillFound
      <3> QED BY <3>1, <3>2, <3>3
    <2>2. CASE UNCHANGED vars
      BY <2>0, <2>2, StillFound DEF vars, kernelVars
    <2> QED BY <2>1, <2>2, CallFinds DEF Next
  <1> QED BY <1>1, <1>2, ThreadInvariance, PTL DEF Spec

-----------------------------------------------------------------------------
(* Suspended fibers, also where the clients suspend a fiber while it is queued. *)

\* Of the nodes of a queue, which may hold a node twice, the removal of entry i takes
\* at most the node at entry i.
LEMMA MovedNodes ==
    ASSUME NEW T, NEW q \in Seq(T), NEW i \in 1 .. Len(q)
    PROVE  Nodes(Moved(q, i)) \subseteq Nodes(q) /\ Nodes(q) \ {q[i]} \subseteq Nodes(Moved(q, i))
  <1> DEFINE N == Len(q)
             m == Moved(q, i)
  <1>1. N \in Nat /\ N > 0
    OBVIOUS
  <1>2. Len(m) = N - 1
    BY MovedQueue
  <1>3. \A j \in 1 .. N - 1 : m[j] = IF j = i THEN q[N] ELSE q[j]
    BY DEF Moved
  <1> HIDE DEF m
  <1>4. \A j \in 1 .. N - 1 : m[j] \in Nodes(q)
    BY <1>1, <1>3 DEF Nodes, Entries
  <1>5. ASSUME NEW j \in 1 .. N, q[j] # q[i] PROVE \E k \in 1 .. N - 1 : m[k] = q[j]
    <2>1. CASE j = N
      <3>1. i \in 1 .. N - 1
        BY <2>1, <1>5, <1>1
      <3> QED BY <3>1, <2>1, <1>3
    <2>2. CASE j # N
      BY <2>2, <1>5, <1>1, <1>3
    <2> QED BY <2>1, <2>2
  <1>6. Entries(m) = 1 .. N - 1 /\ Entries(q) = 1 .. N
    BY <1>2 DEF Entries
  <1> HIDE DEF N
  <1>7. \A x \in Nodes(m) : x \in Nodes(q)
    BY <1>4, <1>6 DEF Nodes
  <1>8. \A x \in Nodes(q) \ {q[i]} : x \in Nodes(m)
    BY <1>5, <1>6 DEF Nodes
  <1> QED BY <1>7, <1>8 DEF m

\* RemoveFront takes nothing but the front.
LEMMA RemoveFrontElements ==
    ASSUME NEW q \in Seq(Fibers), NEW key, q # <<>>
    PROVE  /\ RemoveFront(q, key) \in Seq(Fibers) /\ Peek(q) \in Elements(q)
           /\ Elements(RemoveFront(q, key)) \subseteq Elements(q)
           /\ Elements(q) \ {Peek(q)} \subseteq Elements(RemoveFront(q, key))
  <1>1. RemoveFront(q, key) \in Seq(Fibers) /\ Peek(q) \in Nodes(q)
    BY RemoveFrontRemoves
  <1>2. Elements(q) = Nodes(q) /\ Elements(RemoveFront(q, key)) = Nodes(RemoveFront(q, key))
    BY <1>1, ListElements
  <1>3. 1 \in 1 .. Len(q) /\ Peek(q) = q[1]
    BY DEF Peek
  <1>4. /\ Moved(q, 1) \in Seq(Fibers) /\ Len(Moved(q, 1)) = Len(q) - 1
        /\ Nodes(Moved(q, 1)) \subseteq Nodes(q) /\ Nodes(q) \ {q[1]} \subseteq Nodes(Moved(q, 1))
    BY <1>3, MovedQueue, MovedNodes
  <1>5. CASE Len(q) = 1
    <2>1. RemoveFront(q, key) = <<>> /\ Nodes(q) = {q[1]}
      BY <1>5 DEF RemoveFront, Nodes, Entries
    <2>2. Nodes(<<>>) = {}
      BY DEF Nodes, Entries
    <2> QED BY <1>1, <1>2, <1>3, <2>1, <2>2
  <1>6. CASE Len(q) # 1
    <2>1. RemoveFront(q, key) = RemoveFixup(Moved(q, 1), key, 1)
      BY <1>6 DEF RemoveFront, Moved
    <2>2. 1 \in Entries(Moved(q, 1))
      BY <1>3, <1>4, <1>6 DEF Entries
    <2>3. Rearranges(RemoveFixup(Moved(q, 1), key, 1), Moved(q, 1), Len(Moved(q, 1)))
      BY <1>4, <2>2, RemoveFixupRearranges
    <2>4. Nodes(RemoveFront(q, key)) = Nodes(Moved(q, 1))
      BY <1>4, <2>1, <2>3, RearrangedQueue
    <2> QED BY <1>1, <1>2, <1>3, <1>4, <2>4
  <1> QED BY <1>5, <1>6

\* Remove takes nothing but the node it is given.
LEMMA RemoveElements ==
    ASSUME NEW q \in Seq(Fibers), NEW key, NEW i \in Entries(q)
    PROVE  /\ Remove(q, key, i) \in Seq(Fibers)
           /\ Elements(Remove(q, key, i)) \subseteq Elements(q)
           /\ Elements(q) \ {q[i]} \subseteq Elements(Remove(q, key, i))
  <1>0. Len(q) \in Nat /\ Len(q) > 0 /\ i \in 1 .. Len(q)
    BY DEF Entries
  <1>1. Remove(q, key, i) \in Seq(Fibers)
    BY RemoveRemoves
  <1>2. Elements(q) = Nodes(q) /\ Elements(Remove(q, key, i)) = Nodes(Remove(q, key, i))
    BY <1>1, ListElements
  <1>3. /\ Moved(q, i) \in Seq(Fibers) /\ Len(Moved(q, i)) = Len(q) - 1
        /\ Nodes(Moved(q, i)) \subseteq Nodes(q) /\ Nodes(q) \ {q[i]} \subseteq Nodes(Moved(q, i))
    BY <1>0, MovedQueue, MovedNodes
  <1>4. Nodes(Remove(q, key, i)) = Nodes(Moved(q, i))
    <2>1. CASE i = Len(q)
      <3>1. Remove(q, key, i) = SubSeq(q, 1, Len(q) - 1)
        BY <2>1 DEF Remove
      <3>2. SubSeq(q, 1, Len(q) - 1) = Moved(q, i)
        BY <1>0, <2>1 DEF Moved
      <3> QED BY <3>1, <3>2
    <2>2. CASE i # Len(q)
      <3>1. i \in Entries(Moved(q, i))
        BY <1>0, <1>3, <2>2 DEF Entries
      <3>2. \/ Remove(q, key, i) = InsertFixup(Moved(q, i), key, i)
            \/ Remove(q, key, i) = RemoveFixup(Moved(q, i), key, i)
        BY <2>2 DEF Remove, Moved
      <3>3. Rearranges(Remove(q, key, i), Moved(q, i), Len(Moved(q, i)))
        BY <1>0, <1>3, <3>1, <3>2, InsertFixupRearranges, RemoveFixupRearranges
      <3> QED BY <1>3, <3>3, RearrangedQueue
    <2> QED BY <2>1, <2>2
  <1> QED BY <1>1, <1>2, <1>3, <1>4

\* Who is Scheduled is in the queue, so that Reschedule finds it; the queue may hold
\* other fibers, or one twice.
QueuedInv ==
    /\ fiber_state \in [Fibers -> FiberState]
    /\ activity_level \in [Fibers -> {"Suspended", "Schedulable"}]
    /\ phase \in [Cores -> Phase] /\ running \in [Cores -> Fibers \cup {NoFiber}]
    /\ \A c \in Cores : phase[c] \in {"boot", "booted", "user", "switched"} => running[c] \in Fibers
    /\ m_thread_queue \in Seq(Fibers) /\ local_ring \in [Cores -> Seq(Fibers)]
    /\ call \in [Fibers -> CallRecord]
    /\ \A f \in Fibers : Pending(f) => call[f].target \in Fibers
    /\ \A f \in Fibers : fiber_state[f] = "Scheduled" => f \in Elements(m_thread_queue)

\* What a step may do to the queue: no fiber that stays suspended enters it.
QueueRight ==
    /\ fiber_state' \in [Fibers -> FiberState] /\ m_thread_queue' \in Seq(Fibers)
    /\ \A f \in Fibers : fiber_state'[f] = "Scheduled" => f \in Elements(m_thread_queue')
    /\ \A f \in Fibers : activity_level'[f] = "Suspended" /\ f \notin Elements(m_thread_queue)
                             => f \notin Elements(m_thread_queue')

\* AddToSchedulerUnsafe for fibers that come back, or that a wait ends for.
LEMMA AddingIsRight ==
    ASSUME QueuedInv, NEW s \in Seq(Fibers), AddToSchedulerUnsafe(s), UNCHANGED activity_level
    PROVE  QueueRight
  <1> DEFINE runnable == KeptIn(s, {f \in Fibers : activity_level[f] = "Schedulable"})
  <1>1. /\ runnable \in Seq(Fibers)
        /\ Elements(runnable) = Elements(s) \cap {f \in Fibers : activity_level[f] = "Schedulable"}
    BY KeptInList
  <1>2. /\ fiber_state' = [f \in Fibers |->
              IF f \in Elements(runnable) THEN "Scheduled"
              ELSE IF f \in Elements(s) THEN "Suspended" ELSE fiber_state[f]]
        /\ m_thread_queue' = InsertAll(m_thread_queue, runnable)
    BY DEF AddToSchedulerUnsafe
  <1> HIDE DEF runnable
  <1>3. /\ m_thread_queue' \in Seq(Fibers)
        /\ Elements(m_thread_queue') = Elements(m_thread_queue) \cup Elements(runnable)
    BY <1>1, <1>2, InsertAllAdds DEF QueuedInv
  <1>4. fiber_state' \in [Fibers -> FiberState]
    BY <1>2 DEF QueuedInv, FiberState
  <1> QED BY <1>1, <1>2, <1>3, <1>4 DEF QueuedInv, QueueRight

\* AddToSchedulerUnsafe for a fiber of which the activity or the priority was set.
LEMMA ReschedulingIsRight ==
    ASSUME QueuedInv, NEW t \in Fibers, NEW pri, Reschedule(t, activity_level', pri),
           activity_level' \in [Fibers -> {"Suspended", "Schedulable"}]
    PROVE  QueueRight
  <1>0. /\ m_thread_queue \in Seq(Fibers) /\ fiber_state \in [Fibers -> FiberState]
        /\ \A f \in Fibers : fiber_state[f] = "Scheduled" => f \in Elements(m_thread_queue)
    BY DEF QueuedInv
  <1>1. CASE fiber_state[t] = "Waiting"
    BY <1>0, <1>1 DEF Reschedule, QueueRight, readyVars
  <1>2. CASE fiber_state[t] # "Waiting" /\ activity_level'[t] = "Suspended"
    <2>1. fiber_state' = [fiber_state EXCEPT ![t] = "Suspended"] /\ UNCHANGED m_thread_queue
      BY <1>2 DEF Reschedule
    <2>2. fiber_state' \in [Fibers -> FiberState]
      BY <1>0, <2>1 DEF FiberState
    <2> QED BY <1>0, <2>1, <2>2 DEF QueueRight
  <1>3. CASE fiber_state[t] # "Waiting" /\ activity_level'[t] # "Suspended"
    <2>1. /\ fiber_state' = [fiber_state EXCEPT ![t] = "Scheduled"]
          /\ m_thread_queue' =
                 Insert(IF fiber_state[t] = "Scheduled"
                        THEN Remove(m_thread_queue, pri, FindIterTo(m_thread_queue, t))
                        ELSE m_thread_queue, pri, t)
      BY <1>3 DEF Reschedule
    <2>2. ASSUME NEW q \in Seq(Fibers), Elements(q) \subseteq Elements(m_thread_queue),
                 Elements(m_thread_queue) \ {t} \subseteq Elements(q), m_thread_queue' = Insert(q, pri, t)
          PROVE  QueueRight
      <3>1. m_thread_queue' \in Seq(Fibers) /\ Nodes(m_thread_queue') = Nodes(q) \cup {t}
        BY <2>2, InsertAdds
      <3>2. Elements(m_thread_queue') = Elements(q) \cup {t}
        BY <2>2, <3>1, ListElements
      <3>3. fiber_state' \in [Fibers -> FiberState]
        BY <1>0, <2>1 DEF FiberState
      <3>4. \A f \in Fibers \ {t} : fiber_state'[f] = fiber_state[f]
        BY <1>0, <2>1
      <3> QED BY <1>0, <1>3, <2>2, <3>1, <3>2, <3>3, <3>4 DEF QueueRight
    <2>3. CASE fiber_state[t] = "Scheduled"
      <3>1. t \in Nodes(m_thread_queue)
        BY <1>0, <2>3, ListElements
      <3>2. /\ FindIterTo(m_thread_queue, t) \in Entries(m_thread_queue)
            /\ m_thread_queue[FindIterTo(m_thread_queue, t)] = t
        BY <1>0, <3>1, FindIterToFinds
      <3> QED BY <1>0, <2>1, <2>2, <2>3, <3>2, RemoveElements
    <2>4. CASE fiber_state[t] # "Scheduled"
      BY <1>0, <2>1, <2>2, <2>4
    <2> QED BY <2>3, <2>4
  <1> QED BY <1>1, <1>2, <1>3

\* A step that leaves the queue alone and schedules nobody.
LEMMA LeavingIsRight ==
    ASSUME QueuedInv, UNCHANGED m_thread_queue, fiber_state' \in [Fibers -> FiberState],
           \A f \in Fibers : fiber_state'[f] = "Scheduled" => fiber_state[f] = "Scheduled"
    PROVE  QueueRight
  BY DEF QueuedInv, QueueRight

\* Rings and cores get their fibers from the queue, the cores also from the rings.
TakenFromQueue ==
    \A f \in Fibers : f \notin Elements(m_thread_queue) /\ ~InRing(f) =>
        ~InRing(f)' /\ (RunBy(f)' # {} => RunBy(f) # {})

\* Steps that leave the rings alone, and the cores but for one that loses its fiber.
LEMMA NothingTaken ==
    ASSUME UNCHANGED local_ring,
           UNCHANGED running \/ \E c \in Cores : running' = [running EXCEPT ![c] = NoFiber],
           QueuedInv
    PROVE  TakenFromQueue
  <1> SUFFICES ASSUME NEW f \in Fibers, ~InRing(f) PROVE ~InRing(f)' /\ (RunBy(f)' # {} => RunBy(f) # {})
    BY DEF TakenFromQueue
  <1>1. ~InRing(f)'
    BY DEF InRing
  <1>2. \A d \in Cores : running'[d] = f => running[d] = f
    BY SchedulerAssumption DEF QueuedInv
  <1> QED BY <1>1, <1>2 DEF RunBy

\* Who is dispatched was in the queue or in a ring.
LEMMA DispatchedFrom ==
    ASSUME QueuedInv, NEW t \in Fibers, NEW c \in Cores, Dispatch(t, c),
           t \in Elements(m_thread_queue) \/ InRing(t),
           \A f \in Fibers : InRing(f)' => InRing(f)
    PROVE  TakenFromQueue
  <1>1. \A f \in Fibers \ {t} : \A d \in Cores : running'[d] = f => running[d] = f
    BY DEF Dispatch, QueuedInv
  <1> QED BY <1>1 DEF TakenFromQueue, RunBy

\* The scheduler loop.
LEMMA SchedulerStepQueue ==
    ASSUME QueuedInv, NEW c \in Cores, SchedulerStep(c), UNCHANGED call
    PROVE  QueuedInv' /\ QueueRight /\ TakenFromQueue
  <1>0. /\ m_thread_queue \in Seq(Fibers) /\ fiber_state \in [Fibers -> FiberState]
        /\ local_ring \in [Cores -> Seq(Fibers)] /\ running \in [Cores -> Fibers \cup {NoFiber}]
        /\ phase \in [Cores -> Phase]
    BY DEF QueuedInv
  <1>1. UNCHANGED activity_level
    BY DEF SchedulerStep, StartCore, BootScheduler, CancelSleep, ScheduleLocal, PostDispatch,
           FallBackToQueue, ScheduleFromQueue, DelegateToRing, Rest, WaitOnRunnable, WakeCore,
           SkipRest, RestTimeout, fiberVars
  <1>2. ASSUME QueueRight, local_ring' \in [Cores -> Seq(Fibers)],
               running' \in [Cores -> Fibers \cup {NoFiber}], phase' \in [Cores -> Phase],
               \A d \in Cores : phase'[d] \in {"boot", "booted", "user", "switched"} => running'[d] \in Fibers
        PROVE  QueuedInv'
    BY <1>1, <1>2 DEF QueuedInv, QueueRight, Pending
  <1>3. ASSUME NEW p \in {"scan", "queue", "rest", "resting"}, UNCHANGED <<local_ring, m_thread_queue, fiber_state, running>>,
               UNCHANGED phase \/ phase' = [phase EXCEPT ![c] = p]
        PROVE  QueuedInv' /\ QueueRight /\ TakenFromQueue
    <2>1. QueueRight /\ TakenFromQueue
      BY <1>0, <1>3, LeavingIsRight, NothingTaken
    <2>2. phase' \in [Cores -> Phase]
      BY <1>0, <1>3 DEF Phase
    <2>3. \A d \in Cores : phase'[d] \in {"boot", "booted", "user", "switched"} => running'[d] \in Fibers
      BY <1>0, <1>3 DEF QueuedInv
    <2> QED BY <1>0, <1>2, <1>3, <2>1, <2>2, <2>3
  <1>4. CASE StartCore(c) \/ FallBackToQueue(c) \/ Rest(c) \/ WaitOnRunnable(c) \/ WakeCore(c)
              \/ SkipRest(c) \/ RestTimeout(c)
    <2>1. UNCHANGED <<local_ring, m_thread_queue, fiber_state, running>>
      BY <1>4 DEF StartCore, FallBackToQueue, Rest, WaitOnRunnable, WakeCore, SkipRest, RestTimeout, readyVars
    <2>2. UNCHANGED phase \/ \E p \in {"scan", "queue", "rest", "resting"} : phase' = [phase EXCEPT ![c] = p]
      BY <1>4 DEF StartCore, FallBackToQueue, Rest, WaitOnRunnable, WakeCore, SkipRest, RestTimeout, LeaveRest
    <2> QED BY <1>3, <2>1, <2>2
  <1>5. ASSUME QueueRight, UNCHANGED local_ring, running' = [running EXCEPT ![c] = NoFiber],
               phase' = [phase EXCEPT ![c] = "scan"]
        PROVE  QueuedInv' /\ TakenFromQueue
    <2>1. TakenFromQueue
      BY <1>5, NothingTaken
    <2>2. phase' \in [Cores -> Phase] /\ running' \in [Cores -> Fibers \cup {NoFiber}]
      BY <1>0, <1>5 DEF Phase
    <2>3. \A d \in Cores : phase'[d] \in {"boot", "booted", "user", "switched"} => running'[d] \in Fibers
      BY <1>0, <1>5 DEF QueuedInv
    <2> QED BY <1>0, <1>2, <1>5, <2>1, <2>2, <2>3
  <1>6. CASE BootScheduler(c)
    <2>1. /\ running' = [running EXCEPT ![c] = NoFiber] /\ phase' = [phase EXCEPT ![c] = "scan"]
          /\ UNCHANGED local_ring /\ Reschedule(MainFiber, activity_level', priority)
      BY <1>1, <1>6 DEF BootScheduler
    <2>2. QueueRight
      BY <1>1, <2>1, ReschedulingIsRight, SchedulerAssumption DEF QueuedInv
    <2> QED BY <1>5, <2>1, <2>2
  <1>7. CASE PostDispatch(c)
    <2>1. /\ running' = [running EXCEPT ![c] = NoFiber] /\ phase' = [phase EXCEPT ![c] = "scan"]
          /\ UNCHANGED local_ring /\ running[c] \in Fibers
      BY <1>7 DEF PostDispatch, QueuedInv
    <2>2. QueueRight
      <3>1. CASE fiber_state[running[c]] = "Running"
        <4>1. AddToSchedulerUnsafe(<<running[c]>>) /\ <<running[c]>> \in Seq(Fibers)
          BY <1>7, <2>1, <3>1 DEF PostDispatch
        <4> QED BY <1>1, <4>1, AddingIsRight
      <3>2. CASE fiber_state[running[c]] # "Running"
        <4>1. /\ UNCHANGED m_thread_queue
              /\ fiber_state' = [fiber_state EXCEPT ![running[c]] = IF @ = "Exiting" THEN "Unallocated" ELSE @]
          BY <1>7, <3>2 DEF PostDispatch
        <4>2. fiber_state' \in [Fibers -> FiberState]
          BY <1>0, <2>1, <4>1 DEF FiberState
        <4>3. \A f \in Fibers : fiber_state'[f] = "Scheduled" => fiber_state[f] = "Scheduled"
          BY <1>0, <2>1, <4>1
        <4> QED BY <4>1, <4>2, <4>3, LeavingIsRight
      <3> QED BY <3>1, <3>2
    <2> QED BY <1>5, <2>1, <2>2
  <1>8. ASSUME NEW f \in Fibers, CancelSleep(c, f)
        PROVE  QueuedInv' /\ QueueRight /\ TakenFromQueue
    <2>1. AddToSchedulerUnsafe(<<f>>) /\ <<f>> \in Seq(Fibers) /\ UNCHANGED <<local_ring, phase, running>>
      BY <1>8 DEF CancelSleep, EndFiberWaitImpl
    <2>2. QueueRight /\ TakenFromQueue
      BY <1>1, <2>1, AddingIsRight, NothingTaken
    <2> QED BY <1>0, <1>2, <2>1, <2>2 DEF QueuedInv
  <1>9. ASSUME NEW t \in Fibers, Dispatch(t, c), local_ring' \in [Cores -> Seq(Fibers)],
               m_thread_queue' \in Seq(Fibers), Elements(m_thread_queue') \subseteq Elements(m_thread_queue),
               Elements(m_thread_queue) \ {t} \subseteq Elements(m_thread_queue'),
               t \in Elements(m_thread_queue) \/ InRing(t), \A f \in Fibers : InRing(f)' => InRing(f)
        PROVE  QueuedInv' /\ QueueRight /\ TakenFromQueue
    <2>1. TakenFromQueue
      BY <1>9, DispatchedFrom
    <2>2. /\ fiber_state' = [fiber_state EXCEPT ![t] = "Running"] /\ running' = [running EXCEPT ![c] = t]
          /\ phase' = [phase EXCEPT ![c] = "user"]
      BY <1>9 DEF Dispatch
    <2>3. fiber_state' \in [Fibers -> FiberState] /\ fiber_state'[t] = "Running"
          /\ \A f \in Fibers \ {t} : fiber_state'[f] = fiber_state[f]
      BY <1>0, <2>2 DEF FiberState
    <2>4. QueueRight
      <3>1. \A f \in Fibers : fiber_state'[f] = "Scheduled" => f \in Elements(m_thread_queue')
        BY <1>9, <2>3 DEF QueuedInv
      <3> QED BY <1>9, <2>3, <3>1 DEF QueueRight
    <2>5. running' \in [Cores -> Fibers \cup {NoFiber}] /\ phase' \in [Cores -> Phase]
      BY <1>0, <2>2 DEF Phase
    <2>6. \A d \in Cores : phase'[d] \in {"boot", "booted", "user", "switched"} => running'[d] \in Fibers
      BY <1>0, <2>2 DEF QueuedInv
    <2> QED BY <1>2, <1>9, <2>1, <2>4, <2>5, <2>6
  <1>10. CASE ScheduleFromQueue(c)
    <2>1. /\ m_thread_queue # <<>> /\ m_thread_queue' = RemoveFront(m_thread_queue, priority)
          /\ Dispatch(Peek(m_thread_queue), c) /\ UNCHANGED local_ring
      BY <1>10 DEF ScheduleFromQueue
    <2>2. /\ m_thread_queue' \in Seq(Fibers) /\ Peek(m_thread_queue) \in Elements(m_thread_queue)
          /\ Elements(m_thread_queue') \subseteq Elements(m_thread_queue)
          /\ Elements(m_thread_queue) \ {Peek(m_thread_queue)} \subseteq Elements(m_thread_queue')
      BY <1>0, <2>1, RemoveFrontElements
    <2>3. Peek(m_thread_queue) \in Fibers
      BY <1>0, <2>2, ListElements
    <2>4. \A f \in Fibers : InRing(f)' => InRing(f)
      BY <2>1 DEF InRing
    <2> QED BY <1>0, <1>9, <2>1, <2>2, <2>3, <2>4
  <1>11. CASE ScheduleLocal(c)
    <2>1. /\ local_ring[c] # <<>> /\ local_ring' = [local_ring EXCEPT ![c] = Tail(@)]
          /\ Dispatch(Head(local_ring[c]), c) /\ UNCHANGED m_thread_queue
      BY <1>11 DEF ScheduleLocal
    <2>2. /\ local_ring[c] \in Seq(Fibers) /\ Head(local_ring[c]) = local_ring[c][1] /\ 1 \in 1 .. Len(local_ring[c])
          /\ Tail(local_ring[c]) \in Seq(Fibers)
      <3>1. local_ring[c] \in Seq(Fibers)
        BY <1>0
      <3>2. \A r \in Seq(Fibers) : r # <<>> => Head(r) = r[1] /\ 1 \in 1 .. Len(r) /\ Tail(r) \in Seq(Fibers)
        OBVIOUS
      <3> QED BY <2>1, <3>1, <3>2
    <2>3. Head(local_ring[c]) \in Elements(local_ring[c])
      BY <2>2 DEF Elements
    <2>4. Head(local_ring[c]) \in Fibers /\ InRing(Head(local_ring[c]))
      <3>1. Elements(local_ring[c]) \subseteq Fibers
        BY <2>2, ListElements
      <3> QED BY <2>3, <3>1 DEF InRing
    <2>5. Elements(Tail(local_ring[c])) \subseteq Elements(local_ring[c])
      <3>1. \A i \in 1 .. Len(Tail(local_ring[c])) :
                Tail(local_ring[c])[i] = local_ring[c][i + 1] /\ i + 1 \in 1 .. Len(local_ring[c])
        BY <2>1, <2>2
      <3> QED BY <3>1 DEF Elements
    <2>6. local_ring' \in [Cores -> Seq(Fibers)] /\ \A f \in Fibers : InRing(f)' => InRing(f)
      BY <1>0, <2>1, <2>2, <2>5 DEF InRing
    <2> QED BY <1>0, <1>9, <2>1, <2>4, <2>6
  <1>12. CASE DelegateToRing(c)
    <2> DEFINE t == Peek(m_thread_queue)
    <2> HIDE DEF t
    <2>1. PICK core : /\ m_thread_queue # <<>> /\ m_thread_queue' = RemoveFront(m_thread_queue, priority)
                      /\ fiber_state' = [fiber_state EXCEPT ![t] = "ScheduledLocal"]
                      /\ local_ring' = [local_ring EXCEPT ![core] = Append(@, t)]
                      /\ UNCHANGED <<phase, running>>
      BY <1>12 DEF DelegateToRing, t
    <2>2. /\ m_thread_queue' \in Seq(Fibers) /\ t \in Elements(m_thread_queue)
          /\ Elements(m_thread_queue') \subseteq Elements(m_thread_queue)
          /\ Elements(m_thread_queue) \ {t} \subseteq Elements(m_thread_queue')
      BY <1>0, <2>1, RemoveFrontElements DEF t
    <2>3. t \in Fibers
      BY <1>0, <2>2, ListElements
    <2>4. fiber_state' \in [Fibers -> FiberState] /\ fiber_state'[t] = "ScheduledLocal"
          /\ \A f \in Fibers \ {t} : fiber_state'[f] = fiber_state[f]
      BY <1>0, <2>1, <2>3 DEF FiberState
    <2>5. QueueRight
      <3>1. \A f \in Fibers : fiber_state'[f] = "Scheduled" => f \in Elements(m_thread_queue')
        BY <2>2, <2>4 DEF QueuedInv
      <3> QED BY <2>2, <2>4, <3>1 DEF QueueRight
    <2>6. \A d \in Cores : local_ring'[d] = local_ring[d] \/ local_ring'[d] = Append(local_ring[d], t)
      BY <1>0, <2>1
    <2>7. local_ring' \in [Cores -> Seq(Fibers)]
      <3>1. \A d \in Cores : Append(local_ring[d], t) \in Seq(Fibers)
        BY <1>0, <2>3
      <3> QED BY <1>0, <2>1, <3>1
    <2>8. ASSUME NEW d \in Cores PROVE Elements(local_ring'[d]) \subseteq Elements(local_ring[d]) \cup {t}
      <3>1. local_ring[d] \in Seq(Fibers)
        BY <1>0
      <3>2. Elements(Append(local_ring[d], t)) = Elements(local_ring[d]) \cup {t}
        BY <2>3, <3>1, ListAppend
      <3> QED BY <2>6, <3>2
    <2>9. TakenFromQueue
      <3> SUFFICES ASSUME NEW f \in Fibers, f \notin Elements(m_thread_queue), ~InRing(f)
                   PROVE  ~InRing(f)' /\ (RunBy(f)' # {} => RunBy(f) # {})
        BY DEF TakenFromQueue
      <3>1. ~InRing(f)'
        BY <2>2, <2>8 DEF InRing
      <3>2. RunBy(f)' = RunBy(f)
        BY <2>1 DEF RunBy
      <3> QED BY <3>1, <3>2
    <2> QED BY <1>0, <1>2, <2>1, <2>5, <2>7, <2>9 DEF QueuedInv
  <1> QED BY <1>4, <1>6, <1>7, <1>8, <1>10, <1>11, <1>12 DEF SchedulerStep

\* The calls.
LEMMA ThreadStepQueue ==
    ASSUME QueuedInv, NEW f \in Fibers, NEW c \in Cores, ThreadStep(f, c)
    PROVE  QueuedInv' /\ TakenFromQueue
           /\ \A g \in Fibers : StaysSuspended(g) /\ g \notin Elements(m_thread_queue)
                                    => g \notin Elements(m_thread_queue')
  <1> DEFINE Goal == QueuedInv' /\ TakenFromQueue
                     /\ \A g \in Fibers : StaysSuspended(g) /\ g \notin Elements(m_thread_queue)
                                              => g \notin Elements(m_thread_queue')
             CallRight == /\ call' \in [Fibers -> CallRecord]
                          /\ \A g \in Fibers : Pending(g)' => call'[g].target \in Fibers
             Switched == UNCHANGED phase \/ \E p \in {"booted", "switched"} :
                             phase[c] \in {"boot", "user"} /\ phase' = [phase EXCEPT ![c] = p]
  <1> SUFFICES Goal
    OBVIOUS
  <1>0. /\ m_thread_queue \in Seq(Fibers) /\ fiber_state \in [Fibers -> FiberState]
        /\ local_ring \in [Cores -> Seq(Fibers)] /\ running \in [Cores -> Fibers \cup {NoFiber}]
        /\ phase \in [Cores -> Phase] /\ activity_level \in [Fibers -> {"Suspended", "Schedulable"}]
        /\ call \in [Fibers -> CallRecord]
    BY DEF QueuedInv
  <1>1. ASSUME QueueRight, CallRight, Switched, UNCHANGED <<local_ring, running>>,
               activity_level' \in [Fibers -> {"Suspended", "Schedulable"}]
        PROVE  Goal
    <2>1. TakenFromQueue
      BY <1>1, NothingTaken
    <2>2. phase' \in [Cores -> Phase]
      BY <1>0, <1>1 DEF Phase
    <2>3. \A d \in Cores : phase'[d] \in {"boot", "booted", "user", "switched"} => running'[d] \in Fibers
      <3>1. CASE UNCHANGED phase
        BY <1>1, <3>1 DEF QueuedInv
      <3>2. ASSUME NEW p, phase[c] \in {"boot", "user"}, phase' = [phase EXCEPT ![c] = p]
            PROVE  \A d \in Cores : phase'[d] \in {"boot", "booted", "user", "switched"} => running'[d] \in Fibers
        BY <1>0, <1>1, <3>2 DEF QueuedInv
      <3> QED BY <1>1, <3>1, <3>2
    <2>4. QueuedInv'
      BY <1>0, <1>1, <2>2, <2>3 DEF QueuedInv, QueueRight
    <2> QED BY <1>1, <2>1, <2>4 DEF QueueRight, StaysSuspended
  <1>2. UNCHANGED call => CallRight
    BY DEF QueuedInv, Pending
  <1>3. call' = [call EXCEPT ![f] = NoCall] => CallRight
    BY <1>0 DEF QueuedInv, Pending, NoCall, CallRecord
  <1>4. CASE (YieldThread(f, c) \/ UNCHANGED kernelVars) /\ CallRight
    <2>1. UNCHANGED <<fiber_state, m_thread_queue, activity_level, local_ring, running>> /\ Switched
      BY <1>4 DEF YieldThread, SwitchToScheduler, Runs, kernelVars, readyVars, fiberVars
    <2>2. QueueRight
      BY <1>0, <2>1, LeavingIsRight
    <2> HIDE DEF Goal, CallRight, Switched
    <2> QED BY <1>0, <1>1, <1>4, <2>1, <2>2
  <1>5. CASE ((\E t \in Timeouts : Sleep(f, c, t)) \/ ExitFiber(f, c)) /\ UNCHANGED call
    <2>1. PICK st \in {"Waiting", "Exiting"} : fiber_state' = [fiber_state EXCEPT ![f] = st]
      BY <1>5 DEF Sleep, ExitFiber
    <2>2. UNCHANGED <<m_thread_queue, activity_level, local_ring, running>> /\ Switched
      BY <1>5 DEF Sleep, ExitFiber, SwitchToScheduler, Runs, fiberVars
    <2>3. fiber_state' \in [Fibers -> FiberState]
      BY <1>0, <2>1 DEF FiberState
    <2>4. \A g \in Fibers : fiber_state'[g] = "Scheduled" => fiber_state[g] = "Scheduled"
      BY <1>0, <2>1
    <2>5. QueueRight
      BY <2>2, <2>3, <2>4, LeavingIsRight
    <2> HIDE DEF Goal, CallRight, Switched
    <2> QED BY <1>0, <1>1, <1>2, <1>5, <2>2, <2>5
  <1>6. CASE CreateThread(f, c)
    <2>1. PICK new \in Fibers :
             /\ fiber_state' = [fiber_state EXCEPT ![new] = "Suspended"]
             /\ activity_level' = [activity_level EXCEPT ![new] = "Suspended"]
             /\ call' = [h \in Fibers |-> IF call[h].op = "join" /\ call[h].target = new
                                          THEN [call[h] EXCEPT !.target = NoFiber] ELSE call[h]]
      BY <1>6 DEF CreateThread
    <2>2. UNCHANGED <<m_thread_queue, local_ring, running, phase>>
      BY <1>6 DEF CreateThread
    <2>3. fiber_state' \in [Fibers -> FiberState] /\ activity_level' \in [Fibers -> {"Suspended", "Schedulable"}]
      BY <1>0, <2>1 DEF FiberState
    <2>4. \A g \in Fibers : fiber_state'[g] = "Scheduled" => fiber_state[g] = "Scheduled"
      BY <1>0, <2>1
    <2>5. QueueRight
      BY <2>2, <2>3, <2>4, LeavingIsRight
    <2>6. CallRight
      <3>1. \A h \in Fibers : call[h] \in CallRecord
        BY <1>0
      <3> QED BY <2>1, <3>1 DEF CallRecord, Pending, QueuedInv
    <2> HIDE DEF Goal, CallRight
    <2> QED BY <1>1, <2>2, <2>3, <2>5, <2>6
  <1>7. ASSUME NEW op \in {"join", "activity", "priority", "mask"}, GetFiberByHandle(f, c, op) PROVE Goal
    <2>1. PICK target \in Fibers : call' = [call EXCEPT ![f] = [op |-> op, target |-> target]]
      BY <1>7 DEF GetFiberByHandle
    <2>2. CallRight
      BY <1>0, <2>1 DEF CallRecord, Pending, QueuedInv
    <2>3. UNCHANGED kernelVars
      BY <1>7 DEF GetFiberByHandle
    <2> HIDE DEF Goal, CallRight
    <2> QED BY <1>4, <2>2, <2>3
  <1>8. CASE SetActivity(f, c) \/ SetPriority(f, c) \/ SetCoreMask(f, c)
    <2>1. PICK t \in Fibers : t = call[f].target
      BY <1>8 DEF SetActivity, SetPriority, SetCoreMask, Pending, QueuedInv
    <2>2. /\ call' = [call EXCEPT ![f] = NoCall] /\ UNCHANGED <<local_ring, running, phase>>
          /\ activity_level' \in [Fibers -> {"Suspended", "Schedulable"}]
      BY <1>0, <1>8, <2>1 DEF SetActivity, SetPriority, SetCoreMask
    <2>3. UNCHANGED readyVars \/ \E pri : Reschedule(t, activity_level', pri)
      BY <1>8, <2>1 DEF SetActivity, SetPriority, SetCoreMask
    <2>4. QueueRight
      BY <1>0, <2>2, <2>3, ReschedulingIsRight, LeavingIsRight DEF readyVars
    <2> HIDE DEF Goal, CallRight
    <2> QED BY <1>1, <1>3, <2>2, <2>4
  <1>9. CASE JoinThread(f, c)
    <2>1. CallRight /\ (YieldThread(f, c) \/ UNCHANGED kernelVars)
      BY <1>2, <1>3, <1>9 DEF JoinThread
    <2> HIDE DEF Goal, CallRight
    <2> QED BY <1>4, <2>1
  <1>10. Goal
    <2> HIDE DEF Goal, CallRight
    <2> QED BY <1>2, <1>4, <1>5, <1>6, <1>7, <1>8, <1>9 DEF ThreadStep
  <1> QED BY <1>10

\* SuspendedStays: a fiber that SetActivity finds queued gets the turn it is queued
\* for, and no suspended fiber gets another one, whatever becomes of its priority, of
\* its wait and of the core it runs on.
THEOREM SuspendedStaysParked == ASSUME SuspendingClients PROVE Spec => SuspendedStays
  <1>1. Init => QueuedInv
    <2>1. ThreadInv => QueuedInv
      BY DEF ThreadInv, CallInv, KernelInv, FieldsInv, QueueInv, RingInv, RunInv, LockInv, QueuedInv
    <2> QED BY <2>1, ThreadInit
  <1>2. QueuedInv /\ [Next]_vars =>
            /\ QueuedInv'
            /\ [\A f \in Fibers : StaysSuspended(f) /\ f \notin Elements(m_thread_queue) =>
                   /\ f \notin Elements(m_thread_queue')
                   /\ ~InRing(f) => ~InRing(f)' /\ (RunBy(f)' # {} => RunBy(f) # {})]_vars
    <2> SUFFICES ASSUME QueuedInv, [Next]_vars
                 PROVE  /\ QueuedInv'
                        /\ \/ UNCHANGED vars
                           \/ /\ TakenFromQueue
                              /\ \A g \in Fibers : StaysSuspended(g) /\ g \notin Elements(m_thread_queue)
                                                       => g \notin Elements(m_thread_queue')
      BY DEF TakenFromQueue
    <2>1. CASE UNCHANGED vars
      BY <2>1 DEF QueuedInv, Pending, vars, kernelVars
    <2>2. ASSUME NEW c \in Cores, SchedulerStep(c), UNCHANGED call
          PROVE  /\ QueuedInv' /\ TakenFromQueue
                 /\ \A g \in Fibers : StaysSuspended(g) /\ g \notin Elements(m_thread_queue)
                                          => g \notin Elements(m_thread_queue')
      BY <2>2, SchedulerStepQueue DEF QueueRight, StaysSuspended
    <2> QED BY <2>1, <2>2, ThreadStepQueue DEF Next
  <1> QED BY <1>1, <1>2, PTL DEF Spec, SuspendedStays

-----------------------------------------------------------------------------
(* What follows from the invariant. *)

\* The properties of a state that the invariant contains.
LEMMA ThreadInvSays ==
    ASSUME ThreadInv
    PROVE  /\ TypeOK /\ NoAbort /\ SuspendedIsParked /\ CountsAgree
           /\ FoundInv => OnePlace
  BY KernelTypes, KernelPlaces, KernelCounts
     DEF ThreadInv, CallInv, TypeOK, OnePlace, NoAbort

\* The state variables keep their types, for every number of cores and fibers.
THEOREM TypesAreKept == ASSUME SafeClients PROVE Spec => []TypeOK
  <1>1. ThreadInv => TypeOK
    BY ThreadInvSays
  <1> QED BY <1>1, ThreadInvariance, PTL

\* OnePlace: whatever system calls and scheduler loops interleave on however many
\* cores, a fiber is in the queue, in one ring, in one wait list or on one core, and
\* only in the one its state names.
THEOREM FibersHaveOnePlace == ASSUME SafeClients PROVE Spec => []OnePlace
  <1>1. ThreadInv /\ FoundInv => OnePlace
    BY ThreadInvSays
  <1> QED BY <1>1, ThreadInvariance, FoundInvariance, PTL

\* NoAbort: Dispatch's switch on the state of the fiber that comes back has a case
\* for it, and no other assertion of the scheduler fails.
THEOREM DispatchNeverAborts == ASSUME SafeClients PROVE Spec => []NoAbort
  <1>1. ThreadInv => NoAbort
    BY ThreadInvSays
  <1> QED BY <1>1, ThreadInvariance, PTL

\* HighestPriorityFirst: the fiber that the loop takes from the queue has a priority
\* as high as any in it, whatever priorities were changed while fibers were queued.
THEOREM FrontIsHighest == ASSUME SafeClients PROVE Spec => HighestPriorityFirst
  <1> DEFINE A == \A c \in Cores : ScheduleFromQueue(c) =>
                      \A g \in Elements(m_thread_queue) : priority[running'[c]] >= priority[g]
  <1>1. ThreadInv => A
    <2> SUFFICES ASSUME ThreadInv, NEW c \in Cores, ScheduleFromQueue(c)
                 PROVE  \A g \in Elements(m_thread_queue) : priority[running'[c]] >= priority[g]
      OBVIOUS
    <2>1. m_thread_queue # <<>> /\ running'[c] = Peek(m_thread_queue)
      <3>1. running \in [Cores -> Fibers \cup {NoFiber}]
        BY DEF ThreadInv, KernelInv, RunInv
      <3> QED BY <3>1 DEF ScheduleFromQueue, Dispatch
    <2> QED BY <2>1, FrontOfQueue DEF ThreadInv, KernelInv
  <1>2. ThreadInv /\ [Next]_vars => [A]_vars
    BY <1>1
  <1> QED BY <1>2, ThreadInvariance, PTL DEF Spec, HighestPriorityFirst

-----------------------------------------------------------------------------
(* The lock, whatever the clients do. *)

\* Every call of the thread API.
LEMMA ThreadStepLock ==
    ASSUME LockInv, NEW f \in Fibers, NEW c \in Cores, ThreadStep(f, c)
    PROVE  LockInv'
  <1>1. CASE YieldThread(f, c)
    BY <1>1, SwitchLock DEF YieldThread
  <1>2. CASE \E t \in Timeouts : Sleep(f, c, t)
    BY <1>2, SwitchLock DEF Sleep
  <1>3. CASE ExitFiber(f, c)
    BY <1>3, SwitchLock DEF ExitFiber
  <1>4. CASE CreateThread(f, c)
    BY <1>4, LockStutter DEF CreateThread
  <1>5. CASE \E op \in Calls \cap {"join", "activity", "priority", "mask"} : GetFiberByHandle(f, c, op)
    BY <1>5, LockStutter DEF GetFiberByHandle, kernelVars
  <1>6. CASE SetActivity(f, c)
    BY <1>6, LockStutter DEF SetActivity
  <1>7. CASE SetPriority(f, c)
    BY <1>7, LockStutter DEF SetPriority
  <1>8. CASE SetCoreMask(f, c)
    BY <1>8, LockStutter DEF SetCoreMask
  <1>9. CASE JoinThread(f, c)
    <2>1. CASE call[f].target # NoFiber /\ Resolves(call[f].target)
      BY <1>9, <2>1, SwitchLock DEF JoinThread, YieldThread
    <2>2. CASE ~(call[f].target # NoFiber /\ Resolves(call[f].target))
      BY <1>9, <2>2, LockStutter DEF JoinThread, kernelVars
    <2> QED BY <2>1, <2>2
  <1> QED BY <1>1, <1>2, <1>3, <1>4, <1>5, <1>6, <1>7, <1>8, <1>9 DEF ThreadStep

\* LockInv is an invariant of the thread API, whatever calls its fibers make.
THEOREM LockInvariance == Spec => []LockInv
  <1>1. Init => LockInv
    BY DEF Init, KernelInit, LockInv, LockCoversScheduling, Phase
  <1>2. LockInv /\ [Next]_vars => LockInv'
    <2> SUFFICES ASSUME LockInv, [Next]_vars PROVE LockInv'
      OBVIOUS
    <2>1. CASE Next
      <3>1. PICK c \in Cores : SchedulerStep(c) \/ \E f \in Fibers : ThreadStep(f, c)
        BY <2>1 DEF Next
      <3> QED BY <3>1, SchedulerStepLock, ThreadStepLock
    <2>2. CASE UNCHANGED vars
      BY <2>2, LockStutter DEF vars, kernelVars
    <2> QED BY <2>1, <2>2
  <1> QED BY <1>1, <1>2, PTL DEF Spec

\* m_scheduler_lock is held by a core exactly while that core is between the
\* system call that gives it up and the dispatch or the rest that follows
\* (LockCoversScheduling): no path of SchedulerFiberMain, Dispatch and the
\* system calls drops it, takes it twice or lets two cores in.
THEOREM LockIsHeld == Spec => []LockCoversScheduling
  <1>1. LockInv => LockCoversScheduling
    BY DEF LockInv
  <1> QED BY <1>1, LockInvariance, PTL

-----------------------------------------------------------------------------
(* Timeouts of one core. *)

\* A core that rests without a timeout has found no fiber in m_wait_list to wake
\* up, and while it rests nobody joins that list.
LEMMA RestsForTimersKept ==
    ASSUME OneCore, ThreadInv, RestsForTimers, [Next]_vars
    PROVE  RestsForTimers'
  <1> DEFINE c == BootCore
  <1>0. phase \in [Cores -> Phase] /\ Cores = {c} /\ asleep \subseteq {d \in Cores : phase[d] = "resting"}
    BY DEF OneCore, ThreadInv, KernelInv, LockInv, RestInv
  <1> SUFFICES ASSUME phase'[c] \in {"rest", "resting"}, ~armed'[c]
               PROVE  ~FiniteRest(c)'
    BY <1>0 DEF RestsForTimers
  <1>1. CASE UNCHANGED <<phase, armed, m_wait_list, core_mask, timeout>>
    BY <1>0, <1>1 DEF RestsForTimers, FiniteRest
  <1>2. CASE SchedulerStep(c)
    <2>1. CASE StartCore(c) \/ BootScheduler(c) \/ PostDispatch(c) \/ FallBackToQueue(c) \/ SkipRest(c)
      <3>1. phase'[c] \in {"scan", "queue"}
        BY <1>0, <2>1 DEF StartCore, BootScheduler, PostDispatch, FallBackToQueue, SkipRest, LeaveRest
      <3> QED BY <3>1
    <2>2. CASE \E f \in Fibers : CancelSleep(c, f)
      BY <2>2 DEF CancelSleep
    <2>3. CASE ScheduleLocal(c) \/ ScheduleFromQueue(c) \/ DelegateToRing(c)
      <3>1. phase'[c] \in {"user", "queue"}
        BY <1>0, <2>3 DEF ScheduleLocal, ScheduleFromQueue, DelegateToRing, Dispatch
      <3> QED BY <3>1
    <2>4. CASE Rest(c)
      <3>1. armed'[c] = FiniteRest(c) /\ UNCHANGED <<m_wait_list, core_mask, timeout>>
        BY <1>0, <2>4 DEF Rest, waitVars, fiberVars, ThreadInv, KernelInv, RestInv
      <3> QED BY <3>1 DEF FiniteRest
    <2>5. CASE WaitOnRunnable(c)
      <3>1. phase[c] = "rest" /\ UNCHANGED <<armed, m_wait_list, core_mask, timeout>>
        BY <2>5 DEF WaitOnRunnable, waitVars, fiberVars, restVars
      <3> QED BY <1>0, <3>1 DEF FiniteRest, RestsForTimers
    <2>6. CASE WakeCore(c)
      <3>1. CASE m_runnable_fibers # 0
        BY <1>0, <2>6, <3>1 DEF WakeCore, LeaveRest
      <3>2. CASE m_runnable_fibers = 0
        <4>1. armed'[c] = FiniteRest(c) /\ UNCHANGED <<m_wait_list, core_mask, timeout>>
          BY <1>0, <2>6, <3>2 DEF WakeCore, waitVars, fiberVars, ThreadInv, KernelInv, RestInv
        <4> QED BY <4>1 DEF FiniteRest
      <3> QED BY <3>1, <3>2
    <2>7. CASE RestTimeout(c)
      BY <1>1, <2>7 DEF RestTimeout, waitVars, fiberVars, restVars
    <2> QED BY <1>2, <2>1, <2>2, <2>3, <2>4, <2>5, <2>6, <2>7 DEF SchedulerStep
  <1>3. ASSUME NEW f \in Fibers, ThreadStep(f, c) PROVE FALSE
    <2>1. Runs(f, c)
      BY <1>3 DEF ThreadStep, YieldThread, Sleep, ExitFiber, CreateThread, GetFiberByHandle, SetActivity,
                  SetPriority, SetCoreMask, JoinThread
    <2>2. phase'[c] = phase[c] \/ SwitchToScheduler(c)
      BY <1>3 DEF ThreadStep, YieldThread, Sleep, ExitFiber, CreateThread, GetFiberByHandle, SetActivity,
                  SetPriority, SetCoreMask, JoinThread, kernelVars
    <2> QED BY <1>0, <2>1, <2>2 DEF Runs, SwitchToScheduler
  <1>4. CASE UNCHANGED vars
    BY <1>1, <1>4 DEF vars, kernelVars
  <1> QED BY <1>0, <1>2, <1>3, <1>4 DEF Next

\* TimersServed, on one core: a core that rests with a finite timeout in the wait
\* list has armed its own, so that the sleeper will be woken.
THEOREM TimersAreServed == ASSUME SafeClients, OneCore PROVE Spec => []TimersServed
  <1>1. Init => RestsForTimers
    BY DEF Init, KernelInit, RestsForTimers
  <1>2. ThreadInv /\ RestsForTimers /\ [Next]_vars => RestsForTimers'
    BY RestsForTimersKept
  <1>3. ThreadInv /\ RestsForTimers => TimersServed
    <2> SUFFICES ASSUME ThreadInv, RestsForTimers, NEW f \in Elements(m_wait_list), timeout[f] = "finite"
                 PROVE  \E c \in core_mask[f] : c \notin asleep \/ armed[c]
      BY DEF TimersServed
    <2>1. f \in Fibers /\ fiber_state[f] = "Waiting"
      <3>1. m_wait_list \in Seq(Fibers)
        BY DEF ThreadInv, KernelInv, ParkInv
      <3>2. f \in Fibers
        BY <3>1, ListElements
      <3> QED BY <3>2 DEF ThreadInv, KernelInv, ParkInv, Parked
    <2>2. BootCore \in core_mask[f]
      BY <2>1 DEF OneCore, ThreadInv, KernelInv, FieldsInv
    <2>3. FiniteRest(BootCore)
      BY <2>2 DEF FiniteRest
    <2>4. BootCore \in asleep => armed[BootCore]
      BY <2>3 DEF RestsForTimers, ThreadInv, KernelInv, RestInv
    <2> QED BY <2>2, <2>4
  <1> QED BY <1>1, <1>2, <1>3, ThreadInvariance, PTL DEF Spec

-----------------------------------------------------------------------------
(* Wake-ups, of fibers of one core each. *)

\* The cores on their way to the queue.
Way      == {"start", "rest", "resting"}
OnTheWay == {c \in Cores \ asleep : phase[c] \in Way}
Held == IF LockFree THEN 0 ELSE 1

\* While a core sleeps, for each ready fiber another core is on its way to the
\* queue, or holds m_scheduler_lock.
Balance == asleep # {} => Cardinality(Ready) <= Cardinality(OnTheWay) + Held

\* There are finitely many of them.
LEMMA OnTheWayIsFinite ==
    IsFiniteSet(OnTheWay) /\ Cardinality(OnTheWay) \in Nat
  <1>1. OnTheWay \in SUBSET Cores
    BY DEF OnTheWay
  <1> QED BY <1>1, FS_Subset, FS_CardinalityType

\* Cores wake up, none goes to sleep, and none leaves the way.
LEMMA WokenJoin ==
    ASSUME RestInv, asleep' \subseteq asleep,
           \A c \in Cores : phase'[c] \in Way <=> phase[c] \in Way
    PROVE  Cardinality(OnTheWay') = Cardinality(OnTheWay) + Cardinality(asleep \ asleep')
  <1> DEFINE woken == asleep \ asleep'
  <1>1. OnTheWay' = OnTheWay \cup woken /\ OnTheWay \cap woken = {}
    BY DEF OnTheWay, Way, RestInv
  <1>2. woken \in SUBSET Cores
    BY DEF RestInv
  <1>3. IsFiniteSet(woken) /\ Cardinality(woken) \in Nat
    BY <1>2, FS_Subset, FS_CardinalityType
  <1> HIDE DEF woken
  <1>4. Cardinality(OnTheWay \cup woken) = Cardinality(OnTheWay) + Cardinality(woken) - Cardinality(OnTheWay \cap woken)
    BY <1>3, OnTheWayIsFinite, FS_Union
  <1>5. Cardinality(OnTheWay \cap woken) = 0
    BY <1>1, FS_EmptySet
  <1> QED BY <1>1, <1>3, <1>4, <1>5, OnTheWayIsFinite DEF woken

\* A step in which no core leaves the way: fibers that become ready wake cores up, and
\* one that is dispatched takes its core's lock along.
LEMMA BalanceKept ==
    ASSUME KernelInv, KernelInv', Balance, asleep' \subseteq asleep,
           \A c \in Cores : phase'[c] \in Way <=> phase[c] \in Way,
           \/ asleep' = {}
           \/ m_runnable_fibers' - m_runnable_fibers <= Cardinality(asleep \ asleep') + (Held' - Held)
    PROVE  Balance'
  <1> SUFFICES ASSUME asleep' # {}
               PROVE  Cardinality(Ready') <= Cardinality(OnTheWay') + Held'
    BY DEF Balance
  <1> DEFINE n == Cardinality(Ready)
             m == Cardinality(OnTheWay)
             w == Cardinality(asleep \ asleep')
  <1>1. /\ n \in Nat /\ m \in Nat /\ Cardinality(Ready') \in Nat /\ Held \in {0, 1} /\ Held' \in {0, 1}
        /\ w \in Nat
    <2>1. Ready' \in SUBSET Fibers /\ (asleep \ asleep') \in SUBSET Cores
      BY DEF Ready, KernelInv, RestInv
    <2>2. IsFiniteSet(Ready') /\ IsFiniteSet(asleep \ asleep')
      BY <2>1, FS_Subset
    <2> QED BY <2>2, FS_CardinalityType, ReadyIsFinite, OnTheWayIsFinite DEF Held
  <1>2. m_runnable_fibers = n /\ m_runnable_fibers' = Cardinality(Ready')
    BY DEF KernelInv, CountInv
  <1>3. n <= m + Held
    BY DEF Balance
  <1>4. Cardinality(OnTheWay') = m + w
    BY WokenJoin DEF KernelInv
  <1>5. Cardinality(Ready') - n <= w + (Held' - Held)
    BY <1>2
  <1> HIDE DEF n, m, w
  <1> QED BY <1>1, <1>3, <1>4, <1>5

\* A core leaves the way for the lock.
LEMMA BalanceMoved ==
    ASSUME KernelInv, KernelInv', Balance, NEW c \in Cores, c \notin asleep, phase[c] \in Way,
           phase' = [phase EXCEPT ![c] = "scan"], m_scheduler_lock' = c, LockFree,
           UNCHANGED <<asleep, m_runnable_fibers>>
    PROVE  Balance'
  <1>1. phase \in [Cores -> Phase]
    BY DEF KernelInv, LockInv
  <1>2. c \in OnTheWay /\ OnTheWay' = OnTheWay \ {c}
    BY <1>1 DEF OnTheWay, Way
  <1>3. Cardinality(OnTheWay \ {c}) = Cardinality(OnTheWay) - 1
    BY <1>2, OnTheWayIsFinite, FS_RemoveElement
  <1>4. Held = 0 /\ Held' = 1
    BY DEF Held, LockFree
  <1>5. Cardinality(Ready') = Cardinality(Ready)
    BY DEF KernelInv, CountInv
  <1>6. asleep' # {} => Cardinality(Ready) <= Cardinality(OnTheWay) + Held
    BY DEF Balance
  <1> QED BY <1>2, <1>3, <1>4, <1>5, <1>6, OnTheWayIsFinite, ReadyIsFinite DEF Balance

\* Nothing is ready.
LEMMA BalanceOfNothing ==
    ASSUME KernelInv', m_runnable_fibers' = 0
    PROVE  Balance'
  <1>1. OnTheWay' \in SUBSET Cores
    BY DEF OnTheWay
  <1>2. Cardinality(OnTheWay') \in Nat
    BY <1>1, FS_Subset, FS_CardinalityType
  <1>3. Held' \in {0, 1} /\ Cardinality(Ready') = 0
    BY DEF Held, KernelInv, CountInv
  <1> QED BY <1>2, <1>3 DEF Balance

\* The numbers that the balance is made of.
LEMMA WakeCounts ==
    ASSUME KernelInv, KernelInv'
    PROVE  /\ m_runnable_fibers \in Nat /\ m_runnable_fibers' \in Nat
           /\ Held \in {0, 1} /\ Held' \in {0, 1}
           /\ Cardinality(asleep \ asleep') \in Nat
  <1>1. Ready' \in SUBSET Fibers /\ (asleep \ asleep') \in SUBSET Cores
    BY DEF Ready, KernelInv, RestInv
  <1>2. IsFiniteSet(Ready') /\ IsFiniteSet(asleep \ asleep')
    BY <1>1, FS_Subset
  <1> QED BY <1>2, FS_CardinalityType, ReadyIsFinite DEF Held, KernelInv, CountInv

\* A step that changes neither the counts nor who is asleep, nor who is on the way.
LEMMA BalanceUnmoved ==
    ASSUME KernelInv, KernelInv', Balance, UNCHANGED <<m_runnable_fibers, asleep, m_scheduler_lock>>,
           \A c \in Cores : phase'[c] \in Way <=> phase[c] \in Way
    PROVE  Balance'
  <1>1. m_runnable_fibers' - m_runnable_fibers = 0 /\ Held' - Held = 0
    BY WakeCounts DEF Held, LockFree
  <1> QED BY <1>1, WakeCounts, BalanceKept

\* What is known of wake-ups while every fiber has one core: the rings are empty, a
\* core rests only after it saw no ready fiber, and the account above.
WakeInv ==
    /\ \A f \in Fibers : Cardinality(core_mask[f]) \in {0, 1}
    /\ \A c \in Cores : local_ring[c] = <<>>
    /\ \A c \in Cores : phase[c] = "rest" => wait_value[c] = 0
    /\ Balance

\* The scheduler loop hands every fiber of one core out itself, and rests only when
\* there is none.
LEMMA SchedulerStepWakes ==
    ASSUME KernelInv, KernelInv', WakeInv, NEW c \in Cores, SchedulerStep(c)
    PROVE  WakeInv'
  <1>0. /\ phase \in [Cores -> Phase] /\ wait_value \in [Cores -> 0 .. Cardinality(Fibers)]
        /\ UNCHANGED core_mask
    BY DEF KernelInv, LockInv, RestInv, SchedulerStep, StartCore, BootScheduler, CancelSleep, ScheduleLocal,
           PostDispatch, FallBackToQueue, ScheduleFromQueue, DelegateToRing, Rest, WaitOnRunnable, WakeCore,
           SkipRest, RestTimeout, fiberVars
  <1>1. ASSUME UNCHANGED <<local_ring, wait_value>>, \A d \in Cores : phase'[d] = "rest" => phase[d] = "rest", Balance'
        PROVE  WakeInv'
    BY <1>0, <1>1 DEF WakeInv
  <1>2. ASSUME NEW p \in Phase \ Way, NEW q \in Phase \ Way, phase[c] = p, phase' = [phase EXCEPT ![c] = q]
        PROVE  \A d \in Cores : /\ phase'[d] \in Way <=> phase[d] \in Way
                                /\ phase'[d] = "rest" => phase[d] = "rest"
    BY <1>0, <1>2 DEF Way
  <1>3. CASE StartCore(c) \/ SkipRest(c)
    <2>1. /\ phase[c] \in {"start", "rest"} /\ phase' = [phase EXCEPT ![c] = "scan"]
          /\ m_scheduler_lock' = c /\ LockFree
          /\ UNCHANGED <<asleep, m_runnable_fibers, local_ring, wait_value>>
      BY <1>3 DEF StartCore, SkipRest, LeaveRest, readyVars, restVars
    <2>2. c \notin asleep
      BY <2>1 DEF KernelInv, RestInv
    <2>3. Balance'
      BY <2>1, <2>2, BalanceMoved DEF WakeInv, Way
    <2>4. \A d \in Cores : phase'[d] = "rest" => phase[d] = "rest"
      BY <1>0, <2>1
    <2> QED BY <1>1, <2>1, <2>3, <2>4
  <1>4. CASE BootScheduler(c)
    <2>1. /\ phase[c] = "booted" /\ phase' = [phase EXCEPT ![c] = "scan"]
          /\ Reschedule(MainFiber, activity_level, priority)
          /\ UNCHANGED <<m_scheduler_lock, local_ring, wait_value, priority>>
      BY <1>4 DEF BootScheduler, restVars, fiberVars
    <2>2. fiber_state[MainFiber] \in {"Running", "Waiting"}
      BY <2>1 DEF KernelInv, RunInv, MayBe
    <2>3. /\ asleep' \subseteq asleep
          /\ asleep' = {} \/ Cardinality(asleep \ asleep') >= m_runnable_fibers' - m_runnable_fibers
      <3>1. priority \in [Fibers -> Int]
        BY DEF KernelInv, FieldsInv
      <3> QED BY <3>1, <2>1, <2>2, Rescheduled DEF KernelInv
    <2>4. \A d \in Cores : /\ phase'[d] \in Way <=> phase[d] \in Way
                           /\ phase'[d] = "rest" => phase[d] = "rest"
      BY <1>2, <2>1 DEF Way, Phase
    <2>5. Held' - Held = 0
      BY <2>1 DEF Held, LockFree
    <2>6. Balance'
      BY <2>3, <2>4, <2>5, WakeCounts, BalanceKept DEF WakeInv
    <2> QED BY <1>1, <2>1, <2>4, <2>6
  <1>5. ASSUME NEW f \in Fibers, fiber_state[f] \in {"Running", "Waiting"}, AddToSchedulerUnsafe(<<f>>),
               UNCHANGED <<priority, m_scheduler_lock>>,
               \A d \in Cores : phase'[d] \in Way <=> phase[d] \in Way
        PROVE  Balance'
    <2>1. <<f>> \in Seq(Fibers) /\ Elements(<<f>>) = {f} /\ Once(<<f>>)
      BY ListOfOne
    <2>2. Elements(<<f>>) \cap Ready = {}
      BY <1>5, <2>1 DEF Ready
    <2>3. /\ asleep' \subseteq asleep
          /\ asleep' = {} \/ Cardinality(asleep \ asleep') = m_runnable_fibers' - m_runnable_fibers
      BY <1>5, <2>1, <2>2, AddedToScheduler DEF KernelInv
    <2>4. Held' - Held = 0
      BY <1>5 DEF Held, LockFree
    <2> QED BY <1>5, <2>3, <2>4, WakeCounts, BalanceKept DEF WakeInv
  <1>6. CASE PostDispatch(c)
    <2> DEFINE f == running[c]
    <2>1. /\ phase[c] = "switched" /\ phase' = [phase EXCEPT ![c] = "scan"]
          /\ UNCHANGED <<m_scheduler_lock, local_ring, wait_value, priority>>
      BY <1>6 DEF PostDispatch, restVars, fiberVars
    <2>2. f \in Fibers /\ fiber_state[f] \in {"Running", "Exiting", "Waiting"}
      BY <2>1 DEF KernelInv, RunInv, MayBe
    <2>3. \A d \in Cores : /\ phase'[d] \in Way <=> phase[d] \in Way
                           /\ phase'[d] = "rest" => phase[d] = "rest"
      BY <1>2, <2>1 DEF Way, Phase
    <2>4. CASE fiber_state[f] = "Running"
      <3>1. AddToSchedulerUnsafe(<<f>>)
        BY <1>6, <2>4 DEF PostDispatch
      <3>2. Balance'
        BY <1>5, <2>1, <2>2, <2>3, <3>1, <2>4
      <3> QED BY <1>1, <2>1, <2>3, <3>2
    <2>5. CASE fiber_state[f] # "Running"
      <3>1. UNCHANGED <<m_runnable_fibers, asleep, m_scheduler_lock>>
        BY <1>6, <2>1, <2>5 DEF PostDispatch
      <3>2. Balance'
        BY <2>3, <3>1, BalanceUnmoved DEF WakeInv
      <3> QED BY <1>1, <2>1, <2>3, <3>2
    <2> QED BY <2>4, <2>5
  <1>7. ASSUME NEW f \in Fibers, CancelSleep(c, f) PROVE WakeInv'
    <2>1. /\ f \in Elements(m_wait_list) /\ AddToSchedulerUnsafe(<<f>>)
          /\ UNCHANGED <<phase, priority, m_scheduler_lock, local_ring, wait_value>>
      BY <1>7 DEF CancelSleep, TimedOut, EndFiberWaitImpl, fiberVars, restVars
    <2>2. fiber_state[f] = "Waiting"
      BY <2>1 DEF KernelInv, ParkInv, Parked
    <2>3. Balance'
      BY <1>5, <2>1, <2>2
    <2> QED BY <1>1, <2>1, <2>3
  <1>8. CASE ScheduleLocal(c)
    BY <1>8 DEF ScheduleLocal, WakeInv
  <1>9. CASE FallBackToQueue(c)
    <2>1. /\ phase[c] = "scan" /\ phase' = [phase EXCEPT ![c] = "queue"]
          /\ UNCHANGED <<m_scheduler_lock, local_ring, wait_value, m_runnable_fibers, asleep>>
      BY <1>9 DEF FallBackToQueue, restVars, readyVars
    <2>2. \A d \in Cores : /\ phase'[d] \in Way <=> phase[d] \in Way
                           /\ phase'[d] = "rest" => phase[d] = "rest"
      BY <1>2, <2>1 DEF Way, Phase
    <2>3. Balance'
      BY <2>1, <2>2, BalanceUnmoved DEF WakeInv
    <2> QED BY <1>1, <2>1, <2>2, <2>3
  <1>10. CASE ScheduleFromQueue(c)
    <2>1. /\ phase[c] = "queue" /\ phase' = [phase EXCEPT ![c] = "user"]
          /\ m_scheduler_lock = c /\ m_scheduler_lock' = NoCore
          /\ m_runnable_fibers' = m_runnable_fibers - 1
          /\ UNCHANGED <<local_ring, wait_value, asleep>>
      BY <1>10 DEF ScheduleFromQueue, Schedules, Dispatch, restVars
    <2>2. \A d \in Cores : /\ phase'[d] \in Way <=> phase[d] \in Way
                           /\ phase'[d] = "rest" => phase[d] = "rest"
      BY <1>2, <2>1 DEF Way, Phase
    <2>3. Held' - Held = -1
      BY <2>1 DEF Held, LockFree
    <2>4. Cardinality(asleep \ asleep') = 0
      <3>1. asleep \ asleep' = {}
        BY <2>1
      <3> QED BY <3>1, FS_EmptySet
    <2>5. Balance'
      BY <2>1, <2>2, <2>3, <2>4, WakeCounts, BalanceKept DEF WakeInv
    <2> QED BY <1>1, <2>1, <2>2, <2>5
  <1>11. CASE DelegateToRing(c)
    <2> DEFINE f == Peek(m_thread_queue)
    <2>1. m_thread_queue # <<>> /\ ~CoreIsPreferred(f, c)
      BY <1>11 DEF DelegateToRing
    <2>2. f \in Fibers /\ fiber_state[f] = "Scheduled"
      BY <2>1, FrontOfQueue DEF KernelInv
    <2> HIDE DEF f
    <2>3. core_mask[f] # {} /\ IsFiniteSet(core_mask[f])
      <3>1. core_mask[f] # {} /\ core_mask[f] \in SUBSET Cores
        BY <2>2 DEF KernelInv, FieldsInv
      <3> QED BY <3>1, FS_Subset
    <2>4. Cardinality(core_mask[f]) # 0
      BY <2>3, FS_EmptySet
    <2> QED BY <2>1, <2>2, <2>4 DEF WakeInv, CoreIsPreferred
  <1>12. CASE Rest(c)
    <2>1. /\ m_thread_queue = <<>>
          /\ wait_value' = [wait_value EXCEPT ![c] = m_runnable_fibers]
          /\ phase' = [phase EXCEPT ![c] = "rest"]
          /\ UNCHANGED <<m_runnable_fibers, local_ring>>
      BY <1>12 DEF Rest
    <2>2. m_runnable_fibers = 0
      <3>1. Ready = {}
        <4>1. \A g \in Fibers : fiber_state[g] # "Scheduled"
          BY <2>1, EmptyList DEF KernelInv, QueueInv
        <4>2. \A g \in Fibers : fiber_state[g] # "ScheduledLocal"
          <5> SUFFICES ASSUME NEW g \in Fibers, fiber_state[g] = "ScheduledLocal" PROVE FALSE
            OBVIOUS
          <5>1. current_core[g] \in Cores
            <6>1. current_core \in [Fibers -> Cores]
              BY DEF KernelInv, FieldsInv
            <6> QED BY <6>1
          <5>2. g \in Elements(local_ring[current_core[g]])
            <6>1. Elements(local_ring[current_core[g]]) =
                      {f \in Fibers : fiber_state[f] = "ScheduledLocal" /\ current_core[f] = current_core[g]}
              BY <5>1 DEF KernelInv, RingInv
            <6> QED BY <6>1
          <5> QED BY <5>1, <5>2, EmptyList DEF WakeInv
        <4> QED BY <4>1, <4>2 DEF Ready
      <3> QED BY <3>1, FS_EmptySet DEF KernelInv, CountInv
    <2>3. Balance'
      BY <2>1, <2>2, BalanceOfNothing
    <2> QED BY <1>0, <2>1, <2>2, <2>3 DEF WakeInv
  <1>13. CASE WaitOnRunnable(c)
    <2>1. /\ phase[c] = "rest" /\ phase' = [phase EXCEPT ![c] = "resting"]
          /\ asleep' = IF m_runnable_fibers = wait_value[c] THEN asleep \cup {c} ELSE asleep
          /\ UNCHANGED <<m_runnable_fibers, local_ring, wait_value, m_scheduler_lock>>
      BY <1>13 DEF WaitOnRunnable, restVars
    <2>2. \A d \in Cores : /\ phase'[d] \in Way <=> phase[d] \in Way
                           /\ phase'[d] = "rest" => phase[d] = "rest"
      BY <1>0, <2>1 DEF Way
    <2>3. CASE m_runnable_fibers = wait_value[c]
      <3>1. m_runnable_fibers' = 0
        BY <2>1, <2>3 DEF WakeInv
      <3>2. Balance'
        BY <3>1, BalanceOfNothing
      <3> QED BY <1>1, <2>1, <2>2, <3>2
    <2>4. CASE m_runnable_fibers # wait_value[c]
      <3>1. Balance'
        BY <2>1, <2>2, <2>4, BalanceUnmoved DEF WakeInv
      <3> QED BY <1>1, <2>1, <2>2, <3>1
    <2> QED BY <2>3, <2>4
  <1>14. CASE WakeCore(c)
    <2>1. /\ phase[c] = "resting" /\ c \notin asleep /\ LockFree
          /\ UNCHANGED <<local_ring, asleep, m_runnable_fibers>>
      BY <1>14 DEF WakeCore, readyVars
    <2>2. CASE m_runnable_fibers # 0
      <3>1. /\ phase' = [phase EXCEPT ![c] = "scan"] /\ m_scheduler_lock' = c /\ UNCHANGED wait_value
        BY <1>14, <2>2 DEF WakeCore, LeaveRest
      <3>2. Balance'
        BY <2>1, <3>1, BalanceMoved DEF WakeInv, Way
      <3>3. \A d \in Cores : phase'[d] = "rest" => phase[d] = "rest"
        BY <1>0, <3>1
      <3> QED BY <1>1, <2>1, <3>1, <3>2, <3>3
    <2>3. CASE m_runnable_fibers = 0
      <3>1. /\ phase' = [phase EXCEPT ![c] = "rest"] /\ wait_value' = [wait_value EXCEPT ![c] = 0]
        BY <1>14, <2>3 DEF WakeCore
      <3>2. Balance'
        BY <2>1, <2>3, BalanceOfNothing
      <3> QED BY <1>0, <2>1, <3>1, <3>2 DEF WakeInv
    <2> QED BY <2>2, <2>3
  <1>15. CASE RestTimeout(c)
    <2>1. /\ asleep' = asleep \ {c}
          /\ UNCHANGED <<m_runnable_fibers, local_ring, wait_value, m_scheduler_lock, phase>>
      BY <1>15 DEF RestTimeout, restVars
    <2>2. m_runnable_fibers' - m_runnable_fibers = 0 /\ Held' - Held = 0
      BY <2>1, WakeCounts DEF Held, LockFree
    <2>3. Balance'
      BY <2>1, <2>2, WakeCounts, BalanceKept DEF WakeInv
    <2> QED BY <1>1, <2>1, <2>3
  <1> QED BY <1>3, <1>4, <1>6, <1>7, <1>8, <1>9, <1>10, <1>11, <1>12, <1>13, <1>14, <1>15
          DEF SchedulerStep

\* No call of the thread API puts a core to sleep, and none makes a fiber ready without
\* waking up a core for it.
LEMMA ThreadStepWakes ==
    ASSUME SafeClients, ThreadInv, ThreadInv', WakeInv, NEW f \in Fibers, NEW c \in Cores, ThreadStep(f, c),
           \A g \in Fibers : Cardinality(core_mask'[g]) \in {0, 1}
    PROVE  WakeInv'
  <1>0. KernelInv /\ KernelInv' /\ phase \in [Cores -> Phase]
    BY DEF ThreadInv, KernelInv, LockInv
  <1>1. ASSUME UNCHANGED <<local_ring, wait_value>>, \A d \in Cores : phase'[d] = "rest" => phase[d] = "rest", Balance'
        PROVE  WakeInv'
    BY <1>1 DEF WakeInv
  <1>2. CASE YieldThread(f, c) \/ (\E t \in Timeouts : Sleep(f, c, t)) \/ ExitFiber(f, c)
    <2>1. /\ LockFree /\ Runs(f, c) /\ SwitchToScheduler(c)
          /\ UNCHANGED <<m_runnable_fibers, asleep, local_ring, wait_value>>
      BY <1>2 DEF YieldThread, Sleep, ExitFiber, readyVars, restVars
    <2>2. PICK p \in {"booted", "switched"} : phase' = [phase EXCEPT ![c] = p]
      BY <2>1 DEF SwitchToScheduler
    <2>3. \A d \in Cores : /\ phase'[d] \in Way <=> phase[d] \in Way
                           /\ phase'[d] = "rest" => phase[d] = "rest"
      BY <1>0, <2>1, <2>2 DEF Way, Runs
    <2>4. Held' - Held = 1 /\ m_runnable_fibers' - m_runnable_fibers = 0
      BY <1>0, <2>1, WakeCounts DEF Held, LockFree, SwitchToScheduler
    <2>5. Balance'
      BY <1>0, <2>1, <2>3, <2>4, WakeCounts, BalanceKept DEF WakeInv
    <2> QED BY <1>1, <2>1, <2>3, <2>5
  <1>3. CASE UNCHANGED <<m_runnable_fibers, asleep, local_ring, wait_value, m_scheduler_lock, phase>>
    <2>1. Balance'
      BY <1>0, <1>3, BalanceUnmoved DEF WakeInv
    <2> QED BY <1>1, <1>3, <2>1
  <1>4. CASE SetActivity(f, c) \/ SetPriority(f, c) \/ SetCoreMask(f, c)
    <2>1. Pending(f)
      BY <1>4 DEF SetActivity, SetPriority, SetCoreMask, Pending
    <2>2. UNCHANGED <<local_ring, wait_value, m_scheduler_lock, phase>>
      BY <1>4 DEF SetActivity, SetPriority, SetCoreMask, restVars
    <2>3. /\ asleep' \subseteq asleep
          /\ asleep' = {} \/ Cardinality(asleep \ asleep') >= m_runnable_fibers' - m_runnable_fibers
      BY <1>4, <2>1, SetKeepsThreads
    <2>4. Held' - Held = 0
      BY <2>2 DEF Held, LockFree
    <2>5. Balance'
      BY <1>0, <2>2, <2>3, <2>4, WakeCounts, BalanceKept DEF WakeInv
    <2> QED BY <1>1, <2>2, <2>5
  <1>5. CASE CreateThread(f, c) \/ \E op \in Calls \cap {"join", "activity", "priority", "mask"} : GetFiberByHandle(f, c, op)
    BY <1>3, <1>5 DEF CreateThread, GetFiberByHandle, kernelVars, restVars
  <1>6. CASE JoinThread(f, c)
    BY <1>2, <1>3, <1>6 DEF JoinThread, kernelVars
  <1> QED BY <1>2, <1>4, <1>5, <1>6 DEF ThreadStep

\* While no fiber was given a second core (MCThreadMasks).
\* WakeInv, until a fiber is given a second core.
MaskInv == shared \in BOOLEAN /\ (shared \/ WakeInv)

\* Every step keeps the account of wake-ups, until a fiber is given a second core.
LEMMA MaskInvKept ==
    ASSUME SafeClients, ThreadInv, ThreadInv', MaskInv, [MaskNext]_<<vars, shared>>
    PROVE  MaskInv'
  <1>1. CASE MaskNext
    <2>1. Next /\ shared' = (shared \/ \E f \in Fibers : Cardinality(core_mask'[f]) > 1)
      BY <1>1 DEF MaskNext
    <2>2. shared' \in BOOLEAN
      BY <2>1 DEF MaskInv
    <2>3. ASSUME ~shared' PROVE WakeInv'
      <3>1. WakeInv /\ \A f \in Fibers : ~(Cardinality(core_mask'[f]) > 1)
        BY <2>1, <2>3 DEF MaskInv
      <3>2. \A f \in Fibers : Cardinality(core_mask'[f]) \in Nat
        <4>1. \A f \in Fibers : core_mask'[f] \in SUBSET Cores
          BY DEF ThreadInv, KernelInv, FieldsInv
        <4> QED BY <4>1, FS_Subset, FS_CardinalityType
      <3>3. \A f \in Fibers : Cardinality(core_mask'[f]) \in {0, 1}
        BY <3>1, <3>2
      <3>4. PICK c \in Cores : \/ SchedulerStep(c) /\ UNCHANGED call
                               \/ \E f \in Fibers : ThreadStep(f, c)
        BY <2>1 DEF Next
      <3> QED BY <3>1, <3>3, <3>4, SchedulerStepWakes, ThreadStepWakes DEF ThreadInv
    <2> QED BY <2>2, <2>3 DEF MaskInv
  <1>2. CASE UNCHANGED <<vars, shared>>
    <2>1. WakeInv => WakeInv'
      <3> SUFFICES ASSUME WakeInv PROVE WakeInv'
        OBVIOUS
      <3>1. Balance'
        BY <1>2, BalanceUnmoved DEF WakeInv, ThreadInv, vars, kernelVars
      <3> QED BY <1>2, <3>1 DEF WakeInv, vars, kernelVars
    <2> QED BY <1>2, <2>1 DEF MaskInv
  <1> QED BY <1>1, <1>2

\* NoLostWakeup as long as every fiber has one core: when a fiber is queued, the
\* scheduler lock is free and a core sleeps, another core is on its way to the queue.
\* The wake-up of AddToSchedulerUnsafe, and the window between ReleaseSRWLock and
\* WaitOnAddress, lose none on any number of cores.
THEOREM NoWakeupIsLost == ASSUME SafeClients PROVE MaskSpec => []NoLostWakeupWithoutRings
  <1> DEFINE Inv == ThreadInv /\ MaskInv
  <1>1. MaskInit => Inv
    <2> SUFFICES ASSUME MaskInit PROVE Inv
      OBVIOUS
    <2>1. ThreadInv
      BY ThreadInit DEF MaskInit
    <2>2. \A f \in Fibers : Cardinality(core_mask[f]) \in {0, 1}
      <3>1. \A f \in Fibers : core_mask[f] = {} \/ core_mask[f] = {BootCore}
        BY DEF MaskInit, Init, KernelInit
      <3>2. Cardinality({}) = 0 /\ Cardinality({BootCore}) = 1
        BY FS_EmptySet, FS_Singleton
      <3> QED BY <3>1, <3>2
    <2>3. WakeInv
      BY <2>2 DEF MaskInit, Init, KernelInit, WakeInv, Balance
    <2> QED BY <2>1, <2>3 DEF MaskInit, MaskInv
  <1>2. Inv /\ [MaskNext]_<<vars, shared>> => Inv'
    <2> SUFFICES ASSUME Inv, [MaskNext]_<<vars, shared>> PROVE Inv'
      OBVIOUS
    <2>1. [Next]_vars
      BY DEF MaskNext
    <2>2. ThreadInv'
      BY <2>1, ThreadNext
    <2> QED BY <2>2, MaskInvKept
  <1>3. Inv => NoLostWakeupWithoutRings
    <2> SUFFICES ASSUME Inv, ~shared, m_thread_queue # <<>>, LockFree, asleep # {}
                 PROVE  \E c \in Cores \ asleep : phase[c] \in {"start", "rest", "resting"}
      BY DEF NoLostWakeupWithoutRings, NoLostWakeup
    <2>1. Cardinality(Ready) <= Cardinality(OnTheWay)
      <3>1. Cardinality(Ready) <= Cardinality(OnTheWay) + Held /\ Held = 0
        BY DEF MaskInv, WakeInv, Balance, Held
      <3> QED BY <3>1, ReadyIsFinite, OnTheWayIsFinite
    <2>2. Ready # {}
      BY FrontOfQueue DEF ThreadInv, KernelInv, Ready
    <2>3. Cardinality(Ready) # 0
      BY <2>2, ReadyIsFinite, FS_EmptySet
    <2>4. OnTheWay # {}
      <3> SUFFICES ASSUME OnTheWay = {} PROVE FALSE
        OBVIOUS
      <3>1. Cardinality(OnTheWay) = 0
        BY FS_EmptySet
      <3>2. Cardinality(Ready) \in Nat
        BY ReadyIsFinite
      <3> QED BY <2>1, <2>3, <3>1, <3>2
    <2> QED BY <2>4 DEF OnTheWay, Way
  <1> QED BY <1>1, <1>2, <1>3, PTL DEF MaskSpec
=============================================================================
