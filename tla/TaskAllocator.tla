---------------------------- MODULE TaskAllocator ----------------------------
(* async::AsyncTaskAllocator, AsyncTaskForAllocator and AsyncTaskWatcher:    *)
(* two lists of tasks, one to acquire from and one to free to, and watchers  *)
(* whose references keep a finished task from being freed.  What the queue   *)
(* does with a task is AsyncQueue's; here it is queued, run and finished, or *)
(* refused: a push to a level that does not exist fails (async_asynctask.cpp *)
(* :172), and the task is freed with the watcher that it got still naming    *)
(* it, so that the next who schedules it gets no watcher.  The clients are   *)
(* native threads: who waits for a finish event that another waits for is    *)
(* late, and never leaves (ServiceEvent).                                    *)
EXTENDS Naturals, Sequences, FiniteSets, SequencesExt

CONSTANTS Tasks, Clients, Watchers,
          MaxCalls,      \* bound: the calls a client makes
          None

VARIABLES m_task_list, m_list_index, m_available_event,
          acquirer,      \* who holds m_acquire_cs
          task,          \* what the queue has of a task, and its m_watcher
          watcher, pc, arg

vars == <<m_task_list, m_list_index, m_available_event, acquirer, task, watcher, pc, arg>>
list_vars == <<m_task_list, m_list_index, m_available_event>>

Init == /\ m_task_list = [i \in 0 .. 1 |-> IF i = 0 THEN SetToSeq(Tasks) ELSE <<>>]
        /\ m_list_index = 0
        /\ m_available_event = FALSE
        /\ acquirer = None
        /\ task = [t \in Tasks |-> [at |-> "idle", watcher |-> None, finish |-> FALSE]]
        /\ watcher = [w \in Watchers |-> [state |-> "Uninitialized", refs |-> 0, task |-> None]]
        /\ pc = [c \in Clients |-> "idle"]
        /\ arg = [c \in Clients |-> [task |-> None, watcher |-> None, cancel |-> FALSE, calls |-> 0]]

Free(t) == \E i \in 0 .. 1 : t \in ToSet(m_task_list[i])
-----------------------------------------------------------------------------
\* ScheduleTask: AcquireTask, SetWatcher, PushTask.

\* The watcher is one that has no task.
ScheduleTask(c) ==
    \E w \in Watchers \cup {None} :
        /\ pc[c] = "idle" /\ arg[c].calls < MaxCalls /\ acquirer = None
        /\ w # None => watcher[w].task = None /\ \A d \in Clients : arg[d].watcher # w
        /\ acquirer' = c
        /\ pc' = [pc EXCEPT ![c] = "acquire"]
        /\ arg' = [arg EXCEPT ![c].watcher = w, ![c].calls = @ + 1]
        /\ UNCHANGED <<list_vars, task, watcher>>

AcquireTaskImpl(c) ==
    LET list == m_task_list[m_list_index]
    IN /\ pc[c] = "acquire"
       /\ IF list = <<>>
          THEN /\ pc' = [pc EXCEPT ![c] = "available"]
               /\ UNCHANGED <<m_task_list, acquirer, arg>>
          ELSE /\ m_task_list' = [m_task_list EXCEPT ![m_list_index] = Tail(@)]
               /\ arg' = [arg EXCEPT ![c].task = Head(list)]
               /\ pc' = [pc EXCEPT ![c] = "watch"]
               /\ acquirer' = None
       /\ UNCHANGED <<m_list_index, m_available_event, task, watcher>>

WaitForAvailable(c) ==
    /\ pc[c] = "available" /\ m_available_event
    /\ pc' = [pc EXCEPT ![c] = "swap"]
    /\ UNCHANGED <<list_vars, acquirer, task, watcher, arg>>

SwapLists(c) ==
    /\ pc[c] = "swap"
    /\ m_list_index' = 1 - m_list_index
    /\ m_available_event' = FALSE
    /\ pc' = [pc EXCEPT ![c] = "acquire"]
    /\ UNCHANGED <<m_task_list, acquirer, task, watcher, arg>>

SetWatcher(c) ==
    LET t == arg[c].task
        w == arg[c].watcher
    IN /\ pc[c] = "watch"
       /\ IF w = None \/ task[t].watcher # None
          THEN UNCHANGED <<task, watcher>>
          ELSE /\ task' = [task EXCEPT ![t].watcher = w]
               /\ watcher' = [watcher EXCEPT ![w] =
                                 [state |-> "Pending", refs |-> @.refs + 1, task |-> t]]
       /\ pc' = [pc EXCEPT ![c] = "push"]
       /\ UNCHANGED <<list_vars, acquirer, arg>>

\* Under m_free_cs.
FreeTask(t) == /\ m_task_list' = [m_task_list EXCEPT ![1 - m_list_index] = Append(@, t)]
               /\ m_available_event' = TRUE
               /\ UNCHANGED m_list_index

\* The push is refused, and the task freed, when there is no such level.
PushTask(c) ==
    /\ pc[c] = "push"
    /\ \/ /\ task' = [task EXCEPT ![arg[c].task].at = "queued"]
          /\ UNCHANGED list_vars
       \/ FreeTask(arg[c].task) /\ UNCHANGED task
    /\ arg' = [arg EXCEPT ![c].task = None, ![c].watcher = None]
    /\ pc' = [pc EXCEPT ![c] = "idle"]
    /\ UNCHANGED <<acquirer, watcher>>
-----------------------------------------------------------------------------
\* Under the queue's mutex.

Unreferenced_Early(x) == [x EXCEPT !.refs = IF @ < 1 THEN @ ELSE @ - 1,
                                   !.task = IF x.refs <= 2 THEN None ELSE @]
\* ReleaseReference, and FreeToAllocator when nobody refers to the watcher now.
Unreferenced(x) == [x EXCEPT !.refs = IF @ < 1 THEN @ ELSE @ - 1,
                             !.task = IF x.refs <= 1 THEN None ELSE @]

Release(w, x, tasks) ==
    LET last == x.task # None /\ Unreferenced(x).task = None
        done == x.state \in {"Complete", "Cancelled"}
    IN /\ watcher' = [watcher EXCEPT ![w] = Unreferenced(x)]
       /\ task' = IF last THEN [tasks EXCEPT ![x.task].watcher = None] ELSE tasks
       /\ IF last /\ done THEN FreeTask(x.task) ELSE UNCHANGED list_vars

\* Who sleeps until the end of t wakes.
Woken(t) == [c \in Clients |-> IF pc[c] = "asleep" /\ arg[c].task = t THEN "release" ELSE pc[c]]

\* FreeExecute or FreeCancel, then the finish event.
ReleaseWatcher(t, state) ==
    LET tasks == [task EXCEPT ![t].at = "idle", ![t].finish = TRUE]
        w == task[t].watcher
    IN IF w # None THEN Release(w, [watcher[w] EXCEPT !.state = state], tasks)
       ELSE FreeTask(t) /\ task' = tasks /\ UNCHANGED watcher

Execute(t) == /\ task[t].at = "queued"
              /\ task' = [task EXCEPT ![t].at = "running"]
              /\ UNCHANGED <<list_vars, acquirer, watcher, pc, arg>>
Finish(t) == /\ task[t].at = "running"
             /\ ReleaseWatcher(t, "Complete")
             /\ pc' = Woken(t)
             /\ UNCHANGED <<acquirer, arg>>
-----------------------------------------------------------------------------
\* AsyncTaskWatcher::WaitForCompletion and CancelTask.

Watch(c) ==
    \E w \in Watchers, cancel \in BOOLEAN :
        /\ pc[c] = "idle" /\ arg[c].calls < MaxCalls /\ watcher[w].task # None
        /\ arg' = [arg EXCEPT ![c].watcher = w, ![c].cancel = cancel, ![c].calls = @ + 1]
        /\ pc' = [pc EXCEPT ![c] = "reference"]
        /\ UNCHANGED <<list_vars, acquirer, task, watcher>>

Reference_Forget(c) ==
    /\ pc[c] = "reference"
    /\ UNCHANGED watcher
    /\ pc' = [pc EXCEPT ![c] = "check"]
    /\ UNCHANGED <<list_vars, acquirer, task, arg>>
Reference(c) ==
    /\ pc[c] = "reference"
    /\ watcher' = [watcher EXCEPT ![arg[c].watcher].refs = @ + 1]
    /\ pc' = [pc EXCEPT ![c] = "check"]
    /\ UNCHANGED <<list_vars, acquirer, task, arg>>

\* The task is waited for, or cancelled: at once in the queue, and with a wait
\* for the end of its run otherwise.
Check(c) ==
    LET w == arg[c].watcher
        t == watcher[w].task
        at == IF t = None THEN "idle" ELSE task[t].at
    IN /\ pc[c] = "check"
       /\ arg' = [arg EXCEPT ![c].task = t]
       /\ \/ /\ t = None \/ (arg[c].cancel /\ at = "idle")
             /\ pc' = [pc EXCEPT ![c] = "release"]
             /\ UNCHANGED <<list_vars, task, watcher>>
          \/ /\ t # None /\ ~arg[c].cancel
             /\ pc' = [pc EXCEPT ![c] = "finish"]
             /\ UNCHANGED <<list_vars, task, watcher>>
          \/ /\ t # None /\ arg[c].cancel /\ at = "queued"
             /\ pc' = [Woken(t) EXCEPT ![c] = "release"]
             /\ ReleaseWatcher(t, "Cancelled")
          \/ /\ t # None /\ arg[c].cancel /\ at = "running"
             /\ task' = [task EXCEPT ![t].finish = FALSE]
             /\ pc' = [pc EXCEPT ![c] = "finish"]
             /\ UNCHANGED <<list_vars, watcher>>
       /\ UNCHANGED acquirer

\* m_finish_event.Wait.
Wait(c) ==
    LET t == arg[c].task
    IN /\ pc[c] = "finish"
       /\ pc' = [pc EXCEPT ![c] =
                    IF task[t].finish THEN "release"
                    ELSE IF \E d \in Clients : pc[d] = "asleep" /\ arg[d].task = t THEN "late"
                    ELSE "asleep"]
       /\ UNCHANGED <<list_vars, acquirer, task, watcher, arg>>

ReleaseReference(c) ==
    /\ pc[c] = "release"
    /\ Release(arg[c].watcher, watcher[arg[c].watcher], task)
    /\ pc' = [pc EXCEPT ![c] = "idle"]
    /\ arg' = [arg EXCEPT ![c].task = None, ![c].watcher = None]
    /\ UNCHANGED acquirer
-----------------------------------------------------------------------------
Proceed(c) == \/ AcquireTaskImpl(c) \/ WaitForAvailable(c) \/ SwapLists(c) \/ SetWatcher(c)
              \/ PushTask(c) \/ Reference(c) \/ Check(c) \/ Wait(c) \/ ReleaseReference(c)
Next == \/ \E t \in Tasks : Execute(t) \/ Finish(t)
        \/ \E c \in Clients : ScheduleTask(c) \/ Watch(c) \/ Proceed(c)

\* The queue's threads run what is queued; nobody has to make a call.
Fairness == /\ \A t \in Tasks : WF_vars(Execute(t) \/ Finish(t))
            /\ \A c \in Clients : WF_vars(Proceed(c))
Spec == Init /\ [][Next]_vars /\ Fairness
-----------------------------------------------------------------------------
TypeOK == /\ m_list_index \in 0 .. 1
          /\ \A w \in Watchers : watcher[w].refs \in Nat /\ watcher[w].task \in Tasks \cup {None}

Scheduled(t) == task[t].at # "idle" \/ \E c \in Clients : pc[c] \in {"watch", "push"} /\ arg[c].task = t
\* Every task is in one of the lists, or being scheduled, or kept by a watcher:
\* none is lost and none is given out twice.
TaskHasOneHome ==
    /\ \A t \in Tasks : (Free(t) \/ Scheduled(t) \/ \E w \in Watchers : watcher[w].task = t)
                        /\ ~(Free(t) /\ Scheduled(t))
    /\ Len(m_task_list[0]) + Len(m_task_list[1]) = Cardinality({t \in Tasks : Free(t)})

Waits(c) == pc[c] \in {"finish", "asleep", "late", "release"} /\ arg[c].task # None
\* The task somebody waits for through a watcher is the watcher's until the wait
\* is over.  A task whose watcher was told of its end is not free before all have
\* let go of the watcher: only one that could not be pushed is free and watched.
WatchedTaskIsKept ==
    /\ \A c \in Clients : Waits(c) => watcher[arg[c].watcher].task = arg[c].task
    /\ \A t \in Tasks : Free(t) /\ task[t].watcher # None => watcher[task[t].watcher].state = "Pending"

\* A call to ScheduleTask that has to wait for a task gets one.
AcquireReturns == \A c \in Clients : pc[c] = "available" ~> pc[c] = "watch"
=============================================================================
