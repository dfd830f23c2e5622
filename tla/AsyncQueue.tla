----------------------------- MODULE AsyncQueue -----------------------------
(* async::AsyncQueue with its AsyncTasks and AsyncQueueThreads.  What a      *)
(* thread does under m_queue_mutex is one step.  The clients are native      *)
(* threads: of those who wait for a ServiceEvent the first leaves at the     *)
(* signal, and who comes while it waits never does (ServiceEvent): it is     *)
(* "late".  A message ring keeps the contents of its slots, since            *)
(* TryPeekMessage also reads those that hold no message; the buffer starts   *)
(* uninitialised.                                                            *)
(*                                                                           *)
(* PushTask looks whether a task is linked, outside of the lock, and not     *)
(* whether it runs or is about to be linked.  A task that is pushed then is  *)
(* "tangled", and what is said of the others is not said of it.  Once it is  *)
(* in the list twice the list is a loop, and nothing is said any more.       *)
(* Levels that do not exist are not pushed to.                               *)
EXTENDS Integers, Sequences, FiniteSets, SequencesExt

CONSTANTS Tasks, Workers, Clients,
          Levels,       \* the priority levels, 0 .. n
          Slots,        \* the messages a thread's ring holds (8 in the code)
          Calls,        \* the calls the clients make
          MaxPushes,    \* bound: the pushes
          MaxCalls,     \* bound: the other calls a client makes
          Width,        \* m_task_count counts modulo this (2^32 in the code)
          Garbage,      \* what the memory of a new ring may hold
          NoTask

VARIABLES m_task_list, async_task_head, m_task_count,
          m_all_task_complete_event, priority_cleared_event,
          task,      \* the fields of the tasks
          thread,    \* the fields of the queue threads, with their rings
          pc, arg,   \* where a thread is, and what it is working on
          pushes, told,
          tangled    \* the tasks pushed while somebody had them

vars == <<m_task_list, async_task_head, m_task_count, m_all_task_complete_event,
          priority_cleared_event, task, thread, pc, arg, pushes, told, tangled>>
queue_vars == <<m_task_list, async_task_head, m_task_count>>
event_vars == <<m_all_task_complete_event, priority_cleared_event>>

Threads == Workers \cup Clients
Msgs == {"Resume", "Suspend"}
Slot0 == 0 .. Slots - 1

\* Never assigned after the constructor, whatever level the task is pushed to.
m_priority(t) == 0

NewTask == [status |-> "Uninitialized", signal |-> FALSE, cancelled |-> FALSE,
            finish |-> FALSE, handlers |-> {}]
NewThread(garbage) ==
    [is_finished |-> TRUE, is_suspended |-> FALSE, status |-> "Active", current |-> NoTask,
     suspend_event |-> TRUE, slot |-> [i \in Slot0 |-> garbage], offset |-> 0, count |-> 0]

Initialize == /\ m_task_list = <<>>
              /\ async_task_head = [p \in Levels |-> NoTask]
              /\ m_task_count = 0
              /\ m_all_task_complete_event = FALSE
              /\ priority_cleared_event = [p \in Levels |-> TRUE]

Init == /\ Initialize
        /\ task = [t \in Tasks |-> NewTask]
        /\ \E garbage \in Garbage : thread = [w \in Workers |-> NewThread(garbage)]
        /\ pc = [th \in Threads |-> IF th \in Workers THEN "receive" ELSE "idle"]
        /\ arg = [th \in Threads |-> [task |-> NoTask, level |-> 0, sync |-> FALSE, calls |-> 0]]
        /\ pushes = [t \in Tasks |-> 0]
        /\ told = [t \in Tasks |-> 0]
        /\ tangled = {}

-----------------------------------------------------------------------------
\* The message rings.
Put(r, m, front) ==
    LET off == IF front THEN (r.offset + Slots - 1) % Slots ELSE r.offset
        at == IF front THEN off ELSE (r.offset + r.count) % Slots
    IN [r EXCEPT !.slot[at] = m, !.offset = off, !.count = @ + 1]
Take(r) == [r EXCEPT !.offset = (@ + 1) % Slots, !.count = @ - 1]
\* Answers, and writes, only when no message is pending.
TryPeekMessage(r, other) == IF r.count = 0 THEN r.slot[r.offset] ELSE other

\* The list and its heads.
IsLinked(t) == t \in ToSet(m_task_list)
After(list, t) == LET i == CHOOSE j \in DOMAIN list : list[j] = t
                  IN IF t \notin ToSet(list) THEN t      \* linked to itself
                     ELSE IF i = Len(list) THEN NoTask ELSE list[i + 1]
\* Mutant: the head moves on to a task of another level only.
NewHead_Other(t, level) == LET n == After(m_task_list, t)
                           IN IF n = NoTask \/ m_priority(n) = level THEN NoTask ELSE n
\* Mutant: the head stays at the task that is taken.
NewHead_Same(t, level) == t
NewHead(t, level) == LET n == After(m_task_list, t)
                     IN IF n = NoTask \/ m_priority(n) # level THEN NoTask ELSE n
Unlinked(list, t) == RemoveFirst(list, t)

UpdateAllTaskCompletion(all, th) == all \/ \A w \in Workers : th[w].is_finished
UpdatePriorityLevelCompletion(cleared, th, head) ==
    [p \in Levels |-> \/ cleared[p]
                      \/ /\ head[p] = NoTask
                         /\ \A w \in Workers : th[w].current = NoTask
                                               \/ m_priority(th[w].current) # p]
UpdateCompletion(cleared, th, head) ==
    /\ m_all_task_complete_event' = UpdateAllTaskCompletion(m_all_task_complete_event, th)
    /\ priority_cleared_event' = UpdatePriorityLevelCompletion(cleared, th, head)

\* Where c goes that finds an event cleared: others may wait for it already.
Others(c, places) == {d \in Clients \ {c} : pc[d] \in places}
WaitsForFinish(c, t) == IF \E d \in Others(c, {"finish"}) : arg[d].task = t THEN "late" ELSE "finish"
WaitsForLevel(c, p) == IF \E d \in Others(c, {"cleared"}) : arg[d].level = p THEN "late" ELSE "cleared"
WaitsForThread(c, w, place) ==
    IF \E d \in Others(c, {"suspending", "suspended"}) : arg[d].task = w THEN "late" ELSE place

\* Who waits for the m_finish_event of one of the tasks goes on, and who waits for
\* the events that are signaled then.
GoesOn(th, done, at) ==
    \/ at[th] = "finish" /\ arg[th].task \in done
    \/ at[th] = "cleared" /\ priority_cleared_event'[arg[th].level]
    \/ at[th] = "all" /\ m_all_task_complete_event'
Released(done, at) == [th \in Threads |-> IF GoesOn(th, done, at) THEN "idle" ELSE at[th]]

\* AsyncTask::Cancel, of a task that waits in the queue.  Mutant: the functions
\* are kept, and a later end of the task calls one again.
Cancel_Stay(x) == [x EXCEPT !.status = "Cancelled",
                            !.cancelled = x.cancelled /\ ~x.signal,
                            !.finish = x.finish \/ x.signal]
Cancel(x) == [x EXCEPT !.status = "Cancelled", !.handlers = {},
                       !.cancelled = x.cancelled /\ ~x.signal, !.finish = x.finish \/ x.signal]
Told(done) == told' = [t \in Tasks |-> told[t] + IF t \in done /\ "cancel" \in task[t].handlers
                                                  THEN 1 ELSE 0]
\* Mutant: the task is not told to signal its end.
CancelWhileActive_NoSignal(x) == [x EXCEPT !.finish = FALSE, !.cancelled = TRUE]
CancelWhileActive(x) == [x EXCEPT !.finish = FALSE, !.signal = TRUE, !.cancelled = TRUE]

-----------------------------------------------------------------------------
\* The queue threads.

ReleaseSuspenders(w, at) ==
    [th \in Threads |-> IF at[th] = "suspended" /\ arg[th].task = w THEN "idle"
                        ELSE IF at[th] = "suspending" /\ arg[th].task = w THEN "jam" ELSE at[th]]

\* What a message does to the thread that takes it.
Received(r, suspend, resume, runs) ==
    [Take(r) EXCEPT !.is_suspended = (@ \/ suspend) /\ ~resume,
                    !.suspend_event = @ \/ suspend \/ resume,
                    !.is_finished = IF runs THEN FALSE ELSE @]

\* ThreadBase::Run takes a message and calls ThreadMain.
ThreadMain(w) ==
    LET m == thread[w].slot[thread[w].offset]
        suspend == ~thread[w].is_suspended /\ m = "Suspend"
        resume == thread[w].is_suspended /\ m = "Resume"
        runs == resume \/ (~thread[w].is_suspended /\ ~suspend)
        at == IF suspend \/ resume THEN ReleaseSuspenders(w, pc) ELSE pc
    IN /\ pc[w] = "receive" /\ thread[w].count > 0
       /\ thread' = [thread EXCEPT ![w] = Received(@, suspend, resume, runs)]
       /\ pc' = [at EXCEPT ![w] = IF runs THEN "acquire" ELSE "receive"]
       /\ UNCHANGED <<queue_vars, event_vars, task, arg, pushes, told, tangled>>

NextLevel(p) == /\ async_task_head[p] # NoTask
                /\ \A q \in Levels : q > p => async_task_head[q] = NoTask

AcquireNextTask(w) ==
    \/ \E p \in Levels :
        LET t == async_task_head[p]
        IN /\ NextLevel(p)
           /\ ~(m_task_count = 0 /\ \A v \in Workers : thread[v].is_finished)
           /\ async_task_head' = [async_task_head EXCEPT ![p] = NewHead(t, p)]
           /\ m_task_list' = Unlinked(m_task_list, t)
           /\ m_task_count' = (m_task_count - 1) % Width
           /\ task' = [task EXCEPT ![t].status = "Acquired"]
           /\ thread' = [thread EXCEPT ![w].current = t]
           /\ m_all_task_complete_event' = IF m_task_count = 0
                  THEN UpdateAllTaskCompletion(m_all_task_complete_event, thread)
                  ELSE m_all_task_complete_event
           /\ pc' = [Released({}, pc) EXCEPT ![w] = "execute"]
    \/ /\ \/ \A p \in Levels : async_task_head[p] = NoTask
          \/ m_task_count = 0 /\ \A v \in Workers : thread[v].is_finished
       /\ m_all_task_complete_event' = IF m_task_count = 0
              THEN UpdateAllTaskCompletion(m_all_task_complete_event, thread)
              ELSE m_all_task_complete_event
       /\ thread' = [thread EXCEPT ![w].current = NoTask]
       /\ pc' = [Released({}, pc) EXCEPT ![w] = "finished"]
       /\ UNCHANGED <<queue_vars, task>>

Acquire(w) == /\ pc[w] = "acquire"
              /\ UNCHANGED <<priority_cleared_event, arg, pushes, told, tangled>>
              /\ AcquireNextTask(w)

\* Mutant: the functions are cleared only by a cancel.
Taken_Keep(h) == h
Taken(h) == {}

\* Invoke up to the result function: Execute and PostExecute.
Execute(w) ==
    /\ pc[w] = "execute"
    /\ task' = [task EXCEPT ![thread[w].current].status = "PostExecute"]
    /\ pc' = [pc EXCEPT ![w] = "result"]
    /\ UNCHANGED <<queue_vars, event_vars, thread, arg, pushes, told, tangled>>

\* PushTask up to the lock: nothing of this is guarded.
SetupTask(x, sync, skip) == [x EXCEPT !.handlers = {"result", "cancel"}, !.signal = sync \/ ~skip]
Pushed == MapThenSumSet(LAMBDA t : pushes[t], Tasks)

\* The result function is called once; it may have pushed the task again, if it
\* is not linked, and then answers ResultRescheduled.
Result(w) ==
    LET t == thread[w].current
        tells == "result" \in task[t].handlers
    IN /\ pc[w] = "result"
       /\ told' = [told EXCEPT ![t] = @ + IF tells THEN 1 ELSE 0]
       /\ \/ /\ task' = [task EXCEPT ![t].handlers = Taken(@)]
             /\ pc' = [pc EXCEPT ![w] = "free"]
             /\ UNCHANGED <<arg, pushes>>
          \/ /\ tells /\ "reschedule" \in Calls /\ Pushed < MaxPushes /\ ~IsLinked(t)
             /\ \E skip \in BOOLEAN : task' = [task EXCEPT ![t] = SetupTask(@, FALSE, skip)]
             /\ pushes' = [pushes EXCEPT ![t] = @ + 1]
             /\ pc' = [pc EXCEPT ![w] = "insert"]
             /\ arg' = [arg EXCEPT ![w].task = t, ![w].level = 0, ![w].sync = FALSE]
       /\ UNCHANGED <<queue_vars, event_vars, thread, tangled>>

\* Mutant: nobody is told of the end.
InvokeFreeExecute_NoSignal(x) == [x EXCEPT !.status = "Complete"]
InvokeFreeExecute(x) ==
    [x EXCEPT !.status = "Complete", !.cancelled = x.cancelled /\ ~x.signal,
              !.finish = x.finish \/ x.signal]

\* The end of ThreadMain's turn; the message it peeks at is not the exit one.
Free(w) ==
    LET t == thread[w].current
        rescheduled == arg[w].task = t
    IN /\ pc[w] = "free"
       /\ task' = IF rescheduled THEN task ELSE [task EXCEPT ![t] = InvokeFreeExecute(@)]
       /\ UpdateCompletion(priority_cleared_event, thread, async_task_head)
       /\ LET done == IF task'[t].finish THEN {t} ELSE {}
          IN pc' = [Released(done, pc) EXCEPT ![w] = "acquire"]
       /\ arg' = [arg EXCEPT ![w].task = NoTask]
       /\ UNCHANGED <<queue_vars, thread, pushes, told, tangled>>

Finished(w) ==
    /\ pc[w] = "finished"
    /\ thread' = [thread EXCEPT ![w].is_finished = TRUE]
    /\ pc' = [pc EXCEPT ![w] = "receive"]
    /\ UNCHANGED <<queue_vars, event_vars, task, arg, pushes, told, tangled>>

-----------------------------------------------------------------------------
\* AsyncTask::PushTask, by a client or by a task's result function.
Call(c, what) == /\ pc[c] = "idle" /\ what \in Calls /\ arg[c].calls < MaxCalls

Busy(t) == \/ task[t].status \notin {"Uninitialized", "Cancelled", "Complete"}
           \/ \E th \in Threads : pc[th] = "insert" /\ arg[th].task = t

PushTask(c) ==
    \E t \in Tasks, p \in Levels, sync, skip \in BOOLEAN :
        /\ pc[c] = "idle" /\ "push" \in Calls /\ Pushed < MaxPushes
        /\ ~IsLinked(t)
        /\ tangled' = IF Busy(t) THEN tangled \cup {t} ELSE tangled
        /\ task' = [task EXCEPT ![t] = SetupTask(@, sync, skip)]
        /\ pushes' = [pushes EXCEPT ![t] = @ + 1]
        /\ pc' = [pc EXCEPT ![c] = "insert"]
        /\ arg' = [arg EXCEPT ![c].task = t, ![c].level = p, ![c].sync = sync]
        /\ UNCHANGED <<queue_vars, event_vars, thread, told>>

Below(p) == {q \in Levels : q < p /\ async_task_head[q] # NoTask}
Highest(S) == CHOOSE q \in S : \A r \in S : r <= q
\* IntrusiveListNode::LinkNext: right behind the head of the lower level.
Behind(list, h, t) == LET i == CHOOSE j \in DOMAIN list : list[j] = h
                      IN IF h \in ToSet(list) THEN InsertAt(list, i + 1, t) ELSE list
InsertTask(t, p, list) == IF Below(p) = {} THEN Append(list, t)
                          ELSE Behind(list, async_task_head[Highest(Below(p))], t)

Insert(th) ==
    LET t == arg[th].task
        p == arg[th].level
    IN /\ pc[th] = "insert"
       /\ m_task_list' = InsertTask(t, p, m_task_list)
       /\ priority_cleared_event' = IF Below(p) = {} THEN [priority_cleared_event EXCEPT ![p] = FALSE]
                                    ELSE priority_cleared_event
       /\ m_task_count' = (m_task_count + 1) % Width
       /\ async_task_head' = [async_task_head EXCEPT ![p] = IF @ = NoTask THEN t ELSE @]
       /\ task' = [task EXCEPT ![t].status = "Queued"]
       /\ m_all_task_complete_event' = (m_all_task_complete_event /\ m_task_count # 0)
       /\ pc' = [pc EXCEPT ![th] = "resume"]
       /\ UNCHANGED <<thread, arg, pushes, told, tangled>>

\* One turn of the loop that sends Resume to the other threads: again while
\* the ring of one of them is full.
Skipped(th, w) == th = w \/ TryPeekMessage(thread[w], "nothing") \in Msgs
ResumeThreads(th) ==
    /\ pc[th] = "resume"
    /\ thread' = [w \in Workers |-> IF Skipped(th, w) \/ thread[w].count = Slots THEN thread[w]
                                    ELSE Put(thread[w], "Resume", FALSE)]
    /\ pc' = [pc EXCEPT ![th] =
                 IF \E w \in Workers : ~Skipped(th, w) /\ thread[w].count = Slots THEN "resume"
                 ELSE IF th \in Workers THEN "free"
                 ELSE IF arg[th].sync /\ ~task[arg[th].task].finish
                 THEN WaitsForFinish(th, arg[th].task) ELSE "idle"]
    /\ UNCHANGED <<queue_vars, event_vars, task, arg, pushes, told, tangled>>

-----------------------------------------------------------------------------
\* The other calls of a client.

\* Under the lock; the wait for the finish event is the next step.
CancelTask(c) ==
    \E t \in Tasks :
        /\ Call(c, "cancel") /\ pushes[t] > 0
        /\ arg' = [arg EXCEPT ![c].task = t, ![c].calls = @ + 1]
        /\ \/ /\ task[t].status \in {"Complete", "Cancelled", "Uninitialized"}
              /\ UNCHANGED <<queue_vars, event_vars, task, pc, told>>
           \/ LET p == m_priority(t)
                  head == [async_task_head EXCEPT ![p] = IF @ = t THEN NewHead(t, p) ELSE @]
              IN /\ task[t].status = "Queued"
                 /\ async_task_head' = head
                 /\ m_task_list' = Unlinked(m_task_list, t)
                 /\ task' = [task EXCEPT ![t] = Cancel(@)]
                 /\ Told({t})
                 /\ UpdateCompletion(priority_cleared_event, thread, head)
                 /\ pc' = Released(IF task'[t].finish THEN {t} ELSE {}, pc)
                 /\ UNCHANGED m_task_count
           \/ /\ task[t].status \in {"Acquired", "PostExecute"}
              /\ task' = [task EXCEPT ![t] = CancelWhileActive(@)]
              /\ pc' = [pc EXCEPT ![c] = "finishing"]
              /\ UNCHANGED <<queue_vars, event_vars, told>>
        /\ UNCHANGED <<thread, pushes, tangled>>

\* m_finish_event.Wait: after CancelTask, or AsyncTask::Wait.
Wait(c) ==
    /\ \/ pc[c] = "finishing" /\ UNCHANGED arg
       \/ \E t \in Tasks : /\ Call(c, "wait") /\ pushes[t] > 0
                           /\ arg' = [arg EXCEPT ![c].task = t, ![c].calls = @ + 1]
    /\ pc' = [pc EXCEPT ![c] = IF task[arg'[c].task].finish THEN "idle"
                              ELSE WaitsForFinish(c, arg'[c].task)]
    /\ UNCHANGED <<queue_vars, event_vars, task, thread, pushes, told, tangled>>

\* The tasks from the level's head on, as far as their m_priority agrees.
OnLevel(p) ==
    LET list == m_task_list
        at == CHOOSE j \in DOMAIN list : list[j] = async_task_head[p]
    IN IF async_task_head[p] \notin ToSet(list) THEN {}
       ELSE {list[i] : i \in {j \in at .. Len(list) : \A k \in at .. j : m_priority(list[k]) = p}}

CancelPriorityLevel(c) ==
    \E p \in Levels :
        LET gone == OnLevel(p)
            busy == {thread[w].current : w \in Workers} \ {NoTask}
            active == {t \in busy : m_priority(t) = p}
            head == [async_task_head EXCEPT ![p] = NoTask]
        IN /\ Call(c, "level")
           /\ m_task_list' = SelectSeq(m_task_list, LAMBDA t : t \notin gone)
           /\ m_task_count' = (m_task_count - Cardinality(gone)) % Width
           /\ async_task_head' = head
           /\ task' = [t \in Tasks |->
                          LET x == IF t \in gone THEN Cancel(task[t]) ELSE task[t]
                          IN IF t \in active THEN CancelWhileActive(x) ELSE x]
           /\ Told(gone)
           /\ UpdateCompletion(IF active = {} THEN priority_cleared_event
                               ELSE [priority_cleared_event EXCEPT ![p] = FALSE], thread, head)
           /\ pc' = [Released({t \in gone : Cancel(task[t]).finish}, pc) EXCEPT
                        ![c] = IF active = {} THEN "idle" ELSE "clearing"]
           /\ arg' = [arg EXCEPT ![c].level = p, ![c].calls = @ + 1]
           /\ UNCHANGED <<thread, pushes, tangled>>

\* priority_cleared_event.Wait, once the lock is free.
WaitCleared(c) ==
    /\ pc[c] = "clearing"
    /\ pc' = [pc EXCEPT ![c] = IF priority_cleared_event[arg[c].level] THEN "idle"
                              ELSE WaitsForLevel(c, arg[c].level)]
    /\ UNCHANGED <<queue_vars, event_vars, task, thread, arg, pushes, told, tangled>>

\* Returns at once while the level holds a task; it looks without the lock.
WaitForPriorityLevel(c) ==
    \E p \in Levels :
        /\ Call(c, "waitlevel")
        /\ arg' = [arg EXCEPT ![c].level = p, ![c].calls = @ + 1]
        /\ pc' = [pc EXCEPT ![c] = IF async_task_head[p] # NoTask THEN "idle" ELSE "clearing"]
        /\ UNCHANGED <<queue_vars, event_vars, task, thread, pushes, told, tangled>>

WaitForAll(c) ==
    /\ Call(c, "waitall")
    /\ pc' = [pc EXCEPT ![c] = IF m_all_task_complete_event THEN "idle"
                              ELSE IF Others(c, {"all"}) # {} THEN "late" ELSE "all"]
    /\ arg' = [arg EXCEPT ![c].calls = @ + 1]
    /\ UNCHANGED <<queue_vars, event_vars, task, thread, pushes, told, tangled>>

\* AsyncQueueThread::Suspend and Resume: the status, then the event, then a
\* message in front of the others and the event again.
ChangeStatus(c) ==
    \E w \in Workers, to \in {"Suspended", "Active"} :
        LET changes == thread[w].status # to
        IN /\ Call(c, "suspend")
           /\ thread' = [thread EXCEPT ![w].status = to]
           /\ arg' = [arg EXCEPT ![c].task = w, ![c].calls = @ + 1]
           /\ pc' = [pc EXCEPT ![c] =
                        IF ~thread[w].suspend_event
                        THEN WaitsForThread(c, w, IF changes THEN "suspending" ELSE "suspended")
                        ELSE IF changes THEN "jam" ELSE "idle"]
           /\ UNCHANGED <<queue_vars, event_vars, task, pushes, told, tangled>>

Jammed(r) == [Put(r, IF r.status = "Suspended" THEN "Suspend" ELSE "Resume", TRUE)
                 EXCEPT !.suspend_event = FALSE]
JamMessage(c) ==
    LET w == arg[c].task
    IN /\ pc[c] = "jam" /\ thread[w].count < Slots
       /\ thread' = [thread EXCEPT ![w] = Jammed(@)]
       /\ pc' = [pc EXCEPT ![c] = WaitsForThread(c, w, "suspended")]
       /\ UNCHANGED <<queue_vars, event_vars, task, arg, pushes, told, tangled>>

\* m_priority keeps its value, so that only a level other than 0 changes anything.
ChangePriority(c) ==
    \E t \in Tasks, p \in Levels :
        LET old == m_priority(t)
            next == After(m_task_list, t)
            head == [async_task_head EXCEPT ![old] =
                        IF @ # t THEN @ ELSE IF IsLinked(t) /\ next # NoTask THEN next ELSE NoTask]
        IN /\ Call(c, "priority") /\ pushes[t] > 0 /\ p # old
           /\ arg' = [arg EXCEPT ![c].calls = @ + 1]
           /\ LET below == {q \in Levels : q < p /\ head[q] # NoTask}
              IN /\ m_task_list' = IF below = {} THEN Append(Unlinked(m_task_list, t), t)
                                   ELSE Behind(Unlinked(m_task_list, t), head[Highest(below)], t)
                 /\ priority_cleared_event' =
                        IF below = {} THEN [priority_cleared_event EXCEPT ![p] = FALSE]
                        ELSE priority_cleared_event
           /\ async_task_head' = [head EXCEPT ![p] = IF @ = NoTask THEN t ELSE @]
           /\ UNCHANGED <<m_task_count, m_all_task_complete_event, task, thread, pc, pushes, told, tangled>>

-----------------------------------------------------------------------------
\* The list is one: a task linked twice makes it a loop.
Sane == IsInjective(m_task_list)

Worker(w) == Sane /\ (\/ ThreadMain(w) \/ Acquire(w) \/ Execute(w) \/ Result(w)
                      \/ Free(w) \/ Finished(w) \/ Insert(w) \/ ResumeThreads(w))
\* What a client does once it has made its call.
Proceed(c) == Sane /\ (\/ Insert(c) \/ ResumeThreads(c) \/ WaitCleared(c) \/ JamMessage(c)
                       \/ (pc[c] = "finishing" /\ Wait(c)))
Calling(c) == Sane /\ (\/ PushTask(c) \/ CancelTask(c) \/ Wait(c)
                     \/ CancelPriorityLevel(c) \/ WaitForPriorityLevel(c) \/ WaitForAll(c)
                     \/ ChangeStatus(c) \/ ChangePriority(c))
Next == \/ \E w \in Workers : Worker(w)
        \/ \E c \in Clients : Proceed(c) \/ Calling(c)

\* The kernel schedules every runnable thread; nobody has to make a call.
Fairness == /\ \A w \in Workers : WF_vars(Worker(w))
            /\ \A c \in Clients : WF_vars(Proceed(c))
Spec == Init /\ [][Next]_vars /\ Fairness

-----------------------------------------------------------------------------
TypeOK == /\ m_task_list \in Seq(Tasks)
          /\ async_task_head \in [Levels -> Tasks \cup {NoTask}]
          /\ m_task_count \in 0 .. Width - 1
          /\ \A w \in Workers : thread[w].count \in 0 .. Slots /\ thread[w].offset \in Slot0

\* A queued task is linked once and reached from its level's head, and no other
\* is linked: neither a cancelled task nor one that a thread runs (:198).  Of the
\* tasks that are tangled it says that they alone can be linked twice.
QueuedTaskIsReachable ==
    /\ \A t \in Tasks \ tangled : task[t].status = "Queued" <=> IsLinked(t)
    /\ \A i, j \in DOMAIN m_task_list : m_task_list[i] = m_task_list[j] /\ i # j => m_task_list[i] \in tangled
    /\ Sane => \A t \in Tasks \ tangled : task[t].status = "Queued"
          => \E p \in Levels : LET list == m_task_list IN
                /\ IsLinked(async_task_head[p])
                /\ (CHOOSE i \in DOMAIN list : list[i] = async_task_head[p])
                      <= (CHOOSE i \in DOMAIN list : list[i] = t)

Running(w) == pc[w] \in {"execute", "result", "free"} /\ arg[w].task = NoTask
\* A task that was pushed while nobody had it is run by one thread at a time, from
\* Acquire to Free.
RunnerOwnsTask ==
    \A w \in Workers : Running(w) /\ thread[w].current \notin tangled =>
        /\ task[thread[w].current].status \in {"Acquired", "PostExecute"}
        /\ \A v \in Workers \ {w} : Running(v) => thread[v].current # thread[w].current

\* Each push of such a task ends in one call of the result function or of the
\* cancel function, whatever the order of cancelling and running.
OneOutcomePerPush ==
    \A t \in Tasks \ tangled : pushes[t] = told[t] + IF "result" \in task[t].handlers THEN 1 ELSE 0

\* Once all the pushes have sent their messages a queued task has a thread
\* that will come and look: "Resume threads" (async_asynctask.cpp:227).
ThreadsAreResumed ==
    (m_task_list # <<>> /\ \A th \in Threads : pc[th] \notin {"insert", "resume"})
        => \E w \in Workers : pc[w] # "receive" \/ thread[w].count > 0 \/ thread[w].is_suspended

\* CancelTask of a task that is being run comes back, unless it comes second.
CancelReturns ==
    \A c \in Clients : pc[c] = "finishing" ~> pc[c] \in {"idle", "late"} \/ arg[c].task \in tangled
=============================================================================
