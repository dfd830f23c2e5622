---------------------------- MODULE TasksProofs ----------------------------
(* The tasks of an AsyncTaskAllocator have one home each, for any number of *)
(* callers, tasks and watchers; and the requests of AsyncSaveManager are     *)
(* carried out once each and with their own arguments.                       *)
EXTENDS MCTasks, FiniteSetTheorems, SequenceTheorems, TLAPS

-----------------------------------------------------------------------------
(* AsyncTaskAllocator. *)

Places == {"idle", "acquire", "available", "swap", "watch", "push",
           "reference", "check", "finish", "asleep", "late", "release"}
\* A caller that refers to a watcher, and one that has looked for its task.
Refers == {"check", "finish", "asleep", "late", "release"}
Waiting == {"finish", "asleep", "late", "release"}
AlType ==
    /\ a_m_list_index \in 0 .. 1
    /\ a_m_task_list \in [0 .. 1 -> Seq(Tasks)]
    /\ a_task \in [Tasks -> [at : {"idle", "queued", "running"}, watcher : Watchers \cup {None},
                             finish : BOOLEAN]]
    /\ a_watcher \in [Watchers -> [state : {"Uninitialized", "Pending", "Complete", "Cancelled"},
                                   refs : Nat, task : Tasks \cup {None}]]
    /\ a_pc \in [Callers -> Places]
    /\ a_arg \in [Callers -> [task : Tasks \cup {None}, watcher : Watchers \cup {None},
                              cancel : BOOLEAN, calls : Nat]]

\* No task is linked twice.
Once(lists) ==
    \A i, j \in 0 .. 1 : \A k \in DOMAIN lists[i], l \in DOMAIN lists[j] :
        lists[i][k] = lists[j][l] => i = j /\ k = l
Linked(lists, t) == \E i \in 0 .. 1 : \E k \in DOMAIN lists[i] : lists[i][k] = t

\* Where a task can be besides: with the caller that acquired it, in the queue,
\* or with the watcher that keeps it.
Acquired(c, t) == a_pc[c] \in {"watch", "push"} /\ a_arg[c].task = t
TaskInv(t) ==
    /\ a_task[t].at # "idle" => ~Al!Free(t)
    /\ \A c \in Callers : Acquired(c, t) => a_task[t].at = "idle" /\ ~Al!Free(t)
    /\ \A c, d \in Callers : Acquired(c, t) /\ Acquired(d, t) => c = d
    /\ a_task[t].watcher # None => a_watcher[a_task[t].watcher].task = t
    /\ Al!Free(t) \/ Al!Scheduled(t) \/ a_task[t].watcher # None

\* The references of a watcher are the callers that use it and the task's
\* own, from SetWatcher to its end.
Users(w) == {c \in Callers : a_pc[c] \in Refers /\ a_arg[c].watcher = w}
Own(w) == IF a_watcher[w].task # None /\ a_watcher[w].state = "Pending" THEN 1 ELSE 0
WatcherInv(w) ==
    /\ a_watcher[w].refs = Cardinality(Users(w)) + Own(w)
    /\ LET t == a_watcher[w].task
       IN t # None => /\ a_task[t].watcher = w /\ a_watcher[w].refs > 0
                      /\ a_watcher[w].state \in {"Pending", "Complete", "Cancelled"}
                      /\ Al!Free(t) \/ Al!Scheduled(t) => a_watcher[w].state = "Pending"

CallerInv(c) ==
    LET w == a_arg[c].watcher
    IN /\ a_pc[c] = "idle" => w = None
       /\ a_pc[c] \in {"acquire", "available", "swap", "watch"} /\ w # None
             => a_watcher[w].task = None /\ \A d \in Callers : a_arg[d].watcher = w => d = c
       /\ a_pc[c] \in {"watch", "push"} => a_arg[c].task # None
       /\ a_pc[c] \in {"reference"} \cup Refers => w # None
       /\ a_pc[c] \in Waiting /\ a_arg[c].task # None => a_watcher[w].task = a_arg[c].task
       /\ a_pc[c] \in {"finish", "asleep", "late"} => a_arg[c].task # None

AlInv == /\ AlType /\ Once(a_m_task_list)
         /\ \A t \in Tasks : TaskInv(t)
         /\ \A w \in Watchers : WatcherInv(w)
         /\ \A c \in Callers : CallerInv(c)

LEMMA FreeIsLinked == \A t : Al!Free(t) <=> Linked(a_m_task_list, t)
BY DEF Al!Free, Al!ToSet, Linked

\* The first task of a list leaves it.
Taken(rest, lists, i, n) ==
    /\ i \in 0 .. 1 /\ n \in Nat /\ n >= 1 /\ Once(lists)
    /\ \A j \in 0 .. 1 : lists[j] \in Seq(Tasks)
    /\ DOMAIN lists[i] = 1 .. n /\ DOMAIN rest[i] = 1 .. n - 1
    /\ \A k \in 1 .. n - 1 : rest[i][k] = lists[i][k + 1]
    /\ \A j \in 0 .. 1 : j # i => rest[j] = lists[j]
LEMMA TakeFirst ==
    ASSUME NEW lists, NEW rest, NEW i, NEW n, Taken(rest, lists, i, n)
    PROVE  Once(rest) /\ \A t : Linked(rest, t) <=> Linked(lists, t) /\ t # lists[i][1]
<1>0. /\ i \in 0 .. 1 /\ n \in Nat /\ n >= 1 /\ Once(lists)
      /\ \A j \in 0 .. 1 : DOMAIN lists[j] \subseteq Nat \ {0}
      /\ DOMAIN lists[i] = 1 .. n /\ DOMAIN rest[i] = 1 .. n - 1
      /\ \A k \in 1 .. n - 1 : rest[i][k] = lists[i][k + 1]
      /\ \A j \in 0 .. 1 : j # i => rest[j] = lists[j]
  <2>1. \A j \in 0 .. 1 : DOMAIN lists[j] = 1 .. Len(lists[j]) /\ Len(lists[j]) \in Nat
    BY DEF Taken
  <2> QED
    BY <2>1 DEF Taken
<1> DEFINE At(j, k) == IF j = i THEN k + 1 ELSE k
<1>1. \A j \in 0 .. 1 : \A k \in DOMAIN rest[j] :
         At(j, k) \in DOMAIN lists[j] /\ lists[j][At(j, k)] = rest[j][k] /\ k \in Nat \ {0}
  <2> SUFFICES ASSUME NEW j \in 0 .. 1, NEW k \in DOMAIN rest[j]
               PROVE  At(j, k) \in DOMAIN lists[j] /\ lists[j][At(j, k)] = rest[j][k] /\ k \in Nat \ {0}
    OBVIOUS
  <2>1. CASE j = i
    BY <1>0, <2>1
  <2>2. CASE j # i
    BY <1>0, <2>2
  <2> QED
    BY <2>1, <2>2
<1>2. \A j \in 0 .. 1 : \A k, l \in Nat \ {0} : (At(j, k) = At(j, l) => k = l) /\ (j = i => At(j, k) # 1)
  OBVIOUS
<1>3. \A j \in 0 .. 1 : \A x \in DOMAIN lists[j] :
         (j # i \/ x # 1) => \E k \in DOMAIN rest[j] : At(j, k) = x /\ rest[j][k] = lists[j][x]
  <2> SUFFICES ASSUME NEW j \in 0 .. 1, NEW x \in DOMAIN lists[j], j # i \/ x # 1
               PROVE  \E k \in DOMAIN rest[j] : At(j, k) = x /\ rest[j][k] = lists[j][x]
    OBVIOUS
  <2>1. CASE j = i
    <3>1. x - 1 \in 1 .. n - 1 /\ (x - 1) + 1 = x
      BY <1>0, <2>1
    <3> QED
      BY <1>0, <2>1, <3>1
  <2>2. CASE j # i
    BY <1>0, <2>2
  <2> QED
    BY <2>1, <2>2
<1>4. 1 \in DOMAIN lists[i]
  BY <1>0
<1> HIDE DEF At
<1>5. Once(rest)
  BY <1>0, <1>1, <1>2 DEF Once
<1>6. \A t : Linked(rest, t) => Linked(lists, t) /\ t # lists[i][1]
  BY <1>0, <1>1, <1>2, <1>4 DEF Once, Linked
<1>7. \A t : Linked(lists, t) /\ t # lists[i][1] => Linked(rest, t)
  BY <1>0, <1>3 DEF Linked
<1> QED
  BY <1>5, <1>6, <1>7

\* A task that was in neither is appended to a list.
Appended(longer, lists, t, i, n) ==
    /\ i \in 0 .. 1 /\ n \in Nat /\ Once(lists) /\ ~Linked(lists, t)
    /\ DOMAIN lists[i] = 1 .. n /\ DOMAIN longer[i] = 1 .. n + 1 /\ longer[i][n + 1] = t
    /\ \A k \in 1 .. n : longer[i][k] = lists[i][k]
    /\ \A j \in 0 .. 1 : j # i => longer[j] = lists[j]
LEMMA PutLast ==
    ASSUME NEW lists, NEW longer, NEW t, NEW i, NEW n, Appended(longer, lists, t, i, n)
    PROVE  Once(longer) /\ \A u : Linked(longer, u) <=> Linked(lists, u) \/ u = t
<1>0. /\ i \in 0 .. 1 /\ n \in Nat /\ Once(lists) /\ ~Linked(lists, t)
      /\ DOMAIN lists[i] = 1 .. n /\ DOMAIN longer[i] = 1 .. n + 1 /\ longer[i][n + 1] = t
      /\ \A k \in 1 .. n : longer[i][k] = lists[i][k]
      /\ \A j \in 0 .. 1 : j # i => longer[j] = lists[j]
  BY DEF Appended
<1>1. \A j \in 0 .. 1 : \A k \in DOMAIN longer[j] :
         \/ k \in DOMAIN lists[j] /\ longer[j][k] = lists[j][k]
         \/ j = i /\ k = n + 1 /\ longer[j][k] = t
  BY <1>0
<1>2. \A j \in 0 .. 1 : \A k \in DOMAIN lists[j] :
         k \in DOMAIN longer[j] /\ longer[j][k] = lists[j][k] /\ lists[j][k] # t
  BY <1>0 DEF Linked
<1>3. n + 1 \in DOMAIN longer[i] /\ longer[i][n + 1] = t
  BY <1>0
<1>4. Once(longer)
  BY <1>0, <1>1, <1>2 DEF Once
<1>5. \A u : Linked(longer, u) <=> Linked(lists, u) \/ u = t
  BY <1>0, <1>1, <1>2, <1>3 DEF Linked
<1> QED
  BY <1>4, <1>5

USE TasksAssumption

LEMMA AlInit == ASSUME Al!Init PROVE AlInv
<1>1. \E f \in [1 .. Cardinality(Tasks) -> Tasks] :
         (\A x, y \in 1 .. Cardinality(Tasks) : f[x] = f[y] => x = y)
         /\ \A t \in Tasks : \E x \in 1 .. Cardinality(Tasks) : f[x] = t
  <2>1. ExistsBijection(1 .. Cardinality(Tasks), Tasks)
    BY FS_CardinalityType
  <2> QED
    BY <2>1 DEF ExistsBijection, Bijection, Injection, Surjection, IsInjective
<1>2. Cardinality(Tasks) \in Nat
  BY FS_CardinalityType
<1>3. PICK f \in [1 .. Cardinality(Tasks) -> Tasks] : Al!IsInjective(f) /\ f = Al!SetToSeq(Tasks)
  <2>1. Al!Cardinality(Tasks) = Cardinality(Tasks)
    BY DEF Al!Cardinality, Cardinality
  <2> QED
    BY <1>1, <2>1 DEF Al!SetToSeq, Al!IsInjective
<1>4. \A t \in Tasks : \E x \in 1 .. Cardinality(Tasks) : f[x] = t
  <2>1. f \in Injection(1 .. Cardinality(Tasks), Tasks)
    BY <1>3 DEF Injection, IsInjective, Al!IsInjective
  <2>2. Cardinality(1 .. Cardinality(Tasks)) = Cardinality(Tasks)
    BY <1>2, FS_Interval
  <2>3. f \in Surjection(1 .. Cardinality(Tasks), Tasks)
    BY <2>1, <2>2, FS_Injection, Zenon
  <2> QED
    BY <2>3 DEF Surjection
<1>5. /\ a_m_task_list = [i \in 0 .. 1 |-> IF i = 0 THEN f ELSE <<>>] /\ a_m_list_index = 0
      /\ a_task = [t \in Tasks |-> [at |-> "idle", watcher |-> None, finish |-> FALSE]]
      /\ a_watcher = [w \in Watchers |-> [state |-> "Uninitialized", refs |-> 0, task |-> None]]
      /\ a_pc = [c \in Callers |-> "idle"]
      /\ a_arg = [c \in Callers |-> [task |-> None, watcher |-> None, cancel |-> FALSE, calls |-> 0]]
  BY <1>3 DEF Al!Init
<1>6. f \in Seq(Tasks) /\ DOMAIN f = 1 .. Cardinality(Tasks)
  BY <1>2
<1>7. AlType
  BY <1>5, <1>6 DEF AlType, Places
<1>8. Once(a_m_task_list)
  BY <1>3, <1>5 DEF Once, Al!IsInjective
<1>9. \A t \in Tasks : Linked(a_m_task_list, t)
  BY <1>4, <1>5, <1>6 DEF Linked
<1>10. ASSUME NEW t \in Tasks PROVE TaskInv(t)
  BY <1>5, <1>9, FreeIsLinked DEF TaskInv, Acquired
<1>11. ASSUME NEW w \in Watchers PROVE WatcherInv(w)
  <2>1. Users(w) = {}
    BY <1>5 DEF Users
  <2> QED
    BY <1>5, <2>1, FS_EmptySet DEF WatcherInv, Own
<1>12. ASSUME NEW c \in Callers PROVE CallerInv(c)
  BY <1>5 DEF CallerInv, Waiting, Refers
<1> QED
  BY <1>7, <1>8, <1>10, <1>11, <1>12 DEF AlInv

LEMMA UsersAreFinite == \A w : IsFiniteSet(Users(w)) /\ Cardinality(Users(w)) \in Nat
<1> SUFFICES ASSUME NEW w PROVE IsFiniteSet(Users(w)) /\ Cardinality(Users(w)) \in Nat
  OBVIOUS
<1>1. Users(w) \in SUBSET Callers
  BY DEF Users
<1> QED
  BY <1>1, FS_Subset, FS_CardinalityType

LEMMA ScheduledIs == \A t : Al!Scheduled(t) <=> a_task[t].at # "idle" \/ \E c \in Callers : Acquired(c, t)
BY DEF Al!Scheduled, Acquired

\* What a step does not touch stays in order: a task, a watcher, a caller.
LEMMA TaskStays ==
    ASSUME NEW t, TaskInv(t), a_task'[t].at = "idle" <=> a_task[t].at = "idle",
           a_task'[t].watcher = a_task[t].watcher,
           Al!Free(t)' <=> Al!Free(t), \A c \in Callers : Acquired(c, t)' <=> Acquired(c, t),
           a_task[t].watcher # None
               => a_watcher'[a_task[t].watcher].task = a_watcher[a_task[t].watcher].task
    PROVE  TaskInv(t)'
<1>1. Al!Scheduled(t)' <=> Al!Scheduled(t)
  <2>1. Al!Scheduled(t)' <=> a_task'[t].at # "idle" \/ \E c \in Callers : Acquired(c, t)'
    BY DEF Al!Scheduled, Acquired
  <2> QED
    BY <2>1, ScheduledIs
<1> QED
  BY <1>1 DEF TaskInv

LEMMA WatcherStays ==
    ASSUME NEW w, WatcherInv(w), a_watcher'[w] = a_watcher[w], Users(w)' = Users(w),
           \A t : t = a_watcher[w].task /\ t # None =>
               /\ a_task'[t].watcher = a_task[t].watcher
               /\ Al!Free(t)' \/ Al!Scheduled(t)' => Al!Free(t) \/ Al!Scheduled(t)
    PROVE  WatcherInv(w)'
<1>1. PICK t : t = a_watcher[w].task
  OBVIOUS
<1>2. Own(w)' = Own(w)
  BY DEF Own
<1>3. /\ a_watcher'[w].refs = Cardinality(Users(w))' + Own(w)'
  BY <1>2 DEF WatcherInv
<1>4. ASSUME t # None
      PROVE  /\ a_task'[t].watcher = w /\ a_watcher'[w].refs > 0
             /\ a_watcher'[w].state \in {"Pending", "Complete", "Cancelled"}
             /\ Al!Free(t)' \/ Al!Scheduled(t)' => a_watcher'[w].state = "Pending"
  BY <1>1, <1>4 DEF WatcherInv
<1> QED
  BY <1>1, <1>3, <1>4 DEF WatcherInv

LEMMA CallerStays ==
    ASSUME NEW c, CallerInv(c), a_pc'[c] = a_pc[c], a_arg'[c] = a_arg[c],
           a_pc[c] \in {"acquire", "available", "swap", "watch"} /\ a_arg[c].watcher # None
             => /\ a_watcher'[a_arg[c].watcher].task = None
                /\ \A d \in Callers : a_arg'[d].watcher = a_arg[c].watcher => d = c,
           a_pc[c] \in Waiting /\ a_arg[c].task # None => a_watcher'[a_arg[c].watcher].task = a_arg[c].task
    PROVE  CallerInv(c)'
<1>1. PICK w : w = a_arg[c].watcher
  OBVIOUS
<1>2. w = a_arg'[c].watcher
  BY <1>1
<1> QED
  BY <1>1, <1>2 DEF CallerInv

\* A caller goes on; the tasks and the watchers keep their places.
LEMMA CallerMoves ==
    ASSUME AlInv, NEW c, AlType', UNCHANGED <<a_m_task_list, a_watcher>>,
           \A t \in Tasks : /\ a_task'[t].at = "idle" <=> a_task[t].at = "idle"
                            /\ a_task'[t].watcher = a_task[t].watcher,
           \A d \in Callers : d # c => a_pc'[d] = a_pc[d] /\ a_arg'[d] = a_arg[d],
           \A t \in Tasks : Acquired(c, t)' <=> Acquired(c, t),
           a_pc[c] \in Refers <=> a_pc'[c] \in Refers,
           a_pc[c] \in Refers => a_arg'[c].watcher = a_arg[c].watcher,
           c \in Callers => CallerInv(c)',
           \/ a_arg'[c].watcher \in {a_arg[c].watcher, None}
           \/ \A d \in Callers : d # c /\ a_arg[d].watcher = a_arg'[c].watcher
                    => a_pc[d] \notin {"acquire", "available", "swap", "watch"}
    PROVE  AlInv'
<1>1. \A t \in Tasks : /\ \A d \in Callers : Acquired(d, t)' <=> Acquired(d, t)
                       /\ Al!Free(t)' <=> Al!Free(t)
  <2>1. \A t \in Tasks : \A d \in Callers : Acquired(d, t)' <=> Acquired(d, t)
    BY DEF Acquired
  <2>2. \A t \in Tasks : Al!Free(t)' <=> Al!Free(t)
    BY DEF Al!Free
  <2> QED
    BY <2>1, <2>2
<1>2. \A t \in Tasks : Al!Scheduled(t)' <=> Al!Scheduled(t)
  <2>1. \A t : Al!Scheduled(t)' <=> a_task'[t].at # "idle" \/ \E d \in Callers : Acquired(d, t)'
    BY DEF Al!Scheduled, Acquired
  <2> QED
    BY <1>1, <2>1, ScheduledIs
<1>3. \A w : Users(w)' = Users(w)
  BY DEF Users
<1>4. Once(a_m_task_list)'
  BY DEF AlInv, Once
<1>5. ASSUME NEW t \in Tasks PROVE TaskInv(t)'
  <2>1. TaskInv(t) /\ (a_task[t].watcher # None
            => a_watcher'[a_task[t].watcher].task = a_watcher[a_task[t].watcher].task)
    BY DEF AlInv
  <2> QED
    BY <1>1, <2>1, TaskStays
<1>6. ASSUME NEW w \in Watchers PROVE WatcherInv(w)'
  <2>1. WatcherInv(w) /\ a_watcher[w].task \in Tasks \cup {None} /\ a_watcher'[w] = a_watcher[w]
    BY DEF AlInv, AlType
  <2>2. ASSUME NEW t, t = a_watcher[w].task, t # None
        PROVE  /\ a_task'[t].watcher = a_task[t].watcher
               /\ Al!Free(t)' <=> Al!Free(t)
               /\ Al!Scheduled(t)' <=> Al!Scheduled(t)
    <3>1. t \in Tasks
      BY <2>1, <2>2
    <3> QED
      BY <3>1, <1>1, <1>2
  <2> QED
    BY <2>1, <2>2, <1>3, WatcherStays
<1>7. ASSUME NEW d \in Callers PROVE CallerInv(d)'
  <2>1. CASE d = c
    BY <2>1
  <2>2. CASE d # c
    <3>1. CallerInv(d) /\ a_pc'[d] = a_pc[d] /\ a_arg'[d] = a_arg[d] /\ a_arg[d].task \in Tasks \cup {None}
      BY <2>2 DEF AlInv, AlType
    <3>2. a_pc[d] \in {"acquire", "available", "swap", "watch"} /\ a_arg[d].watcher # None
             => /\ a_watcher'[a_arg[d].watcher].task = None
                /\ \A e \in Callers : a_arg'[e].watcher = a_arg[d].watcher => e = d
      BY <2>2, <3>1 DEF CallerInv
    <3>4. a_pc[d] \in Waiting /\ a_arg[d].task # None => a_watcher'[a_arg[d].watcher].task = a_arg[d].task
      BY <3>1 DEF CallerInv
    <3> QED
      BY <3>1, <3>2, <3>4, CallerStays
  <2> QED
    BY <2>1, <2>2
<1> QED
  BY <1>4, <1>5, <1>6, <1>7 DEF AlInv

\* A caller keeps what it knows when a task is released, and may wake.
LEMMA CallerKeeps ==
    ASSUME AlInv, NEW c \in Callers, a_arg'[c] = a_arg[c],
           a_pc'[c] = a_pc[c] \/ (a_pc[c] = "asleep" /\ a_pc'[c] = "release"),
           \A d \in Callers : a_arg'[d].watcher \in {a_arg[d].watcher, None},
           \A w \in Watchers : \/ a_watcher'[w].task = a_watcher[w].task
                               \/ a_watcher'[w].task = None /\ Users(w) = {}
    PROVE  CallerInv(c)'
<1>1. CallerInv(c) /\ a_arg[c].watcher \in Watchers \cup {None} /\ a_arg[c].task \in Tasks \cup {None}
  BY DEF AlInv, AlType
<1>2. a_pc[c] \in {"acquire", "available", "swap", "watch"} /\ a_arg[c].watcher # None
         => /\ a_watcher'[a_arg[c].watcher].task = None
            /\ \A d \in Callers : a_arg'[d].watcher = a_arg[c].watcher => d = c
  BY <1>1 DEF CallerInv
<1>4. a_pc[c] \in Waiting /\ a_arg[c].task # None => a_watcher'[a_arg[c].watcher].task = a_arg[c].task
  <2>1. a_pc[c] \in Waiting => c \in Users(a_arg[c].watcher)
    BY DEF Users, Waiting, Refers
  <2>2. a_pc[c] \in Waiting => a_arg[c].watcher \in Watchers
    BY <1>1 DEF CallerInv, Waiting, Refers
  <2> QED
    BY <1>1, <2>1, <2>2 DEF CallerInv
<1>5. CASE a_pc'[c] = a_pc[c]
  BY <1>1, <1>2, <1>4, <1>5, CallerStays
<1>6. CASE a_pc[c] = "asleep" /\ a_pc'[c] = "release"
  BY <1>1, <1>4, <1>6 DEF CallerInv, Waiting, Refers
<1> QED
  BY <1>5, <1>6

\* A task is freed that was in neither list.
LEMMA TaskIsFreed ==
    ASSUME AlInv, NEW t \in Tasks, ~Al!Free(t), Al!FreeTask(t)
    PROVE  /\ a_m_task_list' \in [0 .. 1 -> Seq(Tasks)] /\ Once(a_m_task_list)'
           /\ a_m_list_index' = a_m_list_index
           /\ \A u : Al!Free(u)' <=> Al!Free(u) \/ u = t
<1>1. PICK lists : lists = a_m_task_list
  OBVIOUS
<1>2. PICK longer : longer = a_m_task_list'
  OBVIOUS
<1>3. PICK i \in 0 .. 1 : i = 1 - a_m_list_index
  BY DEF AlInv, AlType
<1>4. longer = [lists EXCEPT ![i] = Append(@, t)] /\ a_m_list_index' = a_m_list_index
  BY <1>1, <1>2, <1>3 DEF Al!FreeTask
<1>5. lists \in [0 .. 1 -> Seq(Tasks)] /\ Once(lists) /\ ~Linked(lists, t)
  BY <1>1, FreeIsLinked DEF AlInv, AlType
<1>6. longer \in [0 .. 1 -> Seq(Tasks)] /\ \A j \in 0 .. 1 : j # i => longer[j] = lists[j]
  BY <1>4, <1>5
<1>11. PICK n \in Nat : n = Len(lists[i])
  BY <1>5
<1>12. /\ DOMAIN lists[i] = 1 .. n /\ DOMAIN longer[i] = 1 .. n + 1 /\ longer[i][n + 1] = t
       /\ \A k \in 1 .. n : longer[i][k] = lists[i][k]
  <2>1. lists[i] \in Seq(Tasks) /\ longer[i] = Append(lists[i], t)
    BY <1>4, <1>5
  <2> QED
    BY <2>1, <1>11
<1>10. Once(longer) /\ \A u : Linked(longer, u) <=> Linked(lists, u) \/ u = t
  <2>1. Appended(longer, lists, t, i, n)
    BY <1>5, <1>6, <1>12 DEF Appended
  <2> QED
    BY <2>1, PutLast
<1>7. \A u : Al!Free(u)' <=> Linked(longer, u)
  BY <1>2 DEF Al!Free, Al!ToSet, Linked
<1>8. \A u : Al!Free(u) <=> Linked(lists, u)
  BY <1>1, FreeIsLinked
<1>9. Once(a_m_task_list)'
  BY <1>2, <1>10
<1> QED
  BY <1>2, <1>4, <1>6, <1>7, <1>8, <1>9, <1>10

\* What ReleaseReference leaves of a watcher with n + 1 references, and of its task.
TaskRecord == [at : {"idle", "queued", "running"}, watcher : Watchers \cup {None}, finish : BOOLEAN]
WatcherRecord == [state : {"Uninitialized", "Pending", "Complete", "Cancelled"},
                  refs : Nat, task : Tasks \cup {None}]
LEMMA Unreferences ==
    ASSUME NEW s, NEW t, NEW n \in Nat
    PROVE  Al!Unreferenced([state |-> s, refs |-> n + 1, task |-> t])
               = [state |-> s, refs |-> n, task |-> IF n = 0 THEN None ELSE t]
<1>1. PICK x : x = [state |-> s, refs |-> n + 1, task |-> t]
  OBVIOUS
<1>2. PICK y : y = IF n = 0 THEN None ELSE t
  OBVIOUS
<1>3. x.refs = n + 1 /\ x.task = t /\ ~(n + 1 < 1) /\ (n + 1) - 1 = n /\ (n + 1 <= 1 <=> n = 0)
  BY <1>1
<1>4. Al!Unreferenced(x) = [x EXCEPT !.refs = n, !.task = y]
  BY <1>2, <1>3 DEF Al!Unreferenced
<1>5. [x EXCEPT !.refs = n, !.task = y] = [state |-> s, refs |-> n, task |-> y]
  <2>1. PICK r : r = [x EXCEPT !.refs = n]
    OBVIOUS
  <2>2. r = [state |-> s, refs |-> n, task |-> t]
    BY <1>1, <2>1
  <2>3. [r EXCEPT !.task = y] = [state |-> s, refs |-> n, task |-> y]
    BY <2>2
  <2>4. [r EXCEPT !.task = y] = [x EXCEPT !.refs = n, !.task = y]
    BY <1>1, <2>1
  <2> QED
    BY <2>3, <2>4
<1> QED
  BY <1>1, <1>2, <1>4, <1>5

LEMMA Releases ==
    ASSUME NEW w, NEW tasks, NEW s, NEW t, NEW n \in Nat,
           Al!Release(w, [state |-> s, refs |-> n + 1, task |-> t], tasks),
           s \in {"Complete", "Cancelled"} \/ n # 0 \/ t = None
    PROVE  /\ a_watcher' = [a_watcher EXCEPT ![w] = [state |-> s, refs |-> n, task |-> IF n = 0 THEN None ELSE t]]
           /\ a_task' = IF t # None /\ n = 0 THEN [tasks EXCEPT ![t].watcher = None] ELSE tasks
           /\ IF t # None /\ n = 0 THEN Al!FreeTask(t)
              ELSE UNCHANGED <<a_m_task_list, a_m_list_index>>
<1>1. PICK x : x = [state |-> s, refs |-> n + 1, task |-> t]
  OBVIOUS
<1>2. Al!Unreferenced(x) = [state |-> s, refs |-> n, task |-> IF n = 0 THEN None ELSE t]
  BY <1>1, Unreferences
<1>3. Al!Release(w, x, tasks)
  BY <1>1
<1>4. x.state = s /\ x.task = t
  BY <1>1
<1>5. (x.task # None /\ Al!Unreferenced(x).task = None) <=> (t # None /\ n = 0)
  BY <1>2, <1>4
<1> QED
  BY <1>2, <1>3, <1>4, <1>5 DEF Al!Release, Al!list_vars

LEMMA WatcherIs ==
    ASSUME AlType, NEW w \in Watchers
    PROVE  /\ a_watcher[w] = [state |-> a_watcher[w].state, refs |-> a_watcher[w].refs, task |-> a_watcher[w].task]
           /\ \A s : [a_watcher[w] EXCEPT !.state = s]
                        = [state |-> s, refs |-> a_watcher[w].refs, task |-> a_watcher[w].task]
<1>1. a_watcher[w] \in WatcherRecord
  BY DEF AlType, WatcherRecord
<1> QED
  BY <1>1 DEF WatcherRecord

LEMMA TaskEnds ==
    ASSUME AlType, NEW t \in Tasks
    PROVE  /\ [a_task EXCEPT ![t].at = "idle", ![t].finish = TRUE]
                = [a_task EXCEPT ![t] = [at |-> "idle", finish |-> TRUE, watcher |-> a_task[t].watcher]]
           /\ \A w : [[a_task EXCEPT ![t] = [at |-> "idle", finish |-> TRUE, watcher |-> w]]
                         EXCEPT ![t].watcher = None]
                = [a_task EXCEPT ![t] = [at |-> "idle", finish |-> TRUE, watcher |-> None]]
<1>1. a_task[t] \in TaskRecord /\ DOMAIN a_task = Tasks
  BY DEF AlType, TaskRecord
<1>2. [a_task[t] EXCEPT !.at = "idle", !.finish = TRUE]
         = [at |-> "idle", finish |-> TRUE, watcher |-> a_task[t].watcher]
  <2>1. PICK x \in TaskRecord : x = a_task[t]
    BY <1>1
  <2>2. PICK y : y = [x EXCEPT !.at = "idle"]
    OBVIOUS
  <2>3. y = [at |-> "idle", finish |-> x.finish, watcher |-> x.watcher]
    BY <2>2 DEF TaskRecord
  <2>6. PICK z : z = [y EXCEPT !.finish = TRUE]
    OBVIOUS
  <2>4. z = [at |-> "idle", finish |-> TRUE, watcher |-> x.watcher]
    BY <2>3, <2>6
  <2>5. z = [x EXCEPT !.at = "idle", !.finish = TRUE]
    BY <2>2, <2>6 DEF TaskRecord
  <2> QED
    BY <2>1, <2>4, <2>5
<1>3. [a_task EXCEPT ![t].at = "idle", ![t].finish = TRUE]
         = [a_task EXCEPT ![t] = [a_task[t] EXCEPT !.at = "idle", !.finish = TRUE]]
  BY <1>1
<1>4. ASSUME NEW w
      PROVE  [[a_task EXCEPT ![t] = [at |-> "idle", finish |-> TRUE, watcher |-> w]] EXCEPT ![t].watcher = None]
                = [a_task EXCEPT ![t] = [at |-> "idle", finish |-> TRUE, watcher |-> None]]
  <2>1. [[at |-> "idle", finish |-> TRUE, watcher |-> w] EXCEPT !.watcher = None]
           = [at |-> "idle", finish |-> TRUE, watcher |-> None]
    <3>1. PICK x : x = [at |-> "idle", finish |-> TRUE, watcher |-> w]
      OBVIOUS
    <3>2. PICK z : z = [x EXCEPT !.watcher = None]
      OBVIOUS
    <3>3. z = [at |-> "idle", finish |-> TRUE, watcher |-> None]
      BY <3>1, <3>2
    <3> QED
      BY <3>1, <3>2, <3>3
  <2>2. PICK x : x = [a_task EXCEPT ![t] = [at |-> "idle", finish |-> TRUE, watcher |-> w]]
    OBVIOUS
  <2>3. x[t] = [at |-> "idle", finish |-> TRUE, watcher |-> w] /\ DOMAIN x = Tasks
    BY <1>1, <2>2
  <2>4. [x EXCEPT ![t].watcher = None] = [x EXCEPT ![t] = [x[t] EXCEPT !.watcher = None]]
    BY <2>3
  <2>5. [x EXCEPT ![t] = [at |-> "idle", finish |-> TRUE, watcher |-> None]]
           = [a_task EXCEPT ![t] = [at |-> "idle", finish |-> TRUE, watcher |-> None]]
    BY <1>1, <2>2
  <2> QED
    BY <2>1, <2>2, <2>3, <2>4, <2>5
<1> QED
  BY <1>2, <1>3, <1>4

\* What the end of a run in the queue, or a cancel there, does: the task's own
\* reference to its watcher is released.
LEMMA RunEnds ==
    ASSUME AlInv, NEW t \in Tasks, a_task[t].at # "idle",
           NEW state \in {"Complete", "Cancelled"}, Al!ReleaseWatcher(t, state),
           \A w : Users(w)' = Users(w),
           \A u : \A d \in Callers : Acquired(d, u)' <=> Acquired(d, u)
    PROVE  /\ a_m_list_index' = a_m_list_index /\ a_m_task_list' \in [0 .. 1 -> Seq(Tasks)]
           /\ a_task' \in [Tasks -> [at : {"idle", "queued", "running"}, watcher : Watchers \cup {None},
                                     finish : BOOLEAN]]
           /\ a_watcher' \in [Watchers -> [state : {"Uninitialized", "Pending", "Complete", "Cancelled"},
                                           refs : Nat, task : Tasks \cup {None}]]
           /\ Once(a_m_task_list)'
           /\ \A u \in Tasks : TaskInv(u)'
           /\ \A w \in Watchers : WatcherInv(w)'
           /\ \A w \in Watchers : \/ a_watcher'[w].task = a_watcher[w].task
                                  \/ a_watcher'[w].task = None /\ Users(w) = {}
<1>0. PICK w : w = a_task[t].watcher
  OBVIOUS
<1>1. /\ TaskInv(t) /\ w \in Watchers \cup {None} /\ ~Al!Free(t) /\ Al!Scheduled(t)
      /\ \A c \in Callers : ~Acquired(c, t)
  BY <1>0, ScheduledIs DEF AlInv, AlType, TaskInv
<1>4. \A u : Al!Scheduled(u)' <=> a_task'[u].at # "idle" \/ \E c \in Callers : Acquired(c, u)
  <2>1. \A u : Al!Scheduled(u)' <=> a_task'[u].at # "idle" \/ \E c \in Callers : Acquired(c, u)'
    BY DEF Al!Scheduled, Acquired
  <2> QED
    BY <2>1
<1>2. CASE w = None
  <2>1. /\ a_task' = [a_task EXCEPT ![t].at = "idle", ![t].finish = TRUE]
        /\ a_watcher' = a_watcher /\ Al!FreeTask(t)
    BY <1>0, <1>2 DEF Al!ReleaseWatcher
  <2>2. /\ a_m_task_list' \in [0 .. 1 -> Seq(Tasks)] /\ Once(a_m_task_list)'
        /\ a_m_list_index' = a_m_list_index
        /\ \A u : Al!Free(u)' <=> Al!Free(u) \/ u = t
    BY <1>1, <2>1, TaskIsFreed
  <2>3. \A u \in Tasks : /\ a_task'[u].watcher = a_task[u].watcher
                         /\ a_task'[u].at = IF u = t THEN "idle" ELSE a_task[u].at
    BY <2>1 DEF AlInv, AlType
  <2>4. \A u \in Tasks : Al!Scheduled(u)' <=> u # t /\ Al!Scheduled(u)
    BY <1>1, <1>4, <2>3, ScheduledIs
  <2>5. ASSUME NEW u \in Tasks PROVE TaskInv(u)'
    <3>1. CASE u = t
      BY <3>1, <1>0, <1>1, <1>2, <2>2, <2>3 DEF TaskInv
    <3>2. CASE u # t
      <4>1. TaskInv(u) /\ a_task'[u].at = a_task[u].at /\ a_task'[u].watcher = a_task[u].watcher
        BY <3>2, <2>3 DEF AlInv
      <4>2. Al!Free(u)' <=> Al!Free(u)
        BY <3>2, <2>2
      <4>3. \A c \in Callers : Acquired(c, u)' <=> Acquired(c, u)
        OBVIOUS
      <4> QED
        BY <4>1, <4>2, <4>3, <2>1, TaskStays
    <3> QED
      BY <3>1, <3>2
  <2>6. ASSUME NEW v \in Watchers PROVE WatcherInv(v)'
    <3>1. WatcherInv(v) /\ a_watcher[v].task \in Tasks \cup {None} /\ a_watcher[v].task # t
      <4>1. WatcherInv(v) /\ a_watcher[v].task \in Tasks \cup {None}
        BY DEF AlInv, AlType
      <4>2. a_watcher[v].task = t => a_task[t].watcher = v
        BY <4>1 DEF WatcherInv
      <4> QED
        BY <4>1, <4>2, <1>0, <1>2
    <3>2. ASSUME NEW u, u = a_watcher[v].task, u # None
          PROVE  /\ a_task'[u].watcher = a_task[u].watcher
                 /\ Al!Free(u)' <=> Al!Free(u)
                 /\ Al!Scheduled(u)' <=> Al!Scheduled(u)
      <4>1. u \in Tasks /\ u # t
        BY <3>1, <3>2
      <4> QED
        BY <4>1, <2>2, <2>3, <2>4
    <3>3. Users(v)' = Users(v) /\ a_watcher'[v] = a_watcher[v]
      BY <2>1
    <3> QED
      BY <3>1, <3>2, <3>3, WatcherStays
  <2>7. /\ a_task' \in [Tasks -> [at : {"idle", "queued", "running"}, watcher : Watchers \cup {None},
                                  finish : BOOLEAN]]
        /\ a_watcher' \in [Watchers -> [state : {"Uninitialized", "Pending", "Complete", "Cancelled"},
                                        refs : Nat, task : Tasks \cup {None}]]
    <3>1. [at |-> "idle", finish |-> TRUE, watcher |-> w] \in TaskRecord
      BY <1>1 DEF TaskRecord
    <3>2. a_task' = [a_task EXCEPT ![t] = [at |-> "idle", finish |-> TRUE, watcher |-> w]]
      BY <1>0, <2>1, TaskEnds DEF AlInv
    <3>3. a_watcher' = a_watcher
      BY <2>1
    <3> QED
      BY <3>1, <3>2, <3>3 DEF AlInv, AlType, TaskRecord
  <2>8. \A v \in Watchers : a_watcher'[v].task = a_watcher[v].task
    BY <2>1
  <2> QED
    BY <2>2, <2>3, <2>5, <2>6, <2>7, <2>8
<1>3. CASE w # None
  <2>12. w \in Watchers /\ a_watcher[w].task = t /\ WatcherInv(w)
    BY <1>0, <1>1, <1>3 DEF AlInv, TaskInv
  <2>1. w \in Watchers /\ a_watcher[w].task = t /\ WatcherInv(w) /\ Own(w) = 1
    BY <2>12, <1>1 DEF WatcherInv, Own
  <2>0. PICK n \in Nat : n = Cardinality(Users(w))
    BY UsersAreFinite
  <2>2. a_watcher[w].refs = n + 1 /\ (n = 0 <=> Users(w) = {})
    BY <2>0, <2>1, UsersAreFinite, FS_EmptySet DEF WatcherInv
  <2>3. /\ a_watcher' = [a_watcher EXCEPT ![w] =
              [state |-> state, refs |-> n, task |-> IF n = 0 THEN None ELSE t]]
        /\ a_task' = [a_task EXCEPT ![t] =
              [at |-> "idle", finish |-> TRUE, watcher |-> IF n = 0 THEN None ELSE w]]
        /\ IF n = 0 THEN Al!FreeTask(t) ELSE UNCHANGED <<a_m_task_list, a_m_list_index>>
    <3>1. Al!Release(w, [a_watcher[w] EXCEPT !.state = state], [a_task EXCEPT ![t].at = "idle", ![t].finish = TRUE])
      BY <1>0, <1>3 DEF Al!ReleaseWatcher
    <3>2. [a_watcher[w] EXCEPT !.state = state] = [state |-> state, refs |-> n + 1, task |-> t]
      <4>1. [a_watcher[w] EXCEPT !.state = state]
               = [state |-> state, refs |-> a_watcher[w].refs, task |-> a_watcher[w].task]
        BY <2>1, WatcherIs DEF AlInv
      <4> QED
        BY <2>1, <2>2, <4>1
    <3>3. PICK tasks : tasks = [a_task EXCEPT ![t] = [at |-> "idle", finish |-> TRUE, watcher |-> w]]
      OBVIOUS
    <3>4. tasks = [a_task EXCEPT ![t].at = "idle", ![t].finish = TRUE]
      BY <1>0, <3>3, TaskEnds DEF AlInv
    <3>5. Al!Release(w, [state |-> state, refs |-> n + 1, task |-> t], tasks)
      BY <3>1, <3>2, <3>4
    <3>6. /\ a_watcher' = [a_watcher EXCEPT ![w] = [state |-> state, refs |-> n, task |-> IF n = 0 THEN None ELSE t]]
          /\ a_task' = IF t # None /\ n = 0 THEN [tasks EXCEPT ![t].watcher = None] ELSE tasks
          /\ IF t # None /\ n = 0 THEN Al!FreeTask(t) ELSE UNCHANGED <<a_m_task_list, a_m_list_index>>
      BY <3>5, Releases
    <3>7. t # None
      OBVIOUS
    <3>8. [tasks EXCEPT ![t].watcher = None]
            = [a_task EXCEPT ![t] = [at |-> "idle", finish |-> TRUE, watcher |-> None]]
      BY <3>3, TaskEnds DEF AlInv
    <3>9. CASE n = 0
      BY <3>6, <3>7, <3>8, <3>9
    <3>10. CASE n # 0
      BY <3>3, <3>6, <3>7, <3>10
    <3> QED
      BY <3>9, <3>10
  <2>4. /\ \A u \in Tasks : /\ u # t => a_task'[u] = a_task[u]
                            /\ a_task'[t].at = "idle"
                            /\ a_task'[t].watcher = IF n = 0 THEN None ELSE w
        /\ \A v \in Watchers : v # w => a_watcher'[v] = a_watcher[v]
        /\ a_watcher'[w] = [state |-> state, refs |-> n, task |-> IF n = 0 THEN None ELSE t]
    BY <2>1, <2>3 DEF AlInv, AlType
  <2>5. /\ a_m_task_list' \in [0 .. 1 -> Seq(Tasks)] /\ Once(a_m_task_list)'
        /\ a_m_list_index' = a_m_list_index
        /\ \A u : Al!Free(u)' <=> Al!Free(u) \/ (n = 0 /\ u = t)
    <3>1. CASE n = 0
      BY <3>1, <1>1, <2>3, TaskIsFreed
    <3>2. CASE n # 0
      BY <3>2, <2>3 DEF AlInv, AlType, Once, Al!Free
    <3> QED
      BY <3>1, <3>2
  <2>6. \A u \in Tasks : Al!Scheduled(u)' <=> u # t /\ Al!Scheduled(u)
    BY <1>1, <1>4, <2>4, ScheduledIs
  <2>7. ASSUME NEW u \in Tasks PROVE TaskInv(u)'
    <3>1. CASE u = t
      BY <1>0, <3>1, <1>1, <1>3, <2>1, <2>4, <2>5 DEF TaskInv
    <3>2. CASE u # t
      <4>1. TaskInv(u) /\ a_task[u].watcher \in Watchers \cup {None}
        BY DEF AlInv, AlType
      <4>2. a_task[u].watcher # w
        BY <4>1, <3>2, <2>1, <1>3 DEF TaskInv
      <4>3. /\ a_task'[u].at = a_task[u].at /\ a_task'[u].watcher = a_task[u].watcher
            /\ Al!Free(u)' <=> Al!Free(u)
            /\ a_task[u].watcher # None => a_watcher'[a_task[u].watcher].task = a_watcher[a_task[u].watcher].task
        BY <4>1, <4>2, <3>2, <2>4, <2>5
      <4> QED
        BY <4>1, <4>3, TaskStays
    <3> QED
      BY <3>1, <3>2
  <2>8. ASSUME NEW v \in Watchers PROVE WatcherInv(v)'
    <3>1. CASE v = w
      <4>1. Own(w)' = 0
        BY <2>4 DEF Own
      <4>2. Cardinality(Users(w))' = n
        BY <2>0
      <4>3. a_watcher'[w].refs = n /\ a_watcher'[w].task = IF n = 0 THEN None ELSE t
        BY <2>4
      <4>4. CASE n = 0
        BY <3>1, <4>1, <4>2, <4>3, <4>4 DEF WatcherInv
      <4>5. CASE n # 0
        <5>1. /\ a_task'[t].watcher = w
              /\ ~Al!Free(t)'
              /\ ~Al!Scheduled(t)'
              /\ a_watcher'[w].state \in {"Complete", "Cancelled"}
          BY <4>5, <1>1, <2>4, <2>5, <2>6
        <5> QED
          BY <3>1, <4>1, <4>2, <4>3, <4>5, <5>1 DEF WatcherInv
      <4> QED
        BY <4>4, <4>5
    <3>2. CASE v # w
      <4>1. WatcherInv(v) /\ a_watcher[v].task \in Tasks \cup {None} /\ a_watcher[v].task # t
        <5>1. WatcherInv(v) /\ a_watcher[v].task \in Tasks \cup {None}
          BY DEF AlInv, AlType
        <5>2. a_watcher[v].task = t => a_task[t].watcher = v
          BY <5>1 DEF WatcherInv
        <5> QED
          BY <5>1, <5>2, <1>0, <3>2
      <4>2. ASSUME NEW u, u = a_watcher[v].task, u # None
            PROVE  /\ a_task'[u].watcher = a_task[u].watcher
                   /\ Al!Free(u)' <=> Al!Free(u)
                   /\ Al!Scheduled(u)' <=> Al!Scheduled(u)
        <5>1. u \in Tasks /\ u # t
          BY <4>1, <4>2
        <5> QED
          BY <5>1, <2>4, <2>5, <2>6
      <4> QED
        BY <4>1, <4>2, <3>2, <2>4, WatcherStays
    <3> QED
      BY <3>1, <3>2
  <2>9. /\ a_task' \in [Tasks -> [at : {"idle", "queued", "running"}, watcher : Watchers \cup {None},
                                  finish : BOOLEAN]]
        /\ a_watcher' \in [Watchers -> [state : {"Uninitialized", "Pending", "Complete", "Cancelled"},
                                        refs : Nat, task : Tasks \cup {None}]]
    <3>1. [at |-> "idle", finish |-> TRUE, watcher |-> IF n = 0 THEN None ELSE w] \in TaskRecord
      BY <2>1 DEF TaskRecord
    <3>2. [state |-> state, refs |-> n, task |-> IF n = 0 THEN None ELSE t] \in WatcherRecord
      BY DEF WatcherRecord
    <3> QED
      BY <2>3, <3>1, <3>2 DEF AlInv, AlType, TaskRecord, WatcherRecord
  <2>10. \A v \in Watchers :
            \/ a_watcher'[v].task = a_watcher[v].task
            \/ a_watcher'[v].task = None /\ Users(v) = {}
    BY <2>1, <2>2, <2>4
  <2> QED
    BY <2>5, <2>7, <2>8, <2>9, <2>10
<1> QED
  BY <1>2, <1>3

\* The steps of a caller that leave the tasks and the watchers where they are.
ArgRecord == [task : Tasks \cup {None}, watcher : Watchers \cup {None}, cancel : BOOLEAN, calls : Nat]

LEMMA ScheduleTaskStep == ASSUME AlInv, NEW c \in Callers, Al!ScheduleTask(c) PROVE AlInv'
<1>1. PICK w \in Watchers \cup {None} :
         /\ a_pc[c] = "idle"
         /\ w # None => a_watcher[w].task = None /\ \A d \in Callers : a_arg[d].watcher # w
         /\ a_pc' = [a_pc EXCEPT ![c] = "acquire"]
         /\ a_arg' = [a_arg EXCEPT ![c].watcher = w, ![c].calls = @ + 1]
         /\ UNCHANGED <<a_m_task_list, a_m_list_index, a_task, a_watcher>>
  BY DEF Al!ScheduleTask, Al!list_vars
<1>2. /\ a_arg' \in [Callers -> ArgRecord] /\ a_arg'[c].watcher = w
      /\ \A d \in Callers : d # c => a_arg'[d] = a_arg[d]
  <2>1. PICK x \in ArgRecord : x = a_arg[c]
    BY DEF AlInv, AlType, ArgRecord
  <2>2. PICK y : y = [x EXCEPT !.watcher = w]
    OBVIOUS
  <2>3. y \in ArgRecord /\ y.watcher = w
    BY <2>2 DEF ArgRecord
  <2>4. PICK z : z = [y EXCEPT !.calls = x.calls + 1]
    OBVIOUS
  <2>5. z \in ArgRecord /\ z.watcher = w
    BY <2>3, <2>4 DEF ArgRecord
  <2>6. a_arg' = [a_arg EXCEPT ![c] = z]
    BY <1>1, <2>1, <2>2, <2>4 DEF AlInv, AlType
  <2> QED
    BY <2>5, <2>6 DEF AlInv, AlType, ArgRecord
<1>3. /\ a_pc' \in [Callers -> Places] /\ a_pc'[c] = "acquire"
      /\ \A d \in Callers : d # c => a_pc'[d] = a_pc[d]
  BY <1>1 DEF AlInv, AlType, Places
<1>4. AlType'
  BY <1>1, <1>2, <1>3 DEF AlInv, AlType, ArgRecord
<1>5. CallerInv(c)'
  <2>1. CASE w = None
    BY <1>2, <1>3, <2>1 DEF CallerInv, Waiting, Refers
  <2>2. CASE w # None
    BY <1>1, <1>2, <1>3, <2>2 DEF CallerInv, Waiting, Refers
  <2> QED
    BY <2>1, <2>2
<1>6. \A t \in Tasks : Acquired(c, t)' <=> Acquired(c, t)
  BY <1>1, <1>3 DEF Acquired
<1>8. a_pc[c] \notin Refers /\ a_pc'[c] \notin Refers
  BY <1>1, <1>3 DEF Refers
<1> QED
  BY <1>1, <1>2, <1>3, <1>4, <1>5, <1>6, <1>8, CallerMoves

LEMMA WaitForAvailableStep == ASSUME AlInv, NEW c \in Callers, Al!WaitForAvailable(c) PROVE AlInv'
<1>1. /\ a_pc[c] = "available" /\ a_pc' = [a_pc EXCEPT ![c] = "swap"]
      /\ UNCHANGED <<a_m_task_list, a_m_list_index, a_task, a_watcher, a_arg>>
  BY DEF Al!WaitForAvailable, Al!list_vars
<1>2. /\ a_pc' \in [Callers -> Places] /\ a_pc'[c] = "swap"
      /\ \A d \in Callers : d # c => a_pc'[d] = a_pc[d]
  BY <1>1 DEF AlInv, AlType, Places
<1>3. AlType'
  BY <1>1, <1>2 DEF AlInv, AlType
<1>4. CallerInv(c)'
  BY <1>1, <1>2 DEF AlInv, CallerInv, Waiting, Refers
<1>5. \A t \in Tasks : Acquired(c, t)' <=> Acquired(c, t)
  BY <1>1, <1>2 DEF Acquired
<1>8. a_pc[c] \notin Refers /\ a_pc'[c] \notin Refers
  BY <1>1, <1>2 DEF Refers
<1> QED
  BY <1>1, <1>2, <1>3, <1>4, <1>5, <1>8, CallerMoves

LEMMA SwapListsStep == ASSUME AlInv, NEW c \in Callers, Al!SwapLists(c) PROVE AlInv'
<1>1. /\ a_pc[c] = "swap" /\ a_pc' = [a_pc EXCEPT ![c] = "acquire"]
      /\ a_m_list_index' = 1 - a_m_list_index
      /\ UNCHANGED <<a_m_task_list, a_task, a_watcher, a_arg>>
  BY DEF Al!SwapLists
<1>2. /\ a_pc' \in [Callers -> Places] /\ a_pc'[c] = "acquire"
      /\ \A d \in Callers : d # c => a_pc'[d] = a_pc[d]
  BY <1>1 DEF AlInv, AlType, Places
<1>3. AlType'
  BY <1>1, <1>2 DEF AlInv, AlType
<1>4. CallerInv(c)'
  BY <1>1, <1>2 DEF AlInv, CallerInv, Waiting, Refers
<1>5. \A t \in Tasks : Acquired(c, t)' <=> Acquired(c, t)
  BY <1>1, <1>2 DEF Acquired
<1>8. a_pc[c] \notin Refers /\ a_pc'[c] \notin Refers
  BY <1>1, <1>2 DEF Refers
<1> QED
  BY <1>1, <1>2, <1>3, <1>4, <1>5, <1>8, CallerMoves

LEMMA WatchStep == ASSUME AlInv, NEW c \in Callers, Al!Watch(c) PROVE AlInv'
<1>1. PICK w \in Watchers, cancel \in BOOLEAN :
         /\ a_pc[c] = "idle" /\ a_watcher[w].task # None
         /\ a_arg' = [a_arg EXCEPT ![c].watcher = w, ![c].cancel = cancel, ![c].calls = @ + 1]
         /\ a_pc' = [a_pc EXCEPT ![c] = "reference"]
         /\ UNCHANGED <<a_m_task_list, a_m_list_index, a_task, a_watcher>>
  BY ZenonT(40) DEF Al!Watch, Al!list_vars
<1>2. /\ a_arg' \in [Callers -> ArgRecord] /\ a_arg'[c].watcher = w
      /\ \A d \in Callers : d # c => a_arg'[d] = a_arg[d]
  <2>1. PICK x \in ArgRecord : x = a_arg[c]
    BY DEF AlInv, AlType, ArgRecord
  <2>2. PICK y : y = [x EXCEPT !.watcher = w]
    OBVIOUS
  <2>3. y \in ArgRecord /\ y.watcher = w
    BY <2>2 DEF ArgRecord
  <2>4. PICK y2 : y2 = [y EXCEPT !.cancel = cancel]
    OBVIOUS
  <2>5. y2 \in ArgRecord /\ y2.watcher = w
    BY <2>3, <2>4 DEF ArgRecord
  <2>6. PICK z : z = [y2 EXCEPT !.calls = x.calls + 1]
    OBVIOUS
  <2>7. z \in ArgRecord /\ z.watcher = w
    BY <2>5, <2>6 DEF ArgRecord
  <2>8. a_arg' = [a_arg EXCEPT ![c] = z]
    BY <1>1, <2>1, <2>2, <2>4, <2>6 DEF AlInv, AlType
  <2> QED
    BY <2>7, <2>8 DEF AlInv, AlType, ArgRecord
<1>3. /\ a_pc' \in [Callers -> Places] /\ a_pc'[c] = "reference"
      /\ \A d \in Callers : d # c => a_pc'[d] = a_pc[d]
  BY <1>1 DEF AlInv, AlType, Places
<1>4. AlType'
  BY <1>1, <1>2, <1>3 DEF AlInv, AlType, ArgRecord
<1>5. CallerInv(c)'
  BY <1>2, <1>3 DEF CallerInv, Waiting, Refers
<1>6. \A t \in Tasks : Acquired(c, t)' <=> Acquired(c, t)
  BY <1>1, <1>3 DEF Acquired
<1>7. \A d \in Callers : a_arg[d].watcher = w => a_pc[d] \notin {"acquire", "available", "swap", "watch"}
  <2> SUFFICES ASSUME NEW d \in Callers, a_arg[d].watcher = w
               PROVE  a_pc[d] \notin {"acquire", "available", "swap", "watch"}
    OBVIOUS
  <2>1. CallerInv(d) /\ w # None
    BY DEF AlInv
  <2> QED
    BY <1>1, <2>1 DEF CallerInv
<1>8. a_pc[c] \notin Refers /\ a_pc'[c] \notin Refers
  BY <1>1, <1>3 DEF Refers
<1> QED
  BY <1>1, <1>2, <1>3, <1>4, <1>5, <1>6, <1>7, <1>8, CallerMoves

LEMMA WaitStep == ASSUME AlInv, NEW c \in Callers, Al!Wait(c) PROVE AlInv'
<1>1. PICK next \in {"release", "late", "asleep"} :
         /\ a_pc[c] = "finish" /\ a_pc' = [a_pc EXCEPT ![c] = next]
         /\ UNCHANGED <<a_m_task_list, a_m_list_index, a_task, a_watcher, a_arg>>
  BY DEF Al!Wait, Al!list_vars
<1>2. /\ a_pc' \in [Callers -> Places] /\ a_pc'[c] = next
      /\ \A d \in Callers : d # c => a_pc'[d] = a_pc[d]
  BY <1>1 DEF AlInv, AlType, Places
<1>3. AlType'
  BY <1>1, <1>2 DEF AlInv, AlType
<1>4. CallerInv(c)'
  <2>1. CallerInv(c) /\ a_watcher' = a_watcher /\ a_arg' = a_arg
    BY <1>1 DEF AlInv
  <2> QED
    BY <1>1, <1>2, <2>1 DEF CallerInv, Waiting, Refers
<1>5. \A t \in Tasks : Acquired(c, t)' <=> Acquired(c, t)
  BY <1>1, <1>2 DEF Acquired
<1>6. a_pc[c] \in Refers /\ a_pc'[c] \in Refers
  BY <1>1, <1>2 DEF Refers
<1> QED
  BY <1>1, <1>2, <1>3, <1>4, <1>5, <1>6, CallerMoves

\* What a caller works on is noted, or done with.
LEMMA ArgOf ==
    ASSUME AlType, NEW c \in Callers, NEW t \in Tasks \cup {None}, a_arg' = [a_arg EXCEPT ![c].task = t]
    PROVE  /\ a_arg' \in [Callers -> ArgRecord]
           /\ a_arg'[c].task = t /\ a_arg'[c].watcher = a_arg[c].watcher
           /\ \A d \in Callers : d # c => a_arg'[d] = a_arg[d]
<1>1. PICK x \in ArgRecord : x = a_arg[c]
  BY DEF AlType, ArgRecord
<1>2. PICK y : y = [x EXCEPT !.task = t]
  OBVIOUS
<1>3. y \in ArgRecord /\ y.task = t /\ y.watcher = x.watcher
  BY <1>2 DEF ArgRecord
<1>4. a_arg' = [a_arg EXCEPT ![c] = y]
  BY <1>1, <1>2
<1>5. a_arg \in [Callers -> ArgRecord]
  BY DEF AlType, ArgRecord
<1> QED
  BY <1>1, <1>3, <1>4, <1>5

LEMMA TaskAt ==
    ASSUME AlType, NEW t \in Tasks, NEW place \in {"idle", "queued", "running"},
           a_task' = [a_task EXCEPT ![t].at = place]
    PROVE  /\ a_task' \in [Tasks -> TaskRecord]
           /\ a_task'[t].at = place /\ a_task'[t].watcher = a_task[t].watcher
           /\ \A u \in Tasks : u # t => a_task'[u] = a_task[u]
<1>1. PICK x \in TaskRecord : x = a_task[t]
  BY DEF AlType, TaskRecord
<1>2. PICK y : y = [x EXCEPT !.at = place]
  OBVIOUS
<1>3. y \in TaskRecord /\ y.at = place /\ y.watcher = x.watcher
  BY <1>2 DEF TaskRecord
<1>4. a_task' = [a_task EXCEPT ![t] = y]
  BY <1>1, <1>2
<1>5. a_task \in [Tasks -> TaskRecord]
  BY DEF AlType, TaskRecord
<1> QED
  BY <1>1, <1>3, <1>4, <1>5

LEMMA ArgCleared ==
    ASSUME AlType, NEW c \in Callers, a_arg' = [a_arg EXCEPT ![c].task = None, ![c].watcher = None]
    PROVE  /\ a_arg' \in [Callers -> ArgRecord] /\ a_arg'[c].task = None /\ a_arg'[c].watcher = None
           /\ \A d \in Callers : d # c => a_arg'[d] = a_arg[d]
<1>1. PICK x \in ArgRecord : x = a_arg[c]
  BY DEF AlType, ArgRecord
<1>2. PICK y : y = [x EXCEPT !.task = None]
  OBVIOUS
<1>3. PICK z : z = [y EXCEPT !.watcher = None]
  OBVIOUS
<1>4. y \in ArgRecord /\ y.task = None
  BY <1>2 DEF ArgRecord
<1>5. z \in ArgRecord /\ z.task = None /\ z.watcher = None
  BY <1>3, <1>4 DEF ArgRecord
<1>6. a_arg' = [a_arg EXCEPT ![c] = z]
  BY <1>1, <1>2, <1>3 DEF AlType
<1> QED
  BY <1>5, <1>6, ZenonT(40) DEF AlType, ArgRecord

\* A task leaves the list that is acquired from.
LEMMA AcquireTaskStep == ASSUME AlInv, NEW c \in Callers, Al!AcquireTaskImpl(c) PROVE AlInv'
<1>1. PICK i \in 0 .. 1 : i = a_m_list_index
  BY DEF AlInv, AlType
<1>2. PICK lists \in [0 .. 1 -> Seq(Tasks)] : lists = a_m_task_list
  BY DEF AlInv, AlType
<1>3. a_pc[c] = "acquire" /\ UNCHANGED <<a_m_list_index, a_task, a_watcher>> /\ CallerInv(c)
  BY DEF Al!AcquireTaskImpl, AlInv
<1>4. CASE lists[i] = <<>>
  <2>1. a_pc' = [a_pc EXCEPT ![c] = "available"] /\ UNCHANGED <<a_m_task_list, a_arg>>
    BY <1>1, <1>2, <1>4 DEF Al!AcquireTaskImpl
  <2>2. /\ a_pc' \in [Callers -> Places] /\ a_pc'[c] = "available"
        /\ \A d \in Callers : d # c => a_pc'[d] = a_pc[d]
    BY <2>1 DEF AlInv, AlType, Places
  <2>3. AlType'
    BY <1>3, <2>1, <2>2 DEF AlInv, AlType
  <2>4. CallerInv(c)'
    BY <1>3, <2>1, <2>2 DEF CallerInv, Waiting, Refers
  <2>5. \A t \in Tasks : Acquired(c, t)' <=> Acquired(c, t)
    BY <1>3, <2>2 DEF Acquired
  <2>6. a_pc[c] \notin Refers /\ a_pc'[c] \notin Refers
    BY <1>3, <2>2 DEF Refers
  <2> QED
    BY <1>3, <2>1, <2>2, <2>3, <2>4, <2>5, <2>6, CallerMoves
<1>5. CASE lists[i] # <<>>
  <2>1. PICK n \in Nat : n = Len(lists[i])
    OBVIOUS
  <2>2. PICK t : t = lists[i][1]
    OBVIOUS
  <2>3. lists[i] \in Seq(Tasks) /\ n >= 1 /\ t \in Tasks /\ Head(lists[i]) = t /\ DOMAIN lists[i] = 1 .. n
    BY <1>5, <2>1, <2>2
  <2>4. PICK rest : rest = a_m_task_list'
    OBVIOUS
  <2>5. /\ rest = [lists EXCEPT ![i] = Tail(@)]
        /\ a_arg' = [a_arg EXCEPT ![c].task = t]
        /\ a_pc' = [a_pc EXCEPT ![c] = "watch"]
    BY <1>1, <1>2, <1>5, <2>3, <2>4 DEF Al!AcquireTaskImpl
  <2>6. /\ rest \in [0 .. 1 -> Seq(Tasks)] /\ rest[i] = Tail(lists[i])
        /\ \A j \in 0 .. 1 : j # i => rest[j] = lists[j]
    BY <1>5, <2>5
  <2>7. DOMAIN rest[i] = 1 .. n - 1 /\ \A k \in 1 .. n - 1 : rest[i][k] = lists[i][k + 1]
    BY <2>1, <2>3, <2>6
  <2>8. Once(lists)
    BY <1>2 DEF AlInv
  <2>9. Once(rest) /\ \A u : Linked(rest, u) <=> Linked(lists, u) /\ u # t
    <3>1. Taken(rest, lists, i, n)
      BY <2>3, <2>6, <2>7, <2>8 DEF Taken
    <3> QED
      BY <2>2, <3>1, TakeFirst
  <2>10. Al!Free(t) /\ \A u : Al!Free(u)' <=> Al!Free(u) /\ u # t
    <3>1. \A u : Al!Free(u)' <=> Linked(rest, u)
      BY <2>4 DEF Al!Free, Al!ToSet, Linked
    <3>2. \A u : Al!Free(u) <=> Linked(lists, u)
      BY <1>2, FreeIsLinked
    <3>3. Linked(lists, t)
      BY <2>2, <2>3 DEF Linked
    <3> QED
      BY <2>9, <3>1, <3>2, <3>3
  <2>11. TaskInv(t) /\ a_task[t].at = "idle" /\ \A d \in Callers : ~Acquired(d, t)
    <3>1. TaskInv(t)
      BY <2>3 DEF AlInv
    <3> QED
      BY <2>10, <3>1 DEF TaskInv
  <2>12. /\ a_arg' \in [Callers -> ArgRecord] /\ a_arg'[c].task = t /\ a_arg'[c].watcher = a_arg[c].watcher
         /\ \A d \in Callers : d # c => a_arg'[d] = a_arg[d]
    BY <2>3, <2>5, ArgOf DEF AlInv
  <2>13. /\ a_pc' \in [Callers -> Places] /\ a_pc'[c] = "watch"
         /\ \A d \in Callers : d # c => a_pc'[d] = a_pc[d]
    BY <2>5 DEF AlInv, AlType, Places
  <2>14. AlType'
    BY <1>3, <2>4, <2>6, <2>12, <2>13 DEF AlInv, AlType, ArgRecord
  <2>15. Once(a_m_task_list)'
    BY <2>4, <2>9
  <2>16. /\ Acquired(c, t)'
         /\ \A u : u # t => \A d \in Callers : Acquired(d, u)' <=> Acquired(d, u)
         /\ \A d \in Callers : d # c => ~Acquired(d, t)'
    BY <1>3, <2>11, <2>12, <2>13 DEF Acquired
  <2>17. \A u : u # t => (Al!Scheduled(u)' <=> Al!Scheduled(u))
    <3>1. \A u : Al!Scheduled(u)' <=> a_task[u].at # "idle" \/ \E d \in Callers : Acquired(d, u)'
      BY <1>3 DEF Al!Scheduled, Acquired
    <3> QED
      BY <2>16, <3>1, ScheduledIs
  <2>18. ASSUME NEW u \in Tasks PROVE TaskInv(u)'
    <3>1. CASE u = t
      <4>1. Al!Scheduled(t)'
        BY <2>16 DEF Al!Scheduled, Acquired
      <4>2. a_task' = a_task /\ a_watcher' = a_watcher /\ ~Al!Free(t)'
        BY <1>3, <2>10, <2>11
      <4> QED
        BY <3>1, <4>1, <4>2, <2>11, <2>16 DEF TaskInv
    <3>2. CASE u # t
      <4>1. /\ TaskInv(u) /\ a_task' = a_task /\ a_watcher' = a_watcher
            /\ Al!Free(u)' <=> Al!Free(u)
            /\ \A d \in Callers : Acquired(d, u)' <=> Acquired(d, u)
        BY <3>2, <1>3, <2>10, <2>16 DEF AlInv
      <4> QED
        BY <4>1, TaskStays
    <3> QED
      BY <3>1, <3>2
  <2>19. ASSUME NEW w \in Watchers PROVE WatcherInv(w)'
    <3>1. WatcherInv(w)
      BY DEF AlInv
    <3>2. Users(w)' = Users(w) /\ a_watcher'[w] = a_watcher[w]
      BY <1>3, <2>12, <2>13 DEF Users, Refers
    <3>3. \A u : u = a_watcher[w].task /\ u # None =>
             /\ a_task'[u].watcher = a_task[u].watcher
             /\ Al!Free(u)' \/ Al!Scheduled(u)' => Al!Free(u) \/ Al!Scheduled(u)
      BY <1>3, <2>10, <2>17
    <3> QED
      BY <3>1, <3>2, <3>3, WatcherStays
  <2>20. ASSUME NEW d \in Callers PROVE CallerInv(d)'
    <3>1. CASE d = c
      <4>1. t # None
        BY <2>3
      <4>2. PICK w : w = a_arg[c].watcher
        OBVIOUS
      <4>3. w # None => a_watcher'[w].task = None /\ \A e \in Callers : a_arg'[e].watcher = w => e = c
        BY <1>3, <2>12, <4>2 DEF CallerInv
      <4> QED
        BY <3>1, <2>12, <2>13, <4>1, <4>2, <4>3 DEF CallerInv, Waiting, Refers
    <3>2. CASE d # c
      <4>1. CallerInv(d) /\ a_pc'[d] = a_pc[d] /\ a_arg'[d] = a_arg[d] /\ a_task' = a_task /\ a_watcher' = a_watcher
        BY <3>2, <1>3, <2>12, <2>13 DEF AlInv
      <4>2. \A e \in Callers : a_arg'[e].watcher = a_arg[e].watcher
        BY <2>12
      <4> QED
        BY <4>1, <4>2, CallerStays DEF CallerInv
    <3> QED
      BY <3>1, <3>2
  <2> QED
    BY <2>14, <2>15, <2>18, <2>19, <2>20 DEF AlInv
<1> QED
  BY <1>4, <1>5

\* The acquired task is watched, and pushed.
LEMMA SetWatcherStep == ASSUME AlInv, NEW c \in Callers, Al!SetWatcher(c) PROVE AlInv'
<1>1. PICK t : t = a_arg[c].task
  OBVIOUS
<1>2. PICK w : w = a_arg[c].watcher
  OBVIOUS
<1>3. /\ a_pc[c] = "watch" /\ a_pc' = [a_pc EXCEPT ![c] = "push"]
      /\ UNCHANGED <<a_m_task_list, a_m_list_index, a_arg>>
  BY DEF Al!SetWatcher, Al!list_vars
<1>4. /\ t \in Tasks /\ w \in Watchers \cup {None} /\ CallerInv(c) /\ TaskInv(t) /\ Acquired(c, t)
      /\ w # None => a_watcher[w].task = None /\ \A d \in Callers : a_arg[d].watcher = w => d = c
  <2>1. CallerInv(c) /\ t \in Tasks \cup {None} /\ w \in Watchers \cup {None}
    BY <1>1, <1>2 DEF AlInv, AlType
  <2>2. t \in Tasks
    BY <1>1, <1>3, <2>1 DEF CallerInv
  <2>4. w # None => a_watcher[w].task = None /\ \A d \in Callers : a_arg[d].watcher = w => d = c
    BY <1>2, <1>3, <2>1 DEF CallerInv
  <2> QED
    BY <1>1, <1>3, <2>1, <2>2, <2>4 DEF AlInv, Acquired
<1>5. /\ a_pc' \in [Callers -> Places] /\ a_pc'[c] = "push"
      /\ \A d \in Callers : d # c => a_pc'[d] = a_pc[d]
  BY <1>3 DEF AlInv, AlType, Places
<1>6. CallerInv(c)'
  BY <1>1, <1>3, <1>4, <1>5 DEF CallerInv, Waiting, Refers
<1>7. \A u : \A d \in Callers : Acquired(d, u)' <=> Acquired(d, u)
  BY <1>3, <1>5 DEF Acquired
<1>10. a_pc[c] \notin Refers /\ a_pc'[c] \notin Refers
  BY <1>3, <1>5 DEF Refers
<1>8. CASE w = None \/ a_task[t].watcher # None
  <2>1. UNCHANGED <<a_task, a_watcher>>
    BY <1>1, <1>2, <1>8 DEF Al!SetWatcher
  <2>2. AlType'
    BY <1>3, <1>5, <2>1 DEF AlInv, AlType
  <2> QED
    BY <1>3, <1>5, <1>6, <1>7, <1>10, <2>1, <2>2, CallerMoves
<1>9. CASE w # None /\ a_task[t].watcher = None
  <2>1. PICK n \in Nat : n = a_watcher[w].refs
    BY <1>4, <1>9 DEF AlInv, AlType
  <2>2. PICK x : x = [state |-> "Pending", refs |-> n + 1, task |-> t]
    OBVIOUS
  <2>3. a_task' = [a_task EXCEPT ![t].watcher = w] /\ a_watcher' = [a_watcher EXCEPT ![w] = x]
    BY <1>1, <1>2, <1>4, <1>9, <2>1, <2>2 DEF Al!SetWatcher
  <2>4. /\ a_task' \in [Tasks -> TaskRecord] /\ a_task'[t].watcher = w /\ a_task'[t].at = a_task[t].at
        /\ \A u \in Tasks : u # t => a_task'[u] = a_task[u]
    <3>1. PICK r \in TaskRecord : r = a_task[t]
      BY <1>4 DEF AlInv, AlType, TaskRecord
    <3>2. PICK y : y = [r EXCEPT !.watcher = w]
      OBVIOUS
    <3>3. y \in TaskRecord /\ y.watcher = w /\ y.at = r.at
      BY <1>4, <3>2 DEF TaskRecord
    <3>4. a_task' = [a_task EXCEPT ![t] = y]
      BY <2>3, <3>1, <3>2
    <3> QED
      BY <1>4, <3>1, <3>3, <3>4 DEF AlInv, AlType, TaskRecord
  <2>5. /\ a_watcher' \in [Watchers -> WatcherRecord]
        /\ a_watcher'[w].refs = n + 1 /\ a_watcher'[w].task = t /\ a_watcher'[w].state = "Pending"
        /\ \A v \in Watchers : v # w => a_watcher'[v] = a_watcher[v]
    <3>1. x \in WatcherRecord /\ x.refs = n + 1 /\ x.task = t /\ x.state = "Pending"
      BY <1>4, <2>2 DEF WatcherRecord
    <3> QED
      BY <1>4, <1>9, <2>3, <3>1 DEF AlInv, AlType, WatcherRecord
  <2>6. AlType'
    BY <1>3, <1>5, <2>4, <2>5 DEF AlInv, AlType, TaskRecord, WatcherRecord
  <2>7. Once(a_m_task_list)' /\ \A u : Al!Free(u)' <=> Al!Free(u)
    BY <1>3 DEF AlInv, Once, Al!Free
  <2>8. \A u \in Tasks : Al!Scheduled(u)' <=> Al!Scheduled(u)
    <3>1. \A u : Al!Scheduled(u)' <=> a_task'[u].at # "idle" \/ \E d \in Callers : Acquired(d, u)'
      BY DEF Al!Scheduled, Acquired
    <3> QED
      BY <1>7, <2>4, <3>1, ScheduledIs
  <2>9. ~Al!Free(t) /\ Al!Scheduled(t)
    BY <1>4, ScheduledIs DEF TaskInv
  <2>10. ASSUME NEW u \in Tasks PROVE TaskInv(u)'
    <3>1. CASE u = t
      <4>1. /\ a_task'[t].at = a_task[t].at /\ a_task'[t].watcher = w /\ a_watcher'[w].task = t
            /\ Al!Free(t)' <=> Al!Free(t)
            /\ Al!Scheduled(t)'
            /\ \A d \in Callers : Acquired(d, t)' <=> Acquired(d, t)
        BY <1>4, <1>7, <2>4, <2>5, <2>7, <2>8, <2>9
      <4> QED
        BY <1>4, <3>1, <4>1 DEF TaskInv
    <3>2. CASE u # t
      <4>1. TaskInv(u) /\ a_task'[u] = a_task[u] /\ a_task[u].watcher \in Watchers \cup {None}
        BY <3>2, <2>4 DEF AlInv, AlType
      <4>2. a_task[u].watcher # w
        BY <1>4, <1>9, <4>1 DEF TaskInv
      <4>3. a_task[u].watcher # None
              => a_watcher'[a_task[u].watcher].task = a_watcher[a_task[u].watcher].task
        BY <2>5, <4>1, <4>2
      <4>4. /\ Al!Free(u)' <=> Al!Free(u)
            /\ \A d \in Callers : Acquired(d, u)' <=> Acquired(d, u)
        BY <1>7, <2>7
      <4> QED
        BY <4>1, <4>3, <4>4, TaskStays
    <3> QED
      BY <3>1, <3>2
  <2>11. \A v : Users(v)' = Users(v)
    BY <1>3, <1>5, <1>10 DEF Users
  <2>12. ASSUME NEW v \in Watchers PROVE WatcherInv(v)'
    <3>1. CASE v = w
      <4>1. WatcherInv(w) /\ Own(w) = 0
        BY <1>4, <1>9 DEF AlInv, Own
      <4>2. PICK k \in Nat : k = Cardinality(Users(w))
        BY UsersAreFinite
      <4>3. n = k /\ Cardinality(Users(w))' = k
        BY <2>1, <2>11, <4>1, <4>2 DEF WatcherInv
      <4>4. Own(w)' = 1
        BY <1>4, <2>5 DEF Own
      <4>5. a_task'[t].watcher = w
        BY <2>4
      <4> QED
        BY <3>1, <2>5, <4>3, <4>4, <4>5 DEF WatcherInv
    <3>2. CASE v # w
      <4>1. /\ WatcherInv(v) /\ a_watcher[v].task \in Tasks \cup {None} /\ a_watcher'[v] = a_watcher[v]
            /\ Users(v)' = Users(v)
        BY <3>2, <2>5, <2>11 DEF AlInv, AlType
      <4>2. ASSUME NEW u, u = a_watcher[v].task, u # None
            PROVE  /\ a_task'[u].watcher = a_task[u].watcher
                   /\ Al!Free(u)' <=> Al!Free(u)
                   /\ Al!Scheduled(u)' <=> Al!Scheduled(u)
        <5>1. u \in Tasks /\ a_task[u].watcher = v
          BY <4>1, <4>2 DEF WatcherInv
        <5>2. u # t
          BY <1>9, <4>2, <5>1, <3>2, <4>1
        <5> QED
          BY <5>1, <5>2, <2>4, <2>7, <2>8
      <4> QED
        BY <4>1, <4>2, WatcherStays
    <3> QED
      BY <3>1, <3>2
  <2>13. ASSUME NEW d \in Callers PROVE CallerInv(d)'
    <3>1. CASE d = c
      BY <1>6, <3>1
    <3>2. CASE d # c
      <4>1. /\ CallerInv(d) /\ a_pc'[d] = a_pc[d] /\ a_arg'[d] = a_arg[d]
            /\ a_arg[d].watcher \in Watchers \cup {None} /\ a_arg[d].task \in Tasks \cup {None}
        BY <3>2, <1>3, <1>5 DEF AlInv, AlType
      <4>2. a_arg[d].watcher # w
        BY <1>4, <1>9, <3>2
      <4>5. a_arg[d].watcher # None => a_watcher'[a_arg[d].watcher].task = a_watcher[a_arg[d].watcher].task
        BY <2>5, <4>1, <4>2
      <4>6. a_pc[d] \in Waiting /\ a_arg[d].task # None => a_watcher'[a_arg[d].watcher].task = a_arg[d].task
        BY <4>1, <4>5 DEF CallerInv, Waiting, Refers
      <4>7. a_pc[d] \in {"acquire", "available", "swap", "watch"} /\ a_arg[d].watcher # None
             => /\ a_watcher'[a_arg[d].watcher].task = None
                /\ \A e \in Callers : a_arg'[e].watcher = a_arg[d].watcher => e = d
        BY <1>3, <4>1, <4>5 DEF CallerInv
      <4> QED
        BY <4>1, <4>6, <4>7, CallerStays
    <3> QED
      BY <3>1, <3>2
  <2> QED
    BY <2>6, <2>7, <2>10, <2>12, <2>13 DEF AlInv
<1> QED
  BY <1>8, <1>9

LEMMA PushTaskStep == ASSUME AlInv, NEW c \in Callers, Al!PushTask(c) PROVE AlInv'
<1>1. PICK t : t = a_arg[c].task
  OBVIOUS
<1>2. /\ a_pc[c] = "push" /\ a_pc' = [a_pc EXCEPT ![c] = "idle"]
      /\ \/ /\ a_task' = [a_task EXCEPT ![t].at = "queued"]
            /\ UNCHANGED <<a_m_task_list, a_m_list_index>>
         \/ Al!FreeTask(t) /\ a_task' = a_task
      /\ a_arg' = [a_arg EXCEPT ![c].task = None, ![c].watcher = None]
      /\ a_watcher' = a_watcher
  BY <1>1 DEF Al!PushTask, Al!list_vars
<1>3. t \in Tasks /\ TaskInv(t) /\ Acquired(c, t)
  <2>1. CallerInv(c) /\ t \in Tasks \cup {None}
    BY <1>1 DEF AlInv, AlType
  <2>2. t \in Tasks
    BY <1>1, <1>2, <2>1 DEF CallerInv
  <2> QED
    BY <1>1, <1>2, <2>2 DEF AlInv, Acquired
<1>4. /\ a_pc' \in [Callers -> Places] /\ a_pc'[c] = "idle"
      /\ \A d \in Callers : d # c => a_pc'[d] = a_pc[d]
  BY <1>2 DEF AlInv, AlType, Places
<1>5. /\ a_arg' \in [Callers -> ArgRecord] /\ a_arg'[c].task = None /\ a_arg'[c].watcher = None
      /\ \A d \in Callers : d # c => a_arg'[d] = a_arg[d]
  BY <1>2, ArgCleared DEF AlInv
<1>10. ~Al!Free(t) /\ Al!Scheduled(t) /\ a_task[t].at = "idle" /\ \A d \in Callers : Acquired(d, t) => d = c
  BY <1>3, ScheduledIs DEF TaskInv
<1>6. /\ a_task' \in [Tasks -> TaskRecord]
      /\ \A u \in Tasks : a_task'[u].watcher = a_task[u].watcher /\ (u # t => a_task'[u] = a_task[u])
      /\ a_m_task_list' \in [0 .. 1 -> Seq(Tasks)] /\ a_m_list_index' = a_m_list_index
      /\ Once(a_m_task_list)'
      /\ \A u : u # t => (Al!Free(u)' <=> Al!Free(u))
      /\ Al!Free(t)' <=> a_task'[t].at = "idle"
  <2>1. CASE a_task' = [a_task EXCEPT ![t].at = "queued"] /\ UNCHANGED <<a_m_task_list, a_m_list_index>>
    <3>1. /\ a_task' \in [Tasks -> TaskRecord] /\ a_task'[t].at = "queued" /\ a_task'[t].watcher = a_task[t].watcher
          /\ \A u \in Tasks : u # t => a_task'[u] = a_task[u]
      BY <1>3, <2>1, TaskAt DEF AlInv
    <3>2. a_m_task_list' \in [0 .. 1 -> Seq(Tasks)] /\ Once(a_m_task_list)' /\ \A u : Al!Free(u)' <=> Al!Free(u)
      BY <2>1 DEF AlInv, AlType, Once, Al!Free
    <3> QED
      BY <1>10, <2>1, <3>1, <3>2
  <2>2. CASE Al!FreeTask(t) /\ a_task' = a_task
    <3>1. /\ a_m_task_list' \in [0 .. 1 -> Seq(Tasks)] /\ Once(a_m_task_list)'
          /\ a_m_list_index' = a_m_list_index
          /\ \A u : Al!Free(u)' <=> Al!Free(u) \/ u = t
      BY <1>3, <1>10, <2>2, TaskIsFreed
    <3>2. a_task \in [Tasks -> TaskRecord]
      BY DEF AlInv, AlType, TaskRecord
    <3> QED
      BY <1>10, <2>2, <3>1, <3>2
  <2> QED
    BY <1>2, <2>1, <2>2
<1>7. AlType'
  BY <1>2, <1>4, <1>5, <1>6 DEF AlInv, AlType, TaskRecord, ArgRecord
<1>9. /\ \A u : ~Acquired(c, u)'
      /\ \A u : \A d \in Callers : d # c => (Acquired(d, u)' <=> Acquired(d, u))
      /\ \A u : u # t => ~Acquired(c, u)
  BY <1>1, <1>4, <1>5 DEF Acquired
<1>11. /\ \A u \in Tasks : u # t => (Al!Scheduled(u)' <=> Al!Scheduled(u))
       /\ Al!Scheduled(t)' <=> a_task'[t].at # "idle"
  <2>1. \A u : Al!Scheduled(u)' <=> a_task'[u].at # "idle" \/ \E d \in Callers : Acquired(d, u)'
    BY DEF Al!Scheduled, Acquired
  <2>2. \A d \in Callers : ~Acquired(d, t)'
    BY <1>9, <1>10
  <2>3. \A u \in Tasks : u # t => (Al!Scheduled(u)' <=> Al!Scheduled(u))
    BY <1>6, <1>9, <2>1, ScheduledIs
  <2> QED
    BY <2>1, <2>2, <2>3
<1>12. \A v : Users(v)' = Users(v)
  BY <1>2, <1>4, <1>5 DEF Users, Refers
<1>13. ASSUME NEW u \in Tasks PROVE TaskInv(u)'
  <2>1. CASE u = t
    <3>1. /\ a_task'[t].watcher = a_task[t].watcher /\ a_watcher' = a_watcher
          /\ \A d \in Callers : ~Acquired(d, t)'
      BY <1>2, <1>3, <1>6, <1>9, <1>10
    <3> QED
      BY <1>3, <1>6, <1>11, <2>1, <3>1 DEF TaskInv
  <2>2. CASE u # t
    <3>1. /\ TaskInv(u) /\ a_task'[u] = a_task[u] /\ a_watcher' = a_watcher
          /\ Al!Free(u)' <=> Al!Free(u)
          /\ \A d \in Callers : Acquired(d, u)' <=> Acquired(d, u)
      BY <2>2, <1>2, <1>6, <1>9 DEF AlInv
    <3> QED
      BY <3>1, TaskStays
  <2> QED
    BY <2>1, <2>2
<1>14. ASSUME NEW v \in Watchers PROVE WatcherInv(v)'
  <2>1. WatcherInv(v) /\ a_watcher[v].task \in Tasks \cup {None} /\ a_watcher'[v] = a_watcher[v] /\ Users(v)' = Users(v)
    BY <1>2, <1>12 DEF AlInv, AlType
  <2>2. ASSUME NEW u, u = a_watcher[v].task, u # None
        PROVE  /\ a_task'[u].watcher = a_task[u].watcher
               /\ Al!Free(u)' \/ Al!Scheduled(u)' => Al!Free(u) \/ Al!Scheduled(u)
    <3>1. u \in Tasks
      BY <2>1, <2>2
    <3> QED
      BY <3>1, <1>6, <1>10, <1>11
  <2> QED
    BY <2>1, <2>2, WatcherStays
<1>15. ASSUME NEW d \in Callers PROVE CallerInv(d)'
  <2>1. CASE d = c
    BY <2>1, <1>4, <1>5 DEF CallerInv, Waiting, Refers
  <2>2. CASE d # c
    <3>1. /\ CallerInv(d) /\ a_pc'[d] = a_pc[d] /\ a_arg'[d] = a_arg[d] /\ a_watcher' = a_watcher
      BY <2>2, <1>2, <1>4, <1>5 DEF AlInv
    <3>3. a_pc[d] \in Waiting /\ a_arg[d].task # None => a_watcher'[a_arg[d].watcher].task = a_arg[d].task
      BY <3>1 DEF CallerInv
    <3>4. a_pc[d] \in {"acquire", "available", "swap", "watch"} /\ a_arg[d].watcher # None
             => /\ a_watcher'[a_arg[d].watcher].task = None
                /\ \A e \in Callers : a_arg'[e].watcher = a_arg[d].watcher => e = d
      BY <3>1, <1>5 DEF CallerInv
    <3> QED
      BY <3>1, <3>3, <3>4, CallerStays
  <2> QED
    BY <2>1, <2>2
<1> QED
  BY <1>6, <1>7, <1>13, <1>14, <1>15 DEF AlInv

\* A watcher's task is referred to, and checked.
LEMMA ReferenceStep == ASSUME AlInv, NEW c \in Callers, Al!Reference(c) PROVE AlInv'
<1>1. PICK w : w = a_arg[c].watcher
  OBVIOUS
<1>2. /\ a_pc[c] = "reference" /\ a_pc' = [a_pc EXCEPT ![c] = "check"]
      /\ a_watcher' = [a_watcher EXCEPT ![w].refs = @ + 1]
      /\ UNCHANGED <<a_m_task_list, a_m_list_index, a_task, a_arg>>
  BY <1>1 DEF Al!Reference, Al!list_vars
<1>3. w \in Watchers /\ a_pc[c] \notin Refers
  BY <1>1, <1>2 DEF AlInv, AlType, CallerInv, Refers
<1>4. /\ a_pc' \in [Callers -> Places] /\ a_pc'[c] = "check"
      /\ \A d \in Callers : d # c => a_pc'[d] = a_pc[d]
  BY <1>2 DEF AlInv, AlType, Places
<1>5. /\ a_watcher' \in [Watchers -> WatcherRecord]
      /\ a_watcher'[w].refs = a_watcher[w].refs + 1
      /\ \A v \in Watchers : a_watcher'[v].task = a_watcher[v].task /\ a_watcher'[v].state = a_watcher[v].state
      /\ \A v \in Watchers : v # w => a_watcher'[v] = a_watcher[v]
  <2>1. PICK x \in WatcherRecord : x = a_watcher[w]
    BY <1>3 DEF AlInv, AlType, WatcherRecord
  <2>2. PICK y : y = [x EXCEPT !.refs = x.refs + 1]
    OBVIOUS
  <2>3. y \in WatcherRecord /\ y.refs = x.refs + 1 /\ y.task = x.task /\ y.state = x.state
    BY <2>2 DEF WatcherRecord
  <2>4. a_watcher' = [a_watcher EXCEPT ![w] = y]
    BY <1>2, <2>1, <2>2
  <2>5. a_watcher \in [Watchers -> WatcherRecord]
    BY DEF AlInv, AlType, WatcherRecord
  <2> QED
    BY <1>3, <2>1, <2>3, <2>4, <2>5
<1>6. AlType'
  BY <1>2, <1>4, <1>5 DEF AlInv, AlType, WatcherRecord
<1>7. Once(a_m_task_list)' /\ \A u : Al!Free(u)' <=> Al!Free(u)
  BY <1>2 DEF AlInv, Once, Al!Free
<1>8. \A u : \A d \in Callers : Acquired(d, u)' <=> Acquired(d, u)
  BY <1>2, <1>4 DEF Acquired
<1>9. \A u : Al!Scheduled(u)' <=> Al!Scheduled(u)
  <2>1. \A u : Al!Scheduled(u)' <=> a_task'[u].at # "idle" \/ \E d \in Callers : Acquired(d, u)'
    BY DEF Al!Scheduled, Acquired
  <2> QED
    BY <1>2, <1>8, <2>1, ScheduledIs
<1>10. Users(w)' = Users(w) \cup {c} /\ c \notin Users(w) /\ \A v : v # w => Users(v)' = Users(v)
  <2>1. a_pc'[c] \in Refers
    BY <1>4 DEF Refers
  <2> QED
    BY <1>1, <1>2, <1>3, <1>4, <2>1 DEF Users
<1>11. ASSUME NEW u \in Tasks PROVE TaskInv(u)'
  <2>1. TaskInv(u) /\ a_task' = a_task /\ a_task[u].watcher \in Watchers \cup {None}
    BY <1>2 DEF AlInv, AlType
  <2>2. a_task[u].watcher # None => a_watcher'[a_task[u].watcher].task = a_watcher[a_task[u].watcher].task
    BY <1>5, <2>1
  <2>3. /\ Al!Free(u)' <=> Al!Free(u)
        /\ \A d \in Callers : Acquired(d, u)' <=> Acquired(d, u)
    BY <1>7, <1>8
  <2> QED
    BY <2>1, <2>2, <2>3, TaskStays
<1>12. ASSUME NEW v \in Watchers PROVE WatcherInv(v)'
  <2>1. CASE v = w
    <3>1. PICK k \in Nat : k = Cardinality(Users(w))
      BY UsersAreFinite
    <3>2. Cardinality(Users(w))' = k + 1
      <4>1. Cardinality(Users(w) \cup {c}) = k + 1
        BY <1>10, <3>1, UsersAreFinite, FS_AddElement
      <4> QED
        BY <1>10, <4>1
    <3>3. PICK t : t = a_watcher[w].task
      OBVIOUS
    <3>4. Own(w) \in {0, 1} /\ Own(w)' = Own(w)
      BY <1>3, <1>5 DEF Own
    <3>5. a_watcher[w].refs = k + Own(w)
      BY <1>3, <3>1 DEF AlInv, WatcherInv
    <3>6. a_watcher'[w].refs = Cardinality(Users(w))' + Own(w)' /\ a_watcher'[w].refs > 0
      BY <1>5, <3>2, <3>4, <3>5
    <3>7. a_watcher'[w].task = t /\ a_watcher'[w].state = a_watcher[w].state
      BY <1>3, <1>5, <3>3
    <3>8. t # None => /\ a_task'[t].watcher = w
                      /\ a_watcher[w].state \in {"Pending", "Complete", "Cancelled"}
                      /\ Al!Free(t)' \/ Al!Scheduled(t)' => a_watcher[w].state = "Pending"
      <4>1. t # None => /\ a_task[t].watcher = w
                        /\ a_watcher[w].state \in {"Pending", "Complete", "Cancelled"}
                        /\ Al!Free(t) \/ Al!Scheduled(t) => a_watcher[w].state = "Pending"
        BY <1>3, <3>3 DEF AlInv, WatcherInv
      <4> QED
        BY <1>2, <1>7, <1>9, <4>1
    <3> QED
      BY <2>1, <3>6, <3>7, <3>8 DEF WatcherInv
  <2>2. CASE v # w
    <3>1. WatcherInv(v) /\ a_watcher'[v] = a_watcher[v] /\ Users(v)' = Users(v)
      BY <2>2, <1>5, <1>10 DEF AlInv
    <3>2. \A u : u = a_watcher[v].task /\ u # None =>
             /\ a_task'[u].watcher = a_task[u].watcher
             /\ Al!Free(u)' <=> Al!Free(u)
             /\ Al!Scheduled(u)' <=> Al!Scheduled(u)
      BY <1>2, <1>7, <1>9
    <3> QED
      BY <3>1, <3>2, WatcherStays
  <2> QED
    BY <2>1, <2>2
<1>13. ASSUME NEW d \in Callers PROVE CallerInv(d)'
  <2>1. CASE d = c
    <3>1. a_arg' = a_arg /\ a_arg[c].watcher # None /\ a_pc'[c] = "check"
      BY <1>1, <1>2, <1>3, <1>4
    <3> QED
      BY <2>1, <3>1 DEF CallerInv, Waiting, Refers
  <2>2. CASE d # c
    <3>1. /\ CallerInv(d) /\ a_pc'[d] = a_pc[d] /\ a_arg' = a_arg /\ a_task' = a_task
          /\ a_arg[d].watcher \in Watchers \cup {None}
      BY <2>2, <1>2, <1>4 DEF AlInv, AlType
    <3>2. a_arg[d].watcher # None => a_watcher'[a_arg[d].watcher].task = a_watcher[a_arg[d].watcher].task
      BY <1>5, <3>1
    <3>3. a_pc[d] \in Waiting /\ a_arg[d].task # None => a_watcher'[a_arg[d].watcher].task = a_arg[d].task
      BY <3>1, <3>2 DEF CallerInv, Waiting, Refers
    <3>4. a_pc[d] \in {"acquire", "available", "swap", "watch"} /\ a_arg[d].watcher # None
             => /\ a_watcher'[a_arg[d].watcher].task = None
                /\ \A e \in Callers : a_arg'[e].watcher = a_arg[d].watcher => e = d
      BY <3>1, <3>2 DEF CallerInv
    <3> QED
      BY <3>1, <3>3, <3>4, CallerStays
  <2> QED
    BY <2>1, <2>2
<1> QED
  BY <1>6, <1>7, <1>11, <1>12, <1>13 DEF AlInv

LEMMA ExecuteStep == ASSUME AlInv, NEW t \in Tasks, Al!Execute(t) PROVE AlInv'
<1>1. /\ a_task[t].at = "queued" /\ a_task' = [a_task EXCEPT ![t].at = "running"]
      /\ UNCHANGED <<a_m_task_list, a_m_list_index, a_watcher, a_pc, a_arg>>
  BY DEF Al!Execute, Al!list_vars
<1>2. /\ a_task' \in [Tasks -> TaskRecord]
      /\ \A u \in Tasks : /\ a_task'[u].at = "idle" <=> a_task[u].at = "idle"
                          /\ a_task'[u].watcher = a_task[u].watcher
  <2>1. /\ a_task' \in [Tasks -> TaskRecord] /\ a_task'[t].at = "running" /\ a_task'[t].watcher = a_task[t].watcher
        /\ \A u \in Tasks : u # t => a_task'[u] = a_task[u]
    BY <1>1, TaskAt DEF AlInv
  <2> QED
    BY <1>1, <2>1
<1>3. AlType'
  BY <1>1, <1>2 DEF AlInv, AlType, TaskRecord
<1>4. ASSUME t \in Callers PROVE CallerInv(t)'
  <2>1. CallerInv(t) /\ a_pc' = a_pc /\ a_arg' = a_arg /\ a_watcher' = a_watcher /\ a_arg[t].task \in Tasks \cup {None}
    BY <1>1, <1>4 DEF AlInv, AlType
  <2>3. a_pc[t] \in Waiting /\ a_arg[t].task # None => a_watcher'[a_arg[t].watcher].task = a_arg[t].task
    BY <2>1 DEF CallerInv
  <2>4. a_pc[t] \in {"acquire", "available", "swap", "watch"} /\ a_arg[t].watcher # None
           => /\ a_watcher'[a_arg[t].watcher].task = None
              /\ \A e \in Callers : a_arg'[e].watcher = a_arg[t].watcher => e = t
    BY <2>1 DEF CallerInv
  <2> QED
    BY <2>1, <2>3, <2>4, CallerStays
<1>5. \A u \in Tasks : Acquired(t, u)' <=> Acquired(t, u)
  BY <1>1 DEF Acquired
<1> QED
  BY <1>1, <1>2, <1>3, <1>4, <1>5, CallerMoves

LEMMA WakesSleepers ==
    ASSUME AlType, NEW t
    PROVE  /\ Al!Woken(t) \in [Callers -> Places]
           /\ \A d \in Callers : \/ Al!Woken(t)[d] = a_pc[d]
                                 \/ a_pc[d] = "asleep" /\ Al!Woken(t)[d] = "release"
BY DEF AlType, Al!Woken, Places

\* The end of a run, in which the callers keep what they know.
LEMMA FinishStep == ASSUME AlInv, NEW t \in Tasks, Al!Finish(t) PROVE AlInv'
<1>1. a_task[t].at = "running" /\ Al!ReleaseWatcher(t, "Complete") /\ a_pc' = Al!Woken(t) /\ a_arg' = a_arg
  BY DEF Al!Finish
<1>7. /\ a_pc' \in [Callers -> Places]
      /\ \A d \in Callers : a_pc'[d] = a_pc[d] \/ (a_pc[d] = "asleep" /\ a_pc'[d] = "release")
  BY <1>1, WakesSleepers DEF AlInv
<1>2. \A w : Users(w)' = Users(w)
  BY <1>1, <1>7 DEF Users, Refers
<1>3. \A u : \A d \in Callers : Acquired(d, u)' <=> Acquired(d, u)
  BY <1>1, <1>7 DEF Acquired
<1>4. /\ a_m_list_index' = a_m_list_index /\ a_m_task_list' \in [0 .. 1 -> Seq(Tasks)]
      /\ a_task' \in [Tasks -> TaskRecord] /\ a_watcher' \in [Watchers -> WatcherRecord]
      /\ Once(a_m_task_list)'
      /\ \A u \in Tasks : TaskInv(u)'
      /\ \A w \in Watchers : WatcherInv(w)'
      /\ \A w \in Watchers : \/ a_watcher'[w].task = a_watcher[w].task
                             \/ a_watcher'[w].task = None /\ Users(w) = {}
  <2>1. a_task[t].at # "idle" /\ "Complete" \in {"Complete", "Cancelled"}
    BY <1>1
  <2> QED
    BY <1>1, <1>2, <1>3, <2>1, RunEnds DEF TaskRecord, WatcherRecord
<1>5. AlType'
  BY <1>1, <1>4, <1>7 DEF AlInv, AlType, TaskRecord, WatcherRecord
<1>6. ASSUME NEW d \in Callers PROVE CallerInv(d)'
  BY <1>1, <1>4, <1>7, CallerKeeps
<1> QED
  BY <1>4, <1>5, <1>6 DEF AlInv

LEMMA CheckStep == ASSUME AlInv, NEW c \in Callers, Al!Check(c) PROVE AlInv'
<1>1. PICK w : w = a_arg[c].watcher
  OBVIOUS
<1>2. PICK t : t = a_watcher[w].task
  OBVIOUS
<1>3. a_pc[c] = "check" /\ a_arg' = [a_arg EXCEPT ![c].task = t]
  BY <1>1, <1>2 DEF Al!Check
<1>4. w \in Watchers /\ t \in Tasks \cup {None}
  BY <1>1, <1>2, <1>3 DEF AlInv, AlType, CallerInv, Refers
<1>5. /\ a_arg' \in [Callers -> ArgRecord] /\ a_arg'[c].task = t /\ a_arg'[c].watcher = w
      /\ \A d \in Callers : d # c => a_arg'[d] = a_arg[d]
  BY <1>1, <1>3, <1>4, ArgOf DEF AlInv
<1>6. ASSUME NEW next \in {"finish", "release"}, a_pc' = [a_pc EXCEPT ![c] = next]
      PROVE  /\ a_pc' \in [Callers -> Places] /\ a_pc'[c] = next
             /\ \A d \in Callers : d # c => a_pc'[d] = a_pc[d]
  BY <1>6 DEF AlInv, AlType, Places
<1>7. ASSUME NEW next \in {"finish", "release"}, a_pc' = [a_pc EXCEPT ![c] = next]
      PROVE  \A u : \A d \in Callers : Acquired(d, u)' <=> Acquired(d, u)
  BY <1>3, <1>5, <1>6, <1>7 DEF Acquired
<1>8. ASSUME NEW next \in {"finish", "release"}, a_pc' = [a_pc EXCEPT ![c] = next],
             UNCHANGED <<a_m_task_list, a_m_list_index, a_watcher>>, a_task' \in [Tasks -> TaskRecord],
             \A u \in Tasks : /\ a_task'[u].at = "idle" <=> a_task[u].at = "idle"
                              /\ a_task'[u].watcher = a_task[u].watcher,
             next = "finish" => t # None
      PROVE  AlInv'
  <2>1. /\ a_pc' \in [Callers -> Places] /\ a_pc'[c] = next
        /\ \A d \in Callers : d # c => a_pc'[d] = a_pc[d]
    BY <1>6, <1>8
  <2>2. \A u \in Tasks : Acquired(c, u)' <=> Acquired(c, u)
    BY <1>7, <1>8
  <2>3. AlType'
    BY <1>5, <1>8, <2>1 DEF AlInv, AlType, ArgRecord, TaskRecord
  <2>4. CallerInv(c)'
    <3>1. w # None /\ a_watcher'[w].task = t
      BY <1>2, <1>4, <1>8
    <3> QED
      BY <1>5, <1>8, <2>1, <3>1 DEF CallerInv, Waiting, Refers
  <2>5. a_pc[c] \in Refers /\ a_pc'[c] \in Refers
    BY <1>3, <2>1 DEF Refers
  <2> QED
    BY <1>1, <1>3, <1>5, <1>8, <2>1, <2>2, <2>3, <2>4, <2>5, CallerMoves
<1>9. CASE a_pc' = [a_pc EXCEPT ![c] = "release"] /\ UNCHANGED <<a_m_task_list, a_m_list_index, a_task, a_watcher>>
  <2>1. a_task' \in [Tasks -> TaskRecord]
    BY <1>9 DEF AlInv, AlType, TaskRecord
  <2> QED
    BY <1>8, <1>9, <2>1
<1>10. CASE t # None /\ a_pc' = [a_pc EXCEPT ![c] = "finish"] /\ UNCHANGED <<a_m_task_list, a_m_list_index, a_task, a_watcher>>
  <2>1. a_task' \in [Tasks -> TaskRecord]
    BY <1>10 DEF AlInv, AlType, TaskRecord
  <2> QED
    BY <1>8, <1>10, <2>1
<1>11. CASE /\ t # None /\ a_pc' = [a_pc EXCEPT ![c] = "finish"] /\ a_task' = [a_task EXCEPT ![t].finish = FALSE]
            /\ UNCHANGED <<a_m_task_list, a_m_list_index, a_watcher>>
  <2>1. PICK x \in TaskRecord : x = a_task[t]
    BY <1>4, <1>11 DEF AlInv, AlType, TaskRecord
  <2>2. PICK y : y = [x EXCEPT !.finish = FALSE]
    OBVIOUS
  <2>3. y \in TaskRecord /\ y.at = x.at /\ y.watcher = x.watcher
    BY <2>2 DEF TaskRecord
  <2>4. a_task' = [a_task EXCEPT ![t] = y] /\ a_task \in [Tasks -> TaskRecord]
    BY <1>11, <2>1, <2>2 DEF AlInv, AlType, TaskRecord
  <2>5. /\ a_task' \in [Tasks -> TaskRecord]
        /\ \A u \in Tasks : /\ a_task'[u].at = "idle" <=> a_task[u].at = "idle"
                            /\ a_task'[u].watcher = a_task[u].watcher
    BY <2>1, <2>3, <2>4
  <2> QED
    BY <1>8, <1>11, <2>5
<1>12. CASE /\ t # None /\ a_task[t].at = "queued" /\ a_pc' = [Al!Woken(t) EXCEPT ![c] = "release"]
            /\ Al!ReleaseWatcher(t, "Cancelled")
  <2>1. /\ a_pc' \in [Callers -> Places] /\ a_pc'[c] = "release"
        /\ \A d \in Callers : d # c => a_pc'[d] = a_pc[d] \/ (a_pc[d] = "asleep" /\ a_pc'[d] = "release")
    <3>1. /\ Al!Woken(t) \in [Callers -> Places]
          /\ \A d \in Callers : \/ Al!Woken(t)[d] = a_pc[d]
                                \/ a_pc[d] = "asleep" /\ Al!Woken(t)[d] = "release"
      BY WakesSleepers DEF AlInv
    <3> QED
      BY <1>12, <3>1 DEF Places
  <2>2. \A u : \A d \in Callers : Acquired(d, u)' <=> Acquired(d, u)
    BY <1>3, <1>5, <2>1 DEF Acquired
  <2>3. \A v : Users(v)' = Users(v)
    BY <1>1, <1>3, <1>5, <2>1 DEF Users, Refers
  <2>4. /\ a_m_list_index' = a_m_list_index /\ a_m_task_list' \in [0 .. 1 -> Seq(Tasks)]
        /\ a_task' \in [Tasks -> TaskRecord] /\ a_watcher' \in [Watchers -> WatcherRecord]
        /\ Once(a_m_task_list)'
        /\ \A u \in Tasks : TaskInv(u)'
        /\ \A v \in Watchers : WatcherInv(v)'
        /\ \A v \in Watchers : \/ a_watcher'[v].task = a_watcher[v].task
                               \/ a_watcher'[v].task = None /\ Users(v) = {}
    <3>1. t \in Tasks /\ a_task[t].at # "idle" /\ "Cancelled" \in {"Complete", "Cancelled"}
      BY <1>4, <1>12
    <3> QED
      BY <1>12, <2>2, <2>3, <3>1, RunEnds DEF TaskRecord, WatcherRecord
  <2>5. AlType'
    BY <1>5, <2>1, <2>4 DEF AlInv, AlType, ArgRecord, TaskRecord, WatcherRecord
  <2>6. ASSUME NEW d \in Callers PROVE CallerInv(d)'
    <3>1. CASE d = c
      <4>1. c \in Users(w)
        BY <1>1, <1>3 DEF Users, Refers
      <4>2. a_watcher'[w].task = t /\ w # None
        BY <1>2, <1>4, <2>4, <4>1
      <4> QED
        BY <3>1, <1>5, <2>1, <4>2 DEF CallerInv, Waiting, Refers
    <3>2. CASE d # c
      <4>1. /\ a_pc'[d] = a_pc[d] \/ (a_pc[d] = "asleep" /\ a_pc'[d] = "release")
            /\ a_arg'[d] = a_arg[d] /\ \A e \in Callers : a_arg'[e].watcher = a_arg[e].watcher
        BY <3>2, <1>1, <1>5, <2>1
      <4> QED
        BY <4>1, <2>4, CallerKeeps
    <3> QED
      BY <3>1, <3>2
  <2> QED
    BY <2>4, <2>5, <2>6 DEF AlInv
<1>13. \/ a_pc' = [a_pc EXCEPT ![c] = "release"] /\ UNCHANGED <<a_m_task_list, a_m_list_index, a_task, a_watcher>>
       \/ /\ t # None /\ a_pc' = [a_pc EXCEPT ![c] = "finish"]
          /\ UNCHANGED <<a_m_task_list, a_m_list_index, a_task, a_watcher>>
       \/ /\ t # None /\ a_pc' = [a_pc EXCEPT ![c] = "finish"] /\ a_task' = [a_task EXCEPT ![t].finish = FALSE]
          /\ UNCHANGED <<a_m_task_list, a_m_list_index, a_watcher>>
       \/ /\ t # None /\ a_task[t].at = "queued" /\ a_pc' = [Al!Woken(t) EXCEPT ![c] = "release"]
          /\ Al!ReleaseWatcher(t, "Cancelled")
  BY <1>1, <1>2 DEF Al!Check, Al!list_vars
<1> QED
  BY <1>9, <1>10, <1>11, <1>12, <1>13

\* A reference is given up, and the task freed when it was the last.
LEMMA ReleaseReferenceStep == ASSUME AlInv, NEW c \in Callers, Al!ReleaseReference(c) PROVE AlInv'
<1>1. PICK w : w = a_arg[c].watcher
  OBVIOUS
<1>2. /\ a_pc[c] = "release" /\ a_pc' = [a_pc EXCEPT ![c] = "idle"]
      /\ a_arg' = [a_arg EXCEPT ![c].task = None, ![c].watcher = None]
      /\ Al!Release(w, a_watcher[w], a_task)
  BY <1>1 DEF Al!ReleaseReference
<1>3. w \in Watchers /\ WatcherInv(w) /\ c \in Users(w)
  BY <1>1, <1>2 DEF AlInv, AlType, CallerInv, Users, Refers
<1>4. PICK t : t = a_watcher[w].task
  OBVIOUS
<1>5. PICK k \in Nat : k = Cardinality(Users(w))
  BY UsersAreFinite
<1>6. PICK own \in {0, 1} : own = Own(w)
  BY DEF Own
<1>7. k >= 1 /\ (k = 1 => Users(w) = {c}) /\ Cardinality(Users(w) \ {c}) = k - 1
  <2>1. Cardinality(Users(w) \ {c}) = k - 1 /\ IsFiniteSet(Users(w) \ {c})
    BY <1>3, <1>5, UsersAreFinite, FS_RemoveElement
  <2>2. k - 1 \in Nat
    BY <2>1, FS_CardinalityType
  <2>3. k = 1 => Users(w) \ {c} = {}
    BY <2>1, FS_EmptySet
  <2> QED
    BY <1>3, <2>1, <2>2, <2>3
<1>8. PICK n \in Nat : n = (k - 1) + own
  BY <1>7
<1>9. /\ a_watcher[w] = [state |-> a_watcher[w].state, refs |-> n + 1, task |-> t]
      /\ t \in Tasks \cup {None} /\ own = IF t # None /\ a_watcher[w].state = "Pending" THEN 1 ELSE 0
  <2>1. a_watcher[w].refs = n + 1
    BY <1>3, <1>5, <1>6, <1>7, <1>8 DEF WatcherInv
  <2>2. a_watcher[w] = [state |-> a_watcher[w].state, refs |-> a_watcher[w].refs, task |-> a_watcher[w].task]
    BY <1>3, WatcherIs DEF AlInv
  <2>3. t \in Tasks \cup {None} /\ own = IF t # None /\ a_watcher[w].state = "Pending" THEN 1 ELSE 0
    BY <1>3, <1>4, <1>6 DEF AlInv, AlType, Own
  <2> QED
    BY <1>4, <2>1, <2>2, <2>3
<1>10. t # None => /\ t \in Tasks /\ a_task[t].watcher = w
                   /\ a_watcher[w].state \in {"Pending", "Complete", "Cancelled"}
                   /\ Al!Free(t) \/ Al!Scheduled(t) => a_watcher[w].state = "Pending"
  BY <1>3, <1>4, <1>9 DEF WatcherInv
<1>11. PICK last \in BOOLEAN : last <=> t # None /\ n = 0
  OBVIOUS
<1>12. PICK s : s = a_watcher[w].state
  OBVIOUS
<1>13. /\ a_watcher' = [a_watcher EXCEPT ![w] = [state |-> s, refs |-> n, task |-> IF n = 0 THEN None ELSE t]]
       /\ a_task' = IF t # None /\ n = 0 THEN [a_task EXCEPT ![t].watcher = None] ELSE a_task
       /\ IF t # None /\ n = 0 THEN Al!FreeTask(t) ELSE UNCHANGED <<a_m_task_list, a_m_list_index>>
  <2>1. Al!Release(w, [state |-> s, refs |-> n + 1, task |-> t], a_task)
    BY <1>2, <1>9, <1>12
  <2>2. s \in {"Complete", "Cancelled"} \/ n # 0 \/ t = None
    BY <1>7, <1>8, <1>9, <1>10, <1>12
  <2> QED
    BY <2>1, <2>2, Releases
<1>14. /\ a_pc' \in [Callers -> Places] /\ a_pc'[c] = "idle"
       /\ \A d \in Callers : d # c => a_pc'[d] = a_pc[d]
  BY <1>2 DEF AlInv, AlType, Places
<1>15. /\ a_arg' \in [Callers -> ArgRecord] /\ a_arg'[c].task = None /\ a_arg'[c].watcher = None
       /\ \A d \in Callers : d # c => a_arg'[d] = a_arg[d]
  BY <1>2, ArgCleared DEF AlInv
<1>16. last => ~Al!Scheduled(t) /\ ~Al!Free(t) /\ own = 0
  BY <1>7, <1>8, <1>9, <1>10, <1>11
<1>17. /\ a_task' \in [Tasks -> TaskRecord]
       /\ \A u \in Tasks : /\ a_task'[u].at = a_task[u].at
                           /\ a_task'[u].watcher = IF last /\ u = t THEN None ELSE a_task[u].watcher
  <2>1. a_task \in [Tasks -> TaskRecord]
    BY DEF AlInv, AlType, TaskRecord
  <2>2. CASE last
    <3>1. PICK x \in TaskRecord : x = a_task[t]
      BY <1>10, <1>11, <2>1, <2>2
    <3>2. PICK y : y = [x EXCEPT !.watcher = None]
      OBVIOUS
    <3>3. y \in TaskRecord /\ y.at = x.at /\ y.watcher = None
      BY <3>2 DEF TaskRecord
    <3>4. a_task' = [a_task EXCEPT ![t] = y]
      BY <1>11, <1>13, <2>2, <3>1, <3>2
    <3> QED
      BY <1>10, <1>11, <2>1, <2>2, <3>1, <3>3, <3>4
  <2>3. CASE ~last
    BY <1>11, <1>13, <2>1, <2>3
  <2> QED
    BY <2>2, <2>3
<1>18. /\ a_watcher' \in [Watchers -> WatcherRecord]
       /\ a_watcher'[w].refs = n /\ a_watcher'[w].state = s /\ a_watcher'[w].task = IF n = 0 THEN None ELSE t
       /\ \A v \in Watchers : v # w => a_watcher'[v] = a_watcher[v]
  <2>1. PICK x : x = [state |-> s, refs |-> n, task |-> IF n = 0 THEN None ELSE t]
    OBVIOUS
  <2>2. a_watcher \in [Watchers -> WatcherRecord] /\ s \in {"Uninitialized", "Pending", "Complete", "Cancelled"}
    BY <1>3, <1>12 DEF AlInv, AlType, WatcherRecord
  <2>3. /\ x \in WatcherRecord /\ x.refs = n /\ x.state = s
        /\ x.task = IF n = 0 THEN None ELSE t
    BY <1>9, <2>1, <2>2 DEF WatcherRecord
  <2>4. a_watcher' = [a_watcher EXCEPT ![w] = x]
    BY <1>13, <2>1
  <2> QED
    BY <1>3, <2>2, <2>3, <2>4
<1>19. /\ a_m_task_list' \in [0 .. 1 -> Seq(Tasks)] /\ Once(a_m_task_list)' /\ a_m_list_index' = a_m_list_index
       /\ \A u : Al!Free(u)' <=> Al!Free(u) \/ (last /\ u = t)
  <2>1. CASE last
    BY <1>10, <1>11, <1>13, <1>16, <2>1, TaskIsFreed
  <2>2. CASE ~last
    BY <1>11, <1>13, <2>2 DEF AlInv, AlType, Once, Al!Free
  <2> QED
    BY <2>1, <2>2
<1>20. AlType'
  BY <1>14, <1>15, <1>17, <1>18, <1>19 DEF AlInv, AlType, ArgRecord, TaskRecord, WatcherRecord
<1>21. \A u : \A d \in Callers : Acquired(d, u)' <=> Acquired(d, u)
  BY <1>2, <1>14, <1>15 DEF Acquired
<1>22. \A u \in Tasks : Al!Scheduled(u)' <=> Al!Scheduled(u)
  <2>1. \A u : Al!Scheduled(u)' <=> a_task'[u].at # "idle" \/ \E d \in Callers : Acquired(d, u)'
    BY DEF Al!Scheduled, Acquired
  <2> QED
    BY <1>17, <1>21, <2>1, ScheduledIs
<1>23. Users(w)' = Users(w) \ {c} /\ \A v \in Watchers : v # w => Users(v)' = Users(v)
  <2>1. None \notin Watchers
    BY TasksAssumption
  <2> QED
    BY <1>1, <1>2, <1>3, <1>14, <1>15, <2>1 DEF Users
<1>24. ASSUME NEW u \in Tasks PROVE TaskInv(u)'
  <2>1. CASE last /\ u = t
    <3>1. /\ TaskInv(t) /\ a_task'[t].at = a_task[t].at /\ a_task'[t].watcher = None
          /\ Al!Free(t)'
          /\ ~Al!Scheduled(t)
          /\ \A d \in Callers : Acquired(d, t)' <=> Acquired(d, t)
      BY <1>16, <1>17, <1>19, <1>21, <2>1 DEF AlInv
    <3>2. a_task[t].at = "idle" /\ \A d \in Callers : ~Acquired(d, t)
      BY <3>1, ScheduledIs
    <3> QED
      BY <2>1, <3>1, <3>2 DEF TaskInv
  <2>2. CASE ~(last /\ u = t)
    <3>1. /\ TaskInv(u) /\ a_task'[u].at = a_task[u].at /\ a_task'[u].watcher = a_task[u].watcher
          /\ Al!Free(u)' <=> Al!Free(u)
          /\ \A d \in Callers : Acquired(d, u)' <=> Acquired(d, u)
          /\ a_task[u].watcher \in Watchers \cup {None}
      BY <1>17, <1>19, <1>21, <2>2 DEF AlInv, AlType
    <3>2. a_task[u].watcher # None
            => a_watcher'[a_task[u].watcher].task = a_watcher[a_task[u].watcher].task
      <4>1. CASE a_task[u].watcher = w
        <5>1. w # None /\ a_watcher[w].task = u /\ u # None
          BY <1>3, <3>1, <4>1 DEF TaskInv
        <5>2. n # 0
          BY <1>4, <1>11, <2>2, <5>1
        <5> QED
          BY <1>4, <1>18, <4>1, <5>2
      <4>2. CASE a_task[u].watcher # w
        BY <1>18, <3>1, <4>2
      <4> QED
        BY <4>1, <4>2
    <3> QED
      BY <3>1, <3>2, TaskStays
  <2> QED
    BY <2>1, <2>2
<1>25. ASSUME NEW v \in Watchers PROVE WatcherInv(v)'
  <2>1. CASE v = w
    <3>1. Cardinality(Users(w))' = k - 1
      BY <1>7, <1>23
    <3>2. CASE n = 0
      <4>1. a_watcher'[w].task = None /\ k - 1 = 0
        BY <1>6, <1>7, <1>8, <1>18, <3>2
      <4>2. Own(w)' = 0
        BY <4>1 DEF Own
      <4> QED
        BY <2>1, <1>18, <3>1, <3>2, <4>1, <4>2 DEF WatcherInv
    <3>3. CASE n # 0
      <4>1. a_watcher'[w].task = t
        BY <1>18, <3>3
      <4>2. Own(w)' = own
        BY <1>9, <1>12, <1>18, <4>1 DEF Own
      <4>3. t # None => /\ a_task'[t].watcher = w
                        /\ a_watcher'[w].state \in {"Pending", "Complete", "Cancelled"}
                        /\ Al!Free(t)' \/ Al!Scheduled(t)' => a_watcher'[w].state = "Pending"
        BY <1>10, <1>11, <1>12, <1>17, <1>18, <1>19, <1>22, <3>3
      <4>4. a_watcher'[w].refs = Cardinality(Users(w))' + Own(w)' /\ a_watcher'[w].refs > 0
        BY <1>7, <1>8, <1>18, <3>1, <3>3, <4>2
      <4> QED
        BY <2>1, <4>1, <4>3, <4>4 DEF WatcherInv
    <3> QED
      BY <3>2, <3>3
  <2>2. CASE v # w
    <3>1. WatcherInv(v) /\ a_watcher[v].task \in Tasks \cup {None} /\ a_watcher'[v] = a_watcher[v] /\ Users(v)' = Users(v)
      BY <1>18, <1>23, <2>2 DEF AlInv, AlType
    <3>2. ASSUME NEW u, u = a_watcher[v].task, u # None
          PROVE  /\ a_task'[u].watcher = a_task[u].watcher
                 /\ Al!Free(u)' <=> Al!Free(u)
                 /\ Al!Scheduled(u)' <=> Al!Scheduled(u)
      <4>1. u \in Tasks /\ a_task[u].watcher = v
        BY <3>1, <3>2 DEF WatcherInv
      <4>2. ~(last /\ u = t)
        BY <1>10, <1>11, <2>2, <4>1
      <4> QED
        BY <4>1, <4>2, <1>17, <1>19, <1>22
    <3> QED
      BY <3>1, <3>2, WatcherStays
  <2> QED
    BY <2>1, <2>2
<1>26. ASSUME NEW d \in Callers PROVE CallerInv(d)'
  <2>1. CASE d = c
    BY <2>1, <1>14, <1>15 DEF CallerInv, Waiting, Refers
  <2>2. CASE d # c
    <3>1. /\ CallerInv(d) /\ a_pc'[d] = a_pc[d] /\ a_arg'[d] = a_arg[d]
          /\ a_arg[d].watcher \in Watchers \cup {None} /\ a_arg[d].task \in Tasks \cup {None}
      BY <2>2, <1>14, <1>15 DEF AlInv, AlType
    <3>2. \A v \in Watchers : a_watcher'[v].task = a_watcher[v].task \/ (v = w /\ n = 0 /\ a_watcher'[v].task = None)
      BY <1>4, <1>18
    <3>5. a_pc[d] \in Waiting /\ a_arg[d].task # None => a_watcher'[a_arg[d].watcher].task = a_arg[d].task
      <4>1. a_pc[d] \in Waiting /\ a_arg[d].task # None
               => a_watcher[a_arg[d].watcher].task = a_arg[d].task /\ a_arg[d].watcher \in Watchers
        BY <3>1 DEF CallerInv, Waiting, Refers
      <4>2. a_pc[d] \in Waiting /\ a_arg[d].watcher = w => d \in Users(w)
        BY DEF Users, Waiting, Refers
      <4>3. n = 0 => Users(w) = {c}
        BY <1>6, <1>7, <1>8
      <4> QED
        BY <2>2, <3>2, <4>1, <4>2, <4>3
    <3>6. a_pc[d] \in {"acquire", "available", "swap", "watch"} /\ a_arg[d].watcher # None
             => /\ a_watcher'[a_arg[d].watcher].task = None
                /\ \A e \in Callers : a_arg'[e].watcher = a_arg[d].watcher => e = d
      BY <1>15, <3>1, <3>2 DEF CallerInv
    <3> QED
      BY <3>1, <3>5, <3>6, CallerStays
  <2> QED
    BY <2>1, <2>2
<1> QED
  BY <1>19, <1>20, <1>24, <1>25, <1>26 DEF AlInv

LEMMA AlStep == ASSUME AlInv, [Al!Next]_a_vars PROVE AlInv'
<1>1. CASE UNCHANGED a_vars
  <2>1. UNCHANGED <<a_m_task_list, a_m_list_index, a_task, a_watcher, a_pc, a_arg>>
    BY <1>1 DEF a_vars
  <2>2. AlType' /\ Once(a_m_task_list)' /\ \A w : Users(w)' = Users(w)
    BY <2>1 DEF AlInv, AlType, Once, Users
  <2>3. \A t : /\ Al!Free(t)' <=> Al!Free(t)
               /\ Al!Scheduled(t)' <=> Al!Scheduled(t)
               /\ \A c \in Callers : Acquired(c, t)' <=> Acquired(c, t)
    BY <2>1 DEF Al!Free, Al!Scheduled, Acquired
  <2>4. ASSUME NEW t \in Tasks PROVE TaskInv(t)'
    BY <2>1, <2>3, TaskStays DEF AlInv
  <2>5. ASSUME NEW w \in Watchers PROVE WatcherInv(w)'
    BY <2>1, <2>2, <2>3, WatcherStays DEF AlInv
  <2>6. ASSUME NEW c \in Callers PROVE CallerInv(c)'
    BY <2>1, CallerKeeps
  <2> QED
    BY <2>2, <2>4, <2>5, <2>6 DEF AlInv
<1>2. CASE Al!Next
  <2>1. \/ \E t \in Tasks : Al!Execute(t) \/ Al!Finish(t)
        \/ \E c \in Callers : \/ Al!ScheduleTask(c) \/ Al!Watch(c) \/ Al!AcquireTaskImpl(c)
                              \/ Al!WaitForAvailable(c) \/ Al!SwapLists(c) \/ Al!SetWatcher(c)
                              \/ Al!PushTask(c) \/ Al!Reference(c) \/ Al!Check(c) \/ Al!Wait(c)
                              \/ Al!ReleaseReference(c)
    BY <1>2 DEF Al!Next, Al!Proceed
  <2> QED
    BY <2>1, ExecuteStep, FinishStep, ScheduleTaskStep, WatchStep, AcquireTaskStep, WaitForAvailableStep,
       SwapListsStep, SetWatcherStep, PushTaskStep, ReferenceStep, CheckStep, WaitStep,
       ReleaseReferenceStep
<1> QED
  BY <1>1, <1>2

\* The subject's step is one of the allocator's, or leaves its state alone.
THEOREM AllocatorInvariance == Spec => []AlInv
<1>1. Init => AlInv
  BY AlInit DEF Init
<1>2. AlInv /\ [Next]_vars => AlInv'
  <2> SUFFICES ASSUME AlInv, [Next]_vars PROVE AlInv'
    OBVIOUS
  <2>1. [Al!Next]_a_vars
    <3>1. CASE AlNext
      BY <3>1 DEF AlNext
    <3>2. CASE TkNext \/ QuNext \/ LvNext
      BY <3>2 DEF TkNext, QuNext, LvNext, OnlyAsyncQueue
    <3>3. CASE SvNext \/ DeNext \/ FrNext \/ InNext
      BY <3>3 DEF SvNext, DeNext, FrNext, InNext, OnlyAsyncSave, OnlyDecompressor,
                  OnlyFramework, OnlyRawInput
    <3>4. CASE LoNext \/ TeNext \/ RsNext
      BY <3>4 DEF LoNext, TeNext, RsNext, OnlyLocalArchives, OnlyTextureSamplers, OnlyResourceManager
    <3>5. CASE UNCHANGED vars
      BY <3>5 DEF vars
    <3> QED
      BY <3>1, <3>2, <3>3, <3>4, <3>5 DEF Next
  <2> QED
    BY <2>1, AlStep
<1> QED
  BY <1>1, <1>2, PTL DEF Spec

\* As many tasks are free as the lists are long.
LEMMA ListsCountFree ==
    ASSUME AlType, Once(a_m_task_list)
    PROVE  Len(a_m_task_list[0]) + Len(a_m_task_list[1]) = Al!Cardinality({t \in Tasks : Al!Free(t)})
<1> DEFINE L0 == a_m_task_list[0]
           L1 == a_m_task_list[1]
           F == {t \in Tasks : Al!Free(t)}
<1>1. PICK m \in Nat, n \in Nat : /\ m = Len(L0) /\ n = Len(L1)
                                  /\ DOMAIN L0 = 1 .. m /\ DOMAIN L1 = 1 .. n
                                  /\ L0 \in [1 .. m -> Tasks] /\ L1 \in [1 .. n -> Tasks]
  <2>1. L0 \in Seq(Tasks) /\ L1 \in Seq(Tasks)
    BY DEF AlType
  <2> QED
    BY <2>1
<1>2. \A t : Al!Free(t) <=> \E i \in 0 .. 1 : \E k \in DOMAIN a_m_task_list[i] : a_m_task_list[i][k] = t
  BY FreeIsLinked DEF Linked
<1>3. \A t : Al!Free(t) <=> (\E k \in 1 .. m : L0[k] = t) \/ \E k \in 1 .. n : L1[k] = t
  BY <1>1, <1>2
<1>4. /\ \A k, l \in 1 .. m : L0[k] = L0[l] => k = l
      /\ \A k, l \in 1 .. n : L1[k] = L1[l] => k = l
      /\ \A k \in 1 .. m, l \in 1 .. n : L0[k] # L1[l]
  BY <1>1 DEF Once
<1>5. PICK f : f = [k \in 1 .. m + n |-> IF k <= m THEN L0[k] ELSE L1[k - m]]
  OBVIOUS
<1> HIDE DEF L0, L1
<1>6. \A k \in 1 .. m + n : /\ k <= m => k \in 1 .. m /\ f[k] = L0[k]
                            /\ ~(k <= m) => k - m \in 1 .. n /\ f[k] = L1[k - m]
  BY <1>1, <1>5
<1>7. f \in [1 .. m + n -> F]
  <2>1. \A k \in 1 .. m + n : f[k] \in F
    BY <1>1, <1>3, <1>6
  <2> QED
    BY <1>5, <2>1
<1>8. \A k, l \in 1 .. m + n : f[k] = f[l] => k = l
  BY <1>1, <1>4, <1>6
<1>9. \A t \in F : \E k \in 1 .. m + n : f[k] = t
  <2> SUFFICES ASSUME NEW t \in F PROVE \E k \in 1 .. m + n : f[k] = t
    OBVIOUS
  <2>1. CASE \E k \in 1 .. m : L0[k] = t
    <3>1. PICK k \in 1 .. m : L0[k] = t
      BY <2>1
    <3>2. k \in 1 .. m + n /\ k <= m
      BY <1>1
    <3> QED
      BY <1>6, <3>1, <3>2
  <2>2. CASE \E k \in 1 .. n : L1[k] = t
    <3>1. PICK k \in 1 .. n : L1[k] = t
      BY <2>2
    <3>2. k + m \in 1 .. m + n /\ ~(k + m <= m) /\ (k + m) - m = k
      BY <1>1
    <3> QED
      BY <1>6, <3>1, <3>2
  <2> QED
    BY <1>3, <2>1, <2>2
<1> HIDE DEF F
<1>10. ExistsBijection(1 .. m + n, F)
  <2>1. f \in Bijection(1 .. m + n, F)
    BY <1>7, <1>8, <1>9 DEF Bijection, Injection, Surjection, IsInjective
  <2> QED
    BY <2>1 DEF ExistsBijection
<1>11. Cardinality(F) = m + n
  BY <1>1, <1>10, FS_CountingElements
<1>12. Al!Cardinality(F) = Cardinality(F)
  BY DEF Al!Cardinality, Cardinality
<1> QED
  BY <1>1, <1>11, <1>12 DEF F, L0, L1

\* Every task is in one list once, or being scheduled, or kept by its watcher; a task
\* that somebody waits for through a watcher stays that watcher's; and no task is
\* free whose watcher was told of its end (AsyncTaskAllocator, AsyncTaskWatcher),
\* with pushes that fail: for any number of callers, tasks and watchers.
THEOREM TasksHaveOneHomeInvariance == Spec => []TasksHaveOneHome
<1>1. AlInv => TasksHaveOneHome
  <2> SUFFICES ASSUME AlInv PROVE Al!TaskHasOneHome /\ Al!WatchedTaskIsKept
    BY DEF TasksHaveOneHome
  <2>1. ASSUME NEW t \in Tasks
        PROVE  /\ Al!Free(t) \/ Al!Scheduled(t) \/ \E w \in Watchers : a_watcher[w].task = t
               /\ ~(Al!Free(t) /\ Al!Scheduled(t))
    <3>1. TaskInv(t) /\ a_task[t].watcher \in Watchers \cup {None}
      BY DEF AlInv, AlType
    <3> QED
      BY <3>1, ScheduledIs DEF TaskInv
  <2>2. Len(a_m_task_list[0]) + Len(a_m_task_list[1]) = Al!Cardinality({t \in Tasks : Al!Free(t)})
    BY ListsCountFree DEF AlInv
  <2>3. ASSUME NEW c \in Callers, Al!Waits(c)
        PROVE  a_watcher[a_arg[c].watcher].task = a_arg[c].task
    <3>1. CallerInv(c)
      BY DEF AlInv
    <3> QED
      BY <2>3, <3>1 DEF CallerInv, Waiting, Al!Waits
  <2>6. ASSUME NEW t \in Tasks, Al!Free(t), a_task[t].watcher # None
        PROVE  a_watcher[a_task[t].watcher].state = "Pending"
    <3>1. /\ TaskInv(t) /\ a_task[t].watcher \in Watchers \cup {None} /\ t # None
          /\ \A w \in Watchers : WatcherInv(w)
      BY DEF AlInv, AlType
    <3> QED
      BY <2>6, <3>1 DEF TaskInv, WatcherInv
  <2>4. Al!TaskHasOneHome
    BY <2>1, <2>2 DEF Al!TaskHasOneHome
  <2>5. Al!WatchedTaskIsKept
    BY <2>3, <2>6 DEF Al!WatchedTaskIsKept
  <2> QED
    BY <2>4, <2>5
<1> QED
  BY <1>1, AllocatorInvariance, PTL
-----------------------------------------------------------------------------
(* AsyncSaveManager. *)

SvRequest == [op : SaveOps, id : Savers \X Nat, device : {t1, None}]
SvClient == [pc : {"idle", "set", "send"}, request : SvRequest \cup {Sv!NoRequest}, count : Nat]
SvThread == [pc : {"wait", "begin", "perform", "clear", "forget"}, op : SaveOps \cup {None}]
SvType ==
    /\ s_m_request_flags \subseteq SaveOps \cup {"pause"}
    /\ s_request \in SvRequest \cup {Sv!NoRequest}
    /\ s_m_user_file_device \in {t1, None}
    /\ s_messages \in Seq(SaveOps)
    /\ s_thread \in SvThread
    /\ s_client \in [Savers -> SvClient]
    /\ s_accepted \in Seq(SvRequest) /\ s_performed \in Seq(SvRequest)

\* One request at a time is on its way from its caller to the end of its function,
\* and as long as it is its flag is set.
Sending(c) == s_client[c].pc \in {"set", "send"}
Sent == s_messages # <<>>
Serving == s_thread.pc \in {"begin", "perform", "clear"}
OneWay ==
    /\ \A c, d \in Savers : Sending(c) /\ Sending(d) => c = d
    /\ \A c \in Savers : Sending(c) => ~Sent /\ ~Serving
    /\ Sent => ~Serving /\ Len(s_messages) = 1
    /\ (\E c \in Savers : Sending(c)) \/ Sent \/ Serving => \E op \in SaveOps : op \in s_m_request_flags

\* The members of the manager are those of the request on its way, but for its
\* device, which may have been forgotten.
IsSet(r) == s_request = r /\ s_m_user_file_device \in {r.device, None}
Pending == Sent \/ s_thread.pc \in {"begin", "perform"}
ArgInv ==
    /\ \A c \in Savers : Sending(c) => /\ s_client[c].request \in SvRequest
                                       /\ s_client[c].request.id = <<c, s_client[c].count - 1>>
                                       /\ s_client[c].count > 0
    /\ \A c \in Savers : s_client[c].pc = "send" => IsSet(s_client[c].request)
    /\ Pending => s_accepted # <<>> /\ IsSet(s_accepted[Len(s_accepted)])
    /\ Sent => s_messages[1] = s_request.op
    /\ s_thread.pc \in {"begin", "perform"} => s_thread.op = s_request.op

\* Requests are told apart by their caller and their number.
Given(c) == IF Sending(c) THEN s_client[c].count - 1 ELSE s_client[c].count
IdInv ==
    /\ \A i, j \in DOMAIN s_accepted : s_accepted[i].id = s_accepted[j].id => i = j
    /\ \A i \in DOMAIN s_accepted : \A c \in Savers, n \in Nat : s_accepted[i].id = <<c, n>> => n < Given(c)

\* f says which of the accepted requests each of the performed ones was.
Was(p, a) == Sv!Same(p, a) /\ p.device \in {a.device, None}
Follows(f, performed, accepted) ==
    /\ f \in [1 .. Len(performed) -> 1 .. Len(accepted)]
    /\ \A i \in 1 .. Len(performed) : Was(performed[i], accepted[f[i]])
    /\ \A i, j \in 1 .. Len(performed) : i < j => f[i] < f[j]
DoneInv == \E f : /\ Follows(f, s_performed, s_accepted)
                  /\ Pending => \A i \in 1 .. Len(s_performed) : f[i] < Len(s_accepted)

SvInv == SvType /\ OneWay /\ ArgInv /\ IdInv /\ DoneInv

LEMMA SvInit == Sv!Init => SvInv
<1> SUFFICES ASSUME Sv!Init PROVE SvInv
  OBVIOUS
<1>1. /\ s_m_request_flags = {} /\ s_request = Sv!NoRequest /\ s_m_user_file_device = None
      /\ s_messages = <<>> /\ s_thread = [pc |-> "wait", op |-> None]
      /\ s_client = [c \in Savers |-> [pc |-> "idle", request |-> Sv!NoRequest, count |-> 0]]
      /\ s_accepted = <<>> /\ s_performed = <<>>
  BY DEF Sv!Init
<1>2. SvType
  <2>1. [pc |-> "idle", request |-> Sv!NoRequest, count |-> 0] \in SvClient
    BY DEF SvClient
  <2>2. s_client \in [Savers -> SvClient]
    BY <1>1, <2>1
  <2>3. s_thread \in SvThread
    BY <1>1 DEF SvThread
  <2> QED
    BY <1>1, <2>2, <2>3 DEF SvType
<1>3. OneWay /\ ArgInv /\ IdInv
  BY <1>1 DEF OneWay, ArgInv, IdInv, Sending, Sent, Serving, Pending
<1>4. DoneInv
  <2>1. Len(s_performed) = 0
    BY <1>1
  <2>2. Follows(<<>>, s_performed, s_accepted)
    <3>1. <<>> \in [1 .. 0 -> 1 .. Len(s_accepted)]
      OBVIOUS
    <3> QED
      BY <2>1, <3>1 DEF Follows
  <2> QED
    BY <1>1, <2>1, <2>2 DEF DoneInv
<1> QED
  BY <1>2, <1>3, <1>4 DEF SvInv

LEMMA DoneStays == ASSUME DoneInv, UNCHANGED <<s_accepted, s_performed>>, Pending' => Pending PROVE DoneInv'
BY DEF DoneInv, Follows

LEMMA ClientIs ==
    ASSUME SvType, NEW c \in Savers, NEW x \in SvClient, s_client' = [s_client EXCEPT ![c] = x]
    PROVE  /\ s_client' \in [Savers -> SvClient] /\ s_client'[c] = x
           /\ \A d \in Savers : d # c => s_client'[d] = s_client[d]
BY DEF SvType

LEMMA RequestStep == ASSUME SvInv, NEW c \in Savers, Sv!Request(c) PROVE SvInv'
<1>1. SvType /\ OneWay /\ ArgInv /\ IdInv /\ DoneInv
  BY DEF SvInv
<1>2. PICK op \in SaveOps, device \in {t1, None} :
         LET r == [op |-> op, id |-> <<c, s_client[c].count>>, device |-> device]
         IN /\ s_client[c].pc = "idle" /\ s_m_request_flags' = s_m_request_flags \cup {op}
            /\ s_client' = [s_client EXCEPT ![c] = [pc |-> IF s_m_request_flags = {} THEN "set" ELSE "idle",
                                                   request |-> r, count |-> @.count + 1]]
            /\ UNCHANGED <<s_request, s_m_user_file_device, s_messages, s_thread, s_accepted, s_performed>>
  BY DEF Sv!Request, Sv!Accepts
<1>3. PICK n \in Nat : n = s_client[c].count
  BY <1>1 DEF SvType, SvClient
<1> DEFINE place == IF s_m_request_flags = {} THEN "set" ELSE "idle"
           r == [op |-> op, id |-> <<c, n>>, device |-> device]
<1>4. PICK x : x = [pc |-> place, request |-> r, count |-> n + 1]
  OBVIOUS
<1>5. r \in SvRequest /\ r.id = <<c, n>>
  BY <1>2, <1>3 DEF SvRequest
<1>6. x \in SvClient /\ x.pc = place /\ x.request = r /\ x.count = n + 1
  BY <1>2, <1>3, <1>4, <1>5 DEF SvClient
<1>7. /\ s_client' \in [Savers -> SvClient] /\ s_client'[c] = x
      /\ \A d \in Savers : d # c => s_client'[d] = s_client[d]
  BY <1>1, <1>2, <1>3, <1>4, <1>6, ClientIs
<1>8. SvType'
  BY <1>1, <1>2, <1>7 DEF SvType
<1>9. place = "set" => ~Sent /\ ~Serving /\ \A d \in Savers : ~Sending(d)
  BY <1>1, <1>2 DEF OneWay
<1>10. \A d \in Savers : Sending(d)' <=> Sending(d) \/ (d = c /\ place = "set")
  BY <1>2, <1>6, <1>7 DEF Sending
<1>11. (Sent' <=> Sent) /\ (Serving' <=> Serving) /\ (Pending' <=> Pending)
  BY <1>2 DEF Sent, Serving, Pending
<1>12. OneWay'
  BY <1>1, <1>2, <1>9, <1>10, <1>11 DEF OneWay
<1>13. ArgInv'
  <2>1. ASSUME NEW d \in Savers, Sending(d)'
        PROVE  /\ s_client'[d].request \in SvRequest
               /\ s_client'[d].request.id = <<d, s_client'[d].count - 1>>
               /\ s_client'[d].count > 0
    <3>1. CASE d = c
      BY <1>5, <1>6, <1>7, <3>1
    <3>2. CASE d # c
      BY <1>1, <1>7, <1>10, <2>1, <3>2 DEF ArgInv
    <3> QED
      BY <3>1, <3>2
  <2>2. ASSUME NEW d \in Savers, s_client'[d].pc = "send" PROVE IsSet(s_client[d].request) /\ d # c
    BY <1>1, <1>2, <1>6, <1>7, <2>2 DEF ArgInv
  <2>3. \A d \in Savers : s_client'[d].pc = "send" => IsSet(s_client[d].request)'
    BY <1>2, <1>7, <2>2 DEF IsSet
  <2> QED
    BY <1>1, <1>2, <1>7, <1>11, <2>1, <2>2, <2>3 DEF ArgInv, IsSet
<1>14. IdInv'
  <2>1. Given(c)' >= Given(c) /\ \A d \in Savers : d # c => Given(d)' = Given(d)
    <3>1. Given(c) = n
      BY <1>2, <1>3 DEF Given, Sending
    <3>2. Given(c)' \in {n, n + 1}
      BY <1>6, <1>7 DEF Given
    <3>3. \A d \in Savers : d # c => Given(d)' = Given(d)
      BY <1>7 DEF Given, Sending
    <3> QED
      BY <3>1, <3>2, <3>3
  <2>2. \A d \in Savers : Given(d) \in Int /\ Given(d)' \in Int
    BY <1>1, <1>8 DEF Given, SvType, SvClient
  <2>3. ASSUME NEW i \in DOMAIN s_accepted, NEW d \in Savers, NEW k \in Nat, s_accepted[i].id = <<d, k>>
        PROVE  k < Given(d)'
    <3>1. k < Given(d)
      BY <1>1, <2>3 DEF IdInv
    <3> QED
      BY <2>1, <2>2, <3>1
  <2> QED
    BY <1>1, <1>2, <2>3 DEF IdInv
<1>15. DoneInv'
  BY <1>1, <1>2, <1>11, DoneStays
<1> QED
  BY <1>8, <1>12, <1>13, <1>14, <1>15 DEF SvInv

LEMMA SetRequestStep == ASSUME SvInv, NEW c \in Savers, Sv!SetRequest(c) PROVE SvInv'
<1>1. SvType /\ OneWay /\ ArgInv /\ IdInv /\ DoneInv
  BY DEF SvInv
<1>2. PICK r : /\ r = s_client[c].request /\ s_client[c].pc = "set"
               /\ s_request' = r /\ s_m_user_file_device' = r.device
               /\ s_client' = [s_client EXCEPT ![c].pc = "send"]
               /\ UNCHANGED <<s_m_request_flags, s_messages, s_thread, s_accepted, s_performed>>
  BY DEF Sv!SetRequest
<1>3. PICK y \in SvClient : y = s_client[c]
  BY <1>1 DEF SvType
<1>4. PICK x : x = [y EXCEPT !.pc = "send"]
  OBVIOUS
<1>5. x \in SvClient /\ x.pc = "send" /\ x.request = r /\ x.count = y.count
  BY <1>2, <1>3, <1>4 DEF SvClient
<1>6. /\ s_client' \in [Savers -> SvClient] /\ s_client'[c] = x
      /\ \A d \in Savers : d # c => s_client'[d] = s_client[d]
  BY <1>1, <1>2, <1>3, <1>4, <1>5, ClientIs
<1>7. Sending(c) /\ ~Sent /\ ~Serving /\ ~Pending /\ r \in SvRequest
  BY <1>1, <1>2 DEF Sending, OneWay, ArgInv, Serving, Pending
<1>8. \A d \in Savers : (Sending(d)' <=> Sending(d)) /\ (d # c => ~Sending(d))
  BY <1>1, <1>5, <1>6, <1>7 DEF Sending, OneWay
<1>9. (Sent' <=> Sent) /\ (Serving' <=> Serving) /\ (Pending' <=> Pending)
  BY <1>2 DEF Sent, Serving, Pending
<1>10. SvType'
  <2>1. r.device \in {t1, None}
    BY <1>7 DEF SvRequest
  <2> QED
    BY <1>1, <1>2, <1>6, <1>7, <2>1 DEF SvType
<1>11. OneWay'
  BY <1>1, <1>2, <1>8, <1>9 DEF OneWay
<1>12. ArgInv'
  <2>1. IsSet(s_client[c].request)'
    BY <1>2, <1>5, <1>6 DEF IsSet
  <2>2. \A d \in Savers : s_client'[d].pc = "send" => d = c
    BY <1>6, <1>8 DEF Sending
  <2>3. ~Sent' /\ ~Pending' /\ s_thread'.pc \notin {"begin", "perform"}
    BY <1>2, <1>7, <1>9 DEF Serving
  <2>4. \A d \in Savers : Sending(d)' => d = c
    BY <1>8
  <2>5. s_client'[c].request.id = <<c, s_client'[c].count - 1>> /\ s_client'[c].count > 0
    BY <1>1, <1>2, <1>3, <1>5, <1>6, <1>7 DEF ArgInv
  <2> QED
    BY <1>5, <1>6, <1>7, <2>1, <2>2, <2>3, <2>4, <2>5 DEF ArgInv
<1>13. IdInv'
  <2>1. \A d \in Savers : Given(d)' = Given(d)
    BY <1>2, <1>3, <1>5, <1>6, <1>8 DEF Given
  <2> QED
    BY <1>1, <1>2, <2>1 DEF IdInv
<1>14. DoneInv'
  BY <1>1, <1>2, <1>9, DoneStays
<1> QED
  BY <1>10, <1>11, <1>12, <1>13, <1>14 DEF SvInv

\* What a request appended to others leaves and adds.
LEMMA AppendedIs ==
    ASSUME NEW list \in Seq(SvRequest), NEW r \in SvRequest
    PROVE  /\ Append(list, r) \in Seq(SvRequest) /\ Len(Append(list, r)) = Len(list) + 1
           /\ \A i \in 1 .. Len(list) : Append(list, r)[i] = list[i]
           /\ Append(list, r)[Len(list) + 1] = r
OBVIOUS

LEMMA SendMessageStep == ASSUME SvInv, NEW c \in Savers, Sv!SendMessage(c) PROVE SvInv'
<1>1. SvType /\ OneWay /\ ArgInv /\ IdInv /\ DoneInv
  BY DEF SvInv
<1>2. PICK r : /\ r = s_client[c].request /\ s_client[c].pc = "send"
               /\ s_messages' = Append(s_messages, r.op)
               /\ s_accepted' = Append(s_accepted, r)
               /\ s_client' = [s_client EXCEPT ![c].pc = "idle"]
               /\ UNCHANGED <<s_m_request_flags, s_request, s_m_user_file_device, s_thread, s_performed>>
  BY DEF Sv!SendMessage
<1>3. PICK y \in SvClient : y = s_client[c]
  BY <1>1 DEF SvType
<1>4. PICK x : x = [y EXCEPT !.pc = "idle"]
  OBVIOUS
<1>5. x \in SvClient /\ x.pc = "idle" /\ x.request = r /\ x.count = y.count
  BY <1>2, <1>3, <1>4 DEF SvClient
<1>6. /\ s_client' \in [Savers -> SvClient] /\ s_client'[c] = x
      /\ \A d \in Savers : d # c => s_client'[d] = s_client[d]
  BY <1>1, <1>2, <1>3, <1>4, <1>5, ClientIs
<1>7. Sending(c) /\ ~Sent /\ ~Serving /\ ~Pending /\ r \in SvRequest /\ IsSet(r)
  BY <1>1, <1>2 DEF Sending, OneWay, ArgInv, Serving, Pending
<1>8. s_messages' = <<r.op>> /\ r.op \in SaveOps /\ s_request = r
  BY <1>2, <1>7 DEF Sent, SvRequest, IsSet
<1>9. \A d \in Savers : ~Sending(d)'
  BY <1>1, <1>5, <1>6, <1>7 DEF Sending, OneWay
<1>10. Sent' /\ Pending' /\ ~Serving'
  BY <1>2, <1>7, <1>8 DEF Sent, Pending, Serving
<1>11. PICK n \in Nat : n = Len(s_accepted) /\ DOMAIN s_accepted = 1 .. n
  BY <1>1 DEF SvType
<1>12. /\ s_accepted' \in Seq(SvRequest) /\ Len(s_accepted') = n + 1 /\ DOMAIN s_accepted' = 1 .. n + 1
       /\ \A i \in 1 .. n : s_accepted'[i] = s_accepted[i]
       /\ s_accepted'[n + 1] = r
  <2>1. PICK list \in Seq(SvRequest) : list = s_accepted
    BY <1>1 DEF SvType
  <2> QED
    BY <1>2, <1>7, <1>11, <2>1, AppendedIs
<1>13. SvType'
  <2>1. s_messages' \in Seq(SaveOps)
    BY <1>8
  <2> QED
    BY <1>1, <1>2, <1>6, <1>12, <2>1 DEF SvType
<1>14. OneWay'
  <2>1. Len(s_messages') = 1
    BY <1>8
  <2> QED
    BY <1>1, <1>2, <1>7, <1>9, <1>10, <2>1 DEF OneWay
<1>15. ArgInv'
  <2>1. s_accepted' # <<>> /\ s_accepted'[Len(s_accepted')] = r
    BY <1>12
  <2>2. IsSet(s_accepted[Len(s_accepted)])'
    BY <1>2, <1>7, <2>1 DEF IsSet
  <2>3. s_messages'[1] = s_request'.op
    BY <1>2, <1>8
  <2>4. s_thread'.pc \notin {"begin", "perform"} /\ \A d \in Savers : s_client'[d].pc # "send"
    BY <1>9, <1>10 DEF Serving, Sending
  <2> QED
    BY <1>9, <2>1, <2>2, <2>3, <2>4 DEF ArgInv
<1>16. IdInv'
  <2>1. PICK m \in Nat : m = y.count - 1 /\ y.count = m + 1
    <3>1. y.count \in Nat /\ y.count > 0
      BY <1>1, <1>3, <1>7 DEF SvClient, ArgInv
    <3> QED
      BY <3>1
  <2>2. r.id = <<c, m>>
    BY <1>1, <1>2, <1>3, <1>7, <2>1 DEF ArgInv
  <2>3. Given(c) = m /\ Given(c)' = m + 1 /\ \A d \in Savers : d # c => Given(d)' = Given(d)
    <3>1. Given(c) = m
      BY <1>3, <1>7, <2>1 DEF Given
    <3>2. Given(c)' = m + 1
      BY <1>5, <1>6, <1>9, <2>1 DEF Given
    <3>3. \A d \in Savers : d # c => Given(d)' = Given(d)
      BY <1>6 DEF Given, Sending
    <3> QED
      BY <3>1, <3>2, <3>3
  <2>4. \A i \in 1 .. n : s_accepted[i].id # r.id
    BY <1>1, <1>11, <2>2, <2>3 DEF IdInv
  <2>5. \A i, j \in 1 .. n + 1 : s_accepted'[i].id = s_accepted'[j].id => i = j
    <3> SUFFICES ASSUME NEW i \in 1 .. n + 1, NEW j \in 1 .. n + 1, s_accepted'[i].id = s_accepted'[j].id
                 PROVE  i = j
      OBVIOUS
    <3>1. CASE i <= n /\ j <= n
      BY <1>1, <1>11, <1>12, <3>1 DEF IdInv
    <3>2. CASE i = n + 1 \/ j = n + 1
      BY <1>12, <2>4, <3>2
    <3> QED
      BY <3>1, <3>2
  <2>6. ASSUME NEW i \in 1 .. n + 1, NEW d \in Savers, NEW k \in Nat, s_accepted'[i].id = <<d, k>>
        PROVE  k < Given(d)'
    <3>1. CASE i = n + 1
      <4>1. <<d, k>> = <<c, m>>
        BY <1>12, <2>2, <2>6, <3>1
      <4>2. d = c /\ k = m
        BY <4>1
      <4> QED
        BY <2>3, <4>2
    <3>2. CASE i <= n
      <4>1. k < Given(d)
        BY <1>1, <1>11, <1>12, <2>6, <3>2 DEF IdInv
      <4> QED
        BY <2>3, <4>1
    <3> QED
      BY <3>1, <3>2
  <2> QED
    BY <1>12, <2>5, <2>6 DEF IdInv
<1>17. DoneInv'
  <2>1. PICK f : Follows(f, s_performed, s_accepted)
    BY <1>1 DEF DoneInv
  <2>2. PICK q \in Nat : q = Len(s_performed)
    BY <1>1 DEF SvType
  <2>3. f \in [1 .. q -> 1 .. n + 1] /\ \A i \in 1 .. q : f[i] \in 1 .. n /\ f[i] < n + 1
    BY <1>11, <2>1, <2>2 DEF Follows
  <2>4. Follows(f, s_performed, s_accepted')
    BY <1>12, <2>1, <2>2, <2>3 DEF Follows
  <2> QED
    BY <1>2, <1>12, <2>2, <2>3, <2>4 DEF DoneInv
<1> QED
  BY <1>13, <1>14, <1>15, <1>16, <1>17 DEF SvInv

\* A pause and its end touch no flag of a request.
LEMMA PauseStep == ASSUME SvInv, Sv!Pause \/ Sv!Unpause PROVE SvInv'
<1>1. SvType /\ OneWay /\ ArgInv /\ IdInv /\ DoneInv
  BY DEF SvInv
<1>2. /\ s_m_request_flags' \in {s_m_request_flags \cup {"pause"}, s_m_request_flags \ {"pause"}}
      /\ UNCHANGED <<s_request, s_m_user_file_device, s_messages, s_thread, s_client, s_accepted, s_performed>>
  BY DEF Sv!Pause, Sv!Unpause
<1>3. \A op \in SaveOps : op # "pause" /\ (op \in s_m_request_flags' <=> op \in s_m_request_flags)
  BY <1>2, TasksAssumption DEF TasksAssumption
<1>4. SvType'
  BY <1>1, <1>2 DEF SvType
<1>5. (Sent' <=> Sent) /\ (Serving' <=> Serving) /\ (Pending' <=> Pending)
      /\ \A c : (Sending(c)' <=> Sending(c)) /\ Given(c)' = Given(c)
  BY <1>2 DEF Sent, Serving, Pending, Sending, Given
<1>6. OneWay'
  BY <1>1, <1>2, <1>3, <1>5 DEF OneWay
<1>7. ArgInv'
  BY <1>1, <1>2, <1>5 DEF ArgInv, IsSet
<1>8. IdInv'
  BY <1>1, <1>2, <1>5 DEF IdInv
<1>9. DoneInv'
  BY <1>1, <1>2, <1>5, DoneStays
<1> QED
  BY <1>4, <1>6, <1>7, <1>8, <1>9 DEF SvInv

LEMMA ReceiveStep == ASSUME SvInv, Sv!Receive PROVE SvInv'
<1>1. SvType /\ OneWay /\ ArgInv /\ IdInv /\ DoneInv
  BY DEF SvInv
<1>2. /\ s_thread.pc = "wait" /\ s_messages # <<>> /\ s_messages' = Tail(s_messages)
      /\ s_thread' = [pc |-> "begin", op |-> Head(s_messages)]
      /\ UNCHANGED <<s_m_request_flags, s_request, s_m_user_file_device, s_client, s_accepted, s_performed>>
  BY DEF Sv!Receive
<1>3. Sent /\ Pending /\ Len(s_messages) = 1 /\ ~Serving
  BY <1>1, <1>2 DEF Sent, Pending, OneWay
<1>4. s_messages' = <<>> /\ Head(s_messages) = s_messages[1] /\ s_messages[1] \in SaveOps
  BY <1>1, <1>2, <1>3 DEF SvType
<1>5. s_thread'.pc = "begin" /\ s_thread'.op = s_messages[1] /\ s_thread' \in SvThread
  BY <1>2, <1>4 DEF SvThread
<1>6. SvType'
  BY <1>1, <1>2, <1>4, <1>5 DEF SvType
<1>7. ~Sent' /\ Serving' /\ Pending' /\ \A c : (Sending(c)' <=> Sending(c)) /\ Given(c)' = Given(c)
  BY <1>2, <1>4, <1>5 DEF Sent, Serving, Pending, Sending, Given
<1>8. \A c \in Savers : ~Sending(c)
  BY <1>1, <1>3 DEF OneWay
<1>9. OneWay'
  BY <1>1, <1>2, <1>3, <1>7, <1>8 DEF OneWay
<1>10. ArgInv'
  <2>1. s_accepted' # <<>> /\ IsSet(s_accepted[Len(s_accepted)])'
    BY <1>1, <1>2, <1>3 DEF ArgInv, IsSet
  <2>2. s_thread'.op = s_request'.op
    BY <1>1, <1>2, <1>3, <1>5 DEF ArgInv
  <2>3. \A c \in Savers : s_client'[c].pc # "send"
    BY <1>2, <1>8 DEF Sending
  <2> QED
    BY <1>7, <1>8, <2>1, <2>2, <2>3 DEF ArgInv
<1>11. IdInv'
  BY <1>1, <1>2, <1>7 DEF IdInv
<1>12. DoneInv'
  BY <1>1, <1>2, <1>3, DoneStays
<1> QED
  BY <1>6, <1>9, <1>10, <1>11, <1>12 DEF SvInv

\* The steps of the thread at which it neither takes a message nor carries one out.
LEMMA ThreadStep ==
    ASSUME SvInv, NEW pc, s_thread' = [s_thread EXCEPT !.pc = pc],
           \/ s_thread.pc = "begin" /\ pc \in {"clear", "perform"}
              /\ UNCHANGED <<s_m_request_flags, s_m_user_file_device>>
           \/ s_thread.pc = "clear" /\ pc = "forget"
              /\ s_m_request_flags' = s_m_request_flags \cap {"pause"} /\ UNCHANGED s_m_user_file_device
           \/ s_thread.pc = "forget" /\ pc = "wait"
              /\ s_m_user_file_device' = None /\ UNCHANGED s_m_request_flags,
           UNCHANGED <<s_request, s_messages, s_client, s_accepted, s_performed>>
    PROVE  SvInv'
<1>1. SvType /\ OneWay /\ ArgInv /\ IdInv /\ DoneInv
  BY DEF SvInv
<1>2. s_thread' \in SvThread /\ s_thread'.pc = pc /\ s_thread'.op = s_thread.op
  BY <1>1 DEF SvType, SvThread
<1>3. SvType'
  BY <1>1, <1>2 DEF SvType
<1>4. /\ Sent' <=> Sent
      /\ \A c : (Sending(c)' <=> Sending(c)) /\ Given(c)' = Given(c)
  BY DEF Sent, Sending, Given
<1>5. Serving' => Serving /\ UNCHANGED s_m_request_flags
  BY <1>2 DEF Serving
<1>6. (Pending' => Pending) /\ (s_thread'.pc \in {"begin", "perform"} => s_thread.pc \in {"begin", "perform"})
  BY <1>2, <1>4 DEF Pending
<1>7. UNCHANGED s_m_request_flags \/ (Serving /\ ~Serving')
  BY <1>2 DEF Serving
<1>8. OneWay'
  BY <1>1, <1>4, <1>5, <1>7 DEF OneWay
<1>9. ArgInv'
  <2>1. \A c \in Savers : s_client[c].pc = "send" => IsSet(s_client[c].request)'
    BY <1>1 DEF ArgInv, IsSet
  <2>2. Pending' => s_accepted' # <<>> /\ IsSet(s_accepted[Len(s_accepted)])'
    <3>1. Pending' => s_accepted # <<>> /\ IsSet(s_accepted[Len(s_accepted)])
      BY <1>1, <1>6 DEF ArgInv
    <3>2. ASSUME s_accepted # <<>>, IsSet(s_accepted[Len(s_accepted)])
          PROVE  s_accepted' # <<>> /\ IsSet(s_accepted[Len(s_accepted)])'
      BY <3>2 DEF IsSet
    <3> QED
      BY <3>1, <3>2
  <2> QED
    BY <1>1, <1>2, <1>4, <1>6, <2>1, <2>2 DEF ArgInv
<1>10. IdInv'
  BY <1>1, <1>4 DEF IdInv
<1>11. DoneInv'
  BY <1>1, <1>6, DoneStays
<1> QED
  BY <1>3, <1>8, <1>9, <1>10, <1>11 DEF SvInv

LEMMA BeginStep == ASSUME SvInv, Sv!Begin \/ Sv!ClearRequests \/ Sv!ForgetDevice PROVE SvInv'
<1>1. CASE Sv!Begin
  <2>1. PICK pc : /\ pc \in {"clear", "perform"} /\ s_thread.pc = "begin"
                  /\ s_thread' = [s_thread EXCEPT !.pc = pc]
                  /\ UNCHANGED <<s_m_request_flags, s_m_user_file_device>>
                  /\ UNCHANGED <<s_request, s_messages, s_client, s_accepted, s_performed>>
    BY <1>1 DEF Sv!Begin, Sv!FlagsAt, Sv!ClearsRequests
  <2> QED
    BY <2>1, ThreadStep
<1>2. CASE Sv!ClearRequests
  <2>1. /\ s_thread.pc = "clear" /\ s_thread' = [s_thread EXCEPT !.pc = "forget"]
        /\ s_m_request_flags' = s_m_request_flags \cap {"pause"} /\ UNCHANGED s_m_user_file_device
        /\ UNCHANGED <<s_request, s_messages, s_client, s_accepted, s_performed>>
    BY <1>2 DEF Sv!ClearRequests, Sv!FlagsAt, Sv!ClearsRequests
  <2> QED
    BY <2>1, ThreadStep
<1>3. CASE Sv!ForgetDevice
  <2>1. /\ s_thread.pc = "forget" /\ s_thread' = [s_thread EXCEPT !.pc = "wait"]
        /\ s_m_user_file_device' = None /\ UNCHANGED s_m_request_flags
        /\ UNCHANGED <<s_request, s_messages, s_client, s_accepted, s_performed>>
    BY <1>3 DEF Sv!ForgetDevice
  <2> QED
    BY <2>1, ThreadStep
<1> QED
  BY <1>1, <1>2, <1>3

LEMMA PerformStep == ASSUME SvInv, Sv!Perform PROVE SvInv'
<1>1. SvType /\ OneWay /\ ArgInv /\ IdInv /\ DoneInv
  BY DEF SvInv
<1>2. PICK p : /\ p = [s_request EXCEPT !.op = s_thread.op, !.device = s_m_user_file_device]
               /\ s_thread.pc = "perform" /\ s_performed' = Append(s_performed, p)
               /\ s_thread' = [s_thread EXCEPT !.pc = "clear"]
               /\ UNCHANGED <<s_m_request_flags, s_request, s_m_user_file_device, s_messages, s_client, s_accepted>>
  BY DEF Sv!Perform
<1>3. Serving /\ Pending /\ ~Sent /\ s_thread.op = s_request.op
  BY <1>1, <1>2 DEF Serving, Pending, OneWay, ArgInv
<1>4. PICK n \in Nat : n = Len(s_accepted) /\ n > 0 /\ s_accepted[n] \in SvRequest /\ IsSet(s_accepted[n])
  BY <1>1, <1>3 DEF ArgInv, SvType
<1>5. s_request = s_accepted[n] /\ s_m_user_file_device \in {s_accepted[n].device, None}
  BY <1>4 DEF IsSet
<1>6. p \in SvRequest /\ Was(p, s_accepted[n])
  <2>1. s_request \in SvRequest /\ s_m_user_file_device \in {t1, None} /\ s_thread.op \in SaveOps
    BY <1>1, <1>3, <1>4, <1>5 DEF SvType, SvRequest
  <2>2. p \in SvRequest /\ p.op = s_thread.op /\ p.id = s_request.id /\ p.device = s_m_user_file_device
    BY <1>2, <2>1 DEF SvRequest
  <2> QED
    BY <1>3, <1>5, <2>2 DEF Was, Sv!Same
<1>7. PICK q \in Nat : q = Len(s_performed)
  BY <1>1 DEF SvType
<1>8. /\ s_performed' \in Seq(SvRequest) /\ Len(s_performed') = q + 1
      /\ \A i \in 1 .. q : s_performed'[i] = s_performed[i]
      /\ s_performed'[q + 1] = p
  <2>1. PICK list \in Seq(SvRequest) : list = s_performed
    BY <1>1 DEF SvType
  <2> QED
    BY <1>2, <1>6, <1>7, <2>1, AppendedIs
<1>9. s_thread' \in SvThread /\ s_thread'.pc = "clear"
  BY <1>1, <1>2 DEF SvType, SvThread
<1>10. SvType'
  BY <1>1, <1>2, <1>8, <1>9 DEF SvType
<1>11. /\ ~Sent' /\ Serving' /\ ~Pending'
       /\ \A c : (Sending(c)' <=> Sending(c)) /\ Given(c)' = Given(c)
  BY <1>2, <1>3, <1>9 DEF Sent, Serving, Pending, Sending, Given
<1>12. OneWay'
  BY <1>1, <1>2, <1>3, <1>11 DEF OneWay
<1>13. ArgInv'
  <2>1. \A c \in Savers : s_client[c].pc # "send"
    BY <1>1, <1>3 DEF OneWay, Sending
  <2> QED
    BY <1>1, <1>2, <1>9, <1>11, <2>1 DEF ArgInv
<1>14. IdInv'
  BY <1>1, <1>2, <1>11 DEF IdInv
<1>15. DoneInv'
  <2>1. PICK f : Follows(f, s_performed, s_accepted) /\ \A i \in 1 .. q : f[i] < n
    BY <1>1, <1>3, <1>4, <1>7 DEF DoneInv
  <2>2. /\ f \in [1 .. q -> 1 .. n] /\ \A i \in 1 .. q : Was(s_performed[i], s_accepted[f[i]])
        /\ \A i, j \in 1 .. q : i < j => f[i] < f[j]
    BY <1>4, <1>7, <2>1 DEF Follows
  <2>3. PICK g : g = [i \in 1 .. q + 1 |-> IF i = q + 1 THEN n ELSE f[i]]
    OBVIOUS
  <2>4. g \in [1 .. q + 1 -> 1 .. n] /\ g[q + 1] = n /\ \A i \in 1 .. q : g[i] = f[i]
    BY <1>4, <1>7, <2>2, <2>3
  <2>5. \A i \in 1 .. q + 1 : Was(s_performed'[i], s_accepted'[g[i]])
    <3> SUFFICES ASSUME NEW i \in 1 .. q + 1 PROVE Was(s_performed'[i], s_accepted[g[i]])
      BY <1>2
    <3>1. CASE i = q + 1
      BY <1>6, <1>8, <2>4, <3>1
    <3>2. CASE i \in 1 .. q
      BY <1>8, <2>2, <2>4, <3>2
    <3> QED
      BY <1>7, <3>1, <3>2
  <2>6. \A i, j \in 1 .. q + 1 : i < j => g[i] < g[j]
    <3> SUFFICES ASSUME NEW i \in 1 .. q + 1, NEW j \in 1 .. q + 1, i < j PROVE g[i] < g[j]
      OBVIOUS
    <3>1. CASE j = q + 1
      BY <2>1, <2>4, <3>1
    <3>2. CASE j \in 1 .. q
      BY <2>2, <2>4, <3>2
    <3> QED
      BY <1>7, <3>1, <3>2
  <2>7. Follows(g, s_performed', s_accepted')
    BY <1>2, <1>4, <1>8, <2>4, <2>5, <2>6 DEF Follows
  <2> QED
    BY <1>11, <2>7 DEF DoneInv
<1> QED
  BY <1>10, <1>12, <1>13, <1>14, <1>15 DEF SvInv

LEMMA SvStep == ASSUME SvInv, Sv!Next PROVE SvInv'
BY RequestStep, SetRequestStep, SendMessageStep, PauseStep, ReceiveStep, BeginStep, PerformStep DEF Sv!Next

\* What clients of the manager rely on: AsyncSaveManager's part of the invariant
\* OneOutcomePerRequest.
LEMMA SvConsequences == SvInv => Sv!RequestsAreTheirOwn /\ Sv!NotPendingIsDone
<1> SUFFICES ASSUME SvInv PROVE Sv!RequestsAreTheirOwn /\ Sv!NotPendingIsDone
  OBVIOUS
<1>1. SvType /\ OneWay /\ IdInv /\ DoneInv
  BY DEF SvInv
<1>2. PICK f : Follows(f, s_performed, s_accepted)
  BY <1>1 DEF DoneInv
<1>3. PICK n \in Nat, q \in Nat : /\ n = Len(s_accepted) /\ DOMAIN s_accepted = 1 .. n
                                  /\ q = Len(s_performed) /\ DOMAIN s_performed = 1 .. q
  BY <1>1 DEF SvType
<1>4. /\ f \in [1 .. q -> 1 .. n] /\ \A i \in 1 .. q : Was(s_performed[i], s_accepted[f[i]])
      /\ \A i, j \in 1 .. q : i < j => f[i] < f[j]
  BY <1>2, <1>3 DEF Follows
<1>5. ASSUME NEW i \in DOMAIN s_performed
      PROVE  \E j \in DOMAIN s_accepted :
                /\ Sv!Same(s_performed[i], s_accepted[j])
                /\ s_performed[i].device \in {s_accepted[j].device, None}
                /\ \A k \in 1 .. i - 1 : \E l \in 1 .. j - 1 : Sv!Same(s_performed[k], s_accepted[l])
  <2>1. /\ i \in 1 .. q /\ f[i] \in 1 .. n /\ f[i] \in DOMAIN s_accepted
        /\ Was(s_performed[i], s_accepted[f[i]])
    BY <1>3, <1>4
  <2>2. ASSUME NEW k \in 1 .. i - 1 PROVE \E l \in 1 .. f[i] - 1 : Sv!Same(s_performed[k], s_accepted[l])
    <3>1. k \in 1 .. q /\ k < i
      BY <1>3, <2>1
    <3>2. f[k] \in 1 .. n /\ f[k] < f[i] /\ Was(s_performed[k], s_accepted[f[k]])
      BY <1>4, <2>1, <3>1
    <3>3. f[k] \in 1 .. f[i] - 1
      BY <1>3, <2>1, <3>2
    <3> QED
      BY <3>2, <3>3 DEF Was
  <2> QED
    BY <2>1, <2>2 DEF Was
<1>6. ASSUME NEW i \in 1 .. q, NEW j \in 1 .. q, i # j PROVE ~Sv!Same(s_performed[i], s_performed[j])
  <2>1. f[i] \in 1 .. n /\ f[j] \in 1 .. n /\ f[i] # f[j]
    <3>1. i < j \/ j < i
      BY <1>3, <1>6
    <3>2. f[i] < f[j] \/ f[j] < f[i]
      BY <1>4, <3>1
    <3>3. f[i] \in 1 .. n /\ f[j] \in 1 .. n
      BY <1>4
    <3>4. PICK a \in Nat, b \in Nat : a = f[i] /\ b = f[j]
      BY <3>3
    <3>5. a # b
      BY <3>2, <3>4
    <3> QED
      BY <3>3, <3>4, <3>5
  <2>2. s_accepted[f[i]].id # s_accepted[f[j]].id
    BY <1>1, <1>3, <2>1 DEF IdInv
  <2>3. s_performed[i].id = s_accepted[f[i]].id /\ s_performed[j].id = s_accepted[f[j]].id
    BY <1>4 DEF Was, Sv!Same
  <2> QED
    BY <2>2, <2>3 DEF Sv!Same
<1>7. Sv!RequestsAreTheirOwn
  <2>1. \A i \in DOMAIN s_performed : \E j \in DOMAIN s_accepted :
           /\ Sv!Same(s_performed[i], s_accepted[j])
           /\ s_performed[i].device \in {s_accepted[j].device, None}
           /\ \A k \in 1 .. i - 1 : \E l \in 1 .. j - 1 : Sv!Same(s_performed[k], s_accepted[l])
    BY <1>5
  <2>2. \A i, j \in DOMAIN s_performed : i # j => ~Sv!Same(s_performed[i], s_performed[j])
    BY <1>3, <1>6
  <2> QED
    BY <2>1, <2>2 DEF Sv!RequestsAreTheirOwn
<1>8. ASSUME s_m_request_flags \ {"pause"} = {}
      PROVE  s_messages = <<>> /\ s_thread.pc \notin {"begin", "perform"} /\ \A c \in Savers : s_client[c].pc = "idle"
  <2>1. \A op \in SaveOps : op \notin s_m_request_flags
    BY <1>8, TasksAssumption DEF TasksAssumption
  <2>2. ~Sent /\ ~Serving /\ \A c \in Savers : ~Sending(c)
    BY <1>1, <2>1 DEF OneWay
  <2>3. \A c \in Savers : s_client[c].pc \in {"idle", "set", "send"}
    BY <1>1 DEF SvType, SvClient
  <2> QED
    BY <2>2, <2>3 DEF Sent, Serving, Sending
<1> QED
  BY <1>7, <1>8 DEF Sv!NotPendingIsDone

\* Of each request that AsyncSaveManager accepts the members are its own until it
\* has been carried out, however requests, pauses and the save thread interleave.
THEOREM SaveInvariance == Spec => []SvInv
<1>1. Init => SvInv
  BY SvInit DEF Init
<1>2. ASSUME SvInv, [Next]_vars PROVE SvInv'
  <2>1. CASE Sv!Next
    BY <1>2, <2>1, SvStep
  <2>2. CASE UNCHANGED s_vars
    <3>1. UNCHANGED s_m_request_flags /\ UNCHANGED s_request /\ UNCHANGED s_m_user_file_device
          /\ UNCHANGED s_messages /\ UNCHANGED s_thread /\ UNCHANGED s_client
          /\ UNCHANGED s_accepted /\ UNCHANGED s_performed
      BY <2>2 DEF s_vars
    <3>2. SvType' /\ OneWay'
      BY <1>2, <3>1 DEF SvInv, SvType, OneWay, Sending, Sent, Serving
    <3>3. ArgInv'
      BY <1>2, <3>1 DEF SvInv, ArgInv, Sending, IsSet, Pending, Sent
    <3>4. IdInv'
      BY <1>2, <3>1 DEF SvInv, IdInv, Given, Sending
    <3>5. DoneInv'
      BY <1>2, <3>1 DEF SvInv, DoneInv, Follows, Pending, Sent
    <3> QED
      BY <3>2, <3>3, <3>4, <3>5 DEF SvInv
  <2>3. Sv!Next \/ UNCHANGED s_vars
    BY <1>2 DEF Next, vars, AlNext, TkNext, QuNext, LvNext, SvNext, DeNext, FrNext, InNext, LoNext, TeNext, RsNext,
           OnlyTaskAllocator, OnlyAsyncQueue, OnlyDecompressor, OnlyFramework,
           OnlyRawInput, OnlyLocalArchives, OnlyTextureSamplers, OnlyResourceManager
  <2> QED
    BY <2>1, <2>2, <2>3
<1> QED
  BY <1>1, <1>2, PTL DEF Spec

\* Each request that AsyncSaveManager accepts is carried out at most once, in the
\* order of the requests and with its own operation, buffer and paths, and once
\* IsRequestPending is false nobody is going to touch the buffer.
THEOREM RequestsAreTheirOwnInvariance == Spec => [](Sv!RequestsAreTheirOwn /\ Sv!NotPendingIsDone)
<1>1. SvInv => Sv!RequestsAreTheirOwn /\ Sv!NotPendingIsDone
  BY SvConsequences
<1> QED
  BY <1>1, SaveInvariance, PTL
=============================================================================
