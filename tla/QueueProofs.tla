---------------------------- MODULE QueueProofs ----------------------------
(* AsyncQueue with one level, for any number of callers, threads, tasks and  *)
(* slots of a ring: the list, its head and the states of the tasks agree, a  *)
(* task is run by one thread at a time, and each push ends in one outcome,   *)
(* for the tasks that nobody pushed while another had them (the others are   *)
(* tangled).  The reason is that a thread that runs such a task, and whoever *)
(* is about to put it into the list, is the only one who has it (OwnerInv),  *)
(* whatever becomes of the tangled ones in the same list.  And two managers  *)
(* that lend blocks: ThreadLocalArchiveManager and TextureSamplerManager.     *)
EXTENDS MCTasks, FiniteSetTheorems, SequenceTheorems, TLAPS

USE TasksAssumption

-----------------------------------------------------------------------------
(* The invariant. *)

Queuers == Workers \cup Callers
QuPlaces == {"receive", "acquire", "execute", "result", "free", "finished", "insert", "resume",
             "idle", "finishing", "finish", "suspending", "suspended", "jam", "late"}
Idle == {"Uninitialized", "Cancelled", "Complete"}
Handlers == {"result", "cancel"}
QuTask == [status : Idle \cup {"Queued", "Acquired", "PostExecute"}, signal : BOOLEAN,
           cancelled : BOOLEAN, finish : BOOLEAN, handlers : SUBSET Handlers]
QuThread == [is_finished : BOOLEAN, is_suspended : BOOLEAN, status : {"Active", "Suspended"},
             current : Tasks \cup {None}, suspend_event : BOOLEAN,
             slot : [0 .. RingSlots - 1 -> Garbage \cup {"Resume", "Suspend"}],
             offset : Nat, count : Nat]
QuArg == [task : Tasks \cup Workers \cup {None}, level : {0}, sync : BOOLEAN, calls : Nat]
QuType ==
    /\ w_m_task_list \in Seq(Tasks)
    /\ w_async_task_head \in [{0} -> Tasks \cup {None}]
    /\ w_task \in [Tasks -> QuTask]
    /\ w_thread \in [Workers -> QuThread]
    /\ w_pc \in [Queuers -> QuPlaces]
    /\ w_arg \in [Queuers -> QuArg]
    /\ w_pushes \in [Tasks -> Nat] /\ w_told \in [Tasks -> Nat]

\* The list is the queued tasks, each once, and the head its first; only a tangled
\* task is in it twice, or without being queued.
OnceIn(list) == \A i, j \in DOMAIN list : list[i] = list[j] => i = j
Holds(list, t) == \E i \in DOMAIN list : list[i] = t
FirstOf(list) == IF list = <<>> THEN None ELSE list[1]
Twice(list, t) == \E i, j \in DOMAIN list : i # j /\ list[i] = t /\ list[j] = t
ListInv ==
    /\ \A t : Twice(w_m_task_list, t) => t \in w_tangled
    /\ \A t \in Tasks : w_task[t].status = "Queued" => Holds(w_m_task_list, t)
    /\ \A t \in Tasks \ w_tangled : Holds(w_m_task_list, t) => w_task[t].status = "Queued"
    /\ w_async_task_head[0] = FirstOf(w_m_task_list)

\* A thread that runs a task, or whoever inserts one, is the only one who has it,
\* unless it is tangled.
Inserts(th, t) == w_pc[th] = "insert" /\ w_arg[th].task = t
Runs(th, t) == th \in Workers /\ Qu!Running(th) /\ w_thread[th].current = t
Has(th, t) == Inserts(th, t) \/ Runs(th, t)
OwnerInv ==
    /\ \A t \in Tasks \ w_tangled : \A th, u \in Queuers : Has(th, t) /\ Has(u, t) => th = u
    /\ \A th \in Queuers : \A t : Inserts(th, t) => t \in Tasks
    /\ \A th \in Queuers : \A t : Inserts(th, t) /\ t \notin w_tangled =>
          w_task[t].status \in IF th \in Workers THEN {"PostExecute"} ELSE Idle

\* Where a thread of the queue is, and what it has then.
WorkerInv(w) ==
    LET t == w_thread[w].current
    IN /\ w_pc[w] \in {"receive", "acquire", "execute", "result", "free", "finished", "insert", "resume"}
       /\ w_pc[w] \in {"receive", "acquire", "execute", "result", "finished"} => w_arg[w].task = None
       /\ w_pc[w] \in {"insert", "resume"} => w_arg[w].task # None
       /\ w_arg[w].task # None => w_arg[w].task = t
       /\ w_pc[w] \in {"execute", "result", "free"} => t # None
       /\ w_pc[w] = "execute" /\ t \notin w_tangled => w_task[t].status = "Acquired"
       /\ w_pc[w] \in {"result", "free"} /\ w_arg[w].task = None /\ t \notin w_tangled
             => w_task[t].status = "PostExecute"

\* The functions of a task are kept from its push to its result or its cancel.
Results(w, t) == w_pc[w] = "result" /\ w_thread[w].current = t
Kept(t) == \/ w_task[t].status \in {"Queued", "Acquired"}
           \/ \E th \in Queuers : Inserts(th, t)
           \/ \E w \in Workers : Results(w, t)
OutcomeInv(t) == /\ w_task[t].handlers = IF Kept(t) THEN Handlers ELSE {}
                 /\ w_pushes[t] = w_told[t] + IF Kept(t) THEN 1 ELSE 0

QuInv == /\ QuType /\ ListInv /\ OwnerInv
         /\ \A w \in Workers : WorkerInv(w)
         /\ \A t \in Tasks \ w_tangled : OutcomeInv(t)

-----------------------------------------------------------------------------
(* What the queue's operators return. *)

LEMMA LinkedIs == \A t : Qu!IsLinked(t) <=> Holds(w_m_task_list, t)
BY DEF Qu!IsLinked, Qu!ToSet, Holds

\* A task is removed from a list that has it once.
LEMMA UnlinkedIs ==
    ASSUME NEW list \in Seq(Tasks), OnceIn(list), NEW t, Holds(list, t)
    PROVE  /\ Qu!Unlinked(list, t) \in Seq(Tasks)
           /\ OnceIn(Qu!Unlinked(list, t))
           /\ \A u : Holds(Qu!Unlinked(list, t), u) <=> Holds(list, u) /\ u # t
           /\ FirstOf(Qu!Unlinked(list, t)) = IF list[1] # t THEN list[1]
                                              ELSE IF Len(list) = 1 THEN None ELSE list[2]
<1>1. PICK n \in Nat : n = Len(list) /\ DOMAIN list = 1 .. n
  OBVIOUS
<1>2. PICK i \in 1 .. n : list[i] = t
  BY <1>1 DEF Holds
<1>3. \A j \in 1 .. n : list[j] = t <=> j = i
  BY <1>1, <1>2 DEF OnceIn
<1>4. Qu!SelectInSeq(list, LAMBDA v : v = t) = i
  <2>1. {j \in 1 .. Len(list) : list[j] = t} = {i}
    BY <1>1, <1>3
  <2>2. Qu!Min({i}) = i
    BY <1>2 DEF Qu!Min
  <2> QED
    BY <2>1, <2>2 DEF Qu!SelectInSeq
<1>5. Qu!Unlinked(list, t) = SubSeq(list, 1, i - 1) \o SubSeq(list, i + 1, n)
  BY <1>1, <1>2, <1>4 DEF Qu!Unlinked, Qu!RemoveFirst, Qu!RemoveAt
<1>6. PICK rest : rest = SubSeq(list, 1, i - 1) \o SubSeq(list, i + 1, n)
  OBVIOUS
<1>7. /\ rest \in Seq(Tasks) /\ DOMAIN rest = 1 .. n - 1 /\ Len(rest) = n - 1
      /\ \A j \in 1 .. n - 1 : rest[j] = IF j < i THEN list[j] ELSE list[j + 1]
  <2>1. PICK front : front = SubSeq(list, 1, i - 1)
    OBVIOUS
  <2>2. PICK back : back = SubSeq(list, i + 1, n)
    OBVIOUS
  <2>3. front \in Seq(Tasks) /\ Len(front) = i - 1 /\ \A j \in 1 .. i - 1 : front[j] = list[j]
    BY <1>1, <1>2, <2>1
  <2>4. back \in Seq(Tasks) /\ Len(back) = n - i /\ \A j \in 1 .. n - i : back[j] = list[j + i]
    <3>1. Len(back) = n - i
      BY <1>1, <1>2, <2>2
    <3>2. \A j \in 1 .. n - i : back[j] = list[j + i] /\ list[j + i] \in Tasks
      BY <1>1, <1>2, <2>2
    <3>3. back = [j \in 1 .. n - i |-> list[j + i]]
      BY <1>1, <1>2, <2>2, <3>1, <3>2
    <3> QED
      BY <3>1, <3>2, <3>3, SMTT(20)
  <2>5. rest = front \o back
    BY <1>6, <2>1, <2>2
  <2>6. rest \in Seq(Tasks) /\ Len(rest) = (i - 1) + (n - i)
    <3>1. rest \in Seq(Tasks) /\ Len(rest) = Len(front) + Len(back)
      BY <2>3, <2>4, <2>5, ConcatProperties, Zenon
    <3> QED
      BY <2>3, <2>4, <3>1
  <2>7. \A j \in 1 .. n - 1 : rest[j] = IF j < i THEN front[j] ELSE back[j - (i - 1)]
    BY <1>2, <2>3, <2>4, <2>5
  <2> QED
    BY <1>2, <2>3, <2>4, <2>6, <2>7
<1>8. OnceIn(rest)
  <2> SUFFICES ASSUME NEW j \in 1 .. n - 1, NEW k \in 1 .. n - 1, rest[j] = rest[k] PROVE j = k
    BY <1>7 DEF OnceIn
  <2> DEFINE At(m) == IF m < i THEN m ELSE m + 1
  <2>1. \A m \in 1 .. n - 1 : At(m) \in 1 .. n /\ rest[m] = list[At(m)]
    <3> SUFFICES ASSUME NEW m \in 1 .. n - 1 PROVE At(m) \in 1 .. n /\ rest[m] = list[At(m)]
      OBVIOUS
    <3>1. CASE m < i
      BY <1>2, <1>7, <3>1
    <3>2. CASE ~(m < i)
      BY <1>2, <1>7, <3>2
    <3> QED
      BY <3>1, <3>2
  <2>2. At(j) = At(k) => j = k
    BY <1>2
  <2> HIDE DEF At
  <2> QED
    BY <1>1, <2>1, <2>2 DEF OnceIn
<1>9. \A u : Holds(rest, u) => Holds(list, u) /\ u # t
  <2> SUFFICES ASSUME NEW u, Holds(rest, u) PROVE Holds(list, u) /\ u # t
    OBVIOUS
  <2>1. PICK j \in 1 .. n - 1 : rest[j] = u
    BY <1>7 DEF Holds
  <2>2. PICK k : k = IF j < i THEN j ELSE j + 1
    OBVIOUS
  <2>3. k \in 1 .. n /\ k # i
    BY <1>2, <2>1, <2>2
  <2>4. list[k] = u
    BY <1>7, <2>1, <2>2
  <2>5. Holds(list, u)
    BY <1>1, <2>3, <2>4 DEF Holds
  <2>6. list[k] # t
    BY <1>1, <1>3, <2>3
  <2> QED
    BY <2>4, <2>5, <2>6
<1>10. ASSUME NEW u, Holds(list, u), u # t PROVE Holds(rest, u)
  <2>1. PICK j \in 1 .. n : list[j] = u /\ j # i
    BY <1>1, <1>2, <1>10 DEF Holds
  <2>2. CASE j < i
    <3>1. j \in 1 .. n - 1 /\ rest[j] = u
      BY <1>2, <1>7, <2>1, <2>2
    <3> QED
      BY <1>7, <3>1 DEF Holds
  <2>3. CASE j > i
    <3>1. j - 1 \in 1 .. n - 1 /\ rest[j - 1] = u
      BY <1>2, <1>7, <2>1, <2>3
    <3> QED
      BY <1>7, <3>1 DEF Holds
  <2> QED
    BY <2>1, <2>2, <2>3
<1>11. FirstOf(rest) = IF list[1] # t THEN list[1] ELSE IF Len(list) = 1 THEN None ELSE list[2]
  <2>1. rest = <<>> <=> n = 1
    BY <1>1, <1>2, <1>7
  <2>2. n # 1 => rest[1] = IF 1 < i THEN list[1] ELSE list[2]
    BY <1>2, <1>7
  <2>3. list[1] = t <=> i = 1
    BY <1>2, <1>3
  <2> QED
    BY <1>1, <1>2, <2>1, <2>2, <2>3 DEF FirstOf
<1> QED
  BY <1>5, <1>6, <1>7, <1>8, <1>9, <1>10, <1>11

\* The head that replaces a task at the head is the next one of the list.
LEMMA NewHeadIs ==
    ASSUME QuType, OnceIn(w_m_task_list), NEW t, Holds(w_m_task_list, t), w_m_task_list[1] = t
    PROVE  Qu!NewHead(t, 0) = IF Len(w_m_task_list) = 1 THEN None ELSE w_m_task_list[2]
<1>1. PICK list \in Seq(Tasks) : list = w_m_task_list
  BY DEF QuType
<1>2. Len(list) \in Nat /\ DOMAIN list = 1 .. Len(list) /\ Len(list) >= 1 /\ list[1] = t /\ OnceIn(list)
  BY <1>1 DEF Holds
<1>3. (CHOOSE j \in DOMAIN list : list[j] = t) = 1
  <2>1. \A j \in DOMAIN list : list[j] = t <=> j = 1
    BY <1>2 DEF OnceIn
  <2> QED
    BY <1>2, <2>1
<1>4. t \in Qu!ToSet(list)
  <2>1. 1 \in DOMAIN list
    BY <1>2
  <2> QED
    BY <1>2, <2>1, Zenon DEF Qu!ToSet
<1>5. Qu!After(list, t) = IF 1 = Len(list) THEN None ELSE list[2]
  <2>1. PICK i : i = CHOOSE j \in DOMAIN list : list[j] = t
    OBVIOUS
  <2>2. Qu!After(list, t) = IF t \notin Qu!ToSet(list) THEN t
                            ELSE IF i = Len(list) THEN None ELSE list[i + 1]
    BY <2>1 DEF Qu!After
  <2>3. i = 1
    BY <1>3, <2>1
  <2> QED
    BY <1>4, <2>2, <2>3
<1> QED
  BY <1>1, <1>5 DEF Qu!NewHead, Qu!m_priority

LEMMA AppendIs ==
    ASSUME NEW list \in Seq(Tasks), NEW t \in Tasks
    PROVE  /\ Append(list, t) \in Seq(Tasks)
           /\ \A u : Twice(Append(list, t), u) => Twice(list, u) \/ (u = t /\ Holds(list, t))
           /\ \A u : Holds(Append(list, t), u) <=> Holds(list, u) \/ u = t
           /\ FirstOf(Append(list, t)) = IF FirstOf(list) = None THEN t ELSE FirstOf(list)
<1>1. PICK n \in Nat : n = Len(list) /\ DOMAIN list = 1 .. n
  OBVIOUS
<1>2. PICK more : more = Append(list, t)
  OBVIOUS
<1>3. /\ more \in Seq(Tasks) /\ DOMAIN more = 1 .. n + 1
      /\ \A j \in 1 .. n + 1 : more[j] = IF j <= n THEN list[j] ELSE t
  BY <1>1, <1>2
<1>4. \A u : Twice(more, u) => Twice(list, u) \/ (u = t /\ Holds(list, t))
  <2> SUFFICES ASSUME NEW u, NEW i \in 1 .. n + 1, NEW j \in 1 .. n + 1, i # j, more[i] = u, more[j] = u,
                      ~(u = t /\ Holds(list, t))
               PROVE  Twice(list, u)
    BY <1>3 DEF Twice
  <2>1. \A k \in 1 .. n : more[k] = list[k] /\ k \in 1 .. n + 1
    BY <1>3
  <2>2. more[n + 1] = t
    BY <1>3
  <2>3. i \in 1 .. n \/ i = n + 1
    OBVIOUS
  <2>4. j \in 1 .. n \/ j = n + 1
    OBVIOUS
  <2>5. i \in 1 .. n /\ j \in 1 .. n
    BY <1>1, <2>1, <2>2, <2>3, <2>4 DEF Holds
  <2> QED
    BY <1>1, <2>1, <2>5 DEF Twice
<1>5. \A u : Holds(more, u) => Holds(list, u) \/ u = t
  BY <1>1, <1>3 DEF Holds
<1>6. \A u : Holds(list, u) \/ u = t => Holds(more, u)
  <2>1. \A u : Holds(list, u) => Holds(more, u)
    BY <1>1, <1>3 DEF Holds
  <2>2. n + 1 \in 1 .. n + 1 /\ more[n + 1] = t
    BY <1>3
  <2> QED
    BY <1>3, <2>1, <2>2 DEF Holds
<1>7. FirstOf(more) = IF FirstOf(list) = None THEN t ELSE FirstOf(list)
  <2>1. CASE list = <<>>
    BY <1>1, <1>3, <2>1 DEF FirstOf
  <2>2. CASE list # <<>>
    <3>1. n >= 1 /\ list[1] \in Tasks
      BY <1>1, <2>2
    <3>2. more # <<>> /\ more[1] = list[1]
      BY <1>3, <3>1
    <3> QED
      BY <2>2, <3>1, <3>2 DEF FirstOf
  <2> QED
    BY <2>1, <2>2
<1> QED
  BY <1>2, <1>3, <1>4, <1>5, <1>6, <1>7

\* What a message ring does keeps the fields of its thread.
LEMMA PutIs ==
    ASSUME NEW r \in QuThread, NEW m \in {"Resume", "Suspend"}, NEW front \in BOOLEAN
    PROVE  Qu!Put(r, m, front) \in QuThread /\ Qu!Put(r, m, front).current = r.current
<1>1. PICK off : off = IF front THEN (r.offset + RingSlots - 1) % RingSlots ELSE r.offset
  OBVIOUS
<1>2. PICK at : at = IF front THEN off ELSE (r.offset + r.count) % RingSlots
  OBVIOUS
<1>3. off \in Nat
  BY <1>1 DEF QuThread
<1>4. PICK x : x = [r EXCEPT !.slot[at] = m]
  OBVIOUS
<1>5. x \in QuThread /\ x.current = r.current /\ x.count = r.count
  <2>1. PICK f : f = [r.slot EXCEPT ![at] = m]
    OBVIOUS
  <2>2. f \in [0 .. RingSlots - 1 -> Garbage \cup {"Resume", "Suspend"}]
    BY <2>1 DEF QuThread
  <2>3. x = [r EXCEPT !.slot = f]
    BY <1>4, <2>1
  <2> QED
    BY <2>2, <2>3 DEF QuThread
<1>6. PICK y : y = [x EXCEPT !.offset = off]
  OBVIOUS
<1>7. y \in QuThread /\ y.current = r.current /\ y.count = r.count
  BY <1>3, <1>5, <1>6 DEF QuThread
<1>8. PICK z : z = [y EXCEPT !.count = @ + 1]
  OBVIOUS
<1>9. z \in QuThread /\ z.current = r.current
  <2>1. y.count + 1 \in Nat
    BY <1>7 DEF QuThread
  <2>2. z = [y EXCEPT !.count = y.count + 1]
    BY <1>8
  <2> QED
    BY <1>7, <2>1, <2>2 DEF QuThread
<1>10. Qu!Put(r, m, front) = z
  BY <1>1, <1>2, <1>4, <1>6, <1>8 DEF Qu!Put
<1> QED
  BY <1>9, <1>10

LEMMA JammedIs ==
    ASSUME NEW r \in QuThread
    PROVE  Qu!Jammed(r) \in QuThread /\ Qu!Jammed(r).current = r.current
<1>1. PICK m \in {"Resume", "Suspend"} : m = IF r.status = "Suspended" THEN "Suspend" ELSE "Resume"
  OBVIOUS
<1>2. PICK x : x = Qu!Put(r, m, TRUE)
  OBVIOUS
<1>3. x \in QuThread /\ x.current = r.current
  BY <1>2, PutIs
<1>4. Qu!Jammed(r) = [x EXCEPT !.suspend_event = FALSE]
  BY <1>1, <1>2 DEF Qu!Jammed
<1> QED
  BY <1>3, <1>4 DEF QuThread

LEMMA ReceivedIs ==
    ASSUME NEW r \in QuThread, r.count > 0, NEW suspend \in BOOLEAN, NEW resume \in BOOLEAN, NEW runs \in BOOLEAN
    PROVE  /\ Qu!Received(r, suspend, resume, runs) \in QuThread
           /\ Qu!Received(r, suspend, resume, runs).current = r.current
<1>1. PICK a : a = [r EXCEPT !.offset = (@ + 1) % RingSlots]
  OBVIOUS
<1>2. a \in QuThread /\ a.current = r.current /\ a.count = r.count
  <2>1. PICK o : o = (r.offset + 1) % RingSlots
    OBVIOUS
  <2>2. o \in Nat
    BY <2>1, TasksAssumption DEF QuThread
  <2>3. a = [r EXCEPT !.offset = o]
    BY <1>1, <2>1
  <2> QED
    BY <2>2, <2>3 DEF QuThread
<1>3. PICK b : b = [a EXCEPT !.count = @ - 1]
  OBVIOUS
<1>4. b \in QuThread /\ b.current = r.current
  <2>1. PICK m \in Nat : m = a.count - 1
    BY <1>2 DEF QuThread
  <2>2. b = [a EXCEPT !.count = m]
    BY <1>3, <2>1
  <2> QED
    BY <1>2, <2>1, <2>2 DEF QuThread
<1>5. PICK x : x = [b EXCEPT !.is_suspended = (@ \/ suspend) /\ ~resume]
  OBVIOUS
<1>6. x \in QuThread /\ x.current = r.current
  BY <1>4, <1>5 DEF QuThread
<1>7. PICK y : y = [x EXCEPT !.suspend_event = @ \/ suspend \/ resume]
  OBVIOUS
<1>8. y \in QuThread /\ y.current = r.current
  BY <1>6, <1>7 DEF QuThread
<1>9. PICK z : z = [y EXCEPT !.is_finished = IF runs THEN FALSE ELSE @]
  OBVIOUS
<1>10. z \in QuThread /\ z.current = r.current
  BY <1>8, <1>9 DEF QuThread
<1>11. Qu!Received(r, suspend, resume, runs) = z
  BY <1>1, <1>3, <1>5, <1>7, <1>9 DEF Qu!Received, Qu!Take
<1> QED
  BY <1>10, <1>11

-----------------------------------------------------------------------------
(* Steps that leave the list and the tasks alone. *)

\* Calls that leave the list, the tasks and the threads' work alone.
LEMMA Quiet ==
    ASSUME QuInv, QuType', UNCHANGED <<w_m_task_list, w_async_task_head, w_pushes, w_told, w_tangled>>,
           \A t \in Tasks : /\ w_task'[t].status = w_task[t].status
                            /\ w_task'[t].handlers = w_task[t].handlers,
           \A th \in Queuers : \A t : (Inserts(th, t)' <=> Inserts(th, t)) /\ (Runs(th, t)' <=> Runs(th, t)),
           \A w \in Workers : \A t \in Tasks : Results(w, t)' <=> Results(w, t),
           \A w \in Workers : WorkerInv(w)'
    PROVE  QuInv'
<1>1. ListInv'
  BY DEF QuInv, ListInv
<1>2. \A t \in Tasks : \A th \in Queuers : Has(th, t)' <=> Has(th, t)
  BY DEF Has
<1>3. OwnerInv'
  <2>1. \A t \in Tasks \ w_tangled' : \A th, u \in Queuers : Has(th, t)' /\ Has(u, t)' => th = u
    BY <1>2 DEF QuInv, OwnerInv
  <2>2. \A th \in Queuers : \A t : Inserts(th, t)' => t \in Tasks
    BY DEF QuInv, OwnerInv
  <2>3. \A th \in Queuers : \A t : Inserts(th, t)' /\ t \notin w_tangled' =>
          w_task'[t].status \in IF th \in Workers THEN {"PostExecute"} ELSE Idle
    BY <2>2 DEF QuInv, OwnerInv
  <2> QED
    BY <2>1, <2>2, <2>3 DEF OwnerInv
<1>4. ASSUME NEW t \in Tasks \ w_tangled' PROVE OutcomeInv(t)'
  <2>1. Kept(t)' <=> Kept(t)
    BY DEF Kept
  <2> QED
    BY <2>1 DEF QuInv, OutcomeInv
<1> QED
  BY <1>1, <1>3, <1>4 DEF QuInv

\* A worker stays where it is, or moves on without a task of its own.
LEMMA WorkerStays ==
    ASSUME NEW w, WorkerInv(w), w_pc'[w] = w_pc[w], w_arg'[w].task = w_arg[w].task,
           w_thread'[w].current = w_thread[w].current, w_tangled \subseteq w_tangled',
           w_pc[w] \in {"execute", "result", "free"} /\ w_arg[w].task = None
              /\ w_thread[w].current \notin w_tangled'
              => w_task'[w_thread[w].current].status = w_task[w_thread[w].current].status
    PROVE  WorkerInv(w)'
BY DEF WorkerInv

LEMMA Moves ==
    ASSUME QuInv, QuType', UNCHANGED <<w_m_task_list, w_async_task_head, w_pushes, w_told, w_tangled>>,
           \A t \in Tasks : /\ w_task'[t].status = w_task[t].status
                            /\ w_task'[t].handlers = w_task[t].handlers,
           \A th \in Queuers :
              \/ /\ w_pc'[th] = w_pc[th] /\ w_arg'[th].task = w_arg[th].task
                 /\ th \in Workers => w_thread'[th].current = w_thread[th].current
              \/ th \in Callers /\ w_pc[th] # "insert" /\ w_pc'[th] # "insert"
              \/ /\ th \in Workers /\ WorkerInv(th)'
                 /\ w_pc[th] \in {"receive", "acquire", "finished"}
                 /\ w_pc'[th] \in {"receive", "acquire", "finished"}
    PROVE  QuInv'
<1>1. \A th \in Queuers : \A t : (Inserts(th, t)' <=> Inserts(th, t))
  BY DEF Inserts
<1>2. \A th \in Queuers : \A t : (Runs(th, t)' <=> Runs(th, t))
  <2> SUFFICES ASSUME NEW th \in Workers, NEW t PROVE Runs(th, t)' <=> Runs(th, t)
    BY DEF Runs
  <2>1. th \in Queuers /\ th \notin Callers
    BY DEF Queuers
  <2> QED
    BY <2>1 DEF Runs, Qu!Running
<1>3. ASSUME NEW w \in Workers, NEW t \in Tasks PROVE Results(w, t)' <=> Results(w, t)
  <2>1. w \in Queuers /\ w \notin Callers
    BY DEF Queuers
  <2> QED
    BY <2>1 DEF Results
<1>4. ASSUME NEW w \in Workers PROVE WorkerInv(w)'
  <2>1. w \in Queuers /\ w \notin Callers /\ WorkerInv(w)
    BY DEF Queuers, QuInv
  <2>2. CASE /\ w_pc'[w] = w_pc[w] /\ w_arg'[w].task = w_arg[w].task
             /\ w_thread'[w].current = w_thread[w].current
    <3>1. w_pc[w] \in {"execute", "result", "free"} => w_thread[w].current \in Tasks
      BY <2>1 DEF WorkerInv, QuInv, QuType, QuThread
    <3> QED
      BY <2>1, <2>2, <3>1, WorkerStays
  <2> QED
    BY <2>1, <2>2
<1> QED
  BY <1>1, <1>2, <1>3, <1>4, Quiet

\* A thread's place.
LEMMA PlaceIs ==
    ASSUME QuType, NEW th \in Queuers, NEW place \in QuPlaces, w_pc' = [w_pc EXCEPT ![th] = place]
    PROVE  /\ w_pc' \in [Queuers -> QuPlaces] /\ w_pc'[th] = place
           /\ \A u \in Queuers : u # th => w_pc'[u] = w_pc[u]
BY DEF QuType

\* What a thread works on is noted, with a call of its own or without.
LEMMA NotedIs ==
    ASSUME QuType, NEW th \in Queuers, NEW t \in Tasks \cup Workers \cup {None},
           \/ w_arg' = [w_arg EXCEPT ![th].task = t]
           \/ w_arg' = [w_arg EXCEPT ![th].task = t, ![th].calls = @ + 1]
           \/ \E sync \in BOOLEAN : w_arg' = [w_arg EXCEPT ![th].task = t, ![th].level = 0, ![th].sync = sync]
    PROVE  /\ w_arg' \in [Queuers -> QuArg] /\ w_arg'[th].task = t
           /\ \A u \in Queuers : u # th => w_arg'[u] = w_arg[u]
<1>1. PICK x \in QuArg : x = w_arg[th]
  BY DEF QuType
<1>2. PICK y : y = [x EXCEPT !.task = t]
  OBVIOUS
<1>3. y \in QuArg /\ y.task = t
  BY <1>2 DEF QuArg
<1>4. w_arg \in [Queuers -> QuArg]
  BY DEF QuType
<1>5. CASE w_arg' = [w_arg EXCEPT ![th].task = t]
  <2>1. w_arg' = [w_arg EXCEPT ![th] = y]
    BY <1>1, <1>2, <1>5
  <2> QED
    BY <1>3, <1>4, <2>1
<1>6. CASE w_arg' = [w_arg EXCEPT ![th].task = t, ![th].calls = @ + 1]
  <2>1. PICK z : z = [y EXCEPT !.calls = x.calls + 1]
    OBVIOUS
  <2>2. x.calls + 1 \in Nat
    BY DEF QuArg
  <2>3. z \in QuArg /\ z.task = t
    BY <1>3, <2>1, <2>2 DEF QuArg
  <2>4. w_arg' = [w_arg EXCEPT ![th] = z]
    BY <1>1, <1>2, <1>6, <2>1 DEF QuType
  <2> QED
    BY <1>4, <2>3, <2>4
<1>7. CASE \E sync \in BOOLEAN : w_arg' = [w_arg EXCEPT ![th].task = t, ![th].level = 0, ![th].sync = sync]
  <2>1. PICK sync \in BOOLEAN : w_arg' = [w_arg EXCEPT ![th].task = t, ![th].level = 0, ![th].sync = sync]
    BY <1>7
  <2>2. PICK z : z = [y EXCEPT !.level = 0]
    OBVIOUS
  <2>3. PICK v : v = [z EXCEPT !.sync = sync]
    OBVIOUS
  <2>4. z \in QuArg /\ z.task = t
    BY <1>3, <2>2 DEF QuArg
  <2>5. v \in QuArg /\ v.task = t
    BY <2>3, <2>4 DEF QuArg
  <2>6. w_arg' = [w_arg EXCEPT ![th] = v]
    BY <1>1, <1>2, <1>4, <2>1, <2>2, <2>3
  <2> QED
    BY <1>4, <2>5, <2>6
<1> QED
  BY <1>5, <1>6, <1>7

-----------------------------------------------------------------------------
(* The steps of the threads and of the clients that run no task. *)

LEMMA ThreadMainStep == ASSUME QuInv, NEW w \in Workers, Qu!ThreadMain(w) PROVE QuInv'
<1>1. PICK suspend \in BOOLEAN, resume \in BOOLEAN, runs \in BOOLEAN :
         w_thread' = [w_thread EXCEPT ![w] = Qu!Received(@, suspend, resume, runs)]
  BY DEF Qu!ThreadMain
<1>2. w_pc[w] = "receive" /\ w_thread[w].count > 0 /\ w \in Queuers
  BY DEF Qu!ThreadMain, Queuers
<1>3. UNCHANGED <<w_m_task_list, w_async_task_head, w_task, w_arg, w_pushes, w_told, w_tangled>>
  BY DEF Qu!ThreadMain, Qu!queue_vars
<1>4. PICK at \in [Queuers -> QuPlaces], place \in {"acquire", "receive"} :
         /\ w_pc' = [at EXCEPT ![w] = place]
         /\ \A th \in Queuers : \/ at[th] = w_pc[th]
                                \/ w_pc[th] \in {"suspending", "suspended"} /\ at[th] \in {"idle", "jam"}
  <2>1. PICK at : at = Qu!ReleaseSuspenders(w, w_pc)
    OBVIOUS
  <2>2. at = [th \in Queuers |-> IF w_pc[th] = "suspended" /\ w_arg[th].task = w THEN "idle"
                        ELSE IF w_pc[th] = "suspending" /\ w_arg[th].task = w THEN "jam" ELSE w_pc[th]]
    BY <2>1 DEF Qu!ReleaseSuspenders, Qu!Threads, Queuers
  <2>3. w_pc \in [Queuers -> QuPlaces] /\ at \in [Queuers -> QuPlaces]
    BY <2>2 DEF QuInv, QuType, QuPlaces
  <2>4. \E place \in {"acquire", "receive"} : w_pc' = [at EXCEPT ![w] = place] \/ w_pc' = [w_pc EXCEPT ![w] = place]
    BY <2>1 DEF Qu!ThreadMain
  <2> QED
    BY <2>2, <2>3, <2>4
<1>5. w_thread \in [Workers -> QuThread] /\ QuType
  BY DEF QuInv, QuType
<1>6. w_thread' \in [Workers -> QuThread] /\ \A v \in Workers : w_thread'[v].current = w_thread[v].current
  <2>1. PICK r \in QuThread : r = w_thread[w]
    BY <1>5
  <2>2. PICK x : x = Qu!Received(r, suspend, resume, runs)
    OBVIOUS
  <2>3. x \in QuThread /\ x.current = r.current
    BY <1>2, <2>1, <2>2, ReceivedIs
  <2>4. w_thread' = [w_thread EXCEPT ![w] = x]
    BY <1>1, <2>1, <2>2
  <2> QED
    BY <1>5, <2>1, <2>3, <2>4
<1>7. /\ w_pc' \in [Queuers -> QuPlaces] /\ w_pc'[w] \in {"acquire", "receive"}
      /\ \A th \in Queuers : th # w =>
            \/ w_pc'[th] = w_pc[th]
            \/ w_pc[th] \in {"suspending", "suspended"} /\ w_pc'[th] \in {"idle", "jam"}
  BY <1>2, <1>4 DEF QuPlaces
<1>8. QuType'
  BY <1>3, <1>5, <1>6, <1>7 DEF QuType
<1>9. WorkerInv(w)'
  <2>1. WorkerInv(w)
    BY DEF QuInv
  <2> QED
    BY <1>2, <1>3, <1>6, <1>7, <2>1 DEF WorkerInv
<1>10. \A v \in Workers : w_pc[v] \notin {"suspending", "suspended"}
  BY DEF QuInv, WorkerInv
<1>11. \A th \in Queuers :
              \/ /\ w_pc'[th] = w_pc[th] /\ w_arg'[th].task = w_arg[th].task
                 /\ th \in Workers => w_thread'[th].current = w_thread[th].current
              \/ th \in Callers /\ w_pc[th] # "insert" /\ w_pc'[th] # "insert"
              \/ /\ th \in Workers /\ WorkerInv(th)'
                 /\ w_pc[th] \in {"receive", "acquire", "finished"}
                 /\ w_pc'[th] \in {"receive", "acquire", "finished"}
  <2> SUFFICES ASSUME NEW th \in Queuers
               PROVE  \/ /\ w_pc'[th] = w_pc[th] /\ w_arg'[th].task = w_arg[th].task
                         /\ th \in Workers => w_thread'[th].current = w_thread[th].current
                      \/ th \in Callers /\ w_pc[th] # "insert" /\ w_pc'[th] # "insert"
                      \/ /\ th \in Workers /\ WorkerInv(th)'
                         /\ w_pc[th] \in {"receive", "acquire", "finished"}
                         /\ w_pc'[th] \in {"receive", "acquire", "finished"}
    OBVIOUS
  <2>1. CASE th = w
    BY <1>2, <1>7, <1>9, <2>1
  <2>2. CASE th # w
    BY <1>3, <1>6, <1>7, <1>10, <2>2 DEF Queuers
  <2> QED
    BY <2>1, <2>2
<1> QED
  BY <1>3, <1>8, <1>11, Moves

\* A client that is not pushing a task goes on, with what it works on.
LEMMA ClientMoves ==
    ASSUME QuInv, NEW c \in Callers, w_pc[c] # "insert", NEW place \in QuPlaces, place # "insert",
           w_pc' = [w_pc EXCEPT ![c] = place], w_arg' \in [Queuers -> QuArg],
           \A u \in Queuers : u # c => w_arg'[u] = w_arg[u],
           w_task' \in [Tasks -> QuTask],
           \A t \in Tasks : /\ w_task'[t].status = w_task[t].status
                            /\ w_task'[t].handlers = w_task[t].handlers,
           w_thread' \in [Workers -> QuThread],
           \A w \in Workers : w_thread'[w].current = w_thread[w].current,
           UNCHANGED <<w_m_task_list, w_async_task_head, w_pushes, w_told, w_tangled>>
    PROVE  QuInv'
<1>1. c \in Queuers /\ QuType
  BY DEF QuInv, Queuers
<1>2. /\ w_pc' \in [Queuers -> QuPlaces] /\ w_pc'[c] = place
      /\ \A u \in Queuers : u # c => w_pc'[u] = w_pc[u]
  BY <1>1, PlaceIs
<1>3. QuType'
  BY <1>1, <1>2 DEF QuType
<1>4. \A th \in Queuers :
              \/ /\ w_pc'[th] = w_pc[th] /\ w_arg'[th].task = w_arg[th].task
                 /\ th \in Workers => w_thread'[th].current = w_thread[th].current
              \/ th \in Callers /\ w_pc[th] # "insert" /\ w_pc'[th] # "insert"
  BY <1>2
<1> QED
  BY <1>3, <1>4, Moves

LEMMA ArgStays == ASSUME QuInv, UNCHANGED w_arg
                  PROVE  w_arg' \in [Queuers -> QuArg] /\ \A u \in Queuers : w_arg'[u] = w_arg[u]
BY DEF QuInv, QuType

LEMMA ThreadStays == ASSUME QuInv, UNCHANGED w_thread
                     PROVE  /\ w_thread' \in [Workers -> QuThread]
                            /\ \A w \in Workers : w_thread'[w].current = w_thread[w].current
BY DEF QuInv, QuType

LEMMA TasksStay == ASSUME QuInv, UNCHANGED w_task
                   PROVE  /\ w_task' \in [Tasks -> QuTask]
                          /\ \A t \in Tasks : /\ w_task'[t].status = w_task[t].status
                                              /\ w_task'[t].handlers = w_task[t].handlers
BY DEF QuInv, QuType

\* A message is jammed into, or put behind, a thread's ring.
LEMMA ThreadIs ==
    ASSUME QuInv, NEW w, NEW x, w_thread' = [w_thread EXCEPT ![w] = x],
           w \in Workers => x \in QuThread /\ x.current = w_thread[w].current
    PROVE  /\ w_thread' \in [Workers -> QuThread]
           /\ \A v \in Workers : w_thread'[v].current = w_thread[v].current
<1>1. w_thread \in [Workers -> QuThread]
  BY DEF QuInv, QuType
<1>2. CASE w \in Workers
  BY <1>1, <1>2
<1>3. CASE w \notin Workers
  BY <1>1, <1>3
<1> QED
  BY <1>2, <1>3

LEMMA WaitStep == ASSUME QuInv, NEW c \in Callers, Qu!Wait(c) PROVE QuInv'
<1>1. PICK place \in {"idle", "finish", "late"} : w_pc' = [w_pc EXCEPT ![c] = place]
  <2>1. PICK place : place = IF w_task[w_arg'[c].task].finish THEN "idle"
                             ELSE Qu!WaitsForFinish(c, w_arg'[c].task)
    OBVIOUS
  <2>2. place \in {"idle", "finish", "late"}
    BY <2>1 DEF Qu!WaitsForFinish
  <2>3. w_pc' = [w_pc EXCEPT ![c] = place]
    BY <2>1 DEF Qu!Wait
  <2> QED
    BY <2>2, <2>3
<1>2. /\ w_pc[c] # "insert" /\ c \in Queuers /\ QuType
      /\ UNCHANGED <<w_m_task_list, w_async_task_head, w_task, w_thread, w_pushes, w_told, w_tangled>>
  BY DEF Qu!Wait, Qu!Call, Qu!queue_vars, Queuers, QuInv
<1>3. w_arg' \in [Queuers -> QuArg] /\ \A u \in Queuers : u # c => w_arg'[u] = w_arg[u]
  <2>1. CASE UNCHANGED w_arg
    BY <2>1, ArgStays
  <2>2. CASE \E t \in Tasks : w_arg' = [w_arg EXCEPT ![c].task = t, ![c].calls = @ + 1]
    BY <1>2, <2>2, NotedIs
  <2> QED
    BY <2>1, <2>2 DEF Qu!Wait
<1> QED
  BY <1>1, <1>2, <1>3, ThreadStays, TasksStay, ClientMoves DEF QuPlaces

LEMMA ChangeStatusStep == ASSUME QuInv, NEW c \in Callers, Qu!ChangeStatus(c) PROVE QuInv'
<1>1. PICK w \in Workers, to \in {"Suspended", "Active"} :
         /\ w_thread' = [w_thread EXCEPT ![w].status = to]
         /\ w_arg' = [w_arg EXCEPT ![c].task = w, ![c].calls = @ + 1]
         /\ w_pc' = [w_pc EXCEPT ![c] =
                        IF ~w_thread[w].suspend_event
                        THEN Qu!WaitsForThread(c, w, IF w_thread[w].status # to THEN "suspending" ELSE "suspended")
                        ELSE IF w_thread[w].status # to THEN "jam" ELSE "idle"]
         /\ w_pc[c] = "idle"
         /\ UNCHANGED <<w_m_task_list, w_async_task_head, w_task, w_pushes, w_told, w_tangled>>
  BY DEF Qu!ChangeStatus, Qu!Call, Qu!queue_vars
<1>2. PICK place \in {"suspending", "suspended", "jam", "idle", "late"} : w_pc' = [w_pc EXCEPT ![c] = place]
  BY <1>1 DEF Qu!WaitsForThread
<1>3. PICK r \in QuThread : r = w_thread[w]
  BY DEF QuInv, QuType
<1>4. PICK x : x = [r EXCEPT !.status = to]
  OBVIOUS
<1>5. x \in QuThread /\ x.current = r.current /\ w_thread' = [w_thread EXCEPT ![w] = x]
  BY <1>1, <1>3, <1>4 DEF QuThread
<1>6. /\ w_thread' \in [Workers -> QuThread]
      /\ \A v \in Workers : w_thread'[v].current = w_thread[v].current
  BY <1>3, <1>5, ThreadIs
<1>7. w_arg' \in [Queuers -> QuArg] /\ \A u \in Queuers : u # c => w_arg'[u] = w_arg[u]
  BY <1>1, NotedIs DEF Queuers, QuInv
<1>8. place \in QuPlaces /\ place # "insert" /\ w_pc[c] # "insert"
  BY <1>1, <1>2 DEF QuPlaces
<1>9. UNCHANGED <<w_m_task_list, w_async_task_head, w_task, w_pushes, w_told, w_tangled>>
  BY <1>1
<1> QED
  BY <1>2, <1>6, <1>7, <1>8, <1>9, TasksStay, ClientMoves

LEMMA JamMessageStep == ASSUME QuInv, NEW c \in Callers, Qu!JamMessage(c) PROVE QuInv'
<1>1. PICK w : w = w_arg[c].task
  OBVIOUS
<1>2. /\ w_pc[c] = "jam" /\ w_thread' = [w_thread EXCEPT ![w] = Qu!Jammed(@)]
      /\ w_pc' = [w_pc EXCEPT ![c] = Qu!WaitsForThread(c, w, "suspended")]
      /\ UNCHANGED <<w_m_task_list, w_async_task_head, w_task, w_arg, w_pushes, w_told, w_tangled>>
  BY <1>1 DEF Qu!JamMessage, Qu!queue_vars
<1>3. PICK r, x : r = w_thread[w] /\ x = Qu!Jammed(r)
  OBVIOUS
<1>4. w_thread' = [w_thread EXCEPT ![w] = x]
  BY <1>2, <1>3
<1>5. w \in Workers => x \in QuThread /\ x.current = w_thread[w].current
  BY <1>3, JammedIs DEF QuInv, QuType
<1>6. /\ w_thread' \in [Workers -> QuThread]
      /\ \A v \in Workers : w_thread'[v].current = w_thread[v].current
  BY <1>4, <1>5, ThreadIs
<1>7. PICK place \in {"suspended", "late"} : w_pc' = [w_pc EXCEPT ![c] = place]
  BY <1>2 DEF Qu!WaitsForThread
<1> QED
  BY <1>2, <1>6, <1>7, ArgStays, TasksStay, ClientMoves DEF QuPlaces

LEMMA TurnEndsStep == ASSUME QuInv, NEW w \in Workers, Qu!Finished(w) PROVE QuInv'
<1>1. /\ w_pc[w] = "finished" /\ w_pc' = [w_pc EXCEPT ![w] = "receive"]
      /\ w_thread' = [w_thread EXCEPT ![w].is_finished = TRUE] /\ w \in Queuers /\ QuType /\ WorkerInv(w)
      /\ UNCHANGED <<w_m_task_list, w_async_task_head, w_task, w_arg, w_pushes, w_told, w_tangled>>
  BY DEF Qu!Finished, Qu!queue_vars, Queuers, QuInv
<1>2. PICK r \in QuThread : r = w_thread[w]
  BY DEF QuInv, QuType
<1>3. PICK x : x = [r EXCEPT !.is_finished = TRUE]
  OBVIOUS
<1>4. x \in QuThread /\ x.current = r.current /\ w_thread' = [w_thread EXCEPT ![w] = x]
  BY <1>1, <1>2, <1>3 DEF QuThread
<1>5. /\ w_thread' \in [Workers -> QuThread]
      /\ \A v \in Workers : w_thread'[v].current = w_thread[v].current
  BY <1>2, <1>4, ThreadIs
<1>6. /\ w_pc' \in [Queuers -> QuPlaces] /\ w_pc'[w] = "receive"
      /\ \A u \in Queuers : u # w => w_pc'[u] = w_pc[u]
  BY <1>1, PlaceIs DEF QuPlaces
<1>7. QuType'
  BY <1>1, <1>5, <1>6 DEF QuType
<1>8. WorkerInv(w)'
  BY <1>1, <1>5, <1>6 DEF WorkerInv
<1>9. \A th \in Queuers :
              \/ /\ w_pc'[th] = w_pc[th] /\ w_arg'[th].task = w_arg[th].task
                 /\ th \in Workers => w_thread'[th].current = w_thread[th].current
              \/ /\ th \in Workers /\ WorkerInv(th)'
                 /\ w_pc[th] \in {"receive", "acquire", "finished"}
                 /\ w_pc'[th] \in {"receive", "acquire", "finished"}
  <2> SUFFICES ASSUME NEW th \in Queuers
               PROVE  \/ /\ w_pc'[th] = w_pc[th] /\ w_arg'[th].task = w_arg[th].task
                         /\ th \in Workers => w_thread'[th].current = w_thread[th].current
                      \/ /\ th \in Workers /\ WorkerInv(th)'
                         /\ w_pc[th] \in {"receive", "acquire", "finished"}
                         /\ w_pc'[th] \in {"receive", "acquire", "finished"}
    OBVIOUS
  <2>1. CASE th = w
    BY <1>1, <1>6, <1>8, <2>1
  <2>2. CASE th # w
    BY <1>1, <1>5, <1>6, <2>2
  <2> QED
    BY <2>1, <2>2
<1> QED
  BY <1>1, <1>7, <1>9, Moves

-----------------------------------------------------------------------------
(* A step with a task. *)

\* A step of one thread with one task, which nobody else has unless it keeps it.
LEMMA OneStep ==
    ASSUME QuInv, QuType', ListInv', NEW th \in Queuers, NEW t \in Tasks, w_tangled \subseteq w_tangled',
           \A u \in Queuers : u # th =>
              \/ /\ w_pc'[u] = w_pc[u] /\ w_arg'[u].task = w_arg[u].task
                 /\ u \in Workers => w_thread'[u].current = w_thread[u].current
              \/ u \in Callers /\ w_pc[u] # "insert" /\ w_pc'[u] # "insert",
           \A x \in Tasks : x # t => /\ w_task'[x].status = w_task[x].status
                                     /\ w_task'[x].handlers = w_task[x].handlers
                                     /\ w_pushes'[x] = w_pushes[x] /\ w_told'[x] = w_told[x],
           \A x : x # t => ~Inserts(th, x) /\ ~Inserts(th, x)' /\ ~Runs(th, x)',
           th \in Workers => \A x : x # t => ~Results(th, x) /\ ~Results(th, x)',
           t \notin w_tangled' =>
              /\ w_task'[t].status = w_task[t].status \/ \A u \in Queuers : u # th => ~Has(u, t)
              /\ Has(th, t)' => \A u \in Queuers : u # th => ~Has(u, t)
              /\ Inserts(th, t)' => w_task'[t].status \in IF th \in Workers THEN {"PostExecute"} ELSE Idle,
           th \in Workers => WorkerInv(th)',
           t \notin w_tangled' => OutcomeInv(t)'
    PROVE  QuInv'
<1>1. \A u \in Queuers : u # th => \A x : Inserts(u, x)' <=> Inserts(u, x)
  BY DEF Inserts
<1>2. \A u \in Workers : u # th => /\ w_pc'[u] = w_pc[u] /\ w_arg'[u].task = w_arg[u].task
                                   /\ w_thread'[u].current = w_thread[u].current
  BY DEF Queuers
<1>3. \A u \in Queuers : u # th => \A x : Runs(u, x)' <=> Runs(u, x)
  BY <1>2 DEF Runs, Qu!Running
<1>4. \A u \in Workers : u # th => \A x : Results(u, x)' <=> Results(u, x)
  BY <1>2 DEF Results
<1>5. \A u \in Queuers : u # th => \A x : Has(u, x)' <=> Has(u, x)
  BY <1>1, <1>3 DEF Has
<1>6. \A x : x # t => ~Has(th, x)'
  BY DEF Has
<1>7. \A x \in Tasks \ w_tangled' : \A u, v \in Queuers : Has(u, x)' /\ Has(v, x)' => u = v
  <2> SUFFICES ASSUME NEW x \in Tasks \ w_tangled', NEW u \in Queuers, NEW v \in Queuers, Has(u, x)', Has(v, x)'
               PROVE  u = v
    OBVIOUS
  <2>1. CASE u # th /\ v # th
    BY <1>5, <2>1 DEF QuInv, OwnerInv
  <2>2. CASE u = th /\ v # th
    BY <1>5, <1>6, <2>2
  <2>3. CASE u # th /\ v = th
    BY <1>5, <1>6, <2>3
  <2> QED
    BY <2>1, <2>2, <2>3
<1>12. \A u \in Queuers : \A x : Inserts(u, x)' => x \in Tasks
  <2> SUFFICES ASSUME NEW u \in Queuers, NEW x, Inserts(u, x)' PROVE x \in Tasks
    OBVIOUS
  <2>1. CASE u = th
    BY <2>1
  <2>2. CASE u # th
    BY <1>1, <2>2 DEF QuInv, OwnerInv
  <2> QED
    BY <2>1, <2>2
<1>8. \A u \in Queuers : \A x : Inserts(u, x)' /\ x \notin w_tangled' =>
          w_task'[x].status \in IF u \in Workers THEN {"PostExecute"} ELSE Idle
  <2> SUFFICES ASSUME NEW u \in Queuers, NEW x, Inserts(u, x)', x \notin w_tangled'
               PROVE  w_task'[x].status \in IF u \in Workers THEN {"PostExecute"} ELSE Idle
    OBVIOUS
  <2>1. CASE u = th
    BY <2>1
  <2>2. CASE u # th
    <3>1. Inserts(u, x) /\ Has(u, x)
      BY <1>1, <2>2 DEF Has
    <3>2. x \in Tasks /\ w_task[x].status \in IF u \in Workers THEN {"PostExecute"} ELSE Idle
      BY <3>1 DEF QuInv, OwnerInv
    <3>3. w_task'[x].status = w_task[x].status
      BY <2>2, <3>1, <3>2
    <3> QED
      BY <3>2, <3>3
  <2> QED
    BY <2>1, <2>2
<1>9. OwnerInv'
  BY <1>7, <1>8, <1>12 DEF OwnerInv
<1>10. ASSUME NEW w \in Workers PROVE WorkerInv(w)'
  <2>1. CASE w = th
    BY <2>1
  <2>2. CASE w # th
    <3>1. WorkerInv(w) /\ w \in Queuers
      BY DEF QuInv, Queuers
    <3>2. w_pc[w] \in {"execute", "result", "free"} /\ w_arg[w].task = None
              /\ w_thread[w].current \notin w_tangled'
              => w_task'[w_thread[w].current].status = w_task[w_thread[w].current].status
      <4> SUFFICES ASSUME w_pc[w] \in {"execute", "result", "free"}, w_arg[w].task = None,
                          w_thread[w].current \notin w_tangled'
                   PROVE  w_task'[w_thread[w].current].status = w_task[w_thread[w].current].status
        OBVIOUS
      <4>1. Has(w, w_thread[w].current)
        BY DEF Has, Runs, Qu!Running
      <4>2. w_thread[w].current \in Tasks
        BY <3>1 DEF WorkerInv, QuInv, QuType, QuThread
      <4> QED
        BY <2>2, <3>1, <4>1, <4>2
    <3> QED
      BY <1>2, <2>2, <3>1, <3>2, WorkerStays
  <2> QED
    BY <2>1, <2>2
<1>11. ASSUME NEW x \in Tasks \ w_tangled', x # t PROVE OutcomeInv(x)'
  <2>1. \A u \in Queuers : Inserts(u, x)' <=> Inserts(u, x)
    BY <1>1, <1>11
  <2>2. \A w \in Workers : Results(w, x)' <=> Results(w, x)
    BY <1>4, <1>11
  <2>3. Kept(x)' <=> Kept(x)
    BY <1>11, <2>1, <2>2 DEF Kept
  <2> QED
    BY <1>11, <2>3 DEF QuInv, OutcomeInv
<1> QED
  BY <1>9, <1>10, <1>11 DEF QuInv

\* Nobody has a queued task.
LEMMA QueuedIsFree ==
    ASSUME QuInv, NEW t \in Tasks \ w_tangled, w_task[t].status \in Idle \cup {"Queued"},
           \A th \in Queuers : ~Inserts(th, t)
    PROVE  \A th \in Queuers : ~Has(th, t)
<1> SUFFICES ASSUME NEW w \in Workers, Runs(w, t) PROVE FALSE
  BY DEF Has, Runs
<1>1. WorkerInv(w)
  BY DEF QuInv
<1> QED
  BY <1>1 DEF Runs, Qu!Running, WorkerInv, Idle

LEMMA QueuedIsNotInserted ==
    ASSUME QuInv, NEW t \in Tasks \ w_tangled, w_task[t].status = "Queued"
    PROVE  \A th \in Queuers : ~Inserts(th, t)
BY DEF QuInv, OwnerInv, Idle

\* Whoever is at a task's result has it.
LEMMA ResultsHas == ASSUME QuInv, NEW w \in Workers, NEW t \in Tasks, Results(w, t)
                    PROVE  Runs(w, t) /\ Has(w, t)
BY DEF QuInv, WorkerInv, Results, Runs, Has, Qu!Running

\* A task, after the step that changes it.
LEMMA TaskIs ==
    ASSUME QuType, NEW t \in Tasks, NEW x \in QuTask, w_task' = [w_task EXCEPT ![t] = x]
    PROVE  /\ w_task' \in [Tasks -> QuTask] /\ w_task'[t] = x
           /\ \A u \in Tasks : u # t => w_task'[u] = w_task[u]
BY DEF QuType

\* Threads that wait for the end of a task go on.
LEMMA ReleasedIs ==
    ASSUME QuInv, NEW done, NEW at, at = Qu!Released(done, w_pc)
    PROVE  /\ at \in [Queuers -> QuPlaces]
           /\ \A th \in Queuers : \/ at[th] = w_pc[th]
                                  \/ /\ th \in Callers /\ w_pc[th] = "finish" /\ at[th] = "idle"
                                     /\ done # {}
<1>1. w_pc \in [Queuers -> QuPlaces]
  BY DEF QuInv, QuType
<1>2. \A th \in Queuers : w_pc[th] \notin {"cleared", "all"}
  BY <1>1 DEF QuPlaces
<1>3. at = [th \in Queuers |-> IF Qu!GoesOn(th, done, w_pc) THEN "idle" ELSE w_pc[th]]
  BY DEF Qu!Released, Qu!Threads, Queuers
<1>4. ASSUME NEW th \in Queuers
      PROVE  Qu!GoesOn(th, done, w_pc) => w_pc[th] = "finish" /\ w_arg[th].task \in done
  <2>1. w_pc[th] # "cleared" /\ w_pc[th] # "all"
    BY <1>2
  <2> QED
    BY <2>1, Zenon DEF Qu!GoesOn
<1>5. at \in [Queuers -> QuPlaces]
  BY <1>1, <1>3 DEF QuPlaces
<1>6. \A w \in Workers : w_pc[w] # "finish"
  BY DEF QuInv, WorkerInv
<1> QED
  BY <1>3, <1>4, <1>5, <1>6 DEF Queuers

LEMMA NobodyReleased == ASSUME QuInv PROVE Qu!Released({}, w_pc) = w_pc
<1>1. PICK at : at = Qu!Released({}, w_pc)
  OBVIOUS
<1>2. at \in [Queuers -> QuPlaces] /\ \A th \in Queuers : at[th] = w_pc[th]
  BY <1>1, ReleasedIs
<1>3. w_pc \in [Queuers -> QuPlaces]
  BY DEF QuInv, QuType
<1> QED
  BY <1>1, <1>2, <1>3

-----------------------------------------------------------------------------
(* A task from its head of the list to its end. *)

\* The task at the head of the list leaves it.
LEMMA LeavesList ==
    ASSUME QuInv, OnceIn(w_m_task_list), UNCHANGED w_tangled, NEW t \in Tasks, Holds(w_m_task_list, t),
           w_m_task_list' = Qu!Unlinked(w_m_task_list, t),
           w_async_task_head' = [w_async_task_head EXCEPT ![0] = IF w_async_task_head[0] = t
                                                                 THEN Qu!NewHead(t, 0) ELSE @],
           w_task'[t].status # "Queued",
           \A x \in Tasks : x # t => w_task'[x].status = w_task[x].status
    PROVE  /\ w_m_task_list' \in Seq(Tasks) /\ w_async_task_head' \in [{0} -> Tasks \cup {None}]
           /\ ListInv'
<1>1. QuType /\ ListInv
  BY DEF QuInv
<1>2. PICK list \in Seq(Tasks) : list = w_m_task_list
  BY <1>1 DEF QuType
<1>3. OnceIn(list) /\ Holds(list, t) /\ w_async_task_head[0] = FirstOf(list)
  BY <1>1, <1>2 DEF ListInv
<1>4. PICK rest : rest = Qu!Unlinked(list, t)
  OBVIOUS
<1>5. /\ rest \in Seq(Tasks) /\ OnceIn(rest) /\ \A u : Holds(rest, u) <=> Holds(list, u) /\ u # t
      /\ FirstOf(rest) = IF list[1] # t THEN list[1] ELSE IF Len(list) = 1 THEN None ELSE list[2]
  BY <1>3, <1>4, UnlinkedIs
<1>6. Len(list) >= 1 /\ list[1] \in Tasks /\ FirstOf(list) = list[1]
  <2>1. list # <<>>
    BY <1>3 DEF Holds
  <2> QED
    BY <2>1 DEF FirstOf
<1>7. w_async_task_head'[0] = FirstOf(rest)
  <2>1. w_async_task_head'[0] = IF w_async_task_head[0] = t THEN Qu!NewHead(t, 0) ELSE w_async_task_head[0]
    BY <1>1 DEF QuType
  <2>2. CASE list[1] = t
    <3>1. Qu!NewHead(t, 0) = IF Len(list) = 1 THEN None ELSE list[2]
      BY <1>1, <1>2, <2>2, NewHeadIs
    <3> QED
      BY <1>3, <1>5, <1>6, <2>1, <2>2, <3>1
  <2>3. CASE list[1] # t
    BY <1>3, <1>5, <1>6, <2>1, <2>3
  <2> QED
    BY <2>2, <2>3
<1>8. FirstOf(rest) \in Tasks \cup {None}
  <2>1. CASE list[1] # t
    BY <1>5, <1>6, <2>1
  <2>2. CASE Len(list) # 1
    <3>1. list[2] \in Tasks
      <4>1. PICK n \in Nat : n = Len(list) /\ DOMAIN list = 1 .. n
        OBVIOUS
      <4>2. 2 \in DOMAIN list
        BY <1>6, <2>2, <4>1
      <4> QED
        BY <4>2
    <3> QED
      BY <1>5, <1>6, <3>1
  <2>3. CASE list[1] = t /\ Len(list) = 1
    BY <1>5, <2>3
  <2> QED
    BY <2>1, <2>2, <2>3
<1>9. w_async_task_head' \in [{0} -> Tasks \cup {None}]
  <2>1. PICK h : h = IF w_async_task_head[0] = t THEN Qu!NewHead(t, 0) ELSE w_async_task_head[0]
    OBVIOUS
  <2>2. w_async_task_head \in [{0} -> Tasks \cup {None}]
    BY <1>1 DEF QuType
  <2>3. w_async_task_head' = [w_async_task_head EXCEPT ![0] = h]
    BY <2>1
  <2>4. h \in Tasks \cup {None}
    BY <1>7, <1>8, <2>2, <2>3
  <2> QED
    BY <2>2, <2>3, <2>4
<1>10. w_m_task_list' = rest
  BY <1>2, <1>4
<1>11. /\ \A u \in Tasks : w_task'[u].status = "Queued" => Holds(rest, u)
       /\ \A u \in Tasks \ w_tangled : Holds(rest, u) => w_task'[u].status = "Queued"
  BY <1>1, <1>2, <1>5 DEF ListInv
<1>12. \A u : ~Twice(rest, u)
  BY <1>5 DEF OnceIn, Twice
<1> QED
  BY <1>5, <1>7, <1>9, <1>10, <1>11, <1>12 DEF ListInv

LEMMA AcquireStep == ASSUME QuInv, OnceIn(w_m_task_list), NEW w \in Workers, Qu!Acquire(w) PROVE QuInv'
<1>1. /\ w_pc[w] = "acquire" /\ w \in Queuers /\ QuType /\ WorkerInv(w) /\ ListInv
      /\ UNCHANGED <<w_arg, w_pushes, w_told, w_tangled>>
  BY DEF Qu!Acquire, Queuers, QuInv
<1>2. CASE /\ w_thread' = [w_thread EXCEPT ![w].current = None]
           /\ w_pc' = [w_pc EXCEPT ![w] = "finished"]
           /\ UNCHANGED <<w_m_task_list, w_async_task_head, w_task>>
  <2>1. PICK r \in QuThread : r = w_thread[w]
    BY <1>1 DEF QuType
  <2>2. PICK x : x = [r EXCEPT !.current = None]
    OBVIOUS
  <2>3. x \in QuThread /\ x.current = None /\ w_thread' = [w_thread EXCEPT ![w] = x]
    BY <1>2, <2>1, <2>2 DEF QuThread
  <2>4. /\ w_thread' \in [Workers -> QuThread] /\ w_thread'[w].current = None
        /\ \A v \in Workers : v # w => w_thread'[v] = w_thread[v]
    BY <1>1, <2>3 DEF QuType
  <2>5. /\ w_pc' \in [Queuers -> QuPlaces] /\ w_pc'[w] = "finished"
        /\ \A u \in Queuers : u # w => w_pc'[u] = w_pc[u]
    BY <1>1, <1>2, PlaceIs DEF QuPlaces
  <2>6. QuType'
    BY <1>1, <1>2, <2>4, <2>5 DEF QuType
  <2>7. WorkerInv(w)'
    BY <1>1, <2>4, <2>5 DEF WorkerInv
  <2>8. \A th \in Queuers :
              \/ /\ w_pc'[th] = w_pc[th] /\ w_arg'[th].task = w_arg[th].task
                 /\ th \in Workers => w_thread'[th].current = w_thread[th].current
              \/ /\ th \in Workers /\ WorkerInv(th)'
                 /\ w_pc[th] \in {"receive", "acquire", "finished"}
                 /\ w_pc'[th] \in {"receive", "acquire", "finished"}
    <3> SUFFICES ASSUME NEW th \in Queuers
                 PROVE  \/ /\ w_pc'[th] = w_pc[th] /\ w_arg'[th].task = w_arg[th].task
                           /\ th \in Workers => w_thread'[th].current = w_thread[th].current
                        \/ /\ th \in Workers /\ WorkerInv(th)'
                           /\ w_pc[th] \in {"receive", "acquire", "finished"}
                           /\ w_pc'[th] \in {"receive", "acquire", "finished"}
      OBVIOUS
    <3>1. CASE th = w
      BY <1>1, <2>5, <2>7, <3>1
    <3>2. CASE th # w
      BY <1>1, <2>4, <2>5, <3>2
    <3> QED
      BY <3>1, <3>2
  <2> QED
    BY <1>1, <1>2, <2>6, <2>8, Moves
<1>3. CASE \E p \in {0} :
              LET t == w_async_task_head[p]
              IN /\ Qu!NextLevel(p)
                 /\ w_async_task_head' = [w_async_task_head EXCEPT ![p] = Qu!NewHead(t, p)]
                 /\ w_m_task_list' = Qu!Unlinked(w_m_task_list, t)
                 /\ w_task' = [w_task EXCEPT ![t].status = "Acquired"]
                 /\ w_thread' = [w_thread EXCEPT ![w].current = t]
                 /\ w_pc' = [w_pc EXCEPT ![w] = "execute"]
  <2>1. PICK t : t = w_async_task_head[0]
    OBVIOUS
  <2>2. /\ t # None
        /\ w_async_task_head' = [w_async_task_head EXCEPT ![0] = Qu!NewHead(t, 0)]
        /\ w_m_task_list' = Qu!Unlinked(w_m_task_list, t)
        /\ w_task' = [w_task EXCEPT ![t].status = "Acquired"]
        /\ w_thread' = [w_thread EXCEPT ![w].current = t]
        /\ w_pc' = [w_pc EXCEPT ![w] = "execute"]
    BY <1>3, <2>1 DEF Qu!NextLevel
  <2>3. t \in Tasks /\ Holds(w_m_task_list, t) /\ (t \notin w_tangled => w_task[t].status = "Queued")
    <3>1. t \in Tasks
      BY <1>1, <2>1, <2>2 DEF QuType
    <3>2. w_m_task_list # <<>> /\ w_m_task_list[1] = t
      BY <1>1, <2>1, <2>2 DEF ListInv, FirstOf
    <3>3. 1 \in DOMAIN w_m_task_list
      BY <1>1, <3>2 DEF QuType
    <3> QED
      BY <1>1, <3>1, <3>2, <3>3 DEF ListInv, Holds
  <2>4. PICK x \in QuTask : x = w_task[t]
    BY <1>1, <2>3 DEF QuType
  <2>5. PICK y : y = [x EXCEPT !.status = "Acquired"]
    OBVIOUS
  <2>6. y \in QuTask /\ y.status = "Acquired" /\ y.handlers = x.handlers /\ w_task' = [w_task EXCEPT ![t] = y]
    BY <2>2, <2>4, <2>5 DEF QuTask
  <2>7. w_task' \in [Tasks -> QuTask] /\ w_task'[t] = y /\ \A u \in Tasks : u # t => w_task'[u] = w_task[u]
    BY <1>1, <2>3, <2>6, TaskIs
  <2>8. /\ w_m_task_list' \in Seq(Tasks) /\ w_async_task_head' \in [{0} -> Tasks \cup {None}]
        /\ ListInv'
    <3>1. w_async_task_head' = [w_async_task_head EXCEPT ![0] = IF w_async_task_head[0] = t
                                                                THEN Qu!NewHead(t, 0) ELSE @]
      BY <2>1, <2>2
    <3> QED
      BY <1>1, <2>2, <2>3, <2>6, <2>7, <3>1, LeavesList
  <2>9. PICK r \in QuThread : r = w_thread[w]
    BY <1>1 DEF QuType
  <2>10. PICK z : z = [r EXCEPT !.current = t]
    OBVIOUS
  <2>11. z \in QuThread /\ z.current = t /\ w_thread' = [w_thread EXCEPT ![w] = z]
    BY <2>2, <2>3, <2>9, <2>10 DEF QuThread
  <2>12. /\ w_thread' \in [Workers -> QuThread] /\ w_thread'[w].current = t
         /\ \A v \in Workers : v # w => w_thread'[v] = w_thread[v]
    BY <1>1, <2>11 DEF QuType
  <2>13. /\ w_pc' \in [Queuers -> QuPlaces] /\ w_pc'[w] = "execute"
         /\ \A u \in Queuers : u # w => w_pc'[u] = w_pc[u]
    BY <1>1, <2>2, PlaceIs DEF QuPlaces
  <2>14. QuType'
    BY <1>1, <2>7, <2>8, <2>12, <2>13 DEF QuType
  <2>15. WorkerInv(w)'
    BY <1>1, <2>2, <2>6, <2>7, <2>12, <2>13 DEF WorkerInv
  <2>16. t \notin w_tangled => \A u \in Queuers : ~Inserts(u, t) /\ ~Has(u, t)
    BY <2>3, QueuedIsNotInserted, QueuedIsFree DEF Idle
  <2>17. t \notin w_tangled => OutcomeInv(t)'
    <3> SUFFICES ASSUME t \notin w_tangled PROVE OutcomeInv(t)'
      OBVIOUS
    <3>1. Kept(t) /\ Kept(t)'
      BY <2>3, <2>6, <2>7 DEF Kept
    <3> QED
      BY <1>1, <2>3, <2>4, <2>6, <2>7, <3>1 DEF QuInv, OutcomeInv
  <2>18. \A u : u # t => ~Inserts(w, u) /\ ~Inserts(w, u)' /\ ~Runs(w, u)'
    BY <1>1, <2>12, <2>13 DEF Inserts, Runs
  <2>19. \A u : u # t => ~Results(w, u) /\ ~Results(w, u)'
    BY <1>1, <2>13 DEF Results
  <2>20. ~Inserts(w, t)'
    BY <2>13 DEF Inserts
  <2>21. \A u \in Queuers : u # w =>
              \/ /\ w_pc'[u] = w_pc[u] /\ w_arg'[u].task = w_arg[u].task
                 /\ u \in Workers => w_thread'[u].current = w_thread[u].current
              \/ u \in Callers /\ w_pc[u] # "insert" /\ w_pc'[u] # "insert"
    BY <1>1, <2>12, <2>13
  <2> QED
    BY <1>1, <2>3, <2>7, <2>8, <2>14, <2>15, <2>16, <2>17, <2>18, <2>19, <2>20, <2>21, OneStep
<1> QED
  BY <1>2, <1>3, NobodyReleased DEF Qu!Acquire, Qu!AcquireNextTask, Qu!queue_vars

LEMMA RunStep == ASSUME QuInv, NEW w \in Workers, Qu!Execute(w) PROVE QuInv'
<1>1. PICK t : t = w_thread[w].current
  OBVIOUS
<1>2. /\ w_pc[w] = "execute" /\ w \in Queuers /\ QuType /\ WorkerInv(w) /\ ListInv
      /\ w_task' = [w_task EXCEPT ![t].status = "PostExecute"]
      /\ w_pc' = [w_pc EXCEPT ![w] = "result"]
      /\ UNCHANGED <<w_m_task_list, w_async_task_head, w_thread, w_arg, w_pushes, w_told, w_tangled>>
  BY <1>1 DEF Qu!Execute, Qu!queue_vars, Queuers, QuInv
<1>3. t \in Tasks /\ (t \notin w_tangled => w_task[t].status = "Acquired") /\ w_arg[w].task = None
  BY <1>1, <1>2 DEF WorkerInv, QuType, QuThread
<1>4. PICK x \in QuTask : x = w_task[t]
  BY <1>2, <1>3 DEF QuType
<1>5. PICK y : y = [x EXCEPT !.status = "PostExecute"]
  OBVIOUS
<1>6. y \in QuTask /\ y.status = "PostExecute" /\ y.handlers = x.handlers /\ w_task' = [w_task EXCEPT ![t] = y]
  BY <1>2, <1>4, <1>5 DEF QuTask
<1>7. w_task' \in [Tasks -> QuTask] /\ w_task'[t] = y /\ \A u \in Tasks : u # t => w_task'[u] = w_task[u]
  BY <1>2, <1>3, <1>6, TaskIs
<1>8. ListInv'
  BY <1>2, <1>3, <1>6, <1>7 DEF ListInv
<1>9. /\ w_pc' \in [Queuers -> QuPlaces] /\ w_pc'[w] = "result"
      /\ \A u \in Queuers : u # w => w_pc'[u] = w_pc[u]
  BY <1>2, PlaceIs DEF QuPlaces
<1>10. QuType'
  BY <1>2, <1>7, <1>9 DEF QuType
<1>11. WorkerInv(w)'
  BY <1>1, <1>2, <1>3, <1>6, <1>7, <1>9 DEF WorkerInv
<1>12. t \notin w_tangled => Has(w, t) /\ \A u \in Queuers : u # w => ~Has(u, t)
  <2>1. Has(w, t)
    BY <1>1, <1>2, <1>3 DEF Has, Runs, Qu!Running
  <2> QED
    BY <1>2, <1>3, <2>1 DEF QuInv, OwnerInv
<1>13. t \notin w_tangled => OutcomeInv(t)'
  <2> SUFFICES ASSUME t \notin w_tangled PROVE OutcomeInv(t)'
    OBVIOUS
  <2>1. Kept(t) /\ Kept(t)'
    BY <1>1, <1>2, <1>3, <1>9 DEF Kept, Results
  <2> QED
    BY <1>2, <1>3, <1>4, <1>6, <1>7, <2>1 DEF QuInv, OutcomeInv
<1>14. \A u : u # t => ~Inserts(w, u) /\ ~Inserts(w, u)' /\ ~Runs(w, u)'
  BY <1>1, <1>2, <1>9 DEF Inserts, Runs
<1>15. \A u : u # t => ~Results(w, u) /\ ~Results(w, u)'
  BY <1>1, <1>2 DEF Results
<1>16. ~Inserts(w, t)'
  BY <1>9 DEF Inserts
<1> QED
  BY <1>2, <1>3, <1>7, <1>8, <1>9, <1>10, <1>11, <1>12, <1>13, <1>14, <1>15, <1>16, OneStep

LEMMA ResultStep == ASSUME QuInv, NEW w \in Workers, Qu!Result(w) PROVE QuInv'
<1>1. PICK t : t = w_thread[w].current
  OBVIOUS
<1>2. /\ w_pc[w] = "result" /\ w \in Queuers /\ QuType /\ WorkerInv(w) /\ ListInv
      /\ UNCHANGED <<w_m_task_list, w_async_task_head, w_thread, w_tangled>>
  BY DEF Qu!Result, Qu!queue_vars, Queuers, QuInv
<1>3. t \in Tasks /\ (t \notin w_tangled => w_task[t].status = "PostExecute") /\ w_arg[w].task = None
  BY <1>1, <1>2 DEF WorkerInv, QuType, QuThread
<1>4. t \notin w_tangled => Results(w, t) /\ Has(w, t) /\ \A u \in Queuers : u # w => ~Has(u, t)
  <2>1. Results(w, t)
    BY <1>1, <1>2 DEF Results
  <2> QED
    BY <1>2, <1>3, <2>1, ResultsHas DEF QuInv, OwnerInv
<1>5. t \notin w_tangled => Kept(t) /\ w_task[t].handlers = Handlers /\ w_pushes[t] = w_told[t] + 1
  BY <1>3, <1>4 DEF Kept, QuInv, OutcomeInv
<1>6. /\ w_told' \in [Tasks -> Nat] /\ (t \notin w_tangled => w_told'[t] = w_told[t] + 1)
      /\ \A u \in Tasks : u # t => w_told'[u] = w_told[u]
  <2>1. PICK n : n = IF "result" \in w_task[t].handlers THEN 1 ELSE 0
    OBVIOUS
  <2>2. n \in Nat /\ (t \notin w_tangled => n = 1)
    BY <1>5, <2>1 DEF Handlers
  <2>3. w_told' = [w_told EXCEPT ![t] = @ + n]
    BY <1>1, <2>1 DEF Qu!Result
  <2> QED
    BY <1>2, <1>3, <2>2, <2>3 DEF QuType
<1>7. PICK x \in QuTask : x = w_task[t]
  BY <1>2, <1>3 DEF QuType
<1>8. ASSUME NEW y \in QuTask, y.status = x.status, w_task' = [w_task EXCEPT ![t] = y]
      PROVE  /\ w_task' \in [Tasks -> QuTask] /\ w_task'[t] = y
             /\ \A u \in Tasks : u # t => w_task'[u] = w_task[u]
             /\ ListInv'
  <2>1. w_task' \in [Tasks -> QuTask] /\ w_task'[t] = y /\ \A u \in Tasks : u # t => w_task'[u] = w_task[u]
    BY <1>2, <1>3, <1>8, TaskIs
  <2> QED
    BY <1>2, <1>3, <1>7, <1>8, <2>1 DEF ListInv
<1>9. CASE /\ w_task' = [w_task EXCEPT ![t].handlers = Qu!Taken(@)]
           /\ w_pc' = [w_pc EXCEPT ![w] = "free"]
           /\ UNCHANGED <<w_arg, w_pushes>>
  <2>1. PICK y : y = [x EXCEPT !.handlers = {}]
    OBVIOUS
  <2>2. y \in QuTask /\ y.status = x.status /\ y.handlers = {} /\ w_task' = [w_task EXCEPT ![t] = y]
    BY <1>3, <1>7, <1>9, <2>1 DEF QuTask, Qu!Taken
  <2>3. /\ w_task' \in [Tasks -> QuTask] /\ w_task'[t] = y
        /\ \A u \in Tasks : u # t => w_task'[u] = w_task[u]
        /\ ListInv'
    BY <1>8, <2>2
  <2>4. /\ w_pc' \in [Queuers -> QuPlaces] /\ w_pc'[w] = "free"
        /\ \A u \in Queuers : u # w => w_pc'[u] = w_pc[u]
    BY <1>2, <1>9, PlaceIs DEF QuPlaces
  <2>5. QuType'
    BY <1>2, <1>6, <1>9, <2>3, <2>4 DEF QuType
  <2>6. WorkerInv(w)'
    BY <1>1, <1>2, <1>3, <1>7, <1>9, <2>2, <2>3, <2>4 DEF WorkerInv
  <2>7. t \notin w_tangled => OutcomeInv(t)'
    <3> SUFFICES ASSUME t \notin w_tangled PROVE OutcomeInv(t)'
      OBVIOUS
    <3>1. ASSUME NEW v \in Workers, Results(v, t)' PROVE FALSE
      <4>1. v # w
        BY <2>4, <3>1 DEF Results
      <4>2. Results(v, t)
        BY <1>2, <2>4, <3>1, <4>1 DEF Results, Queuers
      <4> QED
        BY <1>3, <1>4, <4>1, <4>2, ResultsHas DEF Queuers
    <3>2. ASSUME NEW u \in Queuers, Inserts(u, t)' PROVE FALSE
      <4>1. u # w
        BY <2>4, <3>2 DEF Inserts
      <4>2. Inserts(u, t)
        BY <1>9, <2>4, <3>2, <4>1 DEF Inserts
      <4> QED
        BY <1>4, <4>1, <4>2 DEF Has
    <3>3. ~Kept(t)'
      BY <1>3, <1>7, <2>2, <2>3, <3>1, <3>2 DEF Kept
    <3>4. w_pushes'[t] = w_told'[t]
      BY <1>2, <1>3, <1>5, <1>6, <1>9 DEF QuType
    <3>5. w_told'[t] \in Nat
      BY <1>3, <1>6
    <3> QED
      BY <2>2, <2>3, <3>3, <3>4, <3>5 DEF OutcomeInv
  <2>8. \A u : u # t => ~Inserts(w, u) /\ ~Inserts(w, u)' /\ ~Runs(w, u)'
    BY <1>1, <1>2, <2>4 DEF Inserts, Runs
  <2>9. \A u : u # t => ~Results(w, u) /\ ~Results(w, u)'
    BY <1>1, <1>2 DEF Results
  <2>10. ~Inserts(w, t)'
    BY <2>4 DEF Inserts
  <2> QED
    BY <1>2, <1>3, <1>4, <1>6, <1>9, <2>3, <2>4, <2>5, <2>6, <2>7, <2>8, <2>9, <2>10, OneStep
<1>10. CASE /\ \E skip \in BOOLEAN : w_task' = [w_task EXCEPT ![t] = Qu!SetupTask(@, FALSE, skip)]
            /\ w_pushes' = [w_pushes EXCEPT ![t] = @ + 1]
            /\ w_pc' = [w_pc EXCEPT ![w] = "insert"]
            /\ w_arg' = [w_arg EXCEPT ![w].task = t, ![w].level = 0, ![w].sync = FALSE]
  <2>1. PICK skip \in BOOLEAN : w_task' = [w_task EXCEPT ![t] = Qu!SetupTask(@, FALSE, skip)]
    BY <1>10
  <2>2. PICK y : y = Qu!SetupTask(x, FALSE, skip)
    OBVIOUS
  <2>3. y \in QuTask /\ y.status = x.status /\ y.handlers = Handlers /\ w_task' = [w_task EXCEPT ![t] = y]
    BY <1>3, <1>7, <2>1, <2>2 DEF QuTask, Qu!SetupTask, Handlers
  <2>4. /\ w_task' \in [Tasks -> QuTask] /\ w_task'[t] = y
        /\ \A u \in Tasks : u # t => w_task'[u] = w_task[u]
        /\ ListInv'
    BY <1>8, <2>3
  <2>5. /\ w_pc' \in [Queuers -> QuPlaces] /\ w_pc'[w] = "insert"
        /\ \A u \in Queuers : u # w => w_pc'[u] = w_pc[u]
    BY <1>2, <1>10, PlaceIs DEF QuPlaces
  <2>6. w_arg' \in [Queuers -> QuArg] /\ w_arg'[w].task = t /\ \A u \in Queuers : u # w => w_arg'[u] = w_arg[u]
    BY <1>2, <1>3, <1>10, NotedIs
  <2>7. /\ w_pushes' \in [Tasks -> Nat] /\ w_pushes'[t] = w_pushes[t] + 1
        /\ \A u \in Tasks : u # t => w_pushes'[u] = w_pushes[u]
    BY <1>2, <1>3, <1>10 DEF QuType
  <2>8. QuType'
    BY <1>2, <1>6, <2>4, <2>5, <2>6, <2>7 DEF QuType
  <2>9. t # None
    BY <1>3
  <2>10. WorkerInv(w)'
    BY <1>1, <1>2, <1>3, <1>7, <2>3, <2>4, <2>5, <2>6, <2>9 DEF WorkerInv
  <2>11. t \notin w_tangled => OutcomeInv(t)'
    <3> SUFFICES ASSUME t \notin w_tangled PROVE OutcomeInv(t)'
      OBVIOUS
    <3>1. Kept(t)'
      BY <1>2, <2>5, <2>6 DEF Kept, Inserts
    <3>2. w_pushes'[t] = w_told'[t] + 1
      BY <1>2, <1>3, <1>5, <1>6, <2>7 DEF QuType
    <3> QED
      BY <2>3, <2>4, <3>1, <3>2 DEF OutcomeInv
  <2>12. \A u : u # t => ~Inserts(w, u) /\ ~Inserts(w, u)' /\ ~Runs(w, u)'
    BY <1>1, <1>2, <2>5, <2>6 DEF Inserts, Runs
  <2>13. \A u : u # t => ~Results(w, u) /\ ~Results(w, u)'
    BY <1>1, <1>2 DEF Results
  <2> QED
    BY <1>2, <1>3, <1>4, <1>6, <2>3, <2>4, <2>5, <2>6, <2>7, <2>8, <2>10, <2>11, <2>12, <2>13, <1>7, OneStep
<1> QED
  BY <1>1, <1>9, <1>10 DEF Qu!Result

LEMMA FreeStep == ASSUME QuInv, NEW w \in Workers, Qu!Free(w) PROVE QuInv'
<1>1. PICK t, done : t = w_thread[w].current /\ done = IF w_task'[t].finish THEN {t} ELSE {}
  OBVIOUS
<1>2. /\ w_pc[w] = "free" /\ w \in Queuers /\ QuType /\ WorkerInv(w) /\ ListInv
      /\ w_task' = IF w_arg[w].task = t THEN w_task ELSE [w_task EXCEPT ![t] = Qu!InvokeFreeExecute(@)]
      /\ w_pc' = [Qu!Released(done, w_pc) EXCEPT ![w] = "acquire"]
      /\ w_arg' = [w_arg EXCEPT ![w].task = None]
      /\ UNCHANGED <<w_m_task_list, w_async_task_head, w_thread, w_pushes, w_told, w_tangled>>
  BY <1>1 DEF Qu!Free, Qu!queue_vars, Queuers, QuInv
<1>3. t \in Tasks /\ t # None
  BY <1>1, <1>2 DEF WorkerInv, QuType, QuThread
<1>4. PICK at : at = Qu!Released(done, w_pc)
  OBVIOUS
<1>5. /\ at \in [Queuers -> QuPlaces]
      /\ \A u \in Queuers : at[u] = w_pc[u] \/ (u \in Callers /\ w_pc[u] = "finish" /\ at[u] = "idle")
  BY <1>4, ReleasedIs
<1>6. /\ w_pc' \in [Queuers -> QuPlaces] /\ w_pc'[w] = "acquire"
      /\ \A u \in Queuers : u # w => \/ w_pc'[u] = w_pc[u]
                                     \/ u \in Callers /\ w_pc[u] = "finish" /\ w_pc'[u] = "idle"
  BY <1>2, <1>4, <1>5 DEF QuPlaces
<1>7. w_arg' \in [Queuers -> QuArg] /\ w_arg'[w].task = None /\ \A u \in Queuers : u # w => w_arg'[u] = w_arg[u]
  BY <1>2, NotedIs
<1>8. \A u \in Queuers : u # w =>
          \/ /\ w_pc'[u] = w_pc[u] /\ w_arg'[u].task = w_arg[u].task
             /\ u \in Workers => w_thread'[u].current = w_thread[u].current
          \/ u \in Callers /\ w_pc[u] # "insert" /\ w_pc'[u] # "insert"
  BY <1>2, <1>6, <1>7
<1>9. \A u : ~Inserts(w, u) /\ ~Inserts(w, u)' /\ ~Runs(w, u)' /\ ~Results(w, u) /\ ~Results(w, u)'
  BY <1>2, <1>6 DEF Inserts, Runs, Results, Qu!Running
<1>10. ~Has(w, t)'
  BY <1>9 DEF Has
<1>11. WorkerInv(w)'
  BY <1>2, <1>6, <1>7 DEF WorkerInv
<1>12. \A u \in Queuers : Inserts(u, t)' <=> Inserts(u, t)
  <2>1. \A u \in Queuers : u # w => (Inserts(u, t)' <=> Inserts(u, t))
    BY <1>6, <1>7 DEF Inserts
  <2> QED
    BY <1>9, <2>1
<1>13. \A v \in Workers : Results(v, t)' <=> Results(v, t)
  <2>1. \A v \in Workers : v # w => (Results(v, t)' <=> Results(v, t))
    BY <1>2, <1>6 DEF Results, Queuers
  <2> QED
    BY <1>9, <2>1
<1>14. CASE w_arg[w].task = t
  <2>1. UNCHANGED w_task
    BY <1>2, <1>14
  <2>2. QuType' /\ ListInv'
    BY <1>2, <1>6, <1>7, <2>1 DEF QuType, ListInv
  <2>3. t \notin w_tangled => OutcomeInv(t)'
    <3> SUFFICES ASSUME t \notin w_tangled PROVE OutcomeInv(t)'
      OBVIOUS
    <3>1. Kept(t)' <=> Kept(t)
      BY <1>12, <1>13, <2>1 DEF Kept
    <3> QED
      BY <1>2, <1>3, <2>1, <3>1 DEF QuInv, OutcomeInv
  <2> QED
    BY <1>2, <1>3, <1>8, <1>9, <1>10, <1>11, <2>1, <2>2, <2>3, OneStep
<1>15. CASE w_arg[w].task # t
  <2>1. w_arg[w].task = None /\ (t \notin w_tangled => w_task[t].status = "PostExecute")
    BY <1>1, <1>2, <1>15 DEF WorkerInv
  <2>2. PICK x \in QuTask : x = w_task[t]
    BY <1>2, <1>3 DEF QuType
  <2>3. PICK y : y = Qu!InvokeFreeExecute(x)
    OBVIOUS
  <2>4. y \in QuTask /\ y.status = "Complete" /\ y.handlers = x.handlers /\ w_task' = [w_task EXCEPT ![t] = y]
    <3>1. PICK a : a = [x EXCEPT !.status = "Complete"]
      OBVIOUS
    <3>2. a \in QuTask /\ a.status = "Complete" /\ a.handlers = x.handlers
      BY <3>1 DEF QuTask, Idle
    <3>3. PICK b : b = [a EXCEPT !.cancelled = x.cancelled /\ ~x.signal]
      OBVIOUS
    <3>4. b \in QuTask /\ b.status = "Complete" /\ b.handlers = x.handlers
      BY <3>2, <3>3 DEF QuTask
    <3>5. y = [b EXCEPT !.finish = x.finish \/ x.signal]
      BY <2>3, <3>1, <3>3 DEF Qu!InvokeFreeExecute
    <3>6. y \in QuTask /\ y.status = "Complete" /\ y.handlers = x.handlers
      BY <3>4, <3>5 DEF QuTask
    <3> QED
      BY <1>2, <1>15, <2>2, <2>3, <3>6
  <2>5. w_task' \in [Tasks -> QuTask] /\ w_task'[t] = y /\ \A u \in Tasks : u # t => w_task'[u] = w_task[u]
    BY <1>2, <1>3, <2>4, TaskIs
  <2>6. QuType' /\ ListInv'
    BY <1>2, <1>3, <1>6, <1>7, <2>1, <2>4, <2>5 DEF QuType, ListInv
  <2>7. t \notin w_tangled => Has(w, t) /\ \A u \in Queuers : u # w => ~Has(u, t)
    <3>1. Has(w, t)
      BY <1>1, <1>2, <2>1 DEF Has, Runs, Qu!Running
    <3> QED
      BY <1>2, <1>3, <3>1 DEF QuInv, OwnerInv
  <2>8. t \notin w_tangled => ~Kept(t) /\ ~Kept(t)'
    <3> SUFFICES ASSUME t \notin w_tangled PROVE ~Kept(t) /\ ~Kept(t)'
      OBVIOUS
    <3>1. \A u \in Queuers : ~Inserts(u, t)
      BY <1>9, <2>7 DEF Has
    <3>2. \A v \in Workers : ~Results(v, t)
      BY <1>3, <1>9, <2>7, ResultsHas DEF Queuers
    <3> QED
      BY <1>12, <1>13, <2>1, <2>4, <2>5, <3>1, <3>2 DEF Kept
  <2>9. t \notin w_tangled => OutcomeInv(t)'
    BY <1>2, <1>3, <2>2, <2>4, <2>5, <2>8 DEF QuInv, OutcomeInv
  <2> QED
    BY <1>2, <1>3, <1>8, <1>9, <1>10, <1>11, <2>5, <2>6, <2>7, <2>9, OneStep
<1> QED
  BY <1>14, <1>15

LEMMA InsertStep == ASSUME QuInv, NEW th \in Queuers, Qu!Insert(th) PROVE QuInv'
<1>1. PICK t : t = w_arg[th].task
  OBVIOUS
<1>2. QuType /\ ListInv /\ w_arg[th].level = 0
  BY DEF QuInv, QuType, QuArg
<1>3. Qu!Below(0) = {}
  BY DEF Qu!Below
<1>4. /\ w_pc[th] = "insert"
      /\ w_m_task_list' = Append(w_m_task_list, t)
      /\ w_async_task_head' = [w_async_task_head EXCEPT ![0] = IF @ = None THEN t ELSE @]
      /\ w_task' = [w_task EXCEPT ![t].status = "Queued"]
      /\ w_pc' = [w_pc EXCEPT ![th] = "resume"]
      /\ UNCHANGED <<w_thread, w_arg, w_pushes, w_told, w_tangled>>
  BY <1>1, <1>2, <1>3 DEF Qu!Insert, Qu!InsertTask
<1>5. Inserts(th, t) /\ Has(th, t)
  BY <1>1, <1>4 DEF Inserts, Has
<1>6. /\ t \in Tasks
      /\ t \notin w_tangled => ~Holds(w_m_task_list, t) /\ \A u \in Queuers : u # th => ~Has(u, t)
  <2>1. t \in Tasks
    BY <1>5 DEF QuInv, OwnerInv
  <2>2. t \notin w_tangled => w_task[t].status \in IF th \in Workers THEN {"PostExecute"} ELSE Idle
    BY <1>5 DEF QuInv, OwnerInv
  <2>3. t \notin w_tangled => \A u \in Queuers : u # th => ~Has(u, t)
    BY <1>5, <2>1 DEF QuInv, OwnerInv
  <2> QED
    BY <1>2, <2>1, <2>2, <2>3 DEF ListInv, Idle
<1>7. PICK x \in QuTask : x = w_task[t]
  BY <1>2, <1>6 DEF QuType
<1>8. PICK y : y = [x EXCEPT !.status = "Queued"]
  OBVIOUS
<1>9. y \in QuTask /\ y.status = "Queued" /\ y.handlers = x.handlers /\ w_task' = [w_task EXCEPT ![t] = y]
  BY <1>4, <1>7, <1>8 DEF QuTask
<1>10. w_task' \in [Tasks -> QuTask] /\ w_task'[t] = y /\ \A u \in Tasks : u # t => w_task'[u] = w_task[u]
  BY <1>2, <1>6, <1>9, TaskIs
<1>11. PICK list \in Seq(Tasks) : list = w_m_task_list
  BY <1>2 DEF QuType
<1>12. PICK more : more = Append(list, t)
  OBVIOUS
<1>13. /\ more \in Seq(Tasks) /\ \A u : Holds(more, u) <=> Holds(list, u) \/ u = t
       /\ \A u : Twice(more, u) => Twice(list, u) \/ (u = t /\ Holds(list, t))
       /\ FirstOf(more) = IF FirstOf(list) = None THEN t ELSE FirstOf(list)
  BY <1>6, <1>11, <1>12, AppendIs
<1>14. w_async_task_head' \in [{0} -> Tasks \cup {None}] /\ w_async_task_head'[0] = FirstOf(more)
  <2>1. w_async_task_head \in [{0} -> Tasks \cup {None}] /\ w_async_task_head[0] = FirstOf(list)
    BY <1>2, <1>11 DEF QuType, ListInv
  <2> QED
    BY <1>4, <1>6, <1>13, <2>1
<1>15. ListInv'
  <2>1. /\ \A u \in Tasks : w_task'[u].status = "Queued" => Holds(more, u)
        /\ \A u \in Tasks \ w_tangled : Holds(more, u) => w_task'[u].status = "Queued"
    BY <1>2, <1>9, <1>10, <1>11, <1>13 DEF ListInv
  <2>2. \A u : Twice(more, u) => u \in w_tangled
    BY <1>2, <1>6, <1>11, <1>13 DEF ListInv
  <2> QED
    BY <1>4, <1>11, <1>12, <1>14, <2>1, <2>2 DEF ListInv
<1>16. /\ w_pc' \in [Queuers -> QuPlaces] /\ w_pc'[th] = "resume"
       /\ \A u \in Queuers : u # th => w_pc'[u] = w_pc[u]
  BY <1>2, <1>4, PlaceIs DEF QuPlaces
<1>17. QuType'
  BY <1>2, <1>4, <1>10, <1>11, <1>12, <1>13, <1>14, <1>16 DEF QuType
<1>18. th \in Workers => WorkerInv(th)'
  <2> SUFFICES ASSUME th \in Workers PROVE WorkerInv(th)'
    OBVIOUS
  <2>1. WorkerInv(th)
    BY DEF QuInv
  <2> QED
    BY <1>1, <1>4, <1>16, <2>1 DEF WorkerInv
<1>19. t \notin w_tangled => OutcomeInv(t)'
  <2> SUFFICES ASSUME t \notin w_tangled PROVE OutcomeInv(t)'
    OBVIOUS
  <2>1. Kept(t) /\ Kept(t)'
    BY <1>5, <1>9, <1>10 DEF Kept
  <2> QED
    BY <1>4, <1>6, <1>7, <1>9, <1>10, <2>1 DEF QuInv, OutcomeInv
<1>20. \A u : u # t => ~Inserts(th, u) /\ ~Inserts(th, u)' /\ ~Runs(th, u)'
  BY <1>1, <1>16 DEF Inserts, Runs, Qu!Running
<1>21. th \in Workers => \A u : u # t => ~Results(th, u) /\ ~Results(th, u)'
  BY <1>4, <1>16 DEF Results
<1>22. ~Inserts(th, t)'
  BY <1>16 DEF Inserts
<1> QED
  BY <1>4, <1>6, <1>10, <1>15, <1>16, <1>17, <1>18, <1>19, <1>20, <1>21, <1>22, OneStep

LEMMA ResumeThreadsStep == ASSUME QuInv, NEW th \in Queuers, Qu!ResumeThreads(th) PROVE QuInv'
<1>1. PICK place \in {"resume", "free", "finish", "late", "idle"} :
         /\ w_pc[th] = "resume" /\ w_pc' = [w_pc EXCEPT ![th] = place]
         /\ place = "free" <=> th \in Workers /\ place # "resume"
         /\ th \in Workers => place \in {"resume", "free"}
  <2>1. PICK place : place = IF \E w \in Workers : ~Qu!Skipped(th, w) /\ w_thread[w].count = RingSlots THEN "resume"
                 ELSE IF th \in Workers THEN "free"
                 ELSE IF w_arg[th].sync /\ ~w_task[w_arg[th].task].finish 
                 THEN Qu!WaitsForFinish(th, w_arg[th].task) ELSE "idle"
    OBVIOUS
  <2>2. w_pc[th] = "resume" /\ w_pc' = [w_pc EXCEPT ![th] = place]
    BY <2>1 DEF Qu!ResumeThreads
  <2>3. /\ place \in {"resume", "free", "finish", "late", "idle"}
        /\ place = "free" <=> th \in Workers /\ place # "resume"
        /\ th \in Workers => place \in {"resume", "free"}
    BY <2>1 DEF Qu!WaitsForFinish
  <2> QED
    BY <2>2, <2>3
<1>2. QuType /\ UNCHANGED <<w_m_task_list, w_async_task_head, w_task, w_arg, w_pushes, w_told, w_tangled>>
  BY DEF Qu!ResumeThreads, Qu!queue_vars, QuInv
<1>3. /\ w_thread' \in [Workers -> QuThread]
      /\ \A w \in Workers : w_thread'[w].current = w_thread[w].current
  <2>1. w_thread' = [w \in Workers |-> IF Qu!Skipped(th, w) \/ w_thread[w].count = RingSlots THEN w_thread[w]
                                       ELSE Qu!Put(w_thread[w], "Resume", FALSE)]
    BY DEF Qu!ResumeThreads
  <2>2. ASSUME NEW w \in Workers
        PROVE  w_thread'[w] \in QuThread /\ w_thread'[w].current = w_thread[w].current
    <3>1. PICK r \in QuThread : r = w_thread[w]
      BY <1>2 DEF QuType
    <3>2. PICK x : x = Qu!Put(r, "Resume", FALSE)
      OBVIOUS
    <3>3. x \in QuThread /\ x.current = r.current
      BY <3>2, PutIs
    <3>4. w_thread'[w] = r \/ w_thread'[w] = x
      BY <2>1, <3>1, <3>2
    <3> QED
      BY <3>1, <3>3, <3>4
  <2> QED
    BY <2>1, <2>2
<1>4. CASE th \in Callers
  <2>1. th \notin Workers /\ place # "insert" /\ place \in QuPlaces /\ w_pc[th] # "insert"
    BY <1>1, <1>4 DEF QuPlaces
  <2> QED
    BY <1>1, <1>2, <1>3, <1>4, <2>1, ArgStays, TasksStay, ClientMoves
<1>5. CASE th \in Workers
  <2>1. /\ w_pc' \in [Queuers -> QuPlaces] /\ w_pc'[th] = place
        /\ \A u \in Queuers : u # th => w_pc'[u] = w_pc[u]
    BY <1>1, <1>2, PlaceIs DEF QuPlaces
  <2>2. QuType'
    BY <1>2, <1>3, <2>1 DEF QuType
  <2>3. WorkerInv(th) /\ w_arg[th].task # None
    BY <1>1, <1>5 DEF QuInv, WorkerInv
  <2>4. place \in {"resume", "free"}
    BY <1>1, <1>5
  <2>5. \A u \in Queuers : \A t : (Inserts(u, t)' <=> Inserts(u, t)) /\ (Runs(u, t)' <=> Runs(u, t))
    <3>1. \A t : ~Inserts(th, t) /\ ~Inserts(th, t)' /\ ~Runs(th, t) /\ ~Runs(th, t)'
      BY <1>1, <1>2, <2>1, <2>3, <2>4 DEF Inserts, Runs, Qu!Running
    <3>2. \A u \in Queuers : u # th => \A t : Inserts(u, t)' <=> Inserts(u, t)
      BY <1>2, <2>1 DEF Inserts
    <3>3. \A u \in Queuers : u # th => \A t : Runs(u, t)' <=> Runs(u, t)
      BY <1>2, <1>3, <2>1 DEF Runs, Qu!Running
    <3> QED
      BY <3>1, <3>2, <3>3
  <2>6. \A w \in Workers : \A t \in Tasks : Results(w, t)' <=> Results(w, t)
    BY <1>1, <1>3, <2>1, <2>4 DEF Results, Queuers
  <2>7. ASSUME NEW w \in Workers PROVE WorkerInv(w)'
    <3>1. CASE w = th
      <4>1. w_thread'[th].current = w_thread[th].current /\ w_arg'[th].task = w_arg[th].task
        BY <1>2, <1>3, <1>5
      <4> QED
        BY <1>1, <2>1, <2>3, <2>4, <3>1, <4>1 DEF WorkerInv
    <3>2. CASE w # th
      <4>1. WorkerInv(w) /\ w \in Queuers
        BY DEF QuInv, Queuers
      <4> QED
        BY <1>2, <1>3, <2>1, <3>2, <4>1, WorkerStays
    <3> QED
      BY <3>1, <3>2
  <2> QED
    BY <1>2, <2>2, <2>5, <2>6, <2>7, Quiet
<1> QED
  BY <1>4, <1>5 DEF Queuers

-----------------------------------------------------------------------------
(* The clients' calls. *)

LEMMA PushToQueueStep == ASSUME QuInv, NEW c \in Callers, Qu!PushTask(c) PROVE QuInv'
<1>1. PICK t \in Tasks, sync \in BOOLEAN, skip \in BOOLEAN :
         /\ w_pc[c] = "idle"
         /\ w_tangled' = IF Qu!Busy(t) THEN w_tangled \cup {t} ELSE w_tangled
         /\ w_task' = [w_task EXCEPT ![t] = Qu!SetupTask(@, sync, skip)]
         /\ w_pushes' = [w_pushes EXCEPT ![t] = @ + 1]
         /\ w_pc' = [w_pc EXCEPT ![c] = "insert"]
         /\ w_arg' = [w_arg EXCEPT ![c].task = t, ![c].level = 0, ![c].sync = sync]
         /\ UNCHANGED <<w_m_task_list, w_async_task_head, w_thread, w_told>>
  <2>1. PICK t \in Tasks, p \in {0}, sync \in BOOLEAN, skip \in BOOLEAN :
         /\ w_pc[c] = "idle"
         /\ w_tangled' = IF Qu!Busy(t) THEN w_tangled \cup {t} ELSE w_tangled
         /\ w_task' = [w_task EXCEPT ![t] = Qu!SetupTask(@, sync, skip)]
         /\ w_pushes' = [w_pushes EXCEPT ![t] = @ + 1]
         /\ w_pc' = [w_pc EXCEPT ![c] = "insert"]
         /\ w_arg' = [w_arg EXCEPT ![c].task = t, ![c].level = p, ![c].sync = sync]
         /\ UNCHANGED <<w_m_task_list, w_async_task_head, w_thread, w_told>>
    BY ZenonT(40) DEF Qu!PushTask, Qu!queue_vars
  <2>2. p = 0
    OBVIOUS
  <2> QED
    BY <2>1, <2>2, ZenonT(40)
<1>2. QuType /\ ListInv /\ c \in Queuers /\ c \notin Workers
  BY DEF QuInv, Queuers
<1>3. /\ w_tangled \subseteq w_tangled' /\ \A x : x # t => (x \in w_tangled' <=> x \in w_tangled)
      /\ t \notin w_tangled' => t \notin w_tangled /\ ~Qu!Busy(t)
  BY <1>1
<1>4. t \notin w_tangled' => w_task[t].status \in Idle /\ \A u \in Queuers : ~Inserts(u, t)
  <2> SUFFICES ASSUME t \notin w_tangled' PROVE w_task[t].status \in Idle /\ \A u \in Queuers : ~Inserts(u, t)
    OBVIOUS
  <2>1. ~Qu!Busy(t)
    BY <1>3
  <2>2. w_task[t].status \in {"Uninitialized", "Cancelled", "Complete"}
    BY <2>1 DEF Qu!Busy
  <2>3. \A u \in Qu!Threads : ~(w_pc[u] = "insert" /\ w_arg[u].task = t)
    BY <2>1 DEF Qu!Busy
  <2> QED
    BY <2>2, <2>3 DEF Qu!Threads, Queuers, Idle, Inserts
<1>5. t \notin w_tangled' => \A u \in Queuers : ~Inserts(u, t) /\ ~Has(u, t)
  BY <1>3, <1>4, QueuedIsFree
<1>6. t \notin w_tangled' => ~Kept(t)
  <2> SUFFICES ASSUME t \notin w_tangled' PROVE ~Kept(t)
    OBVIOUS
  <2>1. \A w \in Workers : ~Results(w, t)
    BY <1>5, <1>3, ResultsHas DEF Queuers
  <2> QED
    BY <1>5, <1>4, <2>1 DEF Kept, Idle
<1>7. PICK x \in QuTask : x = w_task[t]
  BY <1>1, <1>2 DEF QuType
<1>8. PICK y : y = Qu!SetupTask(x, sync, skip)
  OBVIOUS
<1>9. y \in QuTask /\ y.status = x.status /\ y.handlers = Handlers /\ w_task' = [w_task EXCEPT ![t] = y]
  <2>1. PICK z : z = [x EXCEPT !.handlers = Handlers]
    OBVIOUS
  <2>2. z \in QuTask /\ z.status = x.status /\ z.handlers = Handlers
    BY <2>1 DEF QuTask, Handlers
  <2>3. y = [z EXCEPT !.signal = sync \/ ~skip]
    BY <1>8, <2>1 DEF Qu!SetupTask, Handlers
  <2>4. y \in QuTask /\ y.status = x.status /\ y.handlers = Handlers
    BY <2>2, <2>3 DEF QuTask
  <2> QED
    BY <1>1, <1>7, <1>8, <2>4
<1>10. w_task' \in [Tasks -> QuTask] /\ w_task'[t] = y /\ \A u \in Tasks : u # t => w_task'[u] = w_task[u]
  BY <1>1, <1>2, <1>9, TaskIs
<1>11. ListInv'
  <2>1. \A u \in Tasks : w_task'[u].status = w_task[u].status
    BY <1>7, <1>9, <1>10
  <2> QED
    BY <1>1, <1>2, <1>3, <2>1 DEF ListInv
<1>12. /\ w_pc' \in [Queuers -> QuPlaces] /\ w_pc'[c] = "insert"
       /\ \A u \in Queuers : u # c => w_pc'[u] = w_pc[u]
  BY <1>1, <1>2, PlaceIs DEF QuPlaces
<1>13. w_arg' \in [Queuers -> QuArg] /\ w_arg'[c].task = t /\ \A u \in Queuers : u # c => w_arg'[u] = w_arg[u]
  BY <1>1, <1>2, NotedIs
<1>14. /\ w_pushes' \in [Tasks -> Nat] /\ w_pushes'[t] = w_pushes[t] + 1
       /\ \A u \in Tasks : u # t => w_pushes'[u] = w_pushes[u]
  BY <1>1, <1>2 DEF QuType
<1>15. QuType'
  BY <1>1, <1>2, <1>10, <1>12, <1>13, <1>14 DEF QuType
<1>16. t \notin w_tangled' => OutcomeInv(t)'
  <2> SUFFICES ASSUME t \notin w_tangled' PROVE OutcomeInv(t)'
    OBVIOUS
  <2>1. Kept(t)'
    BY <1>2, <1>12, <1>13 DEF Kept, Inserts
  <2>2. w_pushes[t] = w_told[t]
    BY <1>1, <1>2, <1>6, <1>3 DEF QuInv, OutcomeInv, QuType
  <2>3. w_pushes'[t] = w_told'[t] + 1
    BY <1>1, <1>14, <2>2
  <2> QED
    BY <1>9, <1>10, <2>1, <2>3 DEF OutcomeInv
<1>17. \A u : u # t => ~Inserts(c, u) /\ ~Inserts(c, u)' /\ ~Runs(c, u)'
  BY <1>1, <1>2, <1>12, <1>13 DEF Inserts, Runs
<1>18. w_task'[t].status = w_task[t].status /\ (t \notin w_tangled' => w_task'[t].status \in Idle)
  BY <1>7, <1>9, <1>10, <1>4
<1> QED
  BY <1>1, <1>2, <1>5, <1>10, <1>11, <1>12, <1>13, <1>14, <1>15, <1>16, <1>17, <1>18, <1>3, OneStep

LEMMA CancelTaskStep == ASSUME QuInv, OnceIn(w_m_task_list), NEW c \in Callers, Qu!CancelTask(c) PROVE QuInv'
<1>1. PICK t \in Tasks :
         /\ w_pc[c] = "idle" /\ w_arg' = [w_arg EXCEPT ![c].task = t, ![c].calls = @ + 1]
         /\ UNCHANGED <<w_thread, w_pushes, w_tangled>>
         /\ \/ UNCHANGED <<w_m_task_list, w_async_task_head, w_task, w_pc, w_told>>
            \/ /\ w_task[t].status = "Queued"
               /\ w_async_task_head' = [w_async_task_head EXCEPT ![0] = IF @ = t THEN Qu!NewHead(t, 0) ELSE @]
               /\ w_m_task_list' = Qu!Unlinked(w_m_task_list, t)
               /\ w_task' = [w_task EXCEPT ![t] = Qu!Cancel(@)]
               /\ Qu!Told({t})
               /\ w_pc' = Qu!Released(IF w_task'[t].finish THEN {t} ELSE {}, w_pc)
            \/ /\ w_task' = [w_task EXCEPT ![t] = Qu!CancelWhileActive(@)]
               /\ w_pc' = [w_pc EXCEPT ![c] = "finishing"]
               /\ UNCHANGED <<w_m_task_list, w_async_task_head, w_told>>
  BY DEF Qu!CancelTask, Qu!Call, Qu!queue_vars, Qu!m_priority
<1>2. QuType /\ ListInv /\ c \in Queuers /\ c \notin Workers
  BY DEF QuInv, Queuers
<1>3. w_arg' \in [Queuers -> QuArg] /\ w_arg'[c].task = t /\ \A u \in Queuers : u # c => w_arg'[u] = w_arg[u]
  BY <1>1, <1>2, NotedIs
<1>4. PICK x \in QuTask : x = w_task[t]
  BY <1>1, <1>2 DEF QuType
<1>5. CASE UNCHANGED <<w_m_task_list, w_async_task_head, w_task, w_pc, w_told>>
  <2>1. w_pc' = [w_pc EXCEPT ![c] = "idle"]
    BY <1>1, <1>2, <1>5 DEF QuType
  <2> QED
    BY <1>1, <1>3, <1>5, <2>1, TasksStay, ThreadStays, ClientMoves DEF QuPlaces
<1>6. CASE /\ w_task' = [w_task EXCEPT ![t] = Qu!CancelWhileActive(@)]
           /\ w_pc' = [w_pc EXCEPT ![c] = "finishing"]
           /\ UNCHANGED <<w_m_task_list, w_async_task_head, w_told>>
  <2>1. PICK y : y = Qu!CancelWhileActive(x)
    OBVIOUS
  <2>2. y \in QuTask /\ y.status = x.status /\ y.handlers = x.handlers
    <3>1. PICK a : a = [x EXCEPT !.finish = FALSE]
      OBVIOUS
    <3>2. PICK b : b = [a EXCEPT !.signal = TRUE]
      OBVIOUS
    <3>3. y = [b EXCEPT !.cancelled = TRUE]
      BY <2>1, <3>1, <3>2 DEF Qu!CancelWhileActive
    <3>4. a \in QuTask /\ a.status = x.status /\ a.handlers = x.handlers
      BY <3>1 DEF QuTask
    <3>5. b \in QuTask /\ b.status = x.status /\ b.handlers = x.handlers
      BY <3>2, <3>4 DEF QuTask
    <3> QED
      BY <3>3, <3>5 DEF QuTask
  <2>3. w_task' = [w_task EXCEPT ![t] = y]
    BY <1>4, <1>6, <2>1
  <2>4. w_task' \in [Tasks -> QuTask] /\ w_task'[t] = y /\ \A u \in Tasks : u # t => w_task'[u] = w_task[u]
    BY <1>2, <2>2, <2>3, TaskIs
  <2>5. \A u \in Tasks : w_task'[u].status = w_task[u].status /\ w_task'[u].handlers = w_task[u].handlers
    BY <1>4, <2>2, <2>4
  <2> QED
    BY <1>1, <1>3, <1>6, <2>4, <2>5, ThreadStays, ClientMoves DEF QuPlaces
<1>7. CASE /\ w_task[t].status = "Queued"
           /\ w_async_task_head' = [w_async_task_head EXCEPT ![0] = IF @ = t THEN Qu!NewHead(t, 0) ELSE @]
           /\ w_m_task_list' = Qu!Unlinked(w_m_task_list, t)
           /\ w_task' = [w_task EXCEPT ![t] = Qu!Cancel(@)]
           /\ Qu!Told({t})
           /\ w_pc' = Qu!Released(IF w_task'[t].finish THEN {t} ELSE {}, w_pc)
  <2>1. PICK y : y = Qu!Cancel(x)
    OBVIOUS
  <2>2. y \in QuTask /\ y.status = "Cancelled" /\ y.handlers = {}
    <3>1. PICK a : a = [x EXCEPT !.status = "Cancelled"]
      OBVIOUS
    <3>2. PICK b : b = [a EXCEPT !.handlers = {}]
      OBVIOUS
    <3>3. PICK d : d = [b EXCEPT !.cancelled = x.cancelled /\ ~x.signal]
      OBVIOUS
    <3>4. y = [d EXCEPT !.finish = x.finish \/ x.signal]
      BY <2>1, <3>1, <3>2, <3>3 DEF Qu!Cancel
    <3>5. a \in QuTask /\ a.status = "Cancelled"
      BY <3>1 DEF QuTask, Idle
    <3>6. b \in QuTask /\ b.status = "Cancelled" /\ b.handlers = {}
      BY <3>2, <3>5 DEF QuTask
    <3>7. d \in QuTask /\ d.status = "Cancelled" /\ d.handlers = {}
      BY <3>3, <3>6 DEF QuTask
    <3> QED
      BY <3>4, <3>7 DEF QuTask
  <2>3. w_task' = [w_task EXCEPT ![t] = y]
    BY <1>4, <1>7, <2>1
  <2>4. w_task' \in [Tasks -> QuTask] /\ w_task'[t] = y /\ \A u \in Tasks : u # t => w_task'[u] = w_task[u]
    BY <1>2, <2>2, <2>3, TaskIs
  <2>5. Holds(w_m_task_list, t)
    BY <1>2, <1>7 DEF ListInv
  <2>6. /\ w_m_task_list' \in Seq(Tasks) /\ w_async_task_head' \in [{0} -> Tasks \cup {None}]
        /\ ListInv'
    BY <1>1, <1>7, <2>2, <2>4, <2>5, LeavesList
  <2>7. t \notin w_tangled => \A u \in Queuers : ~Inserts(u, t) /\ ~Has(u, t)
    BY <1>7, QueuedIsNotInserted, QueuedIsFree
  <2>8. /\ w_pc' \in [Queuers -> QuPlaces]
        /\ \A u \in Queuers : \/ w_pc'[u] = w_pc[u]
                              \/ u \in Callers /\ w_pc[u] = "finish" /\ w_pc'[u] = "idle"
    <3>1. PICK done, at : done = (IF w_task'[t].finish THEN {t} ELSE {}) /\ at = Qu!Released(done, w_pc)
      OBVIOUS
    <3>2. w_pc' = at
      BY <1>7, <3>1
    <3> QED
      BY <3>1, <3>2, ReleasedIs
  <2>9. w_pc'[c] = "idle"
    BY <1>1, <1>2, <2>8
  <2>10. t \notin w_tangled => Kept(t) /\ w_task[t].handlers = Handlers /\ w_pushes[t] = w_told[t] + 1
    BY <1>7 DEF Kept, QuInv, OutcomeInv
  <2>11. /\ w_told' \in [Tasks -> Nat] /\ (t \notin w_tangled => w_told'[t] = w_told[t] + 1)
         /\ \A u \in Tasks : u # t => w_told'[u] = w_told[u]
    <3>1. w_told' = [u \in Tasks |-> w_told[u] + IF u \in {t} /\ "cancel" \in w_task[u].handlers THEN 1 ELSE 0]
      BY <1>7 DEF Qu!Told
    <3>2. w_told \in [Tasks -> Nat]
      BY <1>2 DEF QuType
    <3>3. t \notin w_tangled => "cancel" \in w_task[t].handlers
      BY <2>10 DEF Handlers
    <3> QED
      BY <3>1, <3>2, <3>3
  <2>12. QuType'
    BY <1>1, <1>2, <1>3, <2>4, <2>6, <2>8, <2>11 DEF QuType
  <2>13. t \notin w_tangled => OutcomeInv(t)'
    <3> SUFFICES ASSUME t \notin w_tangled PROVE OutcomeInv(t)'
      OBVIOUS
    <3>1. \A w \in Workers : ~Results(w, t)'
      <4>1. \A w \in Workers : ~Results(w, t)
        BY <2>7, ResultsHas DEF Queuers
      <4> QED
        BY <1>1, <2>8, <4>1 DEF Results, Queuers
    <3>2. \A u \in Queuers : ~Inserts(u, t)'
      <4> SUFFICES ASSUME NEW u \in Queuers, Inserts(u, t)' PROVE FALSE
        OBVIOUS
      <4>1. u # c
        BY <2>9 DEF Inserts
      <4>2. Inserts(u, t)
        BY <1>3, <2>8, <4>1 DEF Inserts
      <4> QED
        BY <2>7, <4>2
    <3>3. ~Kept(t)'
      BY <2>2, <2>4, <3>1, <3>2 DEF Kept
    <3>4. w_pushes'[t] = w_told'[t] /\ w_told'[t] \in Nat
      BY <1>1, <1>2, <2>10, <2>11 DEF QuType
    <3> QED
      BY <2>2, <2>4, <3>3, <3>4 DEF OutcomeInv
  <2>14. \A u : ~Inserts(c, u) /\ ~Inserts(c, u)' /\ ~Runs(c, u)'
    BY <1>1, <1>2, <2>9 DEF Inserts, Runs
  <2>15. \A u \in Queuers : u # c =>
              \/ /\ w_pc'[u] = w_pc[u] /\ w_arg'[u].task = w_arg[u].task
                 /\ u \in Workers => w_thread'[u].current = w_thread[u].current
              \/ u \in Callers /\ w_pc[u] # "insert" /\ w_pc'[u] # "insert"
    BY <1>1, <1>3, <2>8
  <2>16. \A v \in Tasks : v # t => /\ w_task'[v].status = w_task[v].status
                                   /\ w_task'[v].handlers = w_task[v].handlers
                                   /\ w_pushes'[v] = w_pushes[v] /\ w_told'[v] = w_told[v]
    BY <1>1, <2>4, <2>11
  <2>17. ListInv' /\ UNCHANGED w_tangled /\ (t \notin w_tangled => \A u \in Queuers : u # c => ~Has(u, t))
    BY <1>1, <2>6, <2>7
  <2>18. c \notin Workers /\ c \in Queuers /\ w_tangled \subseteq w_tangled'
    BY <1>2, <2>17
  <2>19. t \notin w_tangled' =>
              /\ w_task'[t].status = w_task[t].status \/ \A u \in Queuers : u # c => ~Has(u, t)
              /\ Has(c, t)' => \A u \in Queuers : u # c => ~Has(u, t)
              /\ Inserts(c, t)' => w_task'[t].status \in IF c \in Workers THEN {"PostExecute"} ELSE Idle
    BY <2>14, <2>17
  <2>20. t \notin w_tangled' => OutcomeInv(t)'
    BY <2>13, <2>17
  <2> QED
    BY <2>12, <2>14, <2>15, <2>16, <2>17, <2>18, <2>19, <2>20, OneStep, Zenon
<1> QED
  BY <1>1, <1>5, <1>6, <1>7

-----------------------------------------------------------------------------
(* The theorems. *)

LEMMA QuInit == Qu!Init => QuInv
<1> SUFFICES ASSUME Qu!Init PROVE QuInv
  OBVIOUS
<1>1. /\ w_m_task_list = <<>> /\ w_async_task_head = [p \in {0} |-> None]
      /\ w_task = [t \in Tasks |-> Qu!NewTask]
      /\ w_pc = [th \in Queuers |-> IF th \in Workers THEN "receive" ELSE "idle"]
      /\ w_arg = [th \in Queuers |-> [task |-> None, level |-> 0, sync |-> FALSE, calls |-> 0]]
      /\ w_pushes = [t \in Tasks |-> 0] /\ w_told = [t \in Tasks |-> 0] /\ w_tangled = {}
  BY DEF Qu!Init, Qu!Initialize, Qu!Threads, Queuers
<1>2. PICK garbage \in Garbage : w_thread = [w \in Workers |-> Qu!NewThread(garbage)]
  BY DEF Qu!Init
<1>3. QuType
  <2>1. Qu!NewTask \in QuTask
    BY DEF Qu!NewTask, QuTask, Idle
  <2>2. Qu!NewThread(garbage) \in QuThread
    BY DEF Qu!NewThread, QuThread, Qu!Slot0
  <2>3. [task |-> None, level |-> 0, sync |-> FALSE, calls |-> 0] \in QuArg
    BY DEF QuArg
  <2> QED
    BY <1>1, <1>2, <2>1, <2>2, <2>3 DEF QuType, QuPlaces
<1>4. ListInv
  BY <1>1 DEF ListInv, Twice, Holds, FirstOf, Qu!NewTask
<1>5. \A th \in Queuers : \A t : ~Inserts(th, t) /\ ~Runs(th, t)
  BY <1>1 DEF Inserts, Runs, Qu!Running
<1>6. OwnerInv
  BY <1>5 DEF OwnerInv, Has
<1>7. ASSUME NEW w \in Workers PROVE WorkerInv(w)
  BY <1>1 DEF WorkerInv, Queuers
<1>8. ASSUME NEW t \in Tasks PROVE OutcomeInv(t)
  <2>1. \A w \in Workers : ~Results(w, t)
    BY <1>1 DEF Results, Queuers
  <2>2. ~Kept(t)
    BY <1>1, <1>5, <2>1 DEF Kept, Qu!NewTask
  <2> QED
    BY <1>1, <2>2 DEF OutcomeInv, Qu!NewTask
<1> QED
  BY <1>3, <1>4, <1>6, <1>7, <1>8 DEF QuInv

LEMMA QuStays == ASSUME QuInv, UNCHANGED w_vars PROVE QuInv'
<1>1. UNCHANGED <<w_m_task_list, w_async_task_head, w_task, w_thread, w_pc, w_arg, w_pushes, w_told, w_tangled>>
  BY DEF w_vars
<1>2. QuType' /\ \A w \in Workers : WorkerInv(w)'
  BY <1>1 DEF QuInv, QuType, WorkerInv
<1> QED
  BY <1>1, <1>2, Quiet DEF Inserts, Runs, Results, Qu!Running

\* The calls that only concern levels are not made in a queue of one level.
\* The threads and the clients go on as long as the list is one.
LEMMA SaneIs == Qu!Sane => OnceIn(w_m_task_list)
BY DEF Qu!Sane, Qu!IsInjective, OnceIn

LEMMA WorkerStep == ASSUME QuInv, NEW w \in Workers, Qu!Worker(w) PROVE QuInv'
BY SaneIs, ThreadMainStep, AcquireStep, RunStep, ResultStep, FreeStep, TurnEndsStep, InsertStep,
   ResumeThreadsStep DEF Qu!Worker, Queuers

LEMMA ProceedStep == ASSUME QuInv, NEW c \in Callers, Qu!Proceed(c) PROVE QuInv'
<1>1. ~Qu!WaitCleared(c)
  BY DEF Qu!WaitCleared, QuInv, QuType, QuPlaces, Queuers
<1> QED
  BY <1>1, InsertStep, ResumeThreadsStep, JamMessageStep, WaitStep DEF Qu!Proceed, Queuers

LEMMA QuStep == ASSUME QuInv, Qu!Next PROVE QuInv'
<1>1. CASE \E w \in Workers : Qu!Worker(w)
  BY <1>1, WorkerStep
<1>2. CASE \E c \in Callers : \/ Qu!Proceed(c) \/ Qu!PushTask(c) \/ (Qu!Sane /\ Qu!CancelTask(c)) \/ Qu!Wait(c)
                              \/ Qu!ChangeStatus(c)
  BY <1>2, SaneIs, ProceedStep, PushToQueueStep, CancelTaskStep, WaitStep, ChangeStatusStep
<1>3. ASSUME NEW c \in Callers
      PROVE  ~Qu!CancelPriorityLevel(c) /\ ~Qu!WaitForPriorityLevel(c) /\ ~Qu!WaitForAll(c) /\ ~Qu!ChangePriority(c)
  BY DEF Qu!CancelPriorityLevel, Qu!WaitForPriorityLevel, Qu!WaitForAll, Qu!ChangePriority, Qu!Call
<1> QED
  BY <1>1, <1>2, <1>3 DEF Qu!Next, Qu!Calling

\* The subject's step is one of the queue's, or leaves its state alone.
THEOREM QueueInvariance == Spec => [](subject \in {"tasks", "queue"} => QuInv)
<1>1. Init => (subject \in {"tasks", "queue"} => QuInv)
  BY QuInit DEF Init
<1>2. (subject \in {"tasks", "queue"} => QuInv) /\ [Next]_vars => (subject \in {"tasks", "queue"} => QuInv)'
  <2> SUFFICES ASSUME subject \in {"tasks", "queue"} => QuInv, [Next]_vars, subject' \in {"tasks", "queue"}
               PROVE  QuInv'
    OBVIOUS
  <2>1. UNCHANGED subject
    BY DEF Next, vars, AlNext, TkNext, QuNext, LvNext, SvNext, DeNext, FrNext, InNext, LoNext, TeNext,
           RsNext, OnlyTaskAllocator, OnlyAsyncQueue, OnlyAsyncSave, OnlyDecompressor, OnlyFramework,
           OnlyRawInput, OnlyLocalArchives, OnlyTextureSamplers, OnlyResourceManager
  <2>2. QuInv /\ ~LvNext
    BY <2>1 DEF LvNext
  <2>3. CASE TkNext
    <3>1. (\E w \in Workers : Qu!Worker(w)) \/ \E c \in Callers : Qu!Proceed(c) \/ (Qu!Sane /\ (Qu!PushTask(c) \/ Qu!CancelTask(c)))
      BY <2>3 DEF TkNext
    <3> QED
      BY <2>2, <3>1, SaneIs, WorkerStep, ProceedStep, PushToQueueStep, CancelTaskStep
  <2>4. CASE QuNext
    BY <2>2, <2>4, QuStep DEF QuNext
  <2>5. CASE UNCHANGED w_vars
    BY <2>2, <2>5, QuStays
  <2>6. TkNext \/ QuNext \/ UNCHANGED w_vars
    BY <2>2 DEF Next, vars, AlNext, SvNext, DeNext, FrNext, InNext, LoNext, TeNext,
           RsNext, OnlyTaskAllocator, OnlyAsyncSave, OnlyDecompressor, OnlyFramework,
           OnlyRawInput, OnlyLocalArchives, OnlyTextureSamplers, OnlyResourceManager
  <2> QED
    BY <2>3, <2>4, <2>5, <2>6
<1> QED
  BY <1>1, <1>2, PTL DEF Spec

\* The queue's list, its head and the states of the tasks agree after every section
\* under m_queue_mutex, and no two of the queue's threads run a task at a time
\* (AcquireNextTask), but for the tasks that were pushed while somebody had them: for
\* any number of callers, threads, tasks and slots.
THEOREM QueuedTaskIsReachableInvariance == Spec => []QueuedTaskIsReachable
<1>1. (subject \in {"tasks", "queue"} => QuInv) => QueuedTaskIsReachable
  <2> SUFFICES ASSUME QuInv PROVE Qu!QueuedTaskIsReachable /\ Qu!RunnerOwnsTask
    BY DEF QueuedTaskIsReachable
  <2>1. QuType /\ ListInv
    BY DEF QuInv
  <2>2. \A t \in Tasks \ w_tangled : w_task[t].status = "Queued" <=> Qu!IsLinked(t)
    BY <2>1, LinkedIs DEF ListInv
  <2>3. \A i, j \in DOMAIN w_m_task_list : w_m_task_list[i] = w_m_task_list[j] /\ i # j => w_m_task_list[i] \in w_tangled
    BY <2>1 DEF ListInv, Twice
  <2>4. ASSUME Qu!Sane, NEW t \in Tasks \ w_tangled, w_task[t].status = "Queued"
        PROVE  /\ Qu!IsLinked(w_async_task_head[0])
               /\ (CHOOSE i \in DOMAIN w_m_task_list : w_m_task_list[i] = w_async_task_head[0])
                     <= (CHOOSE i \in DOMAIN w_m_task_list : w_m_task_list[i] = t)
    <3>1. PICK list \in Seq(Tasks) : list = w_m_task_list
      BY <2>1 DEF QuType
    <3>2. OnceIn(list) /\ Holds(list, t) /\ w_async_task_head[0] = FirstOf(list)
      BY <2>1, <2>4, <3>1, SaneIs DEF ListInv
    <3>3. PICK n \in Nat : n = Len(list) /\ DOMAIN list = 1 .. n
      OBVIOUS
    <3>4. 1 \in 1 .. n /\ w_async_task_head[0] = list[1]
      BY <3>2, <3>3 DEF Holds, FirstOf
    <3>5. PICK i, j : /\ i = CHOOSE k \in DOMAIN list : list[k] = list[1]
                      /\ j = CHOOSE k \in DOMAIN list : list[k] = t
      OBVIOUS
    <3>6. i = 1
      <4>1. \A k \in DOMAIN list : list[k] = list[1] <=> k = 1
        BY <3>2, <3>3, <3>4 DEF OnceIn
      <4>2. i \in DOMAIN list /\ list[i] = list[1]
        BY <3>3, <3>4, <3>5
      <4> QED
        BY <4>1, <4>2
    <3>7. j \in 1 .. n
      BY <3>2, <3>3, <3>5 DEF Holds
    <3>8. Holds(list, list[1])
      BY <3>3, <3>4 DEF Holds
    <3>9. Qu!IsLinked(w_async_task_head[0])
      BY <3>1, <3>4, <3>8, LinkedIs
    <3>10. i <= j
      BY <3>6, <3>7
    <3> QED
      BY <3>1, <3>4, <3>5, <3>9, <3>10
  <2>5. Qu!QueuedTaskIsReachable
    BY <2>2, <2>3, <2>4 DEF Qu!QueuedTaskIsReachable
  <2>6. ASSUME NEW w \in Workers, Qu!Running(w), w_thread[w].current \notin w_tangled
        PROVE  /\ w_task[w_thread[w].current].status \in {"Acquired", "PostExecute"}
               /\ \A v \in Workers \ {w} : Qu!Running(v) => w_thread[v].current # w_thread[w].current
    <3>1. WorkerInv(w) /\ w_thread[w] \in QuThread
      BY DEF QuInv, QuType
    <3>2. w_thread[w].current \in Tasks
      BY <2>6, <3>1 DEF WorkerInv, Qu!Running, QuThread
    <3>3. \A v \in Workers : Qu!Running(v) => Has(v, w_thread[v].current) /\ v \in Queuers
      BY DEF Has, Runs, Queuers
    <3>4. \A v \in Workers \ {w} : Qu!Running(v) => w_thread[v].current # w_thread[w].current
      BY <2>6, <3>2, <3>3 DEF QuInv, OwnerInv
    <3> QED
      BY <2>6, <3>1, <3>4 DEF WorkerInv, Qu!Running
  <2>7. Qu!RunnerOwnsTask
    BY <2>6 DEF Qu!RunnerOwnsTask
  <2> QED
    BY <2>5, <2>7
<1> QED
  BY <1>1, QueueInvariance, PTL

\* Each push ends in one call of the result function or of the cancel function,
\* whatever the order of cancelling, running and pushing again, unless somebody pushed
\* the task while another had it (AsyncTask::Cancel,
\* Invoke): the queue's part of OneOutcomePerRequest.
THEOREM OneOutcomePerPushInvariance == Spec => [](subject \in {"tasks", "queue"} => Qu!OneOutcomePerPush)
<1>1. QuInv => Qu!OneOutcomePerPush
  <2> SUFFICES ASSUME QuInv, NEW t \in Tasks \ w_tangled
               PROVE  w_pushes[t] = w_told[t] + IF "result" \in w_task[t].handlers THEN 1 ELSE 0
    BY DEF Qu!OneOutcomePerPush
  <2>1. OutcomeInv(t)
    BY DEF QuInv
  <2>2. "result" \in w_task[t].handlers <=> Kept(t)
    BY <2>1 DEF OutcomeInv, Handlers
  <2> QED
    BY <2>1, <2>2 DEF OutcomeInv
<1> QED
  BY <1>1, QueueInvariance, PTL
-----------------------------------------------------------------------------
(* ThreadLocalArchiveManager. *)

LoType ==
    /\ l_tree \in [ArchiveUsers -> ArchiveBinders \cup {None}]
    /\ l_tls \in [ArchiveUsers -> ArchiveBinders \cup {None}]
    /\ l_m_free_archive_ring_buffer \in Seq(ArchiveBinders)
    /\ l_nodes \in Nat
\* Whose destructor runs has its binder in the tree until it takes the node out.
ExitInv ==
    /\ l_exiting.at \in {"search", "remove"} =>
          /\ l_exiting.thread \in ArchiveUsers /\ l_exiting.binder \in ArchiveBinders
          /\ l_tree[l_exiting.thread] = l_exiting.binder
    /\ l_exiting.at = "insert" => l_exiting.binder \in ArchiveBinders
LoInv == LoType /\ ExitInv /\ Lo!BindersHaveOneHome /\ Lo!SlotIsOwn

\* What taking the first and putting back at the end do to a ring's members.
Members(ring) == {ring[i] : i \in DOMAIN ring}
LEMMA TailOfRing ==
    ASSUME NEW S, NEW ring \in Seq(S), ring # <<>>
    PROVE  /\ Head(ring) \in S /\ Tail(ring) \in Seq(S) /\ Len(Tail(ring)) = Len(ring) - 1
           /\ Members(ring) = Members(Tail(ring)) \cup {Head(ring)}
<1>1. /\ Head(ring) = ring[1] /\ Head(ring) \in S /\ Tail(ring) \in Seq(S) /\ Len(Tail(ring)) = Len(ring) - 1
      /\ \A i \in 1 .. Len(ring) - 1 : Tail(ring)[i] = ring[i + 1]
  OBVIOUS
<1>2. PICK n \in Nat : n = Len(ring) /\ n > 0
  OBVIOUS
<1>3. DOMAIN ring = 1 .. n /\ DOMAIN Tail(ring) = 1 .. n - 1
  BY <1>1, <1>2
<1>4. ASSUME NEW i \in 1 .. n PROVE ring[i] \in Members(Tail(ring)) \cup {Head(ring)}
  <2>1. CASE i = 1
    BY <1>1, <2>1
  <2>2. CASE i > 1
    <3>1. i - 1 \in 1 .. n - 1 /\ Tail(ring)[i - 1] = ring[i]
      BY <1>1, <1>2, <2>2
    <3> QED
      BY <1>3, <3>1 DEF Members
  <2> QED
    BY <2>1, <2>2
<1>5. ASSUME NEW i \in 1 .. n - 1 PROVE Tail(ring)[i] \in Members(ring)
  <2>1. i + 1 \in 1 .. n /\ Tail(ring)[i] = ring[i + 1]
    BY <1>1, <1>2
  <2> QED
    BY <1>3, <2>1 DEF Members
<1>6. Head(ring) \in Members(ring)
  <2>1. 1 \in DOMAIN ring
    BY <1>2, <1>3
  <2> QED
    BY <1>1, <2>1 DEF Members
<1>7. Members(ring) \subseteq Members(Tail(ring)) \cup {Head(ring)}
  <2> SUFFICES ASSUME NEW x \in Members(ring) PROVE x \in Members(Tail(ring)) \cup {Head(ring)}
    OBVIOUS
  <2>1. PICK i \in 1 .. n : x = ring[i]
    BY <1>3 DEF Members
  <2> QED
    BY <1>4, <2>1
<1>8. Members(Tail(ring)) \subseteq Members(ring)
  <2> SUFFICES ASSUME NEW x \in Members(Tail(ring)) PROVE x \in Members(ring)
    OBVIOUS
  <2>1. PICK i \in 1 .. n - 1 : x = Tail(ring)[i]
    BY <1>3 DEF Members
  <2> QED
    BY <1>5, <2>1
<1>9. Members(ring) = Members(Tail(ring)) \cup {Head(ring)}
  BY <1>6, <1>7, <1>8
<1> QED
  BY <1>1, <1>9

LEMMA AppendToRing ==
    ASSUME NEW S, NEW ring \in Seq(S), NEW x \in S
    PROVE  /\ Append(ring, x) \in Seq(S) /\ Len(Append(ring, x)) = Len(ring) + 1
           /\ Members(Append(ring, x)) = Members(ring) \cup {x}
<1>1. /\ Append(ring, x) \in Seq(S) /\ Len(Append(ring, x)) = Len(ring) + 1
      /\ \A i \in 1 .. Len(ring) : Append(ring, x)[i] = ring[i]
      /\ Append(ring, x)[Len(ring) + 1] = x
  OBVIOUS
<1>2. PICK n \in Nat : n = Len(ring)
  OBVIOUS
<1>3. DOMAIN ring = 1 .. n /\ DOMAIN Append(ring, x) = 1 .. n + 1 /\ n + 1 \in 1 .. n + 1
  BY <1>1, <1>2
<1>4. \A i \in 1 .. n + 1 : i \in 1 .. n \/ i = n + 1
  BY <1>2
<1>5. \A i \in 1 .. n : i \in 1 .. n + 1
  BY <1>2
<1> QED
  BY <1>1, <1>2, <1>3, <1>4, <1>5 DEF Members

\* The threads that have a node, and what is given out: how one more or one less of
\* them changes both.
LEMMA RegisteredIs ==
    /\ IsFiniteSet(Lo!Registered) /\ Cardinality(Lo!Registered) \in Nat
<1>1. Lo!Registered \in SUBSET ArchiveUsers
  BY DEF Lo!Registered
<1> QED
  BY <1>1, TasksAssumption, FS_Subset, FS_CardinalityType DEF TasksAssumption

GivenIn(tree) == {tree[t] : t \in {u \in ArchiveUsers : tree[u] # None}}
LEMMA ThreadComes ==
    ASSUME LoInv, NEW t \in ArchiveUsers, l_tree[t] = None, NEW a \in ArchiveBinders,
           l_tree' = [l_tree EXCEPT ![t] = a]
    PROVE  /\ l_tree' \in [ArchiveUsers -> ArchiveBinders \cup {None}]
           /\ Cardinality(Lo!Registered)' = Cardinality(Lo!Registered) + 1
           /\ GivenIn(l_tree') = GivenIn(l_tree) \cup {a}
<1>1. l_tree \in [ArchiveUsers -> ArchiveBinders \cup {None}] /\ a # None
  BY TasksAssumption DEF LoInv, LoType, TasksAssumption
<1>2. /\ l_tree' \in [ArchiveUsers -> ArchiveBinders \cup {None}] /\ l_tree'[t] = a
      /\ \A u \in ArchiveUsers : u # t => l_tree'[u] = l_tree[u]
  BY <1>1
<1>3. Lo!Registered' = Lo!Registered \cup {t} /\ t \notin Lo!Registered
  BY <1>1, <1>2 DEF Lo!Registered
<1>4. Cardinality(Lo!Registered') = Cardinality(Lo!Registered) + 1
  BY <1>3, RegisteredIs, FS_AddElement
<1>5. GivenIn(l_tree') = GivenIn(l_tree) \cup {a}
  BY <1>1, <1>2 DEF GivenIn
<1> QED
  BY <1>2, <1>4, <1>5

LEMMA ThreadGoes ==
    ASSUME LoInv, NEW t \in ArchiveUsers, l_tree[t] # None, l_tree' = [l_tree EXCEPT ![t] = None]
    PROVE  /\ l_tree' \in [ArchiveUsers -> ArchiveBinders \cup {None}]
           /\ Cardinality(Lo!Registered)' = Cardinality(Lo!Registered) - 1
           /\ GivenIn(l_tree') \cup {l_tree[t]} = GivenIn(l_tree)
<1>1. l_tree \in [ArchiveUsers -> ArchiveBinders \cup {None}]
  BY DEF LoInv, LoType
<1>2. /\ l_tree' \in [ArchiveUsers -> ArchiveBinders \cup {None}] /\ l_tree'[t] = None
      /\ \A u \in ArchiveUsers : u # t => l_tree'[u] = l_tree[u]
  BY <1>1
<1>3. Lo!Registered' = Lo!Registered \ {t} /\ t \in Lo!Registered
  BY <1>1, <1>2 DEF Lo!Registered
<1>4. Cardinality(Lo!Registered') = Cardinality(Lo!Registered) - 1
  BY <1>3, RegisteredIs, FS_RemoveElement
<1>5. GivenIn(l_tree') \cup {l_tree[t]} = GivenIn(l_tree)
  BY <1>1, <1>2 DEF GivenIn
<1> QED
  BY <1>2, <1>4, <1>5

\* The instance counts as this module does.
LEMMA CountIs == \A S : Lo!Cardinality(S) = Cardinality(S)
BY DEF Lo!Cardinality, Cardinality

\* BindersHaveOneHome, spelt out.
LEMMA HomesAre ==
    Lo!BindersHaveOneHome <=>
        (~l_crashed => /\ Members(Lo!Freed) \cup GivenIn(l_tree) = ArchiveBinders
                       /\ Len(Lo!Freed) + Cardinality(Lo!Registered) = Lo!max_thread_count)
BY CountIs DEF Lo!BindersHaveOneHome, Members, GivenIn, Lo!Registered

\* The free ones are the ring's, and the one on its way there.
LEMMA FreedIs ==
    ASSUME LoInv
    PROVE  /\ l_exiting.at # "insert" => Lo!Freed = l_m_free_archive_ring_buffer
           /\ l_exiting.at = "insert" => Lo!Freed = Append(l_m_free_archive_ring_buffer, l_exiting.binder)
           /\ Lo!Freed \in Seq(ArchiveBinders)
<1>1. PICK ring \in Seq(ArchiveBinders) : ring = l_m_free_archive_ring_buffer
  BY DEF LoInv, LoType
<1>2. l_exiting.at = "insert" => l_exiting.binder \in ArchiveBinders
  BY DEF LoInv, ExitInv
<1>3. ring \o <<>> = ring
  OBVIOUS
<1>4. \A a \in ArchiveBinders : ring \o <<a>> = Append(ring, a) /\ Append(ring, a) \in Seq(ArchiveBinders)
  OBVIOUS
<1> QED
  BY <1>1, <1>2, <1>3, <1>4 DEF Lo!Freed

\* No two threads have the same binder, as there are not enough others.
LEMMA GivenOnce ==
    ASSUME LoInv, ~l_crashed, NEW t \in ArchiveUsers, NEW u \in ArchiveUsers,
           l_tree[t] # None, l_tree[u] = l_tree[t]
    PROVE  t = u
<1> SUFFICES ASSUME t # u PROVE FALSE
  OBVIOUS
<1>1. PICK ring \in Seq(ArchiveBinders) : ring = Lo!Freed
  BY FreedIs
<1>2. PICK R, G, M : R = Lo!Registered /\ G = GivenIn(l_tree) /\ M = Members(ring)
  OBVIOUS
<1>3. M \cup G = ArchiveBinders /\ Len(ring) + Cardinality(R) = Cardinality(ArchiveBinders)
  BY <1>1, <1>2, HomesAre, CountIs DEF LoInv, Lo!max_thread_count
<1>4. IsFiniteSet(R) /\ Cardinality(R) \in Nat
  BY <1>2, RegisteredIs
<1>5. PICK Q : Q = R \ {u}
  OBVIOUS
<1>6. IsFiniteSet(Q) /\ Cardinality(Q) = Cardinality(R) - 1
  <2>1. u \in R
    BY <1>2 DEF Lo!Registered
  <2> QED
    BY <1>4, <1>5, <2>1, FS_RemoveElement
<1>7. Cardinality(G) <= Cardinality(Q) /\ IsFiniteSet(G)
  <2>1. PICK f : f = [x \in Q |-> l_tree[x]]
    OBVIOUS
  <2>2. \A x \in Q : f[x] \in G
    BY <1>2, <1>5, <2>1 DEF GivenIn, Lo!Registered
  <2>3. \A y \in G : \E x \in Q : f[x] = y
    BY <1>2, <1>5, <2>1 DEF GivenIn, Lo!Registered
  <2>4. f \in Surjection(Q, G)
    BY <2>1, <2>2, <2>3 DEF Surjection
  <2> QED
    BY <1>6, <2>4, FS_Surjection
<1>8. Cardinality(M) <= Len(ring) /\ IsFiniteSet(M)
  <2>1. PICK n \in Nat : n = Len(ring) /\ DOMAIN ring = 1 .. n
    OBVIOUS
  <2>2. ring \in Surjection(1 .. n, M)
    BY <1>2, <2>1 DEF Surjection, Members
  <2>3. ExistsSurjection(1 .. n, M)
    BY <2>2 DEF ExistsSurjection
  <2> QED
    BY <2>1, <2>3, FS_SurjCardinalityBound, FS_NatSurjection
<1>9. Cardinality(M \cup G) <= Cardinality(M) + Cardinality(G)
  <2>1. Cardinality(M \cup G) = Cardinality(M) + Cardinality(G) - Cardinality(M \cap G)
    BY <1>7, <1>8, FS_Union
  <2>2. IsFiniteSet(M \cap G)
    BY <1>7, FS_Subset
  <2>3. Cardinality(M) \in Nat /\ Cardinality(G) \in Nat /\ Cardinality(M \cap G) \in Nat
    BY <1>7, <1>8, <2>2, FS_CardinalityType
  <2> QED
    BY <2>1, <2>3
<1>10. /\ Cardinality(M) \in Nat /\ Cardinality(G) \in Nat /\ Cardinality(Q) \in Nat
       /\ Len(ring) \in Nat
  BY <1>6, <1>7, <1>8, FS_CardinalityType
<1>11. PICK b \in Nat, k \in Nat, m \in Nat, g \in Nat, q \in Nat, r \in Nat :
          /\ b = Cardinality(ArchiveBinders) /\ k = Len(ring)
          /\ m = Cardinality(M) /\ g = Cardinality(G) /\ q = Cardinality(Q) /\ r = Cardinality(R)
  <2>1. Cardinality(ArchiveBinders) \in Nat
    BY TasksAssumption, FS_CardinalityType DEF TasksAssumption
  <2> QED
    BY <1>4, <1>10, <2>1
<1>12. b <= m + g /\ m <= k /\ g <= q
  <2>1. Cardinality(M \cup G) = b
    BY <1>3, <1>11
  <2> QED
    BY <1>7, <1>8, <1>9, <1>11, <2>1
<1>13. q = r - 1 /\ k + r = b
  BY <1>3, <1>6, <1>11
<1> QED
  BY <1>12, <1>13

LEMMA LoInit == ASSUME Lo!Init PROVE LoInv
<1>1. PICK n \in Nat : n = Cardinality(ArchiveBinders) /\ ExistsBijection(1 .. n, ArchiveBinders)
  BY TasksAssumption, FS_CardinalityType DEF TasksAssumption
<1>2. \E s \in [1 .. n -> ArchiveBinders] : \A i, j \in DOMAIN s : s[i] = s[j] => i = j
  BY <1>1 DEF ExistsBijection, Bijection, Injection, IsInjective
<1>3. PICK ring : ring = l_m_free_archive_ring_buffer
  OBVIOUS
<1>4. ring \in [1 .. n -> ArchiveBinders] /\ \A i, j \in DOMAIN ring : ring[i] = ring[j] => i = j
  <2>1. Lo!max_thread_count = n
    BY <1>1, CountIs DEF Lo!max_thread_count
  <2>2. \E s \in [1 .. Lo!max_thread_count -> ArchiveBinders] : \A i, j \in DOMAIN s : s[i] = s[j] => i = j
    BY <1>2, <2>1
  <2>3. ring = CHOOSE s \in [1 .. Lo!max_thread_count -> ArchiveBinders] :
                  \A i, j \in DOMAIN s : s[i] = s[j] => i = j
    BY <1>3 DEF Lo!Init
  <2>4. /\ ring \in [1 .. Lo!max_thread_count -> ArchiveBinders]
        /\ \A i, j \in DOMAIN ring : ring[i] = ring[j] => i = j
    BY <2>2, <2>3
  <2> QED
    BY <2>1, <2>4
<1>5. ring \in Seq(ArchiveBinders) /\ Len(ring) = n /\ DOMAIN ring = 1 .. n
  BY <1>4
<1>6. Members(ring) = ArchiveBinders
  <2>1. Members(ring) \in SUBSET ArchiveBinders
    BY <1>4 DEF Members
  <2>2. ring \in Bijection(1 .. n, Members(ring))
    BY <1>4, <1>5 DEF Members, Bijection, Injection, Surjection, IsInjective
  <2>3. ExistsBijection(1 .. n, Members(ring))
    BY <2>2 DEF ExistsBijection
  <2>4. Cardinality(Members(ring)) = n
    BY <2>3, FS_CountingElements
  <2> QED
    BY <1>1, <2>1, <2>4, TasksAssumption, FS_Subset DEF TasksAssumption
<1>7. /\ l_tree = [t \in ArchiveUsers |-> None] /\ l_tls = [t \in ArchiveUsers |-> None]
      /\ l_nodes = n
  BY <1>1, CountIs DEF Lo!Init, Lo!max_thread_count
<1>8. Lo!Registered = {} /\ GivenIn(l_tree) = {} /\ Cardinality(Lo!Registered) = 0
  BY <1>7, FS_EmptySet DEF Lo!Registered, GivenIn
<1>9. l_exiting.at = "none" /\ Lo!Freed = ring
  <2>1. l_exiting.at = "none"
    BY DEF Lo!Init, Lo!Nobody
  <2>2. ring \o <<>> = ring
    BY <1>5
  <2> QED
    BY <1>3, <2>1, <2>2 DEF Lo!Freed
<1>10. Lo!BindersHaveOneHome
  BY <1>1, <1>5, <1>6, <1>8, <1>9, HomesAre, CountIs DEF Lo!max_thread_count
<1>11. Lo!SlotIsOwn
  BY <1>7 DEF Lo!SlotIsOwn
<1>12. LoType /\ ExitInv
  BY <1>3, <1>5, <1>7, <1>9 DEF LoType, ExitInv
<1> QED
  BY <1>10, <1>11, <1>12 DEF LoInv

\* A binder goes from the ring to a thread ...
LEMMA ArchiveGoes ==
    ASSUME LoInv, ~l_crashed, LoType', ExitInv', Lo!SlotIsOwn',
           NEW t \in ArchiveUsers, l_tree[t] = None, NEW ring \in Seq(ArchiveBinders), ring # <<>>,
           Lo!Freed = ring, Lo!Freed' = Tail(ring), l_tree' = [l_tree EXCEPT ![t] = Head(ring)]
    PROVE  LoInv'
<1>1. /\ Head(ring) \in ArchiveBinders /\ Tail(ring) \in Seq(ArchiveBinders) /\ Len(Tail(ring)) = Len(ring) - 1
      /\ Members(ring) = Members(Tail(ring)) \cup {Head(ring)}
  BY TailOfRing
<1>2. /\ Cardinality(Lo!Registered)' = Cardinality(Lo!Registered) + 1
      /\ GivenIn(l_tree') = GivenIn(l_tree) \cup {Head(ring)}
  BY <1>1, ThreadComes
<1>3. /\ Members(ring) \cup GivenIn(l_tree) = ArchiveBinders
      /\ Len(ring) + Cardinality(Lo!Registered) = Lo!max_thread_count
  BY HomesAre DEF LoInv
<1>4. Members(Tail(ring)) \cup GivenIn(l_tree') = ArchiveBinders
  BY <1>1, <1>2, <1>3
<1>5. Len(Tail(ring)) + Cardinality(Lo!Registered)' = Lo!max_thread_count
  <2>1. Len(ring) \in Nat /\ Cardinality(Lo!Registered) \in Nat
    BY RegisteredIs
  <2> QED
    BY <1>1, <1>2, <1>3, <2>1
<1>6. (Lo!BindersHaveOneHome <=>
        (~l_crashed => /\ Members(Lo!Freed) \cup GivenIn(l_tree) = ArchiveBinders
                       /\ Len(Lo!Freed) + Cardinality(Lo!Registered) = Lo!max_thread_count))'
  BY HomesAre, PTL
<1>7. Lo!BindersHaveOneHome'
  BY <1>4, <1>5, <1>6 DEF Lo!max_thread_count
<1> QED
  BY <1>7 DEF LoInv

\* ... and back, when the thread unregisters or its node is taken out.
LEMMA ArchiveReturns ==
    ASSUME LoInv, ~l_crashed, LoType', ExitInv', Lo!SlotIsOwn',
           NEW t \in ArchiveUsers, l_tree[t] # None, l_tree' = [l_tree EXCEPT ![t] = None],
           NEW ring \in Seq(ArchiveBinders), Lo!Freed = ring, Lo!Freed' = Append(ring, l_tree[t])
    PROVE  LoInv'
<1>1. PICK a \in ArchiveBinders : a = l_tree[t]
  BY DEF LoInv, LoType
<1>2. /\ Append(ring, a) \in Seq(ArchiveBinders) /\ Len(Append(ring, a)) = Len(ring) + 1
      /\ Members(Append(ring, a)) = Members(ring) \cup {a}
  BY AppendToRing
<1>3. /\ Cardinality(Lo!Registered)' = Cardinality(Lo!Registered) - 1
      /\ GivenIn(l_tree') \cup {a} = GivenIn(l_tree)
  BY <1>1, ThreadGoes
<1>4. /\ Members(ring) \cup GivenIn(l_tree) = ArchiveBinders
      /\ Len(ring) + Cardinality(Lo!Registered) = Lo!max_thread_count
  BY HomesAre DEF LoInv
<1>5. Members(Append(ring, a)) \cup GivenIn(l_tree') = ArchiveBinders
  BY <1>2, <1>3, <1>4
<1>6. Len(Append(ring, a)) + Cardinality(Lo!Registered)' = Lo!max_thread_count
  <2>1. Len(ring) \in Nat /\ Cardinality(Lo!Registered) \in Nat
    BY RegisteredIs
  <2> QED
    BY <1>2, <1>3, <1>4, <2>1
<1>7. (Lo!BindersHaveOneHome <=>
        (~l_crashed => /\ Members(Lo!Freed) \cup GivenIn(l_tree) = ArchiveBinders
                       /\ Len(Lo!Freed) + Cardinality(Lo!Registered) = Lo!max_thread_count))'
  BY HomesAre, PTL
<1>8. Lo!BindersHaveOneHome'
  BY <1>1, <1>5, <1>6, <1>7 DEF Lo!max_thread_count
<1> QED
  BY <1>8 DEF LoInv

\* No binder moves, or the model ends.
LEMMA ArchivesStay ==
    ASSUME LoInv, ~l_crashed, LoType', ExitInv', Lo!SlotIsOwn',
           l_crashed' \/ (UNCHANGED l_tree /\ Lo!Freed' = Lo!Freed)
    PROVE  LoInv'
<1>1. Lo!BindersHaveOneHome'
  BY DEF LoInv, Lo!BindersHaveOneHome, Lo!Registered
<1> QED
  BY <1>1 DEF LoInv

\* Who does not touch the tree, the slots, the ring and who exits.
LEMMA ArchivesRest ==
    ASSUME LoInv, ~l_crashed,
           UNCHANGED <<l_m_free_archive_ring_buffer, l_tree, l_nodes, l_tls, l_exiting>>
    PROVE  LoInv'
<1>1. LoType' /\ ExitInv' /\ Lo!SlotIsOwn' /\ Lo!Freed' = Lo!Freed
  BY DEF LoInv, LoType, ExitInv, Lo!SlotIsOwn, Lo!Freed
<1> QED
  BY <1>1, ArchivesStay

LEMMA RegisterStep == ASSUME LoInv, ~l_crashed, ~Lo!Race, NEW t \in ArchiveUsers, Lo!Register(t) PROVE LoInv'
<1>1. /\ LoType /\ ExitInv /\ Lo!SlotIsOwn /\ l_m_cs.thread = t /\ l_m_cs.at = "register"
      /\ UNCHANGED l_exiting
  BY DEF Lo!Register, Lo!Unlock, LoInv
<1>2. CASE l_tree[t] # None
  <2>1. /\ l_tls' = [l_tls EXCEPT ![t] = l_tree[t]]
        /\ UNCHANGED <<l_tree, l_nodes, l_crashed, l_m_free_archive_ring_buffer>>
    BY <1>2 DEF Lo!Register, Lo!home_vars
  <2>2. LoType' /\ ExitInv' /\ Lo!SlotIsOwn' /\ Lo!Freed' = Lo!Freed
    BY <1>1, <2>1 DEF LoType, ExitInv, Lo!SlotIsOwn, Lo!Freed
  <2> QED
    BY <2>1, <2>2, ArchivesStay
<1>3. CASE l_tree[t] = None /\ l_m_free_archive_ring_buffer = <<>>
  <2>1. UNCHANGED <<l_m_free_archive_ring_buffer, l_tree, l_nodes, l_tls>>
    BY <1>3 DEF Lo!Register, Lo!home_vars
  <2> QED
    BY <1>1, <2>1, ArchivesRest
<1>4. CASE l_tree[t] = None /\ l_m_free_archive_ring_buffer # <<>>
  <2>1. PICK ring \in Seq(ArchiveBinders) : ring = l_m_free_archive_ring_buffer
    BY <1>1 DEF LoType
  <2>2. /\ ring # <<>> /\ l_m_free_archive_ring_buffer' = Tail(ring)
        /\ l_crashed' = (l_nodes = 0) /\ l_nodes' = (IF l_nodes = 0 THEN 0 ELSE l_nodes - 1)
        /\ l_tree' = (IF l_nodes = 0 THEN l_tree ELSE [l_tree EXCEPT ![t] = Head(ring)])
        /\ UNCHANGED l_tls
    BY <1>4, <2>1 DEF Lo!Register
  <2>3. l_exiting = Lo!Nobody /\ l_exiting.at = "none"
    BY <1>1, <1>4 DEF Lo!Race, Lo!SectionChanges, Lo!Nobody
  <2>4. Head(ring) \in ArchiveBinders /\ Tail(ring) \in Seq(ArchiveBinders)
    BY <2>2, TailOfRing
  <2>5. l_tree' \in [ArchiveUsers -> ArchiveBinders \cup {None}]
    BY <1>1, <2>2, <2>4 DEF LoType
  <2>6. l_nodes' \in Nat
    BY <1>1, <2>2 DEF LoType
  <2>7. LoType' /\ ExitInv' /\ Lo!SlotIsOwn'
    <3>1. LoType'
      BY <1>1, <2>2, <2>4, <2>5, <2>6 DEF LoType
    <3>2. ExitInv'
      BY <1>1, <2>3 DEF ExitInv
    <3>3. Lo!SlotIsOwn'
      BY <1>1, <1>4, <2>2 DEF Lo!SlotIsOwn, LoType
    <3> QED
      BY <3>1, <3>2, <3>3
  <2>8. CASE l_nodes = 0
    BY <2>2, <2>7, <2>8, ArchivesStay
  <2>9. CASE l_nodes # 0
    <3>1. Lo!Freed = ring
      BY <2>1, <2>3, FreedIs
    <3>2. Lo!Freed' = Tail(ring)
      <4>1. l_exiting'.at = "none" /\ l_m_free_archive_ring_buffer' = Tail(ring) /\ Tail(ring) \o <<>> = Tail(ring)
        BY <1>1, <2>2, <2>3, <2>4
      <4> QED
        BY <4>1 DEF Lo!Freed
    <3> QED
      BY <1>4, <2>2, <2>7, <2>9, <3>1, <3>2, ArchiveGoes
  <2> QED
    BY <2>8, <2>9
<1> QED
  BY <1>2, <1>3, <1>4

LEMMA UnregisterStep == ASSUME LoInv, ~l_crashed, ~Lo!Race, NEW t \in ArchiveUsers, Lo!Unregister(t) PROVE LoInv'
<1>1. /\ LoType /\ ExitInv /\ Lo!SlotIsOwn /\ l_m_cs.thread = t /\ l_m_cs.at = "unregister"
      /\ UNCHANGED l_exiting
  BY DEF Lo!Unregister, Lo!Unlock, LoInv
<1>2. CASE l_tree[t] = None
  <2>1. UNCHANGED <<l_m_free_archive_ring_buffer, l_tree, l_nodes, l_tls>>
    BY <1>2 DEF Lo!Unregister, Lo!home_vars
  <2> QED
    BY <1>1, <2>1, ArchivesRest
<1>3. CASE l_tree[t] # None
  <2>1. PICK ring \in Seq(ArchiveBinders), a \in ArchiveBinders :
           ring = l_m_free_archive_ring_buffer /\ a = l_tree[t]
    BY <1>1, <1>3 DEF LoType
  <2>2. /\ l_tls' = [l_tls EXCEPT ![t] = None] /\ l_tree' = [l_tree EXCEPT ![t] = None]
        /\ l_m_free_archive_ring_buffer' = Append(ring, a) /\ l_nodes' = l_nodes + 1
    BY <1>3, <2>1 DEF Lo!Unregister, Lo!Return
  <2>3. l_exiting = Lo!Nobody /\ l_exiting.at = "none"
    BY <1>1, <1>3 DEF Lo!Race, Lo!SectionChanges, Lo!Nobody
  <2>4. Append(ring, a) \in Seq(ArchiveBinders) /\ Append(ring, a) \o <<>> = Append(ring, a)
    OBVIOUS
  <2>5. LoType'
    BY <1>1, <2>2, <2>4 DEF LoType
  <2>6. ExitInv'
    BY <1>1, <2>3 DEF ExitInv
  <2>7. Lo!SlotIsOwn'
    BY <1>1, <2>2 DEF Lo!SlotIsOwn, LoType
  <2>8. Lo!Freed = ring
    BY <2>1, <2>3, FreedIs
  <2>9. Lo!Freed' = Append(ring, a)
    BY <1>1, <2>2, <2>3, <2>4 DEF Lo!Freed
  <2> QED
    BY <1>3, <2>1, <2>2, <2>5, <2>6, <2>7, <2>8, <2>9, ArchiveReturns
<1> QED
  BY <1>2, <1>3

LEMMA DestructorStep == ASSUME LoInv, ~l_crashed, NEW t \in ArchiveUsers, Lo!TlsDestructor(t) PROVE LoInv'
<1>1. /\ LoType /\ ExitInv /\ Lo!SlotIsOwn /\ l_exiting = Lo!Nobody /\ l_exiting.at = "none"
      /\ UNCHANGED <<l_m_free_archive_ring_buffer, l_tree, l_nodes, l_tls, l_crashed>>
  BY DEF Lo!TlsDestructor, Lo!home_vars, Lo!Nobody, LoInv
<1>2. CASE l_tls[t] = None
  BY <1>1, <1>2, ArchivesRest DEF Lo!TlsDestructor
<1>3. CASE l_tls[t] # None
  <2>1. l_exiting' = [at |-> "search", thread |-> t, binder |-> l_tls[t]]
    BY <1>3 DEF Lo!TlsDestructor
  <2>2. l_tls[t] = l_tree[t] /\ l_tls[t] \in ArchiveBinders
    BY <1>1, <1>3 DEF Lo!SlotIsOwn, LoType
  <2>3. LoType' /\ ExitInv' /\ Lo!SlotIsOwn' /\ Lo!Freed' = Lo!Freed
    BY <1>1, <2>1, <2>2 DEF LoType, ExitInv, Lo!SlotIsOwn, Lo!Freed
  <2> QED
    BY <1>1, <2>3, ArchivesStay
<1> QED
  BY <1>2, <1>3

LEMMA SearchTreeStep == ASSUME LoInv, ~l_crashed, NEW t \in ArchiveUsers, Lo!SearchTree(t) PROVE LoInv'
<1>1. /\ LoType /\ ExitInv /\ Lo!SlotIsOwn /\ l_exiting.at = "search"
      /\ l_exiting' = [l_exiting EXCEPT !.at = "remove"]
      /\ UNCHANGED <<l_m_free_archive_ring_buffer, l_tree, l_nodes, l_tls, l_crashed>>
  BY DEF Lo!SearchTree, Lo!home_vars, LoInv
<1>2. l_exiting'.at \in {"search", "remove"} /\ l_exiting'.thread = l_exiting.thread /\ l_exiting'.binder = l_exiting.binder
  BY <1>1
<1>3. LoType' /\ ExitInv' /\ Lo!SlotIsOwn' /\ Lo!Freed' = Lo!Freed
  BY <1>1, <1>2 DEF LoType, ExitInv, Lo!SlotIsOwn, Lo!Freed
<1> QED
  BY <1>1, <1>3, ArchivesStay

\* The node that is taken out is the thread's own, as no other has the binder.
LEMMA RemoveNodeStep == ASSUME LoInv, ~l_crashed, NEW t \in ArchiveUsers, Lo!RemoveNode(t) PROVE LoInv'
<1>1. /\ LoType /\ ExitInv /\ Lo!SlotIsOwn /\ l_exiting.at = "remove" /\ l_tree[t] = l_exiting.binder
      /\ l_tree' = [l_tree EXCEPT ![t] = None] /\ l_tls' = [l_tls EXCEPT ![l_exiting.thread] = None]
      /\ l_exiting' = [l_exiting EXCEPT !.at = "insert"]
      /\ UNCHANGED <<l_nodes, l_m_free_archive_ring_buffer, l_crashed>>
  BY DEF Lo!RemoveNode, LoInv
<1>2. PICK ring \in Seq(ArchiveBinders), a \in ArchiveBinders :
         ring = l_m_free_archive_ring_buffer /\ a = l_exiting.binder
  BY <1>1 DEF LoType, ExitInv
<1>3. a # None
  BY TasksAssumption DEF TasksAssumption
<1>4. l_exiting.thread = t
  BY <1>1, <1>2, <1>3, GivenOnce DEF ExitInv
<1>5. l_exiting'.at = "insert" /\ l_exiting'.binder = a
  <2>1. l_exiting' = [l_exiting EXCEPT !.at = "insert"]
    BY <1>1
  <2> QED
    BY <1>2, <2>1
<1>6. LoType' /\ ExitInv' /\ Lo!SlotIsOwn'
  <2>1. LoType'
    BY <1>1, <1>4 DEF LoType
  <2>2. ExitInv'
    BY <1>5 DEF ExitInv
  <2>3. Lo!SlotIsOwn'
    BY <1>1, <1>4 DEF Lo!SlotIsOwn, LoType
  <2> QED
    BY <2>1, <2>2, <2>3
<1>7. Lo!Freed = ring
  BY <1>1, <1>2, FreedIs
<1>8. Lo!Freed' = Append(ring, a)
  <2>1. ring \o <<a>> = Append(ring, a)
    OBVIOUS
  <2> QED
    BY <1>1, <1>2, <1>5, <2>1 DEF Lo!Freed
<1> QED
  BY <1>1, <1>2, <1>3, <1>6, <1>7, <1>8, ArchiveReturns

LEMMA InsertBinderStep == ASSUME LoInv, ~l_crashed, Lo!InsertBinder PROVE LoInv'
<1>1. /\ LoType /\ ExitInv /\ Lo!SlotIsOwn /\ l_exiting.at = "insert" /\ l_exiting' = Lo!Nobody
      /\ l_m_free_archive_ring_buffer' = Append(l_m_free_archive_ring_buffer, l_exiting.binder)
      /\ UNCHANGED <<l_tree, l_nodes, l_tls, l_crashed>>
  BY DEF Lo!InsertBinder, Lo!Return, LoInv
<1>2. PICK ring \in Seq(ArchiveBinders), a \in ArchiveBinders :
         ring = l_m_free_archive_ring_buffer /\ a = l_exiting.binder
  BY <1>1 DEF LoType, ExitInv
<1>3. PICK more \in Seq(ArchiveBinders) : more = Append(ring, a) /\ more \o <<>> = more
  <2>1. Append(ring, a) \in Seq(ArchiveBinders) /\ Append(ring, a) \o <<>> = Append(ring, a)
    OBVIOUS
  <2> QED
    BY <2>1
<1>4. l_exiting'.at = "none" /\ l_m_free_archive_ring_buffer' = more
  BY <1>1, <1>2, <1>3 DEF Lo!Nobody
<1>5. LoType' /\ ExitInv' /\ Lo!SlotIsOwn'
  BY <1>1, <1>4 DEF LoType, ExitInv, Lo!SlotIsOwn
<1>6. Lo!Freed' = Lo!Freed
  <2>1. Lo!Freed = more
    BY <1>1, <1>2, <1>3, FreedIs
  <2>2. Lo!Freed' = more
    BY <1>3, <1>4 DEF Lo!Freed
  <2> QED
    BY <2>1, <2>2
<1> QED
  BY <1>1, <1>5, <1>6, ArchivesStay

LEMMA LoStep == ASSUME LoInv, Lo!Next PROVE LoInv'
<1>1. ~l_crashed /\ ~Lo!Race
  BY DEF Lo!Next
<1>2. ASSUME NEW t \in ArchiveUsers,
             Lo!RegisterThread(t) \/ Lo!GetThreadLocalArchive(t) \/ Lo!UnregisterThread(t)
      PROVE  LoInv'
  <2>1. UNCHANGED <<l_m_free_archive_ring_buffer, l_tree, l_nodes, l_tls, l_exiting>>
    BY <1>2 DEF Lo!RegisterThread, Lo!GetThreadLocalArchive, Lo!UnregisterThread, Lo!Lock, Lo!home_vars
  <2> QED
    BY <1>1, <2>1, ArchivesRest
<1>3. CASE Lo!BeginCalculate \/ Lo!Calculate
  <2>1. UNCHANGED <<l_m_free_archive_ring_buffer, l_tree, l_nodes, l_tls, l_exiting>>
    BY <1>3 DEF Lo!BeginCalculate, Lo!Calculate, Lo!home_vars
  <2> QED
    BY <1>1, <2>1, ArchivesRest
<1> QED
  BY <1>1, <1>2, <1>3, RegisterStep, UnregisterStep, DestructorStep, SearchTreeStep, RemoveNodeStep,
     InsertBinderStep DEF Lo!Next

\* An archive is free once or one thread's, and a thread finds no other's in its
\* slot, whoever registers, unregisters, exits and counts, until somebody changes the
\* tree or the ring that another is in (ThreadLocalArchiveManager): its part of the
\* invariant FreeUnitsAreNobodys.
THEOREM ArchivesHaveOneHome == Spec => [](Lo!BindersHaveOneHome /\ Lo!SlotIsOwn)
<1>1. Init => LoInv
  BY LoInit DEF Init
<1>2. ASSUME LoInv, [Next]_vars PROVE LoInv'
  <2>1. CASE Lo!Next
    BY <1>2, <2>1, LoStep
  <2>2. CASE UNCHANGED l_vars
    <3>1. UNCHANGED <<l_m_free_archive_ring_buffer, l_tree, l_nodes, l_tls, l_exiting, l_crashed>>
      BY <2>2 DEF l_vars
    <3> QED
      BY <1>2, <3>1 DEF LoInv, LoType, ExitInv, Lo!BindersHaveOneHome, Lo!Registered, Lo!SlotIsOwn, Lo!Freed
  <2>3. Lo!Next \/ UNCHANGED l_vars
    BY <1>2 DEF Next, vars, AlNext, TkNext, QuNext, LvNext, SvNext, DeNext, FrNext, InNext, LoNext, TeNext, RsNext,
           OnlyTaskAllocator, OnlyAsyncQueue, OnlyAsyncSave, OnlyDecompressor, OnlyFramework,
           OnlyRawInput, OnlyTextureSamplers, OnlyResourceManager
  <2> QED
    BY <2>1, <2>2, <2>3
<1>3. LoInv => Lo!BindersHaveOneHome /\ Lo!SlotIsOwn
  BY DEF LoInv
<1> QED
  BY <1>1, <1>2, <1>3, PTL DEF Spec

-----------------------------------------------------------------------------
(* TextureSamplerManager. *)

TeWish == [kind : {"texture", "memory", "none"}] \cup [kind : {"slot"}, slot : Te!Slots]
TeCall == [pc : {"idle", "release", "destruct", "bind"}, next : TeWish \cup {None}]
TeTexture == [reference_count : Int, separate_memory : TextureBlocks \cup {None}, texture : BOOLEAN]
TeType ==
    /\ x_m_next_index \in 0 .. TextureSlots
    /\ x_m_handle_array \in [Te!Slots -> Nat]
    /\ x_m_texture_array \in [Te!Slots -> TeTexture]
    /\ x_m_texture_slot \in [TextureUsers -> Te!Slots]
    /\ x_call \in [TextureUsers -> TeCall]

\* A slot that was not given out yet is nobody's, and no slot is given out twice:
\* what is named by a binder, or by one that is about to be copied, lies before it.
Past(s, next) == s # 0 => s < next
UnusedInv == \A i \in Te!Slots : i >= x_m_next_index => x_m_handle_array[i] = i + 1
CallIsFit(c, slot, next) ==
    /\ c.pc # "idle" => c.next \in TeWish
    /\ c.pc = "bind" => slot = 0
    /\ c.pc = "destruct" => slot # 0
    /\ c.pc # "idle" /\ c.next.kind = "slot" => Past(c.next.slot, next)
BinderInv == \A b \in TextureUsers : /\ Past(x_m_texture_slot[b], x_m_next_index)
                                     /\ CallIsFit(x_call[b], x_m_texture_slot[b], x_m_next_index)

Holders(s) == {b \in TextureUsers : x_m_texture_slot[b] = s /\ x_call[b].pc # "destruct"}
CountInv == \A s \in Te!Slots \ {0} : x_m_texture_array[s].reference_count = Cardinality(Holders(s))

TeInv == TeType /\ UnusedInv /\ BinderInv /\ CountInv

LEMMA TextureCounts == CountInv <=> Te!CountsAreBinders
<1>1. \A S : Te!Cardinality(S) = Cardinality(S)
  BY DEF Te!Cardinality, Cardinality
<1> QED
  BY <1>1 DEF CountInv, Te!CountsAreBinders, Holders, Te!cInvalidDescriptorSlot

LEMMA HoldersAreFinite == \A s : IsFiniteSet(Holders(s)) /\ Cardinality(Holders(s)) \in Nat
<1> SUFFICES ASSUME NEW s PROVE IsFiniteSet(Holders(s)) /\ Cardinality(Holders(s)) \in Nat
  OBVIOUS
<1>1. Holders(s) \in SUBSET TextureUsers
  BY DEF Holders
<1> QED
  BY <1>1, TasksAssumption, FS_Subset, FS_CardinalityType DEF TasksAssumption

LEMMA SlotsAre == Te!Slots = 0 .. TextureSlots - 1 /\ TextureSlots \in Nat /\ 0 \in Te!Slots /\ Te!cInvalidHandle = TextureSlots
<1>1. Te!Slots = 0 .. TextureSlots - 1 /\ TextureSlots \in Nat \ {0} /\ Te!cInvalidHandle = TextureSlots
  BY TasksAssumption DEF TasksAssumption, Te!Slots, Te!cInvalidHandle
<1> QED
  BY <1>1

LEMMA TeInit == ASSUME Te!Init PROVE TeInv
<1>1. /\ x_m_next_index = 0 /\ x_m_handle_array = [i \in Te!Slots |-> i + 1]
      /\ x_m_texture_array = [s \in Te!Slots |-> [reference_count |-> 0, separate_memory |-> None, texture |-> FALSE]]
      /\ x_m_texture_slot = [b \in TextureUsers |-> 0]
      /\ x_call = [b \in TextureUsers |-> [pc |-> "idle", next |-> None]]
  BY DEF Te!Init, Te!cInvalidDescriptorSlot, Te!Idle
<1>2. TeType
  <2>1. x_m_handle_array \in [Te!Slots -> Nat]
    BY <1>1, SlotsAre
  <2>2. x_m_next_index \in 0 .. TextureSlots /\ x_m_texture_slot \in [TextureUsers -> Te!Slots]
    BY <1>1, SlotsAre
  <2>3. x_call \in [TextureUsers -> TeCall]
    BY <1>1 DEF TeCall
  <2> QED
    BY <1>1, <2>1, <2>2, <2>3 DEF TeType, TeTexture
<1>3. UnusedInv /\ BinderInv
  BY <1>1 DEF UnusedInv, BinderInv, Past, CallIsFit
<1>4. CountInv
  <2>1. \A s \in Te!Slots \ {0} : Holders(s) = {}
    BY <1>1 DEF Holders
  <2> QED
    BY <1>1, <2>1, FS_EmptySet DEF CountInv
<1> QED
  BY <1>2, <1>3, <1>4 DEF TeInv

\* A step of one binder.
LEMMA BinderStep ==
    ASSUME TeInv, NEW b \in TextureUsers, NEW slot \in Te!Slots, NEW c \in TeCall,
           x_m_texture_slot' = [x_m_texture_slot EXCEPT ![b] = slot], x_call' = [x_call EXCEPT ![b] = c],
           x_m_next_index' \in 0 .. TextureSlots, x_m_next_index <= x_m_next_index', UnusedInv',
           x_m_handle_array' \in [Te!Slots -> Nat],
           x_m_texture_array' \in [Te!Slots -> TeTexture],
           Past(slot, x_m_next_index'), CallIsFit(c, slot, x_m_next_index'),
           \A s \in Te!Slots \ {0} :
              x_m_texture_array'[s].reference_count =
                  IF s = slot /\ c.pc # "destruct" THEN Cardinality(Holders(s) \cup {b}) ELSE Cardinality(Holders(s) \ {b})
    PROVE  TeInv'
<1>1. TeType /\ UnusedInv /\ BinderInv /\ CountInv
  BY DEF TeInv
<1>2. /\ x_m_texture_slot' \in [TextureUsers -> Te!Slots] /\ x_m_texture_slot'[b] = slot
      /\ x_call' \in [TextureUsers -> TeCall] /\ x_call'[b] = c
      /\ \A d \in TextureUsers : d # b => x_m_texture_slot'[d] = x_m_texture_slot[d] /\ x_call'[d] = x_call[d]
  BY <1>1 DEF TeType
<1>3. TeType'
  BY <1>2 DEF TeType
<1>4. BinderInv'
  <2>1. ASSUME NEW s \in Te!Slots, Past(s, x_m_next_index) PROVE Past(s, x_m_next_index')
    <3>1. s \in Nat /\ x_m_next_index \in Nat /\ x_m_next_index' \in Nat
      BY <1>1, SlotsAre DEF TeType
    <3> QED
      BY <2>1, <3>1 DEF Past
  <2>2. ASSUME NEW d \in TextureUsers, d # b
        PROVE  Past(x_m_texture_slot[d], x_m_next_index') /\ CallIsFit(x_call[d], x_m_texture_slot[d], x_m_next_index')
    <3>1. Past(x_m_texture_slot[d], x_m_next_index) /\ CallIsFit(x_call[d], x_m_texture_slot[d], x_m_next_index)
      BY <1>1 DEF BinderInv
    <3>2. x_m_texture_slot[d] \in Te!Slots /\ x_call[d] \in TeCall
      BY <1>1 DEF TeType
    <3>3. x_call[d].pc # "idle" /\ x_call[d].next.kind = "slot" => x_call[d].next.slot \in Te!Slots
      BY <3>1, <3>2 DEF CallIsFit, TeWish
    <3> QED
      BY <2>1, <3>1, <3>2, <3>3 DEF CallIsFit
  <2> QED
    BY <1>2, <2>2 DEF BinderInv
<1>5. \A s \in Te!Slots \ {0} : Holders(s)' = IF s = slot /\ c.pc # "destruct" THEN Holders(s) \cup {b} ELSE Holders(s) \ {b}
  BY <1>2 DEF Holders
<1>6. CountInv'
  BY <1>5 DEF CountInv
<1> QED
  BY <1>3, <1>4, <1>6 DEF TeInv

\* ... which keeps the counts and stays with its slot, or had given it up.
LEMMA HolderStays ==
    ASSUME TeInv, NEW b \in TextureUsers, NEW slot \in Te!Slots, NEW c \in TeCall,
           x_m_texture_slot' = [x_m_texture_slot EXCEPT ![b] = slot], x_call' = [x_call EXCEPT ![b] = c],
           x_m_next_index' \in 0 .. TextureSlots, x_m_next_index <= x_m_next_index', UnusedInv',
           x_m_handle_array' \in [Te!Slots -> Nat],
           x_m_texture_array' \in [Te!Slots -> TeTexture],
           \A s \in Te!Slots \ {0} : x_m_texture_array'[s].reference_count = x_m_texture_array[s].reference_count,
           Past(slot, x_m_next_index'), CallIsFit(c, slot, x_m_next_index'),
           \/ slot = x_m_texture_slot[b] /\ (c.pc = "destruct" <=> x_call[b].pc = "destruct")
           \/ slot = 0 /\ c.pc # "destruct" /\ x_call[b].pc = "destruct"
    PROVE  TeInv'
<1>1. ASSUME NEW s \in Te!Slots \ {0}
      PROVE  x_m_texture_array'[s].reference_count =
                IF s = slot /\ c.pc # "destruct" THEN Cardinality(Holders(s) \cup {b}) ELSE Cardinality(Holders(s) \ {b})
  <2>1. x_m_texture_array'[s].reference_count = Cardinality(Holders(s))
    BY DEF TeInv, CountInv
  <2>2. Holders(s) = IF s = slot /\ c.pc # "destruct" THEN Holders(s) \cup {b} ELSE Holders(s) \ {b}
    BY DEF Holders
  <2>3. CASE s = slot /\ c.pc # "destruct"
    BY <2>1, <2>2, <2>3
  <2>4. CASE ~(s = slot /\ c.pc # "destruct")
    BY <2>1, <2>2, <2>4
  <2> QED
    BY <2>3, <2>4
<1> QED
  BY <1>1, BinderStep

LEMMA TeFacts ==
    ASSUME TeInv, NEW b \in TextureUsers
    PROVE  /\ x_call[b] \in TeCall /\ x_m_texture_slot[b] \in Te!Slots
           /\ x_m_next_index \in Nat /\ x_m_next_index <= TextureSlots
           /\ Past(x_m_texture_slot[b], x_m_next_index) /\ CallIsFit(x_call[b], x_m_texture_slot[b], x_m_next_index)
           /\ x_m_texture_slot = [x_m_texture_slot EXCEPT ![b] = x_m_texture_slot[b]]
           /\ x_call = [x_call EXCEPT ![b] = x_call[b]]
           /\ x_m_handle_array \in [Te!Slots -> Nat] /\ UnusedInv
           /\ x_m_texture_array \in [Te!Slots -> TeTexture]
<1>1. TeType /\ UnusedInv /\ BinderInv
  BY DEF TeInv
<1>2. x_m_next_index \in Nat /\ x_m_next_index <= TextureSlots
  BY <1>1, SlotsAre DEF TeType
<1>3. x_m_texture_slot = [x_m_texture_slot EXCEPT ![b] = x_m_texture_slot[b]] /\ x_call = [x_call EXCEPT ![b] = x_call[b]]
  BY <1>1 DEF TeType
<1> QED
  BY <1>1, <1>2, <1>3 DEF TeType, BinderInv

LEMMA BeginCallStep ==
    ASSUME TeInv, NEW b \in TextureUsers, NEW next \in TeWish, Te!Begin(b, next),
           next.kind = "slot" => \E d \in TextureUsers : next.slot = x_m_texture_slot[d]
    PROVE  TeInv'
<1>1. PICK c : c = [pc |-> "release", next |-> next]
  OBVIOUS
<1>2. /\ x_call[b].pc = "idle" /\ x_call' = [x_call EXCEPT ![b] = c]
      /\ UNCHANGED <<x_m_next_index, x_m_handle_array, x_m_texture_array, x_m_texture_slot>>
  BY <1>1 DEF Te!Begin, Te!Idle, Te!table
<1>3. c \in TeCall /\ c.pc = "release" /\ c.next = next
  BY <1>1 DEF TeCall
<1>4. c.next.kind = "slot" => Past(c.next.slot, x_m_next_index)
  BY <1>3, TeFacts
<1>5. CallIsFit(c, x_m_texture_slot[b], x_m_next_index')
  BY <1>2, <1>3, <1>4 DEF CallIsFit
<1>6. UnusedInv'
  BY <1>2, TeFacts DEF UnusedInv
<1>7. /\ x_m_next_index' \in 0 .. TextureSlots /\ x_m_next_index <= x_m_next_index'
      /\ x_m_texture_slot' = [x_m_texture_slot EXCEPT ![b] = x_m_texture_slot[b]]
      /\ Past(x_m_texture_slot[b], x_m_next_index')
  BY <1>2, TeFacts, SlotsAre
<1> QED
  BY <1>2, <1>3, <1>5, <1>6, <1>7, TeFacts, HolderStays

LEMMA EndReleaseStep == ASSUME TeInv, NEW b \in TextureUsers, Te!EndRelease(b) PROVE TeInv'
<1>1. /\ x_call[b].pc = "bind" /\ x_call' = [x_call EXCEPT ![b] = [pc |-> "idle", next |-> None]]
      /\ UNCHANGED <<x_m_next_index, x_m_handle_array, x_m_texture_array, x_m_texture_slot>>
  BY DEF Te!EndRelease, Te!table, Te!Idle
<1>2. PICK c : c = [pc |-> "idle", next |-> None]
  OBVIOUS
<1>3. c \in TeCall /\ c.pc = "idle" /\ CallIsFit(c, x_m_texture_slot[b], x_m_next_index')
  BY <1>2 DEF TeCall, CallIsFit
<1>4. UnusedInv'
  BY <1>1, TeFacts DEF UnusedInv
<1>5. /\ x_m_next_index' \in 0 .. TextureSlots /\ x_m_next_index <= x_m_next_index'
      /\ x_m_texture_slot' = [x_m_texture_slot EXCEPT ![b] = x_m_texture_slot[b]]
      /\ Past(x_m_texture_slot[b], x_m_next_index')
  BY <1>1, TeFacts, SlotsAre
<1> QED
  BY <1>1, <1>2, <1>3, <1>4, <1>5, TeFacts, HolderStays

\* A binder that gives up its slot, which the last but one keeps until its texture
\* is destructed.
LEMMA ReleaseStep == ASSUME TeInv, NEW b \in TextureUsers, Te!Release(b) PROVE TeInv'
<1>1. PICK s \in Te!Slots : s = x_m_texture_slot[b]
  BY TeFacts
<1>2. x_call[b].pc = "release" /\ UNCHANGED <<x_m_next_index, x_m_handle_array>>
  BY DEF Te!Release, Te!table
<1>3. UnusedInv'
  BY <1>2, TeFacts DEF UnusedInv
<1>4. x_m_next_index' \in 0 .. TextureSlots /\ x_m_next_index <= x_m_next_index' /\ Past(s, x_m_next_index')
  BY <1>1, <1>2, TeFacts, SlotsAre
<1>5. ASSUME NEW pc \in {"bind", "destruct"}, NEW slot, pc = "bind" => slot = 0, pc = "destruct" => slot # 0
      PROVE  /\ [x_call[b] EXCEPT !.pc = pc] \in TeCall /\ [x_call[b] EXCEPT !.pc = pc].pc = pc
             /\ CallIsFit([x_call[b] EXCEPT !.pc = pc], slot, x_m_next_index')
  BY <1>2, <1>5, TeFacts DEF TeCall, CallIsFit
<1>6. CASE s = 0
  <2>1. PICK c : c = [x_call[b] EXCEPT !.pc = "bind"]
    OBVIOUS
  <2>2. x_call' = [x_call EXCEPT ![b] = c] /\ UNCHANGED <<x_m_texture_array, x_m_texture_slot>>
    BY <1>1, <1>6, <2>1 DEF Te!Release, Te!cInvalidDescriptorSlot
  <2>3. c \in TeCall /\ c.pc = "bind" /\ CallIsFit(c, s, x_m_next_index')
    BY <1>5, <1>6, <2>1
  <2>4. x_m_texture_slot' = [x_m_texture_slot EXCEPT ![b] = s]
    BY <1>1, <2>2, TeFacts
  <2> QED
    BY <1>1, <1>2, <1>3, <1>4, <2>2, <2>3, <2>4, TeFacts, HolderStays
<1>7. CASE s # 0
  <2>1. PICK last : last = (x_m_texture_array[s].reference_count - 1 = 1)
    OBVIOUS
  <2>2. PICK c, slot : /\ c = [x_call[b] EXCEPT !.pc = IF last THEN "destruct" ELSE "bind"]
                       /\ slot = IF last THEN s ELSE 0
    OBVIOUS
  <2>3. /\ x_m_texture_array' = [x_m_texture_array EXCEPT ![s].reference_count = @ - 1]
        /\ x_call' = [x_call EXCEPT ![b] = c] /\ x_m_texture_slot' = [x_m_texture_slot EXCEPT ![b] = slot]
    BY <1>1, <1>7, <2>1, <2>2 DEF Te!Release, Te!cInvalidDescriptorSlot
  <2>4. /\ c \in TeCall /\ c.pc = (IF last THEN "destruct" ELSE "bind") /\ CallIsFit(c, slot, x_m_next_index')
        /\ slot \in Te!Slots /\ Past(slot, x_m_next_index')
    BY <1>4, <1>5, <1>7, <2>2, SlotsAre DEF Past
  <2>5. /\ x_m_texture_array' \in [Te!Slots -> TeTexture]
        /\ x_m_texture_array'[s].reference_count = x_m_texture_array[s].reference_count - 1
        /\ \A i \in Te!Slots : i # s => x_m_texture_array'[i] = x_m_texture_array[i]
    BY <2>3, TeFacts DEF TeTexture
  <2>6. ASSUME NEW i \in Te!Slots \ {0}
        PROVE  /\ x_m_texture_array'[i].reference_count = Cardinality(Holders(i) \ {b})
               /\ ~(i = slot /\ c.pc # "destruct")
    <3>1. x_m_texture_array[i].reference_count = Cardinality(Holders(i))
      BY DEF TeInv, CountInv
    <3>2. b \in Holders(i) <=> i = s
      BY <1>1, <1>2 DEF Holders
    <3>3. Cardinality(Holders(i) \ {b}) = IF i = s THEN Cardinality(Holders(i)) - 1 ELSE Cardinality(Holders(i))
      BY <3>2, HoldersAreFinite, FS_RemoveElement
    <3>4. ~(i = slot /\ c.pc # "destruct")
      BY <2>2, <2>4
    <3> QED
      BY <2>5, <3>1, <3>3, <3>4
  <2> QED
    BY <1>2, <1>3, <1>4, <2>3, <2>4, <2>5, <2>6, TeFacts, BinderStep
<1> QED
  BY <1>6, <1>7

\* What is freed follows the slots given out, of which none comes back.
LEMMA DestructStep == ASSUME TeInv, NEW b \in TextureUsers, Te!Destruct(b) PROVE TeInv'
<1>1. PICK s \in Te!Slots, n \in Nat : s = x_m_texture_slot[b] /\ n = x_m_next_index
  BY TeFacts
<1>2. PICK c : c = [x_call[b] EXCEPT !.pc = "bind"]
  OBVIOUS
<1>3. /\ x_call[b].pc = "destruct" /\ x_call' = [x_call EXCEPT ![b] = c]
      /\ x_m_texture_slot' = [x_m_texture_slot EXCEPT ![b] = 0]
      /\ x_m_texture_array' = [x_m_texture_array EXCEPT ![s].texture = FALSE]
      /\ x_m_handle_array' = [x_m_handle_array EXCEPT ![s] = n]
      /\ x_m_next_index' = IF n = TextureSlots THEN n ELSE x_m_handle_array'[n]
  BY <1>1, <1>2, SlotsAre DEF Te!Destruct, Te!FreeIndex, Te!cInvalidDescriptorSlot
<1>4. s # 0 /\ s < n /\ n <= TextureSlots
  BY <1>1, <1>3, TeFacts DEF CallIsFit, Past
<1>5. /\ x_m_handle_array' \in [Te!Slots -> Nat]
      /\ \A i \in Te!Slots : i >= n => x_m_handle_array'[i] = i + 1
  BY <1>1, <1>3, <1>4, TeFacts, SlotsAre DEF UnusedInv
<1>6. x_m_next_index' \in {n, n + 1} /\ x_m_next_index' <= TextureSlots
  <2>1. CASE n = TextureSlots
    BY <1>3, <2>1
  <2>2. CASE n < TextureSlots
    <3>1. n \in Te!Slots
      BY <2>2, SlotsAre
    <3> QED
      BY <1>3, <1>5, <2>2, <3>1, SlotsAre
  <2> QED
    BY <1>4, <2>1, <2>2, SlotsAre
<1>7. /\ UnusedInv' /\ x_m_next_index' \in 0 .. TextureSlots /\ x_m_next_index <= x_m_next_index'
      /\ 0 \in Te!Slots /\ Past(0, x_m_next_index')
  BY <1>1, <1>5, <1>6, SlotsAre DEF UnusedInv, Past
<1>8. c \in TeCall /\ c.pc = "bind" /\ CallIsFit(c, 0, x_m_next_index')
  <2>1. CallIsFit(x_call[b], s, n) /\ x_call[b] \in TeCall
    BY <1>1, TeFacts
  <2>2. c \in TeCall /\ c.pc = "bind" /\ c.next = x_call[b].next /\ c.next \in TeWish
    BY <1>2, <1>3, <2>1 DEF TeCall, CallIsFit
  <2>3. c.next.kind = "slot" => c.next.slot \in Te!Slots /\ Past(c.next.slot, n)
    BY <1>3, <2>1, <2>2 DEF CallIsFit, TeWish
  <2>4. c.next.kind = "slot" => Past(c.next.slot, x_m_next_index')
    BY <1>1, <1>6, <2>3, SlotsAre DEF Past
  <2> QED
    BY <2>2, <2>4 DEF CallIsFit
<1>9. /\ x_m_texture_array' \in [Te!Slots -> TeTexture]
      /\ \A i \in Te!Slots : x_m_texture_array'[i].reference_count = x_m_texture_array[i].reference_count
  <2>1. x_m_texture_array \in [Te!Slots -> TeTexture]
    BY TeFacts
  <2>2. PICK x : x = [x_m_texture_array[s] EXCEPT !.texture = FALSE]
    OBVIOUS
  <2>3. x \in TeTexture /\ x.reference_count = x_m_texture_array[s].reference_count
    BY <2>1, <2>2 DEF TeTexture
  <2>4. x_m_texture_array' = [x_m_texture_array EXCEPT ![s] = x]
    BY <1>3, <2>2
  <2> QED
    BY <2>1, <2>3, <2>4
<1> QED
  BY <1>3, <1>5, <1>7, <1>8, <1>9, HolderStays

\* Nobody has the slot that is given out, but for slot 0.
LEMMA RegisterTextureStep == ASSUME TeInv, NEW b \in TextureUsers, Te!RegisterTextureView(b) PROVE TeInv'
<1>1. PICK n \in Nat : n = x_m_next_index /\ n <= TextureSlots
  BY TeFacts
<1>2. x_call[b].pc = "bind" /\ x_m_texture_slot[b] = 0
  BY TeFacts DEF Te!RegisterTextureView, CallIsFit
<1>3. CASE UNCHANGED <<x_m_next_index, x_m_handle_array, x_m_texture_array, x_m_texture_slot, x_call>>
  BY <1>3 DEF TeInv, TeType, UnusedInv, BinderInv, CountInv, Holders
<1>4. CASE ~ UNCHANGED <<x_m_next_index, x_m_handle_array, x_m_texture_array, x_m_texture_slot, x_call>>
  <2>1. PICK c : c = [pc |-> "idle", next |-> None]
    OBVIOUS
  <2>2. n # TextureSlots
    BY <1>1, <1>4, SlotsAre DEF Te!RegisterTextureView, Te!table
  <2>3. PICK block \in TextureBlocks \cup {None}, own \in BOOLEAN :
           /\ x_m_texture_array' = [x_m_texture_array EXCEPT ![n] =
                 [reference_count |-> 1, texture |-> TRUE,
                  separate_memory |-> IF own THEN block ELSE @.separate_memory]]
           /\ x_m_next_index' = x_m_handle_array[n]
           /\ x_m_texture_slot' = [x_m_texture_slot EXCEPT ![b] = n]
           /\ x_call' = [x_call EXCEPT ![b] = c]
           /\ x_m_handle_array' = x_m_handle_array
    BY <1>1, <1>4, <2>1, SlotsAre DEF Te!RegisterTextureView, Te!table, Te!NextIndex, Te!Idle
  <2>4. n \in Te!Slots /\ x_m_next_index' = n + 1
    BY <1>1, <2>2, <2>3, TeFacts, SlotsAre DEF UnusedInv
  <2>5. /\ UnusedInv' /\ x_m_next_index' \in 0 .. TextureSlots /\ x_m_next_index <= x_m_next_index'
        /\ Past(n, x_m_next_index')
    BY <1>1, <2>2, <2>3, <2>4, TeFacts, SlotsAre DEF UnusedInv, Past
  <2>6. c \in TeCall /\ c.pc = "idle" /\ CallIsFit(c, n, x_m_next_index')
    BY <2>1 DEF TeCall, CallIsFit
  <2>7. /\ x_m_texture_array' \in [Te!Slots -> TeTexture]
        /\ x_m_texture_array'[n].reference_count = 1
        /\ \A i \in Te!Slots : i # n => x_m_texture_array'[i] = x_m_texture_array[i]
    <3>1. PICK x : x = [reference_count |-> 1, texture |-> TRUE,
                        separate_memory |-> IF own THEN block ELSE x_m_texture_array[n].separate_memory]
      OBVIOUS
    <3>2. x_m_texture_array \in [Te!Slots -> TeTexture]
      BY TeFacts
    <3>3. x \in TeTexture /\ x.reference_count = 1
      BY <2>4, <3>1, <3>2 DEF TeTexture
    <3>4. x_m_texture_array' = [x_m_texture_array EXCEPT ![n] = x]
      BY <2>3, <3>1
    <3> QED
      BY <2>4, <3>2, <3>3, <3>4
  <2>8. ASSUME NEW i \in Te!Slots \ {0}
        PROVE  x_m_texture_array'[i].reference_count =
                  IF i = n /\ c.pc # "destruct" THEN Cardinality(Holders(i) \cup {b}) ELSE Cardinality(Holders(i) \ {b})
    <3>1. CASE i = n
      <4>1. \A d \in TextureUsers : x_m_texture_slot[d] # i
        BY <1>1, <3>1, <2>8, TeFacts DEF Past
      <4>2. Holders(i) \cup {b} = {b}
        BY <4>1 DEF Holders
      <4>3. Cardinality({b}) = 1
        BY FS_Singleton
      <4> QED
        BY <2>6, <2>7, <3>1, <4>2, <4>3
    <3>2. CASE i # n
      <4>1. x_m_texture_array'[i].reference_count = Cardinality(Holders(i))
        BY <2>7, <3>2 DEF TeInv, CountInv
      <4>2. Holders(i) \ {b} = Holders(i)
        BY <1>2 DEF Holders
      <4> QED
        BY <3>2, <4>1, <4>2
    <3> QED
      BY <3>1, <3>2
  <2> QED
    BY <2>3, <2>4, <2>5, <2>6, <2>7, <2>8, TeFacts, BinderStep
<1> QED
  BY <1>3, <1>4

\* One more for the slot of the binder that was copied, whether that one still has it or not.
LEMMA ReferenceTextureStep == ASSUME TeInv, NEW b \in TextureUsers, Te!ReferenceTextureView(b) PROVE TeInv'
<1>1. PICK s, c : s = x_call[b].next.slot /\ c = [pc |-> "idle", next |-> None]
  OBVIOUS
<1>2. /\ x_call[b].pc = "bind" /\ x_call[b].next.kind = "slot"
      /\ x_m_texture_array' = [x_m_texture_array EXCEPT ![s].reference_count = @ + 1]
      /\ x_m_texture_slot' = [x_m_texture_slot EXCEPT ![b] = s] /\ x_call' = [x_call EXCEPT ![b] = c]
      /\ UNCHANGED <<x_m_next_index, x_m_handle_array>>
  BY <1>1 DEF Te!ReferenceTextureView, Te!ReferencesAfter, Te!Idle, Te!table
<1>3. s \in Te!Slots /\ Past(s, x_m_next_index) /\ x_m_texture_slot[b] = 0
  BY <1>1, <1>2, TeFacts DEF CallIsFit, TeWish
<1>4. /\ UnusedInv' /\ x_m_next_index' \in 0 .. TextureSlots /\ x_m_next_index <= x_m_next_index'
      /\ Past(s, x_m_next_index')
  BY <1>2, <1>3, TeFacts, SlotsAre DEF UnusedInv
<1>5. c \in TeCall /\ c.pc = "idle" /\ CallIsFit(c, s, x_m_next_index')
  BY <1>1 DEF TeCall, CallIsFit
<1>6. /\ x_m_texture_array' \in [Te!Slots -> TeTexture]
      /\ x_m_texture_array'[s].reference_count = x_m_texture_array[s].reference_count + 1
      /\ \A i \in Te!Slots : i # s => x_m_texture_array'[i] = x_m_texture_array[i]
  <2>1. x_m_texture_array \in [Te!Slots -> TeTexture]
    BY TeFacts
  <2>2. PICK x : x = [x_m_texture_array[s] EXCEPT !.reference_count = @ + 1]
    OBVIOUS
  <2>3. x \in TeTexture /\ x.reference_count = x_m_texture_array[s].reference_count + 1
    BY <1>3, <2>1, <2>2 DEF TeTexture
  <2>4. x_m_texture_array' = [x_m_texture_array EXCEPT ![s] = x]
    BY <1>2, <2>2
  <2> QED
    BY <1>3, <2>1, <2>3, <2>4
<1>7. ASSUME NEW i \in Te!Slots \ {0}
      PROVE  x_m_texture_array'[i].reference_count =
                IF i = s /\ c.pc # "destruct" THEN Cardinality(Holders(i) \cup {b}) ELSE Cardinality(Holders(i) \ {b})
  <2>1. x_m_texture_array[i].reference_count = Cardinality(Holders(i))
    BY DEF TeInv, CountInv
  <2>2. b \notin Holders(i)
    BY <1>3 DEF Holders
  <2>3. Cardinality(Holders(i) \cup {b}) = Cardinality(Holders(i)) + 1 /\ Holders(i) \ {b} = Holders(i)
    <3>1. IsFiniteSet(Holders(i))
      BY HoldersAreFinite
    <3>2. Cardinality(Holders(i) \cup {b}) = Cardinality(Holders(i)) + 1
      BY <2>2, <3>1, FS_AddElement
    <3> QED
      BY <2>2, <3>2
  <2>4. CASE i = s
    BY <1>5, <1>6, <2>1, <2>3, <2>4
  <2>5. CASE i # s
    BY <1>6, <2>1, <2>3, <2>5
  <2> QED
    BY <2>4, <2>5
<1> QED
  BY <1>2, <1>3, <1>4, <1>5, <1>6, <1>7, TeFacts, BinderStep

LEMMA TeStep == ASSUME TeInv, Te!Next PROVE TeInv'
<1>1. ASSUME NEW b \in TextureUsers, Te!BindTexture(b) \/ Te!ReleaseTexture(b) PROVE TeInv'
  <2>1. PICK next \in [kind : {"texture", "memory", "none"}] : Te!Begin(b, next)
    <3>1. PICK kind \in {"texture", "memory", "none"} : Te!Begin(b, [kind |-> kind])
      BY <1>1 DEF Te!BindTexture, Te!ReleaseTexture
    <3> QED
      BY <3>1
  <2>2. next \in TeWish /\ next.kind # "slot"
    BY DEF TeWish
  <2> QED
    BY <2>1, <2>2, BeginCallStep
<1>2. ASSUME NEW b \in TextureUsers, NEW rhs \in TextureUsers, Te!CopyBinder(b, rhs) PROVE TeInv'
  <2>1. PICK next : next = [kind |-> "slot", slot |-> x_m_texture_slot[rhs]]
    OBVIOUS
  <2>2. Te!Begin(b, next)
    BY <1>2, <2>1 DEF Te!CopyBinder
  <2>3. next \in TeWish /\ next.slot = x_m_texture_slot[rhs]
    BY <2>1, TeFacts DEF TeWish
  <2> QED
    BY <2>2, <2>3, BeginCallStep
<1>3. ASSUME NEW b \in TextureUsers, Te!RegisterSampler(b) PROVE TeInv'
  <2>1. UNCHANGED <<x_m_next_index, x_m_handle_array, x_m_texture_array, x_m_texture_slot, x_call>>
    BY <1>3 DEF Te!RegisterSampler, Te!table
  <2> QED
    BY <2>1 DEF TeInv, TeType, UnusedInv, BinderInv, CountInv, Holders
<1> QED
  BY <1>1, <1>2, <1>3, ReleaseStep, DestructStep, RegisterTextureStep, ReferenceTextureStep, EndReleaseStep DEF Te!Next

\* The count of a texture is the number of its binders, whoever binds, copies and
\* releases at the same time (ReleaseTexture, BindTexture): TextureSamplerManager's
\* part of the invariant FreeUnitsAreNobodys.
THEOREM TextureCountsAreBinders == Spec => []Te!CountsAreBinders
<1>1. Init => TeInv
  BY TeInit DEF Init
<1>2. ASSUME TeInv, [Next]_vars PROVE TeInv'
  <2>1. CASE Te!Next
    BY <1>2, <2>1, TeStep
  <2>2. CASE UNCHANGED x_vars
    BY <1>2, <2>2 DEF x_vars, TeInv, TeType, UnusedInv, BinderInv, CountInv, Holders
  <2>3. Te!Next \/ UNCHANGED x_vars
    BY <1>2 DEF Next, vars, AlNext, TkNext, QuNext, LvNext, SvNext, DeNext, FrNext, InNext, LoNext, TeNext, RsNext,
           OnlyTaskAllocator, OnlyAsyncQueue, OnlyAsyncSave, OnlyDecompressor, OnlyFramework,
           OnlyRawInput, OnlyLocalArchives, OnlyResourceManager
  <2> QED
    BY <2>1, <2>2, <2>3
<1>3. TeInv => Te!CountsAreBinders
  BY TextureCounts DEF TeInv
<1> QED
  BY <1>1, <1>2, <1>3, PTL DEF Spec
=============================================================================
