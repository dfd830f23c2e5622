----------------------- MODULE CriticalSectionProofs -----------------------
(***************************************************************************)
(* CriticalSection, and ConditionVariable on top of it, with one lock, for *)
(* any number of fibers and cores: no two fibers hold it, every fiber that *)
(* waits for it is in the list that the next Leave looks at, and who is    *)
(* back from a Wait holds it.                                              *)
(*                                                                         *)
(* The word names the one fiber that the lock belongs to: it holds it, or  *)
(* is about to hand it over, or was woken with it and has not looked yet.  *)
(* That needs to know that only a hand-over, or a signal, wakes a waiter,  *)
(* which is a fact about the scheduler, and that the waiters are behind    *)
(* the owner, since the hand-over goes to the head of the owner's list.    *)
(*                                                                         *)
(* With two locks exclusion is lost (the run MCLockNested): the waiters of *)
(* both are in one list, so one lock is assumed.                           *)
(*                                                                         *)
(* A fiber that hangs in ReleaseLockWaitListUnsafe keeps m_scheduler_lock: *)
(* from there on the cover of the lock is lost, and of the scheduler's     *)
(* steps only those that need no lock remain (Stuck).                      *)
(*                                                                         *)
(* The condition variable adds the fibers of m_wait_list.  Its invariant   *)
(* gives up where its code does: a wait that times out while the lock is   *)
(* taken steals it (stolen), and list code may leave its list (wild).      *)
(***************************************************************************)
EXTENDS ConditionVariable, UserSchedulerProofs

\* The program has one lock.
OneLock == \A l, m \in Locks : l = m

\* The places in the calls of a lock and of a condition variable, and those of them
\* where a fiber is at a lock that it does not hold.
Places == PC \cup {"waited", "signal", "broadcast"}
AtLock == {"exchange", "set_bit", "arbitrate", "recheck", "unlock"}

\* The lock belongs to f: f holds it, hands it over, or was woken with it, in Enter
\* or in the Wait of a condition variable.
Owns(f, l) ==
    \/ l \in held[f]
    \/ operand[f] = l /\ (pc[f] = "unlock" \/ (pc[f] = "recheck" /\ fiber_state[f] # "Waiting"))
    \/ pc[f] = "waited" /\ fiber_state[f] # "Waiting"

\* The word names who it belongs to, and who is at a lock holds nothing.
WordInv ==
    /\ m_handle \in [Locks -> Word] /\ lock_address \in [Fibers -> Locks \cup {NoLock}]
    /\ pc \in [Fibers -> Places] /\ operand \in [Fibers -> Locks \cup {NoLock}]
    /\ handle \in [Fibers -> Word] /\ held \in [Fibers -> SUBSET Locks]
    /\ \A f \in Fibers : pc[f] \in AtLock => operand[f] \in Locks /\ held[f] = {}
    /\ \A f \in Fibers, l \in Locks : Owns(f, l) => m_handle[l].owner = f

NobodySleeps == \A f \in Fibers : waitable_object[f] # "time"

\* No fiber hangs in ReleaseLockWaitListUnsafe, and a hand-over finds the lock that a
\* fiber waits for.
NoneHung ==
    /\ \A f \in Fibers : pc[f] # "hung"
    /\ \A f \in Fibers : fiber_state[f] = "Waiting" => lock_address[f] \in Locks

\* A fiber hangs there.
Stuck == \E c \in Cores : /\ m_scheduler_lock = c /\ phase[c] \in {"user", "boot"}
                          /\ running[c] \in Fibers /\ pc[running[c]] = "hung"

\* The inductive invariant of the lock.
LocksInv ==
    /\ WordInv /\ RunInv /\ phase \in [Cores -> Phase] /\ NobodySleeps
    /\ (KernelInv /\ NoneHung) \/ Stuck

\* f is in the list of the owner of the lock it waits for, whose word has the bit.
Behind(f) ==
    LET w == m_handle[lock_address[f]]
    IN  w.waiters /\ w.owner # NoFiber /\ f \in Elements(wait_list[w.owner])

\* Who waits is behind the owner of the lock, or in the scheduler's list.
WaitersInv == \A f \in Fibers : fiber_state[f] = "Waiting" => f \in Elements(m_wait_list) \/ Behind(f)
QueuedInv == WaitersInv \/ Stuck

\* What a step of a lock does to these.  A condition variable on top of the lock has
\* fibers in m_wait_list, which the steps of the lock leave alone.
LocksKept == LocksInv' /\ (QueuedInv => QueuedInv') /\ UNCHANGED m_wait_list

USE SchedulerAssumption, LocksAssumption

\* Who runs is Running.
LEMMA EntrantRuns ==
    ASSUME RunInv, NEW f \in Fibers, NEW c \in Cores, Runs(f, c)
    PROVE  fiber_state[f] = "Running" /\ running[c] = f /\ phase[c] \in {"user", "boot"}
  BY DEF Runs, RunInv, MayBe

-----------------------------------------------------------------------------
(* The steps of the fibers that need no lock. *)

\* A step of f in which the lock is nobody's but f's, or stays whose it is.
WordStep(f, l) ==
    /\ m_handle' \in [Locks -> Word] /\ lock_address' \in [Fibers -> Locks \cup {NoLock}]
    /\ pc' \in [Fibers -> Places] /\ operand' \in [Fibers -> Locks \cup {NoLock}]
    /\ handle' \in [Fibers -> Word] /\ held' \in [Fibers -> SUBSET Locks]
    /\ \A g \in Fibers \ {f} :
           /\ pc'[g] = pc[g] /\ operand'[g] = operand[g] /\ held'[g] = held[g]
           /\ fiber_state[g] = "Waiting" /\ fiber_state'[g] # "Waiting" => m_handle'[l].owner = g
    /\ pc'[f] \in AtLock => operand'[f] \in Locks /\ held'[f] = {}
    /\ Owns(f, l)' => m_handle'[l].owner = f
    /\ \/ m_handle'[l].owner = m_handle[l].owner
       \/ m_handle[l].owner \in {NoFiber, f}

LEMMA WordMoves ==
    ASSUME OneLock, WordInv, NEW f \in Fibers, NEW l \in Locks, WordStep(f, l)
    PROVE  WordInv'
  <1> USE DEF WordStep
  <1>1. \A m \in Locks : m = l
    BY DEF OneLock
  <1>2. \A g \in Fibers \ {f} : Owns(g, l)' => Owns(g, l) \/ m_handle'[l].owner = g
    BY DEF Owns
  <1>3. \A g \in Fibers \ {f} : Owns(g, l) => m_handle[l].owner = g /\ g # NoFiber
    BY DEF WordInv
  <1>4. \A g \in Fibers : Owns(g, l)' => m_handle'[l].owner = g
    BY <1>2, <1>3
  <1>5. \A g \in Fibers, m \in Locks : (Owns(g, m))' => m_handle'[m].owner = g
    <2> SUFFICES ASSUME NEW g \in Fibers, NEW m \in Locks, Owns(g, m)' PROVE m_handle'[m].owner = g
      OBVIOUS
    <2>1. m = l
      BY <1>1
    <2>2. Owns(g, l)'
      BY <2>1 DEF Owns
    <2> QED BY <2>1, <2>2, <1>4
  <1>6. \A g \in Fibers : pc'[g] \in AtLock => operand'[g] \in Locks /\ held'[g] = {}
    BY DEF WordInv
  <1> QED BY <1>5, <1>6 DEF WordInv

\* The waiters stay where they are while the word keeps its owner and its bit.
LEMMA WaitersStay ==
    ASSUME NoneHung, UNCHANGED <<fiber_state, wait_list, m_wait_list, lock_address>>,
           \A l \in Locks : m_handle[l].waiters =>
               m_handle'[l].waiters /\ m_handle'[l].owner = m_handle[l].owner
    PROVE  WaitersInv => WaitersInv'
  <1> SUFFICES ASSUME WaitersInv, NEW g \in Fibers, fiber_state'[g] = "Waiting"
               PROVE  g \in Elements(m_wait_list)' \/ Behind(g)'
    BY DEF WaitersInv
  <1>1. lock_address[g] \in Locks
    BY DEF NoneHung
  <1>2. Behind(g) => Behind(g)'
    BY <1>1 DEF Behind
  <1>3. g \in Elements(m_wait_list) => g \in Elements(m_wait_list)'
    OBVIOUS
  <1> QED BY <1>2, <1>3 DEF WaitersInv

\* The word stays behind its owner in the interlocked operations of Enter, TryEnter
\* and Leave.
LEMMA InterlockedKeepsWord ==
    ASSUME OneLock, WordInv, RunInv, NEW f \in Fibers, NEW c \in Cores,
           \/ \E l \in Locks : BeginEnter(f, c, l) \/ TryEnter(f, c, l) \/ Leave(f, c, l)
           \/ CompareExchange(f, c) \/ SetWaitersBit(f, c) \/ Recheck(f, c)
    PROVE  /\ WordInv' /\ UNCHANGED <<kernelVars, lock_address>>
           /\ \A g \in Fibers \ {f} : pc'[g] = pc[g]
           /\ pc[f] # "hung" /\ pc'[f] # "hung"
           /\ NoneHung /\ WaitersInv => WaitersInv'
  <1>0. /\ m_handle \in [Locks -> Word] /\ lock_address \in [Fibers -> Locks \cup {NoLock}]
        /\ pc \in [Fibers -> Places] /\ operand \in [Fibers -> Locks \cup {NoLock}]
        /\ handle \in [Fibers -> Word] /\ held \in [Fibers -> SUBSET Locks]
        /\ \A g \in Fibers : pc[g] \in AtLock => operand[g] \in Locks /\ held[g] = {}
        /\ \A g \in Fibers, l \in Locks : Owns(g, l) => m_handle[l].owner = g
    BY DEF WordInv
  <1>1. UNCHANGED <<kernelVars, lock_address>>
    BY DEF BeginEnter, TryEnter, Leave, CompareExchange, SetWaitersBit, Recheck
  <1>2. fiber_state[f] = "Running" /\ UNCHANGED <<fiber_state, wait_list, m_wait_list>>
    <2>1. Runs(f, c)
      BY DEF BeginEnter, TryEnter, Leave, CompareExchange, SetWaitersBit, Recheck, At
    <2> QED BY <2>1, <1>1, EntrantRuns DEF kernelVars
  <1>3. Unlocked \in Word /\ Tag(f) \in Word /\ NoFiber \notin Fibers
    BY DEF Unlocked, Tag, Word
  <1> DEFINE \* what is to be shown of the step, with l for the lock
             Moves(l) ==
                 /\ m_handle' \in [Locks -> Word] /\ pc' \in [Fibers -> Places]
                 /\ operand' \in [Fibers -> Locks \cup {NoLock}]
                 /\ handle' \in [Fibers -> Word] /\ held' \in [Fibers -> SUBSET Locks]
                 /\ \A g \in Fibers \ {f} : pc'[g] = pc[g] /\ operand'[g] = operand[g] /\ held'[g] = held[g]
                 /\ pc'[f] \in AtLock => operand'[f] \in Locks /\ held'[f] = {}
                 /\ Owns(f, l)' => m_handle'[l].owner = f
                 /\ \/ m_handle'[l].owner = m_handle[l].owner
                    \/ m_handle[l].owner \in {NoFiber, f}
                 /\ pc[f] # "hung" /\ pc'[f] # "hung"
                 /\ \A m \in Locks : m_handle[m].waiters =>
                        m_handle'[m].waiters /\ m_handle'[m].owner = m_handle[m].owner
             Goal == /\ WordInv' /\ (\A g \in Fibers \ {f} : pc'[g] = pc[g])
                     /\ pc[f] # "hung" /\ pc'[f] # "hung" /\ (NoneHung /\ WaitersInv => WaitersInv')
  <1>4. ASSUME NEW l \in Locks, Moves(l) PROVE Goal
    <2>1. WordStep(f, l)
      BY <1>0, <1>1, <1>2, <1>4 DEF WordStep
    <2>2. WordInv'
      BY <2>1, WordMoves
    <2>3. NoneHung /\ WaitersInv => WaitersInv'
      BY <1>1, <1>2, <1>4, WaitersStay
    <2> QED BY <1>4, <2>2, <2>3
  <1> SUFFICES Goal
    BY <1>1
  <1> HIDE DEF Goal
  <1>5. ASSUME NEW l \in Locks, BeginEnter(f, c, l) PROVE Goal
    <2>1. /\ pc[f] = "idle" /\ \A m \in held[f] : m < l
          /\ pc' = [pc EXCEPT ![f] = "exchange"] /\ operand' = [operand EXCEPT ![f] = l]
          /\ UNCHANGED <<m_handle, handle, held>>
      BY <1>5 DEF BeginEnter, At, Goto
    <2>2. held[f] = {}
      <3> SUFFICES ASSUME NEW m \in held[f] PROVE FALSE
        OBVIOUS
      <3>1. m \in Locks /\ m < l
        BY <1>0, <2>1
      <3>2. m = l
        BY <3>1 DEF OneLock
      <3>3. m \in Nat /\ m < m
        BY <3>1, <3>2
      <3> HIDE DEF Moves
      <3> QED BY ONLY <3>3
    <2>3. ~Owns(f, l)'
      BY <1>0, <2>1, <2>2 DEF Owns
    <2>4. Moves(l)
      BY <1>0, <2>1, <2>2, <2>3 DEF Places, PC, AtLock
    <2> QED BY <1>4, <2>4
  <1>6. ASSUME NEW l \in Locks, TryEnter(f, c, l) PROVE Goal
    <2>1. /\ pc[f] = "idle" /\ m_handle[l] = Unlocked
          /\ m_handle' = [m_handle EXCEPT ![l] = Tag(f)]
          /\ held' = [held EXCEPT ![f] = @ \cup {l}]
          /\ UNCHANGED <<pc, operand, handle>>
      BY <1>6 DEF TryEnter, At
    <2>2. m_handle'[l].owner = f /\ m_handle[l].owner = NoFiber /\ ~m_handle[l].waiters
      BY <1>0, <2>1 DEF Unlocked, Tag
    <2>3. m_handle' \in [Locks -> Word] /\ held' \in [Fibers -> SUBSET Locks] /\ pc'[f] \notin AtLock
      BY <1>0, <1>3, <2>1 DEF AtLock
    <2>4. Moves(l)
      BY <1>0, <2>1, <2>2, <2>3 DEF OneLock
    <2> HIDE DEF Moves
    <2> QED BY <1>4, <2>4
  <1>7. ASSUME NEW l \in Locks, Leave(f, c, l) PROVE Goal
    <2>1. /\ pc[f] = "idle" /\ l \in held[f] /\ held' = [held EXCEPT ![f] = @ \ {l}]
          /\ UNCHANGED handle
      BY <1>7 DEF Leave, At
    <2>2. m_handle[l].owner = f /\ held'[f] = {}
      BY <1>0, <2>1 DEF Owns, OneLock
    <2>3. CASE m_handle[l] = Tag(f)
      <3>1. m_handle' = [m_handle EXCEPT ![l] = Unlocked] /\ UNCHANGED <<pc, operand>>
        BY <1>7, <2>3 DEF Leave
      <3>2. ~Owns(f, l)'
        BY <1>0, <2>1, <2>2, <3>1 DEF Owns
      <3>3. Moves(l)
        BY <1>0, <1>3, <2>1, <2>2, <2>3, <3>1, <3>2 DEF OneLock, Tag
      <3> QED BY <1>4, <3>3
    <2>4. CASE m_handle[l] # Tag(f)
      <3>1. /\ pc' = [pc EXCEPT ![f] = "unlock"] /\ operand' = [operand EXCEPT ![f] = l]
            /\ UNCHANGED m_handle
        BY <1>7, <2>4 DEF Leave, Goto
      <3>2. Moves(l)
        BY <1>0, <2>1, <2>2, <3>1 DEF Places, PC, AtLock
      <3> QED BY <1>4, <3>2
    <2> QED BY <2>3, <2>4
  <1>8. CASE CompareExchange(f, c)
    <2> DEFINE l == operand[f]
    <2>1. pc[f] = "exchange" /\ l \in Locks /\ held[f] = {}
      BY <1>0, <1>8 DEF CompareExchange, At, AtLock
    <2>2. CASE m_handle[l] = Unlocked
      <3>1. /\ m_handle' = [m_handle EXCEPT ![l] = Tag(f)]
            /\ held' = [held EXCEPT ![f] = @ \cup {l}]
            /\ pc' = [pc EXCEPT ![f] = "idle"] /\ operand' = [operand EXCEPT ![f] = NoLock]
            /\ handle' = [handle EXCEPT ![f] = Unlocked]
        BY <1>8, <2>2 DEF CompareExchange, Return, Goto
      <3> HIDE DEF l
      <3>2. /\ m_handle' \in [Locks -> Word] /\ pc' \in [Fibers -> Places]
            /\ operand' \in [Fibers -> Locks \cup {NoLock}]
            /\ handle' \in [Fibers -> Word] /\ held' \in [Fibers -> SUBSET Locks]
        BY <1>0, <1>3, <2>1, <3>1 DEF Places, PC, AtLock
      <3>3. pc[f] # "hung" /\ pc'[f] = "idle" /\ pc'[f] \notin AtLock
        BY <1>0, <2>1, <3>1 DEF AtLock
      <3>4. m_handle'[l].owner = f /\ m_handle[l].owner = NoFiber /\ ~m_handle[l].waiters
        BY <1>0, <2>1, <2>2, <3>1 DEF Unlocked, Tag
      <3>5. Moves(l)
        BY <1>0, <2>1, <3>1, <3>2, <3>3, <3>4 DEF OneLock
      <3> HIDE DEF Moves
      <3> QED BY <1>4, <2>1, <3>5
    <2>3. CASE m_handle[l] # Unlocked
      <3>1. /\ handle' = [handle EXCEPT ![f] = m_handle[l]]
            /\ pc' = [pc EXCEPT ![f] = IF m_handle[l].waiters THEN "arbitrate" ELSE "set_bit"]
            /\ UNCHANGED <<m_handle, operand, held>>
        BY <1>8, <2>3 DEF CompareExchange, Goto
      <3>2. ~Owns(f, l)'
        BY <1>0, <2>1, <3>1 DEF Owns
      <3>3. handle' \in [Fibers -> Word] /\ pc' \in [Fibers -> Places]
        BY <1>0, <2>1, <3>1 DEF Places, PC, AtLock
      <3>4. pc[f] # "hung" /\ pc'[f] # "hung" /\ operand'[f] \in Locks /\ held'[f] = {}
        BY <1>0, <2>1, <3>1
      <3> HIDE DEF l
      <3>5. Moves(l)
        BY <1>0, <2>1, <3>1, <3>2, <3>3, <3>4
      <3> HIDE DEF Moves
      <3> QED BY <1>4, <2>1, <3>5
    <2> QED BY <2>2, <2>3
  <1>9. CASE SetWaitersBit(f, c)
    <2> DEFINE l == operand[f]
    <2>1. pc[f] = "set_bit" /\ l \in Locks /\ held[f] = {}
      BY <1>0, <1>9 DEF SetWaitersBit, At, AtLock
    <2>2. /\ m_handle' = [m_handle EXCEPT ![l] = [@ EXCEPT !.waiters = TRUE]]
          /\ pc' = [pc EXCEPT ![f] = IF m_handle[l] = handle[f] THEN "arbitrate" ELSE "exchange"]
          /\ UNCHANGED <<operand, handle, held>>
      BY <1>9 DEF SetWaitersBit, Goto, WithChildWaitersBit
    <2>3. ~Owns(f, l)'
      BY <1>0, <2>1, <2>2 DEF Owns
    <2>4. pc' \in [Fibers -> Places] /\ pc[f] # "hung" /\ pc'[f] # "hung" /\ operand'[f] \in Locks /\ held'[f] = {}
      BY <1>0, <2>1, <2>2 DEF Places, PC, AtLock
    <2> HIDE DEF l
    <2>5. m_handle' \in [Locks -> Word] /\ \A m \in Locks : m_handle'[m].owner = m_handle[m].owner
                                                       /\ (m_handle[m].waiters => m_handle'[m].waiters)
      <3>1. \A m \in Locks : m_handle[m] \in Word
        BY <1>0
      <3>2. \A m \in Locks : m_handle'[m] = IF m = l THEN [m_handle[l] EXCEPT !.waiters = TRUE] ELSE m_handle[m]
        BY <1>0, <2>1, <2>2
      <3>3. [m_handle[l] EXCEPT !.waiters = TRUE] \in Word
        BY <3>1, <2>1 DEF Word
      <3>4. /\ [m_handle[l] EXCEPT !.waiters = TRUE].owner = m_handle[l].owner
            /\ [m_handle[l] EXCEPT !.waiters = TRUE].waiters = TRUE
        BY <3>1, <2>1 DEF Word
      <3>5. m_handle' \in [Locks -> Word]
        BY <1>0, <2>1, <2>2, <3>3
      <3> HIDE DEF Moves
      <3> QED BY <3>2, <3>4, <3>5
    <2>6. Moves(l)
      BY <1>0, <2>1, <2>2, <2>3, <2>4, <2>5
    <2> HIDE DEF Moves, l
    <2> QED BY <1>4, <2>1, <2>6
  <1>10. CASE Recheck(f, c)
    <2> DEFINE l == operand[f]
    <2>1. pc[f] = "recheck" /\ l \in Locks /\ held[f] = {} /\ UNCHANGED m_handle
      BY <1>0, <1>10 DEF Recheck, At, AtLock
    <2>2. m_handle[l].owner = f
      BY <1>0, <1>2, <2>1 DEF Owns
    <2>3. /\ held' = [held EXCEPT ![f] = @ \cup {l}]
          /\ pc' = [pc EXCEPT ![f] = "idle"] /\ operand' = [operand EXCEPT ![f] = NoLock]
          /\ handle' = [handle EXCEPT ![f] = Unlocked]
      BY <1>10, <2>2 DEF Recheck, Return, Goto
    <2> HIDE DEF l
    <2>4. /\ pc' \in [Fibers -> Places] /\ operand' \in [Fibers -> Locks \cup {NoLock}]
          /\ handle' \in [Fibers -> Word] /\ held' \in [Fibers -> SUBSET Locks]
      BY <1>0, <1>3, <2>1, <2>3 DEF Places, PC, AtLock
    <2>5. pc[f] # "hung" /\ pc'[f] = "idle" /\ pc'[f] \notin AtLock
      BY <1>0, <2>1, <2>3 DEF AtLock
    <2>6. Moves(l)
      BY <1>0, <2>1, <2>2, <2>3, <2>4, <2>5
    <2> HIDE DEF Moves, l
    <2> QED BY <1>4, <2>1, <2>6
  <1> QED BY <1>5, <1>6, <1>7, <1>8, <1>9, <1>10

-----------------------------------------------------------------------------
(* The scheduler below the lock. *)

\* No step of the loop touches the waiters of a lock: it ends sleeps only.
LEMMA SchedulerSparesWaiters ==
    ASSUME KernelInv, NobodySleeps, NEW c \in Cores, SchedulerStep(c)
    PROVE  /\ UNCHANGED <<wait_list, m_wait_list, waitable_object>>
           /\ \A g \in Fibers : fiber_state'[g] = "Waiting" <=> fiber_state[g] = "Waiting"
  <1>1. fiber_state \in [Fibers -> FiberState] /\ m_wait_list \in Seq(Fibers)
    BY DEF KernelInv, FieldsInv, ParkInv
  <1> DEFINE Spares == \A g \in Fibers : fiber_state'[g] = "Waiting" <=> fiber_state[g] = "Waiting"
  <1>2. ASSUME NEW f \in Fibers, NEW st \in FiberState, fiber_state' = [fiber_state EXCEPT ![f] = st],
               fiber_state[f] # "Waiting", st # "Waiting"
        PROVE  Spares
    BY <1>1, <1>2
  <1>3. UNCHANGED fiber_state => Spares
    OBVIOUS
  <1>4. \A f \in Fibers : ~CancelSleep(c, f)
    BY DEF CancelSleep, NobodySleeps
  <1>5. UNCHANGED <<wait_list, m_wait_list, waitable_object>>
    BY <1>4, SchedulerStepWaits
  <1> SUFFICES Spares
    BY <1>5
  <1> HIDE DEF Spares
  <1>6. CASE BootScheduler(c)
    <2>1. /\ MainFiber \in Fibers
          /\ Reschedule(MainFiber, activity_level, priority)
      BY <1>6 DEF BootScheduler
    <2>2. CASE UNCHANGED fiber_state
      BY <2>2, <1>3
    <2>3. CASE ~UNCHANGED fiber_state
      <3>1. fiber_state[MainFiber] # "Waiting"
        BY <2>1, <2>3 DEF Reschedule, readyVars
      <3>2. \/ fiber_state' = [fiber_state EXCEPT ![MainFiber] = "Suspended"]
            \/ fiber_state' = [fiber_state EXCEPT ![MainFiber] = "Scheduled"]
        BY <2>1, <3>1 DEF Reschedule
      <3> QED BY <1>2, <3>1, <3>2 DEF FiberState
    <2> QED BY <2>2, <2>3
  <1>7. CASE PostDispatch(c)
    <2> DEFINE f == running[c]
    <2>1. f \in Fibers /\ fiber_state[f] \in {"Running", "Exiting", "Waiting"}
      BY <1>7 DEF PostDispatch, KernelInv, RunInv, MayBe
    <2>2. CASE fiber_state[f] = "Running"
      <3>1. AddToSchedulerUnsafe(<<f>>) /\ UNCHANGED priority
        BY <1>7, <2>2 DEF PostDispatch, fiberVars
      <3>2. <<f>> \in Seq(Fibers) /\ Elements(<<f>>) = {f} /\ Once(<<f>>)
        BY <2>1, ListOfOne
      <3>3. Elements(<<f>>) \cap Ready = {}
        BY <2>2, <3>2 DEF Ready
      <3>4. \A g \in Fibers : fiber_state'[g] =
                IF g \notin Elements(<<f>>) THEN fiber_state[g]
                ELSE IF activity_level[g] = "Schedulable" THEN "Scheduled" ELSE "Suspended"
        BY <3>1, <3>2, <3>3, AddedToScheduler DEF KernelInv
      <3> QED BY <2>1, <2>2, <3>2, <3>4 DEF Spares
    <2>3. CASE fiber_state[f] # "Running"
      <3>1. fiber_state' = [fiber_state EXCEPT ![f] = IF @ = "Exiting" THEN "Unallocated" ELSE @]
        BY <1>7, <2>3 DEF PostDispatch
      <3> QED BY <1>1, <2>1, <3>1 DEF Spares
    <2> QED BY <2>2, <2>3
  <1>8. CASE ScheduleLocal(c)
    <2>1. Head(local_ring[c]) \in Ready
      <3>1. local_ring[c] \in Seq(Fibers) /\ local_ring[c] # <<>>
        BY <1>8 DEF ScheduleLocal, KernelInv, RingInv
      <3>2. Head(local_ring[c]) \in Elements(local_ring[c])
        BY <3>1, ListTail
      <3> QED BY <3>2 DEF KernelInv, RingInv, Ready
    <2> QED BY <1>2, <1>8, <2>1 DEF ScheduleLocal, Dispatch, Ready, FiberState
  <1>9. CASE ScheduleFromQueue(c) \/ DelegateToRing(c)
    <2>1. Peek(m_thread_queue) \in Ready
      <3>1. m_thread_queue # <<>>
        BY <1>9 DEF ScheduleFromQueue, DelegateToRing
      <3> QED BY <3>1, FrontOfQueue DEF KernelInv, Ready
    <2> QED BY <1>2, <1>9, <2>1 DEF ScheduleFromQueue, DelegateToRing, Dispatch, Ready, FiberState
  <1>10. CASE StartCore(c) \/ FallBackToQueue(c) \/ Rest(c) \/ WaitOnRunnable(c) \/ WakeCore(c)
               \/ SkipRest(c) \/ RestTimeout(c)
    BY <1>3, <1>10 DEF StartCore, FallBackToQueue, Rest, WaitOnRunnable, WakeCore, SkipRest,
                       RestTimeout, readyVars
  <1> QED BY <1>4, <1>6, <1>7, <1>8, <1>9, <1>10 DEF SchedulerStep

\* The word and the waiters are the same after a step that moves no waiter.
LEMMA SparedWaiters ==
    ASSUME UNCHANGED <<lockVars, wait_list, m_wait_list>>,
           \A g \in Fibers : fiber_state'[g] = "Waiting" <=> fiber_state[g] = "Waiting"
    PROVE  /\ WordInv => WordInv'
           /\ NoneHung => NoneHung'
           /\ WaitersInv => WaitersInv'
  <1>1. UNCHANGED <<m_handle, lock_address, pc, operand, handle, held>>
    BY DEF lockVars
  <1>2. \A g \in Fibers, l \in Locks : Owns(g, l)' <=> Owns(g, l)
    BY <1>1 DEF Owns
  <1>3. WordInv => WordInv'
    BY <1>1, <1>2 DEF WordInv
  <1>4. \A g \in Fibers : Behind(g)' <=> Behind(g)
    BY <1>1 DEF Behind
  <1>5. WaitersInv => WaitersInv'
    BY <1>4 DEF WaitersInv
  <1> QED BY <1>1, <1>3, <1>5 DEF NoneHung

\* While a fiber hangs with m_scheduler_lock, the cores do nothing but go to sleep
\* and wake up.
LEMMA StuckStays ==
    ASSUME Stuck, RunInv, phase \in [Cores -> Phase], NEW c \in Cores, SchedulerStep(c), UNCHANGED lockVars
    PROVE  Stuck' /\ RunInv' /\ phase' \in [Cores -> Phase]
           /\ UNCHANGED <<fiber_state, wait_list, m_wait_list, waitable_object>>
  <1>1. PICK d \in Cores : /\ m_scheduler_lock = d /\ phase[d] \in {"user", "boot"}
                           /\ running[d] \in Fibers /\ pc[running[d]] = "hung"
    BY DEF Stuck
  <1>2. d # NoCore /\ ~LockFree
    BY <1>1 DEF LockFree
  <1>3. WaitOnRunnable(c) \/ RestTimeout(c)
    <2>1. Schedules(c) => phase[c] \in {"user", "boot"}
      BY <1>1 DEF Schedules
    <2>2. ~(BootScheduler(c) \/ PostDispatch(c) \/ (\E f \in Fibers : CancelSleep(c, f)) \/ ScheduleLocal(c)
            \/ FallBackToQueue(c) \/ ScheduleFromQueue(c) \/ DelegateToRing(c) \/ Rest(c))
      BY <2>1 DEF BootScheduler, PostDispatch, CancelSleep, ScheduleLocal, FallBackToQueue,
                  ScheduleFromQueue, DelegateToRing, Rest
    <2>3. ~(StartCore(c) \/ WakeCore(c) \/ SkipRest(c))
      BY <1>2 DEF StartCore, WakeCore, SkipRest
    <2> QED BY <2>2, <2>3 DEF SchedulerStep
  <1>4. /\ UNCHANGED <<fiber_state, wait_list, m_wait_list, waitable_object, current_core,
                       m_scheduler_lock, running, pc>>
        /\ \/ phase[c] = "rest" /\ phase' = [phase EXCEPT ![c] = "resting"]
           \/ UNCHANGED phase
    BY <1>3 DEF WaitOnRunnable, RestTimeout, lockVars, waitVars
  <1>5. Stuck'
    BY <1>1, <1>4 DEF Stuck
  <1>6. phase' \in [Cores -> Phase]
    BY <1>4 DEF Phase
  <1>7. RunInv'
    <2>1. \A e \in Cores : phase'[e] = phase[e] \/ (phase[e] = "rest" /\ phase'[e] = "resting")
      BY <1>4
    <2>2. \A e \in Cores : running[e] # NoFiber => phase'[e] = phase[e]
      BY <2>1 DEF RunInv
    <2>3. \A e \in Cores : /\ phase'[e] \in {"boot", "booted", "user", "switched"}
                                  <=> phase[e] \in {"boot", "booted", "user", "switched"}
                           /\ phase'[e] \in {"boot", "booted"} <=> phase[e] \in {"boot", "booted"}
      BY <2>1
    <2> QED BY <1>4, <2>2, <2>3 DEF RunInv
  <1> QED BY <1>4, <1>5, <1>6, <1>7

\* What a step keeps in which nobody hangs.
LEMMA LocksAreKept ==
    ASSUME KernelInv', WordInv', NoneHung', NobodySleeps', UNCHANGED m_wait_list,
           ~Stuck, WaitersInv => WaitersInv'
    PROVE  LocksKept
  BY DEF LocksKept, LocksInv, QueuedInv, KernelInv, LockInv

\* The scheduler loop keeps the invariant.
LEMMA SchedulerKeepsLocks ==
    ASSUME LocksInv, NEW c \in Cores, SchedulerStep(c), UNCHANGED lockVars
    PROVE  LocksKept
  <1>1. CASE Stuck
    <2>1. /\ Stuck' /\ RunInv' /\ phase' \in [Cores -> Phase]
          /\ UNCHANGED <<fiber_state, wait_list, m_wait_list, waitable_object>>
      BY <1>1, StuckStays DEF LocksInv
    <2>2. WordInv'
      BY <2>1, SparedWaiters DEF LocksInv
    <2> QED BY <2>1, <2>2 DEF LocksInv, LocksKept, QueuedInv, NobodySleeps
  <1>2. CASE ~Stuck
    <2>1. KernelInv /\ NoneHung /\ WordInv /\ NobodySleeps
      BY <1>2 DEF LocksInv
    <2>2. KernelInv'
      BY <2>1, SchedulerStepKeeps
    <2>3. /\ UNCHANGED <<wait_list, m_wait_list, waitable_object>>
          /\ \A g \in Fibers : fiber_state'[g] = "Waiting" <=> fiber_state[g] = "Waiting"
      BY <2>1, SchedulerSparesWaiters
    <2>4. WordInv' /\ NoneHung' /\ (WaitersInv => WaitersInv')
      BY <2>1, <2>3, SparedWaiters
    <2>5. NobodySleeps'
      BY <2>1, <2>3 DEF NobodySleeps
    <2> QED BY <1>2, <2>2, <2>3, <2>4, <2>5, LocksAreKept
  <1> QED BY <1>1, <1>2

-----------------------------------------------------------------------------
(* The steps of the fibers that take m_scheduler_lock. *)

\* Where fibers are in user code, none hangs while the lock is free.
LEMMA FreeIsNotStuck ==
    ASSUME LocksInv, LockFree
    PROVE  KernelInv /\ NoneHung /\ WordInv /\ NobodySleeps /\ ~Stuck
  BY DEF LocksInv, Stuck, LockFree

\* A step that leaves the scheduler alone keeps the invariant if the word stays
\* behind its owner.
LEMMA UserStepKeepsLocks ==
    ASSUME LocksInv, NEW f \in Fibers, UNCHANGED <<kernelVars, lock_address>>, WordInv',
           \A g \in Fibers \ {f} : pc'[g] = pc[g], pc[f] # "hung", pc'[f] # "hung",
           NoneHung /\ WaitersInv => WaitersInv'
    PROVE  LocksKept
  <1>1. UNCHANGED <<fiber_state, current_core, m_scheduler_lock, phase, running, m_wait_list,
                    waitable_object>>
    BY DEF kernelVars
  <1>2. RunInv' /\ phase' \in [Cores -> Phase] /\ NobodySleeps'
    BY <1>1, RunKept DEF LocksInv, NobodySleeps
  <1>3. Stuck => Stuck'
    BY <1>1 DEF Stuck
  <1>4. KernelInv => KernelInv'
    BY KernelStutter
  <1>5. NoneHung => NoneHung'
    BY <1>1 DEF NoneHung
  <1> QED BY <1>1, <1>2, <1>3, <1>4, <1>5 DEF LocksInv, LocksKept, QueuedInv

\* A step that takes no lock keeps the invariant.
LEMMA InterlockedKeepsLocks ==
    ASSUME OneLock, LocksInv, NEW f \in Fibers, NEW c \in Cores,
           \/ \E l \in Locks : BeginEnter(f, c, l) \/ TryEnter(f, c, l) \/ Leave(f, c, l)
           \/ CompareExchange(f, c) \/ SetWaitersBit(f, c) \/ Recheck(f, c)
    PROVE  LocksKept
  <1>1. WordInv /\ RunInv
    BY DEF LocksInv
  <1> QED BY <1>1, InterlockedKeepsWord, UserStepKeepsLocks

\* A system call that fails and aborts changes nothing else.
LEMMA AbortKeepsLocks ==
    ASSUME LocksInv, LockFree,
           UNCHANGED <<fiberVars, waitVars, readyVars, restVars, current_core, local_ring,
                       m_scheduler_lock, phase, running, lockVars>>
    PROVE  LocksKept
  <1>1. KernelInv /\ NoneHung /\ WordInv /\ NobodySleeps /\ ~Stuck
    BY FreeIsNotStuck
  <1>2. UNCHANGED <<fiber_state, wait_list, m_wait_list, waitable_object>>
    BY DEF waitVars, readyVars
  <1>3. KernelInv'
    BY <1>1, KernelAborts
  <1>4. WordInv' /\ NoneHung' /\ (WaitersInv => WaitersInv')
    BY <1>1, <1>2, SparedWaiters
  <1> QED BY <1>1, <1>2, <1>3, <1>4, LocksAreKept DEF NobodySleeps

\* YieldThread keeps the invariant.
LEMMA YieldKeepsLocks ==
    ASSUME LocksInv, NEW f \in Fibers, NEW c \in Cores, Yield(f, c)
    PROVE  LocksKept
  <1>1. YieldThread(f, c) /\ UNCHANGED lockVars /\ LockFree
    BY DEF Yield, YieldThread
  <1>2. KernelInv /\ NoneHung /\ WordInv /\ NobodySleeps /\ ~Stuck
    BY <1>1, FreeIsNotStuck
  <1>3. KernelInv'
    BY <1>1, <1>2, YieldKeeps
  <1>4. UNCHANGED <<fiber_state, wait_list, m_wait_list, waitable_object>>
    BY <1>1 DEF YieldThread, waitVars, readyVars
  <1>5. WordInv' /\ NoneHung' /\ (WaitersInv => WaitersInv')
    BY <1>1, <1>2, <1>4, SparedWaiters
  <1> QED BY <1>2, <1>3, <1>4, <1>5, LocksAreKept DEF NobodySleeps

\* ArbitrateLockImpl keeps it: the caller joins the list of the fiber that the word
\* names, which the comparison under m_scheduler_lock makes sure of.
LEMMA ArbitrateLockKeepsLocks ==
    ASSUME OneLock, LocksInv, NEW f \in Fibers, NEW c \in Cores, ArbitrateLock(f, c)
    PROVE  LocksKept
  <1> DEFINE owner == handle[f].owner
  <1>1. /\ Runs(f, c) /\ pc[f] = "arbitrate" /\ LockFree
        /\ UNCHANGED <<fiberVars, last_result, m_wait_list, m_thread_queue, m_runnable_fibers, asleep,
                       restVars, current_core, local_ring, running, m_handle, operand, handle, held>>
    BY DEF ArbitrateLock, At
  <1>2. KernelInv /\ NoneHung /\ WordInv /\ NobodySleeps /\ ~Stuck
    BY <1>1, FreeIsNotStuck
  <1>3. fiber_state[f] = "Running" /\ operand[f] \in Locks /\ held[f] = {}
    BY <1>1, <1>2, EntrantRuns DEF KernelInv, WordInv, AtLock
  <1>4. PICK l \in Locks : l = operand[f]
    BY <1>3
  <1>5. CASE owner \in {NoFiber, f} \/ m_handle[l] # WithChildWaitersBit(Tag(owner))
    <2>1. UNCHANGED <<fiber_state, waitable_object, timeout, wait_list, m_scheduler_lock, phase,
                      lock_address, pc>>
      BY <1>5, <1>4 DEF ArbitrateLock
    <2>2. UNCHANGED waitVars /\ UNCHANGED readyVars /\ UNCHANGED lockVars
      BY <1>1, <2>1 DEF waitVars, readyVars, lockVars
    <2> QED BY <1>1, <2>1, <2>2, AbortKeepsLocks
  <1>6. CASE ~(owner \in {NoFiber, f} \/ m_handle[l] # WithChildWaitersBit(Tag(owner)))
    <2>1. /\ fiber_state' = [fiber_state EXCEPT ![f] = "Waiting"]
          /\ waitable_object' = [waitable_object EXCEPT ![f] = "lock"]
          /\ timeout' = [timeout EXCEPT ![f] = "never"]
          /\ lock_address' = [lock_address EXCEPT ![f] = l]
          /\ wait_list' = [wait_list EXCEPT ![owner] = Append(@, f)]
          /\ SwitchToScheduler(c)
          /\ pc' = [pc EXCEPT ![f] = "recheck"]
      BY <1>6, <1>4 DEF ArbitrateLock, JoinWaitList, Goto
    <2>2. /\ owner \in Fibers \ {f} /\ m_handle[l].owner = owner /\ m_handle[l].waiters
      <3>1. m_handle[l] = [owner |-> owner, waiters |-> TRUE] /\ owner \notin {NoFiber, f}
        BY <1>6 DEF WithChildWaitersBit, Tag
      <3>2. m_handle[l] \in Word
        BY <1>2 DEF WordInv
      <3> HIDE DEF owner
      <3> QED BY <3>1, <3>2 DEF Word
    <2> HIDE DEF owner
    <2>3. fiber_state' \in [Fibers -> FiberState] /\ fiber_state'[f] = "Waiting"
          /\ \A g \in Fibers \ {f} : fiber_state'[g] = fiber_state[g]
      BY <1>2, <2>1 DEF KernelInv, FieldsInv, FiberState
    <2>4. QueueInv' /\ RingInv' /\ RunInv' /\ LockInv' /\ CountInv' /\ RestInv'
      BY <1>1, <1>2, <2>1, <2>3, CallKeeps
    <2>5. ParkInv'
      BY <1>1, <1>2, <1>3, <2>1, <2>2, <2>3, ParkEntered DEF KernelInv
    <2>6. FieldsInv'
      <3>1. waitable_object' \in [Fibers -> WaitableObjects] /\ timeout' \in [Fibers -> TimeoutValues]
        BY <1>2, <2>1 DEF KernelInv, FieldsInv, WaitableObjects, TimeoutValues
      <3>2. \A g \in Fibers : fiber_state[g] = "Unallocated" => fiber_state'[g] = "Unallocated"
        BY <1>3, <2>3
      <3>3. /\ FieldsInv /\ current_core' \in [Fibers -> Cores]
            /\ last_result' \in [Fibers -> {"Success", "Timeout"}]
        BY <1>1, <1>2 DEF KernelInv, FieldsInv
      <3> QED BY <1>1, <2>3, <3>1, <3>2, <3>3, FieldsKept
    <2>7. KernelInv'
      BY <2>4, <2>5, <2>6 DEF KernelInv
    <2>8. /\ \A g \in Fibers : pc'[g] = IF g = f THEN "recheck" ELSE pc[g]
          /\ \A g \in Fibers : lock_address'[g] = IF g = f THEN l ELSE lock_address[g]
          /\ pc' \in [Fibers -> Places] /\ lock_address' \in [Fibers -> Locks \cup {NoLock}]
      BY <1>2, <2>1 DEF WordInv, Places, PC
    <2>9. WordInv'
      <3>1. operand'[f] \in Locks /\ held'[f] = {}
        BY <1>1, <1>3
      <3>2. ~Owns(f, l)'
        BY <2>3, <2>8, <3>1 DEF Owns
      <3>3. \A g \in Fibers \ {f} :
               /\ pc'[g] = pc[g] /\ operand'[g] = operand[g] /\ held'[g] = held[g]
               /\ fiber_state'[g] = fiber_state[g]
        BY <1>1, <2>3, <2>8
      <3>4. /\ m_handle' \in [Locks -> Word] /\ operand' \in [Fibers -> Locks \cup {NoLock}]
            /\ handle' \in [Fibers -> Word] /\ held' \in [Fibers -> SUBSET Locks]
            /\ m_handle'[l].owner = m_handle[l].owner
        BY <1>1, <1>2 DEF WordInv
      <3>5. WordStep(f, l)
        BY <1>2, <2>8, <3>1, <3>2, <3>3, <3>4 DEF WordStep
      <3> QED BY <1>2, <3>5, WordMoves
    <2>10. WaitersInv => WaitersInv'
      <3> SUFFICES ASSUME WaitersInv, NEW g \in Fibers, fiber_state'[g] = "Waiting"
                   PROVE  g \in Elements(m_wait_list)' \/ Behind(g)'
        BY DEF WaitersInv
      <3>1. /\ wait_list'[owner] = Append(wait_list[owner], f) /\ wait_list[owner] \in Seq(Fibers)
            /\ \A h \in Fibers \ {owner} : wait_list'[h] = wait_list[h]
        BY <1>2, <2>1, <2>2 DEF KernelInv, ParkInv
      <3>2. /\ \A h \in Fibers : Elements(wait_list[h]) \subseteq Elements(wait_list'[h])
            /\ f \in Elements(wait_list'[owner])
        <4>1. Elements(wait_list'[owner]) = Elements(wait_list[owner]) \cup {f}
          BY <3>1, <2>2, ListAppend
        <4>2. \A h \in Fibers \ {owner} : Elements(wait_list'[h]) = Elements(wait_list[h])
          BY <3>1
        <4> QED BY <4>1, <4>2
      <3>3. CASE g = f
        <4>1. Behind(f)'
          BY <1>1, <2>2, <2>8, <3>2 DEF Behind
        <4> QED BY <3>3, <4>1
      <3>4. CASE g # f
        <4>1. fiber_state[g] = "Waiting" /\ lock_address[g] \in Locks /\ lock_address'[g] = lock_address[g]
          BY <1>2, <2>3, <2>8, <3>4 DEF NoneHung
        <4>2. CASE Behind(g)
          <5>1. m_handle[lock_address[g]].owner \in Fibers
            BY <1>2, <4>1, <4>2 DEF Behind, WordInv, Word
          <5>2. Behind(g)'
            BY <1>1, <3>2, <4>1, <4>2, <5>1 DEF Behind
          <5> QED BY <5>2
        <4>3. CASE g \in Elements(m_wait_list)
          BY <1>1, <4>3
        <4> QED BY <4>1, <4>2, <4>3 DEF WaitersInv
      <3> QED BY <3>3, <3>4
    <2>11. NoneHung'
      BY <1>2, <2>3, <2>8 DEF NoneHung
    <2>12. NobodySleeps'
      BY <1>2, <2>1 DEF NobodySleeps
    <2> QED BY <1>1, <1>2, <2>7, <2>9, <2>10, <2>11, <2>12, LocksAreKept
  <1> QED BY <1>5, <1>6

\* Whoever is behind f waits for the lock: the head of f's list, which a hand-over
\* goes to.
LEMMA NextOwner ==
    ASSUME OneLock, KernelInv, NoneHung, NEW f \in Fibers, wait_list[f] # <<>>, NEW l \in Locks
    PROVE  /\ Head(wait_list[f]) \in Fibers /\ Tail(wait_list[f]) \in Seq(Fibers)
           /\ Head(wait_list[f]) \in Elements(wait_list[f])
           /\ Tail(wait_list[f]) = <<>> => Elements(wait_list[f]) = {Head(wait_list[f])}
           /\ fiber_state[Head(wait_list[f])] = "Waiting" /\ lock_address[Head(wait_list[f])] = l
  <1>1. wait_list[f] \in Seq(Fibers)
    BY DEF KernelInv, ParkInv
  <1>2. /\ Head(wait_list[f]) \in Fibers /\ Tail(wait_list[f]) \in Seq(Fibers)
        /\ Elements(wait_list[f]) = Elements(Tail(wait_list[f])) \cup {Head(wait_list[f])}
    BY <1>1, ListTail
  <1>3. fiber_state[Head(wait_list[f])] = "Waiting"
    BY <1>2 DEF KernelInv, ParkInv, Parked
  <1>4. lock_address[Head(wait_list[f])] = l
    BY <1>2, <1>3 DEF NoneHung, OneLock
  <1> QED BY <1>2, <1>3, <1>4, EmptyList

\* ReleaseLockWaitListUnsafe with one waiter: it is woken with the lock, and no other
\* waiter is left behind the fiber that leaves.
LEMMA HandOverKeepsLocks ==
    ASSUME OneLock, LocksInv, NEW f \in Fibers, NEW c \in Cores, ArbitrateUnlock(f, c),
           wait_list[f] # <<>>, Tail(wait_list[f]) = <<>>,
           m_handle[operand[f]] = WithChildWaitersBit(Tag(f))
    PROVE  LocksKept
  <1>1. /\ Runs(f, c) /\ pc[f] = "unlock" /\ LockFree
        /\ ReleaseLockWaitListUnsafe(f, c)
        /\ UNCHANGED <<fiberVars, m_wait_list, restVars, current_core, local_ring, phase, running, held>>
    BY DEF ArbitrateUnlock, At
  <1>2. KernelInv /\ NoneHung /\ WordInv /\ NobodySleeps /\ ~Stuck
    BY <1>1, FreeIsNotStuck
  <1>3. /\ fiber_state[f] = "Running" /\ operand[f] \in Locks /\ held[f] = {}
        /\ wait_list \in [Fibers -> Seq(Fibers)]
    BY <1>1, <1>2, EntrantRuns DEF KernelInv, WordInv, ParkInv, AtLock
  <1>4. PICK l \in Locks : l = operand[f]
    BY <1>3
  <1>5. PICK n \in Fibers : /\ n = Head(wait_list[f]) /\ Elements(wait_list[f]) = {n}
                            /\ fiber_state[n] = "Waiting" /\ lock_address[n] = l
    BY <1>2, NextOwner
  <1>6. n # f
    BY <1>3, <1>5
  <1>7. m_handle[l] = [owner |-> f, waiters |-> TRUE]
    BY <1>4 DEF WithChildWaitersBit, Tag
  <1>8. /\ m_handle' = [m_handle EXCEPT ![l] = [owner |-> n, waiters |-> FALSE]]
        /\ lock_address' = [lock_address EXCEPT ![n] = NoLock]
        /\ wait_list' = [wait_list EXCEPT ![f] = <<>>]
        /\ waitable_object' = [waitable_object EXCEPT ![n] = "none"]
        /\ EndFiberWaitImpl(<<n>>, "Success")
        /\ UNCHANGED m_scheduler_lock
        /\ pc' = [pc EXCEPT ![f] = "idle"] /\ operand' = [operand EXCEPT ![f] = NoLock]
        /\ handle' = [handle EXCEPT ![f] = Unlocked]
    BY <1>1, <1>5 DEF ReleaseLockWaitListUnsafe, Return, Goto
  <1>9. <<n>> \in Seq(Fibers) /\ Elements(<<n>>) = {n} /\ Once(<<n>>)
    BY ListOfOne
  <1>10. /\ FieldsInv' /\ QueueInv' /\ RingInv' /\ RunInv' /\ LockInv' /\ CountInv' /\ RestInv'
         /\ \A g \in Fibers : fiber_state'[g] =
               IF g \notin Elements(<<n>>) THEN fiber_state[g]
               ELSE IF activity_level[g] = "Schedulable" THEN "Scheduled" ELSE "Suspended"
    <2>1. waitable_object' \in [Fibers -> WaitableObjects]
      BY <1>2, <1>8 DEF KernelInv, FieldsInv, WaitableObjects
    <2>2. \A d \in Cores : phase[d] \notin {"booted", "switched"}
      BY <1>1, <1>2, OneSchedules DEF KernelInv
    <2>3. \A g \in Elements(<<n>>) : fiber_state[g] = "Waiting"
      BY <1>5, <1>9
    <2> QED BY <1>1, <1>2, <1>8, <1>9, <2>1, <2>2, <2>3, WaitEnded
  <1>11. /\ fiber_state'[n] # "Waiting"
         /\ \A g \in Fibers \ {n} : fiber_state'[g] = fiber_state[g]
    BY <1>9, <1>10
  <1>12. KernelInv'
    <2>1. /\ \A g \in Elements(wait_list[f]) : fiber_state'[g] # "Waiting"
          /\ \A g \in Fibers \ Elements(wait_list[f]) :
                fiber_state'[g] = "Waiting" <=> fiber_state[g] = "Waiting"
      BY <1>5, <1>11
    <2>2. ParkInv'
      BY <1>1, <1>2, <1>8, <2>1, ListEmptied DEF KernelInv
    <2> QED BY <1>10, <2>2 DEF KernelInv
  <1>13. /\ \A g \in Fibers : pc'[g] = IF g = f THEN "idle" ELSE pc[g]
         /\ \A g \in Fibers : lock_address'[g] = IF g = n THEN NoLock ELSE lock_address[g]
         /\ \A g \in Fibers \ {f} : operand'[g] = operand[g]
         /\ m_handle'[l].owner = n /\ m_handle[l].owner = f
    BY <1>2, <1>7, <1>8 DEF WordInv
  <1>14. WordInv'
    <2>1. /\ m_handle' \in [Locks -> Word] /\ lock_address' \in [Fibers -> Locks \cup {NoLock}]
          /\ pc' \in [Fibers -> Places] /\ operand' \in [Fibers -> Locks \cup {NoLock}]
          /\ handle' \in [Fibers -> Word] /\ held' \in [Fibers -> SUBSET Locks]
      BY <1>1, <1>2, <1>8 DEF WordInv, Word, Unlocked, Places, PC
    <2>2. pc'[f] = "idle" /\ held'[f] = {}
      BY <1>1, <1>3, <1>13
    <2>3. ~Owns(f, l)' /\ pc'[f] \notin AtLock
      BY <2>2 DEF Owns, AtLock
    <2>4. \A g \in Fibers \ {f} :
              /\ pc'[g] = pc[g] /\ operand'[g] = operand[g] /\ held'[g] = held[g]
              /\ fiber_state[g] = "Waiting" /\ fiber_state'[g] # "Waiting" => m_handle'[l].owner = g
      BY <1>1, <1>11, <1>13
    <2>5. WordStep(f, l)
      BY <1>2, <1>13, <2>1, <2>3, <2>4 DEF WordStep
    <2> QED BY <1>2, <2>5, WordMoves
  <1>15. WaitersInv => WaitersInv'
    <2> SUFFICES ASSUME WaitersInv, NEW g \in Fibers, fiber_state'[g] = "Waiting"
                 PROVE  g \in Elements(m_wait_list)'
      BY DEF WaitersInv
    <2>1. g # n /\ fiber_state[g] = "Waiting"
      BY <1>11
    <2>2. lock_address[g] = l
      BY <1>2, <2>1 DEF NoneHung, OneLock
    <2>3. ~Behind(g)
      BY <1>5, <1>13, <2>1, <2>2 DEF Behind
    <2> QED BY <1>1, <2>1, <2>3 DEF WaitersInv
  <1>16. NoneHung'
    <2>1. \A g \in Fibers : fiber_state'[g] = "Waiting" => g # n /\ fiber_state[g] = "Waiting"
      BY <1>11
    <2> QED BY <1>2, <1>13, <2>1 DEF NoneHung
  <1>17. NobodySleeps'
    BY <1>2, <1>8 DEF NobodySleeps
  <1> QED BY <1>1, <1>2, <1>12, <1>14, <1>15, <1>16, <1>17, LocksAreKept

\* ReleaseLockWaitListUnsafe with two waiters or more, in which the fiber hangs: the
\* word names a waiter, which nobody wakes.
LEMMA HangKeepsLocks ==
    ASSUME OneLock, LocksInv, NEW f \in Fibers, NEW c \in Cores, Runs(f, c), LockFree,
           ReleaseLockWaitListUnsafe(f, c), held'[f] = {},
           \A g \in Fibers \ {f} : held'[g] = held[g], held' \in [Fibers -> SUBSET Locks],
           NEW l \in Locks, m_handle[l].owner = f,
           wait_list[f] # <<>>, Tail(wait_list[f]) # <<>>,
           UNCHANGED <<m_wait_list, current_core, phase, running>>
    PROVE  LocksKept
  <1>1. KernelInv /\ NoneHung /\ WordInv /\ NobodySleeps /\ ~Stuck
    BY FreeIsNotStuck
  <1>2. fiber_state[f] = "Running" /\ running[c] = f /\ phase[c] \in {"user", "boot"}
    <2>1. RunInv
      BY <1>1 DEF KernelInv
    <2> QED BY <2>1 DEF Runs, RunInv, MayBe
  <1>3. PICK n \in Fibers : n = Head(wait_list[f]) /\ lock_address[n] = l
    <2>1. Head(wait_list[f]) \in Fibers /\ lock_address[Head(wait_list[f])] = l
      BY <1>1, NextOwner
    <2> QED BY <2>1
  <1>4. /\ m_handle' = [m_handle EXCEPT ![l] = [owner |-> n, waiters |-> TRUE]]
        /\ lock_address' = [lock_address EXCEPT ![n] = NoLock]
        /\ pc' = [pc EXCEPT ![f] = "hung"]
        /\ m_scheduler_lock' = c
        /\ UNCHANGED <<fiber_state, waitable_object, operand, handle>>
    BY <1>3 DEF ReleaseLockWaitListUnsafe, Goto, readyVars
  <1>5. pc'[f] = "hung" /\ \A g \in Fibers \ {f} : pc'[g] = pc[g]
    BY <1>1, <1>4 DEF WordInv
  <1>6. Stuck'
    BY <1>2, <1>4, <1>5 DEF Stuck
  <1>7. RunInv' /\ phase' \in [Cores -> Phase]
    BY <1>1, <1>4, RunKept DEF KernelInv, LockInv
  <1>8. WordInv'
    <2>1. /\ m_handle' \in [Locks -> Word] /\ lock_address' \in [Fibers -> Locks \cup {NoLock}]
          /\ pc' \in [Fibers -> Places] /\ operand' \in [Fibers -> Locks \cup {NoLock}]
          /\ handle' \in [Fibers -> Word]
      BY <1>1, <1>4 DEF WordInv, Word, Places, PC
    <2>2. ~Owns(f, l)' /\ pc'[f] \notin AtLock
      BY <1>5 DEF Owns, AtLock
    <2>3. \A g \in Fibers \ {f} :
              /\ pc'[g] = pc[g] /\ operand'[g] = operand[g] /\ held'[g] = held[g]
              /\ fiber_state'[g] = fiber_state[g]
      BY <1>4, <1>5
    <2>4. WordStep(f, l)
      BY <1>1, <2>1, <2>2, <2>3 DEF WordStep
    <2> QED BY <1>1, <2>4, WordMoves
  <1> QED BY <1>1, <1>4, <1>6, <1>7, <1>8 DEF LocksInv, LocksKept, QueuedInv, NobodySleeps

\* ArbitrateUnlockImpl keeps the invariant.
LEMMA ArbitrateUnlockKeepsLocks ==
    ASSUME OneLock, LocksInv, NEW f \in Fibers, NEW c \in Cores, ArbitrateUnlock(f, c)
    PROVE  LocksKept
  <1>1. /\ Runs(f, c) /\ pc[f] = "unlock" /\ LockFree
        /\ UNCHANGED <<fiberVars, m_wait_list, restVars, current_core, local_ring, phase, running, held>>
    BY DEF ArbitrateUnlock, At
  <1>2. CASE wait_list[f] = <<>> \/ m_handle[operand[f]] # WithChildWaitersBit(Tag(f))
    <2>1. UNCHANGED <<waitable_object, timeout, last_result, wait_list, readyVars,
                      m_scheduler_lock, m_handle, lock_address, pc, operand, handle>>
      BY <1>2 DEF ArbitrateUnlock
    <2>2. UNCHANGED waitVars /\ UNCHANGED lockVars
      BY <1>1, <2>1 DEF waitVars, lockVars
    <2> QED BY <1>1, <2>1, <2>2, AbortKeepsLocks
  <1>3. CASE ~(wait_list[f] = <<>> \/ m_handle[operand[f]] # WithChildWaitersBit(Tag(f)))
    <2>1. CASE Tail(wait_list[f]) = <<>>
      BY <1>3, <2>1, HandOverKeepsLocks
    <2>2. CASE Tail(wait_list[f]) # <<>>
      <3>1. ReleaseLockWaitListUnsafe(f, c)
        BY <1>3 DEF ArbitrateUnlock
      <3>2. WordInv
        BY DEF LocksInv
      <3>3. operand[f] \in Locks /\ held[f] = {} /\ m_handle[operand[f]].owner = f
        BY <1>1, <1>3, <3>2 DEF WordInv, AtLock, WithChildWaitersBit, Tag
      <3>4. /\ held'[f] = {} /\ (\A g \in Fibers \ {f} : held'[g] = held[g])
            /\ held' \in [Fibers -> SUBSET Locks]
        BY <1>1, <3>2, <3>3 DEF WordInv
      <3> QED BY <1>1, <1>3, <2>2, <3>1, <3>3, <3>4, HangKeepsLocks
    <2> QED BY <2>1, <2>2
  <1> QED BY <1>2, <1>3

-----------------------------------------------------------------------------
(* The invariant and what it says. *)

\* It holds when the fibers have been started and nobody has entered.
LEMMA LocksInit ==
    ASSUME Init
    PROVE  LocksInv /\ QueuedInv /\ m_wait_list = <<>>
  <1>1. KernelInv
    <2>1. \A f \in Fibers \ {MainFiber} : [g \in Fibers |-> {BootCore}][f] \in (SUBSET Cores) \ {{}}
      OBVIOUS
    <2> QED BY <2>1, KernelInitInv DEF Init
  <1>2. /\ m_handle = [l \in Locks |-> Unlocked] /\ lock_address = [f \in Fibers |-> NoLock]
        /\ pc = [f \in Fibers |-> "idle"] /\ operand = [f \in Fibers |-> NoLock]
        /\ handle = [f \in Fibers |-> Unlocked] /\ held = [f \in Fibers |-> {}]
    BY DEF Init
  <1>3. /\ \A f \in Fibers : fiber_state[f] # "Waiting" /\ waitable_object[f] = "none"
        /\ m_wait_list = <<>>
    BY DEF Init, KernelInit
  <1>4. WordInv
    BY <1>2 DEF WordInv, Owns, Word, Unlocked, Places, PC, AtLock
  <1>5. WaitersInv /\ NoneHung /\ NobodySleeps
    BY <1>2, <1>3 DEF WaitersInv, NoneHung, NobodySleeps
  <1> QED BY <1>1, <1>3, <1>4, <1>5 DEF LocksInv, QueuedInv, KernelInv, LockInv

\* A step that changes nothing of the scheduler and the lock.
LEMMA LocksStutter ==
    ASSUME LocksInv, UNCHANGED vars
    PROVE  LocksKept
  <1>1. UNCHANGED kernelVars /\ UNCHANGED lockVars
    BY DEF vars
  <1>2. /\ UNCHANGED <<fiber_state, wait_list, m_wait_list, waitable_object, current_core, running,
                       phase, m_scheduler_lock>>
        /\ UNCHANGED pc
    BY <1>1 DEF kernelVars, lockVars
  <1>3. KernelInv => KernelInv'
    BY <1>1, KernelStutter
  <1>4. RunInv' /\ phase' \in [Cores -> Phase] /\ NobodySleeps'
    BY <1>2, RunKept DEF LocksInv, NobodySleeps
  <1>5. Stuck => Stuck'
    BY <1>2 DEF Stuck
  <1>6. WordInv' /\ (NoneHung => NoneHung') /\ (WaitersInv => WaitersInv')
    BY <1>1, <1>2, SparedWaiters DEF LocksInv
  <1> QED BY <1>2, <1>3, <1>4, <1>5, <1>6 DEF LocksInv, LocksKept, QueuedInv

\* Every step keeps it.
LEMMA LocksNext ==
    ASSUME OneLock, LocksInv, [Next]_vars
    PROVE  LocksKept
  <1>1. CASE Next
    <2>1. PICK c \in Cores : \/ SchedulerStep(c) /\ UNCHANGED lockVars
                             \/ \E f \in Fibers : LockStep(f, c) \/ Yield(f, c)
      BY <1>1 DEF Next
    <2>2. ASSUME NEW f \in Fibers, LockStep(f, c) PROVE LocksKept
      BY <2>2, InterlockedKeepsLocks, ArbitrateLockKeepsLocks, ArbitrateUnlockKeepsLocks DEF LockStep
    <2> QED BY <2>1, <2>2, SchedulerKeepsLocks, YieldKeepsLocks
  <1> QED BY <1>1, LocksStutter

\* LocksInv is an invariant of one lock, and every waiter is queued for it.
THEOREM LocksInvariance == ASSUME OneLock PROVE Spec => [](LocksInv /\ QueuedInv /\ m_wait_list = <<>>)
  <1> DEFINE I == LocksInv /\ QueuedInv /\ m_wait_list = <<>>
  <1>1. Init => I
    BY LocksInit
  <1>2. I /\ [Next]_vars => I'
    BY LocksNext DEF LocksKept
  <1>3. Spec => []I
    BY <1>1, <1>2, PTL DEF Spec
  <1> QED BY <1>3

\* The word names whoever holds the lock, so no two do.
LEMMA HoldersAreNamed ==
    ASSUME WordInv, NEW f \in Fibers, NEW l \in held[f]
    PROVE  l \in Locks /\ m_handle[l].owner = f
  <1>1. l \in Locks
    BY DEF WordInv
  <1> QED BY <1>1 DEF WordInv, Owns

\* MutualExclusion: however many fibers on however many cores enter one lock, and
\* whatever they do with the waiters bit and the hand-over, no two of them are
\* between Enter and Leave.
THEOREM LockExcludes == ASSUME OneLock PROVE Spec => []MutualExclusion
  <1>1. LocksInv => MutualExclusion
    <2> SUFFICES ASSUME LocksInv, NEW f \in Fibers, NEW g \in Fibers, NEW l \in held[f] \cap held[g]
                 PROVE  f = g
      BY DEF MutualExclusion
    <2> QED BY HoldersAreNamed DEF LocksInv
  <1> QED BY <1>1, LocksInvariance, PTL

\* WaitersAreReachable: whenever the scheduler lock is free, a fiber that waits for
\* the lock is in the list of its owner, whose Leave cannot miss it.
THEOREM WaitersAreQueued == ASSUME OneLock PROVE Spec => []WaitersAreReachable
  <1>1. LocksInv /\ QueuedInv /\ m_wait_list = <<>> => WaitersAreReachable
    <2> SUFFICES ASSUME LocksInv, QueuedInv, m_wait_list = <<>>, LockFree,
                        NEW f \in Fibers, fiber_state[f] = "Waiting"
                 PROVE  Behind(f)
      BY DEF WaitersAreReachable, Behind
    <2>1. WaitersInv
      BY FreeIsNotStuck DEF QueuedInv
    <2> QED BY <2>1, EmptyList DEF WaitersInv
  <1> QED BY <1>1, LocksInvariance, PTL
-----------------------------------------------------------------------------
(* A condition variable on top of the lock: the scheduler under its calls. *)

\* A call of f that makes n runnable, which waited, and leaves f waiting: but for the
\* wait lists, which are the caller's, the scheduler's invariant is kept.
LEMMA SwappedKeeps ==
    ASSUME KernelInv, NEW f \in Fibers, NEW c \in Cores, Runs(f, c), LockFree,
           NEW n \in Fibers, fiber_state[n] = "Waiting",
           fiber_state' = [fiber_state EXCEPT ![n] = "Scheduled", ![f] = "Waiting"],
           m_thread_queue' = Insert(m_thread_queue, priority, n),
           m_runnable_fibers' = m_runnable_fibers + 1, WakeByAddressSingle(1),
           waitable_object' \in [Fibers -> WaitableObjects], timeout' \in [Fibers -> TimeoutValues],
           last_result' \in [Fibers -> {"Success", "Timeout"}], SwitchToScheduler(c),
           UNCHANGED <<fiberVars, restVars, current_core, local_ring, running>>
    PROVE  /\ FieldsInv' /\ QueueInv' /\ RingInv' /\ RunInv' /\ LockInv' /\ CountInv' /\ RestInv'
           /\ n # f /\ fiber_state'[f] = "Waiting" /\ fiber_state'[n] = "Scheduled"
           /\ \A g \in Fibers \ {f, n} : fiber_state'[g] = fiber_state[g]
  <1> DEFINE q == m_thread_queue
  <1>1. /\ fiber_state[f] = "Running" /\ running[c] = f /\ phase[c] \in {"user", "boot"}
        /\ fiber_state \in [Fibers -> FiberState] /\ n # f
    BY EntrantRuns DEF KernelInv, FieldsInv
  <1>2. /\ fiber_state' \in [Fibers -> FiberState]
        /\ fiber_state'[f] = "Waiting" /\ fiber_state'[n] = "Scheduled"
        /\ \A g \in Fibers \ {f, n} : fiber_state'[g] = fiber_state[g]
    BY <1>1 DEF FiberState
  <1>3. /\ q \in Seq(Fibers) /\ Once(q) /\ IsHeap(q, priority) /\ Elements(q) = Nodes(q)
        /\ Elements(q) = {g \in Fibers : fiber_state[g] = "Scheduled"}
        /\ \A g \in Fibers : priority[g] \in Int
    BY ListElements DEF KernelInv, QueueInv, FieldsInv
  <1>4. n \notin Elements(q) /\ n \notin Ready
    BY <1>3 DEF Ready
  <1>5. QueueInv'
    <2>1. /\ m_thread_queue' \in Seq(Fibers) /\ Once(m_thread_queue')
          /\ Nodes(m_thread_queue') = Nodes(q) \cup {n}
      <3>1. n \notin Nodes(q) /\ m_thread_queue' = Insert(q, priority, n)
        BY <1>3, <1>4
      <3>2. q \in Seq(Fibers) /\ Once(q)
        BY <1>3
      <3> HIDE DEF q
      <3> QED BY <3>1, <3>2, InsertAdds
    <2>2. IsHeap(m_thread_queue', priority')
      BY <1>3, InsertKeepsHeap DEF fiberVars
    <2>3. Elements(m_thread_queue') = Elements(q) \cup {n}
      BY <1>3, <2>1, ListElements
    <2>4. Elements(q) \cup {n} = {g \in Fibers : fiber_state'[g] = "Scheduled"}
      BY <1>1, <1>2, <1>3
    <2> QED BY <2>1, <2>2, <2>3, <2>4 DEF QueueInv
  <1>6. RingInv'
    BY <1>1, <1>2, RingKept DEF KernelInv
  <1>7. RunInv'
    <2>1. \A d \in Cores : phase[d] \notin {"booted", "switched"}
      BY OneSchedules DEF KernelInv
    <2>2. Off(n)
      BY <2>1, IdleIsOff DEF KernelInv
    <2> QED BY <1>2, <2>2, RunSwitched DEF KernelInv
  <1>8. LockInv'
    BY SwitchLock DEF KernelInv
  <1>9. asleep' \subseteq asleep
    BY Wakes DEF KernelInv, RestInv
  <1>10. PICK p \in {"booted", "switched"} : phase' = [phase EXCEPT ![c] = p]
    BY DEF SwitchToScheduler
  <1>11. phase \in [Cores -> Phase] /\ p \in Phase
    BY DEF KernelInv, LockInv, Phase
  <1>12. RestInv'
    <2>1. asleep' \subseteq {d \in Cores : phase'[d] = "resting"}
      BY <1>1, <1>9, <1>10, <1>11 DEF KernelInv, RestInv
    <2> QED BY <2>1 DEF KernelInv, RestInv, restVars
  <1>13. CountInv'
    <2>1. Active' = Active
      BY <1>1, <1>10, <1>11, ActiveCores DEF KernelInv
    <2>2. Ready' = Ready \cup {n}
      BY <1>1, <1>2 DEF Ready
    <2>3. Cardinality(Ready') = Cardinality(Ready) + 1
      BY <1>4, <2>2, ReadyIsFinite, FS_AddElement
    <2> QED BY <2>1, <2>3 DEF KernelInv, CountInv, restVars
  <1>14. FieldsInv'
    <2>1. \A g \in Fibers : fiber_state[g] = "Unallocated" => fiber_state'[g] = "Unallocated"
      BY <1>1, <1>2
    <2>2. current_core' \in [Fibers -> Cores] /\ FieldsInv
      BY DEF KernelInv, FieldsInv
    <2> QED BY <1>2, <2>1, <2>2, FieldsKept
  <1> QED BY <1>1, <1>2, <1>5, <1>6, <1>7, <1>8, <1>12, <1>13, <1>14

\* The list of f, of n alone, is emptied, and f joins a list.
LEMMA ParkSwapped ==
    ASSUME ParkInv, NEW f \in Fibers, NEW n \in Fibers, f # n, Elements(wait_list[f]) = {n},
           fiber_state[f] # "Waiting", fiber_state'[f] = "Waiting", fiber_state'[n] # "Waiting",
           \A g \in Fibers \ {f, n} : fiber_state'[g] = "Waiting" <=> fiber_state[g] = "Waiting",
           \/ m_wait_list = <<>> /\ m_wait_list' = <<f>> /\ wait_list' = [wait_list EXCEPT ![f] = <<>>]
           \/ /\ \E p \in Fibers \ {f} :
                    wait_list' = [[wait_list EXCEPT ![f] = <<>>] EXCEPT ![p] = Append(@, f)]
              /\ UNCHANGED m_wait_list
    PROVE  ParkInv'
  <1> DEFINE lists == [wait_list EXCEPT ![f] = <<>>]
  <1>1. /\ wait_list \in [Fibers -> Seq(Fibers)] /\ m_wait_list \in Seq(Fibers)
        /\ Once(m_wait_list) /\ \A g \in Fibers : Once(wait_list[g])
    BY DEF ParkInv
  <1>2. f \notin Elements(m_wait_list) /\ \A g \in Fibers : f \notin Elements(wait_list[g])
    BY DEF ParkInv, Parked
  <1>3. Parked(n) = {f}
    <2>1. f \in Parked(n)
      BY DEF Parked
    <2> QED BY <2>1 DEF ParkInv
  <1>4. /\ n \notin Elements(m_wait_list)
        /\ \A g \in Fibers \ {f} : n \notin Elements(wait_list[g])
    <2>1. NoFiber # f
      OBVIOUS
    <2> QED BY <1>3, <2>1 DEF Parked
  <1>5. /\ lists \in [Fibers -> Seq(Fibers)] /\ lists[f] = <<>>
        /\ \A g \in Fibers \ {f} : lists[g] = wait_list[g]
    BY <1>1
  <1>6. \A g \in Fibers : Once(lists[g]) /\ Elements(lists[g]) = Elements(wait_list[g]) \ {n}
    <2>1. Once(lists[f]) /\ Elements(lists[f]) = Elements(wait_list[f]) \ {n}
      BY <1>5, EmptyList
    <2>2. ASSUME NEW g \in Fibers \ {f} PROVE Once(lists[g]) /\ Elements(lists[g]) = Elements(wait_list[g]) \ {n}
      BY <1>1, <1>4, <1>5
    <2> QED BY <2>1, <2>2
  <1> DEFINE HasPlace(h) == IF fiber_state'[h] = "Waiting"
                            THEN \E g \in Fibers \cup {NoFiber} : Parked(h)' \subseteq {g}
                            ELSE Parked(h)' = {}
  <1>9. /\ \A h \in Fibers \ {f, n} : Parked(h)' = Parked(h) => HasPlace(h)
        /\ \A g \in Fibers \cup {NoFiber} : Parked(f)' = {g} => HasPlace(f)
        /\ Parked(n)' = {} => HasPlace(n)
    BY DEF ParkInv
  <1>7. CASE m_wait_list = <<>> /\ m_wait_list' = <<f>> /\ wait_list' = lists
    <2>1. m_wait_list' \in Seq(Fibers) /\ Elements(m_wait_list') = {f} /\ Once(m_wait_list')
      BY <1>7, ListOfOne
    <2>2. Elements(m_wait_list) = {}
      BY <1>7, EmptyList
    <2>3. \A h \in Fibers \ {f, n} : Parked(h)' = Parked(h)
      BY <1>6, <1>7, <2>1, <2>2 DEF Parked
    <2>4. Parked(f)' = {NoFiber}
      BY <1>2, <1>6, <1>7, <2>1 DEF Parked
    <2>5. Parked(n)' = {}
      BY <1>6, <1>7, <2>1 DEF Parked
    <2>6. \A h \in Fibers : HasPlace(h)
      BY <2>3, <2>4, <2>5, <1>9
    <2> QED BY <1>5, <1>6, <1>7, <2>1, <2>6 DEF ParkInv
  <1>8. ASSUME NEW p \in Fibers \ {f}, wait_list' = [lists EXCEPT ![p] = Append(@, f)],
               UNCHANGED m_wait_list
        PROVE  ParkInv'
    <2>1. f \notin Elements(lists[p])
      BY <1>2, <1>6
    <2>2. /\ wait_list'[p] \in Seq(Fibers) /\ Once(wait_list'[p])
          /\ Elements(wait_list'[p]) = Elements(lists[p]) \cup {f}
      BY <1>5, <1>6, <1>8, <2>1, ListAppend
    <2>3. \A g \in Fibers \ {p} : wait_list'[g] = lists[g]
      BY <1>5, <1>8
    <2>4. wait_list' \in [Fibers -> Seq(Fibers)] /\ \A g \in Fibers : Once(wait_list'[g])
      BY <1>5, <1>6, <1>8, <2>2, <2>3
    <2>5. \A g, h \in Fibers : h \in Elements(wait_list'[g]) <=>
              (h \in Elements(wait_list[g]) /\ h # n) \/ (g = p /\ h = f)
      <3>1. \A h \in Fibers : h \in Elements(wait_list'[p]) <=>
                (h \in Elements(wait_list[p]) /\ h # n) \/ h = f
        BY <1>6, <2>2
      <3>2. \A g \in Fibers \ {p}, h \in Fibers :
                h \in Elements(wait_list'[g]) <=> h \in Elements(wait_list[g]) /\ h # n
        BY <1>6, <2>3
      <3> QED BY <3>1, <3>2
    <2>6. \A h \in Fibers \ {f, n} : Parked(h)' = Parked(h)
      BY <1>8, <2>5 DEF Parked
    <2>7. Parked(f)' = {p}
      <3>1. \A g \in Fibers : f \in Elements(wait_list'[g]) <=> g = p
        BY <1>2, <2>5
      <3>2. f \notin Elements(m_wait_list')
        BY <1>2, <1>8
      <3> QED BY <3>1, <3>2 DEF Parked
    <2>8. Parked(n)' = {}
      BY <1>4, <1>8, <2>5 DEF Parked
    <2>9. \A h \in Fibers : HasPlace(h)
      BY <2>6, <2>7, <2>8, <1>9
    <2> QED BY <1>1, <1>8, <2>4, <2>9 DEF ParkInv
  <1> QED BY <1>7, <1>8

\* The head and the others.
LEMMA ListLength ==
    ASSUME NEW s \in Seq(Fibers)
    PROVE  Len(s) > 1 <=> s # <<>> /\ Tail(s) # <<>>
  <1>1. CASE s = <<>>
    BY <1>1
  <1>2. CASE s # <<>>
    <2>1. /\ Tail(s) \in Seq(Fibers) /\ Len(Tail(s)) = Len(s) - 1
          /\ Len(s) \in Nat \ {0}
      BY <1>2, HeadTailProperties, EmptySeq
    <2>2. Tail(s) = <<>> => Len(Tail(s)) = 0
      BY EmptySeq, Zenon
    <2>3. Tail(s) # <<>> => Len(Tail(s)) \in Nat \ {0}
      BY <2>1, EmptySeq
    <2> DEFINE n == Len(s)
               m == Len(Tail(s))
    <2>4. n \in Nat \ {0} /\ m = n - 1
      BY <2>1
    <2> HIDE DEF n, m
    <2>5. n > 1 <=> m # 0
      BY <2>4
    <2> QED BY <1>2, <2>2, <2>3, <2>5 DEF n, m
  <1> QED BY <1>1, <1>2

\* The one fiber of m_wait_list moves to another list and goes on waiting.
LEMMA ParkTransferred ==
    ASSUME ParkInv, NEW p \in Fibers, m_wait_list = <<p>>, m_wait_list' = <<>>,
           NEW owner \in Fibers, wait_list' = [wait_list EXCEPT ![owner] = Append(@, p)],
           UNCHANGED fiber_state
    PROVE  ParkInv'
  <1>1. wait_list \in [Fibers -> Seq(Fibers)] /\ \A g \in Fibers : Once(wait_list[g])
    BY DEF ParkInv
  <1>2. Elements(m_wait_list) = {p} /\ Elements(m_wait_list') = {} /\ Once(m_wait_list')
    BY ListOfOne, EmptyList
  <1>3. Parked(p) = {NoFiber} /\ fiber_state[p] = "Waiting"
    BY <1>2, ParkedThere
  <1>4. \A g \in Fibers : p \notin Elements(wait_list[g])
    BY <1>3 DEF Parked
  <1>5. /\ wait_list'[owner] \in Seq(Fibers) /\ Once(wait_list'[owner])
        /\ Elements(wait_list'[owner]) = Elements(wait_list[owner]) \cup {p}
    BY <1>1, <1>4, ListAppend
  <1>6. \A g \in Fibers \ {owner} : wait_list'[g] = wait_list[g]
    BY <1>1
  <1>7. wait_list' \in [Fibers -> Seq(Fibers)] /\ \A g \in Fibers : Once(wait_list'[g])
    BY <1>1, <1>5, <1>6
  <1>8. \A h \in Fibers \ {p} : Parked(h)' = Parked(h)
    BY <1>2, <1>5, <1>6 DEF Parked
  <1>9. Parked(p)' = {owner}
    BY <1>2, <1>4, <1>5, <1>6 DEF Parked
  <1>10. \A h \in Fibers : IF fiber_state'[h] = "Waiting"
                           THEN \E g \in Fibers \cup {NoFiber} : Parked(h)' \subseteq {g}
                           ELSE Parked(h)' = {}
    BY <1>3, <1>8, <1>9 DEF ParkInv
  <1>11. m_wait_list' \in Seq(Fibers)
    OBVIOUS
  <1> QED BY <1>2, <1>7, <1>10, <1>11 DEF ParkInv

\* The one fiber of m_wait_list is woken; its own list is at most reordered.
LEMMA ParkWoken ==
    ASSUME ParkInv, NEW p \in Fibers, m_wait_list = <<p>>, m_wait_list' = <<>>,
           \/ UNCHANGED wait_list
           \/ /\ wait_list[p] # <<>>
              /\ wait_list' = [wait_list EXCEPT ![p] = Append(Tail(@), Head(@))],
           fiber_state'[p] # "Waiting",
           \A g \in Fibers \ {p} : fiber_state'[g] = "Waiting" <=> fiber_state[g] = "Waiting"
    PROVE  ParkInv'
  <1>1. wait_list \in [Fibers -> Seq(Fibers)] /\ \A g \in Fibers : Once(wait_list[g])
    BY DEF ParkInv
  <1>2. Elements(m_wait_list) = {p} /\ Elements(m_wait_list') = {} /\ Once(m_wait_list')
    BY ListOfOne, EmptyList
  <1>3. Parked(p) = {NoFiber}
    BY <1>2, ParkedThere
  <1>4. /\ wait_list' \in [Fibers -> Seq(Fibers)]
        /\ \A g \in Fibers : Once(wait_list'[g]) /\ Elements(wait_list'[g]) = Elements(wait_list[g])
    <2>1. CASE UNCHANGED wait_list
      BY <1>1, <2>1
    <2>2. CASE wait_list[p] # <<>> /\ wait_list' = [wait_list EXCEPT ![p] = Append(Tail(@), Head(@))]
      <3>1. /\ Head(wait_list[p]) \in Fibers /\ Tail(wait_list[p]) \in Seq(Fibers)
            /\ Elements(wait_list[p]) = Elements(Tail(wait_list[p])) \cup {Head(wait_list[p])}
            /\ Once(Tail(wait_list[p])) /\ Head(wait_list[p]) \notin Elements(Tail(wait_list[p]))
        BY <1>1, <2>2, ListTail
      <3>2. /\ wait_list'[p] \in Seq(Fibers) /\ Once(wait_list'[p])
            /\ Elements(wait_list'[p]) = Elements(wait_list[p])
        <4> DEFINE h == Head(wait_list[p])
                   t == Tail(wait_list[p])
        <4>1. wait_list'[p] = Append(t, h)
          BY <1>1, <2>2
        <4>2. h \in Fibers /\ t \in Seq(Fibers) /\ Once(t) /\ h \notin Elements(t)
          BY <1>1, <3>1
        <4>3. Elements(wait_list[p]) = Elements(t) \cup {h}
          BY <3>1
        <4> HIDE DEF h, t
        <4> QED BY <4>1, <4>2, <4>3, ListAppend
      <3>3. \A g \in Fibers \ {p} : wait_list'[g] = wait_list[g]
        BY <1>1, <2>2
      <3> QED BY <1>1, <2>2, <3>2, <3>3
    <2> QED BY <2>1, <2>2
  <1>5. \A h \in Fibers \ {p} : Parked(h)' = Parked(h)
    BY <1>2, <1>4 DEF Parked
  <1>6. Parked(p)' = {}
    BY <1>2, <1>3, <1>4 DEF Parked
  <1>7. \A h \in Fibers : IF fiber_state'[h] = "Waiting"
                          THEN \E g \in Fibers \cup {NoFiber} : Parked(h)' \subseteq {g}
                          ELSE Parked(h)' = {}
    BY <1>5, <1>6 DEF ParkInv
  <1>8. m_wait_list' \in Seq(Fibers)
    OBVIOUS
  <1> QED BY <1>2, <1>4, <1>7, <1>8 DEF ParkInv
-----------------------------------------------------------------------------
(* The calls of the condition variable. *)

\* Nobody waits, or one fiber in the scheduler's list: the others are its children.
ParentInv == m_wait_list = <<>> \/ \E p \in Waiters : m_wait_list = <<p>>

\* The invariant of the condition variable, until a wait that timed out steals the
\* lock; list code that has left its list leaves the words alone at least.
CvInv == stolen \/ (WordInv /\ (wild \/ (LocksInv /\ ParentInv)))

\* Whoever waits is where it is looked for, and m_cv lets the next Signal through.
SignalInv == QueuedInv /\ (m_wait_list # <<>> => m_cv = 1)

\* One fiber calls Wait.
OneWaiter == \A f, g \in Waiters : f = g

\* What a step keeps that does not steal the lock.
CvKept == /\ WordInv' /\ (wild' \/ (LocksInv' /\ ParentInv'))
          /\ OneWaiter /\ SignalInv => wild' \/ SignalInv'

USE ConditionVariableAssumption

\* The parent is the one fiber of m_wait_list.
LEMMA ParentIs ==
    ASSUME ParentInv
    PROVE  /\ m_wait_list = <<>> => Parent = NoFiber
           /\ m_wait_list # <<>> => /\ Parent \in Waiters /\ Parent \in Fibers
                                    /\ m_wait_list = <<Parent>> /\ Parent # NoFiber
  <1>1. CASE m_wait_list = <<>>
    BY <1>1 DEF Parent
  <1>2. CASE m_wait_list # <<>>
    <2>1. PICK p \in Waiters : m_wait_list = <<p>>
      BY <1>2 DEF ParentInv
    <2>2. Parent = p
      BY <1>2, <2>1 DEF Parent
    <2> QED BY <1>2, <2>1, <2>2
  <1> QED BY <1>1, <1>2

\* The parent waits, so while the only waiter runs nobody does.
LEMMA OnlyWaiterRuns ==
    ASSUME KernelInv, ParentInv, OneWaiter, NEW f \in Waiters, fiber_state[f] # "Waiting"
    PROVE  m_wait_list = <<>> /\ Elements(m_wait_list) = {}
  <1>1. ASSUME NEW p \in Waiters, m_wait_list = <<p>> PROVE FALSE
    <2>1. p \in Elements(m_wait_list)
      BY <1>1, ListOfOne
    <2>2. fiber_state[p] = "Waiting"
      BY <2>1, ParkedThere DEF KernelInv
    <2> QED BY <2>2 DEF OneWaiter
  <1> QED BY <1>1, EmptyList DEF ParentInv

\* What a step keeps in which nobody hangs.
LEMMA CvIsKept ==
    ASSUME KernelInv', WordInv', NoneHung', NobodySleeps', ParentInv', ~Stuck,
           OneWaiter /\ WaitersInv /\ (m_wait_list # <<>> => m_cv = 1)
               => WaitersInv' /\ (m_wait_list' # <<>> => m_cv' = 1)
    PROVE  CvKept
  BY DEF CvKept, LocksInv, SignalInv, QueuedInv, KernelInv, LockInv

\* What the steps of the lock keep.
LEMMA LockKeepsCv ==
    ASSUME ParentInv, LocksKept, UNCHANGED cvVars
    PROVE  CvKept
  <1>1. UNCHANGED <<m_wait_list, m_cv>> /\ LocksInv' /\ (QueuedInv => QueuedInv')
    BY DEF LocksKept, cvVars
  <1>2. ParentInv' /\ WordInv'
    BY <1>1 DEF ParentInv, LocksInv
  <1> QED BY <1>1, <1>2 DEF CvKept, SignalInv

\* The word and the places in a step of f that moves no waiter and writes no word.
LEMMA CallKeepsCv ==
    ASSUME OneLock, LocksInv, ParentInv, NEW f \in Fibers,
           UNCHANGED <<kernelVars, m_handle, lock_address, cvVars>>,
           pc' \in [Fibers -> Places], operand' \in [Fibers -> Locks \cup {NoLock}],
           handle' \in [Fibers -> Word], held' \in [Fibers -> SUBSET Locks],
           \A g \in Fibers \ {f} : pc'[g] = pc[g] /\ operand'[g] = operand[g] /\ held'[g] = held[g],
           pc'[f] \in {"idle", "signal", "broadcast"}, pc[f] # "hung",
           CvLock \in held'[f] => m_handle[CvLock].owner = f
    PROVE  CvKept
  <1>1. UNCHANGED <<fiber_state, wait_list, m_wait_list>>
    BY DEF kernelVars
  <1>2. WordInv
    BY DEF LocksInv
  <1>3. CvLock \in Locks
    OBVIOUS
  <1>4. pc'[f] \notin AtLock /\ (Owns(f, CvLock)' => m_handle'[CvLock].owner = f)
    BY DEF Owns, AtLock
  <1>5. /\ m_handle' \in [Locks -> Word] /\ lock_address' \in [Fibers -> Locks \cup {NoLock}]
        /\ m_handle'[CvLock].owner = m_handle[CvLock].owner
    BY <1>2 DEF WordInv
  <1>6. WordInv'
    <2>1. PICK l \in Locks : l = CvLock
      BY <1>3
    <2>2. Owns(f, l)' => m_handle'[l].owner = f
      BY <1>4, <2>1 DEF Owns
    <2>3. \A g \in Fibers \ {f} : pc'[g] = pc[g] /\ operand'[g] = operand[g] /\ held'[g] = held[g]
                              /\ fiber_state'[g] = fiber_state[g]
      BY <1>1
    <2>4. WordStep(f, l)
      BY <1>2, <1>4, <1>5, <2>1, <2>2, <2>3 DEF WordStep
    <2> QED BY <1>2, <2>4, WordMoves
  <1>7. NoneHung /\ WaitersInv => WaitersInv'
    BY <1>1, WaitersStay
  <1>8. LocksKept
    BY <1>6, <1>7, UserStepKeepsLocks
  <1> QED BY <1>8, LockKeepsCv

\* Wait returns: it was woken with the lock.
LEMMA WaitReturnsKeepsCv ==
    ASSUME OneLock, LocksInv, ParentInv, NEW f \in Fibers, NEW c \in Cores, WaitReturns(f, c)
    PROVE  CvKept
  <1>1. /\ Runs(f, c) /\ pc[f] = "waited"
        /\ held' = [held EXCEPT ![f] = @ \cup {CvLock}]
        /\ pc' = [pc EXCEPT ![f] = "idle"] /\ operand' = [operand EXCEPT ![f] = NoLock]
        /\ handle' = [handle EXCEPT ![f] = Unlocked]
        /\ UNCHANGED <<kernelVars, m_handle, lock_address, cvVars>>
    BY DEF WaitReturns, At, Return, Goto
  <1>2. WordInv /\ fiber_state[f] = "Running"
    BY <1>1, EntrantRuns DEF LocksInv
  <1>3. m_handle[CvLock].owner = f
    BY <1>1, <1>2 DEF WordInv, Owns
  <1>4. /\ pc' \in [Fibers -> Places] /\ operand' \in [Fibers -> Locks \cup {NoLock}]
        /\ handle' \in [Fibers -> Word] /\ held' \in [Fibers -> SUBSET Locks]
        /\ \A g \in Fibers \ {f} : pc'[g] = pc[g] /\ operand'[g] = operand[g] /\ held'[g] = held[g]
        /\ pc'[f] = "idle"
    BY <1>1, <1>2 DEF WordInv, Places, PC, Word, Unlocked
  <1> QED BY <1>1, <1>3, <1>4, CallKeepsCv

\* Signal and Broadcast begin.
LEMMA BeginSignalKeepsCv ==
    ASSUME OneLock, LocksInv, ParentInv, NEW f \in Fibers, NEW c \in Cores,
           NEW call \in {"signal", "broadcast"}, BeginSignal(f, c, call)
    PROVE  CvKept
  <1>1. /\ pc[f] = "idle" /\ pc' = [pc EXCEPT ![f] = call]
        /\ UNCHANGED <<kernelVars, m_handle, lock_address, operand, handle, held, cvVars>>
    BY DEF BeginSignal, At, Goto
  <1>2. WordInv
    BY DEF LocksInv
  <1>3. CvLock \in held'[f] => m_handle[CvLock].owner = f
    BY <1>1, <1>2 DEF WordInv, Owns
  <1>4. /\ pc' \in [Fibers -> Places] /\ operand' \in [Fibers -> Locks \cup {NoLock}]
        /\ handle' \in [Fibers -> Word] /\ held' \in [Fibers -> SUBSET Locks]
        /\ \A g \in Fibers \ {f} : pc'[g] = pc[g] /\ operand'[g] = operand[g] /\ held'[g] = held[g]
        /\ pc'[f] \in {"signal", "broadcast"}
    BY <1>1, <1>2 DEF WordInv, Places
  <1> QED BY <1>1, <1>3, <1>4, CallKeepsCv

\* WaitKeyImpl finds the caller in the word.
LEMMA WaiterIsNamed ==
    ASSUME OneLock, LocksInv, NEW f \in Fibers, NEW c \in Cores, NEW t, WaitKey(f, c, t)
    PROVE  /\ Runs(f, c) /\ pc[f] = "idle" /\ LockFree /\ f \in Waiters
           /\ KernelInv /\ NoneHung /\ WordInv /\ NobodySleeps /\ ~Stuck
           /\ fiber_state[f] = "Running" /\ m_handle[CvLock].owner = f /\ CvLock \in Locks
           /\ held' \in [Fibers -> SUBSET Locks] /\ held'[f] = {}
           /\ \A g \in Fibers \ {f} : held'[g] = held[g]
           /\ wait_list[f] \in Seq(Fibers)
           /\ UNCHANGED <<fiberVars, restVars, current_core, local_ring, running, operand, handle, stolen, wild>>
  <1>1. /\ Runs(f, c) /\ pc[f] = "idle" /\ LockFree /\ CvLock \in held[f] /\ f \in Waiters
        /\ UNCHANGED <<fiberVars, restVars, current_core, local_ring, running, operand, handle, stolen, wild>>
    BY DEF WaitKey, At
  <1>2. KernelInv /\ NoneHung /\ WordInv /\ NobodySleeps /\ ~Stuck
    BY <1>1, FreeIsNotStuck
  <1>3. m_handle[CvLock].owner = f /\ CvLock \in Locks
    BY <1>1, <1>2, HoldersAreNamed
  <1>4. held' = [held EXCEPT ![f] = @ \ {CvLock}]
    BY <1>3 DEF WaitKey
  <1>5. held \in [Fibers -> SUBSET Locks]
    BY <1>2 DEF WordInv
  <1>6. held'[f] = {}
    BY <1>3, <1>4, <1>5 DEF OneLock
  <1>7. fiber_state[f] = "Running" /\ wait_list[f] \in Seq(Fibers)
    BY <1>1, <1>2, EntrantRuns DEF KernelInv, ParkInv
  <1> QED BY <1>1, <1>2, <1>3, <1>4, <1>5, <1>6, <1>7

\* Wait with nobody behind the caller: the lock is free and the caller waits.
LEMMA WaitFreesKeepsCv ==
    ASSUME OneLock, LocksInv, ParentInv, NEW f \in Fibers, NEW c \in Cores, NEW t \in Timeouts,
           WaitKey(f, c, t), wait_list[f] = <<>>
    PROVE  CvKept
  <1>1. /\ Runs(f, c) /\ pc[f] = "idle" /\ LockFree /\ f \in Waiters
        /\ KernelInv /\ NoneHung /\ WordInv /\ NobodySleeps /\ ~Stuck
        /\ fiber_state[f] = "Running" /\ m_handle[CvLock].owner = f /\ CvLock \in Locks
        /\ held' \in [Fibers -> SUBSET Locks] /\ held'[f] = {}
        /\ \A g \in Fibers \ {f} : held'[g] = held[g]
        /\ UNCHANGED <<fiberVars, restVars, current_core, local_ring, running, operand, handle, stolen, wild>>
    BY WaiterIsNamed
  <1>2. Elements(wait_list[f]) = {} /\ Len(wait_list[f]) = 0
    BY EmptyList
  <1>3. /\ m_handle' = [m_handle EXCEPT ![CvLock] = Unlocked]
        /\ JoinCvWaiters(f, wait_list)
        /\ fiber_state' = [fiber_state EXCEPT ![f] = "Waiting"]
        /\ waitable_object' = [waitable_object EXCEPT ![f] = "key"]
        /\ lock_address' = [lock_address EXCEPT ![f] = CvLock]
        /\ UNCHANGED <<m_thread_queue, m_runnable_fibers, asleep, last_result>>
        /\ m_cv' = 1 /\ SwitchToScheduler(c) /\ pc' = [pc EXCEPT ![f] = "waited"]
        /\ timeout' = [g \in Fibers |-> IF g = f THEN t
                                        ELSE IF g \in Elements(wait_list[f]) THEN "none" ELSE timeout[g]]
    BY <1>1, <1>2 DEF WaitKey, WaitReleasesLock, Goto
  <1>4. /\ fiber_state' \in [Fibers -> FiberState] /\ fiber_state'[f] = "Waiting"
        /\ \A g \in Fibers \ {f} : fiber_state'[g] = fiber_state[g]
    BY <1>1, <1>3 DEF KernelInv, FieldsInv, FiberState
  <1>5. QueueInv' /\ RingInv' /\ RunInv' /\ LockInv' /\ CountInv' /\ RestInv'
    BY <1>1, <1>3, <1>4, CallKeeps
  <1>6. \/ Parent = NoFiber /\ m_wait_list = <<>> /\ m_wait_list' = <<f>> /\ UNCHANGED wait_list
        \/ /\ Parent \in Fibers /\ wait_list' = [wait_list EXCEPT ![Parent] = Append(@, f)]
           /\ UNCHANGED m_wait_list
    BY <1>3, ParentIs DEF JoinCvWaiters
  <1>7. ParkInv'
    <2>1. m_wait_list = <<>> /\ m_wait_list' = <<f>> => m_wait_list' = Append(m_wait_list, f)
      OBVIOUS
    <2> QED BY <1>1, <1>4, <1>6, <2>1, ParkEntered DEF KernelInv
  <1>8. FieldsInv'
    <2>1. waitable_object' \in [Fibers -> WaitableObjects] /\ timeout' \in [Fibers -> TimeoutValues]
      BY <1>1, <1>3 DEF KernelInv, FieldsInv, WaitableObjects, TimeoutValues
    <2>2. \A g \in Fibers : fiber_state[g] = "Unallocated" => fiber_state'[g] = "Unallocated"
      BY <1>1, <1>4
    <2>3. /\ FieldsInv /\ current_core' \in [Fibers -> Cores]
          /\ last_result' \in [Fibers -> {"Success", "Timeout"}]
      BY <1>1, <1>3 DEF KernelInv, FieldsInv
    <2> QED BY <1>1, <1>4, <2>1, <2>2, <2>3, FieldsKept
  <1>9. KernelInv'
    BY <1>5, <1>7, <1>8 DEF KernelInv
  <1>10. ParentInv'
    BY <1>1, <1>6 DEF ParentInv
  <1>11. /\ \A g \in Fibers : pc'[g] = IF g = f THEN "waited" ELSE pc[g]
         /\ \A g \in Fibers : lock_address'[g] = IF g = f THEN CvLock ELSE lock_address[g]
         /\ pc' \in [Fibers -> Places] /\ lock_address' \in [Fibers -> Locks \cup {NoLock}]
         /\ m_handle' \in [Locks -> Word]
    BY <1>1, <1>3 DEF WordInv, Places, Word, Unlocked
  <1>12. WordInv'
    <2>1. pc'[f] \notin AtLock /\ ~Owns(f, CvLock)'
      BY <1>1, <1>4, <1>11 DEF Owns, AtLock
    <2>2. \A g \in Fibers \ {f} : /\ pc'[g] = pc[g] /\ operand'[g] = operand[g] /\ held'[g] = held[g]
                                  /\ fiber_state'[g] = fiber_state[g]
      BY <1>1, <1>4, <1>11
    <2>3. operand' \in [Fibers -> Locks \cup {NoLock}] /\ handle' \in [Fibers -> Word]
      BY <1>1 DEF WordInv
    <2>4. PICK l \in Locks : l = CvLock
      BY <1>1
    <2>5. ~Owns(f, l)' /\ (m_handle[l].owner = f)
      BY <1>1, <2>1, <2>4
    <2>6. \A g \in Fibers \ {f} :
              fiber_state[g] = "Waiting" /\ fiber_state'[g] # "Waiting" => m_handle'[l].owner = g
      BY <2>2, <2>4
    <2>7. WordStep(f, l)
      BY <1>1, <1>11, <2>1, <2>2, <2>3, <2>5, <2>6 DEF WordStep
    <2> QED BY <1>1, <2>7, WordMoves
  <1>13. NoneHung' /\ NobodySleeps'
    BY <1>1, <1>3, <1>4, <1>11 DEF NoneHung, NobodySleeps
  <1>14. ASSUME OneWaiter, WaitersInv PROVE WaitersInv'
    <2>1. Elements(m_wait_list) = {} /\ m_wait_list' = <<f>>
      BY <1>1, <1>6, <1>14, OnlyWaiterRuns, ParentIs
    <2>2. ASSUME NEW g \in Fibers \ {f}, fiber_state'[g] = "Waiting" PROVE FALSE
      <3>1. Behind(g)
        BY <1>4, <1>14, <2>1, <2>2 DEF WaitersInv
      <3>2. lock_address[g] = CvLock
        BY <1>1, <1>4, <2>2 DEF NoneHung, OneLock
      <3> QED BY <1>1, <1>2, <3>1, <3>2 DEF Behind
    <2>3. f \in Elements(m_wait_list)'
      BY <2>1, ListOfOne
    <2> QED BY <2>2, <2>3 DEF WaitersInv
  <1> QED BY <1>1, <1>3, <1>9, <1>10, <1>12, <1>13, <1>14, CvIsKept

\* Wait with one fiber behind the caller, which gets the lock.
LEMMA WaitHandsOverKeepsCv ==
    ASSUME OneLock, LocksInv, ParentInv, NEW f \in Fibers, NEW c \in Cores, NEW t \in Timeouts,
           WaitKey(f, c, t), wait_list[f] # <<>>, Tail(wait_list[f]) = <<>>
    PROVE  CvKept
  <1>1. /\ Runs(f, c) /\ pc[f] = "idle" /\ LockFree /\ f \in Waiters
        /\ KernelInv /\ NoneHung /\ WordInv /\ NobodySleeps /\ ~Stuck
        /\ fiber_state[f] = "Running" /\ m_handle[CvLock].owner = f /\ CvLock \in Locks
        /\ held' \in [Fibers -> SUBSET Locks] /\ held'[f] = {}
        /\ \A g \in Fibers \ {f} : held'[g] = held[g]
        /\ wait_list[f] \in Seq(Fibers)
        /\ UNCHANGED <<fiberVars, restVars, current_core, local_ring, running, operand, handle, stolen, wild>>
    BY WaiterIsNamed
  <1>2. PICK n \in Fibers : /\ n = Head(wait_list[f]) /\ Elements(wait_list[f]) = {n}
                            /\ fiber_state[n] = "Waiting" /\ lock_address[n] = CvLock
    BY <1>1, NextOwner
  <1>3. ~(Len(wait_list[f]) > 1)
    BY <1>1, ListLength
  <1> DEFINE lists == [wait_list EXCEPT ![f] = <<>>]
  <1>4. /\ m_handle' = [m_handle EXCEPT ![CvLock] = Tag(n)]
        /\ JoinCvWaiters(f, lists)
        /\ m_thread_queue' = Insert(m_thread_queue, priority, n)
        /\ m_runnable_fibers' = m_runnable_fibers + 1
        /\ WakeByAddressSingle(1)
        /\ fiber_state' = [fiber_state EXCEPT ![n] = "Scheduled", ![f] = "Waiting"]
        /\ waitable_object' = [waitable_object EXCEPT ![n] = "none", ![f] = "key"]
        /\ lock_address' = [lock_address EXCEPT ![n] = NoLock, ![f] = CvLock]
        /\ last_result' = [last_result EXCEPT ![n] = "Success"]
        /\ m_cv' = 1 /\ SwitchToScheduler(c) /\ pc' = [pc EXCEPT ![f] = "waited"]
        /\ timeout' = [g \in Fibers |-> IF g = f THEN t
                                        ELSE IF g \in Elements(wait_list[f]) THEN "none" ELSE timeout[g]]
    BY <1>1, <1>2, <1>3 DEF WaitKey, WaitReleasesLock, Goto
  <1> HIDE DEF lists
  <1>5. /\ waitable_object' \in [Fibers -> WaitableObjects] /\ timeout' \in [Fibers -> TimeoutValues]
        /\ last_result' \in [Fibers -> {"Success", "Timeout"}]
    BY <1>1, <1>4 DEF KernelInv, FieldsInv, WaitableObjects, TimeoutValues
  <1>6. /\ FieldsInv' /\ QueueInv' /\ RingInv' /\ RunInv' /\ LockInv' /\ CountInv' /\ RestInv'
        /\ n # f /\ fiber_state'[f] = "Waiting" /\ fiber_state'[n] = "Scheduled"
        /\ \A g \in Fibers \ {f, n} : fiber_state'[g] = fiber_state[g]
    <2>1. /\ KernelInv /\ Runs(f, c) /\ LockFree /\ fiber_state[n] = "Waiting"
          /\ SwitchToScheduler(c) /\ WakeByAddressSingle(1)
          /\ UNCHANGED <<fiberVars, restVars, current_core, local_ring, running>>
      BY <1>1, <1>2, <1>4
    <2>2. /\ fiber_state' = [fiber_state EXCEPT ![n] = "Scheduled", ![f] = "Waiting"]
          /\ m_thread_queue' = Insert(m_thread_queue, priority, n)
          /\ m_runnable_fibers' = m_runnable_fibers + 1
      BY <1>4
    <2> QED BY <1>5, <2>1, <2>2, SwappedKeeps
  <1>7. \/ Parent = NoFiber /\ m_wait_list = <<>> /\ m_wait_list' = <<f>> /\ wait_list' = lists
        \/ /\ Parent \in Fibers \ {f} /\ wait_list' = [lists EXCEPT ![Parent] = Append(@, f)]
           /\ UNCHANGED m_wait_list
    <2>1. Parent # NoFiber => Parent \in Fibers \ {f}
      <3>1. Parent # NoFiber => m_wait_list = <<Parent>> /\ Parent \in Fibers
        BY ParentIs
      <3>2. Parent # NoFiber => Parent \in Elements(m_wait_list)
        BY <3>1, ListOfOne
      <3>3. Parent # NoFiber => fiber_state[Parent] = "Waiting"
        BY <1>1, <3>2, ParkedThere DEF KernelInv
      <3> QED BY <1>1, <3>1, <3>3
    <2> QED BY <1>4, <2>1, ParentIs DEF JoinCvWaiters
  <1>8. ParkInv'
    <2>1. \/ m_wait_list = <<>> /\ m_wait_list' = <<f>> /\ wait_list' = [wait_list EXCEPT ![f] = <<>>]
          \/ /\ \E p \in Fibers \ {f} :
                    wait_list' = [[wait_list EXCEPT ![f] = <<>>] EXCEPT ![p] = Append(@, f)]
             /\ UNCHANGED m_wait_list
      BY <1>7 DEF lists
    <2>2. /\ fiber_state[f] # "Waiting" /\ fiber_state'[n] # "Waiting"
          /\ \A g \in Fibers \ {f, n} : fiber_state'[g] = "Waiting" <=> fiber_state[g] = "Waiting"
      BY <1>1, <1>6
    <2>3. ParkInv /\ n # f /\ Elements(wait_list[f]) = {n} /\ fiber_state'[f] = "Waiting"
      BY <1>1, <1>2, <1>6 DEF KernelInv
    <2> QED BY <2>1, <2>2, <2>3, ParkSwapped
  <1>9. KernelInv'
    BY <1>6, <1>8 DEF KernelInv
  <1>10. ParentInv'
    BY <1>1, <1>7 DEF ParentInv
  <1>11. /\ \A g \in Fibers : pc'[g] = IF g = f THEN "waited" ELSE pc[g]
         /\ \A g \in Fibers : lock_address'[g] = IF g = f THEN CvLock ELSE IF g = n THEN NoLock ELSE lock_address[g]
         /\ pc' \in [Fibers -> Places] /\ lock_address' \in [Fibers -> Locks \cup {NoLock}]
         /\ m_handle' \in [Locks -> Word] /\ m_handle'[CvLock].owner = n
    BY <1>1, <1>4, <1>6 DEF WordInv, Places, Word, Tag
  <1>12. WordInv'
    <2>1. pc'[f] \notin AtLock /\ ~Owns(f, CvLock)'
      BY <1>1, <1>6, <1>11 DEF Owns, AtLock
    <2>2. \A g \in Fibers \ {f} :
              /\ pc'[g] = pc[g] /\ operand'[g] = operand[g] /\ held'[g] = held[g]
              /\ fiber_state[g] = "Waiting" /\ fiber_state'[g] # "Waiting" => m_handle'[CvLock].owner = g
      BY <1>1, <1>6, <1>11
    <2>3. operand' \in [Fibers -> Locks \cup {NoLock}] /\ handle' \in [Fibers -> Word]
      BY <1>1 DEF WordInv
    <2>4. PICK l \in Locks : l = CvLock
      BY <1>1
    <2>5. ~Owns(f, l)' /\ (m_handle[l].owner = f)
      BY <1>1, <2>1, <2>4
    <2>6. \A g \in Fibers \ {f} :
              fiber_state[g] = "Waiting" /\ fiber_state'[g] # "Waiting" => m_handle'[l].owner = g
      BY <2>2, <2>4
    <2>7. WordStep(f, l)
      BY <1>1, <1>11, <2>1, <2>2, <2>3, <2>5, <2>6 DEF WordStep
    <2> QED BY <1>1, <2>7, WordMoves
  <1>13. NoneHung' /\ NobodySleeps'
    <2>1. NoneHung'
      BY <1>1, <1>6, <1>11 DEF NoneHung
    <2>2. NobodySleeps'
      BY <1>1, <1>4 DEF NobodySleeps, KernelInv, FieldsInv
    <2> QED BY <2>1, <2>2
  <1>14. ASSUME OneWaiter, WaitersInv PROVE WaitersInv'
    <2>1. Elements(m_wait_list) = {} /\ m_wait_list' = <<f>>
      BY <1>1, <1>7, <1>14, OnlyWaiterRuns, ParentIs
    <2>2. ASSUME NEW g \in Fibers \ {f}, fiber_state'[g] = "Waiting" PROVE FALSE
      <3>1. g # n /\ fiber_state[g] = "Waiting"
        BY <1>6, <2>2
      <3>2. Behind(g)
        BY <1>14, <2>1, <3>1 DEF WaitersInv
      <3>3. lock_address[g] = CvLock
        BY <1>1, <3>1 DEF NoneHung, OneLock
      <3> QED BY <1>1, <1>2, <3>1, <3>2, <3>3 DEF Behind
    <2>3. f \in Elements(m_wait_list)'
      BY <2>1, ListOfOne
    <2> QED BY <2>2, <2>3 DEF WaitersInv
  <1> QED BY <1>1, <1>4, <1>9, <1>10, <1>12, <1>13, <1>14, CvIsKept

\* Wait and TimedWait.
LEMMA WaitKeepsCv ==
    ASSUME OneLock, LocksInv, ParentInv, NEW f \in Fibers, NEW c \in Cores, NEW t \in Timeouts,
           WaitKey(f, c, t)
    PROVE  CvKept /\ UNCHANGED stolen
  <1>1. /\ Runs(f, c) /\ LockFree /\ m_handle[CvLock].owner = f /\ CvLock \in Locks
        /\ held' \in [Fibers -> SUBSET Locks] /\ held'[f] = {}
        /\ \A g \in Fibers \ {f} : held'[g] = held[g]
        /\ wait_list[f] \in Seq(Fibers)
        /\ UNCHANGED <<current_core, running, stolen, wild>>
    BY WaiterIsNamed
  <1>2. CASE Len(wait_list[f]) > 1
    <2>1. /\ ReleaseLockWaitListUnsafe(f, c)
          /\ UNCHANGED <<m_wait_list, phase, m_cv>>
      BY <1>1, <1>2 DEF WaitKey
    <2>2. wait_list[f] # <<>> /\ Tail(wait_list[f]) # <<>>
      BY <1>1, <1>2, ListLength
    <2>3. LocksKept
      BY <1>1, <2>1, <2>2, HangKeepsLocks
    <2>4. UNCHANGED cvVars
      BY <1>1, <2>1 DEF cvVars
    <2> QED BY <1>1, <2>3, <2>4, LockKeepsCv
  <1>3. CASE ~(Len(wait_list[f]) > 1)
    <2>1. wait_list[f] = <<>> \/ Tail(wait_list[f]) = <<>>
      BY <1>1, <1>3, ListLength
    <2> QED BY <1>1, <2>1, WaitFreesKeepsCv, WaitHandsOverKeepsCv
  <1> QED BY <1>2, <1>3

-----------------------------------------------------------------------------
(* Signal and Broadcast. *)

\* SignalKeyImpl runs with the lock of the scheduler, which it keeps.
LEMMA SignalRuns ==
    ASSUME LocksInv, NEW f \in Fibers, NEW c \in Cores, SignalKey(f, c)
    PROVE  /\ Runs(f, c) /\ pc[f] \in {"signal", "broadcast"} /\ LockFree
           /\ KernelInv /\ NoneHung /\ WordInv /\ NobodySleeps /\ ~Stuck
           /\ fiber_state[f] = "Running" /\ pc' = [pc EXCEPT ![f] = "idle"]
           /\ pc' \in [Fibers -> Places] /\ operand' \in [Fibers -> Locks \cup {NoLock}]
           /\ handle' \in [Fibers -> Word] /\ held' \in [Fibers -> SUBSET Locks]
           /\ \A g \in Fibers \ {f} : pc'[g] = pc[g] /\ operand'[g] = operand[g] /\ held'[g] = held[g]
           /\ pc'[f] = "idle" /\ pc[f] # "hung"
           /\ CvLock \in held'[f] => m_handle[CvLock].owner = f
           /\ UNCHANGED <<fiberVars, restVars, current_core, local_ring, m_scheduler_lock, phase, running,
                          aborted, lock_address, operand, handle, held, stolen>>
  <1>1. /\ Runs(f, c) /\ pc[f] \in {"signal", "broadcast"} /\ LockFree
        /\ pc' = [pc EXCEPT ![f] = "idle"]
        /\ UNCHANGED <<fiberVars, restVars, current_core, local_ring, m_scheduler_lock, phase, running,
                       aborted, lock_address, operand, handle, held, stolen>>
    BY DEF SignalKey, Goto
  <1>2. KernelInv /\ NoneHung /\ WordInv /\ NobodySleeps /\ ~Stuck
    BY <1>1, FreeIsNotStuck
  <1>3. fiber_state[f] = "Running"
    BY <1>1, <1>2, EntrantRuns DEF KernelInv
  <1>4. CvLock \in held'[f] => m_handle[CvLock].owner = f
    BY <1>1, <1>2, HoldersAreNamed
  <1>5. /\ pc' \in [Fibers -> Places] /\ operand' \in [Fibers -> Locks \cup {NoLock}]
        /\ handle' \in [Fibers -> Word] /\ held' \in [Fibers -> SUBSET Locks]
        /\ \A g \in Fibers \ {f} : pc'[g] = pc[g] /\ operand'[g] = operand[g] /\ held'[g] = held[g]
        /\ pc'[f] = "idle" /\ pc[f] # "hung"
    BY <1>1, <1>2 DEF WordInv, Places, PC
  <1> QED BY <1>1, <1>2, <1>3, <1>4, <1>5

\* Nobody waits.
LEMMA SignalNobodyKeepsCv ==
    ASSUME OneLock, LocksInv, ParentInv, NEW f \in Fibers, NEW c \in Cores, SignalKey(f, c),
           Parent = NoFiber
    PROVE  CvKept
  <1>1. UNCHANGED <<waitVars, readyVars, m_handle, m_cv, wild>>
    BY DEF SignalKey
  <1>2. UNCHANGED <<fiberVars, restVars, current_core, local_ring, m_scheduler_lock, phase, running,
                    aborted, lock_address, stolen>>
    BY SignalRuns
  <1>3. UNCHANGED kernelVars /\ UNCHANGED cvVars
    BY <1>1, <1>2 DEF kernelVars, cvVars, fiberVars, restVars, waitVars, readyVars
  <1>4. /\ pc' \in [Fibers -> Places] /\ operand' \in [Fibers -> Locks \cup {NoLock}]
        /\ handle' \in [Fibers -> Word] /\ held' \in [Fibers -> SUBSET Locks]
        /\ \A g \in Fibers \ {f} : pc'[g] = pc[g] /\ operand'[g] = operand[g] /\ held'[g] = held[g]
        /\ pc'[f] = "idle" /\ pc[f] # "hung"
        /\ CvLock \in held'[f] => m_handle[CvLock].owner = f
    BY SignalRuns
  <1> QED BY <1>1, <1>2, <1>3, <1>4, CallKeepsCv

\* The lock is free: the parent owns it and is runnable.
LEMMA SignalWakesKeepsCv ==
    ASSUME OneLock, LocksInv, ParentInv, NEW f \in Fibers, NEW c \in Cores, SignalKey(f, c),
           Parent # NoFiber, m_handle[CvLock] = Unlocked
    PROVE  CvKept
  <1>1. /\ Runs(f, c) /\ LockFree
        /\ KernelInv /\ NoneHung /\ WordInv /\ NobodySleeps /\ ~Stuck
        /\ fiber_state[f] = "Running"
        /\ pc' \in [Fibers -> Places] /\ operand' \in [Fibers -> Locks \cup {NoLock}]
        /\ handle' \in [Fibers -> Word] /\ held' \in [Fibers -> SUBSET Locks]
        /\ \A g \in Fibers \ {f} : pc'[g] = pc[g] /\ operand'[g] = operand[g] /\ held'[g] = held[g]
        /\ pc'[f] = "idle"
        /\ CvLock \in held'[f] => m_handle[CvLock].owner = f
        /\ UNCHANGED <<fiberVars, restVars, current_core, local_ring, m_scheduler_lock, phase, running,
                       lock_address>>
    BY SignalRuns
  <1>2. PICK p \in Fibers : p = Parent /\ m_wait_list = <<p>>
    BY ParentIs
  <1>3. <<p>> \in Seq(Fibers) /\ Elements(<<p>>) = {p} /\ Once(<<p>>)
    BY ListOfOne
  <1>4. fiber_state[p] = "Waiting" /\ p # f
    BY <1>1, <1>2, <1>3, ParkedThere DEF KernelInv
  <1>5. PICK call \in {"signal", "broadcast"} : TakeLockBack(p, call)
    BY <1>2, SignalRuns DEF SignalKey
  <1>6. /\ m_wait_list' = <<>> /\ m_cv' = 0
        /\ m_handle' = [m_handle EXCEPT ![CvLock] =
                           [owner |-> p, waiters |-> call = "broadcast" /\ wait_list[p] # <<>>]]
        /\ wait_list' = IF call = "broadcast" /\ wait_list[p] # <<>>
                        THEN [wait_list EXCEPT ![p] = Append(Tail(@), Head(@))] ELSE wait_list
        /\ waitable_object' = [waitable_object EXCEPT ![p] = "none"]
        /\ EndFiberWaitImpl(<<p>>, "Success")
    BY <1>2, <1>5 DEF SignalKey, TakeLockBack
  <1>7. /\ FieldsInv' /\ QueueInv' /\ RingInv' /\ RunInv' /\ LockInv' /\ CountInv' /\ RestInv'
        /\ \A g \in Fibers : fiber_state'[g] =
               IF g \notin Elements(<<p>>) THEN fiber_state[g]
               ELSE IF activity_level[g] = "Schedulable" THEN "Scheduled" ELSE "Suspended"
    <2>1. waitable_object' \in [Fibers -> WaitableObjects]
      BY <1>1, <1>6 DEF KernelInv, FieldsInv, WaitableObjects
    <2>2. \A d \in Cores : phase[d] \notin {"booted", "switched"}
      BY <1>1, OneSchedules DEF KernelInv
    <2>3. \A g \in Elements(<<p>>) : fiber_state[g] = "Waiting"
      BY <1>3, <1>4
    <2> QED BY <1>1, <1>3, <1>6, <2>1, <2>2, <2>3, WaitEnded
  <1>8. fiber_state'[p] # "Waiting" /\ \A g \in Fibers \ {p} : fiber_state'[g] = fiber_state[g]
    BY <1>3, <1>7
  <1>9. KernelInv'
    <2>1. ParkInv'
      BY <1>1, <1>2, <1>6, <1>8, ParkWoken DEF KernelInv
    <2> QED BY <1>7, <2>1 DEF KernelInv
  <1>10. ParentInv'
    BY <1>6 DEF ParentInv
  <1>11. /\ m_handle' \in [Locks -> Word] /\ lock_address' \in [Fibers -> Locks \cup {NoLock}]
         /\ m_handle'[CvLock].owner = p /\ m_handle[CvLock].owner = NoFiber
         /\ m_handle[CvLock].waiters = FALSE
    BY <1>1, <1>6 DEF WordInv, Word, Unlocked
  <1>12. WordInv'
    <2>1. CvLock \notin held'[f]
      BY <1>1, <1>11
    <2>2. ~Owns(f, CvLock)' /\ pc'[f] \notin AtLock
      BY <1>1, <2>1 DEF Owns, AtLock
    <2>3. PICK l \in Locks : l = CvLock
      OBVIOUS
    <2>4. ~Owns(f, l)'
      BY <2>2, <2>3
    <2>5. \A g \in Fibers \ {f} :
              /\ pc'[g] = pc[g] /\ operand'[g] = operand[g] /\ held'[g] = held[g]
              /\ fiber_state[g] = "Waiting" /\ fiber_state'[g] # "Waiting" => m_handle'[l].owner = g
      BY <1>1, <1>8, <1>11, <2>3
    <2>6. /\ m_handle[l].owner \in {NoFiber, f} /\ WordInv
          /\ m_handle' \in [Locks -> Word] /\ lock_address' \in [Fibers -> Locks \cup {NoLock}]
      BY <1>1, <1>11, <2>3
    <2>7. /\ pc' \in [Fibers -> Places] /\ operand' \in [Fibers -> Locks \cup {NoLock}]
          /\ handle' \in [Fibers -> Word] /\ held' \in [Fibers -> SUBSET Locks]
      BY <1>1
    <2>8. WordStep(f, l)
      BY <2>2, <2>4, <2>5, <2>6, <2>7 DEF WordStep
    <2> QED BY <2>6, <2>8, WordMoves
  <1>13. NoneHung' /\ NobodySleeps'
    BY <1>1, <1>6, <1>8 DEF NoneHung, NobodySleeps, KernelInv, FieldsInv
  <1>14. ASSUME WaitersInv PROVE WaitersInv'
    <2> SUFFICES ASSUME NEW g \in Fibers, fiber_state'[g] = "Waiting" PROVE FALSE
      BY DEF WaitersInv
    <2>1. g # p /\ fiber_state[g] = "Waiting"
      BY <1>8
    <2>2. Behind(g)
      BY <1>2, <1>3, <1>14, <2>1 DEF WaitersInv
    <2>3. lock_address[g] = CvLock
      BY <1>1, <2>1 DEF NoneHung, OneLock
    <2> QED BY <1>11, <2>2, <2>3 DEF Behind
  <1> QED BY <1>1, <1>6, <1>9, <1>10, <1>12, <1>13, <1>14, CvIsKept

\* The lock is taken: the parent waits for it, or list code leaves its list.
LEMMA SignalTransfersKeepsCv ==
    ASSUME OneLock, LocksInv, ParentInv, NEW f \in Fibers, NEW c \in Cores, SignalKey(f, c),
           Parent # NoFiber, m_handle[CvLock] # Unlocked
    PROVE  CvKept
  <1>1. /\ Runs(f, c) /\ LockFree
        /\ KernelInv /\ NoneHung /\ WordInv /\ NobodySleeps /\ ~Stuck
        /\ pc' \in [Fibers -> Places] /\ operand' \in [Fibers -> Locks \cup {NoLock}]
        /\ handle' \in [Fibers -> Word] /\ held' \in [Fibers -> SUBSET Locks]
        /\ \A g \in Fibers \ {f} : pc'[g] = pc[g] /\ operand'[g] = operand[g] /\ held'[g] = held[g]
        /\ pc'[f] = "idle"
        /\ CvLock \in held'[f] => m_handle[CvLock].owner = f
        /\ UNCHANGED <<fiberVars, restVars, current_core, local_ring, m_scheduler_lock, phase, running,
                       lock_address>>
    BY SignalRuns
  <1>2. PICK p \in Fibers : p = Parent /\ m_wait_list = <<p>>
    BY ParentIs
  <1>3. PICK call \in {"signal", "broadcast"} : TransferToOwner(p, call)
    BY <1>2, SignalRuns DEF SignalKey
  <1> DEFINE owner == m_handle[CvLock].owner
  <1>4. /\ m_wait_list' = <<>> /\ m_cv' = 0
        /\ ~wild' => owner # NoFiber
        /\ m_handle' = [m_handle EXCEPT ![CvLock].waiters = TRUE]
        /\ owner # NoFiber => wait_list' = [wait_list EXCEPT ![owner] = Append(@, p)]
        /\ UNCHANGED <<waitable_object, timeout, last_result, readyVars>>
    BY <1>2, <1>3 DEF SignalKey, TransferToOwner
  <1>5. m_handle \in [Locks -> Word] /\ owner \in Fibers \cup {NoFiber}
    BY <1>1 DEF WordInv, Word
  <1>6. /\ m_handle' \in [Locks -> Word] /\ lock_address' \in [Fibers -> Locks \cup {NoLock}]
        /\ m_handle'[CvLock].owner = owner /\ m_handle'[CvLock].waiters
    <2>1. m_handle[CvLock] \in Word
      BY <1>5
    <2>2. m_handle'[CvLock] = [m_handle[CvLock] EXCEPT !.waiters = TRUE]
      BY <1>4, <1>5
    <2>3. /\ m_handle'[CvLock] \in Word
          /\ m_handle'[CvLock].owner = owner /\ m_handle'[CvLock].waiters
      BY <2>1, <2>2 DEF Word
    <2>4. m_handle' \in [Locks -> Word]
      BY <1>4, <1>5, <2>2, <2>3
    <2> QED BY <1>1, <2>3, <2>4 DEF WordInv
  <1>7. UNCHANGED <<fiber_state, m_thread_queue, m_runnable_fibers, asleep>>
    BY <1>4 DEF readyVars
  <1>8. WordInv'
    <2>1. PICK l \in Locks : l = CvLock
      OBVIOUS
    <2>2. Owns(f, l)' => m_handle'[l].owner = f
      BY <1>1, <1>6, <2>1 DEF Owns
    <2>3. \A g \in Fibers \ {f} : pc'[g] = pc[g] /\ operand'[g] = operand[g] /\ held'[g] = held[g]
                              /\ fiber_state'[g] = fiber_state[g]
      BY <1>1, <1>7
    <2>4. m_handle'[l].owner = m_handle[l].owner /\ pc'[f] \notin AtLock
      BY <1>1, <1>6, <2>1 DEF AtLock
    <2>5. WordStep(f, l)
      BY <1>1, <1>6, <2>2, <2>3, <2>4 DEF WordStep
    <2> QED BY <1>1, <2>5, WordMoves
  <1>9. CASE wild'
    BY <1>8, <1>9 DEF CvKept
  <1>10. CASE ~wild'
    <2>1. PICK o \in Fibers : o = owner
      BY <1>4, <1>5, <1>10
    <2>2. o # NoFiber /\ wait_list' = [wait_list EXCEPT ![o] = Append(@, p)]
      BY <1>4, <1>10, <2>1
    <2>3. ParkInv'
      BY <1>1, <1>2, <1>4, <1>7, <2>2, ParkTransferred DEF KernelInv
    <2>4. FieldsInv'
      BY <1>1, <1>4, <1>7, FieldsKept DEF KernelInv, FieldsInv
    <2>5. QueueInv' /\ RingInv'
      BY <1>1, <1>7, QueueKept, RingKept DEF KernelInv, fiberVars
    <2>6. RunInv'
      BY <1>1, <1>7, RunKept DEF KernelInv
    <2>7. LockInv'
      BY <1>1, LockStutter DEF KernelInv
    <2>8. CountInv' /\ RestInv'
      BY <1>1, <1>7 DEF KernelInv, CountInv, RestInv, Ready, Active, restVars
    <2>9. KernelInv'
      BY <2>3, <2>4, <2>5, <2>6, <2>7, <2>8 DEF KernelInv
    <2>10. NoneHung' /\ NobodySleeps' /\ ParentInv'
      BY <1>1, <1>4, <1>7 DEF NoneHung, NobodySleeps, ParentInv
    <2>11. ASSUME WaitersInv PROVE WaitersInv'
      <3> SUFFICES ASSUME NEW g \in Fibers, fiber_state'[g] = "Waiting" PROVE Behind(g)'
        BY DEF WaitersInv
      <3>1. fiber_state[g] = "Waiting" /\ lock_address'[g] = CvLock
        BY <1>1, <1>7 DEF NoneHung, OneLock
      <3>2. wait_list[o] \in Seq(Fibers) /\ wait_list \in [Fibers -> Seq(Fibers)]
        BY <1>1 DEF KernelInv, ParkInv
      <3>3. Elements(wait_list'[o]) = Elements(wait_list[o]) \cup {p}
        BY <2>2, <3>2, ListAppend
      <3>4. g = p \/ g \in Elements(wait_list[o])
        <4>1. Elements(m_wait_list) = {p}
          BY <1>2, ListOfOne
        <4>2. Behind(g) => g \in Elements(wait_list[o])
          BY <1>1, <2>1, <3>1 DEF Behind
        <4> QED BY <2>11, <3>1, <4>1, <4>2 DEF WaitersInv
      <3> QED BY <1>6, <2>1, <2>2, <3>1, <3>3, <3>4 DEF Behind
    <2> QED BY <1>1, <1>4, <1>8, <2>9, <2>10, <2>11, CvIsKept
  <1> QED BY <1>9, <1>10

\* SignalKeyImpl.
LEMMA SignalKeepsCv ==
    ASSUME OneLock, LocksInv, ParentInv, NEW f \in Fibers, NEW c \in Cores, SignalKey(f, c)
    PROVE  CvKept /\ UNCHANGED stolen
  BY SignalRuns, SignalNobodyKeepsCv, SignalWakesKeepsCv, SignalTransfersKeepsCv

-----------------------------------------------------------------------------
(* A wait that times out. *)

\* The scheduler runs on c: nobody hangs.
LEMMA ScanIsNotStuck ==
    ASSUME LocksInv, NEW c \in Cores, phase[c] = "scan", Schedules(c)
    PROVE  KernelInv /\ NoneHung /\ WordInv /\ NobodySleeps /\ ~Stuck
  BY DEF LocksInv, Stuck, Schedules

\* With the lock free: the parent returns with it.
LEMMA CancelKeepsCv ==
    ASSUME OneLock, LocksInv, ParentInv, NEW f \in Fibers, NEW c \in Cores, CancelKeyWait(c, f),
           m_handle[CvLock] = Unlocked
    PROVE  CvKept /\ UNCHANGED stolen
  <1>1. /\ phase[c] = "scan" /\ Schedules(c) /\ f \in Elements(m_wait_list)
        /\ CancelWithLock(f) /\ UNCHANGED stolen
        /\ UNCHANGED <<fiberVars, waitable_object, restVars, current_core, local_ring, m_scheduler_lock,
                       phase, running, aborted, lock_address, pc, operand, handle, held, m_cv>>
    BY DEF CancelKeyWait, TimedOut
  <1>2. KernelInv /\ NoneHung /\ WordInv /\ NobodySleeps /\ ~Stuck
    BY <1>1, ScanIsNotStuck
  <1>3. /\ m_handle' = [m_handle EXCEPT ![CvLock] = Tag(f)]
        /\ m_wait_list' = Without(m_wait_list, f)
        /\ wait_list' = IF wait_list[f] = <<>> THEN wait_list
                        ELSE [wait_list EXCEPT ![f] = <<>>, ![Head(wait_list[f])] = @ \o Tail(wait_list[f])]
        /\ EndFiberWaitImpl(<<f>>, "Timeout")
        /\ UNCHANGED wild
    BY <1>1 DEF CancelWithLock, OrphanFirstChild
  <1>4. fiber_state[f] = "Waiting"
    BY <1>1, <1>2, ParkedThere DEF KernelInv
  <1>5. <<f>> \in Seq(Fibers) /\ Once(<<f>>) /\ Elements(<<f>>) = {f}
    BY ListOfOne
  <1>6. /\ FieldsInv' /\ QueueInv' /\ RingInv' /\ RunInv' /\ LockInv' /\ CountInv' /\ RestInv'
        /\ \A g \in Fibers : fiber_state'[g] =
               IF g \notin Elements(<<f>>) THEN fiber_state[g]
               ELSE IF activity_level[g] = "Schedulable" THEN "Scheduled" ELSE "Suspended"
    <2>1. waitable_object' \in [Fibers -> WaitableObjects]
      BY <1>1, <1>2 DEF KernelInv, FieldsInv
    <2>2. \A d \in Cores : phase[d] \notin {"booted", "switched"}
      BY <1>1, <1>2, OneSchedules DEF KernelInv, Schedules
    <2>3. \A g \in Elements(<<f>>) : fiber_state[g] = "Waiting"
      BY <1>4, <1>5
    <2> QED BY <1>1, <1>2, <1>3, <1>5, <2>1, <2>2, <2>3, WaitEnded
  <1>7. fiber_state'[f] # "Waiting" /\ \A g \in Fibers \ {f} : fiber_state'[g] = fiber_state[g]
    BY <1>5, <1>6
  <1>8. ParkInv'
    <2> DEFINE r == wait_list[f]
               l == <<>>
    <2>1. /\ wait_list \in [Fibers -> Seq(Fibers)] /\ r \in Seq(Fibers) /\ Once(r)
      BY <1>2 DEF KernelInv, ParkInv
    <2>2. l \in Seq(Fibers) /\ Elements(l) = {}
      BY EmptyList
    <2>3. \/ /\ r = <<>> /\ wait_list' = [wait_list EXCEPT ![f] = <<>>]
             /\ m_wait_list' = Without(m_wait_list, f)
          \/ /\ r # <<>> /\ wait_list' = [wait_list EXCEPT ![f] = <<>>, ![Head(r)] = @ \o Tail(r)]
             /\ m_wait_list' \in {Append(Without(m_wait_list, f), Head(r)), Without(m_wait_list, f)}
      <3>1. CASE r = <<>>
        <4>1. wait_list = [wait_list EXCEPT ![f] = <<>>]
          BY <2>1, <3>1
        <4> QED BY <1>3, <3>1, <4>1
      <3>2. CASE r # <<>>
        BY <1>3, <3>2
      <3> QED BY <3>1, <3>2
    <2> HIDE DEF l
    <2>4. \A g \in Fibers : fiber_state'[g] = "Waiting" <=>
                               fiber_state[g] = "Waiting" /\ g # f /\ g \notin Elements(l)
      BY <1>7, <2>2
    <2>5. ParkInv /\ Elements(l) \cap Elements(r) = {} /\ Elements(wait_list[f]) = Elements(l) \cup Elements(r)
      BY <1>2, <2>2 DEF KernelInv
    <2> QED BY <1>1, <2>1, <2>2, <2>3, <2>4, <2>5, ParkMoved
  <1>9. KernelInv'
    BY <1>6, <1>8 DEF KernelInv
  <1>10. m_wait_list' = <<>> /\ Elements(m_wait_list) = {f}
    <2>1. PICK p \in Fibers : m_wait_list = <<p>>
      BY <1>1, EmptyList DEF ParentInv
    <2>2. Elements(m_wait_list) = {f} /\ m_wait_list \in Seq(Fibers)
      BY <1>1, <2>1, ListOfOne
    <2>3. m_wait_list' \in Seq(Fibers) /\ Elements(m_wait_list') = {}
      <3>1. Elements(Without(m_wait_list, f)) = Elements(m_wait_list) \cap (Fibers \ {f})
        BY <2>2, KeptInList DEF Without
      <3>2. Without(m_wait_list, f) \in Seq(Fibers)
        BY <2>2, KeptInList DEF Without
      <3> QED BY <1>3, <2>2, <3>1, <3>2
    <2> QED BY <2>2, <2>3, ListElements
  <1>11. ParentInv'
    BY <1>10 DEF ParentInv
  <1>12. /\ m_handle' \in [Locks -> Word] /\ m_handle'[CvLock].owner = f
         /\ m_handle[CvLock].owner = NoFiber /\ m_handle[CvLock].waiters = FALSE
    BY <1>2, <1>3 DEF WordInv, Word, Unlocked, Tag
  <1>13. WordInv'
    <2>1. PICK l \in Locks : l = CvLock
      OBVIOUS
    <2>2. m_handle'[l].owner = f /\ m_handle[l].owner \in {NoFiber, f}
      BY <1>12, <2>1
    <2>3. /\ lock_address' \in [Fibers -> Locks \cup {NoLock}]
          /\ pc' \in [Fibers -> Places] /\ operand' \in [Fibers -> Locks \cup {NoLock}]
          /\ handle' \in [Fibers -> Word] /\ held' \in [Fibers -> SUBSET Locks]
          /\ pc'[f] \in AtLock => operand'[f] \in Locks /\ held'[f] = {}
      BY <1>1, <1>2 DEF WordInv
    <2>4. \A g \in Fibers \ {f} :
              /\ pc'[g] = pc[g] /\ operand'[g] = operand[g] /\ held'[g] = held[g]
              /\ fiber_state[g] = "Waiting" /\ fiber_state'[g] # "Waiting" => m_handle'[l].owner = g
      BY <1>1, <1>7
    <2>5. WordStep(f, l)
      BY <1>2, <1>12, <2>2, <2>3, <2>4 DEF WordStep
    <2> QED BY <1>2, <2>5, WordMoves
  <1>14. NoneHung' /\ NobodySleeps'
    BY <1>1, <1>2, <1>7 DEF NoneHung, NobodySleeps
  <1>15. ASSUME WaitersInv PROVE WaitersInv'
    <2> SUFFICES ASSUME NEW g \in Fibers, fiber_state'[g] = "Waiting" PROVE FALSE
      BY DEF WaitersInv
    <2>1. g # f /\ fiber_state[g] = "Waiting"
      BY <1>7
    <2>2. Behind(g)
      BY <1>10, <1>15, <2>1 DEF WaitersInv
    <2>3. lock_address[g] = CvLock
      BY <1>2, <2>1 DEF NoneHung, OneLock
    <2> QED BY <1>12, <2>2, <2>3 DEF Behind
  <1> QED BY <1>1, <1>2, <1>9, <1>10, <1>11, <1>13, <1>14, <1>15, CvIsKept

-----------------------------------------------------------------------------
(* The invariant and what it says. *)

\* It holds when nobody has waited.
LEMMA CvStarts ==
    ASSUME CvInit
    PROVE  ~stolen /\ ~wild /\ LocksInv /\ ParentInv /\ SignalInv
  BY LocksInit DEF CvInit, ParentInv, SignalInv

\* A step from before any list code has left its list keeps it, or steals the lock.
LEMMA CvSteps ==
    ASSUME OneLock, ~stolen, LocksInv, ParentInv, CvNext
    PROVE  stolen' \/ (~stolen' /\ CvKept)
  <1>1. CASE Next /\ UNCHANGED cvVars
    <2>1. LocksKept
      BY <1>1, LocksNext
    <2>2. ~stolen'
      BY <1>1 DEF cvVars
    <2> QED BY <1>1, <2>1, <2>2, LockKeepsCv
  <1>2. ASSUME NEW c \in Cores, NEW f \in Fibers, CvStep(f, c) PROVE ~stolen' /\ CvKept
    <2>1. ASSUME NEW t \in Timeouts, WaitKey(f, c, t) PROVE ~stolen' /\ CvKept
      BY <2>1, WaitKeepsCv
    <2>2. CASE WaitReturns(f, c)
      BY <2>2, WaitReturnsKeepsCv DEF WaitReturns, cvVars
    <2>3. ASSUME NEW call \in {"signal", "broadcast"}, BeginSignal(f, c, call) PROVE ~stolen' /\ CvKept
      BY <2>3, BeginSignalKeepsCv DEF BeginSignal, cvVars
    <2>4. CASE SignalKey(f, c)
      BY <2>4, SignalKeepsCv
    <2> QED BY <1>2, <2>1, <2>2, <2>3, <2>4 DEF CvStep
  <1>3. ASSUME NEW c \in Cores, NEW f \in Fibers, CancelKeyWait(c, f)
        PROVE  stolen' \/ (~stolen' /\ CvKept)
    <2>1. CASE m_handle[CvLock] = Unlocked
      BY <1>3, <2>1, CancelKeepsCv
    <2>2. CASE m_handle[CvLock] # Unlocked
      BY <1>3, <2>2 DEF CancelKeyWait
    <2> QED BY <2>1, <2>2
  <1> QED BY <1>1, <1>2, <1>3 DEF CvNext

\* A lock that is stolen stays so, and so does a list that was left.
LEMMA CvEnds ==
    ASSUME [CvNext]_allVars, stolen
    PROVE  stolen'
  <1>1. CASE UNCHANGED allVars
    BY <1>1 DEF allVars, cvVars
  <1>2. ASSUME NEW c \in Cores, NEW f \in Fibers, CvStep(f, c) PROVE UNCHANGED stolen
    BY <1>2 DEF CvStep, WaitKey, WaitReturns, BeginSignal, SignalKey, cvVars
  <1>3. ASSUME NEW c \in Cores, NEW f \in Fibers, CancelKeyWait(c, f) PROVE stolen'
    BY <1>3 DEF CancelKeyWait
  <1> QED BY <1>1, <1>2, <1>3 DEF CvNext, cvVars

\* A step in which nothing changes.
LEMMA CvStutter ==
    ASSUME UNCHANGED allVars
    PROVE  /\ WordInv => WordInv'
           /\ LocksInv => LocksInv' /\ (QueuedInv => QueuedInv')
           /\ UNCHANGED <<m_wait_list, m_cv, stolen, wild>>
  <1>1. UNCHANGED vars /\ UNCHANGED <<m_cv, stolen, wild>>
    BY DEF allVars, cvVars
  <1>2. UNCHANGED kernelVars /\ UNCHANGED lockVars
    BY <1>1 DEF vars
  <1>3. UNCHANGED <<lockVars, wait_list, m_wait_list, fiber_state>>
    BY <1>2 DEF kernelVars
  <1>4. WordInv => WordInv'
    BY <1>3, SparedWaiters
  <1> QED BY <1>1, <1>3, <1>4, LocksStutter DEF LocksKept

\* CvInv is an invariant of the condition variable on one lock: between the calls of
\* any number of fibers on any number of cores, a Signal, a Broadcast and a TimedWait
\* that finds the lock free make a waiter runnable only as the owner of the lock.
THEOREM CvInvariance == ASSUME OneLock PROVE CvSpec => []CvInv
  <1>1. CvInit => CvInv
    BY CvStarts DEF CvInv, LocksInv
  <1>2. CvInv /\ [CvNext]_allVars => CvInv'
    <2> SUFFICES ASSUME CvInv, [CvNext]_allVars PROVE CvInv'
      OBVIOUS
    <2>1. CASE stolen
      BY <2>1, CvEnds DEF CvInv
    <2>2. CASE ~stolen /\ UNCHANGED allVars
      BY <2>2, CvStutter DEF CvInv, ParentInv
    <2>3. CASE ~stolen /\ CvNext
      <3>1. ~wild
        BY <2>3 DEF CvNext
      <3> QED BY <2>3, <3>1, CvSteps DEF CvInv, CvKept
    <2> QED BY <2>1, <2>2, <2>3
  <1> QED BY <1>1, <1>2, PTL DEF CvSpec

\* WaiterOwnsLock: who is back from Wait or TimedWait owns the lock by its word, until
\* a wait that times out steals it.
THEOREM WaitReturnsWithLock == ASSUME OneLock PROVE CvSpec => []WaiterOwnsLock
  <1>1. CvInv => WaiterOwnsLock
    BY HoldersAreNamed DEF CvInv, WaiterOwnsLock
  <1> QED BY <1>1, CvInvariance, PTL

\* MutualExclusion: what Wait releases and the signals take back and hand over is held
\* by one fiber at a time, until a wait that times out steals it.
THEOREM CvExcludes == ASSUME OneLock PROVE CvSpec => [](stolen \/ MutualExclusion)
  <1>1. CvInv => stolen \/ MutualExclusion
    <2> SUFFICES ASSUME WordInv, NEW f \in Fibers, NEW g \in Fibers, NEW l \in held[f] \cap held[g]
                 PROVE  f = g
      BY DEF CvInv, MutualExclusion
    <2> QED BY HoldersAreNamed
  <1> QED BY <1>1, CvInvariance, PTL

\* WaitersAreSignalled: however the calls of the one fiber that waits, the signals and
\* the hand-overs of the lock meet, no wait of it is lost.  (Of two waiters the second
\* is behind the first, and is in no list that a Signal or a Leave looks at once the
\* first has been signalled.)
THEOREM WaitsAreNotLost == ASSUME OneLock, OneWaiter PROVE CvSpec => []WaitersAreSignalled
  <1> DEFINE I == CvInv /\ (stolen \/ wild \/ SignalInv)
  <1>1. CvInit => I
    BY CvStarts DEF CvInv, LocksInv
  <1>2. I /\ [CvNext]_allVars => I'
    <2> SUFFICES ASSUME I, [CvNext]_allVars PROVE I'
      OBVIOUS
    <2>1. CASE stolen
      BY <2>1, CvEnds DEF CvInv
    <2>2. CASE ~stolen /\ UNCHANGED allVars
      BY <2>2, CvStutter DEF CvInv, ParentInv, SignalInv
    <2>3. CASE ~stolen /\ CvNext
      <3>1. ~wild
        BY <2>3 DEF CvNext
      <3> QED BY <2>3, <3>1, CvSteps DEF CvInv, CvKept
    <2> QED BY <2>1, <2>2, <2>3
  <1>3. I => WaitersAreSignalled
    <2> SUFFICES ASSUME LocksInv, ParentInv, SignalInv, LockFree,
                        NEW f \in Fibers, fiber_state[f] = "Waiting"
                 PROVE  \/ m_cv = 1 /\ Parent # NoFiber /\ f \in {Parent} \cup Elements(wait_list[Parent])
                        \/ LET w == m_handle[CvLock]
                           IN  w.waiters /\ w.owner # NoFiber /\ f \in Elements(wait_list[w.owner])
      BY DEF CvInv, WaitersAreSignalled
    <2>1. NoneHung /\ WaitersInv
      BY FreeIsNotStuck DEF SignalInv, QueuedInv
    <2>2. lock_address[f] = CvLock
      BY <2>1 DEF NoneHung, OneLock
    <2>3. CASE f \in Elements(m_wait_list)
      <3>1. m_wait_list # <<>> /\ Elements(m_wait_list) = {Parent}
        BY <2>3, EmptyList, ListOfOne, ParentIs
      <3> QED BY <2>3, <3>1, ParentIs DEF SignalInv
    <2>4. CASE Behind(f)
      BY <2>2, <2>4 DEF Behind
    <2> QED BY <2>1, <2>3, <2>4 DEF WaitersInv
  <1> QED BY <1>1, <1>2, <1>3, PTL DEF CvSpec
=============================================================================
