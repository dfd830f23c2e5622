--------------------------- MODULE ServicesProofs ---------------------------
(* The services of sys keep their promises for any number of fibers, native  *)
(* threads and messages, and for queues of any size.  Each service has an    *)
(* inductive invariant of its own; a step of one leaves the others alone.    *)
EXTENDS MCServices, FiniteSetTheorems, SequenceTheorems, TLAPS

-----------------------------------------------------------------------------
(* ServiceCriticalSection and ServiceMutex. *)

Sharers == LockFibers \cup LockNatives

\* The system's lock is entered as often as its word says, but for a holder
\* that has begun to leave; and who is inside, or on the way out, has it.
LkInv ==
    /\ k_recursive \in BOOLEAN
    /\ k_m_owner \in Sharers \cup {None} /\ k_holder \in Sharers \cup {None}
    /\ k_m_lock_count \in Nat /\ k_depth \in Nat
    /\ k_pc \in [Sharers -> {"out", "look", "wait", "asleep", "acquire", "in", "wake", "release"}]
    /\ k_holder = None <=> k_depth = 0
    /\ \A t \in Sharers : k_pc[t] \in {"in", "wake", "release"} => k_holder = t
    /\ k_m_owner # None => k_m_owner = k_holder
    /\ k_m_lock_count =
          IF k_holder # None /\ k_pc[k_holder] \in {"wake", "release"} THEN k_depth - 1 ELSE k_depth
    /\ k_m_owner = None <=> k_m_lock_count = 0
    /\ \A t \in Sharers : k_pc[t] = "wake" => k_depth = 1
    /\ ~k_recursive /\ k_holder # None => k_pc[k_holder] \in {"in", "wake", "release"}
    /\ k_holder # None => k_pc[k_holder] \notin {"out", "wait", "asleep"}

LEMMA LkInit == ASSUME Lk!Init PROVE LkInv
BY ServicesAssumption DEF Lk!Init, LkInv, Lk!Threads, Sharers

LEMMA LkStep == ASSUME LkInv, Lk!Next PROVE LkInv'
<1> USE DEF Sharers, Lk!Threads
<1>1. PICK t \in Sharers :
         \/ Lk!Enter(t) \/ Lk!Look(t) \/ Lk!Wait(t) \/ Lk!Acquire(t)
         \/ Lk!Disown(t) \/ Lk!Wake(t) \/ Lk!Release(t)
  BY DEF Lk!Next
<1>2. t # None
  BY ServicesAssumption
<1>3. CASE Lk!Enter(t)
  BY <1>2, <1>3 DEF LkInv, Lk!Enter, Lk!Goes
<1>4. CASE Lk!Look(t)
  BY <1>2, <1>4 DEF LkInv, Lk!Look, Lk!Goes
<1>5. CASE Lk!Wait(t)
  BY <1>2, <1>5 DEF LkInv, Lk!Wait, Lk!Goes
<1>6. CASE Lk!Acquire(t)
  <2>1. /\ k_pc[t] = "acquire" /\ (k_holder = None \/ k_holder = t)
        /\ k_holder' = t /\ k_depth' = k_depth + 1 /\ k_m_owner' = t
        /\ k_m_lock_count' = k_m_lock_count + 1 /\ k_recursive' = k_recursive
        /\ k_pc' = [k_pc EXCEPT ![t] = "in"]
    BY <1>6 DEF Lk!Acquire, Lk!Goes
  <2>2. k_m_lock_count = k_depth
    BY <2>1 DEF LkInv
  <2>3. \A s \in Sharers : k_pc'[s] = IF s = t THEN "in" ELSE k_pc[s]
    BY <2>1 DEF LkInv
  <2>4. \A s \in Sharers : k_pc'[s] \in {"in", "wake", "release"} => k_holder' = s
    BY <2>1, <2>3, ServicesAssumption DEF LkInv
  <2>5. \A s \in Sharers : k_pc'[s] # "wake"
    BY <2>4, <2>1, <2>3
  <2> QED
    BY <1>2, <2>1, <2>2, <2>3, <2>4, <2>5 DEF LkInv
<1>7. CASE Lk!Disown(t)
  BY <1>2, <1>7 DEF LkInv, Lk!Disown, Lk!Goes
<1>8. CASE Lk!Wake(t)
  <2>1. PICK woken \in SUBSET {f \in LockFibers : k_pc[f] = "asleep"} :
           k_pc' = [s \in Sharers |-> IF s = t THEN "release"
                                      ELSE IF s \in woken THEN "look" ELSE k_pc[s]]
    BY <1>8 DEF Lk!Wake
  <2>2. /\ k_pc[t] = "wake"
        /\ UNCHANGED <<k_recursive, k_m_owner, k_m_lock_count, k_holder, k_depth>>
    BY <1>8 DEF Lk!Wake
  <2>3. \A s \in Sharers : s # t =>
           k_pc'[s] = k_pc[s] \/ (k_pc[s] = "asleep" /\ k_pc'[s] = "look")
    BY <2>1
  <2>4. k_pc'[t] = "release"
    BY <2>1
  <2>5. k_pc' \in [Sharers -> {"out", "look", "wait", "asleep", "acquire", "in", "wake", "release"}]
    BY <2>1 DEF LkInv
  <2> QED
    BY <1>2, <2>2, <2>3, <2>4, <2>5 DEF LkInv
<1>9. CASE Lk!Release(t)
  BY <1>2, <1>9 DEF LkInv, Lk!Release, Lk!Goes
<1> QED
  BY <1>1, <1>3, <1>4, <1>5, <1>6, <1>7, <1>8, <1>9

LEMMA LkStutter == ASSUME LkInv, UNCHANGED k_vars PROVE LkInv'
BY DEF LkInv, k_vars

-----------------------------------------------------------------------------
(* Event. *)

Users == Fibers \cup Natives

\* Nobody waits where the next signal looks while the event is signaled, and with
\* manual reset nobody is in the list of a fiber that does not wait itself.
EvInv ==
    /\ e_m_auto_reset_mode \in BOOLEAN /\ e_m_signal_state \in BOOLEAN /\ e_stuck \in BOOLEAN
    /\ e_parent \in Clients \cup {None}
    /\ e_behind \in [Clients -> SUBSET Clients]
    /\ Ev!NoSleeperIsForgotten

LEMMA EvInit == ASSUME Ev!Init PROVE EvInv
BY DEF Ev!Init, EvInv, Ev!NoSleeperIsForgotten

LEMMA EvStep == ASSUME EvInv, Ev!Next PROVE EvInv'
<1> USE DEF Ev!NoSleeperIsForgotten
<1>1. PICK t \in Clients : Ev!Signal(t) \/ Ev!Clear(t) \/ Ev!Wait(t) \/ Ev!Contend(t)
  BY DEF Ev!Next
<1>2. ~e_stuck
  BY DEF Ev!Next
<1>3. CASE Ev!Signal(t)
  <2>1. t # e_parent
    BY <1>3 DEF Ev!Signal, Ev!Awake
  <2>2. ~e_m_auto_reset_mode => e_behind[t] = {}
    BY <2>1 DEF EvInv
  <2> QED
    BY <1>2, <1>3, <2>2 DEF EvInv, Ev!Signal, Ev!HandsOverTwo
<1>4. CASE Ev!Clear(t)
  BY <1>4 DEF EvInv, Ev!Clear
<1>5. CASE Ev!Wait(t)
  <2>1. t # e_parent /\ ~e_m_signal_state /\ UNCHANGED <<e_m_auto_reset_mode, e_m_signal_state>>
    BY <1>5 DEF Ev!Wait, Ev!Awake
  <2>2. CASE UNCHANGED <<e_parent, e_behind>> /\ e_stuck'
    BY <2>1, <2>2 DEF EvInv
  <2>3. CASE e_parent = None /\ e_parent' = t /\ UNCHANGED <<e_behind, e_stuck>>
    <3>1. ~e_m_auto_reset_mode => \A u \in Clients : e_behind[u] = {}
      BY <2>3, ServicesAssumption DEF EvInv
    <3> QED
      BY <2>1, <2>3, <3>1 DEF EvInv
  <2>4. CASE /\ e_parent # None
             /\ e_behind' = [e_behind EXCEPT ![t] = {}, ![e_parent] = @ \cup {t} \cup e_behind[t]]
             /\ UNCHANGED <<e_parent, e_stuck>>
    <3>1. e_parent \in Clients
      BY <2>4 DEF EvInv
    <3>2. e_behind' \in [Clients -> SUBSET Clients]
      BY <2>4, <3>1 DEF EvInv
    <3>3. \A u \in Clients : u # e_parent => e_behind'[u] = {} \/ e_behind'[u] = e_behind[u]
      BY <2>4, <3>1 DEF EvInv
    <3> QED
      BY <2>1, <2>4, <3>2, <3>3 DEF EvInv
  <2> QED
    BY <1>5, <2>2, <2>3, <2>4 DEF Ev!Wait
<1>6. CASE Ev!Contend(t)
  BY <1>6 DEF EvInv, Ev!Contend
<1> QED
  BY <1>1, <1>3, <1>4, <1>5, <1>6

LEMMA EvStutter == ASSUME EvInv, UNCHANGED e_vars PROVE EvInv'
BY DEF EvInv, e_vars, Ev!NoSleeperIsForgotten

-----------------------------------------------------------------------------
(* MessageQueue: who sleeps. *)

Size == 0 .. Max - 1

\* Receivers sleep on an empty ring and senders on a full one.
MqInv ==
    /\ q_m_pending_messages \in 0 .. Max /\ q_m_current_message \in Size
    /\ q_m_message_buffer \in [Size -> Messages \cup {NoMessage}]
    /\ q_received \in Messages \cup {NoMessage}
    /\ q_call \in [Clients -> [op : Mq!Sends \cup Mq!Receives \cup {"trypeek", "none"},
                               message : Messages \cup {NoMessage}]]
    /\ \A t \in Clients : q_call[t].op \in Mq!Sends => q_call[t].message \in Messages
    /\ q_asleep \in [{"m_message_sent_cv", "m_buffer_full_cv"} -> SUBSET Clients]
    /\ Mq!NoSleeperIsForgotten

LEMMA MqInit == ASSUME Mq!Init PROVE MqInv
<1>1. q_asleep = [m_message_sent_cv |-> {}, m_buffer_full_cv |-> {}]
  BY DEF Mq!Init
<1>2. q_asleep \in [{"m_message_sent_cv", "m_buffer_full_cv"} -> SUBSET Clients]
  BY <1>1
<1>3. Mq!NoSleeperIsForgotten
  BY <1>1 DEF Mq!NoSleeperIsForgotten
<1> QED
  BY <1>2, <1>3, ServicesAssumption DEF Mq!Init, MqInv, Size, Mq!NoCall, Mq!Sends, Mq!Jams

LEMMA SlotType ==
    ASSUME NEW i \in 0 .. 2 * Max - 1
    PROVE  Mq!Slot(i) \in Size /\ Ring!Slot(i) = Mq!Slot(i)
BY ServicesAssumption DEF Mq!Slot, Ring!Slot, Size

LEMMA MqStep == ASSUME MqInv, Mq!Next PROVE MqInv'
<1> USE DEF Size
<1>1. PICK t \in Clients :
         \/ \E op \in Mq!Sends, m \in Messages : Mq!Call(t, op, m)
         \/ \E op \in Mq!Receives \cup {"trypeek"} : Mq!Call(t, op, NoMessage)
         \/ Mq!Send(t) \/ Mq!Jam(t) \/ Mq!Receive(t) \/ Mq!Leave(t) \/ Mq!Wait(t)
         \/ Mq!Contend(t)
  BY DEF Mq!Next, Mq!Calls, Mq!Step
<1>0. ~q_stuck
  BY DEF Mq!Next, Mq!Step
<1>2. CASE \E op \in Mq!Sends, m \in Messages : Mq!Call(t, op, m)
  BY <1>2 DEF MqInv, Mq!Call, Mq!buffer, Mq!waiting, Mq!NoSleeperIsForgotten
<1>3. CASE \E op \in Mq!Receives \cup {"trypeek"} : Mq!Call(t, op, NoMessage)
  BY <1>3 DEF MqInv, Mq!Call, Mq!buffer, Mq!waiting, Mq!NoSleeperIsForgotten, Mq!Receives, Mq!Sends, Mq!Jams
<1>4. CASE Mq!Send(t)
  BY <1>0, <1>4, SlotType, ServicesAssumption, SMTT(30)
     DEF MqInv, Mq!Send, Mq!SendMessageImpl, Mq!Announce, Mq!Broadcast, Mq!Possible, Mq!Returns,
         Mq!NoSleeperIsForgotten, Mq!Sends, Mq!Jams, Mq!NoCall
<1>5. CASE Mq!Jam(t)
  BY <1>0, <1>5, SlotType, ServicesAssumption, SMTT(30)
     DEF MqInv, Mq!Jam, Mq!JamMessageImpl, Mq!Announce, Mq!Broadcast, Mq!Possible, Mq!Returns,
         Mq!NoSleeperIsForgotten, Mq!Sends, Mq!Jams, Mq!NoCall
<1>6. CASE Mq!Receive(t)
  BY <1>0, <1>6, SlotType, ServicesAssumption, SMTT(30)
     DEF MqInv, Mq!Receive, Mq!RecieveMessageImpl, Mq!Broadcast, Mq!Possible, Mq!Returns,
         Mq!NoSleeperIsForgotten, Mq!Sends, Mq!Jams, Mq!Receives, Mq!NoCall
<1>7. CASE Mq!Leave(t)
  BY <1>0, <1>7, ServicesAssumption
     DEF MqInv, Mq!Leave, Mq!Returns, Mq!buffer, Mq!NoSleeperIsForgotten, Mq!Sends, Mq!Jams, Mq!NoCall
<1>8. CASE Mq!Wait(t)
  <2>1. PICK cv \in {"m_message_sent_cv", "m_buffer_full_cv"} :
           /\ q_asleep' = [q_asleep EXCEPT ![cv] = @ \cup {t}]
           /\ cv = "m_buffer_full_cv" => ~(q_m_pending_messages < Max)
           /\ cv = "m_message_sent_cv" => q_m_pending_messages = 0
    BY <1>8 DEF Mq!Wait, Mq!Possible
  <2>2. UNCHANGED <<Mq!buffer, q_call, q_stuck, q_received>>
    BY <1>8 DEF Mq!Wait
  <2>3. q_asleep' \in [{"m_message_sent_cv", "m_buffer_full_cv"} -> SUBSET Clients]
    BY <2>1 DEF MqInv
  <2>4. Mq!NoSleeperIsForgotten'
    BY <1>0, <2>1, <2>2, ServicesAssumption DEF MqInv, Mq!NoSleeperIsForgotten, Mq!buffer
  <2> QED
    BY <2>2, <2>3, <2>4 DEF MqInv, Mq!buffer
<1>9. CASE Mq!Contend(t)
  BY <1>9 DEF MqInv, Mq!Contend, Mq!buffer, Mq!NoSleeperIsForgotten
<1> QED
  BY <1>1, <1>2, <1>3, <1>4, <1>5, <1>6, <1>7, <1>8, <1>9

LEMMA MqStutter == ASSUME MqInv, UNCHANGED q_vars PROVE MqInv'
BY DEF MqInv, q_vars, Mq!NoSleeperIsForgotten

-----------------------------------------------------------------------------
(* The ring of both queues is a sequence. *)

\* The n messages in ring b from place o, as Contents reads them.
RingOf(b, o, n) == [i \in 1 .. n |-> b[Mq!Slot(o + i - 1)]]

\* The place in front of the first message, where a jam puts its own.
InFront(o) == (IF o < 1 THEN o + Max ELSE o) - 1

\* A place of the ring by the number of steps that lead to it.
LEMMA SlotSteps ==
    ASSUME NEW o \in Size
    PROVE  /\ \A i \in 0 .. Max : Mq!Slot(o + i) \in Size
           /\ \A i, j \in 0 .. Max - 1 : Mq!Slot(o + i) = Mq!Slot(o + j) => i = j
           /\ \A i \in 0 .. Max - 1 : Mq!Slot(Mq!Slot(o + 1) + i) = Mq!Slot(o + i + 1)
           /\ InFront(o) \in Size
           /\ \A i \in 0 .. Max - 1 : Mq!Slot(InFront(o) + i + 1) = Mq!Slot(o + i)
           /\ Mq!Slot(InFront(o)) = InFront(o)
           /\ Mq!Slot(o) = o
BY ServicesAssumption DEF Mq!Slot, Size, InFront

LEMMA RingIsSequence ==
    ASSUME NEW M, NEW b \in [Size -> M], NEW o \in Size, NEW n \in 0 .. Max
    PROVE  /\ RingOf(b, o, n) \in Seq(M)
           /\ Len(RingOf(b, o, n)) = n
           /\ \A i \in 1 .. n : RingOf(b, o, n)[i] = b[Mq!Slot(o + i - 1)]
<1>1. \A i \in 1 .. n : Mq!Slot(o + i - 1) \in Size
  <2>1. \A i \in 1 .. n : i - 1 \in 0 .. Max /\ o + i - 1 = o + (i - 1)
    BY ServicesAssumption DEF Size
  <2> QED
    BY <2>1, SlotSteps
<1>2. RingOf(b, o, n) \in [1 .. n -> M]
  BY <1>1 DEF RingOf
<1>3. n \in Nat
  BY ServicesAssumption
<1> QED
  BY <1>2, <1>3 DEF RingOf

\* A message put behind the last one is appended.
LEMMA RingAppend ==
    ASSUME NEW M, NEW b \in [Size -> M], NEW o \in Size, NEW n \in 0 .. Max, n < Max, NEW m \in M
    PROVE  RingOf([b EXCEPT ![Mq!Slot(o + n)] = m], o, n + 1) = Append(RingOf(b, o, n), m)
<1> DEFINE c == [b EXCEPT ![Mq!Slot(o + n)] = m]
           s == RingOf(b, o, n)
           r == RingOf(c, o, n + 1)
<1>1. n + 1 \in 0 .. Max /\ n \in Nat /\ n \in 0 .. Max - 1
  BY ServicesAssumption
<1>0. c \in [Size -> M] /\ \A x \in Size : c[x] = IF x = Mq!Slot(o + n) THEN m ELSE b[x]
  OBVIOUS
<1> HIDE DEF c
<1>2. /\ r \in Seq(M) /\ Len(r) = n + 1
      /\ \A i \in 1 .. n + 1 : r[i] = c[Mq!Slot(o + i - 1)]
  BY <1>0, <1>1, RingIsSequence, ZenonT(60)
<1>3. /\ s \in Seq(M) /\ Len(s) = n
      /\ \A i \in 1 .. n : s[i] = b[Mq!Slot(o + i - 1)]
  BY RingIsSequence, ZenonT(40)
<1>4. \A i \in 1 .. n : /\ Mq!Slot(o + i - 1) \in Size
                        /\ Mq!Slot(o + i - 1) # Mq!Slot(o + n)
  <2> SUFFICES ASSUME NEW i \in 1 .. n
               PROVE  /\ Mq!Slot(o + i - 1) \in Size
                      /\ Mq!Slot(o + i - 1) # Mq!Slot(o + n)
    OBVIOUS
  <2>1. i - 1 \in 0 .. Max - 1 /\ n \in 0 .. Max - 1 /\ i - 1 # n /\ o + i - 1 = o + (i - 1)
    BY <1>1, ServicesAssumption DEF Size
  <2> QED
    BY <2>1, SlotSteps, ServicesAssumption
<1>5. Mq!Slot(o + n) \in Size
  BY <1>1, SlotSteps
<1> HIDE DEF s, r
<1>6. /\ Append(s, m) \in Seq(M) /\ Len(Append(s, m)) = n + 1
      /\ \A i \in 1 .. n + 1 : Append(s, m)[i] = IF i = n + 1 THEN m ELSE s[i]
  BY <1>1, <1>3
<1>7. \A i \in 1 .. n + 1 : r[i] = Append(s, m)[i]
  <2> SUFFICES ASSUME NEW i \in 1 .. n + 1 PROVE r[i] = Append(s, m)[i]
    OBVIOUS
  <2>1. CASE i = n + 1
    <3>1. o + i - 1 = o + n
      BY <2>1, <1>1 DEF Size
    <3> QED
      BY <2>1, <3>1, <1>0, <1>2, <1>5, <1>6
  <2>2. CASE i \in 1 .. n
    <3>1. i # n + 1
      BY <2>2, <1>1
    <3>2. r[i] = b[Mq!Slot(o + i - 1)]
      BY <2>2, <1>0, <1>2, <1>4
    <3> QED
      BY <2>2, <3>1, <3>2, <1>3, <1>6
  <2>3. i = n + 1 \/ i \in 1 .. n
    BY <1>1
  <2> QED
    BY <2>1, <2>2, <2>3
<1>8. r = Append(s, m)
  BY <1>1, <1>2, <1>6, <1>7, SeqEqual
<1> QED
  BY <1>8 DEF c, s, r

\* A message put in front of the first one goes first.
LEMMA RingJam ==
    ASSUME NEW M, NEW b \in [Size -> M], NEW o \in Size, NEW n \in 0 .. Max, n < Max, NEW m \in M
    PROVE  RingOf([b EXCEPT ![InFront(o)] = m], InFront(o), n + 1) = <<m>> \o RingOf(b, o, n)
<1>1x. PICK f \in Size : f = InFront(o)
  BY SlotSteps
<1> DEFINE c == [b EXCEPT ![f] = m]
           s == RingOf(b, o, n)
           r == RingOf(c, f, n + 1)
<1>1. n + 1 \in 0 .. Max /\ n \in Nat /\ n \in 0 .. Max - 1
  BY ServicesAssumption
<1>0. c \in [Size -> M] /\ \A x \in Size : c[x] = IF x = f THEN m ELSE b[x]
  BY <1>1
<1> HIDE DEF c
<1>2. /\ r \in Seq(M) /\ Len(r) = n + 1
      /\ \A i \in 1 .. n + 1 : r[i] = c[Mq!Slot(f + i - 1)]
  <2> HIDE DEF r
  <2>1. c \in [Size -> M] /\ f \in Size /\ n + 1 \in 0 .. Max
    BY <1>0, <1>1
  <2>2. PICK k : k = n + 1
    OBVIOUS
  <2>3. r = RingOf(c, f, k)
    BY <2>2 DEF r
  <2> QED
    BY <2>1, <2>2, <2>3, RingIsSequence, ZenonT(60)
<1>3. /\ s \in Seq(M) /\ Len(s) = n
      /\ \A i \in 1 .. n : s[i] = b[Mq!Slot(o + i - 1)]
  BY RingIsSequence
<1>4. \A i \in 1 .. n : /\ Mq!Slot(o + i - 1) \in Size
                        /\ Mq!Slot(f + i) = Mq!Slot(o + i - 1)
                        /\ Mq!Slot(f + i) # f
  <2> SUFFICES ASSUME NEW i \in 1 .. n
               PROVE  /\ Mq!Slot(o + i - 1) \in Size
                      /\ Mq!Slot(f + i) = Mq!Slot(o + i - 1)
                      /\ Mq!Slot(f + i) # f
    OBVIOUS
  <2>1. /\ i - 1 \in 0 .. Max - 1 /\ i \in 0 .. Max - 1 /\ 0 \in 0 .. Max - 1 /\ i # 0
        /\ o + i - 1 = o + (i - 1) /\ f + i = f + (i - 1) + 1 /\ f + 0 = f
    BY <1>1, ServicesAssumption DEF Size
  <2>2. Mq!Slot(o + (i - 1)) \in Size /\ Mq!Slot(f + (i - 1) + 1) = Mq!Slot(o + (i - 1))
    BY <1>1x, <2>1, SlotSteps, ServicesAssumption
  <2>3. Mq!Slot(f + 0) = f
    BY <2>1, SlotSteps
  <2>4. Mq!Slot(f + i) # Mq!Slot(f + 0)
    <3>1. \A k, l \in 0 .. Max - 1 : Mq!Slot(f + k) = Mq!Slot(f + l) => k = l
      BY SlotSteps
    <3> QED
      BY <2>1, <3>1
  <2> QED
    BY <2>1, <2>2, <2>3, <2>4
<1>5. Mq!Slot(f) = f
  BY SlotSteps
<1> HIDE DEF s, r
<1>6. <<m>> \in Seq(M) /\ Len(<<m>>) = 1 /\ <<m>>[1] = m
  OBVIOUS
<1>7. /\ <<m>> \o s \in Seq(M) /\ Len(<<m>> \o s) = n + 1
      /\ \A i \in 1 .. n + 1 : (<<m>> \o s)[i] = IF i = 1 THEN m ELSE s[i - 1]
  BY <1>1, <1>3, <1>6, ConcatProperties
<1>8. \A i \in 1 .. n + 1 : r[i] = (<<m>> \o s)[i]
  <2> SUFFICES ASSUME NEW i \in 1 .. n + 1 PROVE r[i] = (<<m>> \o s)[i]
    OBVIOUS
  <2>1. CASE i = 1
    <3>1. f + i - 1 = f
      BY <2>1, <1>1 DEF Size
    <3> QED
      BY <2>1, <3>1, <1>0, <1>1, <1>2, <1>5, <1>7
  <2>2. CASE i # 1
    <3>1. i - 1 \in 1 .. n /\ f + i - 1 = f + (i - 1)
      BY <2>2, <1>1 DEF Size
    <3> QED
      BY <2>2, <3>1, <1>0, <1>1, <1>2, <1>3, <1>4, <1>7
  <2> QED
    BY <2>1, <2>2
<1>9. r = <<m>> \o s
  BY <1>1, <1>2, <1>7, <1>8, SeqEqual
<1> QED
  BY <1>9, <1>1x DEF c, s, r

\* The first message taken out leaves the others.
LEMMA RingTail ==
    ASSUME NEW M, NEW b \in [Size -> M], NEW o \in Size, NEW n \in 0 .. Max, n # 0
    PROVE  /\ RingOf(b, o, n) # << >> /\ Head(RingOf(b, o, n)) = b[o]
           /\ RingOf(b, Mq!Slot(o + 1), n - 1) = Tail(RingOf(b, o, n))
<1> DEFINE s == RingOf(b, o, n)
           p == Mq!Slot(o + 1)
           r == RingOf(b, p, n - 1)
<1>0. 1 \in 0 .. Max
  BY ServicesAssumption
<1>1. n - 1 \in 0 .. Max /\ n \in Nat /\ 1 \in 1 .. n /\ p \in Size /\ o + 1 - 1 = o
  <2>1. p \in Size
    BY <1>0, SlotSteps
  <2> HIDE DEF p
  <2> QED
    BY <2>1, ServicesAssumption DEF Size
<1>2. /\ r \in Seq(M) /\ Len(r) = n - 1
      /\ \A i \in 1 .. n - 1 : r[i] = b[Mq!Slot(p + i - 1)]
  BY <1>1, RingIsSequence
<1>3. /\ s \in Seq(M) /\ Len(s) = n
      /\ \A i \in 1 .. n : s[i] = b[Mq!Slot(o + i - 1)]
  BY RingIsSequence
<1>4. s[1] = b[o]
  BY <1>1, <1>3, SlotSteps
<1>5. \A i \in 1 .. n - 1 : Mq!Slot(p + i - 1) = Mq!Slot(o + i)
  <2> SUFFICES ASSUME NEW i \in 1 .. n - 1 PROVE Mq!Slot(p + i - 1) = Mq!Slot(o + i)
    OBVIOUS
  <2>1. i - 1 \in 0 .. Max - 1 /\ p + i - 1 = p + (i - 1) /\ o + i = o + (i - 1) + 1
    BY <1>1, ServicesAssumption DEF Size
  <2>2. Mq!Slot(p + (i - 1)) = Mq!Slot(o + (i - 1) + 1)
    BY <2>1, SlotSteps
  <2> QED
    BY <2>1, <2>2
<1> HIDE DEF s, r, p
<1>6. s # << >> /\ Head(s) = b[o]
  BY <1>1, <1>3, <1>4
<1>7. /\ Tail(s) \in Seq(M) /\ Len(Tail(s)) = n - 1
      /\ \A i \in 1 .. n - 1 : Tail(s)[i] = s[i + 1]
  BY <1>3, <1>6, HeadTailProperties
<1>8. \A i \in 1 .. n - 1 : r[i] = Tail(s)[i]
  <2> SUFFICES ASSUME NEW i \in 1 .. n - 1 PROVE r[i] = Tail(s)[i]
    OBVIOUS
  <2>1. i + 1 \in 1 .. n /\ o + (i + 1) - 1 = o + i
    BY <1>1 DEF Size
  <2> QED
    BY <2>1, <1>2, <1>3, <1>5, <1>7
<1>9. r = Tail(s)
  BY <1>2, <1>7, <1>8, SeqEqual
<1> QED
  BY <1>6, <1>9 DEF s, r, p

-----------------------------------------------------------------------------
(* ServiceMessageQueue. *)

Words == {"message", "clear"}
Places == {"idle", "section", "look", "wait", "asleep", "signal", "wake", "wakenative", "wakeagain"}

RingType ==
    /\ s_m_count \in 0 .. Max /\ s_m_offset \in Size
    /\ s_m_message_buffer \in [Size -> Messages \cup {NoMessage}]
    /\ s_received \in Messages \cup {NoMessage}
    /\ s_wait_value \in [Words -> 0 .. 2]
    /\ s_pc \in [Users -> Places]
    /\ s_call \in [Users -> [op : Ring!Blocking \cup Ring!Trying \cup {"none"},
                             message : Messages \cup {NoMessage}]]
    /\ \A t \in Users : /\ s_pc[t] # "idle" => s_call[t].op # "none"
                        /\ s_call[t].op \notin Ring!Receives \cup {"none"} => s_call[t].message \in Messages

\* There is what those who wait on word w want.
News(w) == IF w = "message" THEN s_m_count # 0 ELSE s_m_count < Max

\* Somebody waits on word w, or is about to; somebody is about to set it.
Expected(w) == \E t \in Users : s_pc[t] \in {"look", "wait", "asleep"} /\ Ring!WaitsOn(t) = w
Coming(w) == \E s \in Users : s_pc[s] \in {"signal", "wake", "wakeagain"} /\ Ring!Signals(s) = w

\* News that somebody waits for are in the word, or on the way to it.
NewsAreTold == \A w \in Words : Expected(w) /\ News(w) => s_wait_value[w] = 2 \/ Coming(w)

RingInv == RingType /\ (~s_wild => NewsAreTold) /\ Ring!SleepersAreAnnounced

LEMMA RingInit == ASSUME Ring!Init PROVE RingInv
<1>1. RingType
  BY ServicesAssumption
     DEF Ring!Init, RingType, Ring!Threads, Users, Words, Size, Places, Ring!NoCall, Ring!Receives
<1>2. NewsAreTold /\ Ring!SleepersAreAnnounced
  BY DEF Ring!Init, NewsAreTold, Expected, Ring!SleepersAreAnnounced, Ring!Threads, Users
<1> QED
  BY <1>1, <1>2 DEF RingInv

\* The words of a call: it waits on one and signals the other.
LEMMA WordsOfCall ==
    ASSUME NEW t
    PROVE  /\ Ring!WaitsOn(t) \in Words /\ Ring!Signals(t) \in Words
           /\ Ring!WaitsOn(t) # Ring!Signals(t)
           /\ Ring!Possible(t) <=> News(Ring!WaitsOn(t))
BY DEF Ring!WaitsOn, Ring!Signals, Ring!Possible, Words, News

\* What a sender does under the mutex.
LEMMA RingInsert ==
    ASSUME RingType, NEW t \in Users, Ring!Section(t),
           Ring!Possible(t), s_call[t].op \notin Ring!Receives
    PROVE  /\ s_call[t].message \in Messages /\ s_m_count < Max
           /\ IF s_call[t].op \in Ring!Jams
              THEN /\ s_m_message_buffer' = [s_m_message_buffer EXCEPT ![InFront(s_m_offset)] = s_call[t].message]
                   /\ s_m_offset' = InFront(s_m_offset)
              ELSE /\ s_m_message_buffer' = [s_m_message_buffer EXCEPT
                                                ![Mq!Slot(s_m_offset + s_m_count)] = s_call[t].message]
                   /\ s_m_offset' = s_m_offset
           /\ InFront(s_m_offset) \in Size /\ Mq!Slot(s_m_offset + s_m_count) \in Size
           /\ s_m_count' = s_m_count + 1
           /\ s_pc' = [s_pc EXCEPT ![t] = "signal"]
           /\ UNCHANGED <<s_wait_value, s_call, s_received>>
<1>1. s_pc[t] = "section" /\ Ring!Insert(t) /\ Ring!Goes(t, "signal") /\ UNCHANGED s_wait_value
  BY DEF Ring!Section
<1>2. s_call[t].message \in Messages
  BY <1>1 DEF RingType
<1>3. s_m_count < Max /\ s_m_count \in 0 .. Max
  BY DEF Ring!Possible, RingType
<1>4. InFront(s_m_offset) \in Size /\ Mq!Slot(s_m_offset + s_m_count) \in Size
  BY <1>3, SlotSteps DEF RingType
<1>5. Ring!Slot(s_m_offset + s_m_count) = Mq!Slot(s_m_offset + s_m_count)
  BY DEF Ring!Slot, Mq!Slot, RingType, Size
<1> QED
  BY <1>1, <1>2, <1>3, <1>4, <1>5 DEF Ring!Insert, Ring!Goes, InFront

LEMMA RingTypeStep == ASSUME RingType, Ring!Next PROVE RingType'
<1> USE DEF Users, Ring!Threads
<1>1. PICK t \in Users :
         \/ \E op \in (Ring!Blocking \cup Ring!Trying) \ Ring!Receives, m \in Messages : Ring!Call(t, op, m)
         \/ \E op \in Ring!Receives : Ring!Call(t, op, NoMessage)
         \/ Ring!Section(t) \/ Ring!Look(t) \/ Ring!Wait(t) \/ Ring!Signal(t)
         \/ Ring!WakeFibers(t) \/ Ring!WakeNatives(t)
  BY DEF Ring!Next, Ring!Calls, Ring!Step
<1>2. CASE \E op \in (Ring!Blocking \cup Ring!Trying) \ Ring!Receives, m \in Messages : Ring!Call(t, op, m)
  BY <1>2 DEF RingType, Ring!Call, Ring!buffer, Places, Ring!Blocking, Ring!Trying, Ring!Receives
<1>3. CASE \E op \in Ring!Receives : Ring!Call(t, op, NoMessage)
  BY <1>3 DEF RingType, Ring!Call, Ring!buffer, Places, Ring!Blocking, Ring!Trying, Ring!Receives
<1>4. CASE Ring!Section(t)
  <2>1. s_pc[t] = "section"
    BY <1>4 DEF Ring!Section
  <2>2. CASE Ring!Possible(t) /\ s_call[t].op \in Ring!Receives
    BY <1>4, <2>1, <2>2, SlotType, ServicesAssumption
       DEF RingType, Ring!Section, Ring!Remove, Ring!Goes, Ring!Possible, Places, Size
  <2>3. CASE Ring!Possible(t) /\ s_call[t].op \notin Ring!Receives
    <3>1. s_m_count' \in 0 .. Max /\ s_m_offset' \in Size
      BY <1>4, <2>3, RingInsert, ServicesAssumption DEF RingType
    <3>2. s_m_message_buffer' \in [Size -> Messages \cup {NoMessage}]
      BY <1>4, <2>3, RingInsert DEF RingType
    <3>3. s_pc' = [s_pc EXCEPT ![t] = "signal"] /\ UNCHANGED <<s_wait_value, s_call, s_received>>
      BY <1>4, <2>3, RingInsert
    <3> QED
      BY <2>1, <3>1, <3>2, <3>3 DEF RingType, Places
  <2>4. CASE ~Ring!Possible(t)
    BY <1>4, <2>1, <2>4 DEF RingType, Ring!Section, Ring!Refused, Ring!Goes, Ring!buffer, Places, Words, Ring!NoCall, Ring!WaitsOn
  <2> QED
    BY <2>2, <2>3, <2>4
<1>5. CASE Ring!Look(t)
  BY <1>5 DEF RingType, Ring!Look, Ring!Goes, Ring!buffer, Places, Words, Ring!WaitsOn
<1>6. CASE Ring!Wait(t)
  BY <1>6 DEF RingType, Ring!Wait, Ring!Goes, Ring!buffer, Places
<1>7. CASE Ring!Signal(t)
  BY <1>7 DEF RingType, Ring!Signal, Ring!Goes, Ring!buffer, Places, Words, Ring!Signals, Ring!NoCall
<1>8. CASE Ring!WakeFibers(t)
  <2>1. s_wait_value' \in [Words -> 0 .. 2]
    BY <1>8 DEF RingType, Ring!WakeFibers, Words
  <2>2. /\ s_pc[t] = "wake" /\ UNCHANGED <<Ring!buffer, s_received, s_call>>
        /\ s_pc' \in [Users -> Places]
        /\ \A u \in Users : s_pc'[u] # "idle" => s_pc[u] # "idle"
    <3>1. CASE s_pc' = s_pc
      BY <1>8, <3>1 DEF RingType, Ring!WakeFibers, Ring!Goes
    <3>2. CASE s_pc' = [s_pc EXCEPT ![t] = "wakeagain"]
      BY <1>8, <3>2 DEF RingType, Ring!WakeFibers, Ring!Goes, Places
    <3>3. CASE s_pc' = [s \in Users |-> IF s = t THEN "wakenative"
                                       ELSE IF s \in Ring!Sleepers(t) \cap Fibers THEN "section" ELSE s_pc[s]]
      BY <1>8, <3>3 DEF RingType, Ring!WakeFibers, Ring!Goes, Places, Ring!Sleepers
    <3> QED
      BY <1>8, <3>1, <3>2, <3>3 DEF Ring!WakeFibers, Ring!Goes
  <2> QED
    BY <2>1, <2>2 DEF RingType, Ring!buffer
<1>9. CASE Ring!WakeNatives(t)
  BY <1>9 DEF RingType, Ring!WakeNatives, Ring!buffer, Places, Ring!NoCall, Ring!Woken, Ring!Sleepers
<1> QED
  BY <1>1, <1>2, <1>3, <1>4, <1>5, <1>6, <1>7, <1>8, <1>9

\* Only t moves, and keeps its call unless it starts or ends.
LEMMA Others ==
    ASSUME RingType, NEW t \in Users, NEW place, Ring!Goes(t, place)
    PROVE  /\ \A u \in Users : s_pc'[u] = IF u = t THEN place ELSE s_pc[u]
           /\ \A u \in Users : u # t \/ place # "idle" => s_call'[u] = s_call[u]
BY DEF RingType, Ring!Goes

\* Who makes the same call waits on and signals the same words.
LEMMA SameCall ==
    ASSUME NEW u, s_call'[u] = s_call[u]
    PROVE  Ring!WaitsOn(u)' = Ring!WaitsOn(u) /\ Ring!Signals(u)' = Ring!Signals(u)
BY DEF Ring!WaitsOn, Ring!Signals

\* If those who wait did so before, those on the way still are, and neither the
\* word nor the news have changed for the worse, nothing is lost.
LEMMA NewsPersist ==
    ASSUME NEW w \in Words, NewsAreTold,
           Expected(w)' => Expected(w), Coming(w) => Coming(w)', News(w)' => News(w),
           s_wait_value[w] = 2 => s_wait_value'[w] = 2
    PROVE  Expected(w)' /\ News(w)' => s_wait_value'[w] = 2 \/ Coming(w)'
BY DEF NewsAreTold

LEMMA NewsStep == ASSUME RingType, NewsAreTold, Ring!Next, ~s_wild' PROVE NewsAreTold'
<1> USE DEF Users, Ring!Threads
<1>1. PICK t \in Users :
         \/ \E op \in (Ring!Blocking \cup Ring!Trying) \ Ring!Receives, m \in Messages : Ring!Call(t, op, m)
         \/ \E op \in Ring!Receives : Ring!Call(t, op, NoMessage)
         \/ Ring!Section(t) \/ Ring!Look(t) \/ Ring!Wait(t) \/ Ring!Signal(t)
         \/ Ring!WakeFibers(t) \/ Ring!WakeNatives(t)
  BY DEF Ring!Next, Ring!Calls, Ring!Step
<1> SUFFICES ASSUME NEW w \in Words
             PROVE  Expected(w)' /\ News(w)' => s_wait_value'[w] = 2 \/ Coming(w)'
  BY DEF NewsAreTold
<1>2. CASE \E op, m : Ring!Call(t, op, m)
  <2>1. /\ \A u \in Users : u # t => s_pc'[u] = s_pc[u] /\ s_call'[u] = s_call[u]
        /\ s_pc[t] = "idle" /\ s_pc'[t] = "section"
        /\ s_m_count' = s_m_count /\ s_wait_value' = s_wait_value
    BY <1>2 DEF Ring!Call, Ring!buffer, RingType
  <2>2. (Expected(w)' => Expected(w)) /\ (Coming(w) => Coming(w)') /\ (News(w)' => News(w))
    BY <2>1, SameCall DEF Expected, Coming, News
  <2> QED
    BY <2>1, <2>2, NewsPersist
<1>3. CASE Ring!Section(t) /\ Ring!Possible(t)
  <2>1. s_pc[t] = "section" /\ Ring!Goes(t, "signal") /\ s_wait_value' = s_wait_value
    BY <1>3 DEF Ring!Section
  <2>2. /\ \A u \in Users : s_pc'[u] = IF u = t THEN "signal" ELSE s_pc[u]
        /\ \A u \in Users : s_call'[u] = s_call[u]
    BY <2>1, Others
  <2>3. CASE w = Ring!Signals(t)
    <3>1. Coming(w)'
      BY <2>2, <2>3, SameCall DEF Coming
    <3> QED
      BY <3>1
  <2>4. CASE w # Ring!Signals(t)
    <3>1. News(w)
      BY <2>4, <1>3, WordsOfCall DEF Words
    <3>2. (Expected(w)' => Expected(w)) /\ (Coming(w) => Coming(w)')
      BY <2>1, <2>2, SameCall DEF Expected, Coming
    <3> QED
      BY <2>1, <3>1, <3>2, NewsPersist
  <2> QED
    BY <2>3, <2>4
<1>4. CASE Ring!Section(t) /\ ~Ring!Possible(t)
  <2>1. s_pc[t] = "section" /\ Ring!Refused(t)
    BY <1>4 DEF Ring!Section
  <2>2. s_m_count' = s_m_count
    BY <2>1 DEF Ring!Refused, Ring!buffer
  <2>3. CASE s_call[t].op \in Ring!Trying
    <3>1. Ring!Goes(t, "idle") /\ s_wait_value' = s_wait_value
      BY <2>1, <2>3 DEF Ring!Refused
    <3>2. /\ \A u \in Users : s_pc'[u] = IF u = t THEN "idle" ELSE s_pc[u]
          /\ \A u \in Users : u # t => s_call'[u] = s_call[u]
      BY <3>1, Others
    <3>3. (Expected(w)' => Expected(w)) /\ (Coming(w) => Coming(w)') /\ (News(w)' => News(w))
      BY <2>1, <2>2, <3>2, SameCall DEF Expected, Coming, News
    <3> QED
      BY <3>1, <3>3, NewsPersist
  <2>4. CASE s_call[t].op \notin Ring!Trying
    <3>1. /\ Ring!Goes(t, "look")
          /\ s_wait_value' = [s_wait_value EXCEPT ![Ring!WaitsOn(t)] = IF @ = 2 THEN 0 ELSE @]
      BY <2>1, <2>4 DEF Ring!Refused
    <3>2. /\ \A u \in Users : s_pc'[u] = IF u = t THEN "look" ELSE s_pc[u]
          /\ \A u \in Users : s_call'[u] = s_call[u]
      BY <3>1, Others
    <3>3. CASE w = Ring!WaitsOn(t)
      <4>1. ~News(w)'
        BY <1>4, <2>2, <3>3, WordsOfCall DEF News
      <4> QED
        BY <4>1
    <3>4. CASE w # Ring!WaitsOn(t)
      <4>1. (Expected(w)' => Expected(w)) /\ (Coming(w) => Coming(w)') /\ (News(w)' => News(w))
        BY <2>1, <2>2, <3>2, <3>4, SameCall DEF Expected, Coming, News
      <4>2. s_wait_value'[w] = s_wait_value[w]
        BY <3>1, <3>4 DEF RingType
      <4> QED
        BY <4>1, <4>2, NewsPersist
    <3> QED
      BY <3>3, <3>4
  <2> QED
    BY <2>3, <2>4
<1>5. CASE Ring!Look(t) \/ Ring!Wait(t)
  <2>1. PICK place \in {"section", "wait", "asleep"} : Ring!Goes(t, place)
    BY <1>5 DEF Ring!Look, Ring!Wait
  <2>2. /\ \A u \in Users : s_pc'[u] = IF u = t THEN place ELSE s_pc[u]
        /\ \A u \in Users : s_call'[u] = s_call[u]
    BY <2>1, Others
  <2>3. s_pc[t] \in {"look", "wait"} /\ s_m_count' = s_m_count
    BY <1>5 DEF Ring!Look, Ring!Wait, Ring!buffer
  <2>4. s_wait_value[w] = 2 => s_wait_value'[w] = 2
    BY <1>5 DEF Ring!Look, Ring!Wait, RingType
  <2>5. (Expected(w)' => Expected(w)) /\ (Coming(w) => Coming(w)') /\ (News(w)' => News(w))
    BY <2>1, <2>2, <2>3, SameCall DEF Expected, Coming, News
  <2> QED
    BY <2>4, <2>5, NewsPersist
<1>6. CASE Ring!Signal(t)
  <2>1. PICK place \in {"wake", "idle"} :
           Ring!Goes(t, place) /\ place = IF s_wait_value[Ring!Signals(t)] = 1 THEN "wake" ELSE "idle"
    BY <1>6 DEF Ring!Signal
  <2>2. /\ \A u \in Users : s_pc'[u] = IF u = t THEN place ELSE s_pc[u]
        /\ \A u \in Users : u # t \/ place # "idle" => s_call'[u] = s_call[u]
    BY <2>1, Others
  <2>3. /\ s_pc[t] = "signal" /\ s_m_count' = s_m_count
        /\ s_wait_value' = [s_wait_value EXCEPT ![Ring!Signals(t)] = IF @ = 0 THEN 2 ELSE @]
    BY <1>6 DEF Ring!Signal, Ring!buffer
  <2>4. CASE w = Ring!Signals(t)
    <3>1. CASE s_wait_value[w] = 1
      <4>1. Coming(w)'
        BY <2>1, <2>2, <2>4, <3>1, SameCall DEF Coming
      <4> QED
        BY <4>1
    <3>2. CASE s_wait_value[w] # 1
      <4>1. s_wait_value'[w] = 2
        BY <2>3, <2>4, <3>2 DEF RingType
      <4> QED
        BY <4>1
    <3> QED
      BY <3>1, <3>2
  <2>5. CASE w # Ring!Signals(t)
    <3>1. (Expected(w)' => Expected(w)) /\ (Coming(w) => Coming(w)') /\ (News(w)' => News(w))
      BY <2>1, <2>2, <2>3, <2>5, SameCall DEF Expected, Coming, News
    <3>2. s_wait_value'[w] = s_wait_value[w]
      BY <2>3, <2>5 DEF RingType
    <3> QED
      BY <3>1, <3>2, NewsPersist
  <2> QED
    BY <2>4, <2>5
<1>7. CASE Ring!WakeFibers(t)
  <2>1. s_pc[t] = "wake" /\ s_m_count' = s_m_count
    BY <1>7 DEF Ring!WakeFibers, Ring!buffer
  <2>2. /\ \A u \in Users : s_call'[u] = s_call[u]
        /\ \A u \in Users : u # t => s_pc'[u] = s_pc[u] \/ (s_pc'[u] = "section" /\ s_pc[u] = "asleep")
        /\ s_pc'[t] \in {"wakenative", "wakeagain"}
        /\ s_pc'[t] = "wakenative" => s_wait_value' = [s_wait_value EXCEPT ![Ring!Signals(t)] = 2]
        /\ s_pc'[t] = "wakeagain" => s_wait_value' = s_wait_value
    <3>1. CASE s_wait_value[Ring!Signals(t)] = 1
      BY <1>7, <3>1 DEF Ring!WakeFibers, RingType, Ring!Sleepers
    <3>2. CASE s_wait_value[Ring!Signals(t)] # 1
      <4>1. Ring!Goes(t, "wakeagain") /\ s_wait_value' = s_wait_value
        BY <1>7, <3>2 DEF Ring!WakeFibers
      <4> QED
        BY <4>1, Others
    <3> QED
      BY <3>1, <3>2
  <2>3. CASE w = Ring!Signals(t)
    <3>1. s_pc'[t] = "wakeagain" => Coming(w)'
      BY <2>2, <2>3, SameCall DEF Coming
    <3>2. s_pc'[t] = "wakenative" => s_wait_value'[w] = 2
      BY <2>2, <2>3 DEF RingType
    <3> QED
      BY <2>2, <3>1, <3>2
  <2>4. CASE w # Ring!Signals(t)
    <3>1. (Expected(w)' => Expected(w)) /\ (Coming(w) => Coming(w)') /\ (News(w)' => News(w))
      BY <2>1, <2>2, <2>4, SameCall DEF Expected, Coming, News
    <3>2. s_wait_value'[w] = s_wait_value[w]
      BY <2>2, <2>4 DEF RingType
    <3> QED
      BY <3>1, <3>2, NewsPersist
  <2> QED
    BY <2>3, <2>4
<1>8. CASE Ring!WakeNatives(t)
  <2>1. /\ s_pc[t] \in {"wakenative", "wakeagain"} /\ s_m_count' = s_m_count
        /\ s_wait_value' = s_wait_value
    BY <1>8 DEF Ring!WakeNatives, Ring!buffer
  <2>2. /\ \A u \in Users : u # t \/ s_pc[t] = "wakeagain" => s_call'[u] = s_call[u]
        /\ \A u \in Users : u # t => s_pc'[u] = s_pc[u] \/ (s_pc'[u] = "wait" /\ s_pc[u] = "asleep")
        /\ s_pc'[t] = IF s_pc[t] = "wakenative" THEN "idle" ELSE "signal"
    BY <1>8 DEF Ring!WakeNatives, RingType, Ring!Woken, Ring!Sleepers
  <2>3. (Expected(w)' => Expected(w)) /\ (Coming(w) => Coming(w)') /\ (News(w)' => News(w))
    BY <2>1, <2>2, SameCall DEF Expected, Coming, News
  <2> QED
    BY <2>1, <2>3, NewsPersist
<1> QED
  BY <1>1, <1>2, <1>3, <1>4, <1>5, <1>6, <1>7, <1>8

\* A word that somebody sleeps on stays 1, but for natives about to be woken.
LEMMA AnnouncedStep ==
    ASSUME RingType, Ring!SleepersAreAnnounced, ~s_wild, Ring!Next, ~s_wild'
    PROVE  Ring!SleepersAreAnnounced'
<1> USE DEF Users, Ring!Threads
<1> DEFINE Covered(u) == u \in Natives /\ \E s \in Users : /\ Ring!Signals(s) = Ring!WaitsOn(u)
                                                         /\ s_pc[s] = "wakenative"
<1>1. PICK t \in Users :
         \/ \E op \in (Ring!Blocking \cup Ring!Trying) \ Ring!Receives, m \in Messages : Ring!Call(t, op, m)
         \/ \E op \in Ring!Receives : Ring!Call(t, op, NoMessage)
         \/ Ring!Section(t) \/ Ring!Look(t) \/ Ring!Wait(t) \/ Ring!Signal(t)
         \/ Ring!WakeFibers(t) \/ Ring!WakeNatives(t)
  BY DEF Ring!Next, Ring!Calls, Ring!Step
<1> SUFFICES ASSUME NEW u \in Users, s_pc'[u] = "asleep", s_wait_value'[Ring!WaitsOn(u)'] # 1
             PROVE  Covered(u)'
  BY DEF Ring!SleepersAreAnnounced
<1>2. CASE \E op, m : Ring!Call(t, op, m)
  <2>1. /\ \A v \in Users : v # t => s_pc'[v] = s_pc[v] /\ s_call'[v] = s_call[v]
        /\ s_pc[t] = "idle" /\ s_pc'[t] = "section" /\ s_wait_value' = s_wait_value
    BY <1>2 DEF Ring!Call, Ring!buffer, RingType
  <2>2. Covered(u)
    BY <2>1, SameCall DEF Ring!SleepersAreAnnounced
  <2> QED
    BY <2>1, <2>2, SameCall
<1>3. CASE Ring!Section(t) \/ Ring!Look(t) \/ Ring!Signal(t)
  <2>1. PICK place \in {"section", "look", "wait", "signal", "wake", "idle"} : Ring!Goes(t, place)
    BY <1>3 DEF Ring!Section, Ring!Look, Ring!Signal, Ring!Refused
  <2>2. /\ \A v \in Users : s_pc'[v] = IF v = t THEN place ELSE s_pc[v]
        /\ \A v \in Users : v # t \/ place # "idle" => s_call'[v] = s_call[v]
    BY <2>1, Others
  <2>3. s_pc[t] \in {"section", "look", "signal"}
    BY <1>3 DEF Ring!Section, Ring!Look, Ring!Signal
  <2>4. \A w \in Words : s_wait_value[w] = 1 => s_wait_value'[w] = 1
    BY <1>3, WordsOfCall DEF Ring!Section, Ring!Refused, Ring!Look, Ring!Signal, RingType
  <2>5. u # t /\ s_pc[u] = "asleep" /\ s_call'[u] = s_call[u]
    BY <2>2, <2>3
  <2>6. Covered(u)
    BY <2>4, <2>5, SameCall, WordsOfCall DEF Ring!SleepersAreAnnounced
  <2> QED
    BY <2>2, <2>3, <2>5, <2>6, SameCall
<1>4. CASE Ring!Wait(t)
  <2>1. PICK place \in {"section", "asleep"} :
           /\ Ring!Goes(t, place)
           /\ place = "asleep" => s_wait_value[Ring!WaitsOn(t)] = 1
    BY <1>4 DEF Ring!Wait
  <2>2. /\ \A v \in Users : s_pc'[v] = IF v = t THEN place ELSE s_pc[v]
        /\ \A v \in Users : s_call'[v] = s_call[v]
    BY <2>1, Others
  <2>3. s_pc[t] = "wait" /\ s_wait_value' = s_wait_value
    BY <1>4 DEF Ring!Wait
  <2>4. u # t /\ s_pc[u] = "asleep"
    BY <2>1, <2>2, <2>3, SameCall
  <2>5. Covered(u)
    BY <2>2, <2>3, <2>4, SameCall DEF Ring!SleepersAreAnnounced
  <2> QED
    BY <2>2, <2>3, <2>5, SameCall
<1>5. CASE Ring!WakeFibers(t)
  <2>1. s_pc[t] = "wake"
    BY <1>5 DEF Ring!WakeFibers
  <2>2. CASE s_wait_value[Ring!Signals(t)] = 1
    <3>1. /\ s_wait_value' = [s_wait_value EXCEPT ![Ring!Signals(t)] = 2]
          /\ s_pc' = [v \in Users |-> IF v = t THEN "wakenative"
                                      ELSE IF v \in Ring!Sleepers(t) \cap Fibers THEN "section" ELSE s_pc[v]]
          /\ s_call' = s_call
      BY <1>5, <2>2 DEF Ring!WakeFibers
    <3>2. /\ u # t /\ s_pc[u] = "asleep" /\ u \notin Ring!Sleepers(t) \cap Fibers
          /\ s_pc'[t] = "wakenative"
      BY <3>1
    <3>3. CASE Ring!WaitsOn(u) = Ring!Signals(t)
      <4>1. u \in Natives
        BY <3>2, <3>3 DEF Ring!Sleepers
      <4> QED
        BY <3>1, <3>2, <3>3, <4>1, SameCall
    <3>4. CASE Ring!WaitsOn(u) # Ring!Signals(t)
      <4>1. s_wait_value'[Ring!WaitsOn(u)] = s_wait_value[Ring!WaitsOn(u)]
        BY <3>1, <3>4, WordsOfCall DEF RingType
      <4>2. Covered(u)
        BY <3>1, <3>2, <4>1, SameCall DEF Ring!SleepersAreAnnounced
      <4>3. \A v \in Users : s_pc[v] = "wakenative" => s_pc'[v] = "wakenative"
        BY <3>1 DEF Ring!Sleepers
      <4> QED
        BY <3>1, <4>2, <4>3, SameCall
    <3> QED
      BY <3>3, <3>4
  <2>3. CASE s_wait_value[Ring!Signals(t)] # 1
    <3>1. Ring!Goes(t, "wakeagain") /\ s_wait_value' = s_wait_value
      BY <1>5, <2>3 DEF Ring!WakeFibers
    <3>2. /\ \A v \in Users : s_pc'[v] = IF v = t THEN "wakeagain" ELSE s_pc[v]
          /\ \A v \in Users : s_call'[v] = s_call[v]
      BY <3>1, Others
    <3>3. Covered(u)
      BY <3>1, <3>2, SameCall DEF Ring!SleepersAreAnnounced
    <3> QED
      BY <2>1, <3>2, <3>3, SameCall
  <2> QED
    BY <2>2, <2>3
<1>6. CASE Ring!WakeNatives(t)
  <2>1. /\ s_pc[t] \in {"wakenative", "wakeagain"} /\ s_wait_value' = s_wait_value
        /\ \A v \in Users : s_pc'[v] = IF v = t THEN (IF s_pc[t] = "wakenative" THEN "idle" ELSE "signal")
                                       ELSE IF v \in Ring!Woken(t) THEN "wait" ELSE s_pc[v]
        /\ \A v \in Users : v # t => s_call'[v] = s_call[v]
    BY <1>6 DEF Ring!WakeNatives, RingType
  <2>2. u # t /\ s_pc[u] = "asleep" /\ u \notin Ring!Woken(t)
    BY <2>1
  <2>3. Covered(u)
    BY <2>1, <2>2, SameCall DEF Ring!SleepersAreAnnounced
  <2>4. PICK s \in Users : Ring!Signals(s) = Ring!WaitsOn(u) /\ s_pc[s] = "wakenative"
    BY <2>3
  <2>5. s # t
    BY <2>2, <2>3, <2>4 DEF Ring!Woken, Ring!Sleepers
  <2>6. s_pc'[s] = "wakenative"
    BY <2>1, <2>4, <2>5 DEF Ring!Woken, Ring!Sleepers
  <2> QED
    BY <2>1, <2>2, <2>3, <2>4, <2>5, <2>6, SameCall
<1> QED
  BY <1>1, <1>2, <1>3, <1>4, <1>5, <1>6

LEMMA RingStep == ASSUME RingInv, Ring!Next PROVE RingInv'
<1>1. ~s_wild
  BY DEF Ring!Next
<1>2. CASE s_wild'
  BY <1>2, RingTypeStep DEF RingInv, Ring!SleepersAreAnnounced
<1>3. CASE ~s_wild'
  BY <1>1, <1>3, RingTypeStep, NewsStep, AnnouncedStep DEF RingInv
<1> QED
  BY <1>2, <1>3

LEMMA RingStutter == ASSUME RingInv, UNCHANGED s_vars PROVE RingInv'
<1> USE DEF s_vars
<1>1. RingType'
  BY DEF RingInv, RingType
<1>2. \A u : /\ Ring!WaitsOn(u)' = Ring!WaitsOn(u) /\ Ring!Signals(u)' = Ring!Signals(u)
  BY DEF Ring!WaitsOn, Ring!Signals
<1>3. ~s_wild' => NewsAreTold'
  BY <1>2 DEF RingInv, NewsAreTold, Expected, Coming, News
<1>4. Ring!SleepersAreAnnounced'
  BY <1>2 DEF RingInv, Ring!SleepersAreAnnounced
<1> QED
  BY <1>1, <1>3, <1>4 DEF RingInv

\* The two together: who sleeps on news is about to be woken.
LEMMA NobodyIsForgotten == ASSUME RingInv PROVE Ring!NoSleeperIsForgotten
<1> SUFFICES ASSUME ~s_wild, NEW t \in Users, s_pc[t] = "asleep", Ring!Possible(t)
             PROVE  \E s \in Users : /\ Ring!Signals(s) = Ring!WaitsOn(t)
                                     /\ s_pc[s] \in {"signal", "wake", "wakenative", "wakeagain"}
  BY DEF Ring!NoSleeperIsForgotten, Ring!Threads, Users
<1>1. Expected(Ring!WaitsOn(t)) /\ News(Ring!WaitsOn(t)) /\ Ring!WaitsOn(t) \in Words
  BY WordsOfCall DEF Expected
<1>2. s_wait_value[Ring!WaitsOn(t)] = 2 \/ Coming(Ring!WaitsOn(t))
  BY <1>1 DEF RingInv, NewsAreTold
<1>3. CASE s_wait_value[Ring!WaitsOn(t)] = 2
  BY <1>3 DEF RingInv, Ring!SleepersAreAnnounced, Ring!Threads, Users
<1>4. CASE Coming(Ring!WaitsOn(t))
  BY <1>4 DEF Coming
<1> QED
  BY <1>2, <1>3, <1>4

-----------------------------------------------------------------------------
(* Both queues implement BoundedQueue. *)

\* Contents is the ring from the first message.
LEMMA MqContents ==
    /\ Mq!Contents = RingOf(q_m_message_buffer, q_m_current_message, q_m_pending_messages)
    /\ Mq!Contents' = RingOf(q_m_message_buffer', q_m_current_message', q_m_pending_messages')
BY DEF Mq!Contents, RingOf

LEMMA RingContents ==
    RingType => Ring!Contents = RingOf(s_m_message_buffer, s_m_offset, s_m_count)
<1> HAVE RingType
<1>1. \A i \in 1 .. s_m_count : Ring!Slot(s_m_offset + i - 1) = Mq!Slot(s_m_offset + i - 1)
  BY ServicesAssumption DEF RingType, Size, Ring!Slot, Mq!Slot
<1> QED
  BY <1>1 DEF Ring!Contents, RingOf

\* An empty ring is an empty queue.
LEMMA RingEmpty == ASSUME NEW b, NEW o PROVE RingOf(b, o, 0) = << >>
BY DEF RingOf

LEMMA MqInitRefines == ASSUME Mq!Init PROVE Mq!Abstract!Init
BY MqContents, RingEmpty DEF Mq!Init, Mq!Abstract!Init

\* A call that succeeds is one step of the queue, and whatever else happens none.
LEMMA MqStepRefines ==
    ASSUME MqInv, Mq!Next
    PROVE  Mq!Abstract!Next \/ UNCHANGED <<Mq!Contents, q_received>>
<1> DEFINE b == q_m_message_buffer
           o == q_m_current_message
           n == q_m_pending_messages
           M == Messages \cup {NoMessage}
<1>0. b \in [Size -> M] /\ o \in Size /\ n \in 0 .. Max
  BY DEF MqInv
<1>1. PICK t \in Clients :
         \/ \E op, m : Mq!Call(t, op, m)
         \/ Mq!Send(t) \/ Mq!Jam(t) \/ Mq!Receive(t) \/ Mq!Leave(t) \/ Mq!Wait(t)
         \/ Mq!Contend(t)
  BY DEF Mq!Next, Mq!Calls, Mq!Step
<1>2. Len(Mq!Contents) = n
  BY <1>0, MqContents, RingIsSequence
<1>3. CASE Mq!Send(t)
  <2>1. /\ q_call[t].message \in Messages /\ n < Max
        /\ b' = [b EXCEPT ![Mq!Slot(o + n)] = q_call[t].message]
        /\ n' = n + 1 /\ o' = o /\ q_received' = q_received
    <3>1. n + o = o + n
      BY <1>0 DEF Size
    <3> QED
      BY <1>3, <3>1 DEF Mq!Send, Mq!SendMessageImpl, Mq!Possible, Mq!Sends, Mq!Jams, MqInv
  <2>2. Mq!Contents' = Append(Mq!Contents, q_call[t].message)
    <3>1. PICK m \in M : m = q_call[t].message
      BY <2>1
    <3>2. RingOf([b EXCEPT ![Mq!Slot(o + n)] = m], o, n + 1) = Append(RingOf(b, o, n), m)
      BY <1>0, <2>1, RingAppend
    <3> QED
      BY <2>1, <3>1, <3>2, MqContents
  <2> QED
    BY <1>2, <2>1, <2>2 DEF Mq!Abstract!Next, Mq!Abstract!Send
<1>4. CASE Mq!Jam(t)
  <2>1. /\ q_call[t].message \in Messages /\ n < Max
        /\ b' = [b EXCEPT ![InFront(o)] = q_call[t].message]
        /\ n' = n + 1 /\ o' = InFront(o) /\ q_received' = q_received
    BY <1>4 DEF Mq!Jam, Mq!JamMessageImpl, Mq!Possible, Mq!Sends, Mq!Jams, MqInv, InFront
  <2>2. Mq!Contents' = <<q_call[t].message>> \o Mq!Contents
    <3>1. PICK m \in M : m = q_call[t].message
      BY <2>1
    <3>2. RingOf([b EXCEPT ![InFront(o)] = m], InFront(o), n + 1) = <<m>> \o RingOf(b, o, n)
      BY <1>0, <2>1, RingJam
    <3> QED
      BY <2>1, <3>1, <3>2, MqContents
  <2> QED
    BY <1>2, <2>1, <2>2 DEF Mq!Abstract!Next, Mq!Abstract!Jam
<1>5. CASE Mq!Receive(t)
  <2>1. /\ n # 0 /\ q_received' = b[o] /\ b' = b
        /\ n' = n - 1 /\ o' = Mq!Slot(o + 1)
    BY <1>5 DEF Mq!Receive, Mq!RecieveMessageImpl, Mq!Possible, Mq!Sends, Mq!Jams, Mq!Receives
  <2>2. Mq!Contents # << >> /\ Head(Mq!Contents) = b[o] /\ Mq!Contents' = Tail(Mq!Contents)
    BY <1>0, <2>1, MqContents, RingTail
  <2> QED
    BY <2>1, <2>2 DEF Mq!Abstract!Next, Mq!Abstract!Receive
<1>6. CASE (\E op, m : Mq!Call(t, op, m)) \/ Mq!Leave(t) \/ Mq!Wait(t) \/ Mq!Contend(t)
  <2>1. UNCHANGED <<Mq!buffer, q_received>>
    BY <1>6 DEF Mq!Call, Mq!Leave, Mq!Wait, Mq!Contend
  <2> QED
    BY <2>1, MqContents DEF Mq!buffer
<1> QED
  BY <1>1, <1>3, <1>4, <1>5, <1>6

LEMMA RingInitRefines == ASSUME Ring!Init PROVE Ring!Abstract!Init
<1>1. RingType
  BY RingInit DEF RingInv
<1> QED
  BY <1>1, RingContents, RingEmpty DEF Ring!Init, Ring!Abstract!Init

\* So it is with the steps of a ServiceMessageQueue: the section under the mutex
\* is the one that sends or receives.
LEMMA RingStepRefines ==
    ASSUME RingType, RingType', Ring!Next
    PROVE  Ring!Abstract!Next \/ UNCHANGED <<Ring!Contents, s_received>>
<1> DEFINE b == s_m_message_buffer
           o == s_m_offset
           n == s_m_count
           M == Messages \cup {NoMessage}
<1>0. b \in [Size -> M] /\ o \in Size /\ n \in 0 .. Max
  BY DEF RingType
<1>1. PICK t \in Users :
         \/ \E op, m : Ring!Call(t, op, m)
         \/ Ring!Section(t) \/ Ring!Look(t) \/ Ring!Wait(t) \/ Ring!Signal(t)
         \/ Ring!WakeFibers(t) \/ Ring!WakeNatives(t)
  BY DEF Ring!Next, Ring!Calls, Ring!Step, Users, Ring!Threads
<1>2. /\ Ring!Contents = RingOf(b, o, n) /\ Ring!Contents' = RingOf(b, o, n)'
      /\ Len(Ring!Contents) = n
  <2>1. Ring!Contents = RingOf(b, o, n)
    BY RingContents
  <2>2. (Ring!Contents = RingOf(s_m_message_buffer, s_m_offset, s_m_count))'
    BY RingContents, PTL
  <2> QED
    BY <1>0, <2>1, <2>2, RingIsSequence
<1>3. CASE Ring!Section(t) /\ Ring!Possible(t) /\ s_call[t].op \notin Ring!Receives
  <2>1. CASE s_call[t].op \in Ring!Jams
    <3>1. /\ s_call[t].message \in Messages /\ n < Max
          /\ b' = [b EXCEPT ![InFront(o)] = s_call[t].message]
          /\ n' = n + 1 /\ o' = InFront(o) /\ s_received' = s_received
      BY <1>3, <2>1, RingInsert
    <3>2. Ring!Contents' = <<s_call[t].message>> \o Ring!Contents
      <4>1. PICK m \in M : m = s_call[t].message
        BY <3>1
      <4>2. RingOf([b EXCEPT ![InFront(o)] = m], InFront(o), n + 1) = <<m>> \o RingOf(b, o, n)
        BY <1>0, <3>1, RingJam
      <4> QED
        BY <3>1, <4>1, <4>2, <1>2
    <3> QED
      BY <1>2, <3>1, <3>2 DEF Ring!Abstract!Next, Ring!Abstract!Jam
  <2>2. CASE s_call[t].op \notin Ring!Jams
    <3>1. /\ s_call[t].message \in Messages /\ n < Max
          /\ b' = [b EXCEPT ![Mq!Slot(o + n)] = s_call[t].message]
          /\ n' = n + 1 /\ o' = o /\ s_received' = s_received
      BY <1>3, <2>2, RingInsert
    <3>2. Ring!Contents' = Append(Ring!Contents, s_call[t].message)
      <4>1. PICK m \in M : m = s_call[t].message
        BY <3>1
      <4>2. RingOf([b EXCEPT ![Mq!Slot(o + n)] = m], o, n + 1) = Append(RingOf(b, o, n), m)
        BY <1>0, <3>1, RingAppend
      <4> QED
        BY <3>1, <4>1, <4>2, <1>2
    <3> QED
      BY <1>2, <3>1, <3>2 DEF Ring!Abstract!Next, Ring!Abstract!Send
  <2> QED
    BY <2>1, <2>2
<1>4. CASE Ring!Section(t) /\ Ring!Possible(t) /\ s_call[t].op \in Ring!Receives
  <2>1. /\ n # 0 /\ s_received' = b[o] /\ b' = b
        /\ n' = n - 1 /\ o' = Ring!Slot(o + 1)
    BY <1>4 DEF Ring!Section, Ring!Remove, Ring!Possible
  <2>2. Ring!Slot(o + 1) = Mq!Slot(o + 1)
    BY <1>0, ServicesAssumption DEF Size, Ring!Slot, Mq!Slot
  <2>3. Ring!Contents # << >> /\ Head(Ring!Contents) = b[o] /\ Ring!Contents' = Tail(Ring!Contents)
    BY <1>0, <1>2, <2>1, <2>2, RingTail
  <2> QED
    BY <2>1, <2>3 DEF Ring!Abstract!Next, Ring!Abstract!Receive
<1>5. CASE \/ Ring!Section(t) /\ ~Ring!Possible(t)
           \/ (\E op, m : Ring!Call(t, op, m)) \/ Ring!Look(t) \/ Ring!Wait(t)
           \/ Ring!Signal(t) \/ Ring!WakeFibers(t) \/ Ring!WakeNatives(t)
  <2>1. UNCHANGED <<Ring!buffer, s_received>>
    BY <1>5 DEF Ring!Section, Ring!Refused, Ring!Call, Ring!Look, Ring!Wait, Ring!Signal,
                Ring!WakeFibers, Ring!WakeNatives
  <2> QED
    BY <1>2, <2>1 DEF Ring!buffer
<1> QED
  BY <1>1, <1>3, <1>4, <1>5

-----------------------------------------------------------------------------
(* ServiceEvent. *)

SePlaces == {"idle", "look", "wait", "asleep", "test", "signal", "wake", "wakenative", "wakeagain"}

\* Fibers sleep on a 1 only; native threads that were announced by a 1 which is
\* gone have somebody on the way who wakes them all (manual reset).
SeInv ==
    /\ v_m_is_auto_reset \in BOOLEAN /\ v_m_state \in 0 .. 2
    /\ v_pc \in [Users -> SePlaces]
    /\ ~v_broken => \A f \in Fibers : v_pc[f] = "asleep" => v_m_state = 1
    /\ ~v_broken /\ ~v_m_is_auto_reset =>
          \A n \in Natives : v_pc[n] = "asleep" /\ v_m_state # 1 => \E s \in Users : v_pc[s] = "wakenative"

LEMMA SeInit == ASSUME Se!Init PROVE SeInv
BY DEF Se!Init, SeInv, Se!Threads, Users, SePlaces

\* A step of a thread that leaves the others alone.
LEMMA SeGoes ==
    ASSUME SeInv, NEW t \in Users, NEW place \in SePlaces, v_pc' = [v_pc EXCEPT ![t] = place],
           v_pc[t] # "wakenative", v_m_is_auto_reset' = v_m_is_auto_reset,
           v_m_state' \in 0 .. 2, v_m_state = 1 => v_m_state' = 1,
           place = "asleep" => v_m_state = 1, ~v_broken, v_broken' = v_broken
    PROVE  SeInv'
<1>1. \A s \in Users : v_pc'[s] = IF s = t THEN place ELSE v_pc[s]
  BY DEF SeInv
<1>2. v_pc' \in [Users -> SePlaces]
  BY DEF SeInv
<1>3. ASSUME NEW f \in Fibers, v_pc'[f] = "asleep" PROVE v_m_state' = 1
  BY <1>1, <1>3 DEF SeInv, Users
<1>4. ASSUME ~v_m_is_auto_reset, NEW n \in Natives, v_pc'[n] = "asleep", v_m_state' # 1
      PROVE  \E s \in Users : v_pc'[s] = "wakenative"
  <2>1. n # t /\ v_pc[n] = "asleep" /\ v_m_state # 1
    BY <1>1, <1>4 DEF Users
  <2>2. PICK s \in Users : v_pc[s] = "wakenative"
    BY <1>4, <2>1 DEF SeInv
  <2> QED
    BY <1>1, <2>2
<1> QED
  BY <1>2, <1>3, <1>4 DEF SeInv

\* A step that breaks the event.
LEMMA SeBreaks ==
    ASSUME SeInv, v_pc' = v_pc, v_broken' = TRUE, v_m_is_auto_reset' = v_m_is_auto_reset, v_m_state' \in 0 .. 2
    PROVE  SeInv'
BY DEF SeInv

\* The instance's Cardinality is that of the module.
LEMMA SameCardinality == \A S : Se!Cardinality(S) = Cardinality(S)
BY DEF Se!Cardinality, Cardinality

LEMMA SeStep == ASSUME SeInv, Se!Next PROVE SeInv'
<1> USE DEF Se!Threads
<1>1. PICK t \in Users :
         \/ \E w \in BOOLEAN : Se!CallWait(t, w)
         \/ Se!CallSignal(t) \/ Se!Clear(t) \/ Se!LookManual(t) \/ Se!LookAuto(t)
         \/ Se!Wait(t) \/ Se!TestManual(t) \/ Se!TestAuto(t) \/ Se!Signal(t)
         \/ Se!WakeFibersManual(t) \/ Se!WakeFibersAuto(t) \/ Se!WakeNatives(t)
         \/ Se!ExpireFiber(t) \/ Se!ExpireNative(t)
  BY DEF Se!Next, Se!Calls, Se!Waiting, Se!Signalling, Users
<1>0. ~v_broken
  BY DEF Se!Next
<1>2. CASE (\E w \in BOOLEAN : Se!CallWait(t, w)) \/ Se!CallSignal(t) \/ Se!Wait(t)
           \/ Se!TestAuto(t)
  <2>1. PICK place \in SePlaces : v_pc' = [v_pc EXCEPT ![t] = place] /\ (place = "asleep" => v_m_state = 1)
    BY <1>2 DEF Se!CallWait, Se!CallSignal, Se!Wait, Se!TestAuto, Se!Goes, SePlaces
  <2>2. v_pc[t] # "wakenative" /\ UNCHANGED <<v_m_is_auto_reset, v_m_state, v_broken>>
    BY <1>2 DEF Se!CallWait, Se!CallSignal, Se!Wait, Se!TestAuto
  <2>3. v_m_state' \in 0 .. 2
    BY <2>2 DEF SeInv
  <2> QED
    BY <1>0, <2>1, <2>2, <2>3, SeGoes
<1>3. CASE Se!Clear(t)
  BY <1>3 DEF Se!Clear, SeInv
<1>4. CASE Se!LookManual(t) \/ Se!LookAuto(t) \/ Se!TestManual(t) \/ Se!Signal(t)
  <2>1. PICK place \in SePlaces \ {"asleep"} : v_pc' = [v_pc EXCEPT ![t] = place]
    <3> USE DEF SePlaces, Se!Goes
    <3>1. CASE Se!LookManual(t)
      BY <3>1 DEF Se!LookManual
    <3>2. CASE Se!LookAuto(t)
      <4>1. v_pc[t] = "look" /\ v_pc = [v_pc EXCEPT ![t] = v_pc[t]] /\ v_m_state \in {0, 1, 2}
        BY <3>2 DEF Se!LookAuto, SeInv
      <4>2. v_pc' = v_pc \/ \E place \in {"wait", "idle"} : v_pc' = [v_pc EXCEPT ![t] = place]
        BY <3>2, <4>1 DEF Se!LookAuto
      <4> QED
        BY <4>1, <4>2
    <3>3. CASE Se!TestManual(t) \/ Se!Signal(t)
      BY <3>3 DEF Se!TestManual, Se!Signal
    <3> QED
      BY <1>4, <3>1, <3>2, <3>3
  <2>2. v_pc[t] # "wakenative" /\ UNCHANGED <<v_m_is_auto_reset, v_broken>>
    BY <1>4 DEF Se!LookManual, Se!LookAuto, Se!TestManual, Se!Signal
  <2>3. v_m_state' \in 0 .. 2 /\ (v_m_state = 1 => v_m_state' = 1)
    <3>1. CASE Se!LookManual(t)
      BY <3>1 DEF Se!LookManual, SeInv
    <3>2. CASE Se!LookAuto(t)
      <4>1. v_m_state \in {0, 1, 2}
        BY DEF SeInv
      <4>2. CASE v_m_state = 0
        BY <3>2, <4>2 DEF Se!LookAuto
      <4>3. CASE v_m_state = 1
        BY <3>2, <4>3 DEF Se!LookAuto
      <4>4. CASE v_m_state = 2
        BY <3>2, <4>4 DEF Se!LookAuto
      <4> QED
        BY <4>1, <4>2, <4>3, <4>4
    <3>3. CASE Se!TestManual(t)
      BY <3>3 DEF Se!TestManual, SeInv
    <3>4. CASE Se!Signal(t)
      BY <3>4 DEF Se!Signal, SeInv
    <3> QED
      BY <1>4, <3>1, <3>2, <3>3, <3>4
  <2> QED
    BY <1>0, <2>1, <2>2, <2>3, SeGoes
<1>5. CASE Se!WakeFibersManual(t)
  <2>1. v_pc[t] = "wake" /\ ~v_m_is_auto_reset /\ v_m_is_auto_reset' = v_m_is_auto_reset
    BY <1>5 DEF Se!WakeFibersManual
  <2>2. CASE v_m_state = 1 /\ Se!Cardinality(Se!Asleep(Fibers)) > 1
    <3>1. v_m_state' = 2 /\ v_pc' = v_pc /\ v_broken' = TRUE
      BY <1>5, <2>2 DEF Se!WakeFibersManual
    <3> QED
      BY <2>1, <3>1, SeBreaks
  <2>4. CASE v_m_state = 1 /\ ~(Se!Cardinality(Se!Asleep(Fibers)) > 1)
    <3>1. /\ v_m_state' = 2
          /\ v_pc' = [s \in Users |-> IF s = t THEN "wakenative" ELSE IF s \in Se!Asleep(Fibers) THEN "idle" ELSE v_pc[s]]
      BY <1>5, <2>4 DEF Se!WakeFibersManual, Se!Wakes, Users
    <3>2. \A f \in Fibers : v_pc'[f] # "asleep"
      BY <3>1 DEF Se!Asleep, Users
    <3>3. v_pc'[t] = "wakenative" /\ v_pc' \in [Users -> SePlaces]
      BY <3>1 DEF SeInv, SePlaces
    <3> QED
      BY <2>1, <3>1, <3>2, <3>3 DEF SeInv
  <2>3. CASE v_m_state # 1
    <3>1. v_pc' = [v_pc EXCEPT ![t] = "wakeagain"] /\ v_m_state' = v_m_state /\ v_broken' = v_broken
      BY <1>5, <2>3 DEF Se!WakeFibersManual, Se!Goes
    <3>2. v_m_state' \in 0 .. 2
      BY <3>1 DEF SeInv
    <3> QED
      BY <1>0, <2>1, <3>1, <3>2, SeGoes DEF SePlaces
  <2> QED
    BY <2>2, <2>3, <2>4
<1>6. CASE Se!WakeFibersAuto(t)
  <2>1. v_pc[t] = "wake" /\ v_m_is_auto_reset /\ v_m_is_auto_reset' = v_m_is_auto_reset
    BY <1>6 DEF Se!WakeFibersAuto
  <2>2. CASE v_m_state # 1
    <3>1. v_pc' = [v_pc EXCEPT ![t] = "wakeagain"] /\ v_m_state' = v_m_state /\ v_broken' = v_broken
      BY <1>6, <2>2 DEF Se!WakeFibersAuto, Se!Goes
    <3>2. v_m_state' \in 0 .. 2
      BY <3>1 DEF SeInv
    <3> QED
      BY <1>0, <2>1, <3>1, <3>2, SeGoes DEF SePlaces
  <2>3. CASE v_m_state = 1 /\ Se!Asleep(Fibers) = {}
    <3>1. v_m_state' = 2 /\ v_pc' = v_pc /\ v_broken' = TRUE
      BY <1>6, <2>3 DEF Se!WakeFibersAuto
    <3> QED
      BY <2>1, <3>1, SeBreaks
  <2>4. CASE v_m_state = 1 /\ Se!Asleep(Fibers) # {}
    <3>1. PICK woken \in SUBSET Se!Asleep(Fibers) :
             /\ Cardinality(woken) = IF Cardinality(Se!Asleep(Fibers)) = 1 THEN 1 ELSE 2
             /\ v_m_state' = IF Cardinality(Se!Asleep(Fibers)) = 1 THEN 0 ELSE 1
             /\ v_broken' = v_broken
             /\ v_pc' = [s \in Users |-> IF s = t THEN "wakenative" ELSE IF s \in woken THEN "idle" ELSE v_pc[s]]
      <4>1. \E woken \in SUBSET Se!Asleep(Fibers) :
              /\ Cardinality(woken) = IF Cardinality(Se!Asleep(Fibers)) = 1 THEN 1 ELSE 2
              /\ v_m_state' = IF Cardinality(Se!Asleep(Fibers)) = 1 THEN 0 ELSE 1
              /\ Se!Wakes(t, woken, "idle", "wakenative")
              /\ v_broken' = v_broken
        BY <1>6, <2>4, SameCardinality DEF Se!WakeFibersAuto
      <4> QED
        BY <4>1 DEF Se!Wakes, Users
    <3>2. v_m_state' = 0 => woken = Se!Asleep(Fibers)
      <4> SUFFICES ASSUME v_m_state' = 0 PROVE woken = Se!Asleep(Fibers)
        OBVIOUS
      <4>1. IsFiniteSet(Se!Asleep(Fibers)) /\ IsFiniteSet(woken)
        BY <3>1, ServicesAssumption, FS_Subset DEF Se!Asleep
      <4>2. Cardinality(Se!Asleep(Fibers)) = 1 /\ Cardinality(woken) = 1
        BY <3>1
      <4> QED
        BY <4>1, <4>2, FS_Singleton
    <3>3. \A f \in Fibers : v_pc'[f] = "asleep" => v_m_state' = 1
      BY <3>1, <3>2 DEF Se!Asleep, Users
    <3>4. v_pc' \in [Users -> SePlaces] /\ v_m_state' \in 0 .. 2
      BY <3>1 DEF SeInv, SePlaces
    <3> QED
      BY <2>1, <3>3, <3>4 DEF SeInv
  <2> QED
    BY <2>2, <2>3, <2>4
<1>7. CASE Se!WakeNatives(t)
  <2>1. PICK woken \in SUBSET Se!Asleep(Natives) :
           /\ ~v_m_is_auto_reset => woken = Se!Asleep(Natives)
           /\ v_pc' = [s \in Users |-> IF s = t THEN (IF v_pc[t] = "wakenative" THEN "idle" ELSE "signal")
                                       ELSE IF s \in woken THEN "test" ELSE v_pc[s]]
    BY <1>7 DEF Se!WakeNatives, Se!Wakes, Users
  <2>2. UNCHANGED <<v_m_is_auto_reset, v_m_state, v_broken>>
    BY <1>7 DEF Se!WakeNatives
  <2>3. \A s \in Users : v_pc'[s] = "asleep" => v_pc[s] = "asleep"
    BY <2>1
  <2>4. ~v_m_is_auto_reset => \A n \in Natives : v_pc'[n] # "asleep"
    BY <2>1 DEF Se!Asleep, Users
  <2>5. v_pc' \in [Users -> SePlaces]
    BY <2>1 DEF SeInv, SePlaces
  <2> QED
    BY <2>2, <2>3, <2>4, <2>5 DEF SeInv, Users
<1>8. CASE Se!ExpireFiber(t) \/ Se!ExpireNative(t)
  <2>1. UNCHANGED <<v_m_is_auto_reset, v_m_state>> /\ v_pc[t] = "asleep" /\ v_m_state \in 0 .. 2
    BY <1>8 DEF Se!ExpireFiber, Se!ExpireNative, SeInv
  <2>2. CASE v_pc' = v_pc /\ v_broken' = TRUE
    BY <2>1, <2>2, SeBreaks
  <2>3. CASE v_broken' = v_broken /\ \E place \in {"idle", "test"} : v_pc' = [v_pc EXCEPT ![t] = place]
    BY <1>0, <2>1, <2>3, SeGoes DEF SePlaces
  <2> QED
    BY <1>8, <2>2, <2>3 DEF Se!ExpireFiber, Se!ExpireNative, Se!Goes
<1> QED
  BY <1>1, <1>2, <1>3, <1>4, <1>5, <1>6, <1>7, <1>8

LEMMA SeStutter == ASSUME SeInv, UNCHANGED v_vars PROVE SeInv'
BY DEF SeInv, v_vars

\* Those who sleep are announced, and on a signaled event about to be woken.
LEMMA SeSleepers == ASSUME SeInv PROVE Se!NoSleeperIsForgotten /\ Se!SleepersAreAnnounced
BY DEF SeInv, Se!NoSleeperIsForgotten, Se!SleepersAreAnnounced, Se!OnTheWay, Se!Threads, Users

-----------------------------------------------------------------------------
(* All of them. *)

\* The inductive invariant: that of each service.
ServicesInv == RingInv /\ MqInv /\ EvInv /\ SeInv /\ LkInv

LEMMA ServicesInit == Init => ServicesInv
BY RingInit, MqInit, EvInit, SeInit, LkInit DEF Init, ServicesInv

LEMMA ServicesStep == ServicesInv /\ [Next]_vars => ServicesInv'
<1> SUFFICES ASSUME ServicesInv, [Next]_vars PROVE ServicesInv'
  OBVIOUS
<1> USE DEF ServicesInv
<1>1. CASE RingNext
  BY <1>1, RingStep, MqStutter, EvStutter, SeStutter, LkStutter DEF RingNext
<1>2. CASE MqNext
  BY <1>2, RingStutter, MqStep, EvStutter, SeStutter, LkStutter DEF MqNext
<1>3. CASE EvNext
  BY <1>3, RingStutter, MqStutter, EvStep, SeStutter, LkStutter DEF EvNext
<1>4. CASE SeNext
  BY <1>4, RingStutter, MqStutter, EvStutter, SeStep, LkStutter DEF SeNext
<1>5. CASE LkNext
  BY <1>5, RingStutter, MqStutter, EvStutter, SeStutter, LkStep DEF LkNext
<1>6. CASE ThNext
  BY <1>6, RingStutter, MqStutter, EvStutter, SeStutter, LkStutter DEF ThNext
<1>7. CASE UNCHANGED vars
  BY <1>7, RingStutter, MqStutter, EvStutter, SeStutter, LkStutter DEF vars
<1> QED
  BY <1>1, <1>2, <1>3, <1>4, <1>5, <1>6, <1>7 DEF Next

\* Whatever fibers, native threads and clients call, each service's words and
\* counts agree with who sleeps, waits or holds it.
THEOREM ServicesInvariance == Spec => []ServicesInv
BY ServicesInit, ServicesStep, PTL DEF Spec

\* The words changed outside of the mutexes never lose the news somebody sleeps
\* on (ServiceMessageQueue, MessageQueue, Event, ServiceEvent).
THEOREM SleepersHearOfNews == Spec => []NobodySleepsOnNews
<1>1. ServicesInv => NobodySleepsOnNews
  BY NobodyIsForgotten, SeSleepers DEF ServicesInv, RingInv, MqInv, EvInv, NobodySleepsOnNews
<1> QED
  BY <1>1, ServicesInvariance, PTL

\* The unlocked look at m_owner lets in the holder only, however many fibers and
\* native threads look (ServiceCriticalSection and ServiceMutex).
THEOREM LocksAdmitTheirHolder == Spec => []OnlyTheHolderIsIn
<1>1. ServicesInv => OnlyTheHolderIsIn
  BY DEF ServicesInv, LkInv, OnlyTheHolderIsIn, Lk!OnlyTheHolderIsIn, Lk!Threads, Sharers
<1> QED
  BY <1>1, ServicesInvariance, PTL

\* ServiceMessageQueue and MessageQueue are bounded queues with a jam at the
\* front, for any number of messages, places in the ring and callers.
THEOREM QueuesImplementBoundedQueue == Spec => QueuesAreBounded
<1>1. Init => Ring!Abstract!Init /\ Mq!Abstract!Init
  BY RingInitRefines, MqInitRefines DEF Init
<1>2. ServicesInv /\ ServicesInv' /\ [Next]_vars => [Ring!Abstract!Next]_<<Ring!Contents, s_received>>
  <2> SUFFICES ASSUME ServicesInv, ServicesInv', [Next]_vars
               PROVE  [Ring!Abstract!Next]_<<Ring!Contents, s_received>>
    OBVIOUS
  <2>1. CASE RingNext
    BY <2>1, RingStepRefines DEF RingNext, ServicesInv, RingInv
  <2>2. CASE ~RingNext
    <3>1. UNCHANGED s_vars
      BY <2>2 DEF Next, MqNext, EvNext, SeNext, LkNext, ThNext, vars
    <3> QED
      BY <3>1 DEF s_vars, Ring!Contents, Ring!Slot
  <2> QED
    BY <2>1, <2>2
<1>3. ServicesInv /\ [Next]_vars => [Mq!Abstract!Next]_<<Mq!Contents, q_received>>
  <2> SUFFICES ASSUME ServicesInv, [Next]_vars PROVE [Mq!Abstract!Next]_<<Mq!Contents, q_received>>
    OBVIOUS
  <2>1. CASE MqNext
    BY <2>1, MqStepRefines DEF MqNext, ServicesInv
  <2>2. CASE ~MqNext
    <3>1. UNCHANGED q_vars
      BY <2>2 DEF Next, RingNext, EvNext, SeNext, LkNext, ThNext, vars
    <3> QED
      BY <3>1 DEF q_vars, Mq!Contents, Mq!Slot
  <2> QED
    BY <2>1, <2>2
<1> QED
  BY <1>1, <1>2, <1>3, ServicesInvariance, PTL
     DEF Spec, QueuesAreBounded, Ring!ImplementsBoundedQueue, Mq!ImplementsBoundedQueue,
         Ring!Abstract!Spec, Mq!Abstract!Spec
=============================================================================
