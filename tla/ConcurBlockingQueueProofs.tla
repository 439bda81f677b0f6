----------------------- MODULE ConcurBlockingQueueProofs -----------------------
(***************************************************************************)
(* Proofs about ConcurBlockingQueue, for any number of threads, items and  *)
(* calls.                                                                  *)
(***************************************************************************)
EXTENDS ConcurBlockingQueue, SequenceTheorems, FiniteSetTheorems, TLAPS

(* Where the code is in a call, and the call. *)
CallInv ==
    /\ \A t \in Threads : pc[t] \in {"lock low", "unlock low"} => call[t].prio = "LOW"
    /\ \A t \in Threads : pc[t] \in {"check", "wait", "relock data"} => Consuming(t)
    /\ \A t \in Threads :
        /\ call[t].op = "load"
        /\ pc[t] \in {"lock low", "lock next", "lock data", "unlock next", "apply"}
        => held[t] # <<>>
    /\ \A t \in Threads :
        call[t].op = "dump" /\ pc[t] \notin {"idle", "unlock data", "unlock low"}
        => held[t] = <<>>

(* Each mutex is owned by the thread that is where it must own it, and by  *)
(* nobody else; the sleepers are the threads in the wait.                  *)
DataInv == \A t \in Threads : OwnsData(t) <=> m_data = t
NextInv == \A t \in Threads : OwnsNext(t) <=> m_next_to_access = t
LowInv == \A t \in Threads : OwnsLow(t) <=> m_low_prio_access = t
SleepInv == \A t \in Threads : t \in m_con <=> pc[t] = "wait"

(* Only the owner of m_data changes the queue. *)
FoundInv ==
    \A t \in Threads : pc[t] = "apply" /\ Consuming(t) => m_queue # <<>>

IInv == TypeOK /\ CallInv /\ DataInv /\ NextInv /\ LowInv /\ SleepInv /\ FoundInv

-----------------------------------------------------------------------------
(* The fields of a call. *)
LEMMA CallFields ==
    ASSUME NEW c \in Calls
    PROVE  /\ c.op \in {"enqueue", "dequeue", "dump", "load"}
           /\ c.prio \in {"HIGH", "LOW"}
           /\ c.block \in {"BLOCK", "NONBLOCK"}
           /\ c.op = "enqueue" => c.item \in Items
           /\ c.op \in {"enqueue", "load"} => c.block = "NONBLOCK"
<1>1. c \in AllCalls
    BY ConcurAssumption DEF ConcurAssumption
<1> QED
    BY <1>1 DEF AllCalls

(* Notify moves t on and may wake one sleeper. *)
LEMMA NotifyType ==
    ASSUME pc \in [Threads -> Places], m_con \in SUBSET Threads,
           NEW t \in Threads, Notify(t)
    PROVE  pc' \in [Threads -> Places] /\ m_con' \in SUBSET Threads
BY DEF Notify, Goto, Places

(* The types hold at first. *)
LEMMA TypeInit == Init => TypeOK
<1> SUFFICES ASSUME Init PROVE TypeOK
    OBVIOUS
<1>1. (CHOOSE c \in Calls : TRUE) \in Calls
    BY ConcurAssumption DEF ConcurAssumption
<1> QED
    BY <1>1, EmptySeq DEF Init, TypeOK, Places

(* The lock, check and unlock steps touch only mutexes, pc and m_con. *)
LEMMA TypeLocking ==
    ASSUME TypeOK, NEW t \in Threads, Locking(t) \/ Checking(t) \/ Unlocking(t)
    PROVE  TypeOK'
<1> USE DEF TypeOK, Places, Goto, mutexes
<1>1. CASE Locking(t)
    BY <1>1 DEF Locking, LockLow, LockNext, LockData, UnlockNext, RelockData
<1>2. CASE Checking(t)
    BY <1>2 DEF Checking, Found, ReturnEmpty, Wait
<1>3. CASE Unlocking(t)
    BY <1>3 DEF Unlocking, UnlockData, UnlockLow
<1> QED
    BY <1>1, <1>2, <1>3

(* So do the four operations; silent never goes below zero because only a  *)
(* list that is not empty is loaded.                                       *)
LEMMA TypeApplying ==
    ASSUME TypeOK, CallInv, NEW t \in Threads, Applying(t)
    PROVE  TypeOK'
<1> USE DEF Places, Goto, mutexes
<1>a. m_queue \in Seq(Items) /\ held[t] \in Seq(Items)
    BY DEF TypeOK
<1>b. silent \in Nat
    BY DEF TypeOK
<1>c. pc \in [Threads -> Places] /\ m_con \in SUBSET Threads
    BY DEF TypeOK
<1>1. CASE Enqueue(t)
  <2>1. call[t].item \in Items
    BY <1>1, CallFields DEF Enqueue, TypeOK
  <2>2. m_queue' = Append(m_queue, call[t].item)
    BY <1>1 DEF Enqueue
  <2>22. m_queue' \in Seq(Items)
    BY <1>a, <2>1, <2>2, AppendProperties
  <2>3. silent' \in {silent, silent + 1}
    BY <1>1, Zenon DEF Enqueue
  <2>4. silent' \in Nat
    BY <1>b, <2>3
  <2>5. pc' \in [Threads -> Places] /\ m_con' \in SUBSET Threads
    BY <1>c, <1>1, NotifyType DEF Enqueue
  <2> QED
    BY <1>1, <2>22, <2>4, <2>5 DEF Enqueue, TypeOK
<1>2. CASE Dequeue(t)
  <2>1. Head(m_queue) \in Items /\ Tail(m_queue) \in Seq(Items)
    BY <1>a, <1>2, HeadTailProperties DEF Dequeue
  <2>2. out' \in [Threads -> Items \cup {NULL}] /\ pc' \in [Threads -> Places]
    BY <1>2, <2>1 DEF Dequeue, TypeOK
  <2>3. m_queue' \in Seq(Items) /\ silent' \in Nat
    BY <1>b, <1>2, <2>1 DEF Dequeue
  <2> QED
    BY <1>2, <2>2, <2>3 DEF Dequeue, TypeOK
<1>3. CASE Dump(t)
  <2>1. m_queue' \in Seq(Items)
    BY <1>3, EmptySeq DEF Dump
  <2>2. held' \in [Threads -> Seq(Items)] /\ pc' \in [Threads -> Places]
    BY <1>3 DEF Dump, TypeOK
  <2> QED
    BY <1>3, <2>1, <2>2 DEF Dump, TypeOK
<1>4. CASE Load(t)
  <2>1. held[t] # <<>>
    BY <1>4 DEF Load, CallInv
  <2>2. Len(held[t]) \in Nat \ {0}
    BY <1>a, <2>1, EmptySeq
  <2>3. silent' = silent + Len(held[t]) - 1
    BY <1>4, Zenon DEF Load
  <2>4. silent' \in Nat
    BY <1>b, <2>2, <2>3
  <2>5. m_queue' \in Seq(Items)
    BY <1>a, <1>4, ConcatProperties DEF Load
  <2>6. held' \in [Threads -> Seq(Items)]
    BY <1>4, EmptySeq DEF Load, TypeOK
  <2>7. pc' \in [Threads -> Places] /\ m_con' \in SUBSET Threads
    BY <1>c, <1>4, NotifyType DEF Load
  <2> QED
    BY <1>4, <2>4, <2>5, <2>6, <2>7 DEF Load, TypeOK
<1> QED
    BY <1>1, <1>2, <1>3, <1>4 DEF Applying

(* Every step keeps the types. *)
LEMMA TypeNext ==
    ASSUME TypeOK, CallInv, [Next]_vars
    PROVE  TypeOK'
<1> USE DEF Places, Goto, mutexes
<1>1. ASSUME NEW t \in Threads, NEW c \in Calls, Begin(t, c) PROVE TypeOK'
  <2>1. made \in [Threads -> Nat] /\ made' = [made EXCEPT ![t] = made[t] + 1]
    BY <1>1 DEF Begin, TypeOK
  <2>2. made' \in [Threads -> Nat]
    BY <2>1
  <2>3. pc' \in [Threads -> Places] /\ call' \in [Threads -> Calls]
    BY <1>1 DEF Begin, TypeOK
  <2> QED
    BY <1>1, <2>2, <2>3 DEF Begin, TypeOK
<1>2. ASSUME NEW t \in Threads, SpuriousWakeup(t) PROVE TypeOK'
  <2>1. spurious \in Nat /\ spurious' = spurious + 1
    BY <1>2 DEF SpuriousWakeup, TypeOK
  <2>2. spurious' \in Nat
    BY <2>1
  <2>3. pc' \in [Threads -> Places] /\ m_con' \in SUBSET Threads
    BY <1>2 DEF SpuriousWakeup, TypeOK
  <2> QED
    BY <1>2, <2>2, <2>3 DEF SpuriousWakeup, TypeOK
<1>3. CASE UNCHANGED vars
    BY <1>3 DEF vars, TypeOK
<1> QED
    BY <1>1, <1>2, <1>3, TypeLocking, TypeApplying DEF Next, Step

-----------------------------------------------------------------------------
(* The sleepers are the threads in the wait. *)
LEMMA SleepNext ==
    ASSUME TypeOK, SleepInv, [Next]_vars
    PROVE  SleepInv'
<1> USE ConcurAssumption DEF ConcurAssumption, TypeOK, Places, Goto, mutexes, SleepInv
<1>1. ASSUME NEW t \in Threads, NEW c \in Calls, Begin(t, c) PROVE SleepInv'
    BY <1>1, CallFields DEF Begin
<1>2. ASSUME NEW t \in Threads, SpuriousWakeup(t) PROVE SleepInv'
    BY <1>2 DEF SpuriousWakeup
<1>3. ASSUME NEW t \in Threads, Locking(t) PROVE SleepInv'
  <2>1. CASE LockLow(t)
    BY <2>1 DEF LockLow
  <2>2. CASE LockNext(t)
    BY <2>2 DEF LockNext
  <2>3. CASE LockData(t)
    BY <2>3 DEF LockData
  <2>4. CASE UnlockNext(t)
    BY <2>4 DEF UnlockNext
  <2>5. CASE RelockData(t)
    BY <2>5 DEF RelockData
  <2> QED
    BY <1>3, <2>1, <2>2, <2>3, <2>4, <2>5 DEF Locking
<1>4. ASSUME NEW t \in Threads, Checking(t) PROVE SleepInv'
    BY <1>4 DEF Checking, Found, ReturnEmpty, Wait
<1>5. ASSUME NEW t \in Threads, Applying(t) PROVE SleepInv'
  <2>1. CASE Enqueue(t)
    BY <2>1 DEF Enqueue, Notify
  <2>2. CASE Dequeue(t)
    BY <2>2 DEF Dequeue
  <2>3. CASE Dump(t)
    BY <2>3 DEF Dump
  <2>4. CASE Load(t)
    BY <2>4 DEF Load, Notify
  <2> QED
    BY <1>5, <2>1, <2>2, <2>3, <2>4 DEF Applying
<1>6. ASSUME NEW t \in Threads, Unlocking(t) PROVE SleepInv'
    BY <1>6 DEF Unlocking, UnlockData, UnlockLow
<1>7. CASE UNCHANGED vars
    BY <1>7 DEF vars
<1> QED
    BY <1>1, <1>2, <1>3, <1>4, <1>5, <1>6, <1>7 DEF Next, Step

(* m_data belongs to whoever is between its lock and its unlock or wait. *)
LEMMA DataNext ==
    ASSUME TypeOK, SleepInv, DataInv, [Next]_vars
    PROVE  DataInv'
<1> USE ConcurAssumption DEF ConcurAssumption, TypeOK, Places, Goto, mutexes, SleepInv, DataInv, OwnsData
<1>1. ASSUME NEW t \in Threads, NEW c \in Calls, Begin(t, c) PROVE DataInv'
    BY <1>1, CallFields DEF Begin
<1>2. ASSUME NEW t \in Threads, SpuriousWakeup(t) PROVE DataInv'
    BY <1>2 DEF SpuriousWakeup
<1>3. ASSUME NEW t \in Threads, Locking(t) PROVE DataInv'
  <2>1. CASE LockLow(t)
    BY <2>1 DEF LockLow
  <2>2. CASE LockNext(t)
    BY <2>2 DEF LockNext
  <2>3. CASE LockData(t)
    BY <2>3 DEF LockData
  <2>4. CASE UnlockNext(t)
    BY <2>4 DEF UnlockNext
  <2>5. CASE RelockData(t)
    BY <2>5 DEF RelockData
  <2> QED
    BY <1>3, <2>1, <2>2, <2>3, <2>4, <2>5 DEF Locking
<1>4. ASSUME NEW t \in Threads, Checking(t) PROVE DataInv'
    BY <1>4 DEF Checking, Found, ReturnEmpty, Wait
<1>5. ASSUME NEW t \in Threads, Applying(t) PROVE DataInv'
  <2>1. CASE Enqueue(t)
    BY <2>1 DEF Enqueue, Notify
  <2>2. CASE Dequeue(t)
    BY <2>2 DEF Dequeue
  <2>3. CASE Dump(t)
    BY <2>3 DEF Dump
  <2>4. CASE Load(t)
    BY <2>4 DEF Load, Notify
  <2> QED
    BY <1>5, <2>1, <2>2, <2>3, <2>4 DEF Applying
<1>6. ASSUME NEW t \in Threads, Unlocking(t) PROVE DataInv'
    BY <1>6 DEF Unlocking, UnlockData, UnlockLow
<1>7. CASE UNCHANGED vars
    BY <1>7 DEF vars
<1> QED
    BY <1>1, <1>2, <1>3, <1>4, <1>5, <1>6, <1>7 DEF Next, Step

(* m_next_to_access belongs to whoever is between its lock and unlock. *)
LEMMA NextNext ==
    ASSUME TypeOK, SleepInv, NextInv, [Next]_vars
    PROVE  NextInv'
<1> USE ConcurAssumption DEF ConcurAssumption, TypeOK, Places, Goto, mutexes, SleepInv, NextInv, OwnsNext
<1>1. ASSUME NEW t \in Threads, NEW c \in Calls, Begin(t, c) PROVE NextInv'
    BY <1>1, CallFields DEF Begin
<1>2. ASSUME NEW t \in Threads, SpuriousWakeup(t) PROVE NextInv'
    BY <1>2 DEF SpuriousWakeup
<1>3. ASSUME NEW t \in Threads, Locking(t) PROVE NextInv'
  <2>1. CASE LockLow(t)
    BY <2>1 DEF LockLow
  <2>2. CASE LockNext(t)
    BY <2>2 DEF LockNext
  <2>3. CASE LockData(t)
    BY <2>3 DEF LockData
  <2>4. CASE UnlockNext(t)
    BY <2>4 DEF UnlockNext
  <2>5. CASE RelockData(t)
    BY <2>5 DEF RelockData
  <2> QED
    BY <1>3, <2>1, <2>2, <2>3, <2>4, <2>5 DEF Locking
<1>4. ASSUME NEW t \in Threads, Checking(t) PROVE NextInv'
    BY <1>4 DEF Checking, Found, ReturnEmpty, Wait
<1>5. ASSUME NEW t \in Threads, Applying(t) PROVE NextInv'
  <2>1. CASE Enqueue(t)
    BY <2>1 DEF Enqueue, Notify
  <2>2. CASE Dequeue(t)
    BY <2>2 DEF Dequeue
  <2>3. CASE Dump(t)
    BY <2>3 DEF Dump
  <2>4. CASE Load(t)
    BY <2>4 DEF Load, Notify
  <2> QED
    BY <1>5, <2>1, <2>2, <2>3, <2>4 DEF Applying
<1>6. ASSUME NEW t \in Threads, Unlocking(t) PROVE NextInv'
    BY <1>6 DEF Unlocking, UnlockData, UnlockLow
<1>7. CASE UNCHANGED vars
    BY <1>7 DEF vars
<1> QED
    BY <1>1, <1>2, <1>3, <1>4, <1>5, <1>6, <1>7 DEF Next, Step

(* m_low_prio_access belongs to a LOW caller for all of its call. *)
LEMMA LowNext ==
    ASSUME TypeOK, CallInv, SleepInv, LowInv, [Next]_vars
    PROVE  LowInv'
<1> USE ConcurAssumption DEF ConcurAssumption, TypeOK, Places, Goto, mutexes, CallInv, SleepInv, LowInv, OwnsLow
<1>1. ASSUME NEW t \in Threads, NEW c \in Calls, Begin(t, c) PROVE LowInv'
    BY <1>1, CallFields DEF Begin
<1>2. ASSUME NEW t \in Threads, SpuriousWakeup(t) PROVE LowInv'
    BY <1>2 DEF SpuriousWakeup
<1>3. ASSUME NEW t \in Threads, Locking(t) PROVE LowInv'
  <2>1. CASE LockLow(t)
    BY <2>1 DEF LockLow
  <2>2. CASE LockNext(t)
    BY <2>2 DEF LockNext
  <2>3. CASE LockData(t)
    BY <2>3 DEF LockData
  <2>4. CASE UnlockNext(t)
    BY <2>4 DEF UnlockNext
  <2>5. CASE RelockData(t)
    BY <2>5 DEF RelockData
  <2> QED
    BY <1>3, <2>1, <2>2, <2>3, <2>4, <2>5 DEF Locking
<1>4. ASSUME NEW t \in Threads, Checking(t) PROVE LowInv'
  <2>1. CASE Found(t)
    BY <2>1 DEF Found
  <2>2. CASE ReturnEmpty(t)
    BY <2>2 DEF ReturnEmpty
  <2>3. CASE Wait(t)
    BY <2>3 DEF Wait
  <2> QED
    BY <1>4, <2>1, <2>2, <2>3 DEF Checking
<1>5. ASSUME NEW t \in Threads, Applying(t) PROVE LowInv'
  <2>1. CASE Enqueue(t)
    BY <2>1 DEF Enqueue, Notify
  <2>2. CASE Dequeue(t)
    BY <2>2 DEF Dequeue
  <2>3. CASE Dump(t)
    BY <2>3 DEF Dump
  <2>4. CASE Load(t)
    BY <2>4 DEF Load, Notify
  <2> QED
    BY <1>5, <2>1, <2>2, <2>3, <2>4 DEF Applying
<1>6. ASSUME NEW t \in Threads, Unlocking(t) PROVE LowInv'
  <2>1. CASE UnlockData(t)
    BY <2>1 DEF UnlockData
  <2>2. CASE UnlockLow(t)
    BY <2>2 DEF UnlockLow
  <2> QED
    BY <1>6, <2>1, <2>2 DEF Unlocking
<1>7. CASE UNCHANGED vars
    BY <1>7 DEF vars
<1> QED
    BY <1>1, <1>2, <1>3, <1>4, <1>5, <1>6, <1>7 DEF Next, Step

(* Calls stay on their path. *)
LEMMA CallNext ==
    ASSUME TypeOK, CallInv, SleepInv, [Next]_vars
    PROVE  CallInv'
<1> USE ConcurAssumption DEF ConcurAssumption, TypeOK, Places, Goto, mutexes, CallInv, SleepInv, Consuming
<1>1. ASSUME NEW t \in Threads, NEW c \in Calls, Begin(t, c) PROVE CallInv'
    BY <1>1, CallFields DEF Begin
<1>2. ASSUME NEW t \in Threads, SpuriousWakeup(t) PROVE CallInv'
    BY <1>2 DEF SpuriousWakeup
<1>3. ASSUME NEW t \in Threads, Locking(t) PROVE CallInv'
  <2>1. CASE LockLow(t)
    BY <2>1 DEF LockLow
  <2>2. CASE LockNext(t)
    BY <2>2 DEF LockNext
  <2>3. CASE LockData(t)
    BY <2>3 DEF LockData
  <2>4. CASE UnlockNext(t)
    BY <2>4 DEF UnlockNext
  <2>5. CASE RelockData(t)
    BY <2>5 DEF RelockData
  <2> QED
    BY <1>3, <2>1, <2>2, <2>3, <2>4, <2>5 DEF Locking
<1>4. ASSUME NEW t \in Threads, Checking(t) PROVE CallInv'
    BY <1>4 DEF Checking, Found, ReturnEmpty, Wait
<1>5. ASSUME NEW t \in Threads, Applying(t) PROVE CallInv'
  <2>1. CASE Enqueue(t)
    BY <2>1 DEF Enqueue, Notify
  <2>2. CASE Dequeue(t)
    BY <2>2 DEF Dequeue
  <2>3. CASE Dump(t)
    BY <2>3 DEF Dump
  <2>4. CASE Load(t)
    <3>1. /\ call' = call /\ call[t].op = "load"
          /\ held' = [held EXCEPT ![t] = <<>>]
      BY <2>4 DEF Load
    <3>2. /\ pc'[t] = "unlock data"
          /\ \A s \in Threads \ {t} :
                pc'[s] = pc[s] \/ (pc[s] = "wait" /\ pc'[s] = "relock data")
      BY <2>4 DEF Load, Notify
    <3> QED
      BY <3>1, <3>2
  <2> QED
    BY <1>5, <2>1, <2>2, <2>3, <2>4 DEF Applying
<1>6. ASSUME NEW t \in Threads, Unlocking(t) PROVE CallInv'
    BY <1>6 DEF Unlocking, UnlockData, UnlockLow
<1>7. CASE UNCHANGED vars
    BY <1>7 DEF vars
<1> QED
    BY <1>1, <1>2, <1>3, <1>4, <1>5, <1>6, <1>7 DEF Next, Step

(* Only the owner of m_data changes the queue. *)
LEMMA FoundNext ==
    ASSUME TypeOK, DataInv, SleepInv, FoundInv, [Next]_vars
    PROVE  FoundInv'
<1> USE ConcurAssumption DEF ConcurAssumption, TypeOK, Places, Goto, mutexes, DataInv, SleepInv, FoundInv, OwnsData, Consuming
<1>1. ASSUME NEW t \in Threads, NEW c \in Calls, Begin(t, c) PROVE FoundInv'
    BY <1>1, CallFields DEF Begin
<1>2. ASSUME NEW t \in Threads, SpuriousWakeup(t) PROVE FoundInv'
    BY <1>2 DEF SpuriousWakeup
<1>3. ASSUME NEW t \in Threads, Locking(t) PROVE FoundInv'
  <2>1. CASE LockLow(t)
    BY <2>1 DEF LockLow
  <2>2. CASE LockNext(t)
    BY <2>2 DEF LockNext
  <2>3. CASE LockData(t)
    BY <2>3 DEF LockData
  <2>4. CASE UnlockNext(t)
    BY <2>4 DEF UnlockNext
  <2>5. CASE RelockData(t)
    BY <2>5 DEF RelockData
  <2> QED
    BY <1>3, <2>1, <2>2, <2>3, <2>4, <2>5 DEF Locking
<1>4. ASSUME NEW t \in Threads, Checking(t) PROVE FoundInv'
    BY <1>4 DEF Checking, Found, ReturnEmpty, Wait
<1>5. ASSUME NEW t \in Threads, Applying(t) PROVE FoundInv'
  <2>1. CASE Enqueue(t)
    BY <2>1 DEF Enqueue, Notify
  <2>2. CASE Dequeue(t)
    BY <2>2 DEF Dequeue
  <2>3. CASE Dump(t)
    BY <2>3 DEF Dump
  <2>4. CASE Load(t)
    BY <2>4 DEF Load, Notify
  <2> QED
    BY <1>5, <2>1, <2>2, <2>3, <2>4 DEF Applying
<1>6. ASSUME NEW t \in Threads, Unlocking(t) PROVE FoundInv'
    BY <1>6 DEF Unlocking, UnlockData, UnlockLow
<1>7. CASE UNCHANGED vars
    BY <1>7 DEF vars
<1> QED
    BY <1>1, <1>2, <1>3, <1>4, <1>5, <1>6, <1>7 DEF Next, Step

-----------------------------------------------------------------------------
(* The inductive invariant holds at first ... *)
LEMMA IInvInit == Init => IInv
<1> SUFFICES ASSUME Init PROVE IInv
    OBVIOUS
<1>1. TypeOK
    BY TypeInit
<1>2. CallInv /\ FoundInv
    BY DEF Init, CallInv, FoundInv
<1>3. DataInv /\ NextInv /\ LowInv /\ SleepInv
    BY ConcurAssumption
    DEF ConcurAssumption, Init, DataInv, NextInv, LowInv, SleepInv,
        OwnsData, OwnsNext, OwnsLow
<1> QED
    BY <1>1, <1>2, <1>3 DEF IInv

(* ... and every step keeps it ... *)
LEMMA IInvNext == IInv /\ [Next]_vars => IInv'
BY TypeNext, CallNext, DataNext, NextNext, LowNext, SleepNext, FoundNext DEF IInv

(* ... so it always holds: every thread is on the path of its call and      *)
(* owns exactly the mutexes that its place on the path says.               *)
THEOREM Invariance == Spec => []IInv
BY IInvInit, IInvNext, PTL DEF Spec

(* Every variable stays in its type; in particular the count of silent     *)
(* items never goes below zero.                                            *)
THEOREM TypeCorrect == Spec => []TypeOK
<1>1. IInv => TypeOK
    BY DEF IInv
<1> QED
    BY <1>1, Invariance, PTL

(* The critical sections of enqueue, dequeue, dump and load never overlap, *)
(* for any number of threads.                                              *)
THEOREM Exclusion == Spec => []MutualExclusion
<1>1. IInv => MutualExclusion
    BY DEF IInv, DataInv, MutualExclusion
<1> QED
    BY <1>1, Invariance, PTL

(* However many LOW callers there are, one at a time competes.             *)
THEOREM OneCompetitor == Spec => []OneLowCompetitor
<1>1. IInv => OneLowCompetitor
    BY DEF IInv, LowInv, OneLowCompetitor
<1> QED
    BY <1>1, Invariance, PTL

(* dequeue and dump find an item whenever they go on past their check,     *)
(* after any number of waits and spurious wakeups.                         *)
THEOREM ItemFound == Spec => []ConsumerFindsItem
<1>1. IInv => ConsumerFindsItem
    BY DEF IInv, FoundInv, ConsumerFindsItem
<1> QED
    BY <1>1, Invariance, PTL

-----------------------------------------------------------------------------
(* No deadlock among the mutexes: whoever holds m_data can move; so can    *)
(* whoever holds m_next_to_access, unless it waits for m_data; so a stuck  *)
(* holder of m_low_prio_access is asleep.                                  *)
LEMMA StuckHolders ==
    ASSUME IInv, Stuck
    PROVE  m_data = NULL /\ m_next_to_access = NULL
<1> USE DEF IInv, TypeOK, Stuck, Blocked
<1>1. m_data = NULL
  <2>1. ASSUME m_data # NULL PROVE FALSE
    <3>1. OwnsData(m_data)
      BY <2>1 DEF DataInv
    <3> QED
      BY <2>1, <3>1 DEF OwnsData
  <2> QED
    BY <2>1
<1>2. m_next_to_access = NULL
  <2>1. ASSUME m_next_to_access # NULL PROVE FALSE
    <3>1. OwnsNext(m_next_to_access)
      BY <2>1 DEF NextInv
    <3> QED
      BY <1>1, <2>1, <3>1 DEF OwnsNext
  <2> QED
    BY <2>1
<1> QED
    BY <1>1, <1>2

(* When nobody can move, everybody is between calls, asleep, or LOW behind *)
(* a LOW sleeper.                                                          *)
THEOREM NoDeadlock == Spec => []OnlySleepersStick
<1>1. ASSUME IInv PROVE OnlySleepersStick
  <2> SUFFICES ASSUME Stuck, NEW t \in Threads
               PROVE  \/ pc[t] \in {"idle", "wait"}
                      \/ /\ pc[t] = "lock low"
                         /\ \E s \in m_con : m_low_prio_access = s
    BY DEF OnlySleepersStick
  <2>1. m_data = NULL /\ m_next_to_access = NULL
    BY <1>1, StuckHolders
  <2>2. pc[t] \in {"idle", "wait"} \/ (pc[t] = "lock low" /\ m_low_prio_access # NULL)
    BY <2>1 DEF Stuck, Blocked
  <2>3. ASSUME m_low_prio_access # NULL PROVE m_low_prio_access \in m_con
    <3>1. m_low_prio_access \in Threads /\ OwnsLow(m_low_prio_access)
      BY <1>1, <2>3 DEF IInv, TypeOK, LowInv
    <3>2. pc[m_low_prio_access] = "wait"
      BY <2>1, <3>1 DEF Stuck, Blocked, OwnsLow
    <3> QED
      BY <1>1, <3>1, <3>2 DEF IInv, SleepInv
  <2> QED
    BY <2>2, <2>3
<1> QED
    BY <1>1, Invariance, PTL

-----------------------------------------------------------------------------
(* The abstract list sees each call at one step: Enqueue, Dequeue,         *)
(* ReturnEmpty, Dump or Load.                                              *)
LEMMA StepRefines ==
    ASSUME IInv, [Next]_vars
    PROVE  [Abstract!Next]_Abstract!vars
<1> USE DEF Abstract!Next, Abstract!vars
<1>1. ASSUME NEW t \in Threads, NEW c \in Calls, Begin(t, c)
      PROVE  UNCHANGED <<m_queue, held, out>>
    BY <1>1 DEF Begin
<1>2. ASSUME NEW t \in Threads, SpuriousWakeup(t)
      PROVE  UNCHANGED <<m_queue, held, out>>
    BY <1>2 DEF SpuriousWakeup
<1>3. ASSUME NEW t \in Threads, Locking(t) \/ Unlocking(t)
      PROVE  UNCHANGED <<m_queue, held, out>>
    BY <1>3 DEF Locking, LockLow, LockNext, LockData, UnlockNext, RelockData,
                Unlocking, UnlockData, UnlockLow
<1>4. ASSUME NEW t \in Threads, Checking(t)
      PROVE  Abstract!Miss(t) \/ UNCHANGED <<m_queue, held, out>>
    BY <1>4 DEF Checking, Found, ReturnEmpty, Wait, Abstract!Miss
<1>5. ASSUME NEW t \in Threads, Enqueue(t)
      PROVE  \E x \in Items : Abstract!Put(x)
  <2>1. call[t].item \in Items
    BY <1>5, CallFields DEF Enqueue, IInv, TypeOK
  <2> QED
    BY <1>5, <2>1 DEF Enqueue, Abstract!Put
<1>6. ASSUME NEW t \in Threads, Dequeue(t) PROVE Abstract!Take(t)
    BY <1>6 DEF Dequeue, Abstract!Take
<1>7. ASSUME NEW t \in Threads, Dump(t) PROVE Abstract!TakeAll(t)
    BY <1>7 DEF Dump, Abstract!TakeAll, IInv, CallInv
<1>8. ASSUME NEW t \in Threads, Load(t) PROVE Abstract!PutAll(t)
    BY <1>8 DEF Load, Abstract!PutAll
<1>9. CASE UNCHANGED vars
    BY <1>9 DEF vars
<1> QED
    BY <1>1, <1>2, <1>3, <1>4, <1>5, <1>6, <1>7, <1>8, <1>9
    DEF Next, Step, Applying

(* ConcurBlockingQueue implements the first-in first-out list.             *)
THEOREM Implementation == Spec => ImplementsFifo
<1>1. Init => Abstract!Init
    BY DEF Init, Abstract!Init
<1>2. IInv /\ [Next]_vars => [Abstract!Next]_Abstract!vars
    BY StepRefines
<1> QED
    BY <1>1, <1>2, Invariance, PTL DEF Spec, ImplementsFifo, Abstract!Spec

-----------------------------------------------------------------------------
(* No lost wakeup.  WakeupsCoverItems is inductive beside IInv: a sleeper  *)
(* falls asleep beside an empty queue, and from then on whatever adds an   *)
(* item adds an awake consumer or a silent item.                           *)

(* Sets of threads are finite and can be counted. *)
LEMMA ThreadSets ==
    ASSUME NEW S \in SUBSET Threads
    PROVE  IsFiniteSet(S) /\ Cardinality(S) \in Nat
BY ConcurAssumption, FS_Subset, FS_CardinalityType DEF ConcurAssumption

(* A sleeper that is woken joins the awake consumers.                      *)
LEMMA NotifyWakes ==
    ASSUME IInv, NEW t \in Threads, pc[t] = "apply", ~Consuming(t),
           Notify(t), call' = call, m_con' # {}
    PROVE  m_con # {} /\ Cardinality(Awake') = Cardinality(Awake) + 1
<1>1. PICK w \in m_con : /\ m_con' = m_con \ {w}
                         /\ pc' = [pc EXCEPT ![t] = "unlock data", ![w] = "relock data"]
    BY DEF Notify
<1>2. w \in Threads /\ pc[w] = "wait" /\ Consuming(w) /\ w # t
    BY DEF IInv, TypeOK, SleepInv, CallInv
<1>3. w \notin Awake
    BY <1>2 DEF Awake
<1>4. \A s \in Threads : Consuming(s)' <=> Consuming(s)
    BY DEF Consuming
<1>5. Awake' = Awake \cup {w}
    BY <1>1, <1>2, <1>4 DEF Awake, IInv, TypeOK
<1>6. IsFiniteSet(Awake)
    BY ThreadSets DEF Awake
<1> QED
    BY <1>1, <1>3, <1>5, <1>6, FS_AddElement

(* Every step keeps the bound on the items nobody awake is coming for. *)
LEMMA CoverNext ==
    ASSUME IInv, WakeupsCoverItems, [Next]_vars
    PROVE  WakeupsCoverItems'
<1> SUFFICES ASSUME m_con' # {}
             PROVE  Len(m_queue') <= Cardinality(Awake') + silent'
    BY DEF WakeupsCoverItems
<1>1. TypeOK /\ TypeOK'
    BY IInvNext DEF IInv
<1>2. /\ Len(m_queue) \in Nat /\ Len(m_queue') \in Nat
      /\ silent \in Nat /\ silent' \in Nat
    BY <1>1, LenProperties DEF TypeOK
<1>3. Awake \in SUBSET Threads /\ Awake' \in SUBSET Threads
    BY DEF Awake
<1>4. /\ IsFiniteSet(Awake) /\ IsFiniteSet(Awake')
      /\ Cardinality(Awake) \in Nat /\ Cardinality(Awake') \in Nat
    BY <1>3, ThreadSets
<1>5. m_con # {} => Len(m_queue) <= Cardinality(Awake) + silent
    BY DEF WakeupsCoverItems
(* The three ways in which a step keeps the bound. *)
<1>6. ASSUME m_queue' = <<>> PROVE Len(m_queue') <= Cardinality(Awake') + silent'
  <2>1. Len(m_queue') = 0
    BY <1>6, EmptySeq
  <2> QED
    BY <2>1, <1>2, <1>4
<1>7. ASSUME m_con # {}, Awake \subseteq Awake', m_queue' = m_queue, silent' = silent
      PROVE  Len(m_queue') <= Cardinality(Awake') + silent'
  <2>1. Cardinality(Awake) <= Cardinality(Awake')
    BY <1>4, <1>7, FS_Subset
  <2>2. Len(m_queue') = Len(m_queue)
    BY <1>7
  <2>3. silent' = silent
    BY <1>7
  <2>4. Len(m_queue) <= Cardinality(Awake) + silent
    BY <1>5, <1>7
  <2> QED
    BY <2>1, <2>2, <2>3, <2>4, <1>2, <1>4
<1>8. ASSUME NEW t \in Threads, NEW c \in Calls, Begin(t, c)
      PROVE  Len(m_queue') <= Cardinality(Awake') + silent'
  <2>1. Awake \subseteq Awake'
    BY <1>1, <1>8 DEF Begin, Goto, Awake, Consuming, TypeOK
  <2> QED
    BY <1>7, <1>8, <2>1 DEF Begin
<1>9. ASSUME NEW t \in Threads, SpuriousWakeup(t)
      PROVE  Len(m_queue') <= Cardinality(Awake') + silent'
  <2>1. Awake \subseteq Awake'
    BY <1>1, <1>9 DEF SpuriousWakeup, Goto, Awake, Consuming, TypeOK
  <2> QED
    BY <1>7, <1>9, <2>1 DEF SpuriousWakeup
<1>10. ASSUME NEW t \in Threads, Locking(t) \/ Unlocking(t)
       PROVE  Len(m_queue') <= Cardinality(Awake') + silent'
  <2>1. /\ call' = call /\ m_con' = m_con /\ m_queue' = m_queue /\ silent' = silent
        /\ \A s \in Threads : pc[s] \in {"relock data", "check", "apply"}
                => pc'[s] \in {"relock data", "check", "apply"}
    BY <1>1, <1>10
    DEF Locking, LockLow, LockNext, LockData, UnlockNext, RelockData,
        Unlocking, UnlockData, UnlockLow, Goto, TypeOK
  <2>2. Awake \subseteq Awake'
    BY <2>1 DEF Awake, Consuming
  <2> QED
    BY <1>7, <2>1, <2>2
<1>11. ASSUME NEW t \in Threads, Checking(t)
       PROVE  Len(m_queue') <= Cardinality(Awake') + silent'
  <2>1. CASE Found(t)
    <3>1. Awake \subseteq Awake'
      BY <1>1, <2>1 DEF Found, Goto, Awake, Consuming, TypeOK
    <3> QED
      BY <1>7, <2>1, <3>1 DEF Found
  <2>2. CASE ReturnEmpty(t) \/ Wait(t)
    BY <1>6, <2>2 DEF ReturnEmpty, Wait
  <2> QED
    BY <1>11, <2>1, <2>2 DEF Checking
<1>12. ASSUME NEW t \in Threads, Enqueue(t)
       PROVE  Len(m_queue') <= Cardinality(Awake') + silent'
  <2>1. call[t].item \in Items /\ m_queue \in Seq(Items) /\ pc[t] = "apply" /\ ~Consuming(t)
    BY <1>1, <1>12, CallFields DEF Enqueue, Consuming, TypeOK
  <2>2. m_queue' = Append(m_queue, call[t].item)
    BY <1>12 DEF Enqueue
  <2>3. Len(m_queue') = Len(m_queue) + 1
    BY <2>1, <2>2, AppendProperties
  <2>4. CASE call[t].prio = "HIGH"
    <3>1. Notify(t) /\ silent' = silent /\ call' = call
      BY <1>12, <2>4 DEF Enqueue
    <3>2. m_con # {} /\ Cardinality(Awake') = Cardinality(Awake) + 1
      BY <2>1, <3>1, NotifyWakes
    <3>3. silent' = silent /\ Len(m_queue) <= Cardinality(Awake) + silent
      BY <1>5, <3>1, <3>2
    <3> QED
      BY <1>2, <1>4, <2>3, <3>2, <3>3
  <2>5. CASE call[t].prio # "HIGH"
    <3>1. /\ call' = call /\ m_con' = m_con
          /\ pc' = [pc EXCEPT ![t] = "unlock data"]
      BY <1>12, <2>5 DEF Enqueue, Goto
    <3>2. silent' = silent + 1
      BY <1>12, <2>5, Zenon DEF Enqueue
    <3>3. Awake' = Awake
      BY <1>1, <2>1, <3>1 DEF Awake, Consuming, TypeOK
    <3>4. Cardinality(Awake') = Cardinality(Awake)
      BY <3>3
    <3>5. Len(m_queue) <= Cardinality(Awake) + silent
      BY <1>5, <3>1
    <3> QED
      BY <1>2, <1>4, <2>3, <3>2, <3>4, <3>5
  <2> QED
    BY <2>4, <2>5
<1>13. ASSUME NEW t \in Threads, Dequeue(t)
       PROVE  Len(m_queue') <= Cardinality(Awake') + silent'
  <2>1. CASE m_queue' = <<>>
    BY <1>6, <2>1
  <2>2. CASE m_queue' # <<>>
    <3>1. /\ call' = call /\ m_con' = m_con /\ silent' = silent
          /\ pc' = [pc EXCEPT ![t] = "unlock data"]
          /\ m_queue \in Seq(Items) /\ m_queue # <<>> /\ m_queue' = Tail(m_queue)
          /\ pc[t] = "apply" /\ Consuming(t)
      BY <1>1, <1>13, <2>2 DEF Dequeue, Goto, TypeOK, Consuming
    <3>2. Len(m_queue') = Len(m_queue) - 1
      BY <3>1, HeadTailProperties
    <3>3. Awake' = Awake \ {t} /\ t \in Awake
      BY <1>1, <3>1 DEF Awake, Consuming, TypeOK
    <3>4. Cardinality(Awake') = Cardinality(Awake) - 1
      BY <1>4, <3>3, FS_RemoveElement
    <3>5. Len(m_queue) <= Cardinality(Awake) + silent
      BY <1>5, <3>1
    <3>6. silent' = silent
      BY <3>1
    <3> QED
      BY <1>2, <1>4, <3>2, <3>4, <3>5, <3>6
  <2> QED
    BY <2>1, <2>2
<1>14. ASSUME NEW t \in Threads, Dump(t)
       PROVE  Len(m_queue') <= Cardinality(Awake') + silent'
    BY <1>6, <1>14 DEF Dump
<1>15. ASSUME NEW t \in Threads, Load(t)
       PROVE  Len(m_queue') <= Cardinality(Awake') + silent'
  <2>1. /\ m_queue \in Seq(Items) /\ held[t] \in Seq(Items)
        /\ m_queue' = m_queue \o held[t]
        /\ pc[t] = "apply" /\ ~Consuming(t) /\ Notify(t) /\ call' = call
    BY <1>1, <1>15 DEF Load, TypeOK, Consuming
  <2>2. Len(held[t]) \in Nat /\ Len(m_queue') = Len(m_queue) + Len(held[t])
    BY <2>1, LenProperties, ConcatProperties
  <2>3. silent' = silent + Len(held[t]) - 1
    BY <1>15, Zenon DEF Load
  <2>4. m_con # {} /\ Cardinality(Awake') = Cardinality(Awake) + 1
    BY <2>1, NotifyWakes
  <2>5. Len(m_queue) <= Cardinality(Awake) + silent
    BY <1>5, <2>4
  <2> QED
    BY <1>2, <1>4, <2>2, <2>3, <2>4, <2>5
<1>16. CASE UNCHANGED vars
  <2>1. Awake' = Awake
    BY <1>16 DEF vars, Awake, Consuming
  <2> QED
    BY <1>7, <1>16, <2>1 DEF vars
<1> QED
    BY <1>8, <1>9, <1>10, <1>11, <1>12, <1>13, <1>14, <1>15, <1>16
    DEF Next, Step, Applying

(* While a consumer sleeps, every announced item in the queue has an awake *)
(* consumer of its own.                                                    *)
THEOREM NoLostWakeup == Spec => []WakeupsCoverItems
<1>1. Init => WakeupsCoverItems
    BY DEF Init, WakeupsCoverItems
<1> QED
    BY <1>1, CoverNext, Invariance, PTL DEF Spec
=============================================================================
