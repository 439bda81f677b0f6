------------------------- MODULE ConcurBlockingQueue -------------------------
(***************************************************************************)
(* ConcurBlockingQueue<T>: a Queue shared by threads of two priorities.    *)
(* Three mutexes are taken in the order m_low_prio_access (LOW callers     *)
(* only), m_next_to_access, m_data; m_next_to_access is released as soon   *)
(* as m_data is held, so that at most one LOW caller at a time competes    *)
(* with the HIGH ones.  Consumers wait on m_con with m_data released - but *)
(* with m_low_prio_access still held when they are LOW.                    *)
(*                                                                         *)
(* Every lock, unlock, check and queue operation is a step of its own; the *)
(* wrapped Queue is its abstraction, a sequence (module Queue shows that   *)
(* the pointers implement it).                                             *)
(***************************************************************************)
EXTENDS Naturals, Sequences, FiniteSets

CONSTANTS
    Threads,
    Items,          \* requests that can be enqueued
    NULL,           \* nullptr, and the owner of a free mutex
    Calls,          \* the calls threads make, a subset of AllCalls
    MaxCalls,       \* bound: calls one thread makes
    MaxSpurious     \* bound: spurious wakeups of m_con, over all threads

AllCalls ==
    [op : {"enqueue"}, prio : {"HIGH", "LOW"}, block : {"NONBLOCK"}, item : Items]
    \cup [op : {"dequeue", "dump"}, prio : {"HIGH", "LOW"},
          block : {"BLOCK", "NONBLOCK"}, item : {NULL}]
    \cup [op : {"load"}, prio : {"HIGH", "LOW"}, block : {"NONBLOCK"}, item : {NULL}]

ASSUME ConcurAssumption ==
    /\ IsFiniteSet(Threads)
    /\ NULL \notin Threads /\ NULL \notin Items
    /\ Calls \subseteq AllCalls /\ Calls # {}
    /\ MaxCalls \in Nat /\ MaxSpurious \in Nat

VARIABLES
    m_low_prio_access, m_next_to_access, m_data,    \* owners of the mutexes
    m_con,          \* threads asleep on the condition variable
    m_queue,        \* the items, oldest first
    pc,             \* where each thread is
    call,           \* its current (or last) call
    held,           \* the list it dumped and has not loaded
    out,            \* the result of its last dequeue
    made, spurious, \* calls made, spurious wakeups so far (bounds)
    silent          \* history: items that came without a notify since the
                    \* queue was last empty

mutexes == <<m_low_prio_access, m_next_to_access, m_data>>
vars == <<mutexes, m_con, m_queue, pc, call, held, out, made, spurious, silent>>

Goto(t, l) == pc' = [pc EXCEPT ![t] = l]

Init ==
    /\ m_low_prio_access = NULL /\ m_next_to_access = NULL /\ m_data = NULL
    /\ m_con = {}
    /\ m_queue = <<>>
    /\ pc = [t \in Threads |-> "idle"]
    /\ call = [t \in Threads |-> CHOOSE c \in Calls : TRUE]
    /\ held = [t \in Threads |-> <<>>]
    /\ out = [t \in Threads |-> NULL]
    /\ made = [t \in Threads |-> 0]
    /\ spurious = 0
    /\ silent = 0

-----------------------------------------------------------------------------
(* A list can be loaded only if one was dumped, and is handed on before    *)
(* the next dump overwrites it.  (load of no cells returns -1 at once.)    *)
BeginUnchecked(t, c) ==         \* mutant: load of no cells is not refused
    /\ pc[t] = "idle" /\ made[t] < MaxCalls
    /\ c.op = "dump" => held[t] = <<>>
    /\ made' = [made EXCEPT ![t] = @ + 1]
    /\ call' = [call EXCEPT ![t] = c]
    /\ Goto(t, IF c.prio = "LOW" THEN "lock low" ELSE "lock next")
    /\ UNCHANGED <<mutexes, m_con, m_queue, held, out, spurious, silent>>
Begin(t, c) ==
    /\ pc[t] = "idle" /\ made[t] < MaxCalls
    /\ c.op = "load" => held[t] # <<>>
    /\ c.op = "dump" => held[t] = <<>>
    /\ made' = [made EXCEPT ![t] = @ + 1]
    /\ call' = [call EXCEPT ![t] = c]
    /\ Goto(t, IF c.prio = "LOW" THEN "lock low" ELSE "lock next")
    /\ UNCHANGED <<mutexes, m_con, m_queue, held, out, spurious, silent>>

LockLowShared(t) ==             \* mutant: m_low_prio_access not taken
    /\ pc[t] = "lock low"
    /\ Goto(t, "lock next")
    /\ UNCHANGED <<mutexes, m_con, m_queue, call, held, out, made, spurious, silent>>
LockLow(t) ==
    /\ pc[t] = "lock low" /\ m_low_prio_access = NULL
    /\ m_low_prio_access' = t
    /\ Goto(t, "lock next")
    /\ UNCHANGED <<m_next_to_access, m_data, m_con, m_queue, call, held, out,
                   made, spurious, silent>>

LockNext(t) ==
    /\ pc[t] = "lock next" /\ m_next_to_access = NULL
    /\ m_next_to_access' = t
    /\ Goto(t, "lock data")
    /\ UNCHANGED <<m_low_prio_access, m_data, m_con, m_queue, call, held, out,
                   made, spurious, silent>>

LockDataShared(t) ==            \* mutant: m_data not exclusive
    /\ pc[t] = "lock data"
    /\ m_data' = t
    /\ Goto(t, "unlock next")
    /\ UNCHANGED <<m_low_prio_access, m_next_to_access, m_con, m_queue, call, held,
                   out, made, spurious, silent>>
LockData(t) ==
    /\ pc[t] = "lock data" /\ m_data = NULL
    /\ m_data' = t
    /\ Goto(t, "unlock next")
    /\ UNCHANGED <<m_low_prio_access, m_next_to_access, m_con, m_queue, call, held,
                   out, made, spurious, silent>>

Consuming(t) == call[t].op \in {"dequeue", "dump"}

UnlockNextNever(t) ==           \* mutant: m_next_lock.unlock() forgotten
    /\ pc[t] = "unlock next"
    /\ Goto(t, IF Consuming(t) THEN "check" ELSE "apply")
    /\ UNCHANGED <<mutexes, m_con, m_queue, call, held, out, made, spurious, silent>>
UnlockNext(t) ==
    /\ pc[t] = "unlock next"
    /\ m_next_to_access' = NULL
    /\ Goto(t, IF Consuming(t) THEN "check" ELSE "apply")
    /\ UNCHANGED <<m_low_prio_access, m_data, m_con, m_queue, call, held, out,
                   made, spurious, silent>>

-----------------------------------------------------------------------------
(* The size check of dequeue and dump, and of their wait loops. *)
Found(t) ==
    /\ pc[t] = "check" /\ m_queue # <<>>
    /\ Goto(t, "apply")
    /\ UNCHANGED <<mutexes, m_con, m_queue, call, held, out, made, spurious, silent>>

ReturnEmpty(t) ==
    /\ pc[t] = "check" /\ m_queue = <<>> /\ call[t].block = "NONBLOCK"
    /\ out' = IF call[t].op = "dequeue" THEN [out EXCEPT ![t] = NULL] ELSE out
    /\ Goto(t, "unlock data")
    /\ UNCHANGED <<mutexes, m_con, m_queue, call, held, made, spurious, silent>>

(* m_con.wait(m_data_lock): release and fall asleep in one step. *)
Wait(t) ==
    /\ pc[t] = "check" /\ m_queue = <<>> /\ call[t].block = "BLOCK"
    /\ m_data' = NULL
    /\ m_con' = m_con \cup {t}
    /\ Goto(t, "wait")
    /\ UNCHANGED <<m_low_prio_access, m_next_to_access, m_queue, call, held, out,
                   made, spurious, silent>>

SpuriousWakeup(t) ==
    /\ t \in m_con /\ spurious < MaxSpurious
    /\ spurious' = spurious + 1
    /\ m_con' = m_con \ {t}
    /\ Goto(t, "relock data")
    /\ UNCHANGED <<mutexes, m_queue, call, held, out, made, silent>>

RelockDataTrusting(t) ==        \* mutant: if instead of while around the wait
    /\ pc[t] = "relock data" /\ m_data = NULL
    /\ m_data' = t
    /\ Goto(t, "apply")
    /\ UNCHANGED <<m_low_prio_access, m_next_to_access, m_con, m_queue, call, held,
                   out, made, spurious, silent>>
RelockData(t) ==
    /\ pc[t] = "relock data" /\ m_data = NULL
    /\ m_data' = t
    /\ Goto(t, "check")
    /\ UNCHANGED <<m_low_prio_access, m_next_to_access, m_con, m_queue, call, held,
                   out, made, spurious, silent>>

-----------------------------------------------------------------------------
NotifyLost(t) == UNCHANGED m_con /\ Goto(t, "unlock data")  \* mutant: no notify

(* t goes on to unlock; notify_one wakes some sleeper, if there is one. *)
Notify(t) ==
    \/ m_con = {} /\ UNCHANGED m_con /\ Goto(t, "unlock data")
    \/ \E w \in m_con :
        /\ m_con' = m_con \ {w}
        /\ pc' = [pc EXCEPT ![t] = "unlock data", ![w] = "relock data"]

(* Only the HIGH branch of enqueue notifies. *)
Enqueue(t) ==
    /\ pc[t] = "apply" /\ call[t].op = "enqueue"
    /\ m_queue' = Append(m_queue, call[t].item)
    /\ \/ call[t].prio = "HIGH" /\ Notify(t) /\ UNCHANGED silent
       \/ /\ call[t].prio = "LOW" /\ Goto(t, "unlock data")
          /\ silent' = silent + 1 /\ UNCHANGED m_con
    /\ UNCHANGED <<mutexes, call, held, out, made, spurious>>

DequeueNewest(t) ==             \* mutant: takes the item just enqueued
    /\ pc[t] = "apply" /\ call[t].op = "dequeue" /\ m_queue # <<>>
    /\ out' = [out EXCEPT ![t] = m_queue[Len(m_queue)]]
    /\ m_queue' = SubSeq(m_queue, 1, Len(m_queue) - 1)
    /\ silent' = IF m_queue' = <<>> THEN 0 ELSE silent
    /\ Goto(t, "unlock data")
    /\ UNCHANGED <<mutexes, m_con, call, held, made, spurious>>
Dequeue(t) ==
    /\ pc[t] = "apply" /\ call[t].op = "dequeue" /\ m_queue # <<>>
    /\ out' = [out EXCEPT ![t] = Head(m_queue)]
    /\ m_queue' = Tail(m_queue)
    /\ silent' = IF m_queue' = <<>> THEN 0 ELSE silent
    /\ Goto(t, "unlock data")
    /\ UNCHANGED <<mutexes, m_con, call, held, made, spurious>>

Dump(t) ==
    /\ pc[t] = "apply" /\ call[t].op = "dump"
    /\ held' = [held EXCEPT ![t] = m_queue]
    /\ m_queue' = <<>>
    /\ silent' = 0
    /\ Goto(t, "unlock data")
    /\ UNCHANGED <<mutexes, m_con, call, out, made, spurious>>

(* However many items the list has, one notify.  (As it is written, the    *)
(* member cannot be instantiated: its HIGH branch casts the void** to a    *)
(* struct qnode<T>, line 146.  Modelled is the call of the LOW branch.)    *)
Load(t) ==
    /\ pc[t] = "apply" /\ call[t].op = "load"
    /\ m_queue' = m_queue \o held[t]
    /\ held' = [held EXCEPT ![t] = <<>>]
    /\ silent' = silent + Len(held[t]) - 1
    /\ Notify(t)
    /\ UNCHANGED <<mutexes, call, out, made, spurious>>

-----------------------------------------------------------------------------
UnlockData(t) ==
    /\ pc[t] = "unlock data"
    /\ m_data' = NULL
    /\ Goto(t, IF call[t].prio = "LOW" THEN "unlock low" ELSE "idle")
    /\ UNCHANGED <<m_low_prio_access, m_next_to_access, m_con, m_queue, call, held,
                   out, made, spurious, silent>>

UnlockLow(t) ==
    /\ pc[t] = "unlock low"
    /\ m_low_prio_access' = NULL
    /\ Goto(t, "idle")
    /\ UNCHANGED <<m_next_to_access, m_data, m_con, m_queue, call, held, out,
                   made, spurious, silent>>

Locking(t) == LockLow(t) \/ LockNext(t) \/ LockData(t) \/ UnlockNext(t) \/ RelockData(t)
Checking(t) == Found(t) \/ ReturnEmpty(t) \/ Wait(t)
Applying(t) == Enqueue(t) \/ Dequeue(t) \/ Dump(t) \/ Load(t)
Unlocking(t) == UnlockData(t) \/ UnlockLow(t)

(* The steps a thread inside a call takes by itself. *)
Step(t) == Locking(t) \/ Checking(t) \/ Applying(t) \/ Unlocking(t)

Next ==
    \E t \in Threads :
        \/ \E c \in Calls : Begin(t, c)
        \/ SpuriousWakeup(t)
        \/ Step(t)

Spec == Init /\ [][Next]_vars

(* The scheduler runs every thread that can run.  Since every thread makes *)
(* finitely many calls, a mutex is not taken away from a contender for     *)
(* ever, and weak fairness is enough.  Nothing forces a call to be made or *)
(* a sleeper to wake without a notify.                                     *)
FairSpec == Spec /\ \A t \in Threads : WF_vars(Step(t))
-----------------------------------------------------------------------------
Places == {"idle", "lock low", "lock next", "lock data", "unlock next", "check",
           "wait", "relock data", "apply", "unlock data", "unlock low"}

(* Every variable stays in its type: mutexes have thread owners, threads   *)
(* are at known places, and the items that came silently are never fewer   *)
(* than none.                                                              *)
TypeOK ==
    /\ m_low_prio_access \in Threads \cup {NULL}
    /\ m_next_to_access \in Threads \cup {NULL}
    /\ m_data \in Threads \cup {NULL}
    /\ m_con \in SUBSET Threads
    /\ m_queue \in Seq(Items)
    /\ pc \in [Threads -> Places]
    /\ call \in [Threads -> Calls]
    /\ held \in [Threads -> Seq(Items)]
    /\ out \in [Threads -> Items \cup {NULL}]
    /\ made \in [Threads -> Nat] /\ spurious \in Nat /\ silent \in Nat

(* Where a thread must own each of the mutexes. *)
OwnsData(t) == pc[t] \in {"unlock next", "check", "apply", "unlock data"}
OwnsNext(t) == pc[t] \in {"lock data", "unlock next"}
OwnsLow(t) == call[t].prio = "LOW" /\ pc[t] \notin {"idle", "lock low"}

(* The critical sections of two threads never overlap, although a woken    *)
(* consumer comes back to m_data past m_next_to_access, which everybody    *)
(* else passes first.                                                      *)
MutualExclusion ==
    \A s, t \in Threads : OwnsData(s) /\ OwnsData(t) => s = t

(* What the third mutex is for: whatever the number of LOW callers, a HIGH *)
(* caller competes for m_next_to_access and m_data with at most one of     *)
(* them.                                                                   *)
OneLowCompetitor ==
    \A s, t \in Threads : OwnsLow(s) /\ OwnsLow(t) => s = t

(* Queue::dequeue dereferences m_head unchecked, and dump of an empty list *)
(* breaks what BLOCK promises: the check made before a wait must still     *)
(* hold when the operation runs.                                           *)
ConsumerFindsItem ==
    \A t \in Threads : pc[t] = "apply" /\ Consuming(t) => m_queue # <<>>

Blocked(t) ==
    \/ pc[t] = "wait"
    \/ pc[t] = "lock low" /\ m_low_prio_access # NULL
    \/ pc[t] = "lock next" /\ m_next_to_access # NULL
    \/ pc[t] \in {"lock data", "relock data"} /\ m_data # NULL

Stuck == \A t \in Threads : pc[t] = "idle" \/ Blocked(t)

(* The three mutexes never deadlock among themselves.  When nobody can     *)
(* move, everybody is between calls, asleep on m_con, or a LOW caller      *)
(* behind a LOW consumer that fell asleep with m_low_prio_access held.     *)
OnlySleepersStick ==
    Stuck => \A t \in Threads :
                \/ pc[t] \in {"idle", "wait"}
                \/ /\ pc[t] = "lock low"
                   /\ \E s \in m_con : m_low_prio_access = s

(* Consumers that are awake and will look at the queue. *)
Awake == {t \in Threads : Consuming(t) /\ pc[t] \in {"relock data", "check", "apply"}}

(* No lost wakeup: while a consumer sleeps, the items in the queue have an *)
(* awake consumer each coming for them, but for as many as came silently   *)
(* (enqueued LOW, or loaded behind the first of their list) since the      *)
(* queue was last empty.  A dequeue does not lower that number, so where   *)
(* it took a silent item the bound is one wider than it need be.           *)
WakeupsCoverItems ==
    m_con # {} => Len(m_queue) <= Cardinality(Awake) + silent

(* A HIGH call that need not wait for an item returns, even with LOW       *)
(* callers stuck for good: nobody keeps m_next_to_access or m_data.        *)
MustReturn(t) == call[t].prio = "HIGH" /\ call[t].block = "NONBLOCK"
HighCallsReturn ==
    \A t \in Threads : (pc[t] # "idle" /\ MustReturn(t)) ~> (pc[t] = "idle")

(* A sleeping consumer does not sleep on beside an item: either it wakes,  *)
(* or others take the items, or an item has come silently.                 *)
SleepersServed ==
    \A t \in Threads :
        (t \in m_con /\ m_queue # <<>> /\ silent = 0)
            ~> (t \notin m_con \/ m_queue = <<>> \/ silent > 0)

Abstract == INSTANCE Fifo WITH Users <- Threads, items <- m_queue

(* The shared queue is still a first-in first-out list with indivisible    *)
(* operations: each call has its effect in one step between its begin and  *)
(* its return, and BLOCK and NONBLOCK results are those of that moment.    *)
ImplementsFifo == Abstract!Spec
=============================================================================
