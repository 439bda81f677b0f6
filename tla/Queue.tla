-------------------------------- MODULE Queue --------------------------------
(***************************************************************************)
(* Queue<T> (Queue.cpp): a singly linked list with m_head, m_tail and      *)
(* m_size, as pointers into a heap of qnode cells.  One caller uses it (it *)
(* has no lock of its own): run() owns one, ConcurBlockingQueue guards     *)
(* another.  The caller may hold one dumped list (t_head, t_tail, t_num),  *)
(* as run() does between dump and load.                                    *)
(*                                                                         *)
(* chain and loose are history variables: the cells of the list and of the *)
(* held list in the order in which their items arrived.  No action reads   *)
(* them; Linked says that the pointers lead through exactly these cells.   *)
(***************************************************************************)
EXTENDS Naturals, Sequences, FiniteSets

CONSTANTS
    Cells,      \* heap cells a qnode can be allocated in (bounds the heap)
    Items,      \* the data pointers
    NULL        \* nullptr

ASSUME QueueAssumption == NULL \notin Cells /\ NULL \notin Items

VARIABLES
    m_head, m_tail, m_size,     \* the members
    qnode,                      \* contents of every cell: [data, next]
    live,                       \* cells that are allocated
    t_head, t_tail, t_num,      \* the list the caller holds after dump
    out,                        \* the result of the last dequeue
    phase,                      \* "alive", then the destructor's progress
    current,                    \* the destructor's loop variable
    chain, loose                \* history, see above

CellOrNull == Cells \cup {NULL}
QNode == [data : Items \cup {NULL}, next : CellOrNull]

list == <<m_head, m_tail, m_size>>
caller == <<t_head, t_tail, t_num, out>>
dstr == <<phase, current>>
vars == <<list, qnode, live, caller, dstr, chain, loose>>

Init ==
    /\ m_head = NULL /\ m_tail = NULL /\ m_size = 0
    /\ qnode = [c \in Cells |-> [data |-> NULL, next |-> NULL]]
    /\ live = {}
    /\ t_head = NULL /\ t_tail = NULL /\ t_num = 0
    /\ out = NULL
    /\ phase = "alive" /\ current = NULL
    /\ chain = <<>> /\ loose = <<>>

-----------------------------------------------------------------------------
(* The cells after a list starting at h is hung behind the old tail. *)
HangUnlinked(cells, h) == cells             \* mutant: m_tail->next forgotten
HangAtHead(cells, h) ==                    \* mutant: m_head->next instead
    IF m_size = 0 THEN cells ELSE [cells EXCEPT ![m_head].next = h]
Hang(cells, h) == IF m_size = 0 THEN cells ELSE [cells EXCEPT ![m_tail].next = h]

enqueue(x) ==
    /\ phase = "alive"
    /\ \E n \in Cells \ live :
        /\ live' = live \cup {n}
        /\ qnode' = Hang([qnode EXCEPT ![n] = [data |-> x, next |-> NULL]], n)
        /\ m_head' = IF m_size = 0 THEN n ELSE m_head
        /\ m_tail' = n
        /\ m_size' = m_size + 1
        /\ chain' = Append(chain, n)
    /\ UNCHANGED <<caller, dstr, loose>>

getSize == m_size

(* m_head is dereferenced without a check: callers look at the size first. *)
dequeueUnasked ==                           \* mutant: nobody looks at the size
    /\ phase = "alive"
    /\ IF m_size = 0 THEN UNCHANGED <<out, live, m_head, m_tail, chain>>
       ELSE /\ out' = qnode[m_head].data
            /\ live' = live \ {m_head}
            /\ m_head' = qnode[m_head].next /\ m_tail' = m_tail
            /\ chain' = Tail(chain)
    /\ m_size' = m_size - 1
    /\ UNCHANGED <<qnode, t_head, t_tail, t_num, dstr, loose>>
dequeue ==
    /\ phase = "alive" /\ getSize > 0
    /\ out' = qnode[m_head].data
    /\ live' = live \ {m_head}
    /\ IF m_size = 1 THEN m_head' = NULL /\ m_tail' = NULL
                     ELSE m_head' = qnode[m_head].next /\ m_tail' = m_tail
    /\ m_size' = m_size - 1
    /\ chain' = Tail(chain)
    /\ UNCHANGED <<qnode, t_head, t_tail, t_num, dstr, loose>>

dump ==
    /\ phase = "alive" /\ t_num = 0
    /\ t_head' = m_head /\ t_tail' = m_tail /\ t_num' = m_size
    /\ m_head' = NULL /\ m_tail' = NULL /\ m_size' = 0
    /\ loose' = chain /\ chain' = <<>>
    /\ UNCHANGED <<qnode, live, out, dstr>>

(* The caller hands its list over; it must not use it again. *)
load ==
    /\ phase = "alive" /\ t_num > 0
    /\ qnode' = Hang(qnode, t_head)
    /\ m_head' = IF m_size = 0 THEN t_head ELSE m_head
    /\ m_tail' = t_tail
    /\ m_size' = m_size + t_num
    /\ t_head' = NULL /\ t_tail' = NULL /\ t_num' = 0
    /\ chain' = chain \o loose /\ loose' = <<>>
    /\ UNCHANGED <<live, out, dstr>>

-----------------------------------------------------------------------------
(* ~Queue.  The first turn of the loop passes next->data to m_destr before *)
(* next is ever assigned: with a destructor function set, an uninitialized *)
(* pointer is dereferenced.  Either the process dies there or the call     *)
(* goes to some stale cell and the loop carries on.                        *)
Destroy ==
    /\ phase = "alive"
    /\ phase' = "destroying"
    /\ current' = m_head
    /\ UNCHANGED <<list, qnode, live, caller, chain, loose>>

DestroyUninit ==
    /\ phase = "destroying" /\ current = m_head /\ current # NULL
    /\ phase' = "crashed"
    /\ UNCHANGED <<list, qnode, live, caller, current, chain, loose>>

DestroyCellLast ==                          \* mutant: stops at the tail
    /\ phase = "destroying" /\ current # NULL
    /\ live' = live \ {current}
    /\ current' = IF qnode[current].next = m_tail THEN NULL ELSE qnode[current].next
    /\ UNCHANGED <<list, qnode, caller, phase, chain, loose>>
DestroyCell ==
    /\ phase = "destroying" /\ current # NULL
    /\ live' = live \ {current}
    /\ current' = qnode[current].next
    /\ UNCHANGED <<list, qnode, caller, phase, chain, loose>>

Destroyed ==
    /\ phase = "destroying" /\ current = NULL
    /\ phase' = "destroyed"
    /\ UNCHANGED <<list, qnode, live, caller, current, chain, loose>>

Next ==
    \/ \E x \in Items : enqueue(x)
    \/ dequeue \/ dump \/ load
    \/ Destroy \/ DestroyUninit \/ DestroyCell \/ Destroyed

Spec == Init /\ [][Next]_vars

-----------------------------------------------------------------------------
(* Members, cells and the caller's pointers stay in their types; m_size,   *)
(* a size_t, is never decremented below zero.                              *)
TypeOK ==
    /\ m_head \in CellOrNull /\ m_tail \in CellOrNull /\ m_size \in Nat
    /\ qnode \in [Cells -> QNode]
    /\ live \in SUBSET Cells
    /\ t_head \in CellOrNull /\ t_tail \in CellOrNull /\ t_num \in Nat
    /\ out \in Items \cup {NULL}
    /\ phase \in {"alive", "destroying", "crashed", "destroyed"}
    /\ current \in CellOrNull
    /\ chain \in Seq(Cells) /\ loose \in Seq(Cells)

(* s is the list that starts at h, ends at t and is closed by a nullptr. *)
ListOf(s, h, t) ==
    IF s = <<>>
    THEN h = NULL /\ t = NULL
    ELSE /\ h = s[1] /\ t = s[Len(s)]
         /\ \A i \in 1 .. Len(s) - 1 : qnode[s[i]].next = s[i + 1]
         /\ qnode[t].next = NULL

CellsOf(s) == {s[i] : i \in 1 .. Len(s)}

Distinct(s) == \A i, j \in 1 .. Len(s) : s[i] = s[j] => i = j

(* The pointers and the counters agree at every call: following next from  *)
(* m_head passes exactly the m_size cells in arrival order and ends at     *)
(* m_tail, and so does the list the caller holds; no cell is passed twice  *)
(* or belongs to both.  A stale m_tail, a lost link or a wrong count shows *)
(* only some calls later.                                                  *)
Linked ==
    /\ ListOf(chain, m_head, m_tail) /\ m_size = Len(chain)
    /\ ListOf(loose, t_head, t_tail) /\ t_num = Len(loose)
    /\ Distinct(chain) /\ Distinct(loose)
    /\ CellsOf(chain) \cap CellsOf(loose) = {}

(* Memory accounting: while the queue lives, the allocated cells are those *)
(* of its list and of the list its caller holds; none is leaked by dequeue *)
(* or dump, none is freed while still linked.  After the destructor only   *)
(* the caller's list is left.                                              *)
NothingLeaked ==
    /\ phase = "alive" => live = CellsOf(chain) \cup CellsOf(loose)
    /\ phase = "destroyed" => live = CellsOf(loose)

-----------------------------------------------------------------------------
DataOf(s) == [i \in 1 .. Len(s) |-> qnode[s[i]].data]

Abstract == INSTANCE Fifo WITH
    Users <- {"caller"},
    items <- DataOf(chain),
    held <- [u \in {"caller"} |-> DataOf(loose)],
    out <- [u \in {"caller"} |-> out]

(* Queue implements the first-in first-out list: each of enqueue, dequeue, *)
(* dump and load is the one step Fifo says it is, read off the data of the *)
(* linked cells; the destructor's steps change nothing a user could see.   *)
ImplementsFifo == Abstract!Spec
=============================================================================
