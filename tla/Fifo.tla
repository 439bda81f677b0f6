-------------------------------- MODULE Fifo --------------------------------
(***************************************************************************)
(* What Queue and ConcurBlockingQueue promise to their users: one list of  *)
(* items in arrival order.  A user puts an item, takes the oldest one,     *)
(* takes the whole list at once (dump) or puts back, in order, a list it   *)
(* has taken (load).  Each of these is one indivisible step.  Nothing is   *)
(* lost, duplicated or overtaken by construction; the components are shown *)
(* to implement this.                                                      *)
(***************************************************************************)
EXTENDS Sequences

CONSTANTS
    Users,      \* the callers: threads, or the one owner of a plain Queue
    Items,      \* what the list holds: request nodes
    NULL        \* what a take from an empty list gives

VARIABLES
    items,      \* the list
    held,       \* per user: the list it dumped and has not loaded yet
    out         \* per user: the result of its last take

vars == <<items, held, out>>

Init ==
    /\ items = <<>>
    /\ held = [u \in Users |-> <<>>]
    /\ out = [u \in Users |-> NULL]

Put(x) ==
    /\ items' = Append(items, x)
    /\ UNCHANGED <<held, out>>

Take(u) ==
    /\ items # <<>>
    /\ items' = Tail(items)
    /\ out' = [out EXCEPT ![u] = Head(items)]
    /\ UNCHANGED held

Miss(u) ==
    /\ items = <<>>
    /\ out' = [out EXCEPT ![u] = NULL]
    /\ UNCHANGED <<items, held>>

TakeAll(u) ==
    /\ held[u] = <<>>
    /\ held' = [held EXCEPT ![u] = items]
    /\ items' = <<>>
    /\ UNCHANGED out

PutAll(u) ==
    /\ items' = items \o held[u]
    /\ held' = [held EXCEPT ![u] = <<>>]
    /\ UNCHANGED out

Next ==
    \/ \E x \in Items : Put(x)
    \/ \E u \in Users : Take(u) \/ Miss(u) \/ TakeAll(u) \/ PutAll(u)

Spec == Init /\ [][Next]_vars
=============================================================================
