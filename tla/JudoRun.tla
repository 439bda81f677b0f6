------------------------------- MODULE JudoRun -------------------------------
(***************************************************************************)
(* JudoServer::run: one thread polls the listening socket and every        *)
(* connection, and serves those that are ready: accept on the listener,    *)
(* judoRead_ (which may end in judoDisconnect_) on a connection.  The      *)
(* sockets live in a DualDynamicArray (module DualDynamicArray) of pollfd  *)
(* and ssl_node*, and run keeps pointers into it, poll_array and           *)
(* node_array, while the calls it makes add and remove entries.            *)
(*                                                                         *)
(* One scan action is one turn of the inner loop; peers act between turns. *)
(* accept and judoRead_ enter with all the results they can have (module   *)
(* JudoAccept looks inside the first).  m_input_queue is left out: nothing *)
(* enqueues to it, so its dump returns 0 every time.                       *)
(***************************************************************************)
EXTENDS Integers, FiniteSets

CONSTANTS
    Listener,       \* m_server_list_sock
    ListNode,       \* m_server_list_sock_node
    Fds,            \* descriptors for connections (all the process may have)
    Nodes,          \* heap cells an ssl_node can be allocated in
    NoFd,           \* fp of a cell that is not allocated
    NoValue,        \* contents of a slot that was never written
    MIN_DDA_SIZE,
    Limit,          \* events after which run returns (9)
    Backlog         \* connections the kernel keeps for accept (5)

ASSUME RunAssumption ==
    /\ IsFiniteSet(Fds) /\ Listener \notin Fds
    /\ ListNode \notin Nodes
    /\ NoFd \notin Fds
    /\ NoValue \notin Fds \cup {Listener} /\ NoValue \notin Nodes \cup {ListNode}
    /\ MIN_DDA_SIZE \in Nat \ {0} /\ Limit \in Nat \ {0} /\ Backlog \in Nat

VARIABLES
    m_size, m_cap, m_first_array, m_second_array,   \* m_ssl_nodes
    m_active,
    pc,                 \* "setup" (outside run), "poll", "scan", "dead"
    a, index,           \* locals of run
    sockets_to_handel,
    revents,            \* sockets whose pollfd, seen through poll_array, has POLLIN
    old,                \* freed storage the local pointers still point to, or <<>>
    fp,                 \* descriptor of each allocated ssl_node
    open, pending,      \* kernel: open connections, connections to accept
    data, hungup,       \* kernel: connections with unread bytes, closed by the peer
    reported, handled   \* history: what the last poll reported, what was served

conns == <<m_size, m_cap, m_first_array, m_second_array>>
loop == <<a, index, sockets_to_handel, revents, old>>
kernel == <<open, pending, data, hungup>>
round == <<reported, handled>>
vars == <<conns, m_active, pc, loop, fp, kernel, round>>

m_ssl_nodes == INSTANCE DualDynamicArray
    WITH Keys <- Fds \cup {Listener}, Values <- Nodes \cup {ListNode}

stale == old # <<>>

(* The server constructor opens the listener; the default one does not. *)
Init ==
    /\ m_active = FALSE /\ pc = "setup"
    /\ a = 0 /\ index = 0 /\ sockets_to_handel = 0
    /\ revents = {} /\ old = <<>>
    /\ fp = [n \in Nodes |-> NoFd]
    /\ open = {} /\ pending = 0 /\ data = {} /\ hungup = {}
    /\ reported = {} /\ handled = {}
    /\ m_cap = MIN_DDA_SIZE
    /\ \/ /\ m_size = 0
          /\ m_first_array = m_ssl_nodes!Fresh(MIN_DDA_SIZE)
          /\ m_second_array = m_ssl_nodes!Fresh(MIN_DDA_SIZE)
       \/ /\ m_size = 1
          /\ m_first_array = [m_ssl_nodes!Fresh(MIN_DDA_SIZE) EXCEPT ![0] = Listener]
          /\ m_second_array = [m_ssl_nodes!Fresh(MIN_DDA_SIZE) EXCEPT ![0] = ListNode]

Entries == 0 .. m_size - 1
Polled == {m_first_array[i] : i \in Entries}

-----------------------------------------------------------------------------
(* The peers. *)

Arrive ==
    /\ Listener \in Polled /\ pending < Backlog
    /\ pending' = pending + 1
    /\ UNCHANGED <<conns, m_active, pc, loop, fp, open, data, hungup, round>>

Send(fd) ==
    /\ fd \in open \ hungup
    /\ data' = data \cup {fd}
    /\ UNCHANGED <<conns, m_active, pc, loop, fp, open, pending, hungup, round>>

HangUp(fd) ==
    /\ fd \in open \ hungup
    /\ hungup' = hungup \cup {fd}
    /\ UNCHANGED <<conns, m_active, pc, loop, fp, open, pending, data, round>>

Peers == Arrive \/ \E fd \in Fds : Send(fd) \/ HangUp(fd)

-----------------------------------------------------------------------------
(* The kernel gives the lowest free descriptor; as Fds has no order here,  *)
(* one that the set of open descriptors determines.                        *)
FreeFd == CHOOSE fd \in Fds : fd \notin open

(* A new connection gets a descriptor, an ssl_node and an entry. *)
AddConnection(n) ==
    /\ Fds \ open # {} /\ fp[n] = NoFd
    /\ open' = open \cup {FreeFd}
    /\ fp' = [fp EXCEPT ![n] = FreeFd]
    /\ m_ssl_nodes!add(FreeFd, n)

(* An outgoing connection, made while run is not running.  The exits of    *)
(* judoConnect_ with an error add no entry; what they lose - a node at     *)
(* line 241, a descriptor at 289 and 302 - is in JudoLifecycle.            *)
Connect ==
    /\ pc = "setup"
    /\ \E n \in Nodes : AddConnection(n)
    /\ UNCHANGED <<m_active, pc, loop, pending, data, hungup, round>>

Run ==
    /\ pc = "setup"
    /\ m_active' = TRUE /\ a' = 0 /\ pc' = "poll"
    /\ UNCHANGED <<conns, index, sockets_to_handel, revents, old, fp, kernel, round>>

(* m_active is not reset. *)
Return ==
    /\ pc = "poll" /\ a = Limit
    /\ pc' = "setup"
    /\ UNCHANGED <<conns, m_active, loop, fp, kernel, round>>

Readable ==
    ((data \cup hungup) \cap Polled)
    \cup (IF pending > 0 THEN {Listener} \cap Polled ELSE {})

(* poll writes every revents, waiting up to a second for one to be set. *)
Poll ==
    /\ pc = "poll" /\ a # Limit
    /\ revents' = Readable
    /\ sockets_to_handel' = Cardinality(Readable)
    /\ index' = 0 /\ old' = <<>>
    /\ reported' = Readable /\ handled' = {}
    /\ pc' = IF Readable = {} THEN "poll" ELSE "scan"
    /\ UNCHANGED <<conns, m_active, a, fp, kernel>>

-----------------------------------------------------------------------------
(* The turn for poll_array[index], node_array[index].  After the storage   *)
(* was replaced the pointers lead to the freed one.                        *)
CurrentFdFresh == m_first_array[index]       \* mutant: only poll_array is fetched anew
CurrentFd == IF stale THEN old[1][index] ELSE m_first_array[index]
CurrentNode == IF stale THEN old[2][index] ELSE m_second_array[index]
Marked == (stale => index \in DOMAIN old[1]) /\ CurrentFd \in revents

(* a counts on and run compares it with !=.  Beyond Limit its value does   *)
(* not matter (until it wraps, after 2^32 events).                         *)
Count == a' = IF a > Limit THEN a ELSE a + 1

(* The end of a turn, at index i with the local array_size and todo        *)
(* sockets left.  Locals and bits are dead once the inner loop ends: the   *)
(* next poll rewrites them.                                                *)
EndTurnFirst(i, array_size, todo, bits) ==  \* mutant: each round ends with its first turn
    /\ pc' = "poll" /\ index' = 0 /\ sockets_to_handel' = 0 /\ revents' = {}
EndTurn(i, array_size, todo, bits) ==
    LET over == i = array_size - 1 \/ todo = 0
    IN  /\ pc' = IF over THEN "poll" ELSE "scan"
        /\ index' = IF over THEN 0 ELSE i + 1
        /\ sockets_to_handel' = IF over THEN 0 ELSE todo
        /\ revents' = IF over THEN {} ELSE bits

(* Storage given back by grow or shrink stays where the pointers point.    *)
KeepStorage(first, second) ==
    old' = IF m_cap' = m_cap \/ stale THEN old ELSE <<first, second>>

(* judoAccept_ adds the client, or drops it (no answer, other mode, failed *)
(* handshake), or fails with the client still in the backlog (certificate  *)
(* files, no descriptor).  Dropping it closes its own socket here; line    *)
(* 191 may close another one (see Crash).  array_size was read before the  *)
(* call, and neither the count nor revents is touched.                     *)
Accept ==
    /\ pc = "scan" /\ Marked /\ CurrentFd = Listener
    /\ \/ /\ pending > 0 /\ pending' = pending - 1
          /\ \E n \in Nodes : AddConnection(n)
       \/ /\ pending > 0 /\ pending' = pending - 1
          /\ UNCHANGED <<open, fp, conns>>
       \/ UNCHANGED <<pending, open, fp, conns>>
    /\ KeepStorage(m_first_array, m_second_array)
    /\ handled' = handled \cup {Listener}
    /\ Count
    /\ EndTurn(index, m_size, sockets_to_handel, revents)
    /\ UNCHANGED <<m_active, data, hungup, reported>>

(* judoRead_ returns a message; there may be more to read. *)
Read ==
    /\ pc = "scan" /\ Marked /\ CurrentFd # Listener
    /\ CurrentFd \in data
    /\ data' \in {data, data \ {CurrentFd}}
    /\ handled' = handled \cup {CurrentFd}
    /\ Count
    /\ EndTurn(index, m_size, sockets_to_handel - 1, revents \ {CurrentFd})
    /\ UNCHANGED <<conns, m_active, old, fp, open, pending, hungup, reported>>

(* judoRead_ finds the peer gone, or silent in the middle of a message for *)
(* the five seconds of SO_RCVTIMEO, and calls judoDisconnect_, which       *)
(* closes the socket, deletes the node and removes the entry.  run steps   *)
(* back, because the last entry has taken the place of the removed one.    *)
DroppedKept(fd, n) ==           \* mutant: m_ssl_nodes->remove forgotten
    /\ open' = open \ {fd} /\ data' = data \ {fd} /\ hungup' = hungup \ {fd}
    /\ fp' = [fp EXCEPT ![n] = NoFd]
    /\ UNCHANGED <<conns, old>>
Dropped(fd, n) ==
    /\ open' = open \ {fd} /\ data' = data \ {fd} /\ hungup' = hungup \ {fd}
    /\ fp' = [fp EXCEPT ![n] = NoFd]
    /\ m_ssl_nodes!remove(fd)
    /\ KeepStorage(m_ssl_nodes!Swapped(m_first_array, fd),
                   m_ssl_nodes!Swapped(m_second_array, fd))

StepBackTwice == index - 2      \* mutant: one step too many
StepBackToStart == -1           \* mutant: the scan starts again
StepBackNot == index            \* mutant: index -= 1 forgotten
StepBack == index - 1
SizeLeftOld == m_size           \* mutant: array_size -= 1 forgotten
SizeLeft == m_size - 1

Disconnect ==
    /\ pc = "scan" /\ Marked /\ CurrentFd # Listener
    /\ CurrentFd \in data \cup hungup
    /\ Dropped(CurrentFd, CurrentNode)
    /\ handled' = handled \cup {CurrentFd}
    /\ Count
    /\ EndTurn(StepBack, SizeLeft, sockets_to_handel - 1, revents \ {CurrentFd})
    /\ UNCHANGED <<m_active, pending, reported>>

(* Not ready - or freed storage that no longer reads as ready. *)
Skip ==
    /\ pc = "scan"
    /\ ~stale => ~Marked
    /\ EndTurn(index, m_size, sockets_to_handel, revents)
    /\ UNCHANGED <<conns, m_active, a, old, fp, kernel, round>>

(* What ends the process, or is not followed further: freed storage that   *)
(* reads as ready garbage; the uninitialized index of judoRead_; after a   *)
(* disconnect, the uninitialized buffer that is printed and deleted;       *)
(* SIGPIPE when judoAccept_ writes to a client that has left; a failed     *)
(* handshake that closes, from the deleted node, another descriptor than   *)
(* its own (JudoServer.cpp:191; modules JudoAccept and JudoLifecycle).     *)
Crash ==
    /\ pc = "scan"
    /\ ~stale => Marked
    /\ pc' = "dead"
    /\ UNCHANGED <<conns, m_active, loop, fp, kernel, round>>

Turn == Accept \/ Read \/ Disconnect \/ Skip \/ Crash

Server == Connect \/ Run \/ Return \/ Poll \/ Turn

Next == Peers \/ Server

Spec == Init /\ [][Next]_vars

(* The thread that is inside run keeps running: poll returns within a      *)
(* second and no call blocks for ever (sockets have a receive timeout).    *)
FairSpec == Spec /\ WF_vars(Return \/ Poll \/ Turn)
-----------------------------------------------------------------------------
(* Every variable stays in its type; in particular index, which is moved   *)
(* back by a disconnect, is not negative when a turn begins, and only what *)
(* was reported is served.                                                 *)
TypeOK ==
    /\ m_size \in Nat /\ m_cap \in Nat \ {0}
    /\ m_first_array \in [0 .. m_cap - 1 -> Fds \cup {Listener, NoValue}]
    /\ m_second_array \in [0 .. m_cap - 1 -> Nodes \cup {ListNode, NoValue}]
    /\ m_active \in BOOLEAN
    /\ pc \in {"setup", "poll", "scan", "dead"}
    /\ a \in 0 .. Limit + 1 /\ index \in Nat /\ sockets_to_handel \in Nat
    /\ revents \in SUBSET (Fds \cup {Listener})
    /\ stale => old[1] \in [DOMAIN old[1] -> Fds \cup {Listener, NoValue}]
    /\ fp \in [Nodes -> Fds \cup {NoFd}]
    /\ open \in SUBSET Fds /\ pending \in 0 .. Backlog
    /\ data \in SUBSET open /\ hungup \in SUBSET open
    /\ reported \in SUBSET (Fds \cup {Listener}) /\ handled \in SUBSET reported

(* Sockets, nodes and entries are the same set seen three ways, at every   *)
(* turn and whatever storage the loop looks at: every entry is an open     *)
(* descriptor beside the live node made for it, every open descriptor has  *)
(* one entry (else it is never polled again: a leak), and every allocated  *)
(* node is in the array (else nobody can delete it).  This is about the    *)
(* loop; what half-made connections lose, JudoLifecycle says.              *)
Accounted ==
    /\ \A i, j \in Entries : m_first_array[i] = m_first_array[j] => i = j
    /\ Polled \ {Listener} = open
    /\ \A i \in Entries :
        LET n == m_second_array[i]
        IN  IF m_first_array[i] = Listener THEN n = ListNode
            ELSE n \in Nodes /\ fp[n] = m_first_array[i]
    /\ \A n \in Nodes : fp[n] # NoFd => \E i \in Entries : m_second_array[i] = n

(* While the storage is the one the pointers were taken from, the entry    *)
(* whose turn it is exists, although entries come and go during the scan.  *)
IndexInside == pc = "scan" /\ ~stale => index < m_size

(* No call of the single thread waits for a peer that was not ready: what  *)
(* the scan finds marked is still readable, the backlog is not empty when  *)
(* accept is called, and nothing is served twice in a round.               *)
ServesReadyOnly ==
    pc = "scan" /\ Marked =>
        CurrentFd \in Readable \ handled

(* Swapping the last entry into a removed one never hides it from the      *)
(* scan, and the shortcuts that end the scan early skip nobody: when the   *)
(* loop polls again, every socket that poll had reported has been served - *)
(* unless the storage was replaced in this round.                          *)
NobodySkipped == pc = "poll" /\ ~stale => handled = reported

(* ssl_node of the entry is the one of its descriptor when judoRead_ gets  *)
(* both, also through pointers into freed storage, as long as nobody has   *)
(* written over that; storage that was reused has no turn but Skip and     *)
(* Crash here.                                                             *)
NodeMatches ==
    pc = "scan" /\ Marked /\ CurrentFd # Listener =>
        CurrentNode \in Nodes /\ fp[CurrentNode] = CurrentFd

(* A connection with something to read is served in the end, however many  *)
(* others are ready all the time, unless run returns, the process ends or  *)
(* the storage is replaced again and again.  What is skipped in a round    *)
(* that replaces it waits for the next one, and four connections are       *)
(* enough, with MIN_DDA_SIZE = 1, for rounds that grow and shrink in turn  *)
(* to skip the same one for ever.                                          *)
Running == pc \in {"poll", "scan"}
ReadableServed ==
    <>[]~stale =>
        \A fd \in Fds :
            (Running /\ fd \in data \cup hungup) ~> (fd \in handled \/ ~Running)

(* README.md:6: "multi-client server capability with only one thread".     *)
(* The loop that serves the clients works on their current array, however  *)
(* many there are.                                                         *)
PointersValid == pc = "scan" => ~stale
=============================================================================
