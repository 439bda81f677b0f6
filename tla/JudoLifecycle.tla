---------------------------- MODULE JudoLifecycle ----------------------------
(***************************************************************************)
(* One JudoServer from its constructor to the end of its destructor, and   *)
(* everything it allocates meanwhile: ssl_nodes, the SSL and SSL_CTX that  *)
(* hang on them, descriptors and entries of m_ssl_nodes (module            *)
(* DualDynamicArray).  Modules JudoRun and JudoAccept say when connections *)
(* come and go; here only who owns what is followed, on every path that    *)
(* succeeds, fails half-way or is repeated.                                *)
(*                                                                         *)
(* A new ssl_node is not initialized.  A pointer in it that nobody set is  *)
(* NULL or Stale: what a former node left there, say, which may be an      *)
(* object that was freed already.  Three failure paths close what the fp   *)
(* of a deleted node reads.  What comes after a Stale pointer was freed or *)
(* followed, or after the descriptor of another connection was closed, is  *)
(* not followed further (life = "undefined" or "corrupt").                 *)
(***************************************************************************)
EXTENDS Integers, FiniteSets

CONSTANTS
    Listener, ListNode, \* m_server_list_sock, m_server_list_sock_node
    Fds, Nodes,         \* descriptors, and cells of ssl_nodes, of connections
    Objects,            \* addresses an SSL_CTX, and the SSL made from it, can have
    NULL, Stale,        \* pointers that nobody set
    NoNode, NoFd,       \* no node under construction; no descriptor
    NoValue, MIN_DDA_SIZE

ASSUME LifecycleAssumption ==
    /\ Listener \notin Fds /\ NoFd \notin Fds \cup {Listener}
    /\ ListNode \notin Nodes /\ NoNode \notin Nodes \cup {ListNode}
    /\ NULL \notin Objects /\ Stale \notin Objects /\ NULL # Stale
    /\ NoValue \notin Fds \cup {Listener} /\ NoValue \notin Nodes \cup {ListNode}
    /\ MIN_DDA_SIZE \in Nat \ {0}

VARIABLES
    life,               \* "idle", "running", "destroying", "destroyed",
                        \* "undefined" (see above), "corrupt" (freed twice)
    unset,              \* history: a pointer that nobody set was freed
    ssl_enabled, required, m_active,    \* m_mode, m_active
    readable,           \* can the certificate files last configured be read?
    m_size, m_cap, m_first_array, m_second_array,   \* m_ssl_nodes
    new_node, fp,       \* judoAccept_, judoConnect_: the node, its descriptor
    i,                  \* ~JudoServer
    live,               \* allocated nodes
    secure,             \* those with a certificate bit in their mode
    ssl, ssl_ctx,       \* the pointers in each node
    SSLs, CTXs, open,   \* objects and descriptors that exist
    lost                \* history: what no pointer leads to any more

mode == <<ssl_enabled, required, m_active, readable>>
conns == <<m_size, m_cap, m_first_array, m_second_array>>
making == <<new_node, fp>>
nodes == <<live, secure, ssl, ssl_ctx, unset>>
objects == <<SSLs, CTXs>>
vars == <<life, mode, conns, making, i, nodes, objects, open, lost>>

m_ssl_nodes == INSTANCE DualDynamicArray
    WITH Keys <- Fds \cup {Listener}, Values <- Nodes \cup {ListNode}

Cells == Nodes \cup {ListNode}

(* judoMakeServerSock_: with an address there is an entry for the listener, *)
(* even if socket() has failed; without one there is none.                  *)
Init ==
    /\ life = "idle" /\ i = -1
    /\ ssl_enabled = FALSE /\ required = FALSE /\ m_active = FALSE /\ readable = TRUE
    /\ new_node = NoNode /\ fp = NoFd
    /\ live = {ListNode} /\ secure = {}
    /\ \E s, c \in {NULL, Stale} :
        /\ ssl = [n \in Cells |-> IF n = ListNode THEN s ELSE NULL]
        /\ ssl_ctx = [n \in Cells |-> IF n = ListNode THEN c ELSE NULL]
    /\ SSLs = {} /\ CTXs = {} /\ lost = {} /\ unset = FALSE
    /\ m_cap = MIN_DDA_SIZE
    /\ \/ /\ m_size = 0 /\ open = {}
          /\ m_first_array = m_ssl_nodes!Fresh(MIN_DDA_SIZE)
          /\ m_second_array = m_ssl_nodes!Fresh(MIN_DDA_SIZE)
       \/ /\ m_size = 1 /\ open \in {{}, {Listener}}
          /\ m_first_array = [m_ssl_nodes!Fresh(MIN_DDA_SIZE) EXCEPT ![0] = Listener]
          /\ m_second_array = [m_ssl_nodes!Fresh(MIN_DDA_SIZE) EXCEPT ![0] = ListNode]

Entries == 0 .. m_size - 1
Held == {m_second_array[k] : k \in Entries}

-----------------------------------------------------------------------------
(* judoFillGeneralSSLFields_: a new SSL_CTX, then, if the files can be     *)
(* read, a new SSL.  The pointers that were there are overwritten; what    *)
(* they led to is lost if a former fill had made it.                       *)
Overwritten(pointer, kind) ==
    IF pointer \in Objects THEN {<<kind, pointer>>} ELSE {}

Fill(n, o, good) ==
    /\ o \in Objects \ (CTXs \cup SSLs)
    /\ ssl_ctx' = [ssl_ctx EXCEPT ![n] = o]
    /\ CTXs' = CTXs \cup {o}
    /\ IF good THEN ssl' = [ssl EXCEPT ![n] = o] /\ SSLs' = SSLs \cup {o}
               ELSE UNCHANGED <<ssl, SSLs>>
    /\ lost' = lost \cup Overwritten(ssl_ctx[n], "ctx")
                    \cup (IF good THEN Overwritten(ssl[n], "ssl") ELSE {})
    /\ UNCHANGED unset

(* dstr_ssl_node, called in life stay: SSL_free and SSL_CTX_free of what   *)
(* the pointers say.  A Stale one may lead to an object that was freed.    *)
dstr_ssl_node(n, stay) ==
    /\ live' = live \ {n} /\ secure' = secure \ {n}
    /\ SSLs' = SSLs \ {ssl[n]} /\ CTXs' = CTXs \ {ssl_ctx[n]}
    /\ ssl' = [ssl EXCEPT ![n] = NULL] /\ ssl_ctx' = [ssl_ctx EXCEPT ![n] = NULL]
    /\ unset' = (unset \/ Stale \in {ssl[n], ssl_ctx[n]})
    /\ life' \in IF n \notin live \/ ssl[n] \notin SSLs \cup {NULL, Stale}
                     \/ ssl_ctx[n] \notin CTXs \cup {NULL, Stale} THEN {"corrupt"}
                 ELSE IF Stale \in {ssl[n], ssl_ctx[n]} THEN {"undefined", "corrupt"}
                 ELSE {stay}

-----------------------------------------------------------------------------
(* Configuration.  Files that cannot be read replace those that could, and *)
(* leave SSL_ENABLED as it was.  Nothing keeps another thread from calling *)
(* it while run is at work (JudoAccept takes the call apart).              *)
SetUpSSL ==
    /\ life \in {"idle", "running"}
    /\ \E o \in Objects, good \in BOOLEAN :
        /\ Fill(ListNode, o, good)
        /\ readable' = good
        /\ ssl_enabled' = (ssl_enabled \/ good)
    /\ UNCHANGED <<life, required, m_active, conns, making, i, live, secure, open>>

RequireCerts ==
    /\ life = "idle" /\ ssl_enabled /\ ~m_active
    /\ required' = TRUE
    /\ UNCHANGED <<life, ssl_enabled, m_active, readable, conns, making, i, nodes, objects, open, lost>>

-----------------------------------------------------------------------------
(* A connection is made in three steps: the node with its fields, the      *)
(* descriptor, and the entry or the failure.                               *)

(* new struct ssl_node, its pointers not set. *)
Allocated(n, s, c) ==
    /\ n \in Nodes \ live
    /\ live' = live \cup {n}
    /\ ssl' = [ssl EXCEPT ![n] = s] /\ ssl_ctx' = [ssl_ctx EXCEPT ![n] = c]
    /\ UNCHANGED unset

(* new struct ssl_node, filled with SSL fields. *)
AllocatedSSL(n, o) ==
    /\ n \in Nodes \ live
    /\ live' = live \cup {n}
    /\ Fill(n, o, TRUE)

(* Without SSL the fields stay as they are; with it they are filled, also  *)
(* if no certificates are required and the connection stays plain.  If the *)
(* files cannot be read the node is deleted, but not its SSL_CTX.          *)
AcceptBegin ==
    /\ life = "running" /\ new_node = NoNode /\ Listener \in open
    /\ IF ssl_enabled /\ ~readable
       THEN /\ \E o \in Objects \ (CTXs \cup SSLs) :
                CTXs' = CTXs \cup {o} /\ lost' = lost \cup {<<"ctx", o>>}
            /\ UNCHANGED <<making, nodes, SSLs>>
       ELSE \E n \in Nodes :
            /\ new_node' = n /\ fp' = NoFd
            /\ secure' = IF required THEN secure \cup {n} ELSE secure
            /\ IF ssl_enabled THEN \E o \in Objects : AllocatedSSL(n, o)
               ELSE /\ \E s, c \in {NULL, Stale} : Allocated(n, s, c)
                    /\ UNCHANGED <<objects, lost>>
    /\ UNCHANGED <<life, mode, conns, i, open>>

(* judoFillClientSSLFields_ when the files cannot be read: it hands the ssl *)
(* pointer to the library before it looks whether it was set.  The process  *)
(* ends, or the node is lost with its SSL_CTX.                              *)
FillClientFails(n) ==
    \E o \in Objects \ (CTXs \cup SSLs), s \in {NULL, Stale} :
        /\ n \notin live /\ live' = live \cup {n}
        /\ ssl' = [ssl EXCEPT ![n] = s] /\ ssl_ctx' = [ssl_ctx EXCEPT ![n] = o]
        /\ CTXs' = CTXs \cup {o}
        /\ lost' = lost \cup {<<"node", n>>}
        /\ life' = "undefined" \/ (s = Stale /\ life' = life)
        /\ UNCHANGED <<SSLs, secure, unset, new_node>>

(* judoConnect_ before its socket, plain or with certificates. *)
ConnectBegin ==
    /\ life = "idle" /\ new_node = NoNode
    /\ \E n \in Nodes :
        \/ /\ \E s, c \in {NULL, Stale} : Allocated(n, s, c)
           /\ new_node' = n
           /\ UNCHANGED <<life, secure, objects, lost>>
        \/ /\ \E o \in Objects : AllocatedSSL(n, o)
           /\ new_node' = n
           /\ secure' = secure \cup {n}
           /\ UNCHANGED life
        \/ FillClientFails(n)
    /\ fp' = NoFd
    /\ UNCHANGED <<mode, conns, i, open>>

(* accept, or socket and connect. *)
Open ==
    /\ life \in {"idle", "running"} /\ new_node # NoNode /\ fp = NoFd
    /\ \E fd \in Fds \ open : fp' = fd /\ open' = open \cup {fd}
    /\ UNCHANGED <<life, mode, conns, new_node, i, nodes, objects, lost>>

Enter ==
    /\ life \in {"idle", "running"} /\ fp # NoFd
    /\ m_ssl_nodes!add(fp, new_node)
    /\ new_node' = NoNode /\ fp' = NoFd
    /\ UNCHANGED <<life, mode, i, nodes, objects, open, lost>>

(* No descriptor, no connection, no agreement: what is open is closed and  *)
(* then the node deleted (178, 196, 225 and 248, 263, 276).                *)
FailForgetful ==                        \* mutant: return without dstr_ssl_node
    /\ life \in {"idle", "running"} /\ new_node # NoNode
    /\ open' = open \ {fp}
    /\ new_node' = NoNode /\ fp' = NoFd
    /\ UNCHANGED <<life, nodes, objects, mode, conns, i, lost>>
Fail ==
    /\ life \in {"idle", "running"} /\ new_node # NoNode
    /\ dstr_ssl_node(new_node, life)
    /\ open' = open \ {fp}
    /\ new_node' = NoNode /\ fp' = NoFd
    /\ UNCHANGED <<mode, conns, i, lost>>

(* No greeting (288), or no handshake (190, 301): the node is deleted and  *)
(* what its fp then reads is closed: its own descriptor, or none that is   *)
(* open, or the descriptor of something else.                              *)
FailDeleted ==
    /\ life \in {"idle", "running"} /\ fp # NoFd
    /\ life = "running" => new_node \in secure
    /\ \/ dstr_ssl_node(new_node, life) /\ open' = open \ {fp} /\ UNCHANGED lost
       \/ /\ dstr_ssl_node(new_node, life) /\ UNCHANGED open
          /\ lost' = lost \cup {<<"fd", fp>>}
       \/ /\ dstr_ssl_node(new_node, "undefined")
          /\ \E fd \in open \ {fp} : open' = open \ {fd}
          /\ lost' = lost \cup {<<"fd", fp>>}
    /\ new_node' = NoNode /\ fp' = NoFd
    /\ UNCHANGED <<mode, conns, i>>

-----------------------------------------------------------------------------
Run ==
    /\ life = "idle" /\ new_node = NoNode
    /\ life' = "running" /\ m_active' = TRUE
    /\ UNCHANGED <<ssl_enabled, required, readable, conns, making, i, nodes, objects, open, lost>>

Return ==
    /\ life = "running" /\ new_node = NoNode
    /\ life' = "idle"
    /\ UNCHANGED <<mode, conns, making, i, nodes, objects, open, lost>>

(* judoDisconnect_, called by judoRead_ for the entry at k. *)
DisconnectAtKept(k) ==                  \* mutant: m_ssl_nodes->remove forgotten
    /\ open' = open \ {m_first_array[k]}
    /\ dstr_ssl_node(m_second_array[k], "running")
    /\ UNCHANGED conns
DisconnectAt(k) ==
    /\ open' = open \ {m_first_array[k]}
    /\ dstr_ssl_node(m_second_array[k], "running")
    /\ m_ssl_nodes!remove(m_first_array[k])

Disconnect ==
    /\ life = "running" /\ new_node = NoNode
    /\ \E k \in Entries :
        /\ m_first_array[k] \in Fds
        /\ DisconnectAt(k)
    /\ UNCHANGED <<mode, making, i, lost>>

-----------------------------------------------------------------------------
(* ~JudoServer: from the last entry to the first, node and entry; then the *)
(* queue, the array and the listener.  Sockets of connections stay open.   *)
DestroyBegin ==
    /\ life = "idle" /\ new_node = NoNode
    /\ life' = "destroying" /\ i' = m_size - 1
    /\ UNCHANGED <<mode, conns, making, nodes, objects, open, lost>>

DestroyEntryKept ==                     \* mutant: the entry is not removed
    /\ dstr_ssl_node(m_second_array[i], "destroying")
    /\ UNCHANGED conns
DestroyEntry ==
    /\ dstr_ssl_node(m_ssl_nodes!getFromSecondByIndex(i), "destroying")
    /\ m_ssl_nodes!remove(m_ssl_nodes!getFromFirstByIndex(i))

DestroyTurn ==
    /\ life = "destroying" /\ i >= 0
    /\ DestroyEntry
    /\ i' = i - 1
    /\ UNCHANGED <<mode, making, open, lost>>

DestroyEnd ==
    /\ life = "destroying" /\ i < 0
    /\ life' = "destroyed" /\ open' = open \ {Listener}
    /\ m_ssl_nodes!delete
    /\ UNCHANGED <<mode, making, i, nodes, objects, lost>>

-----------------------------------------------------------------------------
(* What a program like main asks for, in any order. *)
Program == SetUpSSL \/ RequireCerts \/ ConnectBegin \/ Run \/ DestroyBegin

Next ==
    \/ Program
    \/ AcceptBegin \/ Open \/ Enter \/ Fail \/ FailDeleted \/ Disconnect \/ Return
    \/ DestroyTurn \/ DestroyEnd

Spec == Init /\ [][Next]_vars

-----------------------------------------------------------------------------
(* Every variable stays in its type; the destructor never leaves the array *)
(* with its index, although remove shrinks it under the loop.              *)
TypeOK ==
    /\ life \in {"idle", "running", "destroying", "destroyed", "undefined", "corrupt"}
    /\ \A b \in {ssl_enabled, required, m_active, readable, unset} : b \in BOOLEAN
    /\ m_size \in Nat /\ m_cap \in Nat \ {0} /\ m_size <= m_cap
    /\ LET storage == IF life = "destroyed" THEN {} ELSE 0 .. m_cap - 1
       IN  /\ m_first_array \in [storage -> Fds \cup {Listener, NoValue}]
           /\ m_second_array \in [storage -> Cells \cup {NoValue}]
    /\ new_node \in Nodes \cup {NoNode} /\ fp \in Fds \cup {NoFd}
    /\ i = -1 \/ (life \in {"destroying", "undefined", "corrupt"} /\ i = m_size - 1)
    /\ live \in SUBSET Cells /\ secure \in SUBSET live
    /\ ssl \in [Cells -> Objects \cup {NULL, Stale}]
    /\ ssl_ctx \in [Cells -> Objects \cup {NULL, Stale}]
    /\ SSLs \in SUBSET Objects /\ CTXs \in SUBSET Objects
    /\ open \in SUBSET (Fds \cup {Listener})
    /\ lost \in SUBSET ({"node"} \X Nodes \cup {"ssl", "ctx"} \X Objects \cup {"fd"} \X Fds)

LostOf(kind) == {l[2] : l \in {x \in lost : x[1] = kind}}
Pointed(pointer) == {pointer[n] : n \in live} \cap Objects

(* No node and no SSL object is freed twice or through two nodes, however  *)
(* connections fail, end, or are still there at the end, and whatever is   *)
(* configured meanwhile - as long as every pointer freed has been set.     *)
(* The source does not see to that: dstr_ssl_node (ssl_node.cpp:9-10) also *)
(* frees the pointers of a plain connection, which nobody set.  And a      *)
(* connection with certificates has SSL objects of its own.                *)
FreedOnce ==
    /\ life = "corrupt" => unset
    /\ \A n \in live : \A k \in live \ {n} :
        /\ ssl[n] \in Objects => ssl[n] # ssl[k]
        /\ ssl_ctx[n] \in Objects => ssl_ctx[n] # ssl_ctx[k]
    /\ \A n \in secure : ssl[n] \in SSLs /\ ssl_ctx[n] \in CTXs

(* While the server is used, every node is in the array once, under        *)
(* construction, or the listener's, and every descriptor belongs to one.   *)
(* The destructor, whose loop and remove both move the end of the array,   *)
(* passes every entry: afterwards no node is left but the listener's of a  *)
(* server without listener, and no descriptor but those of connections.    *)
(* At all times every SSL object hangs on a node.  Excepted is only what   *)
(* judoConnect_ (241), the failed fill of judoAccept_ (158), a repeated    *)
(* judoSetUpServerSockSSL and the closes after a deletion (191, 289, 302)  *)
(* lose for good; such a close that hits another descriptor ends the used  *)
(* life of the model.                                                      *)
NothingLost ==
    /\ SSLs = Pointed(ssl) \cup LostOf("ssl")
    /\ CTXs = Pointed(ssl_ctx) \cup LostOf("ctx")
    /\ life \in {"idle", "running"} =>
        /\ live = Held \cup {ListNode} \cup ({new_node} \ {NoNode}) \cup LostOf("node")
        /\ Cardinality(Held) = m_size
        /\ (Held \cup {new_node}) \cap LostOf("node") = {} /\ new_node \notin Held
        /\ open \ {Listener} = ({m_first_array[k] : k \in Entries} \ {Listener})
                               \cup ({fp} \ {NoFd}) \cup LostOf("fd")
    /\ life = "destroyed" =>
        /\ m_size = 0 /\ Listener \notin open
        /\ live \ {ListNode} = LostOf("node")
=============================================================================
