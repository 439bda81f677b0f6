----------------------------- MODULE JudoRunProofs -----------------------------
(***************************************************************************)
(* Theorems about JudoServer::run, for any number of descriptors, nodes    *)
(* and connections: descriptors, nodes and entries stay accounted for, the *)
(* scan stays inside the array, serves only who is ready, pairs every      *)
(* descriptor with its node and skips nobody while its pointers are good.  *)
(*                                                                         *)
(* None of these is inductive.  The inductive invariant adds what the loop *)
(* relies on without saying so: the listener is always the first entry;    *)
(* the marks are exactly what was reported and is not served yet, and as   *)
(* many as sockets_to_handel says; everybody before index is served; and   *)
(* what a replaced array shows of a marked entry is still true.            *)
(***************************************************************************)
EXTENDS JudoRun, FiniteSetTheorems, TLAPS

(* The lemmas about add and remove, for the array of sockets. *)
D == INSTANCE DualDynamicArrayProofs
    WITH Keys <- Fds \cup {Listener}, Values <- Nodes \cup {ListNode}

Fits == m_size <= m_cap

(* Nothing is ever put before the listener, and it is never removed. *)
ListenerFirst ==
    \A i \in 0 .. m_cap - 1 : m_first_array[i] = Listener => i = 0

(* What the locals of the scan say of the round and of the kernel. *)
Scanning ==
    pc = "scan" =>
        /\ index < m_size
        /\ revents = reported \ (handled \ {Listener})
        /\ sockets_to_handel = Cardinality(revents)
        /\ revents \ {Listener} \subseteq data \cup hungup
        /\ Listener \in revents \ handled => pending > 0 /\ Listener \in Polled
        /\ Listener \in handled => index > 0

(* Whoever was reported and is not served yet has the scan before him. *)
NobodyBehind ==
    pc = "scan" /\ ~stale =>
        \A i \in Entries : i < index => m_first_array[i] \notin reported \ handled

(* What the freed storage still shows. *)
OldShows ==
    pc = "scan" /\ stale =>
        /\ DOMAIN old[1] \subseteq Nat
        /\ \A i \in DOMAIN old[1] : old[1][i] = Listener => i = 0 /\ index > 0
        /\ \A i \in DOMAIN old[1] :
            i < m_size /\ old[1][i] \in revents \ {Listener} =>
                old[2][i] \in Nodes /\ fp[old[2][i]] = old[1][i]

(* Between two scans. *)
AllServed == pc \in {"poll", "setup"} /\ ~stale => handled = reported

IInv ==
    /\ TypeOK /\ Fits /\ Accounted /\ ListenerFirst
    /\ Scanning /\ NobodyBehind /\ OldShows /\ AllServed

-----------------------------------------------------------------------------
(* The array of sockets.                                                   *)

LEMMA SameArray ==
    ASSUME NEW k, NEW v
    PROVE  /\ m_ssl_nodes!add(k, v) <=> D!add(k, v)
           /\ m_ssl_nodes!remove(k) <=> D!remove(k)
           /\ m_ssl_nodes!Swapped(m_first_array, k) = D!Swapped(m_first_array, k)
           /\ m_ssl_nodes!Swapped(m_second_array, k) = D!Swapped(m_second_array, k)
BY DEF m_ssl_nodes!add, D!add, m_ssl_nodes!GrownCap, D!GrownCap,
       m_ssl_nodes!Resized, D!Resized, m_ssl_nodes!Slots, D!Slots,
       m_ssl_nodes!remove, D!remove, m_ssl_nodes!Matches, D!Matches,
       m_ssl_nodes!find, D!find, m_ssl_nodes!Swapped, D!Swapped,
       m_ssl_nodes!ShrunkCap, D!ShrunkCap, m_ssl_nodes!vars, D!vars,
       m_ssl_nodes!arrays, D!arrays

LEMMA ArrayAssumed == D!ArrayAssumption
BY RunAssumption DEF D!ArrayAssumption

(* The entries are what DualDynamicArray's lemmas ask for.                 *)
LEMMA ArrayFacts ==
    ASSUME IInv
    PROVE  /\ D!TypeOK /\ D!InBounds /\ D!KeysDistinct
           /\ m_size \in Nat /\ m_cap \in Nat \ {0} /\ m_size <= m_cap
           /\ \A i \in Entries :
                /\ i \in 0 .. m_cap - 1
                /\ m_first_array[i] \in Fds \cup {Listener}
                /\ m_first_array[i] # Listener =>
                     /\ m_first_array[i] \in open
                     /\ m_second_array[i] \in Nodes
                     /\ fp[m_second_array[i]] = m_first_array[i]
<1>1. /\ m_size \in Nat /\ m_cap \in Nat \ {0} /\ m_size <= m_cap
      /\ m_first_array \in [0 .. m_cap - 1 -> Fds \cup {Listener, NoValue}]
      /\ m_second_array \in [0 .. m_cap - 1 -> Nodes \cup {ListNode, NoValue}]
      /\ open \in SUBSET Fds
  BY DEF IInv, TypeOK, Fits
<1>2. \A i \in Entries : i \in 0 .. m_cap - 1
  BY <1>1 DEF Entries
<1>3. \A i \in Entries :
        /\ m_first_array[i] \in open \cup {Listener}
        /\ m_first_array[i] = Listener => m_second_array[i] = ListNode
        /\ m_first_array[i] # Listener =>
             m_second_array[i] \in Nodes /\ fp[m_second_array[i]] = m_first_array[i]
  BY DEF IInv, Accounted, Polled
<1>4. D!TypeOK
  <2>1. Fds \cup {Listener, NoValue} = Fds \cup {Listener} \cup {NoValue}
        /\ Nodes \cup {ListNode, NoValue} = Nodes \cup {ListNode} \cup {NoValue}
    OBVIOUS
  <2> QED
    BY <1>1, <2>1 DEF D!TypeOK, D!Slots
<1>5. D!InBounds
  <2>1. \A i \in Entries : m_first_array[i] # NoValue /\ m_second_array[i] # NoValue
    BY <1>1, <1>3, RunAssumption
  <2> QED
    BY <1>1, <2>1 DEF D!InBounds, Entries
<1>6. D!KeysDistinct
  BY DEF IInv, Accounted, D!KeysDistinct, Entries
<1> QED
  BY <1>1, <1>2, <1>3, <1>4, <1>5, <1>6

(* A new connection: one entry more, at the end, with a descriptor that    *)
(* nobody has and a node that nobody has; the storage is replaced only     *)
(* when every slot of it was in use.                                       *)
LEMMA AddConnectionEffect ==
    ASSUME IInv, NEW n \in Nodes, AddConnection(n)
    PROVE  /\ FreeFd \in Fds \ open /\ open' = open \cup {FreeFd} /\ fp[n] = NoFd
           /\ fp' = [fp EXCEPT ![n] = FreeFd]
           /\ m_size' = m_size + 1 /\ m_cap' \in Nat \ {0} /\ m_size' <= m_cap'
           /\ m_first_array' \in [0 .. m_cap' - 1 -> Fds \cup {Listener, NoValue}]
           /\ m_second_array' \in [0 .. m_cap' - 1 -> Nodes \cup {ListNode, NoValue}]
           /\ m_first_array'[m_size] = FreeFd /\ m_second_array'[m_size] = n
           /\ \A i \in Entries : /\ m_first_array'[i] = m_first_array[i]
                                 /\ m_second_array'[i] = m_second_array[i]
           /\ m_cap' # m_cap => m_size = m_cap
           /\ m_cap' = m_cap =>
                \A i \in 0 .. m_cap - 1 : i # m_size => m_first_array'[i] = m_first_array[i]
           /\ m_cap' # m_cap =>
                \A i \in 0 .. m_cap' - 1 : i > m_size => m_first_array'[i] = NoValue
<1> DEFINE fd == FreeFd
<1>1. fd \in Fds \ open
  BY DEF AddConnection, FreeFd
<1>2. D!add(fd, n) /\ open' = open \cup {fd} /\ fp' = [fp EXCEPT ![n] = fd] /\ fp[n] = NoFd
  BY SameArray DEF AddConnection
<1> HIDE DEF fd
<1>3. /\ D!TypeOK /\ D!InBounds
      /\ m_size \in Nat /\ m_cap \in Nat \ {0} /\ m_size <= m_cap
  BY ArrayFacts
<1>4. fd \in Fds \cup {Listener} /\ n \in Nodes \cup {ListNode}
  BY <1>1
<1>5. /\ m_size' = m_size + 1 /\ m_cap' = D!GrownCap
      /\ m_first_array' \in [D!Slots(m_cap') -> Fds \cup {Listener} \cup {NoValue}]
      /\ m_second_array' \in [D!Slots(m_cap') -> Nodes \cup {ListNode} \cup {NoValue}]
      /\ m_first_array'[m_size] = fd /\ m_second_array'[m_size] = n
      /\ \A i \in 0 .. m_size - 1 :
            /\ m_first_array'[i] = m_first_array[i]
            /\ m_second_array'[i] = m_second_array[i]
  BY <1>2, <1>3, <1>4, ArrayAssumed, D!AddEffect
<1>6. /\ D!GrownCap \in Nat \ {0} /\ m_size + 1 <= D!GrownCap
      /\ D!GrownCap # m_cap => D!GrownCap = 2 * m_cap /\ m_size = m_cap
  BY <1>3, ArrayAssumed, D!GrownRoom
<1>7. /\ m_first_array' \in [0 .. m_cap' - 1 -> Fds \cup {Listener, NoValue}]
      /\ m_second_array' \in [0 .. m_cap' - 1 -> Nodes \cup {ListNode, NoValue}]
  <2>1. Fds \cup {Listener, NoValue} = Fds \cup {Listener} \cup {NoValue}
        /\ Nodes \cup {ListNode, NoValue} = Nodes \cup {ListNode} \cup {NoValue}
    OBVIOUS
  <2> QED
    BY <1>5, <2>1 DEF D!Slots
<1>8. m_cap' = m_cap =>
        \A i \in 0 .. m_cap - 1 : i # m_size => m_first_array'[i] = m_first_array[i]
  <2>1. SUFFICES ASSUME m_cap' = m_cap
                 PROVE  m_first_array' = [m_first_array EXCEPT ![m_size] = fd]
    <3>1. m_first_array \in [0 .. m_cap - 1 -> Fds \cup {Listener, NoValue}]
      BY DEF IInv, TypeOK
    <3> QED
      BY <3>1
  <2> QED
    BY <1>2, <2>1 DEF D!add, D!Resized
<1>9. m_cap' # m_cap =>
        \A i \in 0 .. m_cap' - 1 : i > m_size => m_first_array'[i] = NoValue
  <2>1. SUFFICES ASSUME m_cap' # m_cap, NEW i \in 0 .. m_cap' - 1, i > m_size
                 PROVE  m_first_array'[i] = NoValue
    OBVIOUS
  <2>2. m_first_array' =
          [[j \in 0 .. m_cap' - 1 |-> IF j < m_size THEN m_first_array[j] ELSE NoValue]
             EXCEPT ![m_size] = fd]
    BY <1>2, <2>1 DEF D!add, D!Resized, D!Slots
  <2>3. i # m_size /\ ~ (i < m_size)
    BY <1>3, <1>5, <1>6, <2>1
  <2> QED
    BY <2>2, <2>3
<1> QED
  BY <1>1, <1>2, <1>5, <1>6, <1>7, <1>8, <1>9 DEF fd, Entries

(* It leaves descriptors, nodes and entries accounted for.                 *)
LEMMA AddConnectionKeeps ==
    ASSUME IInv, NEW n \in Nodes, AddConnection(n)
    PROVE  Accounted' /\ ListenerFirst' /\ Fits' /\ Polled' = Polled \cup {FreeFd}
<1> DEFINE fd == FreeFd
<1>1. /\ fd \in Fds \ open /\ open' = open \cup {fd} /\ fp[n] = NoFd
      /\ fp' = [fp EXCEPT ![n] = fd]
      /\ m_size' = m_size + 1 /\ m_cap' \in Nat \ {0} /\ m_size' <= m_cap'
      /\ m_first_array'[m_size] = fd /\ m_second_array'[m_size] = n
      /\ \A i \in Entries : /\ m_first_array'[i] = m_first_array[i]
                            /\ m_second_array'[i] = m_second_array[i]
      /\ m_cap' # m_cap => m_size = m_cap
      /\ m_cap' = m_cap =>
           \A i \in 0 .. m_cap - 1 : i # m_size => m_first_array'[i] = m_first_array[i]
      /\ m_cap' # m_cap =>
           \A i \in 0 .. m_cap' - 1 : i > m_size => m_first_array'[i] = NoValue
  BY AddConnectionEffect
<1> HIDE DEF fd
<1>2. /\ m_size \in Nat /\ m_cap \in Nat \ {0} /\ m_size <= m_cap
      /\ \A i \in Entries :
            /\ i \in 0 .. m_cap - 1
            /\ m_first_array[i] \in Fds \cup {Listener}
            /\ m_first_array[i] # Listener =>
                 /\ m_first_array[i] \in open
                 /\ m_second_array[i] \in Nodes
                 /\ fp[m_second_array[i]] = m_first_array[i]
  BY ArrayFacts
<1>3. fp \in [Nodes -> Fds \cup {NoFd}] /\ Accounted /\ ListenerFirst
  BY DEF IInv, TypeOK
<1>4. /\ fd # Listener /\ fd # NoFd /\ fd \notin open /\ NoFd \notin open
      /\ NoValue # Listener /\ ListNode \notin Nodes
  BY <1>1, RunAssumption DEF IInv, TypeOK
<1>5. Entries' = Entries \cup {m_size} /\ m_size \notin Entries
  BY <1>1, <1>2 DEF Entries
<1>6. Polled' = Polled \cup {fd}
  BY <1>1, <1>5 DEF Polled
<1>7. ListenerFirst'
  <2>1. SUFFICES ASSUME NEW i \in 0 .. m_cap' - 1, m_first_array'[i] = Listener
                 PROVE  i = 0
    BY DEF ListenerFirst
  <2>2. i # m_size
    BY <1>1, <1>4, <2>1
  <2>3. i < m_size \/ i > m_size
    BY <1>2, <2>1, <2>2, <1>1
  <2>4. CASE i < m_size
    <3>1. i \in Entries /\ i \in 0 .. m_cap - 1
      BY <1>1, <1>2, <2>1, <2>4 DEF Entries
    <3> QED
      BY <1>1, <1>3, <2>1, <3>1 DEF ListenerFirst
  <2>5. CASE i > m_size
    <3>1. m_cap' = m_cap
      BY <1>1, <1>4, <2>1, <2>5
    <3> QED
      BY <1>1, <1>3, <2>1, <2>2, <3>1 DEF ListenerFirst
  <2> QED
    BY <2>3, <2>4, <2>5
<1>8. \A i, j \in Entries' : m_first_array'[i] = m_first_array'[j] => i = j
  <2>1. \A i \in Entries : m_first_array'[i] # fd
    BY <1>1, <1>2, <1>4
  <2>2. \A i, j \in Entries : m_first_array'[i] = m_first_array'[j] => i = j
    BY <1>1, <1>3 DEF Accounted
  <2> QED
    BY <1>1, <1>5, <2>1, <2>2
<1>9. (Polled \ {Listener})' = open'
  BY <1>1, <1>3, <1>4, <1>6 DEF Accounted
<1>10. ASSUME NEW i \in Entries'
       PROVE  IF m_first_array'[i] = Listener THEN m_second_array'[i] = ListNode
              ELSE m_second_array'[i] \in Nodes /\ fp'[m_second_array'[i]] = m_first_array'[i]
  <2>1. CASE i = m_size
    BY <1>1, <1>3, <1>4, <2>1
  <2>2. CASE i \in Entries
    <3>1. m_first_array'[i] = m_first_array[i] /\ m_second_array'[i] = m_second_array[i]
      BY <1>1, <2>2
    <3>2. m_first_array[i] = Listener => m_second_array[i] = ListNode
      BY <1>3, <2>2 DEF Accounted
    <3>3. m_first_array[i] # Listener => m_second_array[i] # n /\ fp'[m_second_array[i]] = fp[m_second_array[i]]
      BY <1>1, <1>2, <1>3, <1>4, <2>2
    <3> QED
      BY <1>2, <2>2, <3>1, <3>2, <3>3
  <2> QED
    BY <1>5, <2>1, <2>2
<1>11. ASSUME NEW m \in Nodes, fp'[m] # NoFd
       PROVE  \E i \in Entries' : m_second_array'[i] = m
  <2>1. CASE m = n
    BY <1>1, <1>5, <2>1
  <2>2. CASE m # n
    <3>1. fp[m] # NoFd
      BY <1>1, <1>3, <1>11, <2>2
    <3>2. PICK i \in Entries : m_second_array[i] = m
      BY <1>3, <3>1 DEF Accounted
    <3> QED
      BY <1>1, <1>5, <3>2
  <2> QED
    BY <2>1, <2>2
<1>12. Accounted'
  BY <1>8, <1>9, <1>10, <1>11 DEF Accounted
<1>13. Fits'
  BY <1>1 DEF Fits
<1> QED
  BY <1>6, <1>7, <1>12, <1>13 DEF fd

(* A descriptor and its node go: the last entry takes the place of theirs. *)
(* Moved tells where an entry of the array after it was before.            *)
Moved(fd, i) == IF i = D!find(fd) THEN m_size - 1 ELSE i

LEMMA DroppedEffect ==
    ASSUME IInv, NEW fd \in open, NEW n, Dropped(fd, n)
    PROVE  /\ D!find(fd) \in Entries /\ m_first_array[D!find(fd)] = fd
           /\ m_size - 1 \in Nat /\ m_size' = m_size - 1
           /\ m_cap' \in Nat \ {0} /\ m_size' <= m_cap' /\ m_cap' <= m_cap
           /\ m_first_array' \in [0 .. m_cap' - 1 -> Fds \cup {Listener, NoValue}]
           /\ m_second_array' \in [0 .. m_cap' - 1 -> Nodes \cup {ListNode, NoValue}]
           /\ Entries' = 0 .. m_size - 2
           /\ \A i \in Entries' :
                /\ Moved(fd, i) \in Entries
                /\ m_first_array'[i] = m_first_array[Moved(fd, i)]
                /\ m_second_array'[i] = m_second_array[Moved(fd, i)]
           /\ ListenerFirst' /\ Fits'
<1> DEFINE f == D!find(fd)
<1>1. D!remove(fd) /\ fd \in Fds
  BY SameArray DEF Dropped, IInv, TypeOK
<1>2. /\ D!TypeOK /\ D!InBounds /\ D!KeysDistinct
      /\ m_size \in Nat /\ m_cap \in Nat \ {0} /\ m_size <= m_cap
  BY ArrayFacts
<1>3. D!Matches(fd) # {}
  <2>1. fd \in Polled
    BY DEF IInv, Accounted
  <2> QED
    BY <2>1 DEF Polled, Entries, D!Matches
<1>4. f \in 0 .. m_size - 1 /\ m_first_array[f] = fd
  BY <1>2, <1>3, ArrayAssumed, D!FindIndex
<1>5. /\ m_size - 1 \in Nat /\ m_size' = m_size - 1 /\ m_cap' = D!ShrunkCap(m_size - 1)
      /\ m_first_array' \in [D!Slots(m_cap') -> Fds \cup {Listener} \cup {NoValue}]
      /\ m_second_array' \in [D!Slots(m_cap') -> Nodes \cup {ListNode} \cup {NoValue}]
      /\ \A i \in 0 .. m_size' - 1 :
            LET j == IF i = f THEN m_size - 1 ELSE i
            IN  /\ m_first_array'[i] = m_first_array[j]
                /\ m_second_array'[i] = m_second_array[j]
  <2>1. fd \in Fds \cup {Listener}
    BY <1>1
  <2> QED
    BY <1>1, <1>2, <1>3, <2>1, ArrayAssumed, D!RemoveEffect
<1> HIDE DEF f
<1>6. /\ m_cap' \in Nat \ {0} /\ m_size' <= m_cap' /\ m_cap' <= m_cap
  <2>1. m_size - 1 <= m_cap
    BY <1>2
  <2>2. /\ D!ShrunkCap(m_size - 1) \in Nat \ {0}
        /\ m_size - 1 <= D!ShrunkCap(m_size - 1)
        /\ D!ShrunkCap(m_size - 1) # m_cap => D!ShrunkCap(m_size - 1) = m_size - 1
    BY <1>2, <1>5, <2>1, ArrayAssumed, D!ShrunkRoom
  <2> QED
    BY <1>2, <1>5, <2>1, <2>2
<1>7. /\ m_first_array' \in [0 .. m_cap' - 1 -> Fds \cup {Listener, NoValue}]
      /\ m_second_array' \in [0 .. m_cap' - 1 -> Nodes \cup {ListNode, NoValue}]
  <2>1. Fds \cup {Listener, NoValue} = Fds \cup {Listener} \cup {NoValue}
        /\ Nodes \cup {ListNode, NoValue} = Nodes \cup {ListNode} \cup {NoValue}
    OBVIOUS
  <2> QED
    BY <1>5, <2>1 DEF D!Slots
<1>8. Entries' = 0 .. m_size - 2
  BY <1>2, <1>5 DEF Entries
<1>9. ASSUME NEW i \in Entries'
      PROVE  /\ Moved(fd, i) \in Entries
             /\ m_first_array'[i] = m_first_array[Moved(fd, i)]
             /\ m_second_array'[i] = m_second_array[Moved(fd, i)]
  <2>1. i \in 0 .. m_size' - 1 /\ i \in 0 .. m_size - 1 /\ m_size - 1 \in 0 .. m_size - 1
    BY <1>2, <1>5, <1>8
  <2> QED
    BY <1>5, <2>1 DEF Moved, Entries, f
<1>10. ListenerFirst'
  <2>1. SUFFICES ASSUME NEW i \in 0 .. m_cap' - 1, m_first_array'[i] = Listener
                 PROVE  i = 0
    BY DEF ListenerFirst
  <2>2. \A j \in 0 .. m_cap - 1 : m_first_array[j] = Listener => j = 0
    BY DEF IInv, ListenerFirst
  <2>3. CASE i < m_size'
    <3>1. i \in Entries'
      BY <1>5, <1>6, <2>1, <2>3 DEF Entries
    <3>2. Moved(fd, i) \in 0 .. m_cap - 1 /\ m_first_array[Moved(fd, i)] = Listener
      BY <1>2, <1>9, <2>1, <3>1 DEF Entries
    <3>3. Moved(fd, i) = 0
      BY <2>2, <3>2
    <3> QED
      BY <1>5, <1>2, <2>3, <2>1, <1>6, <3>3 DEF Moved
  <2>4. CASE ~ (i < m_size')
    <3>1. m_cap' = m_cap
      <4>1. m_cap' # m_cap => m_cap' = m_size'
        BY <1>2, <1>5, ArrayAssumed, D!ShrunkRoom
      <4> QED
        BY <1>5, <1>6, <2>1, <2>4, <4>1
    <3>2. m_first_array' = [m_first_array EXCEPT ![f] = m_first_array[m_size - 1]]
      BY <1>1, <1>3, <1>5, <3>1 DEF D!remove, D!Resized, D!Swapped, f
    <3>3. m_first_array \in [0 .. m_cap - 1 -> Fds \cup {Listener, NoValue}]
      BY DEF IInv, TypeOK
    <3>4. f \in 0 .. m_cap - 1 /\ m_size - 1 \in 0 .. m_cap - 1 /\ i \in 0 .. m_cap - 1
      BY <1>2, <1>4, <1>5, <2>1, <3>1
    <3>5. CASE i = f
      <4>1. m_first_array[m_size - 1] = Listener
        BY <2>1, <3>2, <3>3, <3>4, <3>5
      <4>2. m_size - 1 = 0
        BY <2>2, <3>4, <4>1
      <4> QED
        BY <1>4, <1>2, <3>5, <4>2
    <3>6. CASE i # f
      <4>1. m_first_array[i] = Listener
        BY <2>1, <3>2, <3>3, <3>4, <3>6
      <4> QED
        BY <2>2, <3>4, <4>1
    <3> QED
      BY <3>5, <3>6
  <2> QED
    BY <2>3, <2>4
<1>11. Fits'
  BY <1>6 DEF Fits
<1> QED
  BY <1>4, <1>5, <1>6, <1>7, <1>8, <1>9, <1>10, <1>11 DEF f, Entries

(* It takes the descriptor away everywhere, and nothing else.              *)
LEMMA DroppedKeeps ==
    ASSUME IInv, NEW fd \in open, NEW n \in Nodes, fp[n] = fd, Dropped(fd, n)
    PROVE  Accounted' /\ Polled' = Polled \ {fd}
<1> DEFINE f == D!find(fd)
           From(i) == Moved(fd, i)
<1>1. /\ f \in Entries /\ m_first_array[f] = fd
      /\ m_size - 1 \in Nat /\ m_size' = m_size - 1
      /\ Entries' = 0 .. m_size - 2
      /\ \A i \in Entries' : /\ From(i) \in Entries
                             /\ m_first_array'[i] = m_first_array[From(i)]
                             /\ m_second_array'[i] = m_second_array[From(i)]
  BY DroppedEffect
<1>2. open' = open \ {fd} /\ fp' = [fp EXCEPT ![n] = NoFd]
  BY DEF Dropped
<1>3. /\ m_size \in Nat
      /\ \A i \in Entries :
            /\ m_first_array[i] \in Fds \cup {Listener}
            /\ m_first_array[i] # Listener =>
                 /\ m_first_array[i] \in open
                 /\ m_second_array[i] \in Nodes
                 /\ fp[m_second_array[i]] = m_first_array[i]
  BY ArrayFacts
<1>4. fp \in [Nodes -> Fds \cup {NoFd}] /\ open \in SUBSET Fds /\ Accounted
  BY DEF IInv, TypeOK
<1>5. fd # Listener /\ fd # NoFd /\ NoFd \notin open
  BY <1>4, RunAssumption
<1>6. \A i, j \in Entries : m_first_array[i] = m_first_array[j] => i = j
  BY <1>4 DEF Accounted
<1>7. /\ \A i \in Entries' : From(i) # f
      /\ \A i, j \in Entries' : From(i) = From(j) => i = j
      /\ \A j \in Entries : j # f => \E i \in Entries' : From(i) = j
  <2>1. /\ \A i \in Entries' : i \in Nat /\ i < m_size - 1
        /\ f \in Nat /\ f < m_size
    BY <1>1, <1>3 DEF Entries
  <2>2. \A i \in Entries' : From(i) = IF i = f THEN m_size - 1 ELSE i
    BY DEF Moved
  <2> HIDE DEF f, From
  <2>3. ASSUME NEW j \in Entries, j # f PROVE \E i \in Entries' : From(i) = j
    <3>1. CASE j = m_size - 1
      <4>1. f \in Entries'
        BY <1>1, <1>3, <2>1, <2>3, <3>1
      <4> QED
        BY <2>2, <3>1, <4>1
    <3>2. CASE j # m_size - 1
      <4>1. j \in Entries'
        BY <1>1, <1>3, <2>3, <3>2 DEF Entries
      <4> QED
        BY <2>2, <2>3, <4>1
    <3> QED
      BY <3>1, <3>2
  <2>4. \A i \in Entries' : From(i) # f
    BY <1>3, <2>1, <2>2
  <2>5. \A i, j \in Entries' : From(i) = From(j) => i = j
    BY <1>3, <2>1, <2>2
  <2> QED
    BY <2>3, <2>4, <2>5
<1> HIDE DEF f, From
<1>8. Polled' = Polled \ {fd}
  <2>1. \A i \in Entries' : m_first_array'[i] \in Polled /\ m_first_array'[i] # fd
    BY <1>1, <1>6, <1>7 DEF Polled
  <2>2. ASSUME NEW k \in Polled \ {fd} PROVE \E i \in Entries' : m_first_array'[i] = k
    <3>1. PICK j \in Entries : m_first_array[j] = k
      BY DEF Polled
    <3>2. PICK i \in Entries' : From(i) = j
      BY <1>1, <1>7, <2>2, <3>1
    <3> QED
      BY <1>1, <3>1, <3>2
  <2> QED
    BY <2>1, <2>2 DEF Polled
<1>9. \A i, j \in Entries' : m_first_array'[i] = m_first_array'[j] => i = j
  BY <1>1, <1>6, <1>7
<1>10. (Polled \ {Listener})' = open'
  BY <1>2, <1>4, <1>5, <1>8 DEF Accounted
<1>11. \A j \in Entries : j # f => m_second_array[j] # n \/ m_first_array[j] = Listener
  BY <1>1, <1>3, <1>6
<1>12. ASSUME NEW i \in Entries'
       PROVE  IF m_first_array'[i] = Listener THEN m_second_array'[i] = ListNode
              ELSE m_second_array'[i] \in Nodes /\ fp'[m_second_array'[i]] = m_first_array'[i]
  <2>1. From(i) \in Entries /\ From(i) # f
    BY <1>1, <1>7
  <2>2. m_first_array[From(i)] = Listener => m_second_array[From(i)] = ListNode
    BY <1>4, <2>1 DEF Accounted
  <2>3. m_first_array[From(i)] # Listener =>
           /\ m_second_array[From(i)] \in Nodes
           /\ fp'[m_second_array[From(i)]] = m_first_array[From(i)]
    BY <1>2, <1>3, <1>4, <1>11, <2>1
  <2> QED
    BY <1>1, <2>2, <2>3
<1>13. ASSUME NEW m \in Nodes, fp'[m] # NoFd
       PROVE  \E i \in Entries' : m_second_array'[i] = m
  <2>1. m # n /\ fp[m] # NoFd
    BY <1>2, <1>4, <1>13
  <2>2. PICK j \in Entries : m_second_array[j] = m
    BY <1>4, <2>1 DEF Accounted
  <2>3. j # f
    <3>1. PICK l \in Entries : m_second_array[l] = n
      BY <1>4, <1>5 DEF Accounted
    <3>2. m_first_array[l] # Listener
      BY <3>1, <1>4, RunAssumption DEF Accounted
    <3>3. l = f
      BY <1>1, <1>3, <1>6, <3>1, <3>2
    <3> QED
      BY <2>1, <2>2, <3>1, <3>3
  <2>4. PICK i \in Entries' : From(i) = j
    BY <1>7, <2>2, <2>3
  <2> QED
    BY <1>1, <2>2, <2>4
<1>14. Accounted'
  BY <1>9, <1>10, <1>12, <1>13 DEF Accounted
<1> QED
  BY <1>8, <1>14

-----------------------------------------------------------------------------
(* What the invariant says of one turn.                                    *)

LEMMA TableKept ==
    ASSUME IInv, UNCHANGED <<conns, fp, open>>
    PROVE  /\ Fits' /\ Accounted' /\ ListenerFirst'
           /\ Polled' = Polled /\ Entries' = Entries
           /\ m_size' = m_size /\ m_cap' = m_cap
           /\ m_first_array' = m_first_array /\ m_second_array' = m_second_array
<1>1. /\ m_size' = m_size /\ m_cap' = m_cap
      /\ m_first_array' = m_first_array /\ m_second_array' = m_second_array
      /\ fp' = fp /\ open' = open
  BY DEF conns
<1>2. Entries' = Entries /\ Polled' = Polled
  BY <1>1 DEF Entries, Polled
<1> QED
  BY <1>1, <1>2 DEF IInv, Fits, Accounted, ListenerFirst

LEMMA Counting ==
    ASSUME NEW s \in SUBSET (Fds \cup {Listener})
    PROVE  /\ IsFiniteSet(s) /\ Cardinality(s) \in Nat
           /\ (Cardinality(s) = 0) <=> (s = {})
           /\ \A x \in s : Cardinality(s \ {x}) = Cardinality(s) - 1
<1>1. IsFiniteSet(Fds \cup {Listener})
  BY RunAssumption, FS_AddElement
<1>2. IsFiniteSet(s)
  BY <1>1, FS_Subset
<1> QED
  BY <1>2, FS_CardinalityType, FS_EmptySet, FS_RemoveElement

(* Whoever is marked when its turn comes is ready, has not been served in  *)
(* this round and stands beside its own node - also when the pointers lead *)
(* to freed storage, where the listener's turn has always passed.          *)
LEMMA CurrentFacts ==
    ASSUME IInv, pc = "scan", Marked
    PROVE  /\ CurrentFd \in revents /\ CurrentFd \in reported \ handled
           /\ CurrentFd = Listener =>
                /\ ~stale /\ index = 0 /\ pending > 0 /\ Listener \in Polled
           /\ CurrentFd # Listener =>
                /\ CurrentFd \in open /\ CurrentFd \in Fds
                /\ CurrentFd \in data \cup hungup
                /\ CurrentNode \in Nodes /\ fp[CurrentNode] = CurrentFd
           /\ ~stale => index \in Entries /\ CurrentFd = m_first_array[index]
<1>1. CurrentFd \in revents /\ (stale => index \in DOMAIN old[1])
  BY DEF Marked
<1>2. /\ index < m_size /\ index \in Nat /\ m_size \in Nat
      /\ revents = reported \ (handled \ {Listener})
      /\ revents \ {Listener} \subseteq data \cup hungup
      /\ Listener \in revents \ handled => pending > 0 /\ Listener \in Polled
      /\ Listener \in handled => index > 0
      /\ data \cup hungup \subseteq open /\ open \subseteq Fds
  BY DEF IInv, Scanning, TypeOK
<1>3. index \in Entries
  BY <1>2 DEF Entries
<1>4. ~stale => CurrentFd = m_first_array[index] /\ CurrentNode = m_second_array[index]
  BY DEF CurrentFd, CurrentNode
<1>5. stale => CurrentFd = old[1][index] /\ CurrentNode = old[2][index]
  BY DEF CurrentFd, CurrentNode
<1>6. CASE CurrentFd = Listener
  <2>1. ~stale
    <3>1. stale => index = 0 /\ index > 0
      BY <1>1, <1>5, <1>6 DEF IInv, OldShows
    <3> QED
      BY <3>1
  <2>2. index = 0
    <3>1. index \in 0 .. m_cap - 1
      BY <1>3, ArrayFacts
    <3> QED
      BY <1>4, <1>6, <2>1, <3>1 DEF IInv, ListenerFirst
  <2> QED
    BY <1>1, <1>2, <1>3, <1>4, <1>6, <2>1, <2>2
<1>7. CASE CurrentFd # Listener
  <2>1. CurrentFd \in reported \ handled /\ CurrentFd \in data \cup hungup
    BY <1>1, <1>2, <1>7
  <2>2. CurrentNode \in Nodes /\ fp[CurrentNode] = CurrentFd
    <3>1. CASE stale
      BY <1>1, <1>2, <1>5, <1>7, <3>1 DEF IInv, OldShows
    <3>2. CASE ~stale
      BY <1>3, <1>4, <1>7, <3>2, ArrayFacts
    <3> QED
      BY <3>1, <3>2
  <2> QED
    BY <1>1, <1>2, <1>3, <1>4, <1>7, <2>1, <2>2
<1> QED
  BY <1>6, <1>7

-----------------------------------------------------------------------------
(* The steps outside the scan and of the peers.                            *)

LEMMA InitInv == Init => IInv
<1> SUFFICES ASSUME Init PROVE IInv
  OBVIOUS
<1> DEFINE fresh == m_ssl_nodes!Fresh(MIN_DDA_SIZE)
<1>1. MIN_DDA_SIZE \in Nat \ {0} /\ Limit \in Nat \ {0} /\ Backlog \in Nat
      /\ NoValue # Listener
  BY RunAssumption
<1>2. /\ fresh \in [0 .. m_cap - 1 -> {NoValue}] /\ m_cap = MIN_DDA_SIZE
      /\ \A i \in 0 .. m_cap - 1 : fresh[i] = NoValue
  BY DEF Init, m_ssl_nodes!Fresh, m_ssl_nodes!Slots
<1>3. \/ /\ m_size = 0 /\ m_first_array = fresh /\ m_second_array = fresh
      \/ /\ m_size = 1
         /\ m_first_array = [fresh EXCEPT ![0] = Listener]
         /\ m_second_array = [fresh EXCEPT ![0] = ListNode]
  BY DEF Init
<1> HIDE DEF fresh
<1>4. /\ m_size \in {0, 1} /\ 0 \in 0 .. m_cap - 1
      /\ m_first_array \in [0 .. m_cap - 1 -> Fds \cup {Listener, NoValue}]
      /\ m_second_array \in [0 .. m_cap - 1 -> Nodes \cup {ListNode, NoValue}]
      /\ m_size = 1 => m_first_array[0] = Listener /\ m_second_array[0] = ListNode
      /\ \A i \in 0 .. m_cap - 1 : m_first_array[i] = Listener => i = 0
  BY <1>1, <1>2, <1>3
<1>5. Entries = (IF m_size = 1 THEN {0} ELSE {})
  <2>1. 0 .. 0 - 1 = {} /\ 0 .. 1 - 1 = {0}
    OBVIOUS
  <2> QED
    BY <1>4, <2>1 DEF Entries
<1>6. TypeOK
  <2>1. m_size \in Nat /\ m_cap \in Nat \ {0} /\ a \in 0 .. Limit + 1 /\ pending \in 0 .. Backlog
        /\ index \in Nat /\ sockets_to_handel \in Nat
    BY <1>1, <1>2, <1>4 DEF Init
  <2>2. fp \in [Nodes -> Fds \cup {NoFd}] /\ ~stale
    BY DEF Init, stale
  <2>3. m_active \in BOOLEAN /\ pc \in {"setup", "poll", "scan", "dead"}
    BY DEF Init
  <2>4. /\ open \in SUBSET Fds /\ data \in SUBSET open /\ hungup \in SUBSET open
        /\ reported \in SUBSET (Fds \cup {Listener}) /\ handled \in SUBSET reported
        /\ revents \in SUBSET (Fds \cup {Listener})
    BY DEF Init
  <2> QED
    BY <1>4, <2>1, <2>2, <2>3, <2>4 DEF TypeOK
<1>7. Fits /\ ListenerFirst
  BY <1>1, <1>2, <1>4 DEF Fits, ListenerFirst
<1>8. Accounted
  <2>1. Polled \subseteq {Listener} /\ open = {} /\ \A n \in Nodes : fp[n] = NoFd
    BY <1>4, <1>5 DEF Init, Polled
  <2>2. \A i \in Entries : i = 0 /\ m_first_array[i] = Listener /\ m_second_array[i] = ListNode
    BY <1>4, <1>5
  <2> QED
    BY <2>1, <2>2 DEF Accounted
<1>9. Scanning /\ NobodyBehind /\ OldShows /\ AllServed
  BY DEF Init, Scanning, NobodyBehind, OldShows, AllServed
<1> QED
  BY <1>6, <1>7, <1>8, <1>9 DEF IInv

(* Peers only make more sockets ready.                                     *)
LEMMA PeersInv ==
    ASSUME IInv, Peers
    PROVE  IInv'
<1>1. /\ UNCHANGED <<conns, m_active, pc, a, index, sockets_to_handel, revents, old, fp, open,
                    reported, handled>>
      /\ data \subseteq data' /\ hungup \subseteq hungup' /\ pending' >= pending
      /\ data' \subseteq open /\ hungup' \subseteq open /\ pending' \in 0 .. Backlog
  <2>1. data \subseteq open /\ hungup \subseteq open /\ pending \in 0 .. Backlog /\ Backlog \in Nat
    BY RunAssumption DEF IInv, TypeOK
  <2>2. CASE Arrive
    BY <2>1, <2>2 DEF Arrive, loop, round
  <2>3. ASSUME NEW fd \in Fds, Send(fd) \/ HangUp(fd)
        PROVE  <1>1!:
    BY <2>1, <2>3 DEF Send, HangUp, loop, round
  <2> QED
    BY <2>2, <2>3 DEF Peers
<1>2. /\ Fits' /\ Accounted' /\ ListenerFirst'
      /\ Polled' = Polled /\ Entries' = Entries
      /\ m_size' = m_size /\ m_cap' = m_cap
      /\ m_first_array' = m_first_array /\ m_second_array' = m_second_array
  BY <1>1, TableKept
<1>3. TypeOK'
  BY <1>1, <1>2 DEF IInv, TypeOK, stale
<1>4. Scanning'
  <2>1. pending \in Nat /\ pending' \in Nat
    BY <1>1, RunAssumption DEF IInv, TypeOK
  <2> QED
    BY <1>1, <1>2, <2>1 DEF IInv, Scanning
<1>5. NobodyBehind' /\ OldShows' /\ AllServed'
  BY <1>1, <1>2 DEF IInv, NobodyBehind, OldShows, AllServed, stale
<1> QED
  BY <1>2, <1>3, <1>4, <1>5 DEF IInv

LEMMA ConnectInv ==
    ASSUME IInv, Connect
    PROVE  IInv'
<1>1. PICK n \in Nodes : AddConnection(n)
  BY DEF Connect
<1>2. /\ pc = "setup" /\ UNCHANGED <<m_active, pc, a, index, sockets_to_handel, revents, old,
                    pending, data, hungup, reported, handled>>
  BY DEF Connect, loop, round
<1>3. /\ FreeFd \in Fds /\ open' = open \cup {FreeFd} /\ fp' = [fp EXCEPT ![n] = FreeFd]
      /\ m_size' = m_size + 1 /\ m_cap' \in Nat \ {0}
      /\ m_first_array' \in [0 .. m_cap' - 1 -> Fds \cup {Listener, NoValue}]
      /\ m_second_array' \in [0 .. m_cap' - 1 -> Nodes \cup {ListNode, NoValue}]
  BY <1>1, AddConnectionEffect
<1>4. Accounted' /\ ListenerFirst' /\ Fits'
  BY <1>1, AddConnectionKeeps
<1>5. TypeOK'
  <2>1. m_size' \in Nat
    BY <1>3 DEF IInv, TypeOK
  <2>2. open' \in SUBSET Fds /\ data' \in SUBSET open' /\ hungup' \in SUBSET open'
    BY <1>2, <1>3 DEF IInv, TypeOK
  <2>3. fp' \in [Nodes -> Fds \cup {NoFd}]
    BY <1>3 DEF IInv, TypeOK
  <2> QED
    BY <1>2, <1>3, <2>1, <2>2, <2>3 DEF IInv, TypeOK, stale
<1>6. Scanning' /\ NobodyBehind' /\ OldShows'
  BY <1>2 DEF Scanning, NobodyBehind, OldShows
<1>7. AllServed'
  BY <1>2 DEF IInv, AllServed, stale
<1> QED
  BY <1>4, <1>5, <1>6, <1>7 DEF IInv

LEMMA RunReturnInv ==
    ASSUME IInv, Run \/ Return
    PROVE  IInv'
<1>1. /\ pc \in {"setup", "poll"} /\ pc' \in {"setup", "poll"}
      /\ UNCHANGED <<conns, index, sockets_to_handel, revents, old, fp,
                     open, pending, data, hungup, reported, handled>>
      /\ m_active' \in {TRUE, m_active} /\ a' \in {0, a}
  BY DEF Run, Return, kernel, round, loop
<1>2. /\ Fits' /\ Accounted' /\ ListenerFirst'
      /\ m_size' = m_size /\ m_cap' = m_cap
      /\ m_first_array' = m_first_array /\ m_second_array' = m_second_array
  BY <1>1, TableKept
<1>3. TypeOK'
  <2>1. m_active' \in BOOLEAN
    BY <1>1 DEF IInv, TypeOK
  <2>2. a' \in 0 .. Limit + 1
    BY <1>1, RunAssumption DEF IInv, TypeOK
  <2>3. pc' \in {"setup", "poll", "scan", "dead"}
    BY <1>1
  <2> QED
    BY <1>1, <1>2, <2>1, <2>2, <2>3 DEF IInv, TypeOK, stale
<1>4. Scanning' /\ NobodyBehind' /\ OldShows'
  BY <1>1 DEF Scanning, NobodyBehind, OldShows
<1>5. AllServed'
  BY <1>1 DEF IInv, AllServed, stale
<1> QED
  BY <1>2, <1>3, <1>4, <1>5 DEF IInv

LEMMA PollInv ==
    ASSUME IInv, Poll
    PROVE  IInv'
<1>1. /\ revents' = Readable /\ sockets_to_handel' = Cardinality(Readable)
      /\ index' = 0 /\ old' = <<>> /\ reported' = Readable /\ handled' = {}
      /\ pc' = IF Readable = {} THEN "poll" ELSE "scan"
      /\ UNCHANGED <<conns, m_active, a, fp, open, pending, data, hungup>>
  BY DEF Poll, kernel
<1>2. /\ Fits' /\ Accounted' /\ ListenerFirst'
      /\ Polled' = Polled /\ Entries' = Entries
      /\ m_size' = m_size /\ m_cap' = m_cap
      /\ m_first_array' = m_first_array /\ m_second_array' = m_second_array
  BY <1>1, TableKept
<1>3. Readable \subseteq Polled /\ Polled \subseteq Fds \cup {Listener}
  BY DEF Readable, IInv, Accounted, TypeOK
<1>4. Cardinality(Readable) \in Nat
  BY <1>3, Counting
<1>5. TypeOK'
  <2>1. revents' \in SUBSET (Fds \cup {Listener}) /\ reported' \in SUBSET (Fds \cup {Listener})
        /\ handled' \in SUBSET reported'
    BY <1>1, <1>3
  <2>2. index' \in Nat /\ sockets_to_handel' \in Nat /\ ~stale'
    BY <1>1, <1>4 DEF stale
  <2>3. pc' \in {"setup", "poll", "scan", "dead"}
    BY <1>1
  <2> QED
    BY <1>1, <1>2, <2>1, <2>2, <2>3 DEF IInv, TypeOK
<1>6. Scanning'
  <2>1. Readable \ {Listener} \subseteq data \cup hungup
    BY DEF Readable
  <2>2. Listener \in Readable => pending > 0 /\ Listener \in Polled
    <3>1. Listener \notin data \cup hungup
      BY RunAssumption DEF IInv, TypeOK
    <3> QED
      BY <3>1 DEF Readable
  <2>3. Readable # {} => 0 < m_size
    <3>1. Polled # {} => Entries # {}
      BY DEF Polled
    <3>2. Entries # {} => 0 < m_size
      BY DEF Entries, IInv, TypeOK
    <3> QED
      BY <3>1, <3>2, <1>3
  <2> QED
    BY <1>1, <1>2, <2>1, <2>2, <2>3 DEF Scanning
<1>7. NobodyBehind'
  <2>1. \A i \in Entries : ~ (i < 0)
    BY DEF Entries, IInv, TypeOK
  <2> QED
    BY <1>1, <1>2, <2>1 DEF NobodyBehind
<1>8. OldShows' /\ AllServed'
  BY <1>1 DEF OldShows, AllServed, stale
<1> QED
  BY <1>2, <1>5, <1>6, <1>7, <1>8 DEF IInv

-----------------------------------------------------------------------------
(* The turns of the scan.                                                  *)

LEMMA EndTurnCases ==
    ASSUME NEW i, NEW array_size, NEW todo, NEW bits, EndTurn(i, array_size, todo, bits)
    PROVE  \/ /\ pc' = "poll" /\ (i = array_size - 1 \/ todo = 0)
              /\ index' = 0 /\ sockets_to_handel' = 0 /\ revents' = {}
           \/ /\ pc' = "scan" /\ i # array_size - 1 /\ todo # 0
              /\ index' = i + 1 /\ sockets_to_handel' = todo /\ revents' = bits
BY DEF EndTurn

LEMMA CountType ==
    ASSUME IInv, Count
    PROVE  a' \in 0 .. Limit + 1
BY RunAssumption DEF IInv, TypeOK, Count

(* Whoever is reported and not served is still marked and polled; when the *)
(* scan has come to the last entry, only that one can be left.             *)
LEMMA Unserved ==
    ASSUME IInv, pc = "scan"
    PROVE  /\ reported \ handled \subseteq revents /\ reported \ handled \subseteq Polled
           /\ revents \in SUBSET (Fds \cup {Listener})
           /\ sockets_to_handel = Cardinality(revents)
           /\ index \in Nat /\ m_size \in Nat /\ index < m_size
           /\ ~stale /\ index = m_size - 1 => reported \ handled \subseteq {m_first_array[index]}
<1>1. /\ revents = reported \ (handled \ {Listener})
      /\ sockets_to_handel = Cardinality(revents)
      /\ revents \ {Listener} \subseteq data \cup hungup
      /\ Listener \in revents \ handled => Listener \in Polled
      /\ index < m_size
  BY DEF IInv, Scanning
<1>2. /\ revents \in SUBSET (Fds \cup {Listener}) /\ data \cup hungup \subseteq open
      /\ index \in Nat /\ m_size \in Nat
  BY DEF IInv, TypeOK
<1>3. open \subseteq Polled
  BY DEF IInv, Accounted
<1>4. reported \ handled \subseteq revents /\ reported \ handled \subseteq Polled
  BY <1>1, <1>2, <1>3
<1>5. ASSUME ~stale, index = m_size - 1, NEW r \in reported \ handled
      PROVE  r = m_first_array[index]
  <2>1. PICK j \in Entries : m_first_array[j] = r
    BY <1>4, <1>5 DEF Polled
  <2>2. ~ (j < index)
    BY <1>5, <2>1 DEF IInv, NobodyBehind
  <2>3. j = index
    BY <1>2, <1>5, <2>1, <2>2 DEF Entries
  <2> QED
    BY <2>1, <2>3
<1> QED
  BY <1>1, <1>2, <1>4, <1>5

LEMMA SkipInv ==
    ASSUME IInv, Skip
    PROVE  IInv'
<1>1. /\ pc = "scan" /\ (~stale => ~Marked)
      /\ EndTurn(index, m_size, sockets_to_handel, revents)
      /\ UNCHANGED <<conns, m_active, a, old, fp, open, pending, data, hungup, reported, handled>>
  BY DEF Skip, kernel, round
<1>2. /\ Fits' /\ Accounted' /\ ListenerFirst'
      /\ Polled' = Polled /\ Entries' = Entries
      /\ m_size' = m_size /\ m_cap' = m_cap
      /\ m_first_array' = m_first_array /\ m_second_array' = m_second_array
  BY <1>1, TableKept
<1>3. /\ reported \ handled \subseteq revents
      /\ revents \in SUBSET (Fds \cup {Listener})
      /\ sockets_to_handel = Cardinality(revents)
      /\ index \in Nat /\ m_size \in Nat /\ index < m_size
      /\ ~stale /\ index = m_size - 1 => reported \ handled \subseteq {m_first_array[index]}
  BY <1>1, Unserved
<1>4. \/ /\ pc' = "poll" /\ (index = m_size - 1 \/ sockets_to_handel = 0)
         /\ index' = 0 /\ sockets_to_handel' = 0 /\ revents' = {}
      \/ /\ pc' = "scan" /\ index # m_size - 1 /\ sockets_to_handel # 0
         /\ index' = index + 1 /\ sockets_to_handel' = sockets_to_handel /\ revents' = revents
  BY <1>1, EndTurnCases
<1>5. ~stale => m_first_array[index] \notin revents
  BY <1>1 DEF Marked, CurrentFd
<1>6. TypeOK'
  <2>1. index' \in Nat /\ sockets_to_handel' \in Nat /\ revents' \in SUBSET (Fds \cup {Listener})
        /\ pc' \in {"setup", "poll", "scan", "dead"}
    BY <1>3, <1>4, Counting
  <2> QED
    BY <1>1, <1>2, <2>1 DEF IInv, TypeOK, stale
<1>7. CASE pc' = "poll"
  <2>1. ~stale => handled = reported
    <3>1. sockets_to_handel = 0 => revents = {}
      BY <1>3, Counting
    <3>2. ~stale => reported \ handled = {}
      BY <1>3, <1>4, <1>5, <1>7, <3>1
    <3>3. handled \subseteq reported
      BY DEF IInv, TypeOK
    <3> QED
      BY <3>2, <3>3
  <2> QED
    BY <1>1, <1>2, <1>6, <1>7, <2>1
       DEF IInv, Scanning, NobodyBehind, OldShows, AllServed, stale
<1>8. CASE pc' = "scan"
  <2>1. index' = index + 1 /\ index' < m_size /\ index' > 0
        /\ sockets_to_handel' = sockets_to_handel /\ revents' = revents
    BY <1>3, <1>4, <1>8
  <2>2. Scanning'
    BY <1>1, <1>2, <2>1 DEF IInv, Scanning
  <2>3. NobodyBehind'
    <3>1. ASSUME ~stale, NEW i \in Entries, i < index'
          PROVE  m_first_array[i] \notin reported \ handled
      <4>1. i < index \/ i = index
        BY <1>3, <2>1, <3>1 DEF Entries
      <4> QED
        BY <1>1, <1>3, <1>5, <3>1, <4>1 DEF IInv, NobodyBehind
    <3> QED
      BY <1>1, <1>2, <3>1 DEF NobodyBehind, stale
  <2>4. OldShows'
    BY <1>1, <1>2, <2>1 DEF IInv, OldShows, stale
  <2>5. AllServed'
    BY <1>8 DEF AllServed
  <2> QED
    BY <1>2, <1>6, <2>2, <2>3, <2>4, <2>5 DEF IInv
<1> QED
  BY <1>4, <1>7, <1>8

LEMMA ReadInv ==
    ASSUME IInv, Read
    PROVE  IInv'
<1> DEFINE fd == CurrentFd
<1>1. /\ pc = "scan" /\ Marked /\ fd # Listener /\ fd \in data
      /\ data' \in {data, data \ {fd}} /\ handled' = handled \cup {fd} /\ Count
      /\ EndTurn(index, m_size, sockets_to_handel - 1, revents \ {fd})
      /\ UNCHANGED <<conns, m_active, old, fp, open, pending, hungup, reported>>
  BY DEF Read
<1>2. /\ Fits' /\ Accounted' /\ ListenerFirst'
      /\ Polled' = Polled /\ Entries' = Entries
      /\ m_size' = m_size /\ m_cap' = m_cap
      /\ m_first_array' = m_first_array /\ m_second_array' = m_second_array
  BY <1>1, TableKept
<1>3. /\ reported \ handled \subseteq revents
      /\ revents \in SUBSET (Fds \cup {Listener})
      /\ sockets_to_handel = Cardinality(revents)
      /\ index \in Nat /\ m_size \in Nat /\ index < m_size
      /\ ~stale /\ index = m_size - 1 => reported \ handled \subseteq {m_first_array[index]}
  BY <1>1, Unserved
<1>4. /\ fd \in revents /\ fd \in reported
      /\ ~stale => index \in Entries /\ fd = m_first_array[index]
  BY <1>1, CurrentFacts
<1> HIDE DEF fd
<1>5. \/ /\ pc' = "poll" /\ (index = m_size - 1 \/ sockets_to_handel - 1 = 0)
         /\ index' = 0 /\ sockets_to_handel' = 0 /\ revents' = {}
      \/ /\ pc' = "scan" /\ index # m_size - 1 /\ sockets_to_handel - 1 # 0
         /\ index' = index + 1 /\ sockets_to_handel' = sockets_to_handel - 1
         /\ revents' = revents \ {fd}
  BY <1>1, EndTurnCases
<1>6. /\ Cardinality(revents \ {fd}) = sockets_to_handel - 1
      /\ Cardinality(revents \ {fd}) \in Nat
      /\ (Cardinality(revents \ {fd}) = 0) <=> (revents \ {fd} = {})
  <2>1. Cardinality(revents \ {fd}) = sockets_to_handel - 1
    BY <1>3, <1>4, Counting
  <2>2. revents \ {fd} \in SUBSET (Fds \cup {Listener})
    BY <1>3
  <2> QED
    BY <2>1, <2>2, Counting
<1>7. TypeOK'
  <2>1. index' \in Nat /\ sockets_to_handel' \in Nat /\ revents' \in SUBSET (Fds \cup {Listener})
        /\ pc' \in {"setup", "poll", "scan", "dead"}
    BY <1>3, <1>5, <1>6
  <2>2. a' \in 0 .. Limit + 1
    BY <1>1, CountType
  <2>3. handled' \in SUBSET reported' /\ data' \in SUBSET open'
    BY <1>1, <1>4 DEF IInv, TypeOK
  <2> QED
    BY <1>1, <1>2, <2>1, <2>2, <2>3 DEF IInv, TypeOK, stale
<1>8. CASE pc' = "poll"
  <2>1. ~stale => handled' = reported
    <3>1. sockets_to_handel - 1 = 0 => revents \ {fd} = {}
      BY <1>6
    <3>2. ~stale => reported \ handled \subseteq {fd}
      BY <1>3, <1>4, <1>5, <1>8, <3>1
    <3>3. handled \subseteq reported
      BY DEF IInv, TypeOK
    <3> QED
      BY <1>1, <1>4, <3>2, <3>3
  <2> QED
    BY <1>1, <1>2, <1>7, <1>8, <2>1
       DEF IInv, Scanning, NobodyBehind, OldShows, AllServed, stale
<1>9. CASE pc' = "scan"
  <2>1. /\ index' = index + 1 /\ index' < m_size /\ index' > 0
        /\ sockets_to_handel' = sockets_to_handel - 1 /\ revents' = revents \ {fd}
    BY <1>3, <1>5, <1>9
  <2>2. Scanning'
    <3>1. /\ revents = reported \ (handled \ {Listener})
          /\ revents \ {Listener} \subseteq data \cup hungup
          /\ Listener \in revents \ handled => pending > 0 /\ Listener \in Polled
      BY <1>1 DEF IInv, Scanning
    <3>2. revents' = reported' \ (handled' \ {Listener})
      BY <1>1, <2>1, <3>1
    <3>3. revents' \ {Listener} \subseteq data' \cup hungup'
      BY <1>1, <2>1, <3>1
    <3>4. Listener \in revents' \ handled' => pending' > 0 /\ Listener \in Polled'
      BY <1>1, <1>2, <2>1, <3>1
    <3> QED
      BY <1>2, <1>6, <2>1, <3>2, <3>3, <3>4 DEF Scanning
  <2>3. NobodyBehind'
    <3>1. ASSUME ~stale, NEW i \in Entries, i < index'
          PROVE  m_first_array[i] \notin reported \ handled'
      <4>1. i < index \/ i = index
        BY <1>3, <2>1, <3>1 DEF Entries
      <4>2. i < index => m_first_array[i] \notin reported \ handled
        BY <1>1, <3>1 DEF IInv, NobodyBehind
      <4> QED
        BY <1>1, <1>4, <3>1, <4>1, <4>2
    <3> QED
      BY <1>1, <1>2, <3>1 DEF NobodyBehind, stale
  <2>4. OldShows'
    BY <1>1, <1>2, <2>1 DEF IInv, OldShows, stale
  <2>5. AllServed'
    BY <1>9 DEF AllServed
  <2> QED
    BY <1>2, <1>7, <2>2, <2>3, <2>4, <2>5 DEF IInv
<1> QED
  BY <1>5, <1>8, <1>9

(* The listener's turn.  If the new entry does not fit, the pointers keep  *)
(* leading to the full old storage.                                        *)
LEMMA AcceptInv ==
    ASSUME IInv, Accept
    PROVE  IInv'
<1>1. /\ pc = "scan" /\ Marked /\ CurrentFd = Listener
      /\ \/ pending' = pending - 1 /\ \E n \in Nodes : AddConnection(n)
         \/ pending' = pending - 1 /\ UNCHANGED <<open, fp, conns>>
         \/ UNCHANGED <<pending, open, fp, conns>>
      /\ KeepStorage(m_first_array, m_second_array)
      /\ handled' = handled \cup {Listener} /\ Count
      /\ EndTurn(index, m_size, sockets_to_handel, revents)
      /\ UNCHANGED <<m_active, data, hungup, reported>>
  BY DEF Accept
<1>2. /\ ~stale /\ index = 0 /\ pending > 0 /\ Listener \in revents /\ Listener \in reported
      /\ m_first_array[index] = Listener
  BY <1>1, CurrentFacts
<1>3. /\ reported \ handled \subseteq revents
      /\ revents \in SUBSET (Fds \cup {Listener})
      /\ sockets_to_handel = Cardinality(revents)
      /\ index \in Nat /\ m_size \in Nat /\ index < m_size
      /\ index = m_size - 1 => reported \ handled \subseteq {m_first_array[index]}
  BY <1>1, <1>2, Unserved
<1>4. /\ Fits' /\ Accounted' /\ ListenerFirst' /\ Polled \subseteq Polled'
      /\ m_size' \in Nat /\ m_size' >= m_size /\ m_cap' \in Nat \ {0}
      /\ m_first_array' \in [0 .. m_cap' - 1 -> Fds \cup {Listener, NoValue}]
      /\ m_second_array' \in [0 .. m_cap' - 1 -> Nodes \cup {ListNode, NoValue}]
      /\ \A i \in Entries : m_first_array'[i] = m_first_array[i]
      /\ m_cap' # m_cap => m_size = m_cap
      /\ open \subseteq open' /\ open' \subseteq Fds
      /\ fp' \in [Nodes -> Fds \cup {NoFd}]
      /\ \A m \in Nodes : fp[m] # NoFd => fp'[m] = fp[m]
  <2>1. ASSUME NEW n \in Nodes, AddConnection(n)
        PROVE  <1>4!:
    <3>1. /\ FreeFd \in Fds \ open /\ open' = open \cup {FreeFd} /\ fp[n] = NoFd
          /\ fp' = [fp EXCEPT ![n] = FreeFd]
          /\ m_size' = m_size + 1 /\ m_cap' \in Nat \ {0}
          /\ m_first_array' \in [0 .. m_cap' - 1 -> Fds \cup {Listener, NoValue}]
          /\ m_second_array' \in [0 .. m_cap' - 1 -> Nodes \cup {ListNode, NoValue}]
          /\ \A i \in Entries : m_first_array'[i] = m_first_array[i]
          /\ m_cap' # m_cap => m_size = m_cap
      BY <2>1, AddConnectionEffect
    <3>2. Fits' /\ Accounted' /\ ListenerFirst' /\ Polled \subseteq Polled'
      BY <2>1, AddConnectionKeeps
    <3>3. m_size' \in Nat /\ m_size' >= m_size
      BY <1>3, <3>1
    <3>4. fp \in [Nodes -> Fds \cup {NoFd}] /\ open \subseteq Fds
      BY DEF IInv, TypeOK
    <3>5. open' \subseteq Fds /\ fp' \in [Nodes -> Fds \cup {NoFd}]
          /\ \A m \in Nodes : fp[m] # NoFd => fp'[m] = fp[m]
      BY <3>1, <3>4
    <3> QED
      BY <3>1, <3>2, <3>3, <3>5
  <2>2. CASE UNCHANGED <<open, fp, conns>>
    <3>1. /\ Fits' /\ Accounted' /\ ListenerFirst' /\ Polled' = Polled
          /\ m_size' = m_size /\ m_cap' = m_cap
          /\ m_first_array' = m_first_array /\ m_second_array' = m_second_array
          /\ open' = open /\ fp' = fp
      BY <2>2, TableKept
    <3> QED
      BY <1>3, <3>1 DEF IInv, TypeOK
  <2> QED
    BY <1>1, <2>1, <2>2
<1>5. \/ /\ pc' = "poll" /\ (index = m_size - 1 \/ sockets_to_handel = 0)
         /\ index' = 0 /\ sockets_to_handel' = 0 /\ revents' = {}
      \/ /\ pc' = "scan" /\ index # m_size - 1
         /\ index' = index + 1 /\ sockets_to_handel' = sockets_to_handel /\ revents' = revents
  BY <1>1, EndTurnCases
<1>6. /\ m_cap' = m_cap => old' = old
      /\ m_cap' # m_cap => old' = <<m_first_array, m_second_array>>
  BY <1>1, <1>2 DEF KeepStorage
<1>7. stale' <=> m_cap' # m_cap
  BY <1>2, <1>6 DEF stale
<1>8. m_first_array \in [0 .. m_cap - 1 -> Fds \cup {Listener, NoValue}]
  BY DEF IInv, TypeOK
<1>9. TypeOK'
  <2>1. index' \in Nat /\ sockets_to_handel' \in Nat /\ revents' \in SUBSET (Fds \cup {Listener})
        /\ pc' \in {"setup", "poll", "scan", "dead"}
    BY <1>3, <1>5, Counting
  <2>2. a' \in 0 .. Limit + 1
    BY <1>1, CountType
  <2>3. handled' \in SUBSET reported' /\ m_active' \in BOOLEAN
        /\ reported' \in SUBSET (Fds \cup {Listener})
    BY <1>1, <1>2 DEF IInv, TypeOK
  <2>4. pending' \in 0 .. Backlog
    <3>1. pending \in 0 .. Backlog /\ Backlog \in Nat
      BY RunAssumption DEF IInv, TypeOK
    <3>2. pending' = pending - 1 \/ pending' = pending
      BY <1>1
    <3> QED
      BY <1>2, <3>1, <3>2
  <2>5. open' \in SUBSET Fds /\ data' \in SUBSET open' /\ hungup' \in SUBSET open'
    BY <1>1, <1>4 DEF IInv, TypeOK
  <2>6. stale' => old'[1] \in [DOMAIN old'[1] -> Fds \cup {Listener, NoValue}]
    <3>1. stale' => old'[1] = m_first_array
      BY <1>6, <1>7
    <3>2. DOMAIN m_first_array = 0 .. m_cap - 1
      BY <1>8
    <3> QED
      BY <1>8, <3>1, <3>2
  <2> QED
    BY <1>4, <2>1, <2>2, <2>3, <2>4, <2>5, <2>6 DEF TypeOK
<1>10. CASE pc' = "poll"
  <2>1. handled' = reported
    <3>1. sockets_to_handel # 0
      BY <1>2, <1>3, Counting
    <3>2. reported \ handled \subseteq {Listener}
      BY <1>2, <1>3, <1>5, <1>10, <3>1
    <3>3. handled \subseteq reported
      BY DEF IInv, TypeOK
    <3> QED
      BY <1>1, <1>2, <3>2, <3>3
  <2>2. AllServed'
    BY <1>1, <2>1 DEF AllServed
  <2>3. Scanning' /\ NobodyBehind' /\ OldShows'
    BY <1>10 DEF Scanning, NobodyBehind, OldShows
  <2> QED
    BY <1>4, <1>9, <2>2, <2>3 DEF IInv
<1>11. CASE pc' = "scan"
  <2>1. /\ index' = 1 /\ index' < m_size'
        /\ sockets_to_handel' = sockets_to_handel /\ revents' = revents
    BY <1>2, <1>3, <1>4, <1>5, <1>11
  <2>2. Scanning'
    <3>1. /\ revents = reported \ (handled \ {Listener})
          /\ revents \ {Listener} \subseteq data \cup hungup
      BY <1>1 DEF IInv, Scanning
    <3>2. revents' = reported' \ (handled' \ {Listener})
      BY <1>1, <2>1, <3>1
    <3>3. revents' \ {Listener} \subseteq data' \cup hungup'
      BY <1>1, <2>1, <3>1
    <3>4. Listener \in handled'
      BY <1>1
    <3> QED
      BY <1>3, <2>1, <3>2, <3>3, <3>4 DEF Scanning
  <2>3. NobodyBehind'
    <3>1. ASSUME NEW i \in Entries', i < index'
          PROVE  m_first_array'[i] \notin reported' \ handled'
      <4>1. i = 0 /\ i \in Entries
        BY <1>2, <1>3, <1>4, <2>1, <3>1 DEF Entries
      <4> QED
        BY <1>1, <1>2, <1>4, <4>1
    <3> QED
      BY <3>1 DEF NobodyBehind
  <2>4. OldShows'
    <3>1. SUFFICES ASSUME stale'
                   PROVE  /\ DOMAIN old'[1] \subseteq Nat
                          /\ \A i \in DOMAIN old'[1] : old'[1][i] = Listener => i = 0 /\ index' > 0
                          /\ \A i \in DOMAIN old'[1] :
                              i < m_size' /\ old'[1][i] \in revents' \ {Listener} =>
                                  old'[2][i] \in Nodes /\ fp'[old'[2][i]] = old'[1][i]
      BY DEF OldShows
    <3>2. m_size = m_cap /\ old'[1] = m_first_array /\ old'[2] = m_second_array
      BY <1>4, <1>6, <1>7, <3>1
    <3>3. DOMAIN m_first_array = 0 .. m_cap - 1 /\ Entries = 0 .. m_cap - 1
      BY <1>8, <3>2 DEF Entries
    <3>4. ASSUME NEW i \in Entries, m_first_array[i] # Listener
          PROVE  m_second_array[i] \in Nodes /\ fp'[m_second_array[i]] = m_first_array[i]
      <4>1. /\ m_second_array[i] \in Nodes /\ fp[m_second_array[i]] = m_first_array[i]
            /\ m_first_array[i] \in Fds
        BY <3>4, ArrayFacts
      <4>2. fp[m_second_array[i]] # NoFd
        BY <4>1, RunAssumption
      <4> QED
        BY <1>4, <4>1, <4>2
    <3>5. \A i \in Entries : m_first_array[i] = Listener => i = 0
      BY <3>3 DEF IInv, ListenerFirst
    <3> QED
      BY <2>1, <3>2, <3>3, <3>4, <3>5
  <2>5. AllServed'
    BY <1>11 DEF AllServed
  <2> QED
    BY <1>4, <1>9, <2>2, <2>3, <2>4, <2>5 DEF IInv
<1> QED
  BY <1>5, <1>10, <1>11

(* A connection goes in its own turn.  The scan steps back, so the entry   *)
(* that took its place is looked at next; if the storage shrank, the       *)
(* pointers keep leading to the old one with the last entry moved.         *)
LEMMA DisconnectInv ==
    ASSUME IInv, Disconnect
    PROVE  IInv'
<1> DEFINE fd == CurrentFd
           n == CurrentNode
           f == D!find(CurrentFd)
<1>1. /\ pc = "scan" /\ Marked /\ fd # Listener
      /\ Dropped(fd, n)
      /\ handled' = handled \cup {fd} /\ Count
      /\ EndTurn(index - 1, m_size - 1, sockets_to_handel - 1, revents \ {fd})
      /\ UNCHANGED <<m_active, pending, reported>>
  BY DEF Disconnect, StepBack, SizeLeft
<1>2. /\ open' = open \ {fd} /\ data' = data \ {fd} /\ hungup' = hungup \ {fd}
      /\ fp' = [fp EXCEPT ![n] = NoFd]
      /\ KeepStorage(D!Swapped(m_first_array, fd), D!Swapped(m_second_array, fd))
  BY <1>1, SameArray DEF Dropped
<1>3. /\ fd \in revents /\ fd \in reported /\ fd \in open /\ n \in Nodes /\ fp[n] = fd
      /\ ~stale => index \in Entries /\ fd = m_first_array[index]
  BY <1>1, CurrentFacts
<1>4. /\ reported \ handled \subseteq revents
      /\ revents \in SUBSET (Fds \cup {Listener})
      /\ sockets_to_handel = Cardinality(revents)
      /\ index \in Nat /\ m_size \in Nat /\ index < m_size
      /\ ~stale /\ index = m_size - 1 => reported \ handled \subseteq {m_first_array[index]}
  BY <1>1, Unserved
<1>5. /\ f \in Entries /\ m_first_array[f] = fd
      /\ m_size' = m_size - 1 /\ m_size - 1 \in Nat
      /\ m_cap' \in Nat \ {0}
      /\ m_first_array' \in [0 .. m_cap' - 1 -> Fds \cup {Listener, NoValue}]
      /\ m_second_array' \in [0 .. m_cap' - 1 -> Nodes \cup {ListNode, NoValue}]
      /\ Entries' = 0 .. m_size - 2
      /\ \A i \in Entries' : /\ Moved(fd, i) \in Entries
                             /\ m_first_array'[i] = m_first_array[Moved(fd, i)]
      /\ ListenerFirst' /\ Fits'
  BY <1>1, <1>3, DroppedEffect
<1>6. Accounted' /\ Polled' = Polled \ {fd}
  BY <1>1, <1>3, DroppedKeeps
<1>7. \A i \in Entries : i # f => m_first_array[i] # fd
  BY <1>5 DEF IInv, Accounted
<1>8. \A i : Moved(fd, i) = IF i = f THEN m_size - 1 ELSE i
  BY DEF Moved
<1> HIDE DEF fd, n, f
<1>9. \/ /\ pc' = "poll" /\ (index - 1 = (m_size - 1) - 1 \/ sockets_to_handel - 1 = 0)
         /\ index' = 0 /\ sockets_to_handel' = 0 /\ revents' = {}
      \/ /\ pc' = "scan" /\ index - 1 # (m_size - 1) - 1 /\ sockets_to_handel - 1 # 0
         /\ index' = (index - 1) + 1 /\ sockets_to_handel' = sockets_to_handel - 1
         /\ revents' = revents \ {fd}
  BY <1>1, EndTurnCases
<1>10. /\ Cardinality(revents \ {fd}) = sockets_to_handel - 1
       /\ Cardinality(revents \ {fd}) \in Nat
       /\ (Cardinality(revents \ {fd}) = 0) <=> (revents \ {fd} = {})
  <2>1. Cardinality(revents \ {fd}) = sockets_to_handel - 1
    BY <1>3, <1>4, Counting
  <2>2. revents \ {fd} \in SUBSET (Fds \cup {Listener})
    BY <1>4
  <2> QED
    BY <2>1, <2>2, Counting
<1>11. /\ m_first_array \in [0 .. m_cap - 1 -> Fds \cup {Listener, NoValue}]
       /\ m_second_array \in [0 .. m_cap - 1 -> Nodes \cup {ListNode, NoValue}]
       /\ m_cap \in Nat /\ m_size <= m_cap
       /\ fp \in [Nodes -> Fds \cup {NoFd}]
  BY DEF IInv, TypeOK, Fits
<1> DEFINE first == [m_first_array EXCEPT ![f] = m_first_array[m_size - 1]]
           second == [m_second_array EXCEPT ![f] = m_second_array[m_size - 1]]
<1>12. D!Swapped(m_first_array, fd) = first /\ D!Swapped(m_second_array, fd) = second
  BY DEF D!Swapped, f, fd
<1>13. /\ first \in [0 .. m_cap - 1 -> Fds \cup {Listener, NoValue}]
       /\ f \in 0 .. m_cap - 1 /\ m_size - 1 \in 0 .. m_cap - 1
       /\ \A i \in 0 .. m_cap - 1 :
            /\ first[i] = m_first_array[Moved(fd, i)]
            /\ second[i] = m_second_array[Moved(fd, i)]
  <2>1. f \in 0 .. m_cap - 1 /\ m_size - 1 \in 0 .. m_cap - 1
    BY <1>4, <1>5, <1>11 DEF Entries
  <2> QED
    BY <1>8, <1>11, <2>1
<1> HIDE DEF first, second
<1>14. /\ m_cap' = m_cap \/ stale => old' = old
       /\ m_cap' # m_cap /\ ~stale => old' = <<first, second>>
  BY <1>2, <1>12 DEF KeepStorage
<1>15. stale' <=> stale \/ m_cap' # m_cap
  BY <1>14 DEF stale
<1>16. TypeOK'
  <2>1. index' \in Nat /\ sockets_to_handel' \in Nat /\ revents' \in SUBSET (Fds \cup {Listener})
        /\ pc' \in {"setup", "poll", "scan", "dead"}
    BY <1>4, <1>9, <1>10
  <2>2. a' \in 0 .. Limit + 1
    BY <1>1, CountType
  <2>3. handled' \in SUBSET reported' /\ m_active' \in BOOLEAN /\ pending' \in 0 .. Backlog
        /\ reported' \in SUBSET (Fds \cup {Listener})
    BY <1>1, <1>3 DEF IInv, TypeOK
  <2>4. open' \in SUBSET Fds /\ data' \in SUBSET open' /\ hungup' \in SUBSET open'
    BY <1>2 DEF IInv, TypeOK
  <2>5. fp' \in [Nodes -> Fds \cup {NoFd}]
    BY <1>2, <1>11
  <2>6. stale' => old'[1] \in [DOMAIN old'[1] -> Fds \cup {Listener, NoValue}]
    <3>1. CASE stale
      BY <1>14, <3>1 DEF IInv, TypeOK
    <3>2. CASE ~stale
      <4>1. stale' => old'[1] = first
        BY <1>14, <1>15, <3>2
      <4>2. DOMAIN first = 0 .. m_cap - 1
        BY <1>13
      <4> QED
        BY <1>13, <4>1, <4>2
    <3> QED
      BY <3>1, <3>2
  <2>7. m_size' \in Nat
    BY <1>5
  <2> QED
    BY <1>5, <2>1, <2>2, <2>3, <2>4, <2>5, <2>6, <2>7 DEF TypeOK
<1>17. CASE pc' = "poll"
  <2>1. ~stale => handled' = reported
    <3>1. sockets_to_handel - 1 = 0 => revents \ {fd} = {}
      BY <1>10
    <3>2. index - 1 = (m_size - 1) - 1 => index = m_size - 1
      BY <1>4
    <3>3. ~stale => reported \ handled \subseteq {fd}
      BY <1>3, <1>4, <1>9, <1>17, <3>1, <3>2
    <3>4. handled \subseteq reported
      BY DEF IInv, TypeOK
    <3> QED
      BY <1>1, <1>3, <3>3, <3>4
  <2>2. AllServed'
    BY <1>1, <1>15, <2>1 DEF AllServed
  <2>3. Scanning' /\ NobodyBehind' /\ OldShows'
    BY <1>17 DEF Scanning, NobodyBehind, OldShows
  <2> QED
    BY <1>5, <1>6, <1>16, <2>2, <2>3 DEF IInv
<1>18. CASE pc' = "scan"
  <2>1. /\ index' = index /\ index' < m_size'
        /\ sockets_to_handel' = sockets_to_handel - 1 /\ revents' = revents \ {fd}
    BY <1>4, <1>5, <1>9, <1>18
  <2>2. Scanning'
    <3>1. /\ revents = reported \ (handled \ {Listener})
          /\ revents \ {Listener} \subseteq data \cup hungup
          /\ Listener \in revents \ handled => pending > 0 /\ Listener \in Polled
          /\ Listener \in handled => index > 0
      BY <1>1 DEF IInv, Scanning
    <3>2. revents' = reported' \ (handled' \ {Listener})
      BY <1>1, <2>1, <3>1
    <3>3. revents' \ {Listener} \subseteq data' \cup hungup'
      BY <1>2, <2>1, <3>1
    <3>4. Listener \in revents' \ handled' => pending' > 0 /\ Listener \in Polled'
      BY <1>1, <1>6, <2>1, <3>1
    <3>5. Listener \in handled' => index' > 0
      BY <1>1, <2>1, <3>1
    <3> QED
      BY <1>10, <2>1, <3>2, <3>3, <3>4, <3>5 DEF Scanning
  <2>3. NobodyBehind'
    <3>1. ASSUME ~stale, NEW i \in Entries', i < index'
          PROVE  m_first_array'[i] \notin reported' \ handled'
      <4>1. f = index
        BY <1>3, <1>7, <3>1
      <4>2. i # f /\ i \in Entries
        BY <1>4, <1>5, <2>1, <3>1, <4>1 DEF Entries
      <4>3. m_first_array'[i] = m_first_array[i]
        BY <1>5, <1>8, <3>1, <4>2
      <4>4. m_first_array[i] \notin reported \ handled
        BY <1>1, <2>1, <3>1, <4>2 DEF IInv, NobodyBehind
      <4> QED
        BY <1>1, <4>3, <4>4
    <3> QED
      BY <1>15, <3>1 DEF NobodyBehind
  <2>4. OldShows'
    <3>1. SUFFICES ASSUME stale'
                   PROVE  /\ DOMAIN old'[1] \subseteq Nat
                          /\ \A i \in DOMAIN old'[1] : old'[1][i] = Listener => i = 0 /\ index' > 0
                          /\ \A i \in DOMAIN old'[1] :
                              i < m_size' /\ old'[1][i] \in revents' \ {Listener} =>
                                  old'[2][i] \in Nodes /\ fp'[old'[2][i]] = old'[1][i]
      BY DEF OldShows
    <3>2. CASE stale
      <4>1. /\ DOMAIN old[1] \subseteq Nat
            /\ \A i \in DOMAIN old[1] : old[1][i] = Listener => i = 0 /\ index > 0
            /\ \A i \in DOMAIN old[1] :
                i < m_size /\ old[1][i] \in revents \ {Listener} =>
                    old[2][i] \in Nodes /\ fp[old[2][i]] = old[1][i]
        BY <1>1, <3>2 DEF IInv, OldShows
      <4>3. ASSUME NEW i \in DOMAIN old[1], i < m_size', old[1][i] \in revents' \ {Listener}
            PROVE  old[2][i] \in Nodes /\ fp'[old[2][i]] = old[1][i]
        <5>1. i < m_size
          BY <1>4, <1>5, <4>1, <4>3
        <5>2. old[2][i] \in Nodes /\ fp[old[2][i]] = old[1][i] /\ old[1][i] # fd
          BY <2>1, <4>1, <4>3, <5>1
        <5>3. old[2][i] # n
          BY <1>3, <5>2
        <5> QED
          BY <1>2, <1>11, <5>2, <5>3
      <4> QED
        BY <1>14, <2>1, <3>2, <4>1, <4>3
    <3>3. CASE ~stale
      <4>1. old'[1] = first /\ old'[2] = second /\ DOMAIN first = 0 .. m_cap - 1
        BY <1>13, <1>14, <1>15, <3>1, <3>3
      <4>2. f = index
        BY <1>3, <1>7, <3>3
      <4>3. ASSUME NEW i \in 0 .. m_cap - 1, first[i] = Listener
            PROVE  i = 0 /\ index > 0
        <5>1. \A j \in 0 .. m_cap - 1 : m_first_array[j] = Listener => j = 0
          BY DEF IInv, ListenerFirst
        <5>2. Moved(fd, i) \in 0 .. m_cap - 1 /\ m_first_array[Moved(fd, i)] = Listener
          BY <1>8, <1>13, <4>3
        <5>3. Moved(fd, i) = 0
          BY <5>1, <5>2
        <5>4. m_first_array[0] = Listener
          BY <5>2, <5>3
        <5>5. f # 0
          BY <1>1, <1>5, <5>4
        <5>6. m_size - 1 # 0
          BY <1>4, <4>2, <5>5
        <5> QED
          BY <1>4, <1>8, <4>2, <5>3, <5>5, <5>6
      <4>4. ASSUME NEW i \in 0 .. m_cap - 1, i < m_size', first[i] \in revents' \ {Listener}
            PROVE  second[i] \in Nodes /\ fp'[second[i]] = first[i]
        <5>1. i \in Entries'
          BY <1>4, <1>5, <4>4 DEF Entries
        <5>2. Moved(fd, i) \in Entries /\ first[i] = m_first_array[Moved(fd, i)]
              /\ second[i] = m_second_array[Moved(fd, i)]
          BY <1>5, <1>13, <5>1
        <5>3. first[i] # fd /\ first[i] # Listener
          BY <2>1, <4>4
        <5>4. second[i] \in Nodes /\ fp[second[i]] = first[i]
          BY <5>2, <5>3, ArrayFacts
        <5>5. second[i] # n
          BY <1>3, <5>3, <5>4
        <5> QED
          BY <1>2, <1>11, <5>4, <5>5
      <4> QED
        BY <2>1, <4>1, <4>3, <4>4
    <3> QED
      BY <3>2, <3>3
  <2>5. AllServed'
    BY <1>18 DEF AllServed
  <2> QED
    BY <1>5, <1>6, <1>16, <2>2, <2>3, <2>4, <2>5 DEF IInv
<1> QED
  BY <1>9, <1>17, <1>18

LEMMA CrashInv ==
    ASSUME IInv, Crash
    PROVE  IInv'
<1>1. /\ pc' = "dead"
      /\ UNCHANGED <<conns, m_active, a, index, sockets_to_handel, revents, old, fp,
                     open, pending, data, hungup, reported, handled>>
  BY DEF Crash, loop, kernel, round
<1>2. /\ Fits' /\ Accounted' /\ ListenerFirst'
      /\ m_size' = m_size /\ m_cap' = m_cap
      /\ m_first_array' = m_first_array /\ m_second_array' = m_second_array
  BY <1>1, TableKept
<1>3. TypeOK'
  BY <1>1, <1>2 DEF IInv, TypeOK, stale
<1>4. Scanning' /\ NobodyBehind' /\ OldShows' /\ AllServed'
  BY <1>1 DEF Scanning, NobodyBehind, OldShows, AllServed
<1> QED
  BY <1>2, <1>3, <1>4 DEF IInv

LEMMA StutterInv ==
    ASSUME IInv, UNCHANGED vars
    PROVE  IInv'
<1>1. UNCHANGED <<conns, m_active, pc, a, index, sockets_to_handel, revents, old, fp,
                  open, pending, data, hungup, reported, handled>>
  BY DEF vars, loop, kernel, round
<1>2. /\ Fits' /\ Accounted' /\ ListenerFirst'
      /\ Polled' = Polled /\ Entries' = Entries
      /\ m_size' = m_size /\ m_cap' = m_cap
      /\ m_first_array' = m_first_array /\ m_second_array' = m_second_array
  BY <1>1, TableKept
<1>3. TypeOK' /\ Scanning'
  BY <1>1, <1>2 DEF IInv, TypeOK, Scanning, stale
<1>4. NobodyBehind' /\ OldShows' /\ AllServed'
  BY <1>1, <1>2 DEF IInv, NobodyBehind, OldShows, AllServed, stale
<1> QED
  BY <1>2, <1>3, <1>4 DEF IInv

LEMMA StepInv == IInv /\ [Next]_vars => IInv'
<1> SUFFICES ASSUME IInv, [Next]_vars PROVE IInv'
  OBVIOUS
<1>1. CASE Peers
  BY <1>1, PeersInv
<1>2. CASE Connect
  BY <1>2, ConnectInv
<1>3. CASE Run \/ Return
  BY <1>3, RunReturnInv
<1>4. CASE Poll
  BY <1>4, PollInv
<1>5. CASE Accept
  BY <1>5, AcceptInv
<1>6. CASE Read
  BY <1>6, ReadInv
<1>7. CASE Disconnect
  BY <1>7, DisconnectInv
<1>8. CASE Skip
  BY <1>8, SkipInv
<1>9. CASE Crash
  BY <1>9, CrashInv
<1>10. CASE UNCHANGED vars
  BY <1>10, StutterInv
<1> QED
  BY <1>1, <1>2, <1>3, <1>4, <1>5, <1>6, <1>7, <1>8, <1>9, <1>10 DEF Next, Server, Turn

LEMMA Invariance == Spec => []IInv
BY InitInv, StepInv, PTL DEF Spec

-----------------------------------------------------------------------------
(* The theorems are about Spec; the runs check FairSpec, which implies it. *)

(* The locals of run and the tables it works on keep their types: in       *)
(* particular index, which a disconnect moves back, is never negative when *)
(* a turn begins, and only what was reported is served.                    *)
THEOREM TypeCorrect == Spec => []TypeOK
<1>1. IInv => TypeOK
  BY DEF IInv
<1> QED
  BY <1>1, Invariance, PTL

(* For any number of connections that come and go while run scans: every   *)
(* open descriptor has exactly one entry, beside the live node made for    *)
(* it, and no allocated node is outside of the array.  (Nodes and sockets  *)
(* that never became an entry are JudoLifecycle's.)                        *)
THEOREM AlwaysAccounted == Spec => []Accounted
<1>1. IInv => Accounted
  BY DEF IInv
<1> QED
  BY <1>1, Invariance, PTL

(* The entry whose turn it is exists, however many entries judoAccept_     *)
(* added and judoDisconnect_ removed since the scan began.                 *)
THEOREM IndexAlwaysInside == Spec => []IndexInside
<1>1. IInv => IndexInside
  BY DEF IInv, Scanning, IndexInside
<1> QED
  BY <1>1, Invariance, PTL

(* judoRead_ gets the node of the descriptor it gets.  Where poll_array and *)
(* node_array point to storage that was replaced, this is said only of     *)
(* freed storage whose contents were left as they were.                    *)
THEOREM NodesAlwaysMatch == Spec => []NodeMatches
<1>1. IInv => NodeMatches
  BY CurrentFacts DEF NodeMatches
<1> QED
  BY <1>1, Invariance, PTL

(* accept is only called with a client waiting and judoRead_ only with     *)
(* something to read or a peer that has gone, and nobody twice in a round. *)
THEOREM OnlyReadyServed == Spec => []ServesReadyOnly
<1>1. IInv => ServesReadyOnly
  <2> SUFFICES ASSUME IInv, pc = "scan", Marked
               PROVE  CurrentFd \in Readable \ handled
    BY DEF ServesReadyOnly
  <2>1. CASE CurrentFd = Listener
    BY <2>1, CurrentFacts DEF Readable
  <2>2. CASE CurrentFd # Listener
    <3>1. open \subseteq Polled
      BY DEF IInv, Accounted
    <3> QED
      BY <2>2, <3>1, CurrentFacts DEF Readable
  <2> QED
    BY <2>1, <2>2
<1> QED
  BY <1>1, Invariance, PTL

(* When run polls again every socket that poll had reported was served,    *)
(* unless the storage was replaced in that round.                          *)
THEOREM NobodyEverSkipped == Spec => []NobodySkipped
<1>1. IInv => NobodySkipped
  BY DEF IInv, AllServed, NobodySkipped
<1> QED
  BY <1>1, Invariance, PTL
=============================================================================
