----------------------------- MODULE QueueProofs -----------------------------
(***************************************************************************)
(* Theorems about Queue: its pointers lead through exactly its cells,      *)
(* nothing is leaked or freed too early, and it implements Fifo.           *)
(*                                                                         *)
(* Linked is preserved by the operations of the living queue alone.  The   *)
(* accounting of the cells is not: while the destructor runs it needs to   *)
(* know how far the loop has come, which Ahead says.                       *)
(***************************************************************************)
EXTENDS Queue, SequenceTheorems, TLAPS

(* A heap q links the cells of s from h to t: ListOf of an explicit heap. *)
LinkedBy(q, s, h, t) ==
    IF s = <<>>
    THEN h = NULL /\ t = NULL
    ELSE /\ h = s[1] /\ t = s[Len(s)]
         /\ \A i \in 1 .. Len(s) - 1 : q[s[i]].next = s[i + 1]
         /\ q[t].next = NULL

(* The data of the cells of s in a heap q: DataOf of an explicit heap. *)
DataIn(q, s) == [i \in 1 .. Len(s) |-> q[s[i]].data]

-----------------------------------------------------------------------------
(* A list stays a list when the links of its own cells stay as they are.   *)
LEMMA SameLinks ==
    ASSUME NEW q, NEW r, NEW s \in Seq(Cells), NEW h, NEW t,
           LinkedBy(q, s, h, t),
           \A i \in 1 .. Len(s) : r[s[i]].next = q[s[i]].next
    PROVE  LinkedBy(r, s, h, t)
<1>1. CASE s = <<>>
  BY <1>1 DEF LinkedBy
<1>2. CASE s # <<>>
  <2>1. Len(s) \in 1 .. Len(s) /\ \A i \in 1 .. Len(s) - 1 : i \in 1 .. Len(s)
    BY <1>2, EmptySeq, LenProperties
  <2> QED
    BY <1>2, <2>1 DEF LinkedBy
<1> QED
  BY <1>1, <1>2

(* enqueue, load: hanging a list of other cells behind the last cell gives *)
(* the list of both, from the first head to the second tail.               *)
LEMMA JoinedLists ==
    ASSUME NEW q \in [Cells -> QNode], NEW s \in Seq(Cells), NEW u \in Seq(Cells),
           NEW h, NEW t, NEW g, NEW e,
           LinkedBy(q, s, h, t), LinkedBy(q, u, g, e),
           s # <<>>, u # <<>>, Distinct(s),
           CellsOf(s) \cap CellsOf(u) = {}
    PROVE  LinkedBy([q EXCEPT ![t].next = g], s \o u, h, e)
<1> DEFINE r == [q EXCEPT ![t].next = g]
           n == Len(s)
           m == Len(u)
           w == s \o u
<1>1. n \in Nat \ {0} /\ m \in Nat \ {0}
  BY EmptySeq, LenProperties
<1>2. /\ w \in Seq(Cells) /\ Len(w) = n + m /\ w # <<>>
      /\ \A i \in 1 .. n : w[i] = s[i]
      /\ \A i \in n + 1 .. n + m : w[i] = u[i - n]
  BY <1>1, ConcatProperties
<1>3. h = s[1] /\ t = s[n] /\ g = u[1] /\ e = u[m] /\ q[e].next = NULL
  BY DEF LinkedBy
<1>4. t \in Cells /\ \A i \in 1 .. m : u[i] \in Cells /\ u[i] # t
  <2>1. n \in 1 .. Len(s) /\ t \in CellsOf(s)
    BY <1>1, <1>3 DEF CellsOf
  <2>2. \A i \in 1 .. m : u[i] \in Cells /\ u[i] \in CellsOf(u)
    BY ElementOfSeq DEF CellsOf
  <2> QED
    BY <1>3, <2>1, <2>2, ElementOfSeq
<1>5. \A i \in 1 .. n - 1 : s[i] \in Cells /\ s[i] # t
  BY <1>1, <1>3, ElementOfSeq DEF Distinct
<1>6. r[t].next = g /\ \A c \in Cells \ {t} : r[c].next = q[c].next
  BY <1>4 DEF QNode
<1>7. ASSUME NEW i \in 1 .. n + m - 1
      PROVE  r[w[i]].next = w[i + 1]
  <2>1. CASE i < n
    <3>1. i \in 1 .. n - 1 /\ i \in 1 .. n /\ i + 1 \in 1 .. n
      BY <1>1, <2>1
    <3>2. q[s[i]].next = s[i + 1]
      BY <3>1 DEF LinkedBy
    <3> QED
      BY <3>1, <3>2, <1>2, <1>5, <1>6
  <2>2. CASE i = n
    <3>1. w[i] = t /\ w[i + 1] = u[1]
      BY <1>1, <1>2, <1>3, <2>2
    <3> QED
      BY <3>1, <1>3, <1>6
  <2>3. CASE i > n
    <3>1. i - n \in 1 .. m - 1 /\ i - n \in 1 .. m /\ (i + 1) - n = (i - n) + 1
      BY <1>1, <2>3
    <3>2. w[i] = u[i - n] /\ w[i + 1] = u[(i - n) + 1]
      <4>1. i \in n + 1 .. n + m /\ i + 1 \in n + 1 .. n + m
        BY <1>1, <2>3
      <4> QED
        BY <4>1, <3>1, <1>2
    <3>3. q[u[i - n]].next = u[(i - n) + 1]
      BY <3>1 DEF LinkedBy
    <3> QED
      BY <3>1, <3>2, <3>3, <1>4, <1>6
  <2>4. i < n \/ i = n \/ i > n
    BY <1>1
  <2> QED
    BY <2>1, <2>2, <2>3, <2>4
<1>8. w[1] = h /\ w[n + m] = e
  BY <1>1, <1>2, <1>3
<1>9. r[e].next = NULL
  BY <1>1, <1>3, <1>4, <1>6
<1> HIDE DEF w, r
<1>10. LinkedBy(r, w, h, e)
  BY <1>2, <1>7, <1>8, <1>9 DEF LinkedBy
<1> QED
  BY <1>10 DEF r, w

(* dequeue: what follows the first cell is the list of the other cells.    *)
LEMMA ShortenedList ==
    ASSUME NEW q, NEW s \in Seq(Cells), NEW h, NEW t,
           LinkedBy(q, s, h, t), s # <<>>
    PROVE  LinkedBy(q, Tail(s), q[h].next, IF Len(s) = 1 THEN NULL ELSE t)
<1> DEFINE u == Tail(s)
<1>1. Len(s) \in Nat \ {0}
  BY EmptySeq, LenProperties
<1>2. Len(u) = Len(s) - 1 /\ \A i \in 1 .. Len(u) : u[i] = s[i + 1]
  BY <1>1, HeadTailProperties
<1>3. u \in Seq(Cells) /\ (u = <<>> <=> Len(u) = 0)
  BY HeadTailProperties, EmptySeq
<1>4. /\ h = s[1] /\ t = s[Len(s)] /\ q[t].next = NULL
      /\ \A i \in 1 .. Len(s) - 1 : q[s[i]].next = s[i + 1]
  BY DEF LinkedBy
<1> HIDE DEF u
<1>5. CASE Len(s) = 1
  BY <1>2, <1>3, <1>4, <1>5 DEF LinkedBy, u
<1>6. CASE Len(s) > 1
  <2>1. u # <<>> /\ u[1] = q[h].next /\ u[Len(u)] = t
    BY <1>1, <1>2, <1>3, <1>4, <1>6
  <2>2. ASSUME NEW i \in 1 .. Len(u) - 1
        PROVE  q[u[i]].next = u[i + 1]
    <3>1. i \in 1 .. Len(u) /\ i + 1 \in 1 .. Len(u) /\ i + 1 \in 1 .. Len(s) - 1
      BY <1>1, <1>2
    <3> QED
      BY <3>1, <1>2, <1>4
  <2> QED
    BY <1>4, <1>6, <2>1, <2>2 DEF LinkedBy, u
<1>7. Len(s) = 1 \/ Len(s) > 1
  <2>1. \A k \in Nat \ {0} : k = 1 \/ k > 1
    OBVIOUS
  <2> QED
    BY <1>1, <2>1, Zenon
<1> QED
  BY <1>5, <1>6, <1>7 DEF u

(* The cells of two lists behind each other, of a new last cell, and of a  *)
(* list without its first cell.                                            *)
LEMMA JoinedCells ==
    ASSUME NEW s \in Seq(Cells), NEW u \in Seq(Cells)
    PROVE  CellsOf(s \o u) = CellsOf(s) \cup CellsOf(u)
<1> DEFINE w == s \o u
<1>1. /\ Len(s) \in Nat /\ Len(u) \in Nat /\ Len(w) = Len(s) + Len(u)
      /\ \A i \in 1 .. Len(s) : w[i] = s[i]
      /\ \A i \in Len(s) + 1 .. Len(s) + Len(u) : w[i] = u[i - Len(s)]
  BY ConcatProperties, LenProperties
<1> HIDE DEF w
<1>2. \A i \in 1 .. Len(w) :
         \/ i \in 1 .. Len(s)
         \/ i \in Len(s) + 1 .. Len(s) + Len(u) /\ i - Len(s) \in 1 .. Len(u)
  BY <1>1
<1>3. CellsOf(w) \subseteq CellsOf(s) \cup CellsOf(u)
  BY <1>1, <1>2 DEF CellsOf
<1>4. CellsOf(s) \subseteq CellsOf(w)
  <2>1. \A i \in 1 .. Len(s) : i \in 1 .. Len(w) /\ w[i] = s[i]
    BY <1>1
  <2> QED
    BY <2>1 DEF CellsOf
<1>5. CellsOf(u) \subseteq CellsOf(w)
  <2>1. \A i \in 1 .. Len(u) : Len(s) + i \in 1 .. Len(w) /\ w[Len(s) + i] = u[i]
    BY <1>1
  <2> QED
    BY <2>1 DEF CellsOf
<1> QED
  BY <1>3, <1>4, <1>5 DEF w

LEMMA JoinedDistinct ==
    ASSUME NEW s \in Seq(Cells), NEW u \in Seq(Cells),
           Distinct(s), Distinct(u), CellsOf(s) \cap CellsOf(u) = {}
    PROVE  Distinct(s \o u)
<1> DEFINE w == s \o u
<1>1. /\ Len(s) \in Nat /\ Len(u) \in Nat /\ Len(w) = Len(s) + Len(u)
      /\ \A i \in 1 .. Len(s) : w[i] = s[i]
      /\ \A i \in Len(s) + 1 .. Len(s) + Len(u) : w[i] = u[i - Len(s)]
  BY ConcatProperties, LenProperties
<1> HIDE DEF w
<1>2. \A i \in 1 .. Len(s), j \in 1 .. Len(u) : s[i] # u[j]
  BY DEF CellsOf
<1>3. SUFFICES ASSUME NEW i \in 1 .. Len(w), NEW j \in 1 .. Len(w), w[i] = w[j]
               PROVE  i = j
  BY DEF Distinct, w
<1>4. CASE i \in 1 .. Len(s) /\ j \in 1 .. Len(s)
  BY <1>1, <1>3, <1>4 DEF Distinct
<1>5. CASE i \notin 1 .. Len(s) /\ j \notin 1 .. Len(s)
  <2>1. /\ i \in Len(s) + 1 .. Len(s) + Len(u) /\ i - Len(s) \in 1 .. Len(u)
        /\ j \in Len(s) + 1 .. Len(s) + Len(u) /\ j - Len(s) \in 1 .. Len(u)
    BY <1>1, <1>5
  <2>2. i - Len(s) = j - Len(s)
    BY <2>1, <1>1, <1>3 DEF Distinct
  <2> QED
    BY <2>2, <1>1
<1>6. CASE i \in 1 .. Len(s) /\ j \notin 1 .. Len(s)
  <2>1. j \in Len(s) + 1 .. Len(s) + Len(u) /\ j - Len(s) \in 1 .. Len(u)
    BY <1>1, <1>6
  <2> QED
    BY <2>1, <1>1, <1>2, <1>3, <1>6
<1>7. CASE i \notin 1 .. Len(s) /\ j \in 1 .. Len(s)
  <2>1. i \in Len(s) + 1 .. Len(s) + Len(u) /\ i - Len(s) \in 1 .. Len(u)
    BY <1>1, <1>7
  <2> QED
    BY <2>1, <1>1, <1>2, <1>3, <1>7
<1> QED
  BY <1>4, <1>5, <1>6, <1>7

LEMMA ShortenedCells ==
    ASSUME NEW s \in Seq(Cells), s # <<>>, Distinct(s)
    PROVE  /\ CellsOf(Tail(s)) = CellsOf(s) \ {s[1]}
           /\ Distinct(Tail(s))
<1> DEFINE u == Tail(s)
<1>1. /\ Len(s) \in Nat \ {0} /\ Len(u) = Len(s) - 1
      /\ \A i \in 1 .. Len(u) : u[i] = s[i + 1]
  BY EmptySeq, LenProperties, HeadTailProperties
<1> HIDE DEF u
<1>2. \A i \in 1 .. Len(u) : i + 1 \in 1 .. Len(s) /\ s[i + 1] # s[1]
  <2>1. \A i \in 1 .. Len(u) : i + 1 \in 1 .. Len(s) /\ 1 \in 1 .. Len(s) /\ i + 1 # 1
    BY <1>1
  <2> QED
    BY <2>1 DEF Distinct
<1>3. CellsOf(u) \subseteq CellsOf(s) \ {s[1]}
  BY <1>1, <1>2 DEF CellsOf
<1>4. CellsOf(s) \ {s[1]} \subseteq CellsOf(u)
  <2>1. \A i \in 1 .. Len(s) : i = 1 \/ (i - 1 \in 1 .. Len(u) /\ u[i - 1] = s[i])
    BY <1>1
  <2> QED
    BY <2>1 DEF CellsOf
<1>5. Distinct(u)
  <2>1. \A i, j \in 1 .. Len(u) : i + 1 = j + 1 => i = j
    BY <1>1
  <2> QED
    BY <1>1, <1>2, <2>1 DEF Distinct
<1> QED
  BY <1>3, <1>4, <1>5 DEF u

-----------------------------------------------------------------------------
(* How far the destructor has come: it stands at the k-th cell of the list *)
(* or behind the last; what is left allocated are the cells from there on  *)
(* and the list the caller holds.                                          *)
Ahead ==
    phase = "destroying" =>
        \E k \in 1 .. Len(chain) + 1 :
            /\ current = IF k <= Len(chain) THEN chain[k] ELSE NULL
            /\ live = {chain[i] : i \in k .. Len(chain)} \cup CellsOf(loose)

IInv == TypeOK /\ Linked /\ NothingLeaked /\ Ahead

(* Linked in terms of explicit heaps, so that it can be primed in parts.   *)
LEMMA LinkedAsLists ==
    Linked <=>
        /\ LinkedBy(qnode, chain, m_head, m_tail) /\ m_size = Len(chain)
        /\ LinkedBy(qnode, loose, t_head, t_tail) /\ t_num = Len(loose)
        /\ Distinct(chain) /\ Distinct(loose)
        /\ CellsOf(chain) \cap CellsOf(loose) = {}
BY DEF Linked, ListOf, LinkedBy

LEMMA LinkedAsListsNext ==
    Linked' <=>
        /\ LinkedBy(qnode', chain', m_head', m_tail') /\ m_size' = Len(chain')
        /\ LinkedBy(qnode', loose', t_head', t_tail') /\ t_num' = Len(loose')
        /\ Distinct(chain') /\ Distinct(loose')
        /\ CellsOf(chain') \cap CellsOf(loose') = {}
BY DEF Linked, ListOf, LinkedBy, Distinct, CellsOf

(* The ends of a list that is not empty are cells of it.                   *)
LEMMA EndsAreCells ==
    ASSUME NEW q, NEW s \in Seq(Cells), NEW h, NEW t, LinkedBy(q, s, h, t), s # <<>>
    PROVE  /\ h \in CellsOf(s) /\ t \in CellsOf(s)
           /\ h \in Cells /\ t \in Cells
           /\ h = s[1] /\ Len(s) \in Nat \ {0}
<1>1. Len(s) \in Nat \ {0} /\ 1 \in 1 .. Len(s) /\ Len(s) \in 1 .. Len(s)
  <2>1. Len(s) \in Nat \ {0}
    BY EmptySeq, LenProperties
  <2>2. \A k \in Nat \ {0} : 1 \in 1 .. k /\ k \in 1 .. k
    OBVIOUS
  <2> QED
    BY <2>1, <2>2, Zenon
<1>2. h = s[1] /\ t = s[Len(s)]
  BY DEF LinkedBy
<1> QED
  BY <1>1, <1>2, ElementOfSeq DEF CellsOf

LEMMA EmptyMeansZero ==
    ASSUME NEW s \in Seq(Cells)
    PROVE  (s = <<>>) <=> (Len(s) = 0)
BY EmptySeq

-----------------------------------------------------------------------------
(* What each operation does to the invariant.                              *)

LEMMA InitInv == Init => IInv
<1> SUFFICES ASSUME Init PROVE IInv
  OBVIOUS
<1>1. TypeOK
  BY EmptySeq DEF Init, TypeOK, CellOrNull, QNode
<1>2. Linked
  BY DEF Init, Linked, ListOf, Distinct, CellsOf
<1>3. NothingLeaked
  BY DEF Init, NothingLeaked, CellsOf
<1>4. Ahead
  BY DEF Init, Ahead
<1> QED
  BY <1>1, <1>2, <1>3, <1>4 DEF IInv

LEMMA EnqueueInv ==
    ASSUME IInv, NEW x \in Items, enqueue(x)
    PROVE  IInv'
<1> USE DEF IInv
<1>1. PICK n \in Cells \ live :
        /\ live' = live \cup {n}
        /\ qnode' = Hang([qnode EXCEPT ![n] = [data |-> x, next |-> NULL]], n)
        /\ m_head' = IF m_size = 0 THEN n ELSE m_head
        /\ m_tail' = n
        /\ m_size' = m_size + 1
        /\ chain' = Append(chain, n)
  BY DEF enqueue
<1>2. /\ phase = "alive" /\ phase' = phase /\ loose' = loose /\ current' = current
      /\ t_head' = t_head /\ t_tail' = t_tail /\ t_num' = t_num /\ out' = out
  BY DEF enqueue, caller, dstr
<1> DEFINE q == [qnode EXCEPT ![n] = [data |-> x, next |-> NULL]]
<1>3. chain \in Seq(Cells) /\ loose \in Seq(Cells) /\ qnode \in [Cells -> QNode]
  BY DEF TypeOK
<1>4. q \in [Cells -> QNode] /\ q[n].next = NULL
      /\ \A c \in Cells \ {n} : q[c] = qnode[c]
  BY <1>3 DEF QNode, CellOrNull
<1>5. \A i \in 1 .. Len(chain) : chain[i] \in Cells \ {n}
  BY <1>2, <1>3, ElementOfSeq DEF NothingLeaked, CellsOf
<1>6. \A i \in 1 .. Len(loose) : loose[i] \in Cells \ {n}
  BY <1>2, <1>3, ElementOfSeq DEF NothingLeaked, CellsOf
<1>7. LinkedBy(q, chain, m_head, m_tail) /\ LinkedBy(q, loose, t_head, t_tail)
  <2> HIDE DEF q
  <2> QED
    BY <1>3, <1>4, <1>5, <1>6, SameLinks, LinkedAsLists
<1>8. /\ <<n>> \in Seq(Cells) /\ <<n>> # <<>> /\ Len(<<n>>) = 1 /\ <<n>>[1] = n
      /\ CellsOf(<<n>>) = {n} /\ Distinct(<<n>>)
  BY DEF CellsOf, Distinct
<1>9. LinkedBy(q, <<n>>, n, n)
  BY <1>4, <1>8 DEF LinkedBy
<1>10. /\ chain' = chain \o <<n>> /\ chain' \in Seq(Cells)
       /\ Len(chain') = Len(chain) + 1
  BY <1>1, <1>3, AppendIsConcat, AppendProperties
<1>11. /\ CellsOf(chain) \cap {n} = {} /\ CellsOf(loose) \cap {n} = {}
       /\ CellsOf(chain') = CellsOf(chain) \cup {n}
  <2>1. CellsOf(chain') = CellsOf(chain) \cup CellsOf(<<n>>)
    BY <1>3, <1>8, <1>10, JoinedCells
  <2>2. n \notin CellsOf(chain) /\ n \notin CellsOf(loose)
    BY <1>5, <1>6 DEF CellsOf
  <2> QED
    BY <2>1, <2>2, <1>8
<1>12. Distinct(chain')
  BY <1>3, <1>8, <1>10, <1>11, JoinedDistinct DEF Linked
<1>13. m_size = Len(chain) /\ m_size \in Nat /\ (m_size = 0 <=> chain = <<>>)
  BY <1>3, EmptyMeansZero DEF Linked, TypeOK
<1> HIDE DEF q
<1>14. LinkedBy(qnode', chain', m_head', m_tail') /\ LinkedBy(qnode', loose, t_head, t_tail)
       /\ qnode' \in [Cells -> QNode]
  <2>1. CASE chain = <<>>
    <3>1. chain' = <<n>> /\ qnode' = q /\ m_head' = n /\ m_tail' = n
      BY <1>1, <1>3, <1>8, <1>10, <1>13, <2>1, ConcatEmptySeq DEF Hang, q
    <3> QED
      BY <3>1, <1>4, <1>7, <1>9
  <2>2. CASE chain # <<>>
    <3>1. qnode' = [q EXCEPT ![m_tail].next = n] /\ m_head' = m_head /\ m_tail' = n
      BY <1>1, <1>13, <2>2 DEF Hang, q
    <3>2. LinkedBy(qnode', chain', m_head', m_tail')
      BY <3>1, <1>3, <1>4, <1>7, <1>8, <1>9, <1>10, <1>11, <2>2, JoinedLists DEF Linked
    <3>3. m_tail \in CellsOf(chain)
      BY <1>3, <1>7, <2>2, EndsAreCells
    <3>4. \A i \in 1 .. Len(loose) : loose[i] \in Cells /\ loose[i] # m_tail
      BY <3>3, <1>6 DEF Linked, CellsOf
    <3>5. \A i \in 1 .. Len(loose) : qnode'[loose[i]].next = q[loose[i]].next
      BY <3>1, <3>4, <1>4
    <3>6. qnode' \in [Cells -> QNode]
      BY <3>1, <1>4 DEF QNode, CellOrNull
    <3> QED
      BY <3>2, <3>5, <3>6, <1>3, <1>7, SameLinks
  <2> QED
    BY <2>1, <2>2
<1>15. TypeOK'
  <2>1. live' \in SUBSET Cells /\ m_tail' \in CellOrNull /\ m_head' \in CellOrNull
    BY <1>1 DEF TypeOK, CellOrNull
  <2>2. m_size' \in Nat
    BY <1>1, <1>13
  <2> QED
    BY <2>1, <2>2, <1>2, <1>3, <1>10, <1>14 DEF TypeOK
<1>16. Linked'
  <2>1. Distinct(loose') /\ CellsOf(chain') \cap CellsOf(loose') = {} /\ t_num = Len(loose)
    BY <1>2, <1>11 DEF Linked
  <2>2. m_size' = Len(chain')
    BY <1>1, <1>10, <1>13
  <2> QED
    BY <2>1, <2>2, <1>2, <1>12, <1>14, LinkedAsListsNext
<1>17. NothingLeaked'
  <2>1. live' = CellsOf(chain') \cup CellsOf(loose')
    BY <1>1, <1>2, <1>11 DEF NothingLeaked
  <2>2. phase' = "alive"
    BY <1>2
  <2> QED
    BY <2>1, <2>2 DEF NothingLeaked, CellsOf
<1>18. Ahead'
  BY <1>2 DEF Ahead
<1> QED
  BY <1>15, <1>16, <1>17, <1>18

LEMMA DequeueInv ==
    ASSUME IInv, dequeue
    PROVE  IInv'
<1> USE DEF IInv
<1>1. /\ phase = "alive" /\ m_size > 0
      /\ out' = qnode[m_head].data
      /\ live' = live \ {m_head}
      /\ m_size' = m_size - 1
      /\ chain' = Tail(chain)
      /\ qnode' = qnode /\ t_head' = t_head /\ t_tail' = t_tail /\ t_num' = t_num
      /\ phase' = phase /\ current' = current /\ loose' = loose
  BY DEF dequeue, dstr, getSize
<1>2. chain \in Seq(Cells) /\ loose \in Seq(Cells) /\ qnode \in [Cells -> QNode]
  BY DEF TypeOK
<1>3. m_size = Len(chain) /\ m_size \in Nat /\ chain # <<>>
  BY <1>1, <1>2, EmptyMeansZero DEF Linked, TypeOK
<1>4. LinkedBy(qnode, chain, m_head, m_tail) /\ LinkedBy(qnode, loose, t_head, t_tail)
  BY LinkedAsLists
<1>5. m_head \in Cells /\ m_head = chain[1] /\ m_head \in CellsOf(chain)
  BY <1>2, <1>3, <1>4, EndsAreCells
<1>6. /\ Tail(chain) \in Seq(Cells) /\ Len(Tail(chain)) = m_size - 1
      /\ CellsOf(Tail(chain)) = CellsOf(chain) \ {m_head}
      /\ Distinct(Tail(chain))
  BY <1>2, <1>3, <1>5, ShortenedCells, HeadTailProperties DEF Linked
<1>7. /\ m_tail' = IF Len(chain) = 1 THEN NULL ELSE m_tail
      /\ m_head' = qnode[m_head].next
  <2>1. CASE m_size = 1
    <3>1. m_head = m_tail /\ qnode[m_tail].next = NULL
      BY <1>3, <1>4, <2>1 DEF LinkedBy
    <3> QED
      BY <3>1, <1>3, <2>1 DEF dequeue
  <2>2. CASE m_size # 1
    BY <1>3, <2>2 DEF dequeue
  <2> QED
    BY <2>1, <2>2
<1>8. LinkedBy(qnode', chain', m_head', m_tail')
  BY <1>1, <1>2, <1>3, <1>4, <1>7, ShortenedList
<1>9. TypeOK'
  <2>1. qnode[m_head] \in QNode
    BY <1>2, <1>5
  <2>2. m_head' \in CellOrNull /\ out' \in Items \cup {NULL}
    BY <1>1, <1>7, <2>1 DEF QNode
  <2>3. m_tail' \in CellOrNull /\ live' \in SUBSET Cells
    BY <1>1, <1>7 DEF TypeOK, CellOrNull
  <2>4. m_size' \in Nat /\ chain' \in Seq(Cells)
    BY <1>1, <1>3, <1>6
  <2> QED
    BY <1>1, <2>2, <2>3, <2>4 DEF TypeOK
<1>10. Linked'
  <2>1. CellsOf(chain') \cap CellsOf(loose') = {} /\ Distinct(chain') /\ Distinct(loose')
    BY <1>1, <1>6 DEF Linked
  <2>2. m_size' = Len(chain') /\ t_num' = Len(loose')
    BY <1>1, <1>6 DEF Linked
  <2> QED
    BY <1>1, <1>4, <1>8, <2>1, <2>2, LinkedAsListsNext
<1>11. NothingLeaked'
  <2>1. m_head \notin CellsOf(loose)
    BY <1>5 DEF Linked
  <2>2. live' = CellsOf(Tail(chain)) \cup CellsOf(loose)
    BY <1>1, <1>6, <2>1 DEF NothingLeaked
  <2>3. CellsOf(chain)' = CellsOf(Tail(chain)) /\ CellsOf(loose)' = CellsOf(loose)
    BY <1>1 DEF CellsOf
  <2> QED
    BY <1>1, <2>2, <2>3 DEF NothingLeaked
<1>12. Ahead'
  BY <1>1 DEF Ahead
<1> QED
  BY <1>9, <1>10, <1>11, <1>12

LEMMA DumpInv ==
    ASSUME IInv, dump
    PROVE  IInv'
<1> USE DEF IInv
<1>1. /\ phase = "alive" /\ t_num = 0
      /\ t_head' = m_head /\ t_tail' = m_tail /\ t_num' = m_size
      /\ m_head' = NULL /\ m_tail' = NULL /\ m_size' = 0
      /\ loose' = chain /\ chain' = <<>>
      /\ qnode' = qnode /\ live' = live /\ out' = out
      /\ phase' = phase /\ current' = current
  BY DEF dump, dstr
<1>2. loose = <<>> /\ chain \in Seq(Cells)
  BY <1>1, EmptyMeansZero DEF TypeOK, Linked
<1>3. TypeOK'
  BY <1>1, EmptySeq DEF TypeOK, CellOrNull
<1>4. CellsOf(<<>>) = {} /\ Distinct(<<>>) /\ LinkedBy(qnode, <<>>, NULL, NULL) /\ Len(<<>>) = 0
  BY DEF CellsOf, Distinct, LinkedBy
<1>5. LinkedBy(qnode', chain', m_head', m_tail') /\ LinkedBy(qnode', loose', t_head', t_tail')
  BY <1>1, <1>4, LinkedAsLists
<1>6. Linked'
  BY <1>1, <1>4, <1>5, LinkedAsListsNext DEF Linked
<1>7. NothingLeaked'
  BY <1>1, <1>2, <1>4 DEF NothingLeaked, CellsOf
<1>8. Ahead'
  BY <1>1 DEF Ahead
<1> QED
  BY <1>3, <1>6, <1>7, <1>8

LEMMA LoadInv ==
    ASSUME IInv, load
    PROVE  IInv'
<1> USE DEF IInv
<1>1. /\ phase = "alive" /\ t_num > 0
      /\ qnode' = Hang(qnode, t_head)
      /\ m_head' = IF m_size = 0 THEN t_head ELSE m_head
      /\ m_tail' = t_tail
      /\ m_size' = m_size + t_num
      /\ t_head' = NULL /\ t_tail' = NULL /\ t_num' = 0
      /\ chain' = chain \o loose /\ loose' = <<>>
      /\ live' = live /\ out' = out /\ phase' = phase /\ current' = current
  BY DEF load, dstr
<1>2. chain \in Seq(Cells) /\ loose \in Seq(Cells) /\ qnode \in [Cells -> QNode]
  BY DEF TypeOK
<1>3. /\ m_size = Len(chain) /\ m_size \in Nat /\ (m_size = 0 <=> chain = <<>>)
      /\ t_num = Len(loose) /\ t_num \in Nat /\ loose # <<>>
  BY <1>1, <1>2, EmptyMeansZero DEF Linked, TypeOK
<1>4. LinkedBy(qnode, chain, m_head, m_tail) /\ LinkedBy(qnode, loose, t_head, t_tail)
  BY LinkedAsLists
<1>5. /\ chain' \in Seq(Cells) /\ Len(chain') = m_size + t_num
      /\ CellsOf(chain') = CellsOf(chain) \cup CellsOf(loose)
      /\ Distinct(chain')
  BY <1>1, <1>2, <1>3, ConcatProperties, JoinedCells, JoinedDistinct DEF Linked
<1>6. t_head \in Cells /\ t_tail \in Cells
  BY <1>2, <1>3, <1>4, EndsAreCells
<1>7. LinkedBy(qnode', chain', m_head', m_tail') /\ qnode' \in [Cells -> QNode]
  <2>1. CASE chain = <<>>
    <3>1. chain' = loose /\ qnode' = qnode /\ m_head' = t_head
      BY <1>1, <1>2, <1>3, <2>1, ConcatEmptySeq DEF Hang
    <3> QED
      BY <3>1, <1>1, <1>2, <1>4
  <2>2. CASE chain # <<>>
    <3>1. qnode' = [qnode EXCEPT ![m_tail].next = t_head] /\ m_head' = m_head
      BY <1>1, <1>3, <2>2 DEF Hang
    <3>2. LinkedBy(qnode', chain', m_head', m_tail')
      <4>1. Distinct(chain) /\ CellsOf(chain) \cap CellsOf(loose) = {}
        BY DEF Linked
      <4>2. LinkedBy([qnode EXCEPT ![m_tail].next = t_head], chain \o loose, m_head, t_tail)
        BY <4>1, <1>2, <1>3, <1>4, <2>2, JoinedLists
      <4> QED
        BY <3>1, <4>2, <1>1
    <3>3. qnode' \in [Cells -> QNode]
      BY <3>1, <1>2, <1>6 DEF QNode, CellOrNull
    <3> QED
      BY <3>2, <3>3
  <2> QED
    BY <2>1, <2>2
<1>8. TypeOK'
  <2>1. m_head' \in CellOrNull /\ m_tail' \in CellOrNull /\ t_head' \in CellOrNull
    BY <1>1, <1>6 DEF TypeOK, CellOrNull
  <2>2. t_tail' \in CellOrNull /\ loose' \in Seq(Cells) /\ t_num' \in Nat
    BY <1>1, EmptySeq DEF CellOrNull
  <2>3. m_size' \in Nat
    BY <1>1, <1>3
  <2> QED
    BY <1>1, <1>5, <1>7, <2>1, <2>2, <2>3 DEF TypeOK
<1>9. CellsOf(<<>>) = {} /\ Distinct(<<>>) /\ LinkedBy(qnode', <<>>, NULL, NULL) /\ Len(<<>>) = 0
  BY DEF CellsOf, Distinct, LinkedBy
<1>10. Linked'
  BY <1>1, <1>3, <1>5, <1>7, <1>9, LinkedAsListsNext
<1>11. NothingLeaked'
  <2>1. CellsOf(chain)' = CellsOf(chain) \cup CellsOf(loose) /\ CellsOf(loose)' = {}
    BY <1>1, <1>5, <1>9 DEF CellsOf
  <2> QED
    BY <1>1, <2>1 DEF NothingLeaked
<1>12. Ahead'
  BY <1>1 DEF Ahead
<1> QED
  BY <1>8, <1>10, <1>11, <1>12

(* The destructor's loop: from each cell it frees, next leads to the next  *)
(* cell of the list, and from the last one out of the loop.                *)
LEMMA DestructorInv ==
    ASSUME IInv, Destroy \/ DestroyUninit \/ DestroyCell \/ Destroyed
    PROVE  IInv'
<1> USE DEF IInv
<1>1. /\ m_head' = m_head /\ m_tail' = m_tail /\ m_size' = m_size /\ qnode' = qnode
      /\ t_head' = t_head /\ t_tail' = t_tail /\ t_num' = t_num /\ out' = out
      /\ chain' = chain /\ loose' = loose
  BY DEF Destroy, DestroyUninit, DestroyCell, Destroyed, list, caller
<1>2. chain \in Seq(Cells) /\ loose \in Seq(Cells) /\ Len(chain) \in Nat
  BY LenProperties DEF TypeOK
<1>3. Linked'
  BY <1>1, LinkedAsLists, LinkedAsListsNext
<1>4. LinkedBy(qnode, chain, m_head, m_tail)
  BY LinkedAsLists
<1>5. CASE Destroy
  <2>1. phase = "alive" /\ phase' = "destroying" /\ current' = m_head /\ live' = live
    BY <1>5 DEF Destroy
  <2>2. TypeOK'
    BY <1>1, <2>1 DEF TypeOK
  <2>3. 1 \in 1 .. Len(chain) + 1 /\ {chain[i] : i \in 1 .. Len(chain)} = CellsOf(chain)
    BY <1>2 DEF CellsOf
  <2>4. m_head = IF 1 <= Len(chain) THEN chain[1] ELSE NULL
    BY <1>2, <1>4, EmptyMeansZero DEF LinkedBy
  <2>5. live = {chain[i] : i \in 1 .. Len(chain)} \cup CellsOf(loose)
    BY <2>1, <2>3 DEF NothingLeaked
  <2>6. Ahead'
    BY <1>1, <2>1, <2>3, <2>4, <2>5 DEF Ahead, CellsOf
  <2>7. NothingLeaked'
    BY <2>1 DEF NothingLeaked
  <2> QED
    BY <1>3, <2>2, <2>6, <2>7
<1>6. CASE DestroyUninit
  <2>1. phase' = "crashed" /\ current' = current /\ live' = live
    BY <1>6 DEF DestroyUninit
  <2> QED
    BY <1>1, <1>3, <2>1 DEF TypeOK, NothingLeaked, Ahead
<1>7. CASE DestroyCell
  <2>1. /\ phase = "destroying" /\ phase' = phase /\ current # NULL
        /\ live' = live \ {current} /\ current' = qnode[current].next
    BY <1>7 DEF DestroyCell
  <2>2. PICK k \in 1 .. Len(chain) + 1 :
          /\ current = IF k <= Len(chain) THEN chain[k] ELSE NULL
          /\ live = {chain[i] : i \in k .. Len(chain)} \cup CellsOf(loose)
    BY <2>1 DEF Ahead
  <2>3. k \in 1 .. Len(chain) /\ current = chain[k] /\ chain # <<>>
    BY <1>2, <2>1, <2>2, EmptyMeansZero
  <2>4. current \in Cells /\ current \in CellsOf(chain)
    BY <1>2, <2>3, ElementOfSeq DEF CellsOf
  <2>5. TypeOK'
    <3>1. qnode[current] \in QNode
      BY <2>4 DEF TypeOK
    <3>2. current' \in CellOrNull /\ live' \in SUBSET Cells
      BY <2>1, <3>1 DEF TypeOK, QNode
    <3> QED
      BY <1>1, <2>1, <3>2 DEF TypeOK
  <2>6. k + 1 \in 1 .. Len(chain) + 1
    BY <1>2, <2>3
  <2>7. current' = IF k + 1 <= Len(chain) THEN chain[k + 1] ELSE NULL
    <3>1. CASE k = Len(chain)
      <4>1. current = m_tail /\ qnode[m_tail].next = NULL
        BY <1>4, <2>3, <3>1 DEF LinkedBy
      <4> QED
        BY <1>2, <2>1, <3>1, <4>1
    <3>2. CASE k # Len(chain)
      <4>1. k \in 1 .. Len(chain) - 1 /\ k + 1 <= Len(chain)
        BY <1>2, <2>3, <3>2
      <4>2. qnode[chain[k]].next = chain[k + 1]
        BY <1>4, <2>3, <4>1 DEF LinkedBy
      <4> QED
        BY <2>1, <2>3, <4>1, <4>2
    <3> QED
      BY <3>1, <3>2
  <2>8. live' = {chain[i] : i \in k + 1 .. Len(chain)} \cup CellsOf(loose)
    <3>1. current \notin CellsOf(loose)
      BY <2>4 DEF Linked
    <3>2. \A i \in k .. Len(chain) : i = k \/ i \in k + 1 .. Len(chain)
      BY <1>2, <2>3
    <3>3. \A i \in k + 1 .. Len(chain) : i \in k .. Len(chain) /\ chain[i] # current
      <4>1. \A i \in k + 1 .. Len(chain) : i \in 1 .. Len(chain) /\ i # k /\ i \in k .. Len(chain)
        BY <1>2, <2>3
      <4> QED
        BY <2>3, <4>1 DEF Linked, Distinct
    <3>4. {chain[i] : i \in k .. Len(chain)} \ {current} = {chain[i] : i \in k + 1 .. Len(chain)}
      BY <2>3, <3>2, <3>3
    <3> QED
      BY <2>1, <2>2, <3>1, <3>4
  <2>9. Ahead'
    <3>1. \E j \in 1 .. Len(chain) + 1 :
            /\ current' = IF j <= Len(chain) THEN chain[j] ELSE NULL
            /\ live' = {chain[i] : i \in j .. Len(chain)} \cup CellsOf(loose)
      BY <2>6, <2>7, <2>8
    <3> QED
      BY <1>1, <3>1 DEF Ahead, CellsOf
  <2>10. NothingLeaked'
    BY <2>1 DEF NothingLeaked
  <2> QED
    BY <1>3, <2>5, <2>9, <2>10
<1>8. CASE Destroyed
  <2>1. phase = "destroying" /\ current = NULL /\ phase' = "destroyed"
        /\ current' = current /\ live' = live
    BY <1>8 DEF Destroyed
  <2>2. PICK k \in 1 .. Len(chain) + 1 :
          /\ current = IF k <= Len(chain) THEN chain[k] ELSE NULL
          /\ live = {chain[i] : i \in k .. Len(chain)} \cup CellsOf(loose)
    BY <2>1 DEF Ahead
  <2>3. ~ (k <= Len(chain))
    <3>1. k \in 1 .. Len(chain) => chain[k] \in Cells
      BY <1>2, ElementOfSeq
    <3> QED
      BY <1>2, <2>1, <2>2, <3>1, QueueAssumption
  <2>4. live = CellsOf(loose)
    BY <1>2, <2>2, <2>3
  <2>5. TypeOK'
    BY <1>1, <2>1 DEF TypeOK
  <2>6. NothingLeaked'
    BY <1>1, <2>1, <2>4 DEF NothingLeaked, CellsOf
  <2>7. Ahead'
    BY <2>1 DEF Ahead
  <2> QED
    BY <1>3, <2>5, <2>6, <2>7
<1> QED
  BY <1>5, <1>6, <1>7, <1>8

LEMMA StepInv == IInv /\ [Next]_vars => IInv'
<1> SUFFICES ASSUME IInv, [Next]_vars PROVE IInv'
  OBVIOUS
<1>1. CASE \E x \in Items : enqueue(x)
  BY <1>1, EnqueueInv
<1>2. CASE dequeue
  BY <1>2, DequeueInv
<1>3. CASE dump
  BY <1>3, DumpInv
<1>4. CASE load
  BY <1>4, LoadInv
<1>5. CASE Destroy \/ DestroyUninit \/ DestroyCell \/ Destroyed
  BY <1>5, DestructorInv
<1>6. CASE UNCHANGED vars
  <2>1. /\ m_head' = m_head /\ m_tail' = m_tail /\ m_size' = m_size /\ qnode' = qnode
        /\ t_head' = t_head /\ t_tail' = t_tail /\ t_num' = t_num /\ out' = out
        /\ chain' = chain /\ loose' = loose /\ live' = live
        /\ phase' = phase /\ current' = current
    BY <1>6 DEF vars, list, caller, dstr
  <2>2. TypeOK'
    BY <2>1 DEF IInv, TypeOK
  <2>3. Linked'
    BY <2>1, LinkedAsLists, LinkedAsListsNext DEF IInv
  <2>4. NothingLeaked' /\ Ahead'
    BY <2>1 DEF IInv, NothingLeaked, Ahead, CellsOf
  <2> QED
    BY <2>2, <2>3, <2>4 DEF IInv
<1> QED
  BY <1>1, <1>2, <1>3, <1>4, <1>5, <1>6 DEF Next

LEMMA Invariance == Spec => []IInv
BY InitInv, StepInv, PTL DEF Spec

(* The members, cells and the caller's pointers stay in their types; in    *)
(* particular m_size never wraps below zero.                               *)
THEOREM TypeCorrect == Spec => []TypeOK
<1>1. IInv => TypeOK
  BY DEF IInv
<1> QED
  BY <1>1, Invariance, PTL

(* For every heap and every sequence of calls, following next from m_head  *)
(* passes exactly m_size cells in arrival order and ends at m_tail, the    *)
(* same holds of a dumped list, and the two never share a cell.            *)
THEOREM LinkedAlways == Spec => []Linked
<1>1. IInv => Linked
  BY DEF IInv
<1> QED
  BY <1>1, Invariance, PTL

(* No call leaks a cell or frees one that is still linked, and ~Queue      *)
(* frees exactly the cells of its list, whatever its length.               *)
THEOREM NothingEverLeaked == Spec => []NothingLeaked
<1>1. IInv => NothingLeaked
  BY DEF IInv
<1> QED
  BY <1>1, Invariance, PTL

-----------------------------------------------------------------------------
(* The data a list shows.                                                  *)

LEMMA DataType ==
    ASSUME NEW q, NEW s \in Seq(Cells)
    PROVE  /\ Len(DataIn(q, s)) = Len(s)
           /\ \A i \in 1 .. Len(s) : DataIn(q, s)[i] = q[s[i]].data
           /\ DataIn(q, s) \in Seq({q[c].data : c \in Cells})
<1>1. Len(s) \in Nat
  BY LenProperties
<1>2. \A i \in 1 .. Len(s) : s[i] \in Cells
  BY ElementOfSeq
<1>3. DataIn(q, s) \in [1 .. Len(s) -> {q[c].data : c \in Cells}]
  BY <1>2 DEF DataIn
<1>4. DataIn(q, s) \in Seq({q[c].data : c \in Cells})
  BY <1>1, <1>3, SeqDef
<1>5. Len(DataIn(q, s)) = Len(s)
  BY <1>1, <1>3, <1>4, LenProperties DEF DataIn
<1> QED
  BY <1>4, <1>5 DEF DataIn

LEMMA SameData ==
    ASSUME NEW q, NEW r, NEW s \in Seq(Cells),
           \A i \in 1 .. Len(s) : r[s[i]].data = q[s[i]].data
    PROVE  DataIn(r, s) = DataIn(q, s)
BY DEF DataIn

LEMMA JoinedData ==
    ASSUME NEW q, NEW s \in Seq(Cells), NEW u \in Seq(Cells)
    PROVE  DataIn(q, s \o u) = DataIn(q, s) \o DataIn(q, u)
<1> DEFINE D == {q[c].data : c \in Cells}
           w == s \o u
           a == DataIn(q, s)
           b == DataIn(q, u)
           d == DataIn(q, w)
<1>1. /\ Len(s) \in Nat /\ Len(u) \in Nat /\ Len(w) = Len(s) + Len(u)
      /\ \A i \in 1 .. Len(s) : w[i] = s[i]
      /\ \A i \in Len(s) + 1 .. Len(s) + Len(u) : w[i] = u[i - Len(s)]
      /\ w \in Seq(Cells)
  BY ConcatProperties, LenProperties
<1>2. /\ a \in Seq(D) /\ Len(a) = Len(s) /\ \A i \in 1 .. Len(s) : a[i] = q[s[i]].data
      /\ b \in Seq(D) /\ Len(b) = Len(u) /\ \A i \in 1 .. Len(u) : b[i] = q[u[i]].data
      /\ d \in Seq(D) /\ Len(d) = Len(w) /\ \A i \in 1 .. Len(w) : d[i] = q[w[i]].data
  <2> HIDE DEF w
  <2>1. a \in Seq(D) /\ Len(a) = Len(s) /\ \A i \in 1 .. Len(s) : a[i] = q[s[i]].data
    BY DataType
  <2>2. b \in Seq(D) /\ Len(b) = Len(u) /\ \A i \in 1 .. Len(u) : b[i] = q[u[i]].data
    BY DataType
  <2>3. d \in Seq(D) /\ Len(d) = Len(w) /\ \A i \in 1 .. Len(w) : d[i] = q[w[i]].data
    BY <1>1, DataType
  <2> QED
    BY <2>1, <2>2, <2>3
<1> DEFINE e == a \o b
<1> HIDE DEF D, w, a, b, d
<1>3. /\ e \in Seq(D) /\ Len(e) = Len(s) + Len(u)
      /\ \A i \in 1 .. Len(s) : e[i] = a[i]
      /\ \A i \in Len(s) + 1 .. Len(s) + Len(u) : e[i] = b[i - Len(s)]
  <2>1. a \in Seq(D) /\ b \in Seq(D) /\ Len(a) = Len(s) /\ Len(b) = Len(u)
    BY <1>2
  <2>2. /\ a \o b \in Seq(D) /\ Len(a \o b) = Len(a) + Len(b)
        /\ \A i \in 1 .. Len(a) + Len(b) :
              (a \o b)[i] = IF i <= Len(a) THEN a[i] ELSE b[i - Len(a)]
    BY <2>1, ConcatProperties
  <2>3. Len(s) \in Nat /\ Len(u) \in Nat
    BY LenProperties
  <2> HIDE DEF e
  <2>4. \A i \in 1 .. Len(s) : i \in 1 .. Len(s) + Len(u) /\ i <= Len(s)
    BY <2>3
  <2>5. \A i \in Len(s) + 1 .. Len(s) + Len(u) : i \in 1 .. Len(s) + Len(u) /\ ~ (i <= Len(s))
    BY <2>3
  <2> QED
    BY <2>1, <2>2, <2>4, <2>5 DEF e
<1> HIDE DEF e
<1>4. \A i \in 1 .. Len(w) : d[i] = e[i]
  <2>1. SUFFICES ASSUME NEW i \in 1 .. Len(w) PROVE d[i] = e[i]
    OBVIOUS
  <2>2. CASE i \in 1 .. Len(s)
    BY <2>2, <1>1, <1>2, <1>3
  <2>3. CASE i \notin 1 .. Len(s)
    <3>1. i \in Len(s) + 1 .. Len(s) + Len(u) /\ i - Len(s) \in 1 .. Len(u)
      BY <2>3, <1>1
    <3> QED
      BY <3>1, <1>1, <1>2, <1>3
  <2> QED
    BY <2>2, <2>3
<1>5. d = e
  BY <1>1, <1>2, <1>3, <1>4, SeqEqual
<1> QED
  BY <1>5 DEF d, e, a, b, w

LEMMA ShortenedData ==
    ASSUME NEW q, NEW s \in Seq(Cells), s # <<>>
    PROVE  /\ DataIn(q, s) # <<>>
           /\ Head(DataIn(q, s)) = q[s[1]].data
           /\ DataIn(q, Tail(s)) = Tail(DataIn(q, s))
<1> DEFINE D == {q[c].data : c \in Cells}
           u == Tail(s)
           a == DataIn(q, s)
           d == DataIn(q, u)
<1>1. /\ Len(s) \in Nat \ {0} /\ u \in Seq(Cells) /\ Len(u) = Len(s) - 1
      /\ \A i \in 1 .. Len(u) : u[i] = s[i + 1]
  BY EmptySeq, LenProperties, HeadTailProperties
<1>2. /\ a \in Seq(D) /\ Len(a) = Len(s) /\ \A i \in 1 .. Len(s) : a[i] = q[s[i]].data
      /\ d \in Seq(D) /\ Len(d) = Len(u) /\ \A i \in 1 .. Len(u) : d[i] = q[u[i]].data
  BY <1>1, DataType
<1> DEFINE e == Tail(a)
<1> HIDE DEF D, u, a, d
<1>3. a # <<>>
  BY <1>1, <1>2, EmptySeq
<1>4. /\ Head(a) = a[1] /\ e \in Seq(D) /\ Len(e) = Len(a) - 1
      /\ \A i \in 1 .. Len(e) : e[i] = a[i + 1]
  BY <1>2, <1>3, HeadTailProperties
<1> HIDE DEF e
<1>5. a[1] = q[s[1]].data
  BY <1>1, <1>2
<1>6. \A i \in 1 .. Len(u) : d[i] = e[i]
  <2>1. SUFFICES ASSUME NEW i \in 1 .. Len(u) PROVE d[i] = e[i]
    OBVIOUS
  <2>2. i + 1 \in 1 .. Len(s) /\ i \in 1 .. Len(e)
    BY <1>1, <1>2, <1>4
  <2> QED
    BY <2>2, <1>1, <1>2, <1>4
<1>7. d = e
  BY <1>1, <1>2, <1>4, <1>6, SeqEqual
<1> QED
  BY <1>3, <1>4, <1>5, <1>7 DEF a, d, e, u

-----------------------------------------------------------------------------
(* Every operation is the one step Fifo says it is.                        *)

MappedItems == DataIn(qnode, chain)
MappedLoose == DataIn(qnode, loose)

LEMMA Mapping ==
    /\ DataOf(chain) = MappedItems /\ DataOf(loose) = MappedLoose
    /\ DataOf(chain)' = MappedItems' /\ DataOf(loose)' = MappedLoose'
BY DEF DataOf, DataIn, MappedItems, MappedLoose

LEMMA InitMaps == Init => Abstract!Init
<1> SUFFICES ASSUME Init PROVE Abstract!Init
  OBVIOUS
<1>1. DataOf(chain) = <<>> /\ DataOf(loose) = <<>>
  BY DEF Init, DataOf
<1> QED
  BY <1>1 DEF Init, Abstract!Init

LEMMA EnqueueMaps ==
    ASSUME IInv, NEW x \in Items, enqueue(x)
    PROVE  Abstract!Put(x)
<1>1. PICK n \in Cells \ live :
        /\ qnode' = Hang([qnode EXCEPT ![n] = [data |-> x, next |-> NULL]], n)
        /\ chain' = Append(chain, n)
  BY DEF enqueue
<1>2. phase = "alive" /\ loose' = loose /\ out' = out
  BY DEF enqueue, caller
<1>3. chain \in Seq(Cells) /\ loose \in Seq(Cells) /\ qnode \in [Cells -> QNode]
  BY DEF IInv, TypeOK
<1>4. /\ \A i \in 1 .. Len(chain) : chain[i] \in Cells \ {n}
      /\ \A i \in 1 .. Len(loose) : loose[i] \in Cells \ {n}
  BY <1>2, <1>3, ElementOfSeq DEF IInv, NothingLeaked, CellsOf
<1>5. qnode'[n].data = x /\ \A c \in Cells \ {n} : qnode'[c].data = qnode[c].data
  BY <1>1, <1>3 DEF Hang, QNode
<1>6. DataIn(qnode', chain) = MappedItems /\ MappedLoose' = MappedLoose
  BY <1>2, <1>3, <1>4, <1>5, SameData DEF MappedItems, MappedLoose
<1>7. DataIn(qnode', <<n>>) = <<x>>
  BY <1>5 DEF DataIn
<1>8. chain' = chain \o <<n>> /\ <<n>> \in Seq(Cells)
  BY <1>1, <1>3, AppendIsConcat
<1>9. MappedItems' = MappedItems \o <<x>>
  <2>1. DataIn(qnode', chain \o <<n>>) = DataIn(qnode', chain) \o DataIn(qnode', <<n>>)
    BY <1>3, <1>8, JoinedData
  <2> QED
    BY <2>1, <1>6, <1>7, <1>8 DEF MappedItems
<1>10. x \in {qnode'[c].data : c \in Cells} /\ MappedItems \in Seq({qnode'[c].data : c \in Cells})
  BY <1>3, <1>5, <1>6, DataType
<1>11. MappedItems' = Append(MappedItems, x)
  BY <1>9, <1>10, AppendIsConcat
<1> QED
  BY <1>2, <1>6, <1>11, Mapping DEF Abstract!Put

LEMMA DequeueMaps ==
    ASSUME IInv, dequeue
    PROVE  Abstract!Take("caller")
<1>1. /\ m_size > 0 /\ out' = qnode[m_head].data /\ chain' = Tail(chain)
      /\ qnode' = qnode /\ loose' = loose
  BY DEF dequeue, dstr, getSize
<1>2. chain \in Seq(Cells) /\ m_size = Len(chain) /\ LinkedBy(qnode, chain, m_head, m_tail)
  BY LinkedAsLists DEF IInv, TypeOK, Linked
<1>3. chain # <<>> /\ m_head = chain[1]
  BY <1>1, <1>2, EmptyMeansZero, EndsAreCells
<1>4. /\ MappedItems # <<>> /\ Head(MappedItems) = out'
      /\ MappedItems' = Tail(MappedItems) /\ MappedLoose' = MappedLoose
  BY <1>1, <1>2, <1>3, ShortenedData DEF MappedItems, MappedLoose
<1> QED
  BY <1>4, Mapping DEF Abstract!Take

LEMMA DumpMaps ==
    ASSUME IInv, dump
    PROVE  Abstract!TakeAll("caller")
<1>1. t_num = 0 /\ loose' = chain /\ chain' = <<>> /\ qnode' = qnode /\ out' = out
  BY DEF dump
<1>2. loose = <<>>
  BY <1>1, EmptyMeansZero DEF IInv, TypeOK, Linked
<1>3. MappedLoose = <<>> /\ MappedItems' = <<>> /\ MappedLoose' = MappedItems
  BY <1>1, <1>2 DEF MappedItems, MappedLoose, DataIn
<1> QED
  BY <1>1, <1>3, Mapping DEF Abstract!TakeAll

LEMMA LoadMaps ==
    ASSUME IInv, load
    PROVE  Abstract!PutAll("caller")
<1>1. chain' = chain \o loose /\ loose' = <<>> /\ qnode' = Hang(qnode, t_head) /\ out' = out
  BY DEF load
<1>2. chain \in Seq(Cells) /\ loose \in Seq(Cells) /\ qnode \in [Cells -> QNode]
  BY DEF IInv, TypeOK
<1>3. \A c \in Cells : qnode'[c].data = qnode[c].data
  BY <1>1, <1>2 DEF Hang, QNode
<1>4. \A i \in 1 .. Len(chain') : chain'[i] \in Cells
  BY <1>1, <1>2, ConcatProperties, ElementOfSeq
<1>5. chain' \in Seq(Cells)
  BY <1>1, <1>2, ConcatProperties
<1>6. MappedItems' = DataIn(qnode, chain')
  BY <1>3, <1>4, <1>5, SameData DEF MappedItems
<1>7. MappedItems' = MappedItems \o MappedLoose /\ MappedLoose' = <<>>
  <2>1. DataIn(qnode, chain \o loose) = DataIn(qnode, chain) \o DataIn(qnode, loose)
    BY <1>2, JoinedData
  <2>2. DataIn(qnode', <<>>) = <<>>
    BY DEF DataIn
  <2> QED
    BY <2>1, <2>2, <1>1, <1>6 DEF MappedItems, MappedLoose
<1> QED
  BY <1>1, <1>7, Mapping DEF Abstract!PutAll

LEMMA StutterMaps ==
    ASSUME UNCHANGED <<qnode, chain, loose, out>>
    PROVE  UNCHANGED Abstract!vars
<1>1. MappedItems' = MappedItems /\ MappedLoose' = MappedLoose
  BY DEF MappedItems, MappedLoose
<1> QED
  BY <1>1, Mapping DEF Abstract!vars

LEMMA StepMaps == IInv /\ [Next]_vars => [Abstract!Next]_(Abstract!vars)
<1> SUFFICES ASSUME IInv, [Next]_vars PROVE [Abstract!Next]_(Abstract!vars)
  OBVIOUS
<1>1. CASE \E x \in Items : enqueue(x)
  BY <1>1, EnqueueMaps DEF Abstract!Next
<1>2. CASE dequeue
  BY <1>2, DequeueMaps DEF Abstract!Next
<1>3. CASE dump
  BY <1>3, DumpMaps DEF Abstract!Next
<1>4. CASE load
  BY <1>4, LoadMaps DEF Abstract!Next
<1>5. CASE Destroy \/ DestroyUninit \/ DestroyCell \/ Destroyed
  <2>1. UNCHANGED <<qnode, chain, loose, out>>
    BY <1>5 DEF Destroy, DestroyUninit, DestroyCell, Destroyed, caller
  <2> QED
    BY <2>1, StutterMaps
<1>6. CASE UNCHANGED vars
  <2>1. UNCHANGED <<qnode, chain, loose, out>>
    BY <1>6 DEF vars, caller
  <2> QED
    BY <2>1, StutterMaps
<1> QED
  BY <1>1, <1>2, <1>3, <1>4, <1>5, <1>6 DEF Next

(* Queue<T> is a first-in first-out list: for every heap, every set of     *)
(* items and every sequence of calls, each of enqueue, dequeue, dump and   *)
(* load is one step of Fifo, and the destructor shows its user nothing.    *)
THEOREM Implementation == Spec => ImplementsFifo
<1>1. Init => Abstract!Init
  BY InitMaps
<1>2. IInv /\ [Next]_vars => [Abstract!Next]_(Abstract!vars)
  BY StepMaps
<1> QED
  BY <1>1, <1>2, Invariance, PTL DEF Spec, ImplementsFifo, Abstract!Spec
=============================================================================
