-------------------------- MODULE JudoLifecycleProofs --------------------------
(***************************************************************************)
(* Theorems about who owns what in a JudoServer from its constructor to    *)
(* the end of its destructor, for any number of descriptors, nodes and     *)
(* objects: nothing is freed twice through pointers that were set, and     *)
(* nothing is lost but on the paths of the source that lose something.     *)
(*                                                                         *)
(* Neither is inductive.  The inductive invariant adds that an object      *)
(* hangs on one node only and was not lost before, that freed and unused   *)
(* cells point nowhere, that the entries are distinct on both sides with   *)
(* the listener's node at the listener's entry only, and the bookkeeping   *)
(* of the destructor between two turns of its loop, of which the property  *)
(* NothingLost says nothing.                                               *)
(***************************************************************************)
EXTENDS JudoLifecycle, FiniteSetTheorems, TLAPS

(* The lemmas about add and remove, for m_ssl_nodes. *)
D == INSTANCE DualDynamicArrayProofs
    WITH Keys <- Fds \cup {Listener}, Values <- Nodes \cup {ListNode}

(* The four parts of TypeOK. *)
ModeOK ==
    /\ life \in {"idle", "running", "destroying", "destroyed", "undefined", "corrupt"}
    /\ ssl_enabled \in BOOLEAN /\ required \in BOOLEAN
    /\ m_active \in BOOLEAN /\ readable \in BOOLEAN
Storage == IF life = "destroyed" THEN {} ELSE 0 .. m_cap - 1
ArrayOK ==
    /\ m_size \in Nat /\ m_cap \in Nat \ {0} /\ m_size <= m_cap
    /\ m_first_array \in [Storage -> Fds \cup {Listener, NoValue}]
    /\ m_second_array \in [Storage -> Cells \cup {NoValue}]
MakingOK ==
    /\ new_node \in Nodes \cup {NoNode} /\ fp \in Fds \cup {NoFd}
    /\ i = -1 \/ (life \in {"destroying", "undefined", "corrupt"} /\ i = m_size - 1)
    /\ open \in SUBSET (Fds \cup {Listener})
Losses == {"node"} \X Nodes \cup {"ssl", "ctx"} \X Objects \cup {"fd"} \X Fds
NodesOK ==
    /\ live \in SUBSET Cells /\ secure \in SUBSET live
    /\ ssl \in [Cells -> Objects \cup {NULL, Stale}]
    /\ ssl_ctx \in [Cells -> Objects \cup {NULL, Stale}]
    /\ SSLs \in SUBSET Objects /\ CTXs \in SUBSET Objects
    /\ lost \in SUBSET Losses /\ unset \in BOOLEAN

(* The objects objs are those that the nodes alive point to, one each, and *)
(* those that are gone; a cell that is no node points nowhere.             *)
Hangs(pointer, objs, alive, gone) ==
    /\ objs = ({pointer[n] : n \in alive} \cap Objects) \cup gone
    /\ {pointer[n] : n \in alive} \cap gone = {} /\ gone \subseteq Objects
    /\ \A n, k \in alive : pointer[n] \in Objects /\ pointer[n] = pointer[k] => n = k
    /\ \A n \in Cells \ alive : pointer[n] = NULL

LostIn(kind, from) == {l[2] : l \in {x \in from : x[1] = kind}}
LostNodes == LostIn("node", lost)
LostFds == LostIn("fd", lost)

Hanging ==
    /\ Hangs(ssl, SSLs, live, LostIn("ssl", lost))
    /\ Hangs(ssl_ctx, CTXs, live, LostIn("ctx", lost))
Secured == \A n \in secure : ssl[n] \in Objects /\ ssl_ctx[n] \in Objects

(* No node and no descriptor has two entries. *)
Distinct ==
    /\ \A k \in Entries : m_first_array[k] # NoValue /\ m_second_array[k] # NoValue
    /\ \A j, k \in Entries :
        (m_first_array[j] = m_first_array[k] \/ m_second_array[j] = m_second_array[k]) => j = k
    /\ \A k \in Entries : m_first_array[k] = Listener <=> m_second_array[k] = ListNode

KeysHeld == {m_first_array[k] : k \in Entries}

Array ==
    /\ life = "corrupt" => unset
    /\ life # "destroyed" => Distinct
    /\ life \notin {"destroyed", "undefined", "corrupt"} => Held \subseteq live

Making ==
    /\ required => ssl_enabled
    /\ new_node = NoNode => fp = NoFd
    /\ new_node # NoNode => life \in {"idle", "running"}

(* Every open descriptor has an owner or is lost. *)
OpenKnown ==
    /\ open \ {Listener} = (KeysHeld \ {Listener}) \cup ({fp} \ {NoFd}) \cup LostFds
    /\ fp \notin KeysHeld /\ (KeysHeld \cup {fp}) \cap LostFds = {}

(* While the server is used; while it is destroyed; afterwards. *)
Used ==
    life \in {"idle", "running"} =>
        /\ live = Held \cup {ListNode} \cup ({new_node} \ {NoNode}) \cup LostNodes
        /\ (Held \cup {new_node}) \cap LostNodes = {} /\ new_node \notin Held
        /\ OpenKnown
Destroying ==
    life = "destroying" =>
        /\ live \ {ListNode} = (Held \ {ListNode}) \cup LostNodes
        /\ Held \cap LostNodes = {}
        /\ i = m_size - 1
Destroyed ==
    life = "destroyed" =>
        m_size = 0 /\ Listener \notin open /\ live \ {ListNode} = LostNodes

Objected == NodesOK /\ Hanging /\ Secured
Owned == Array /\ Making /\ Used /\ Destroying /\ Destroyed
IInv == ModeOK /\ ArrayOK /\ MakingOK /\ Objected /\ Owned

-----------------------------------------------------------------------------
(* Objects on nodes.                                                       *)

(* A fresh object takes the place of what n pointed to: that is gone. *)
LEMMA HangsSet ==
    ASSUME NEW p \in [Cells -> Objects \cup {NULL, Stale}], NEW objs, NEW alive \in SUBSET Cells,
           NEW gone, Hangs(p, objs, alive, gone),
           NEW n \in Cells, NEW o \in Objects \ objs
    PROVE  Hangs([p EXCEPT ![n] = o], objs \cup {o}, alive \cup {n},
                 gone \cup ({p[n]} \cap Objects))
<1> DEFINE q == [p EXCEPT ![n] = o]
           now == alive \cup {n}
           over == {p[n]} \cap Objects
           was == {p[x] : x \in alive} \cap Objects
           is == {q[x] : x \in now} \cap Objects
<1>1. q[n] = o /\ \A x \in Cells \ {n} : q[x] = p[x]
  OBVIOUS
<1>2. /\ objs = was \cup gone /\ {p[x] : x \in alive} \cap gone = {} /\ gone \subseteq Objects
      /\ \A x, k \in alive : p[x] \in Objects /\ p[x] = p[k] => x = k
      /\ \A x \in Cells \ alive : p[x] = NULL
  BY DEF Hangs
<1>3. NULL \notin Objects
  BY LifecycleAssumption
<1>4. n \notin alive => over = {}
  BY <1>2, <1>3
<1>5. n \in alive => over \subseteq was
  OBVIOUS
<1> HIDE DEF q
<1>6. is = (was \ over) \cup {o}
  <2>1. ASSUME NEW x \in is
        PROVE  x \in (was \ over) \cup {o}
    <3>1. PICK m \in now : q[m] = x
      OBVIOUS
    <3>2. CASE m = n
      BY <3>1, <3>2, <1>1
    <3>3. CASE m # n
      BY <3>1, <3>3, <1>1, <1>2, <1>4
    <3> QED
      BY <3>2, <3>3
  <2>2. ASSUME NEW x \in (was \ over) \cup {o}
        PROVE  x \in is
    <3>1. CASE x = o
      BY <3>1, <1>1
    <3>2. CASE x # o
      <4>1. PICK m \in alive : p[m] = x
        BY <3>2
      <4>2. m # n
        BY <4>1, <3>2
      <4> QED
        BY <4>1, <4>2, <3>2, <1>1
    <3> QED
      BY <3>1, <3>2
  <2> QED
    BY <2>1, <2>2
<1>7. objs \cup {o} = is \cup (gone \cup over)
  BY <1>2, <1>4, <1>5, <1>6
<1>8. {q[x] : x \in now} \cap (gone \cup over) = {}
  <2>1. is \cap (gone \cup over) = {}
    BY <1>2, <1>4, <1>5, <1>6
  <2> QED
    BY <2>1, <1>2
<1>9. \A x, k \in now : q[x] \in Objects /\ q[x] = q[k] => x = k
  BY <1>1, <1>2
<1>10. \A x \in Cells \ now : q[x] = NULL
  BY <1>1, <1>2
<1> HIDE DEF now, over
<1> QED
  <2>1. gone \cup over \subseteq Objects
    BY <1>2 DEF over
  <2>2. Hangs(q, objs \cup {o}, now, gone \cup over)
    BY <2>1, <1>7, <1>8, <1>9, <1>10 DEF Hangs
  <2> QED
    BY <2>2 DEF q, now, over

(* A new node with a pointer that nobody set. *)
LEMMA HangsUnset ==
    ASSUME NEW p \in [Cells -> Objects \cup {NULL, Stale}], NEW objs, NEW alive \in SUBSET Cells,
           NEW gone, Hangs(p, objs, alive, gone),
           NEW n \in Cells \ alive, NEW s, s \notin Objects
    PROVE  Hangs([p EXCEPT ![n] = s], objs, alive \cup {n}, gone)
<1> DEFINE q == [p EXCEPT ![n] = s]
<1>1. q[n] = s /\ \A x \in Cells \ {n} : q[x] = p[x]
  OBVIOUS
<1>2. /\ objs = ({p[x] : x \in alive} \cap Objects) \cup gone
      /\ {p[x] : x \in alive} \cap gone = {} /\ gone \subseteq Objects
      /\ \A x, k \in alive : p[x] \in Objects /\ p[x] = p[k] => x = k
      /\ \A x \in Cells \ alive : p[x] = NULL
  BY DEF Hangs
<1> HIDE DEF q
<1>3. {q[x] : x \in alive \cup {n}} = {p[x] : x \in alive} \cup {s}
  BY <1>1
<1>4. \A x, k \in alive \cup {n} : q[x] \in Objects /\ q[x] = q[k] => x = k
  BY <1>1, <1>2
<1>5. \A x \in Cells \ (alive \cup {n}) : q[x] = NULL
  BY <1>1, <1>2
<1>6. /\ objs = ({q[x] : x \in alive \cup {n}} \cap Objects) \cup gone
      /\ {q[x] : x \in alive \cup {n}} \cap gone = {}
  BY <1>2, <1>3
<1>7. Hangs(q, objs, alive \cup {n}, gone)
  BY <1>2, <1>4, <1>5, <1>6 DEF Hangs
<1> QED
  BY <1>7 DEF q

(* A node is freed with what it points to, and was the only one to point   *)
(* there: nothing is freed twice.                                          *)
LEMMA HangsFreed ==
    ASSUME NEW p \in [Cells -> Objects \cup {NULL, Stale}], NEW objs, NEW alive \in SUBSET Cells,
           NEW gone, Hangs(p, objs, alive, gone), NEW n \in alive
    PROVE  /\ p[n] \in objs \cup {NULL, Stale}
           /\ Hangs([p EXCEPT ![n] = NULL], objs \ {p[n]}, alive \ {n}, gone)
<1> DEFINE q == [p EXCEPT ![n] = NULL]
           is == {q[x] : x \in alive \ {n}}
           was == {p[x] : x \in alive}
<1>1. q[n] = NULL /\ \A x \in Cells \ {n} : q[x] = p[x]
  OBVIOUS
<1>2. /\ objs = (was \cap Objects) \cup gone
      /\ was \cap gone = {} /\ gone \subseteq Objects
      /\ \A x, k \in alive : p[x] \in Objects /\ p[x] = p[k] => x = k
      /\ \A x \in Cells \ alive : p[x] = NULL
  BY DEF Hangs
<1>3. p[n] \in was /\ p[n] \in Objects \cup {NULL, Stale}
  OBVIOUS
<1> HIDE DEF q
<1>4. is \subseteq was
  BY <1>1
<1>5. is \cap Objects = (was \cap Objects) \ {p[n]}
  <2>1. \A x \in is : x \in Objects => x # p[n]
    BY <1>1, <1>2
  <2>2. \A x \in was : x # p[n] => x \in is
    BY <1>1
  <2> QED
    BY <2>1, <2>2, <1>4
<1>6. \A x, k \in alive \ {n} : q[x] \in Objects /\ q[x] = q[k] => x = k
  BY <1>1, <1>2
<1>7. \A x \in Cells \ (alive \ {n}) : q[x] = NULL
  BY <1>1, <1>2
<1> HIDE DEF is, was
<1>8. /\ objs \ {p[n]} = (is \cap Objects) \cup gone
      /\ is \cap gone = {}
  BY <1>2, <1>3, <1>4, <1>5
<1>9. Hangs(q, objs \ {p[n]}, alive \ {n}, gone)
  BY <1>2, <1>6, <1>7, <1>8 DEF Hangs, is
<1> QED
  BY <1>2, <1>3, <1>9 DEF q

(* What is lost, kind by kind. *)
LEMMA LostMore ==
    ASSUME NEW kind, NEW from, NEW more
    PROVE  LostIn(kind, from \cup more) = LostIn(kind, from) \cup LostIn(kind, more)
BY DEF LostIn

LEMMA LostOne ==
    ASSUME NEW kind, NEW other, NEW x
    PROVE  LostIn(kind, {<<other, x>>}) = IF kind = other THEN {x} ELSE {}
<1> DEFINE l == <<other, x>>
<1>1. l[1] = other /\ l[2] = x
  OBVIOUS
<1> HIDE DEF l
<1>2. LostIn(kind, {l}) = IF kind = other THEN {x} ELSE {}
  BY <1>1 DEF LostIn
<1> QED
  BY <1>2 DEF l

LEMMA LostNone ==
    ASSUME NEW kind
    PROVE  LostIn(kind, {}) = {}
BY DEF LostIn

LEMMA LostOverwritten ==
    ASSUME NEW kind, NEW other, NEW x
    PROVE  LostIn(kind, Overwritten(x, other)) = IF kind = other THEN {x} \cap Objects ELSE {}
<1>1. CASE x \in Objects
  <2>1. Overwritten(x, other) = {<<other, x>>} /\ {x} \cap Objects = {x}
    BY <1>1 DEF Overwritten
  <2>2. LostIn(kind, {<<other, x>>}) = IF kind = other THEN {x} ELSE {}
    BY LostOne
  <2> QED
    BY <2>1, <2>2
<1>2. CASE x \notin Objects
  BY <1>2, LostNone DEF Overwritten
<1> QED
  BY <1>1, <1>2

-----------------------------------------------------------------------------
(* What the parts of the handlers do to nodes and objects.                 *)

LEMMA FillEffect ==
    ASSUME Objected, NEW n \in Cells, NEW o, NEW good \in BOOLEAN, Fill(n, o, good),
           live' = live \cup {n}, secure' \in SUBSET (secure \cup {n}),
           good \/ (n \in live /\ secure' = secure)
    PROVE  Objected' /\ LostNodes' = LostNodes /\ LostFds' = LostFds
<1> DEFINE c == Overwritten(ssl_ctx[n], "ctx")
           s == IF good THEN Overwritten(ssl[n], "ssl") ELSE {}
<1>1. /\ o \in Objects \ CTXs /\ o \in Objects \ SSLs
      /\ ssl_ctx' = [ssl_ctx EXCEPT ![n] = o] /\ CTXs' = CTXs \cup {o}
      /\ good => ssl' = [ssl EXCEPT ![n] = o] /\ SSLs' = SSLs \cup {o}
      /\ ~good => ssl' = ssl /\ SSLs' = SSLs
      /\ lost' = (lost \cup c) \cup s
  BY DEF Fill
<1>2. NodesOK /\ Hanging /\ Secured
  BY DEF Objected
<1>3. /\ live \in SUBSET Cells /\ secure \in SUBSET live
      /\ ssl \in [Cells -> Objects \cup {NULL, Stale}]
      /\ ssl_ctx \in [Cells -> Objects \cup {NULL, Stale}]
      /\ SSLs \in SUBSET Objects /\ CTXs \in SUBSET Objects
      /\ lost \in SUBSET Losses
  BY <1>2 DEF NodesOK
<1>4. c \in SUBSET ({"ctx"} \X Objects) /\ s \in SUBSET ({"ssl"} \X Objects)
  BY DEF Overwritten
<1>5. /\ LostIn("ctx", c) = {ssl_ctx[n]} \cap Objects
      /\ LostIn("ssl", c) = {} /\ LostIn("node", c) = {} /\ LostIn("fd", c) = {}
  BY LostOverwritten
<1>6. /\ LostIn("ssl", s) = IF good THEN {ssl[n]} \cap Objects ELSE {}
      /\ LostIn("ctx", s) = {} /\ LostIn("node", s) = {} /\ LostIn("fd", s) = {}
  BY LostOverwritten, LostNone
<1> HIDE DEF c, s
<1>7. /\ LostIn("ctx", lost') = LostIn("ctx", lost) \cup ({ssl_ctx[n]} \cap Objects)
      /\ LostIn("ssl", lost') =
           IF good THEN LostIn("ssl", lost) \cup ({ssl[n]} \cap Objects) ELSE LostIn("ssl", lost)
      /\ LostIn("node", lost') = LostIn("node", lost)
      /\ LostIn("fd", lost') = LostIn("fd", lost)
  <2>1. \A kind, a, b : LostIn(kind, a \cup b) = LostIn(kind, a) \cup LostIn(kind, b)
    BY LostMore
  <2>2. \A kind : LostIn(kind, lost \cup c) = LostIn(kind, lost) \cup LostIn(kind, c)
    BY <2>1
  <2>3. \A kind : LostIn(kind, lost') = LostIn(kind, lost \cup c) \cup LostIn(kind, s)
    BY <2>1, <1>1
  <2>4. LostIn("ctx", lost') = LostIn("ctx", lost) \cup ({ssl_ctx[n]} \cap Objects)
    BY <2>2, <2>3, <1>5, <1>6
  <2>5. LostIn("node", lost') = LostIn("node", lost) /\ LostIn("fd", lost') = LostIn("fd", lost)
    BY <2>2, <2>3, <1>5, <1>6
  <2>6. LostIn("ssl", lost') = LostIn("ssl", lost) \cup LostIn("ssl", s)
    BY <2>2, <2>3, <1>5
  <2>7. CASE good
    BY <2>4, <2>5, <2>6, <2>7, <1>6
  <2>8. CASE ~good
    BY <2>4, <2>5, <2>6, <2>8, <1>6
  <2> QED
    BY <2>7, <2>8
<1>8. NodesOK'
  <2>1. live' \in SUBSET Cells /\ secure' \in SUBSET live'
    BY <1>3
  <2>2. ssl' \in [Cells -> Objects \cup {NULL, Stale}] /\ SSLs' \in SUBSET Objects
    BY <1>1, <1>3
  <2>3. ssl_ctx' \in [Cells -> Objects \cup {NULL, Stale}] /\ CTXs' \in SUBSET Objects
    BY <1>1, <1>3
  <2>4. lost' \in SUBSET Losses
    BY <1>1, <1>3, <1>4 DEF Losses
  <2>5. unset' \in BOOLEAN
    BY <1>2 DEF NodesOK, Fill
  <2> QED
    BY <2>1, <2>2, <2>3, <2>4, <2>5 DEF NodesOK, Losses, Cells
<1>9. Hangs(ssl_ctx', CTXs', live', LostIn("ctx", lost'))
  <2>1. Hangs(ssl_ctx, CTXs, live, LostIn("ctx", lost))
    BY <1>2 DEF Hanging
  <2>2. Hangs([ssl_ctx EXCEPT ![n] = o], CTXs \cup {o}, live \cup {n},
              LostIn("ctx", lost) \cup ({ssl_ctx[n]} \cap Objects))
    BY <2>1, <1>1, <1>3, HangsSet
  <2> QED
    BY <2>2, <1>1, <1>7
<1>10. Hangs(ssl', SSLs', live', LostIn("ssl", lost'))
  <2>1. Hangs(ssl, SSLs, live, LostIn("ssl", lost))
    BY <1>2 DEF Hanging
  <2>2. CASE good
    <3>1. Hangs([ssl EXCEPT ![n] = o], SSLs \cup {o}, live \cup {n},
                LostIn("ssl", lost) \cup ({ssl[n]} \cap Objects))
      BY <2>1, <1>1, <1>3, HangsSet
    <3> QED
      BY <3>1, <2>2, <1>1, <1>7
  <2>3. CASE ~good
    <3>1. live' = live
      BY <2>3
    <3> QED
      BY <3>1, <2>1, <2>3, <1>1, <1>7
  <2> QED
    BY <2>2, <2>3
<1>11. Secured'
  <2> SUFFICES ASSUME NEW x \in secure'
               PROVE  ssl'[x] \in Objects /\ ssl_ctx'[x] \in Objects
    BY DEF Secured
  <2>1. x \in Cells
    BY <1>3
  <2>2. CASE x = n
    <3>1. ssl_ctx'[n] = o /\ (good => ssl'[n] = o)
      BY <1>1, <1>3
    <3>2. ~good => n \in secure /\ ssl' = ssl
      BY <2>2, <1>1
    <3> QED
      BY <3>1, <3>2, <2>2, <1>1, <1>2 DEF Secured
  <2>3. CASE x # n
    <3>1. x \in secure
      BY <2>3
    <3>2. ssl'[x] = ssl[x] /\ ssl_ctx'[x] = ssl_ctx[x]
      BY <2>1, <2>3, <1>1, <1>3
    <3> QED
      BY <3>1, <3>2, <1>2 DEF Secured
  <2> QED
    BY <2>2, <2>3
<1> QED
  BY <1>7, <1>8, <1>9, <1>10, <1>11 DEF Objected, Hanging, LostNodes, LostFds

LEMMA AllocatedEffect ==
    ASSUME Objected, NEW n, NEW s \in {NULL, Stale}, NEW c \in {NULL, Stale},
           Allocated(n, s, c), UNCHANGED <<secure, objects, lost>>
    PROVE  Objected' /\ LostNodes' = LostNodes /\ LostFds' = LostFds
<1>1. /\ n \in Nodes \ live /\ live' = live \cup {n} /\ secure' = secure
      /\ ssl' = [ssl EXCEPT ![n] = s] /\ ssl_ctx' = [ssl_ctx EXCEPT ![n] = c]
      /\ SSLs' = SSLs /\ CTXs' = CTXs /\ lost' = lost /\ unset' = unset
  BY DEF Allocated, objects
<1>2. NodesOK /\ Hanging /\ Secured
  BY DEF Objected
<1>3. n \in Cells \ live /\ s \notin Objects /\ c \notin Objects
  BY <1>1, LifecycleAssumption DEF Cells
<1>4. NodesOK'
  BY <1>1, <1>2, <1>3 DEF NodesOK, Losses, Cells
<1>5. /\ Hangs(ssl', SSLs', live', LostIn("ssl", lost'))
      /\ Hangs(ssl_ctx', CTXs', live', LostIn("ctx", lost'))
  <2>1. /\ Hangs(ssl, SSLs, live, LostIn("ssl", lost))
        /\ Hangs(ssl_ctx, CTXs, live, LostIn("ctx", lost))
        /\ live \in SUBSET Cells
        /\ ssl \in [Cells -> Objects \cup {NULL, Stale}]
        /\ ssl_ctx \in [Cells -> Objects \cup {NULL, Stale}]
    BY <1>2 DEF Hanging, NodesOK
  <2>2. Hangs([ssl EXCEPT ![n] = s], SSLs, live \cup {n}, LostIn("ssl", lost))
    BY <2>1, <1>3, HangsUnset
  <2>3. Hangs([ssl_ctx EXCEPT ![n] = c], CTXs, live \cup {n}, LostIn("ctx", lost))
    BY <2>1, <1>3, HangsUnset
  <2> QED
    BY <2>2, <2>3, <1>1
<1>6. Secured'
  <2>1. \A x \in secure : ssl'[x] = ssl[x] /\ ssl_ctx'[x] = ssl_ctx[x]
    BY <1>1, <1>2, <1>3 DEF NodesOK
  <2> QED
    BY <2>1, <1>1, <1>2 DEF Secured
<1> QED
  BY <1>1, <1>4, <1>5, <1>6 DEF Objected, Hanging, LostNodes, LostFds

(* dstr_ssl_node frees nothing twice unless a pointer was never set.       *)
LEMMA DstrLosing ==
    ASSUME Objected, NEW n \in live, NEW stay, dstr_ssl_node(n, stay),
           NEW gone \in SUBSET Fds, lost' = lost \cup ({"fd"} \X gone)
    PROVE  /\ Objected' /\ LostNodes' = LostNodes /\ LostFds' = LostFds \cup gone
           /\ live' = live \ {n} /\ life' \in {stay, "undefined", "corrupt"}
           /\ life' = "corrupt" => unset' \/ stay = "corrupt"
<1>1. /\ live' = live \ {n} /\ secure' = secure \ {n}
      /\ SSLs' = SSLs \ {ssl[n]} /\ CTXs' = CTXs \ {ssl_ctx[n]}
      /\ ssl' = [ssl EXCEPT ![n] = NULL] /\ ssl_ctx' = [ssl_ctx EXCEPT ![n] = NULL]
  BY DEF dstr_ssl_node
<1>2. NodesOK /\ Hanging /\ Secured
  BY DEF Objected
<1>3. NodesOK'
  <2>1. unset' \in BOOLEAN
    <3>1. unset' = (unset \/ Stale \in {ssl[n], ssl_ctx[n]}) /\ unset \in BOOLEAN
      BY <1>2 DEF dstr_ssl_node, NodesOK
    <3>2. CASE unset \/ Stale \in {ssl[n], ssl_ctx[n]}
      BY <3>1, <3>2, Zenon
    <3>3. CASE ~(unset \/ Stale \in {ssl[n], ssl_ctx[n]})
      BY <3>1, <3>3, Zenon
    <3> QED
      BY <3>2, <3>3
  <2> QED
    BY <1>1, <1>2, <2>1 DEF NodesOK, Losses, Cells
<1>9. /\ LostIn("ssl", lost') = LostIn("ssl", lost)
      /\ LostIn("ctx", lost') = LostIn("ctx", lost)
      /\ LostIn("node", lost') = LostIn("node", lost)
      /\ LostIn("fd", lost') = LostIn("fd", lost) \cup gone
  <2> DEFINE more == {"fd"} \X gone
  <2>1. \A l \in more : l[1] = "fd" /\ l[2] \in gone
    OBVIOUS
  <2>2. \A x \in gone : <<"fd", x>> \in more /\ <<"fd", x>>[2] = x /\ <<"fd", x>>[1] = "fd"
    OBVIOUS
  <2>3. lost' = lost \cup more
    OBVIOUS
  <2> HIDE DEF more
  <2>4. \A kind : LostIn(kind, lost') = LostIn(kind, lost) \cup LostIn(kind, more)
    BY <2>3, LostMore
  <2>5. LostIn("ssl", more) = {} /\ LostIn("ctx", more) = {} /\ LostIn("node", more) = {}
    BY <2>1 DEF LostIn
  <2>6. LostIn("fd", more) = gone
    <3>1. \A y \in LostIn("fd", more) : y \in gone
      BY <2>1 DEF LostIn
    <3>2. ASSUME NEW x \in gone
          PROVE  x \in LostIn("fd", more)
      <4>1. PICK l \in more : l[1] = "fd" /\ l[2] = x
        BY <2>2
      <4> QED
        BY <4>1 DEF LostIn
    <3> QED
      BY <3>1, <3>2
  <2> QED
    BY <2>4, <2>5, <2>6
<1>4. /\ Hangs(ssl, SSLs, live, LostIn("ssl", lost))
      /\ Hangs(ssl_ctx, CTXs, live, LostIn("ctx", lost))
      /\ live \in SUBSET Cells
      /\ ssl \in [Cells -> Objects \cup {NULL, Stale}]
      /\ ssl_ctx \in [Cells -> Objects \cup {NULL, Stale}]
  BY <1>2 DEF Hanging, NodesOK
<1>5. /\ ssl[n] \in SSLs \cup {NULL, Stale}
      /\ Hangs([ssl EXCEPT ![n] = NULL], SSLs \ {ssl[n]}, live \ {n}, LostIn("ssl", lost))
  BY <1>4, HangsFreed
<1>6. /\ ssl_ctx[n] \in CTXs \cup {NULL, Stale}
      /\ Hangs([ssl_ctx EXCEPT ![n] = NULL], CTXs \ {ssl_ctx[n]}, live \ {n}, LostIn("ctx", lost))
  BY <1>4, HangsFreed
<1>7. /\ life' \in {stay, "undefined", "corrupt"}
      /\ life' = "corrupt" => unset' \/ stay = "corrupt"
  BY <1>5, <1>6 DEF dstr_ssl_node
<1>8. Secured'
  <2>1. \A x \in secure' : x \in secure /\ ssl'[x] = ssl[x] /\ ssl_ctx'[x] = ssl_ctx[x]
    BY <1>1, <1>2 DEF NodesOK
  <2> QED
    BY <2>1, <1>2 DEF Secured
<1> QED
  BY <1>1, <1>3, <1>5, <1>6, <1>7, <1>8, <1>9 DEF Objected, Hanging, LostNodes, LostFds

LEMMA DstrEffect ==
    ASSUME Objected, NEW n \in live, NEW stay, dstr_ssl_node(n, stay), UNCHANGED lost
    PROVE  /\ Objected' /\ LostNodes' = LostNodes /\ LostFds' = LostFds
           /\ live' = live \ {n} /\ life' \in {stay, "undefined", "corrupt"}
           /\ life' = "corrupt" => unset' \/ stay = "corrupt"
<1> DEFINE gone == {}
<1>1. gone \in SUBSET Fds /\ lost' = lost \cup ({"fd"} \X gone)
  OBVIOUS
<1>2. LostFds \cup gone = LostFds
  OBVIOUS
<1> HIDE DEF gone
<1> QED
  BY <1>1, <1>2, DstrLosing

(* judoAccept_ with files it cannot read: the SSL_CTX is lost at once. *)
LEMMA LeakEffect ==
    ASSUME Objected, NEW o \in Objects \ (CTXs \cup SSLs),
           CTXs' = CTXs \cup {o}, lost' = lost \cup {<<"ctx", o>>},
           UNCHANGED <<nodes, SSLs>>
    PROVE  Objected' /\ LostNodes' = LostNodes /\ LostFds' = LostFds
<1>1. /\ live' = live /\ secure' = secure /\ ssl' = ssl /\ ssl_ctx' = ssl_ctx /\ SSLs' = SSLs
      /\ unset' = unset
      /\ NodesOK /\ Hanging /\ Secured
  BY DEF nodes, Objected
<1>2. /\ LostIn("ctx", lost') = LostIn("ctx", lost) \cup {o}
      /\ LostIn("ssl", lost') = LostIn("ssl", lost)
      /\ LostIn("node", lost') = LostIn("node", lost)
      /\ LostIn("fd", lost') = LostIn("fd", lost)
  <2>1. \A kind, a, b : LostIn(kind, a \cup b) = LostIn(kind, a) \cup LostIn(kind, b)
    BY LostMore
  <2>2. \A kind : LostIn(kind, lost') = LostIn(kind, lost) \cup LostIn(kind, {<<"ctx", o>>})
    BY <2>1
  <2>3. /\ LostIn("ctx", {<<"ctx", o>>}) = {o}
        /\ LostIn("ssl", {<<"ctx", o>>}) = {} /\ LostIn("node", {<<"ctx", o>>}) = {}
        /\ LostIn("fd", {<<"ctx", o>>}) = {}
    BY LostOne
  <2>4. LostIn("ctx", lost') = LostIn("ctx", lost) \cup {o}
    <3>1. LostIn("ctx", lost') = LostIn("ctx", lost) \cup LostIn("ctx", {<<"ctx", o>>})
      BY <2>2, Zenon
    <3> QED
      BY <2>3, <3>1, Zenon
  <2>5. \A kind : LostIn(kind, {<<"ctx", o>>}) = {} => LostIn(kind, lost') = LostIn(kind, lost)
    <3>1. \A S : S \cup {} = S
      OBVIOUS
    <3> QED
      BY <2>2, <3>1, Zenon
  <2> QED
    BY <2>3, <2>4, <2>5, Zenon
<1>3. NodesOK'
  BY <1>1 DEF NodesOK, Losses, Cells
<1>4. Hangs(ssl_ctx, CTXs \cup {o}, live, LostIn("ctx", lost) \cup {o})
  BY <1>1 DEF Hanging, Hangs
<1> QED
  BY <1>1, <1>2, <1>3, <1>4 DEF Objected, Hanging, LostNodes, LostFds, Secured

(* judoConnect_ with files it cannot read. *)
LEMMA FillClientEffect ==
    ASSUME Objected, NEW n \in Nodes, FillClientFails(n)
    PROVE  /\ Objected' /\ n \notin live
           /\ live' = live \cup {n} /\ LostNodes' = LostNodes \cup {n}
           /\ LostFds' = LostFds
           /\ new_node' = new_node /\ life' \in {life, "undefined"}
<1>1. PICK o \in Objects \ (CTXs \cup SSLs), s \in {NULL, Stale} :
        /\ n \notin live /\ live' = live \cup {n}
        /\ ssl' = [ssl EXCEPT ![n] = s] /\ ssl_ctx' = [ssl_ctx EXCEPT ![n] = o]
        /\ CTXs' = CTXs \cup {o}
        /\ lost' = lost \cup {<<"node", n>>}
        /\ life' \in {life, "undefined"}
        /\ SSLs' = SSLs /\ secure' = secure /\ new_node' = new_node /\ unset' = unset
  BY DEF FillClientFails
<1>2. NodesOK /\ Hanging /\ Secured
  BY DEF Objected
<1>3. n \in Cells \ live /\ s \notin Objects /\ NULL \notin Objects
  BY <1>1, LifecycleAssumption DEF Cells
<1>4. /\ LostIn("ctx", lost') = LostIn("ctx", lost)
      /\ LostIn("ssl", lost') = LostIn("ssl", lost)
      /\ LostIn("node", lost') = LostIn("node", lost) \cup {n}
      /\ LostIn("fd", lost') = LostIn("fd", lost)
  <2>1. \A kind, a, b : LostIn(kind, a \cup b) = LostIn(kind, a) \cup LostIn(kind, b)
    BY LostMore
  <2>2. \A kind : LostIn(kind, lost') = LostIn(kind, lost) \cup LostIn(kind, {<<"node", n>>})
    BY <1>1, <2>1
  <2>3. /\ LostIn("ctx", {<<"node", n>>}) = {}
        /\ LostIn("ssl", {<<"node", n>>}) = {} /\ LostIn("node", {<<"node", n>>}) = {n}
        /\ LostIn("fd", {<<"node", n>>}) = {}
    BY LostOne
  <2> QED
    BY <2>2, <2>3
<1>5. NodesOK'
  BY <1>1, <1>2, <1>3 DEF NodesOK, Losses, Cells
<1>6. /\ Hangs(ssl, SSLs, live, LostIn("ssl", lost))
      /\ Hangs(ssl_ctx, CTXs, live, LostIn("ctx", lost))
      /\ live \in SUBSET Cells
      /\ ssl \in [Cells -> Objects \cup {NULL, Stale}]
      /\ ssl_ctx \in [Cells -> Objects \cup {NULL, Stale}]
  BY <1>2 DEF Hanging, NodesOK
<1>7. Hangs([ssl EXCEPT ![n] = s], SSLs, live \cup {n}, LostIn("ssl", lost))
  BY <1>3, <1>6, HangsUnset
<1>8. Hangs([ssl_ctx EXCEPT ![n] = o], CTXs \cup {o}, live \cup {n}, LostIn("ctx", lost))
  <2>1. Hangs([ssl_ctx EXCEPT ![n] = o], CTXs \cup {o}, live \cup {n},
              LostIn("ctx", lost) \cup ({ssl_ctx[n]} \cap Objects))
    BY <1>1, <1>3, <1>6, HangsSet
  <2>2. ssl_ctx[n] \notin Objects
    BY <1>3, <1>6 DEF Hangs
  <2>3. LostIn("ctx", lost) \cup ({ssl_ctx[n]} \cap Objects) = LostIn("ctx", lost)
    BY <2>2
  <2> QED
    BY <2>1, <2>3
<1>9. Secured'
  <2>1. \A x \in secure : ssl'[x] = ssl[x] /\ ssl_ctx'[x] = ssl_ctx[x]
    BY <1>1, <1>2, <1>3 DEF NodesOK
  <2> QED
    BY <2>1, <1>1, <1>2 DEF Secured
<1> QED
  BY <1>1, <1>4, <1>5, <1>7, <1>8, <1>9 DEF Objected, Hanging, LostNodes, LostFds

LEMMA NodesSame ==
    ASSUME Objected, UNCHANGED <<nodes, objects, lost>>
    PROVE  Objected' /\ live' = live /\ LostNodes' = LostNodes /\ LostFds' = LostFds
BY DEF Objected, nodes, objects, NodesOK, Hanging, Hangs, Secured, LostNodes, LostFds, LostIn, Losses, Cells

LEMMA LostAreNodes ==
    ASSUME NodesOK
    PROVE  LostNodes \subseteq Nodes
<1> SUFFICES ASSUME NEW l \in lost, l[1] = "node"
             PROVE  l[2] \in Nodes
  BY DEF LostNodes, LostIn
<1>1. l \in Losses
  BY DEF NodesOK
<1>2. "node" # "ssl" /\ "node" # "ctx" /\ "node" # "fd"
  OBVIOUS
<1> QED
  BY <1>1, <1>2 DEF Losses

LEMMA LostAreFds ==
    ASSUME NodesOK
    PROVE  LostFds \subseteq Fds
<1> SUFFICES ASSUME NEW l \in lost, l[1] = "fd"
             PROVE  l[2] \in Fds
  BY DEF LostFds, LostIn
<1>1. l \in Losses
  BY DEF NodesOK
<1>2. "fd" # "ssl" /\ "fd" # "ctx" /\ "fd" # "node"
  OBVIOUS
<1> QED
  BY <1>1, <1>2 DEF Losses

-----------------------------------------------------------------------------
(* The entries.                                                            *)

LEMMA SameArray ==
    ASSUME NEW k, NEW v
    PROVE  /\ m_ssl_nodes!add(k, v) <=> D!add(k, v)
           /\ m_ssl_nodes!remove(k) <=> D!remove(k)
BY DEF m_ssl_nodes!add, D!add, m_ssl_nodes!GrownCap, D!GrownCap,
       m_ssl_nodes!Resized, D!Resized, m_ssl_nodes!Slots, D!Slots,
       m_ssl_nodes!remove, D!remove, m_ssl_nodes!Matches, D!Matches,
       m_ssl_nodes!find, D!find, m_ssl_nodes!Swapped, D!Swapped,
       m_ssl_nodes!ShrunkCap, D!ShrunkCap, m_ssl_nodes!vars, D!vars,
       m_ssl_nodes!arrays, D!arrays

LEMMA ArrayAssumed == D!ArrayAssumption
BY LifecycleAssumption DEF D!ArrayAssumption

(* What DualDynamicArray's lemmas ask for. *)
LEMMA ArrayFacts ==
    ASSUME ArrayOK, Array, life # "destroyed"
    PROVE  /\ D!TypeOK /\ D!InBounds /\ D!KeysDistinct
           /\ \A k \in Entries : /\ k \in 0 .. m_cap - 1
                                 /\ m_first_array[k] \in Fds \cup {Listener}
                                 /\ m_second_array[k] \in Cells
<1>1. /\ m_size \in Nat /\ m_cap \in Nat \ {0} /\ m_size <= m_cap
      /\ m_first_array \in [0 .. m_cap - 1 -> Fds \cup {Listener, NoValue}]
      /\ m_second_array \in [0 .. m_cap - 1 -> Cells \cup {NoValue}]
  BY DEF ArrayOK, Storage
<1>2. Distinct
  BY DEF Array
<1>3. \A k \in Entries : k \in 0 .. m_cap - 1
  BY <1>1 DEF Entries
<1>4. D!TypeOK
  <2>1. Fds \cup {Listener, NoValue} = Fds \cup {Listener} \cup {NoValue}
    OBVIOUS
  <2> QED
    BY <1>1, <2>1 DEF D!TypeOK, D!Slots, Cells
<1>5. D!InBounds
  BY <1>1, <1>2 DEF D!InBounds, Distinct, Entries
<1>6. D!KeysDistinct
  BY <1>2 DEF Distinct, D!KeysDistinct, Entries
<1> QED
  BY <1>1, <1>2, <1>3, <1>4, <1>5, <1>6 DEF Distinct

(* One entry more. *)
LEMMA EnterEffect ==
    ASSUME ArrayOK, Array, life \in {"idle", "running"}, life' = life,
           NEW fd \in Fds, NEW n \in Nodes, m_ssl_nodes!add(fd, n),
           fd \notin KeysHeld, n \in live \ Held, live' = live
    PROVE  /\ ArrayOK' /\ Array'
           /\ Held' = Held \cup {n} /\ KeysHeld' = KeysHeld \cup {fd}
<1>1. /\ D!TypeOK /\ D!InBounds /\ D!ArrayAssumption /\ D!add(fd, n)
      /\ m_size \in Nat /\ m_cap \in Nat \ {0} /\ m_size <= m_cap
  BY ArrayFacts, ArrayAssumed, SameArray DEF ArrayOK
<1>2. /\ m_size' = m_size + 1 /\ m_cap' = D!GrownCap
      /\ m_first_array' \in [D!Slots(m_cap') -> Fds \cup {Listener} \cup {NoValue}]
      /\ m_second_array' \in [D!Slots(m_cap') -> Nodes \cup {ListNode} \cup {NoValue}]
      /\ m_first_array'[m_size] = fd /\ m_second_array'[m_size] = n
      /\ \A k \in Entries : /\ m_first_array'[k] = m_first_array[k]
                            /\ m_second_array'[k] = m_second_array[k]
  <2>1. fd \in Fds \cup {Listener} /\ n \in Nodes \cup {ListNode}
    OBVIOUS
  <2> QED
    BY <1>1, <2>1, D!AddEffect DEF Entries
<1>3. m_cap' \in Nat \ {0} /\ m_size' <= m_cap'
  BY <1>1, <1>2, D!GrownRoom
<1>4. ArrayOK'
  <2>1. m_first_array' \in [0 .. m_cap' - 1 -> Fds \cup {Listener, NoValue}]
    <3>1. Fds \cup {Listener, NoValue} = Fds \cup {Listener} \cup {NoValue}
      OBVIOUS
    <3> QED
      BY <1>2, <3>1 DEF D!Slots
  <2>2. m_second_array' \in [0 .. m_cap' - 1 -> Cells \cup {NoValue}]
    BY <1>2 DEF D!Slots, Cells
  <2> QED
    BY <1>1, <1>2, <1>3, <2>1, <2>2 DEF ArrayOK, Storage, Cells
<1>5. Entries' = Entries \cup {m_size} /\ m_size \notin Entries
  BY <1>1, <1>2 DEF Entries
<1>6. Held' = Held \cup {n} /\ KeysHeld' = KeysHeld \cup {fd}
  <2>1. {m_second_array'[k] : k \in Entries \cup {m_size}} = {m_second_array[k] : k \in Entries} \cup {n}
    BY <1>2
  <2>2. {m_first_array'[k] : k \in Entries \cup {m_size}} = {m_first_array[k] : k \in Entries} \cup {fd}
    BY <1>2
  <2> QED
    BY <1>5, <2>1, <2>2 DEF Held, KeysHeld
<1>7. Distinct
  BY DEF Array
<1>8. /\ \A k \in Entries : m_first_array[k] # fd /\ m_second_array[k] # n
      /\ fd # NoValue /\ n # NoValue /\ fd # Listener /\ n # ListNode
  BY LifecycleAssumption DEF KeysHeld, Held
<1>9. Distinct'
  <2>1. \A k \in Entries' : m_first_array'[k] # NoValue /\ m_second_array'[k] # NoValue
    BY <1>2, <1>5, <1>7, <1>8 DEF Distinct
  <2>2. \A j, k \in Entries' :
          (m_first_array'[j] = m_first_array'[k] \/ m_second_array'[j] = m_second_array'[k]) => j = k
    BY <1>2, <1>5, <1>7, <1>8 DEF Distinct
  <2>3. \A k \in Entries' : m_first_array'[k] = Listener <=> m_second_array'[k] = ListNode
    BY <1>2, <1>5, <1>7, <1>8 DEF Distinct
  <2> QED
    BY <2>1, <2>2, <2>3 DEF Distinct
<1> QED
  BY <1>4, <1>6, <1>9 DEF Array

(* One entry less, and only that one. *)
LEMMA RemoveEffect ==
    ASSUME ArrayOK, Array, life \in {"running", "destroying"},
           life' \in {"running", "destroying", "undefined", "corrupt"},
           life' = "corrupt" => unset',
           NEW k \in Entries, m_ssl_nodes!remove(m_first_array[k]),
           live' = live \ {m_second_array[k]}
    PROVE  /\ ArrayOK' /\ Array' /\ m_size' = m_size - 1
           /\ Held' = Held \ {m_second_array[k]}
           /\ KeysHeld' = KeysHeld \ {m_first_array[k]}
<1> DEFINE fd == m_first_array[k]
           n == m_size - 1
           From(j) == IF j = k THEN n ELSE j
<1>1. /\ D!TypeOK /\ D!InBounds /\ D!KeysDistinct /\ D!ArrayAssumption /\ D!remove(fd)
      /\ m_size \in Nat /\ m_cap \in Nat \ {0} /\ m_size <= m_cap
      /\ fd \in Fds \cup {Listener}
  BY ArrayFacts, ArrayAssumed, SameArray DEF ArrayOK
<1>2. D!Matches(fd) # {} /\ D!find(fd) = k
  <2>1. k \in D!Matches(fd)
    BY DEF D!Matches, Entries
  <2>2. D!find(fd) \in 0 .. m_size - 1 /\ m_first_array[D!find(fd)] = fd
    BY <1>1, <2>1, D!FindIndex
  <2> QED
    BY <1>1, <2>1, <2>2 DEF D!KeysDistinct, Entries
<1>3. /\ n \in Nat /\ m_size' = n /\ m_cap' = D!ShrunkCap(n)
      /\ m_first_array' \in [D!Slots(m_cap') -> Fds \cup {Listener} \cup {NoValue}]
      /\ m_second_array' \in [D!Slots(m_cap') -> Nodes \cup {ListNode} \cup {NoValue}]
      /\ \A j \in 0 .. m_size' - 1 :
            LET x == IF j = D!find(fd) THEN m_size - 1 ELSE j
            IN  /\ m_first_array'[j] = m_first_array[x]
                /\ m_second_array'[j] = m_second_array[x]
  BY <1>1, <1>2, D!RemoveEffect
<1>4. m_cap' \in Nat \ {0} /\ m_size' <= m_cap'
  BY <1>1, <1>3, D!ShrunkRoom
<1>5. ArrayOK'
  <2>1. m_first_array' \in [0 .. m_cap' - 1 -> Fds \cup {Listener, NoValue}]
    <3>1. Fds \cup {Listener, NoValue} = Fds \cup {Listener} \cup {NoValue}
      OBVIOUS
    <3> QED
      BY <1>3, <3>1 DEF D!Slots
  <2>2. m_second_array' \in [0 .. m_cap' - 1 -> Cells \cup {NoValue}]
    BY <1>3 DEF D!Slots, Cells
  <2> QED
    BY <1>3, <1>4, <2>1, <2>2 DEF ArrayOK, Storage, Cells
<1>6. Entries' = 0 .. n - 1
  BY <1>3 DEF Entries
<1>7. \A j \in Entries' : /\ m_first_array'[j] = m_first_array[From(j)]
                          /\ m_second_array'[j] = m_second_array[From(j)]
  BY <1>2, <1>3, <1>6
<1>8. /\ \A j \in Entries' : From(j) \in Entries \ {k}
      /\ \A j, m \in Entries' : From(j) = From(m) => j = m
      /\ \A m \in Entries \ {k} : \E j \in Entries' : From(j) = m
  <2>1. n \in Nat /\ Entries = 0 .. n /\ Entries' = 0 .. n - 1 /\ k \in 0 .. n
    BY <1>1, <1>3, <1>6 DEF Entries
  <2> HIDE DEF n
  <2>2. \A j \in Entries' : From(j) \in Entries \ {k}
    BY <2>1
  <2>3. \A j, m \in Entries' : From(j) = From(m) => j = m
    BY <2>1
  <2>4. ASSUME NEW m \in Entries \ {k}
        PROVE  \E j \in Entries' : From(j) = m
    <3>1. CASE m = n
      <4>1. k \in Entries' /\ From(k) = m
        BY <2>1, <3>1
      <4> QED
        BY <4>1
    <3>2. CASE m # n
      <4>1. m \in Entries' /\ From(m) = m
        BY <2>1, <3>2
      <4> QED
        BY <4>1
    <3> QED
      BY <3>1, <3>2
  <2> QED
    BY <2>2, <2>3, <2>4
<1>9. Distinct
  BY DEF Array
<1> HIDE DEF From
<1>10. Held' = Held \ {m_second_array[k]}
  <2>1. {m_second_array'[j] : j \in Entries'} = {m_second_array[m] : m \in Entries \ {k}}
    BY <1>7, <1>8
  <2>2. {m_second_array[m] : m \in Entries \ {k}} = {m_second_array[m] : m \in Entries} \ {m_second_array[k]}
    BY <1>9 DEF Distinct
  <2> QED
    BY <2>1, <2>2 DEF Held
<1>11. KeysHeld' = KeysHeld \ {fd}
  <2>1. {m_first_array'[j] : j \in Entries'} = {m_first_array[m] : m \in Entries \ {k}}
    BY <1>7, <1>8
  <2>2. {m_first_array[m] : m \in Entries \ {k}} = {m_first_array[m] : m \in Entries} \ {fd}
    BY <1>9 DEF Distinct
  <2> QED
    BY <2>1, <2>2 DEF KeysHeld
<1>12. Distinct'
  <2>1. \A j \in Entries' : m_first_array'[j] # NoValue /\ m_second_array'[j] # NoValue
    BY <1>7, <1>8, <1>9 DEF Distinct
  <2>2. \A j, m \in Entries' :
          (m_first_array'[j] = m_first_array'[m] \/ m_second_array'[j] = m_second_array'[m]) => j = m
    BY <1>7, <1>8, <1>9 DEF Distinct
  <2>3. \A j \in Entries' : m_first_array'[j] = Listener <=> m_second_array'[j] = ListNode
    BY <1>7, <1>8, <1>9 DEF Distinct
  <2> QED
    BY <2>1, <2>2, <2>3 DEF Distinct
<1>13. Held' \subseteq live'
  BY <1>10 DEF Array
<1> QED
  BY <1>3, <1>5, <1>10, <1>11, <1>12, <1>13 DEF Array

(* The entries stay. *)
LEMMA ArraySame ==
    ASSUME ArrayOK, Array, UNCHANGED conns, life # "destroyed",
           life' # "destroyed", life' = "corrupt" => unset',
           life \in {"undefined", "corrupt"} => life' \in {"undefined", "corrupt"},
           Held \subseteq live => Held \subseteq live'
    PROVE  /\ ArrayOK' /\ Array' /\ m_size' = m_size
           /\ Held' = Held /\ KeysHeld' = KeysHeld
<1>1. /\ m_size' = m_size /\ m_cap' = m_cap
      /\ m_first_array' = m_first_array /\ m_second_array' = m_second_array
  BY DEF conns
<1>2. Entries' = Entries /\ Held' = Held /\ KeysHeld' = KeysHeld
  BY <1>1 DEF Entries, Held, KeysHeld
<1>3. ArrayOK'
  BY <1>1 DEF ArrayOK, Storage, Cells
<1>4. Distinct'
  BY <1>1, <1>2 DEF Array, Distinct
<1>5. life' \notin {"undefined", "corrupt"} => Held' \subseteq live'
  BY <1>2 DEF Array
<1> QED
  BY <1>1, <1>2, <1>3, <1>4, <1>5 DEF Array

-----------------------------------------------------------------------------
(* The constructor.                                                        *)
LEMMA IInvInit == Init => IInv
<1> SUFFICES ASSUME Init
             PROVE  IInv
  OBVIOUS
<1>1. /\ life = "idle" /\ i = -1
      /\ ssl_enabled = FALSE /\ required = FALSE /\ m_active = FALSE /\ readable = TRUE
      /\ new_node = NoNode /\ fp = NoFd /\ live = {ListNode} /\ secure = {}
      /\ SSLs = {} /\ CTXs = {} /\ lost = {} /\ unset = FALSE /\ m_cap = MIN_DDA_SIZE
  BY DEF Init
<1>2. PICK s \in {NULL, Stale}, c \in {NULL, Stale} :
        /\ ssl = [n \in Cells |-> IF n = ListNode THEN s ELSE NULL]
        /\ ssl_ctx = [n \in Cells |-> IF n = ListNode THEN c ELSE NULL]
  BY DEF Init
<1>3. /\ NULL \notin Objects /\ s \notin Objects /\ c \notin Objects
      /\ NoNode \notin Cells /\ ListNode \notin Nodes /\ Listener \notin Fds
      /\ NoFd \notin Fds \cup {Listener}
      /\ NoValue \notin Fds \cup {Listener} /\ NoValue \notin Cells
      /\ MIN_DDA_SIZE \in Nat \ {0}
  BY LifecycleAssumption DEF Cells
<1>4. \/ /\ m_size = 0 /\ open = {}
         /\ m_first_array = m_ssl_nodes!Fresh(m_cap) /\ m_second_array = m_ssl_nodes!Fresh(m_cap)
      \/ /\ m_size = 1 /\ open \in {{}, {Listener}}
         /\ m_first_array = [m_ssl_nodes!Fresh(m_cap) EXCEPT ![0] = Listener]
         /\ m_second_array = [m_ssl_nodes!Fresh(m_cap) EXCEPT ![0] = ListNode]
  BY <1>1 DEF Init
<1>5. m_ssl_nodes!Fresh(m_cap) = [k \in 0 .. m_cap - 1 |-> NoValue] /\ 0 \in 0 .. m_cap - 1
  BY <1>1, <1>3 DEF m_ssl_nodes!Fresh, m_ssl_nodes!Slots
<1>6. ModeOK
  BY <1>1 DEF ModeOK
<1>7. ArrayOK /\ Distinct /\ Held \subseteq {ListNode} /\ KeysHeld \subseteq {Listener}
  <2>1. CASE m_size = 0
    <3>1. m_first_array = [k \in 0 .. m_cap - 1 |-> NoValue]
          /\ m_second_array = [k \in 0 .. m_cap - 1 |-> NoValue]
      BY <2>1, <1>4, <1>5
    <3>2. Entries = {}
      BY <2>1 DEF Entries
    <3> QED
      BY <2>1, <3>1, <3>2, <1>1, <1>3 DEF ArrayOK, Storage, Distinct, Held, KeysHeld
  <2>2. CASE m_size = 1
    <3>1. /\ m_first_array = [[k \in 0 .. m_cap - 1 |-> NoValue] EXCEPT ![0] = Listener]
          /\ m_second_array = [[k \in 0 .. m_cap - 1 |-> NoValue] EXCEPT ![0] = ListNode]
      BY <2>2, <1>4, <1>5
    <3>2. Entries = {0} /\ m_first_array[0] = Listener /\ m_second_array[0] = ListNode
      BY <2>2, <3>1, <1>5 DEF Entries
    <3>3. ArrayOK
      BY <2>2, <3>1, <1>1, <1>3 DEF ArrayOK, Storage, Cells
    <3>4. Listener # NoValue /\ ListNode # NoValue
      BY <1>3 DEF Cells
    <3> QED
      BY <3>2, <3>3, <3>4 DEF Distinct, Held, KeysHeld
  <2> QED
    BY <2>1, <2>2, <1>4
<1>8. MakingOK
  BY <1>1, <1>4 DEF MakingOK
<1>9. LostNodes = {} /\ LostFds = {} /\ LostIn("ssl", lost) = {} /\ LostIn("ctx", lost) = {}
  BY <1>1 DEF LostNodes, LostFds, LostIn
<1>10. Objected
  <2>1. NodesOK
    BY <1>1, <1>2, <1>3 DEF NodesOK, Losses, Cells
  <2>2. Hangs(ssl, SSLs, live, {}) /\ Hangs(ssl_ctx, CTXs, live, {})
    <3>1. /\ \A n \in live : ssl[n] = s /\ ssl_ctx[n] = c
          /\ \A n \in Cells \ live : ssl[n] = NULL /\ ssl_ctx[n] = NULL
      BY <1>1, <1>2 DEF Cells
    <3> QED
      BY <3>1, <1>1, <1>3 DEF Hangs
  <2> QED
    BY <2>1, <2>2, <1>1, <1>9 DEF Objected, Hanging, Secured
<1>11. Array /\ Making
  BY <1>1, <1>7 DEF Array, Making
<1>12. Used
  <2>1. live = Held \cup {ListNode} \cup ({new_node} \ {NoNode}) \cup LostNodes
    BY <1>1, <1>7, <1>9
  <2>2. (Held \cup {new_node}) \cap LostNodes = {} /\ new_node \notin Held
    BY <1>1, <1>3, <1>7, <1>9 DEF Cells
  <2>3. OpenKnown
    BY <1>1, <1>3, <1>4, <1>7, <1>9 DEF OpenKnown
  <2> QED
    BY <2>1, <2>2, <2>3 DEF Used
<1>13. Destroying /\ Destroyed
  BY <1>1 DEF Destroying, Destroyed
<1> QED
  BY <1>6, <1>7, <1>8, <1>10, <1>11, <1>12, <1>13 DEF IInv, Owned

-----------------------------------------------------------------------------
(* Configuration.                                                          *)

(* What is known while the server is used. *)
LEMMA UsedFacts ==
    ASSUME IInv, life \in {"idle", "running"}
    PROVE  /\ ModeOK /\ ArrayOK /\ MakingOK /\ Objected /\ NodesOK /\ Array /\ Making
           /\ Held \subseteq live /\ ListNode \in live
           /\ live = Held \cup {ListNode} \cup ({new_node} \ {NoNode}) \cup LostNodes
           /\ Held \cap LostNodes = {} /\ new_node \notin LostNodes /\ new_node \notin Held
           /\ open \ {Listener} = (KeysHeld \ {Listener}) \cup ({fp} \ {NoFd}) \cup LostFds
           /\ fp \notin KeysHeld /\ (KeysHeld \cup {fp}) \cap LostFds = {} /\ LostNodes \subseteq Nodes /\ i = -1
           /\ NoNode \notin Cells /\ ListNode \notin Nodes /\ Listener \notin Fds
           /\ NoFd \notin Fds \cup {Listener}
           /\ \A k \in Entries : m_first_array[k] \in Fds \cup {Listener}
           /\ Held \subseteq Cells /\ KeysHeld \subseteq Fds \cup {Listener}
           /\ Nodes \subseteq Cells /\ LostFds \subseteq Fds
<1>1. ModeOK /\ ArrayOK /\ MakingOK /\ Objected /\ NodesOK /\ Array /\ Making /\ Used
  BY DEF IInv, Objected, Owned
<1>2. /\ Held \subseteq live
      /\ live = Held \cup {ListNode} \cup ({new_node} \ {NoNode}) \cup LostNodes
      /\ (Held \cup {new_node}) \cap LostNodes = {} /\ new_node \notin Held
      /\ open \ {Listener} = (KeysHeld \ {Listener}) \cup ({fp} \ {NoFd}) \cup LostFds
      /\ fp \notin KeysHeld /\ (KeysHeld \cup {fp}) \cap LostFds = {}
  BY <1>1 DEF Used, OpenKnown, Array
<1>3. LostNodes \subseteq Nodes /\ LostFds \subseteq Fds
  BY <1>1, LostAreNodes, LostAreFds
<1>4. /\ NoNode \notin Cells /\ ListNode \notin Nodes /\ Listener \notin Fds
      /\ NoFd \notin Fds \cup {Listener} /\ Nodes \subseteq Cells
  BY LifecycleAssumption DEF Cells
<1>5. i = -1
  BY <1>1 DEF MakingOK
<1>6. \A k \in Entries : m_first_array[k] \in Fds \cup {Listener} /\ m_second_array[k] \in Cells
  BY <1>1, ArrayFacts
<1>7. Held \subseteq Cells /\ KeysHeld \subseteq Fds \cup {Listener}
  BY <1>6 DEF Held, KeysHeld
<1> QED
  BY <1>1, <1>2, <1>3, <1>4, <1>5, <1>6, <1>7

LEMMA SetUpSSLNext == IInv /\ SetUpSSL => IInv'
<1> SUFFICES ASSUME IInv, SetUpSSL
             PROVE  IInv'
  OBVIOUS
<1>1. PICK o \in Objects, good \in BOOLEAN :
        /\ Fill(ListNode, o, good) /\ readable' = good
        /\ ssl_enabled' = (ssl_enabled \/ good)
  BY DEF SetUpSSL
<1>2. /\ life \in {"idle", "running"} /\ life' = life
      /\ required' = required /\ m_active' = m_active
      /\ UNCHANGED conns /\ new_node' = new_node /\ fp' = fp
      /\ i' = i /\ live' = live /\ secure' = secure /\ open' = open
  BY DEF SetUpSSL, making
<1>3. /\ ModeOK /\ ArrayOK /\ MakingOK /\ Objected /\ Array /\ Making /\ ListNode \in live
  BY <1>2, UsedFacts
<1>4. Objected' /\ LostNodes' = LostNodes /\ LostFds' = LostFds
  <2>1. ListNode \in Cells /\ live' = live \cup {ListNode} /\ secure' \in SUBSET (secure \cup {ListNode})
    BY <1>2, <1>3 DEF Cells
  <2> QED
    BY <2>1, <1>1, <1>2, <1>3, FillEffect
<1>5. ArrayOK' /\ Array' /\ m_size' = m_size /\ Held' = Held /\ KeysHeld' = KeysHeld
  BY <1>2, <1>3, ArraySame
<1>6. ModeOK'
  BY <1>1, <1>2, <1>3 DEF ModeOK
<1>7. MakingOK'
  BY <1>2, <1>3 DEF MakingOK
<1>8. Making'
  <2>1. required' => ssl_enabled'
    BY <1>1, <1>2, <1>3 DEF Making
  <2> QED
    BY <2>1, <1>2, <1>3 DEF Making
<1>9. Used' /\ Destroying' /\ Destroyed'
  BY <1>2, <1>4, <1>5 DEF IInv, Owned, Used, OpenKnown, Destroying, Destroyed
<1> QED
  BY <1>4, <1>5, <1>6, <1>7, <1>8, <1>9 DEF IInv, Owned

LEMMA RequireCertsNext == IInv /\ RequireCerts => IInv'
<1> SUFFICES ASSUME IInv, RequireCerts
             PROVE  IInv'
  OBVIOUS
<1>1. /\ life = "idle" /\ life' = "idle" /\ ssl_enabled /\ ssl_enabled' = ssl_enabled
      /\ required' = TRUE /\ m_active' = m_active /\ readable' = readable
      /\ UNCHANGED conns /\ new_node' = new_node /\ fp' = fp
      /\ i' = i /\ UNCHANGED <<nodes, objects, lost>> /\ open' = open
  BY DEF RequireCerts, making
<1>2. /\ ModeOK /\ ArrayOK /\ MakingOK /\ Objected /\ Array /\ Making
  BY <1>1, UsedFacts
<1>3. Objected' /\ live' = live /\ LostNodes' = LostNodes /\ LostFds' = LostFds
  BY <1>1, <1>2, NodesSame
<1>4. ArrayOK' /\ Array' /\ m_size' = m_size /\ Held' = Held /\ KeysHeld' = KeysHeld
  BY <1>1, <1>2, <1>3, ArraySame
<1>5. ModeOK'
  BY <1>1, <1>2 DEF ModeOK
<1>6. MakingOK' /\ Making'
  BY <1>1, <1>2 DEF MakingOK, Making
<1>7. Used' /\ Destroying' /\ Destroyed'
  BY <1>1, <1>3, <1>4 DEF IInv, Owned, Used, OpenKnown, Destroying, Destroyed
<1> QED
  BY <1>3, <1>4, <1>5, <1>6, <1>7 DEF IInv, Owned

-----------------------------------------------------------------------------
(* A connection is made.                                                   *)

(* Whatever the new node is filled with, it is the one under construction. *)
LEMMA NewNodeNext ==
    ASSUME IInv, life \in {"idle", "running"}, life' = life, new_node = NoNode,
           NEW n \in Nodes \ live, live' = live \cup {n}, new_node' = n, fp' = NoFd,
           UNCHANGED <<mode, conns, i, open>>, Objected', LostNodes' = LostNodes /\ LostFds' = LostFds
    PROVE  IInv'
<1>1. /\ ModeOK /\ ArrayOK /\ MakingOK /\ Array /\ Making /\ Held \subseteq live
      /\ live = Held \cup {ListNode} \cup ({new_node} \ {NoNode}) \cup LostNodes
      /\ Held \cap LostNodes = {}
      /\ open \ {Listener} = (KeysHeld \ {Listener}) \cup ({fp} \ {NoFd}) \cup LostFds
      /\ fp \notin KeysHeld /\ (KeysHeld \cup {fp}) \cap LostFds = {} /\ LostFds \subseteq Fds /\ NoNode \notin Cells /\ Nodes \subseteq Cells
  BY UsedFacts
<1>2. /\ ssl_enabled' = ssl_enabled /\ required' = required
      /\ m_active' = m_active /\ readable' = readable /\ i' = i /\ open' = open
  BY DEF mode
<1>3. fp = NoFd
  BY <1>1 DEF Making
<1>4. ArrayOK' /\ Array' /\ m_size' = m_size /\ Held' = Held /\ KeysHeld' = KeysHeld
  <2>1. life # "destroyed" /\ life' \notin {"corrupt", "destroyed", "undefined"}
    OBVIOUS
  <2> QED
    BY <1>1, <2>1, ArraySame
<1>5. ModeOK' /\ MakingOK' /\ Making'
  BY <1>1, <1>2, <1>4 DEF ModeOK, MakingOK, Making
<1>6. n # NoNode /\ n \notin Held /\ n \notin LostNodes
  BY <1>1
<1>7. Used'
  <2>1. live' = Held' \cup {ListNode} \cup ({new_node'} \ {NoNode}) \cup LostNodes'
    BY <1>1, <1>4, <1>6
  <2>2. (Held' \cup {new_node'}) \cap LostNodes' = {} /\ new_node' \notin Held'
    BY <1>1, <1>4, <1>6
  <2>3. OpenKnown'
    BY <1>1, <1>2, <1>3, <1>4 DEF OpenKnown
  <2> QED
    BY <2>1, <2>2, <2>3 DEF Used
<1>8. Destroying' /\ Destroyed'
  BY DEF Destroying, Destroyed
<1> QED
  BY <1>4, <1>5, <1>7, <1>8 DEF IInv, Owned

LEMMA AcceptBeginNext == IInv /\ AcceptBegin => IInv'
<1> SUFFICES ASSUME IInv, AcceptBegin
             PROVE  IInv'
  OBVIOUS
<1>1. /\ life = "running" /\ life' = "running" /\ new_node = NoNode
      /\ UNCHANGED <<mode, conns, i, open>>
  BY DEF AcceptBegin
<1>2. ModeOK /\ ArrayOK /\ MakingOK /\ Objected /\ Array /\ Making /\ Nodes \subseteq Cells
  BY <1>1, UsedFacts
<1>3. CASE ssl_enabled /\ ~readable
  <2>1. PICK o \in Objects \ (CTXs \cup SSLs) :
          CTXs' = CTXs \cup {o} /\ lost' = lost \cup {<<"ctx", o>>}
    BY <1>3 DEF AcceptBegin
  <2>2. UNCHANGED <<nodes, SSLs>> /\ new_node' = new_node /\ fp' = fp
    BY <1>3 DEF AcceptBegin, making
  <2>3. Objected' /\ LostNodes' = LostNodes /\ LostFds' = LostFds
    BY <1>2, <2>1, <2>2, LeakEffect
  <2>4. live' = live
    BY <2>2 DEF nodes
  <2>5. ArrayOK' /\ Array' /\ m_size' = m_size /\ Held' = Held /\ KeysHeld' = KeysHeld
    <3>1. /\ life \in {"idle", "running"} /\ UNCHANGED conns
          /\ life' \notin {"corrupt", "destroyed", "undefined"}
          /\ Held \subseteq live => Held \subseteq live'
      BY <1>1, <2>4
    <3> QED
      BY <1>2, <3>1, ArraySame
  <2>6. ModeOK' /\ MakingOK' /\ Making'
    BY <1>1, <1>2, <2>2, <2>5 DEF ModeOK, MakingOK, Making, mode
  <2>7. Used'
    BY <1>1, <2>2, <2>3, <2>4, <2>5 DEF IInv, Owned, Used, OpenKnown
  <2>8. Destroying' /\ Destroyed'
    BY <1>1 DEF Destroying, Destroyed
  <2> QED
    BY <2>3, <2>5, <2>6, <2>7, <2>8 DEF IInv, Owned
<1>4. CASE ~(ssl_enabled /\ ~readable)
  <2>1. PICK n \in Nodes :
          /\ new_node' = n /\ fp' = NoFd
          /\ secure' = IF required THEN secure \cup {n} ELSE secure
          /\ IF ssl_enabled THEN \E o \in Objects : AllocatedSSL(n, o)
             ELSE /\ \E s, c \in {NULL, Stale} : Allocated(n, s, c)
                  /\ UNCHANGED <<objects, lost>>
    BY <1>4 DEF AcceptBegin
  <2>2. n \in Nodes \ live /\ live' = live \cup {n} /\ Objected' /\ LostNodes' = LostNodes /\ LostFds' = LostFds
    <3>1. CASE ssl_enabled
      <4>1. PICK o \in Objects : AllocatedSSL(n, o)
        BY <2>1, <3>1
      <4>2. n \in Nodes \ live /\ live' = live \cup {n} /\ Fill(n, o, TRUE)
        BY <4>1 DEF AllocatedSSL
      <4>3. n \in Cells /\ secure' \in SUBSET (secure \cup {n})
        BY <1>2, <2>1
      <4> QED
        BY <1>2, <4>2, <4>3, FillEffect
    <3>2. CASE ~ssl_enabled
      <4>1. PICK s \in {NULL, Stale}, c \in {NULL, Stale} : Allocated(n, s, c)
        BY <2>1, <3>2
      <4>2. ~required
        BY <1>2, <3>2 DEF Making
      <4>3. UNCHANGED <<secure, objects, lost>>
        BY <2>1, <3>2, <4>2
      <4>4. Objected' /\ LostNodes' = LostNodes /\ LostFds' = LostFds
        BY <1>2, <4>1, <4>3, AllocatedEffect
      <4> QED
        BY <4>1, <4>4 DEF Allocated
    <3> QED
      BY <3>1, <3>2
  <2> QED
    BY <1>1, <2>1, <2>2, NewNodeNext
<1> QED
  BY <1>3, <1>4

LEMMA ConnectBeginNext == IInv /\ ConnectBegin => IInv'
<1> SUFFICES ASSUME IInv, ConnectBegin
             PROVE  IInv'
  OBVIOUS
<1>1. /\ life = "idle" /\ new_node = NoNode /\ fp' = NoFd
      /\ UNCHANGED <<mode, conns, i, open>>
  BY DEF ConnectBegin
<1>2. /\ ModeOK /\ ArrayOK /\ MakingOK /\ Objected /\ Array /\ Making /\ Held \subseteq live
      /\ live = Held \cup {ListNode} \cup ({new_node} \ {NoNode}) \cup LostNodes
      /\ Held \cap LostNodes = {} /\ new_node \notin Held
      /\ open \ {Listener} = (KeysHeld \ {Listener}) \cup ({fp} \ {NoFd}) \cup LostFds
      /\ fp \notin KeysHeld /\ (KeysHeld \cup {fp}) \cap LostFds = {} /\ LostFds \subseteq Fds /\ NoNode \notin Cells /\ Nodes \subseteq Cells
      /\ new_node \notin LostNodes
  BY <1>1, UsedFacts
<1>3. PICK n \in Nodes :
        \/ /\ \E s, c \in {NULL, Stale} : Allocated(n, s, c)
           /\ new_node' = n
           /\ UNCHANGED <<life, secure, objects, lost>>
        \/ /\ \E o \in Objects : AllocatedSSL(n, o)
           /\ new_node' = n
           /\ secure' = secure \cup {n}
           /\ UNCHANGED life
        \/ FillClientFails(n)
  BY DEF ConnectBegin
<1>4. CASE /\ \E s, c \in {NULL, Stale} : Allocated(n, s, c)
           /\ new_node' = n
           /\ UNCHANGED <<life, secure, objects, lost>>
  <2>1. PICK s \in {NULL, Stale}, c \in {NULL, Stale} : Allocated(n, s, c)
    BY <1>4
  <2>2. Objected' /\ LostNodes' = LostNodes /\ LostFds' = LostFds
    BY <1>2, <1>4, <2>1, AllocatedEffect
  <2>3. n \in Nodes \ live /\ live' = live \cup {n}
    BY <2>1 DEF Allocated
  <2> QED
    BY <1>1, <1>4, <2>2, <2>3, NewNodeNext
<1>5. CASE /\ \E o \in Objects : AllocatedSSL(n, o)
           /\ new_node' = n
           /\ secure' = secure \cup {n}
           /\ UNCHANGED life
  <2>1. PICK o \in Objects : AllocatedSSL(n, o)
    BY <1>5
  <2>2. n \in Nodes \ live /\ live' = live \cup {n} /\ Fill(n, o, TRUE)
    BY <2>1 DEF AllocatedSSL
  <2>3. n \in Cells /\ secure' \in SUBSET (secure \cup {n})
    BY <1>2, <1>5
  <2>4. Objected' /\ LostNodes' = LostNodes /\ LostFds' = LostFds
    BY <1>2, <2>2, <2>3, FillEffect
  <2> QED
    BY <1>1, <1>5, <2>2, <2>4, NewNodeNext
<1>6. CASE FillClientFails(n)
  <2>1. /\ Objected' /\ n \notin live
        /\ live' = live \cup {n} /\ LostNodes' = LostNodes \cup {n} /\ LostFds' = LostFds
        /\ new_node' = new_node /\ life' \in {life, "undefined"}
    BY <1>2, <1>6, FillClientEffect
  <2>2. ArrayOK' /\ Array' /\ m_size' = m_size /\ Held' = Held /\ KeysHeld' = KeysHeld
    <3>1. /\ life = "idle" /\ UNCHANGED conns
          /\ life' \notin {"corrupt", "destroyed"} /\ Held \subseteq live'
      BY <1>1, <1>2, <2>1
    <3> QED
      BY <1>2, <3>1, ArraySame
  <2>3. fp = NoFd /\ fp' = fp
    BY <1>1, <1>2 DEF Making
  <2>4. ModeOK'
    BY <1>1, <1>2, <2>1 DEF ModeOK, mode
  <2>5. MakingOK'
    <3>1. i = -1 /\ i' = i /\ open' = open
      BY <1>1, UsedFacts
    <3> QED
      BY <1>2, <2>1, <2>3, <3>1 DEF MakingOK
  <2>6. Making'
    BY <1>1, <1>2, <2>1, <2>3 DEF Making, mode
  <2>7. Used'
    <3>1. live' = Held' \cup {ListNode} \cup ({new_node'} \ {NoNode}) \cup LostNodes'
      BY <1>2, <2>1, <2>2
    <3>2. n \notin Held /\ n # NoNode
      BY <1>2, <2>1
    <3>3. (Held' \cup {new_node'}) \cap LostNodes' = {} /\ new_node' \notin Held'
      BY <1>1, <1>2, <2>1, <2>2, <3>2
    <3>4. OpenKnown'
      BY <1>1, <1>2, <2>1, <2>2, <2>3 DEF OpenKnown
    <3> QED
      BY <3>1, <3>3, <3>4 DEF Used
  <2>8. Destroying' /\ Destroyed'
    BY <1>1, <2>1 DEF Destroying, Destroyed
  <2> QED
    BY <2>1, <2>2, <2>4, <2>5, <2>6, <2>7, <2>8 DEF IInv, Owned
<1> QED
  BY <1>3, <1>4, <1>5, <1>6

LEMMA OpenNext == IInv /\ Open => IInv'
<1> SUFFICES ASSUME IInv, Open
             PROVE  IInv'
  OBVIOUS
<1>1. PICK fd \in Fds \ open : fp' = fd /\ open' = open \cup {fd}
  BY DEF Open
<1>2. /\ life \in {"idle", "running"} /\ life' = life /\ new_node # NoNode /\ fp = NoFd
      /\ UNCHANGED <<mode, conns>> /\ new_node' = new_node /\ i' = i
      /\ UNCHANGED <<nodes, objects, lost>>
  BY DEF Open
<1>3. /\ ModeOK /\ ArrayOK /\ MakingOK /\ Objected /\ Array /\ Making
      /\ open \ {Listener} = (KeysHeld \ {Listener}) \cup ({fp} \ {NoFd}) \cup LostFds
      /\ fp \notin KeysHeld /\ (KeysHeld \cup {fp}) \cap LostFds = {} /\ LostFds \subseteq Fds
      /\ KeysHeld \subseteq Fds \cup {Listener}
      /\ Listener \notin Fds /\ NoFd \notin Fds \cup {Listener}
  BY <1>2, UsedFacts
<1>4. Objected' /\ live' = live /\ LostNodes' = LostNodes /\ LostFds' = LostFds
  BY <1>2, <1>3, NodesSame
<1>5. ArrayOK' /\ Array' /\ m_size' = m_size /\ Held' = Held /\ KeysHeld' = KeysHeld
  <2>1. /\ life \in {"idle", "running"} /\ UNCHANGED conns
        /\ life' \notin {"corrupt", "destroyed", "undefined"}
        /\ Held \subseteq live => Held \subseteq live'
    BY <1>2, <1>4
  <2> QED
    BY <1>3, <2>1, ArraySame
<1>6. ModeOK' /\ MakingOK' /\ Making'
  BY <1>1, <1>2, <1>3, <1>5 DEF ModeOK, MakingOK, Making, mode
<1>7. Used'
  <2>1. fd # Listener /\ fd # NoFd /\ fd \notin KeysHeld
    BY <1>3
  <2>2. OpenKnown'
    BY <1>1, <1>2, <1>3, <1>4, <1>5, <2>1 DEF OpenKnown
  <2>3. /\ live' = Held' \cup {ListNode} \cup ({new_node'} \ {NoNode}) \cup LostNodes'
        /\ (Held' \cup {new_node'}) \cap LostNodes' = {} /\ new_node' \notin Held'
    BY <1>2, <1>4, <1>5 DEF IInv, Owned, Used, OpenKnown
  <2> QED
    BY <2>2, <2>3 DEF Used
<1>8. Destroying' /\ Destroyed'
  BY <1>2 DEF Destroying, Destroyed
<1> QED
  BY <1>4, <1>5, <1>6, <1>7, <1>8 DEF IInv, Owned

LEMMA EnterNext == IInv /\ Enter => IInv'
<1> SUFFICES ASSUME IInv, Enter
             PROVE  IInv'
  OBVIOUS
<1>1. /\ life \in {"idle", "running"} /\ life' = life /\ fp # NoFd
      /\ m_ssl_nodes!add(fp, new_node) /\ new_node' = NoNode /\ fp' = NoFd
      /\ UNCHANGED mode /\ i' = i /\ UNCHANGED <<nodes, objects, lost>> /\ open' = open
  BY DEF Enter
<1>2. /\ ModeOK /\ ArrayOK /\ MakingOK /\ Objected /\ Array /\ Making
      /\ live = Held \cup {ListNode} \cup ({new_node} \ {NoNode}) \cup LostNodes
      /\ Held \cap LostNodes = {} /\ new_node \notin LostNodes /\ new_node \notin Held
      /\ open \ {Listener} = (KeysHeld \ {Listener}) \cup ({fp} \ {NoFd}) \cup LostFds
      /\ fp \notin KeysHeld /\ (KeysHeld \cup {fp}) \cap LostFds = {} /\ LostFds \subseteq Fds /\ LostNodes \subseteq Nodes /\ i = -1
      /\ NoNode \notin Cells /\ NoFd \notin Fds \cup {Listener}
      /\ Held \subseteq Cells /\ KeysHeld \subseteq Fds \cup {Listener} /\ Nodes \subseteq Cells
      /\ Listener \notin Fds
  BY <1>1, UsedFacts
<1>3. fp \in Fds /\ new_node \in Nodes /\ new_node # NoNode
  BY <1>1, <1>2 DEF MakingOK, Making
<1>4. Objected' /\ live' = live /\ LostNodes' = LostNodes /\ LostFds' = LostFds
  BY <1>1, <1>2, NodesSame
<1>5. /\ ArrayOK' /\ Array'
      /\ Held' = Held \cup {new_node} /\ KeysHeld' = KeysHeld \cup {fp}
  <2>1. new_node \in live \ Held
    BY <1>1, <1>2, <1>3
  <2> QED
    BY <1>1, <1>2, <1>3, <1>4, <2>1, EnterEffect
<1>6. ModeOK'
  BY <1>1, <1>2 DEF ModeOK, mode
<1>7. MakingOK'
  BY <1>1, <1>2 DEF MakingOK
<1>8. Making'
  BY <1>1, <1>2 DEF Making, mode
<1>9. Used'
  <2>1. live' = Held' \cup {ListNode} \cup ({new_node'} \ {NoNode}) \cup LostNodes'
    BY <1>1, <1>2, <1>3, <1>4, <1>5
  <2>2. (Held' \cup {new_node'}) \cap LostNodes' = {} /\ new_node' \notin Held'
    BY <1>1, <1>2, <1>3, <1>4, <1>5
  <2>3. OpenKnown'
    BY <1>1, <1>2, <1>3, <1>4, <1>5 DEF OpenKnown
  <2> QED
    BY <2>1, <2>2, <2>3 DEF Used
<1>10. Destroying' /\ Destroyed'
  BY <1>1 DEF Destroying, Destroyed
<1> QED
  BY <1>4, <1>5, <1>6, <1>7, <1>8, <1>9, <1>10 DEF IInv, Owned

(* A failure frees the node and touches no entry.  Its descriptor is       *)
(* closed, or it is lost, or another one is closed, which ends the used    *)
(* life.                                                                   *)
LEMMA FailedNext ==
    ASSUME IInv, life \in {"idle", "running"}, new_node # NoNode,
           NEW stay \in {life, "undefined"}, dstr_ssl_node(new_node, stay),
           NEW gone \in SUBSET Fds, lost' = lost \cup ({"fd"} \X gone),
           \/ stay = "undefined"
           \/ gone = {} /\ open' = open \ {fp}
           \/ gone = {fp} /\ fp # NoFd /\ open' = open,
           open' \subseteq open, new_node' = NoNode, fp' = NoFd,
           UNCHANGED <<mode, conns, i>>
    PROVE  IInv'
<1>1. i' = i
  OBVIOUS
<1>2. /\ ModeOK /\ ArrayOK /\ MakingOK /\ Objected /\ Array /\ Making /\ Held \subseteq live
      /\ live = Held \cup {ListNode} \cup ({new_node} \ {NoNode}) \cup LostNodes
      /\ Held \cap LostNodes = {} /\ new_node \notin LostNodes /\ new_node \notin Held
      /\ open \ {Listener} = (KeysHeld \ {Listener}) \cup ({fp} \ {NoFd}) \cup LostFds
      /\ fp \notin KeysHeld /\ (KeysHeld \cup {fp}) \cap LostFds = {} /\ LostFds \subseteq Fds
      /\ LostNodes \subseteq Nodes /\ i = -1
      /\ NoNode \notin Cells /\ NoFd \notin Fds \cup {Listener} /\ ListNode \notin Nodes
      /\ Held \subseteq Cells /\ KeysHeld \subseteq Fds \cup {Listener} /\ Nodes \subseteq Cells
      /\ Listener \notin Fds
  BY UsedFacts
<1>3. new_node \in Nodes /\ new_node \in live /\ new_node # ListNode /\ fp \in Fds \cup {NoFd}
  BY <1>2 DEF MakingOK
<1>4. /\ Objected' /\ LostNodes' = LostNodes /\ LostFds' = LostFds \cup gone
      /\ live' = live \ {new_node} /\ life' \in {stay, "undefined", "corrupt"}
      /\ life' = "corrupt" => unset'
  BY <1>2, <1>3, DstrLosing
<1>5. ArrayOK' /\ Array' /\ m_size' = m_size /\ Held' = Held /\ KeysHeld' = KeysHeld
  <2>1. UNCHANGED conns /\ life' # "destroyed" /\ Held \subseteq live'
    BY <1>2, <1>4
  <2> QED
    BY <1>2, <1>4, <2>1, ArraySame
<1>6. ModeOK'
  BY <1>2, <1>4 DEF ModeOK, mode
<1>7. MakingOK'
  BY <1>1, <1>2 DEF MakingOK
<1>8. Making'
  BY <1>2 DEF Making, mode
<1>9. Used'
  <2>1. live' = Held' \cup {ListNode} \cup ({new_node'} \ {NoNode}) \cup LostNodes'
    BY <1>2, <1>3, <1>4, <1>5
  <2>2. (Held' \cup {new_node'}) \cap LostNodes' = {} /\ new_node' \notin Held'
    BY <1>2, <1>4, <1>5
  <2>3. CASE stay = "undefined"
    BY <1>4, <2>3 DEF Used
  <2>4. CASE gone = {} /\ open' = open \ {fp}
    <3>1. OpenKnown'
      BY <1>2, <1>3, <1>4, <1>5, <2>4 DEF OpenKnown
    <3> QED
      BY <2>1, <2>2, <3>1 DEF Used
  <2>5. CASE gone = {fp} /\ fp # NoFd /\ open' = open
    <3>1. OpenKnown'
      BY <1>2, <1>3, <1>4, <1>5, <2>5 DEF OpenKnown
    <3> QED
      BY <2>1, <2>2, <3>1 DEF Used
  <2> QED
    BY <2>3, <2>4, <2>5
<1>10. Destroying' /\ Destroyed'
  BY <1>4 DEF Destroying, Destroyed
<1> QED
  BY <1>4, <1>5, <1>6, <1>7, <1>8, <1>9, <1>10 DEF IInv, Owned

LEMMA FailNext == IInv /\ Fail => IInv'
<1> SUFFICES ASSUME IInv, Fail
             PROVE  IInv'
  OBVIOUS
<1>1. /\ life \in {"idle", "running"} /\ new_node # NoNode
      /\ dstr_ssl_node(new_node, life) /\ open' = open \ {fp}
      /\ new_node' = NoNode /\ fp' = NoFd
      /\ UNCHANGED <<mode, conns, i>> /\ lost' = lost
  BY DEF Fail
<1> DEFINE gone == {}
           stay == life
<1>2. gone \in SUBSET Fds /\ lost' = lost \cup ({"fd"} \X gone) /\ gone = {}
  BY <1>1
<1>3. stay \in {life, "undefined"} /\ dstr_ssl_node(new_node, stay)
  BY <1>1
<1> HIDE DEF gone, stay
<1> QED
  BY <1>1, <1>2, <1>3, FailedNext

LEMMA FailDeletedNext == IInv /\ FailDeleted => IInv'
<1> SUFFICES ASSUME IInv, FailDeleted
             PROVE  IInv'
  OBVIOUS
<1>1. /\ life \in {"idle", "running"} /\ fp # NoFd /\ new_node' = NoNode /\ fp' = NoFd
      /\ UNCHANGED <<mode, conns, i>>
  BY DEF FailDeleted
<1>2. new_node # NoNode /\ fp \in Fds
  BY <1>1 DEF IInv, Owned, Making, MakingOK
<1>3. PICK stay \in {life, "undefined"}, gone \in {{}, {fp}} :
        /\ dstr_ssl_node(new_node, stay)
        /\ lost' = lost \cup ({"fd"} \X gone)
        /\ \/ stay = "undefined"
           \/ gone = {} /\ open' = open \ {fp}
           \/ gone = {fp} /\ fp # NoFd /\ open' = open
        /\ open' \subseteq open
  <2>1. {"fd"} \X {fp} = {<<"fd", fp>>} /\ {"fd"} \X {} = {}
    OBVIOUS
  <2>2. CASE dstr_ssl_node(new_node, life) /\ open' = open \ {fp} /\ UNCHANGED lost
    <3>1. lost' = lost \cup ({"fd"} \X {}) /\ open' \subseteq open
      BY <2>1, <2>2
    <3> QED
      BY <2>2, <3>1
  <2>3. CASE /\ dstr_ssl_node(new_node, life) /\ UNCHANGED open
             /\ lost' = lost \cup {<<"fd", fp>>}
    BY <1>1, <2>1, <2>3
  <2>4. CASE /\ dstr_ssl_node(new_node, "undefined")
             /\ \E fd \in open \ {fp} : open' = open \ {fd}
             /\ lost' = lost \cup {<<"fd", fp>>}
    <3>1. open' \subseteq open
      BY <2>4
    <3> QED
      BY <2>1, <2>4, <3>1
  <2> QED
    BY <2>2, <2>3, <2>4 DEF FailDeleted
<1>4. gone \in SUBSET Fds
  BY <1>2, <1>3
<1> QED
  BY <1>1, <1>2, <1>3, <1>4, FailedNext

-----------------------------------------------------------------------------
(* run, and a connection that goes.                                        *)

LEMMA RunOrReturnNext == IInv /\ (Run \/ Return) => IInv'
<1> SUFFICES ASSUME IInv, Run \/ Return
             PROVE  IInv'
  OBVIOUS
<1>1. /\ life \in {"idle", "running"} /\ life' \in {"idle", "running"} /\ new_node = NoNode
      /\ m_active' \in {TRUE, m_active} /\ ssl_enabled' = ssl_enabled
      /\ required' = required /\ readable' = readable
      /\ UNCHANGED conns /\ new_node' = new_node /\ fp' = fp
      /\ i' = i /\ UNCHANGED <<nodes, objects, lost>> /\ open' = open
  BY DEF Run, Return, mode, making
<1>2. /\ ModeOK /\ ArrayOK /\ MakingOK /\ Objected /\ Array /\ Making /\ i = -1
  BY <1>1, UsedFacts
<1>3. Objected' /\ live' = live /\ LostNodes' = LostNodes /\ LostFds' = LostFds
  BY <1>1, <1>2, NodesSame
<1>4. ArrayOK' /\ Array' /\ m_size' = m_size /\ Held' = Held /\ KeysHeld' = KeysHeld
  <2>1. /\ life \in {"idle", "running"}
        /\ life' \notin {"corrupt", "destroyed", "undefined"}
        /\ Held \subseteq live => Held \subseteq live'
    BY <1>1, <1>3
  <2> QED
    BY <1>1, <1>2, <2>1, ArraySame
<1>5. ModeOK'
  <2>1. life' \in {"idle", "running", "destroying", "destroyed", "undefined", "corrupt"}
    BY <1>1
  <2>2. m_active' \in BOOLEAN
    BY <1>1, <1>2 DEF ModeOK
  <2> QED
    BY <1>1, <1>2, <2>1, <2>2 DEF ModeOK
<1>6. MakingOK' /\ Making'
  BY <1>1, <1>2 DEF MakingOK, Making
<1>7. Used'
  BY <1>1, <1>3, <1>4 DEF IInv, Owned, Used, OpenKnown
<1>8. Destroying' /\ Destroyed'
  BY <1>1 DEF Destroying, Destroyed
<1> QED
  BY <1>3, <1>4, <1>5, <1>6, <1>7, <1>8 DEF IInv, Owned

(* The node, its descriptor and their entry go together. *)
LEMMA DisconnectNext == IInv /\ Disconnect => IInv'
<1> SUFFICES ASSUME IInv, Disconnect
             PROVE  IInv'
  OBVIOUS
<1>1. PICK k \in Entries : m_first_array[k] \in Fds /\ DisconnectAt(k)
  BY DEF Disconnect
<1> DEFINE n == m_second_array[k]
           fd == m_first_array[k]
<1>2. /\ life = "running" /\ new_node = NoNode /\ UNCHANGED mode
      /\ new_node' = new_node /\ fp' = fp /\ i' = i /\ lost' = lost
      /\ open' = open \ {fd} /\ dstr_ssl_node(n, "running") /\ m_ssl_nodes!remove(fd)
  BY <1>1 DEF Disconnect, DisconnectAt, making
<1>3. /\ ModeOK /\ ArrayOK /\ MakingOK /\ Objected /\ Array /\ Making /\ Held \subseteq live
      /\ live = Held \cup {ListNode} \cup ({new_node} \ {NoNode}) \cup LostNodes
      /\ Held \cap LostNodes = {} /\ new_node \notin LostNodes /\ new_node \notin Held
      /\ open \ {Listener} = (KeysHeld \ {Listener}) \cup ({fp} \ {NoFd}) \cup LostFds
      /\ fp \notin KeysHeld /\ (KeysHeld \cup {fp}) \cap LostFds = {} /\ LostFds \subseteq Fds /\ i = -1
      /\ NoNode \notin Cells /\ NoFd \notin Fds \cup {Listener} /\ ListNode \notin Nodes
      /\ Held \subseteq Cells /\ KeysHeld \subseteq Fds \cup {Listener}
      /\ Listener \notin Fds
  BY <1>2, UsedFacts
<1>4. n \in Held /\ fd \in KeysHeld /\ n # ListNode /\ fd # Listener
  <2>1. n \in Held /\ fd \in KeysHeld
    BY DEF Held, KeysHeld
  <2>2. fd # Listener
    BY <1>1, <1>3
  <2>3. n # ListNode
    BY <1>2, <1>3, <2>2 DEF Array, Distinct
  <2> QED
    BY <2>1, <2>2, <2>3
<1>5. /\ Objected' /\ LostNodes' = LostNodes /\ LostFds' = LostFds
      /\ live' = live \ {n} /\ life' \in {"running", "undefined", "corrupt"}
      /\ life' = "corrupt" => unset'
  BY <1>2, <1>3, <1>4, DstrEffect
<1>6. ArrayOK' /\ Array' /\ Held' = Held \ {n} /\ KeysHeld' = KeysHeld \ {fd}
  <2>1. /\ life \in {"running", "destroying"}
        /\ life' \in {"running", "destroying", "undefined", "corrupt"}
    BY <1>2, <1>5
  <2> QED
    BY <1>2, <1>3, <1>5, <2>1, RemoveEffect
<1> HIDE DEF n, fd
<1>7. fp = NoFd
  BY <1>2, <1>3 DEF Making
<1>8. ModeOK'
  BY <1>2, <1>3, <1>5 DEF ModeOK, mode
<1>9. MakingOK' /\ Making'
  BY <1>2, <1>3 DEF MakingOK, Making, mode
<1>10. Used'
  <2>1. live' = Held' \cup {ListNode} \cup ({new_node'} \ {NoNode}) \cup LostNodes'
    BY <1>2, <1>3, <1>4, <1>5, <1>6
  <2>2. (Held' \cup {new_node'}) \cap LostNodes' = {} /\ new_node' \notin Held'
    BY <1>2, <1>3, <1>5, <1>6
  <2>3. OpenKnown'
    BY <1>2, <1>3, <1>4, <1>5, <1>6, <1>7 DEF OpenKnown
  <2> QED
    BY <2>1, <2>2, <2>3 DEF Used
<1>11. Destroying' /\ Destroyed'
  BY <1>5 DEF Destroying, Destroyed
<1> QED
  BY <1>5, <1>6, <1>8, <1>9, <1>10, <1>11 DEF IInv, Owned

-----------------------------------------------------------------------------
(* The destructor.                                                         *)

LEMMA DestroyBeginNext == IInv /\ DestroyBegin => IInv'
<1> SUFFICES ASSUME IInv, DestroyBegin
             PROVE  IInv'
  OBVIOUS
<1>1. /\ life = "idle" /\ new_node = NoNode /\ life' = "destroying" /\ i' = m_size - 1
      /\ UNCHANGED <<mode, conns>> /\ new_node' = new_node /\ fp' = fp
      /\ UNCHANGED <<nodes, objects, lost>> /\ open' = open
  BY DEF DestroyBegin, making
<1>2. /\ ModeOK /\ ArrayOK /\ MakingOK /\ Objected /\ Array /\ Making
      /\ live = Held \cup {ListNode} \cup ({new_node} \ {NoNode}) \cup LostNodes
      /\ Held \cap LostNodes = {} /\ LostNodes \subseteq Nodes /\ ListNode \notin Nodes
  BY <1>1, UsedFacts
<1>3. Objected' /\ live' = live /\ LostNodes' = LostNodes /\ LostFds' = LostFds
  BY <1>1, <1>2, NodesSame
<1>4. ArrayOK' /\ Array' /\ m_size' = m_size /\ Held' = Held /\ KeysHeld' = KeysHeld
  <2>1. /\ life \in {"idle", "running"} /\ UNCHANGED conns
        /\ life' \notin {"corrupt", "destroyed", "undefined"}
        /\ Held \subseteq live => Held \subseteq live'
    BY <1>1, <1>3
  <2> QED
    BY <1>2, <2>1, ArraySame
<1>5. ModeOK' /\ Making'
  BY <1>1, <1>2 DEF ModeOK, Making, mode
<1>6. MakingOK'
  BY <1>1, <1>2, <1>4 DEF MakingOK
<1>7. Destroying'
  BY <1>1, <1>2, <1>3, <1>4 DEF Destroying
<1>8. Used' /\ Destroyed'
  BY <1>1 DEF Used, Destroyed
<1> QED
  BY <1>3, <1>4, <1>5, <1>6, <1>7, <1>8 DEF IInv, Owned

(* A turn of the loop frees the node of the last entry and removes it: the *)
(* index and the end of the array move together.                           *)
LEMMA DestroyTurnNext == IInv /\ DestroyTurn => IInv'
<1> SUFFICES ASSUME IInv, DestroyTurn
             PROVE  IInv'
  OBVIOUS
<1> DEFINE n == m_second_array[i]
           fd == m_first_array[i]
<1>1. /\ life = "destroying" /\ i >= 0 /\ i' = i - 1 /\ UNCHANGED mode
      /\ new_node' = new_node /\ fp' = fp /\ open' = open /\ lost' = lost
      /\ dstr_ssl_node(n, "destroying") /\ m_ssl_nodes!remove(fd)
  BY DEF DestroyTurn, DestroyEntry, making,
         m_ssl_nodes!getFromFirstByIndex, m_ssl_nodes!getFromSecondByIndex
<1>2. /\ ModeOK /\ ArrayOK /\ MakingOK /\ Objected /\ NodesOK /\ Array /\ Making
      /\ Held \subseteq live
      /\ live \ {ListNode} = (Held \ {ListNode}) \cup LostNodes
      /\ Held \cap LostNodes = {} /\ i = m_size - 1
  BY <1>1 DEF IInv, Owned, Destroying, Objected, Array
<1>3. i \in Entries /\ n \in Held
  BY <1>1, <1>2 DEF ArrayOK, Entries, Held
<1>4. /\ Objected' /\ LostNodes' = LostNodes /\ LostFds' = LostFds
      /\ live' = live \ {n} /\ life' \in {"destroying", "undefined", "corrupt"}
      /\ life' = "corrupt" => unset'
  BY <1>1, <1>2, <1>3, DstrEffect
<1>5. ArrayOK' /\ Array' /\ m_size' = m_size - 1 /\ Held' = Held \ {n}
  <2>1. /\ life \in {"running", "destroying"}
        /\ life' \in {"running", "destroying", "undefined", "corrupt"}
    BY <1>1, <1>4
  <2> QED
    BY <1>1, <1>2, <1>3, <1>4, <2>1, RemoveEffect
<1> HIDE DEF n, fd
<1>6. ModeOK'
  BY <1>1, <1>2, <1>4 DEF ModeOK, mode
<1>7. MakingOK'
  BY <1>1, <1>2, <1>4, <1>5 DEF MakingOK
<1>8. Making'
  BY <1>1, <1>2 DEF Making, mode
<1>9. Destroying'
  <2>1. live' \ {ListNode} = (Held' \ {ListNode}) \cup LostNodes'
    BY <1>2, <1>3, <1>4, <1>5
  <2>2. Held' \cap LostNodes' = {} /\ i' = m_size' - 1
    BY <1>1, <1>2, <1>4, <1>5
  <2> QED
    BY <2>1, <2>2 DEF Destroying
<1>10. Used' /\ Destroyed'
  BY <1>4 DEF Used, Destroyed
<1> QED
  BY <1>4, <1>5, <1>6, <1>7, <1>8, <1>9, <1>10 DEF IInv, Owned

LEMMA DestroyEndNext == IInv /\ DestroyEnd => IInv'
<1> SUFFICES ASSUME IInv, DestroyEnd
             PROVE  IInv'
  OBVIOUS
<1>1. /\ life = "destroying" /\ i < 0 /\ life' = "destroyed" /\ open' = open \ {Listener}
      /\ UNCHANGED mode /\ new_node' = new_node /\ fp' = fp /\ i' = i
      /\ UNCHANGED <<nodes, objects, lost>>
      /\ m_first_array' = m_ssl_nodes!Fresh(0) /\ m_second_array' = m_ssl_nodes!Fresh(0)
      /\ m_size' = m_size /\ m_cap' = m_cap
  BY DEF DestroyEnd, making, m_ssl_nodes!delete
<1>2. /\ ModeOK /\ ArrayOK /\ MakingOK /\ Objected /\ Making
      /\ live \ {ListNode} = (Held \ {ListNode}) \cup LostNodes /\ i = m_size - 1
  BY <1>1 DEF IInv, Owned, Destroying
<1>3. m_size = 0 /\ i = -1
  BY <1>1, <1>2 DEF ArrayOK
<1>4. Held = {}
  BY <1>3 DEF Held, Entries
<1>5. Objected' /\ live' = live /\ LostNodes' = LostNodes /\ LostFds' = LostFds
  BY <1>1, <1>2, NodesSame
<1>6. ArrayOK'
  <2>1. m_ssl_nodes!Fresh(0) = [k \in {} |-> NoValue]
    BY DEF m_ssl_nodes!Fresh, m_ssl_nodes!Slots
  <2> QED
    BY <1>1, <1>2, <2>1 DEF ArrayOK, Storage
<1>7. Array'
  BY <1>1 DEF Array
<1>8. ModeOK'
  BY <1>1, <1>2 DEF ModeOK, mode
<1>9. MakingOK'
  BY <1>1, <1>2, <1>3 DEF MakingOK
<1>10. Making'
  BY <1>1, <1>2 DEF IInv, Owned, Making, mode
<1>11. Destroyed'
  BY <1>1, <1>2, <1>3, <1>4, <1>5 DEF Destroyed
<1>12. Used' /\ Destroying'
  BY <1>1 DEF Used, Destroying
<1> QED
  BY <1>5, <1>6, <1>7, <1>8, <1>9, <1>10, <1>11, <1>12 DEF IInv, Owned

LEMMA IInvStutter == IInv /\ UNCHANGED vars => IInv'
<1> SUFFICES ASSUME IInv, UNCHANGED vars
             PROVE  IInv'
  OBVIOUS
<1>1. /\ life' = life /\ UNCHANGED <<mode, conns, making>> /\ i' = i
      /\ UNCHANGED <<nodes, objects, lost>> /\ open' = open
  BY DEF vars
<1>2. Objected' /\ live' = live /\ LostNodes' = LostNodes /\ LostFds' = LostFds
  BY <1>1, NodesSame DEF IInv
<1>3. /\ ssl_enabled' = ssl_enabled /\ required' = required
      /\ m_active' = m_active /\ readable' = readable
      /\ m_size' = m_size /\ m_cap' = m_cap
      /\ m_first_array' = m_first_array /\ m_second_array' = m_second_array
      /\ new_node' = new_node /\ fp' = fp
  BY <1>1 DEF mode, conns, making
<1>4. Entries' = Entries /\ Held' = Held /\ KeysHeld' = KeysHeld
  BY <1>3 DEF Entries, Held, KeysHeld
<1>5. ModeOK'
  BY <1>1, <1>3 DEF IInv, ModeOK
<1>6. ArrayOK' /\ MakingOK'
  BY <1>1, <1>3 DEF IInv, ArrayOK, Storage, Cells, MakingOK
<1>7. Array'
  BY <1>1, <1>2, <1>3, <1>4 DEF IInv, Owned, Array, Distinct, nodes
<1>8. Making'
  BY <1>1, <1>3 DEF IInv, Owned, Making
<1>9. Used' /\ Destroying' /\ Destroyed'
  BY <1>1, <1>2, <1>3, <1>4 DEF IInv, Owned, Used, OpenKnown, Destroying, Destroyed
<1> QED
  BY <1>2, <1>5, <1>6, <1>7, <1>8, <1>9 DEF IInv, Owned

LEMMA IInvNext == IInv /\ [Next]_vars => IInv'
BY SetUpSSLNext, RequireCertsNext, ConnectBeginNext, RunOrReturnNext, DestroyBeginNext,
   AcceptBeginNext, OpenNext, EnterNext, FailNext, FailDeletedNext, DisconnectNext, DestroyTurnNext,
   DestroyEndNext, IInvStutter
   DEF Next, Program

(* Different entries have different nodes. *)
LEMMA HeldCount ==
    ASSUME m_size \in Nat, Distinct
    PROVE  Cardinality(Held) = m_size
<1> DEFINE f == [k \in Entries |-> m_second_array[k]]
<1>1. f \in Bijection(Entries, Held)
  <2>1. \A k \in Entries : f[k] = m_second_array[k]
    OBVIOUS
  <2>2. f \in [Entries -> Held]
    BY DEF Held
  <2>3. \A j, k \in Entries : f[j] = f[k] => j = k
    BY <2>1 DEF Distinct
  <2>4. \A n \in Held : \E k \in Entries : f[k] = n
    BY <2>1 DEF Held
  <2> HIDE DEF f
  <2> QED
    BY <2>2, <2>3, <2>4 DEF Bijection, Injection, IsInjective, Surjection
<1>2. IsFiniteSet(Entries) /\ Cardinality(Entries) = m_size
  <2>1. IsFiniteSet(0 .. m_size - 1)
        /\ Cardinality(0 .. m_size - 1) = IF 0 > m_size - 1 THEN 0 ELSE m_size - 1 - 0 + 1
    BY FS_Interval
  <2> QED
    BY <2>1 DEF Entries
<1>3. ExistsBijection(Entries, Held)
  BY <1>1 DEF ExistsBijection
<1> QED
  BY <1>2, <1>3, FS_Bijection

LEMMA TypeParts ==
    ASSUME IInv
    PROVE  TypeOK
<1>1. ModeOK /\ ArrayOK /\ MakingOK /\ NodesOK
  BY DEF IInv, Objected
<1>2. \A b \in {ssl_enabled, required, m_active, readable, unset} : b \in BOOLEAN
  BY <1>1 DEF ModeOK, NodesOK
<1>3. life \in {"idle", "running", "destroying", "destroyed", "undefined", "corrupt"}
  BY <1>1 DEF ModeOK
<1>4. /\ m_size \in Nat /\ m_cap \in Nat \ {0} /\ m_size <= m_cap
      /\ m_first_array \in [Storage -> Fds \cup {Listener, NoValue}]
      /\ m_second_array \in [Storage -> Cells \cup {NoValue}]
  BY <1>1 DEF ArrayOK
<1>5. /\ new_node \in Nodes \cup {NoNode} /\ fp \in Fds \cup {NoFd}
      /\ i = -1 \/ (life \in {"destroying", "undefined", "corrupt"} /\ i = m_size - 1)
      /\ open \in SUBSET (Fds \cup {Listener})
  BY <1>1 DEF MakingOK
<1>6. /\ live \in SUBSET Cells /\ secure \in SUBSET live
      /\ ssl \in [Cells -> Objects \cup {NULL, Stale}]
      /\ ssl_ctx \in [Cells -> Objects \cup {NULL, Stale}]
      /\ SSLs \in SUBSET Objects /\ CTXs \in SUBSET Objects
      /\ lost \in SUBSET Losses
  BY <1>1 DEF NodesOK
<1> QED
  BY <1>2, <1>3, <1>4, <1>5, <1>6 DEF TypeOK, Storage, Losses

LEMMA NobodyTwice ==
    ASSUME IInv
    PROVE  FreedOnce
<1>1. /\ Hanging /\ Secured /\ (life = "corrupt" => unset)
      /\ live \in SUBSET Cells /\ secure \in SUBSET live
  BY DEF IInv, Objected, Owned, Array, NodesOK
<1>2. \A n \in live : \A k \in live \ {n} :
        /\ ssl[n] \in Objects => ssl[n] # ssl[k]
        /\ ssl_ctx[n] \in Objects => ssl_ctx[n] # ssl_ctx[k]
  BY <1>1 DEF Hanging, Hangs
<1>3. \A n \in secure : ssl[n] \in SSLs /\ ssl_ctx[n] \in CTXs
  BY <1>1 DEF Hanging, Hangs, Secured
<1> QED
  BY <1>1, <1>2, <1>3 DEF FreedOnce

LEMMA OwnersKnown ==
    ASSUME IInv
    PROVE  NothingLost
<1>1. \A kind : LostOf(kind) = LostIn(kind, lost)
  BY DEF LostOf, LostIn
<1>2. /\ SSLs = Pointed(ssl) \cup LostOf("ssl")
      /\ CTXs = Pointed(ssl_ctx) \cup LostOf("ctx")
  BY <1>1 DEF IInv, Objected, Hanging, Hangs, Pointed
<1>3. ASSUME life \in {"idle", "running"}
      PROVE  /\ live = Held \cup {ListNode} \cup ({new_node} \ {NoNode}) \cup LostOf("node")
             /\ Cardinality(Held) = m_size
             /\ (Held \cup {new_node}) \cap LostOf("node") = {} /\ new_node \notin Held
             /\ open \ {Listener} = ({m_first_array[k] : k \in Entries} \ {Listener})
                                    \cup ({fp} \ {NoFd}) \cup LostOf("fd")
  <2>1. m_size \in Nat /\ Distinct
    BY <1>3 DEF IInv, ArrayOK, Owned, Array
  <2>2. Cardinality(Held) = m_size
    BY <2>1, HeldCount
  <2>3. Used /\ LostNodes = LostOf("node") /\ LostFds = LostOf("fd")
    BY <1>1 DEF IInv, Owned, LostNodes, LostFds
  <2> QED
    BY <1>3, <2>2, <2>3 DEF Used, OpenKnown, KeysHeld
<1>4. life = "destroyed" =>
        m_size = 0 /\ Listener \notin open /\ live \ {ListNode} = LostOf("node")
  BY <1>1 DEF IInv, Owned, Destroyed, LostNodes
<1> QED
  BY <1>2, <1>3, <1>4 DEF NothingLost

-----------------------------------------------------------------------------
(* In every reachable state, each node, object and descriptor of a server  *)
(* is where the constructors, judoMakeServerSock_, the judoFill calls and  *)
(* ~JudoServer have put it: in use by one owner, or among the lost.        *)
THEOREM Invariance == Spec => []IInv
BY IInvInit, IInvNext, PTL DEF Spec

(* Every variable keeps its type from the constructor to the end of the    *)
(* destructor, and the destructor's index never leaves the array.          *)
THEOREM TypeCorrect == Spec => []TypeOK
<1>1. IInv => TypeOK
  BY TypeParts
<1> QED
  BY <1>1, Invariance, PTL

(* As long as every pointer freed has been set, no node, SSL or SSL_CTX is *)
(* freed twice; none ever hangs on two nodes, however connections fail,    *)
(* end, or are left to the destructor; and a connection with certificates  *)
(* keeps SSL objects of its own until it is freed.                         *)
THEOREM AlwaysFreedOnce == Spec => []FreedOnce
<1>1. IInv => FreedOnce
  BY NobodyTwice
<1> QED
  BY <1>1, Invariance, PTL

(* Every node, descriptor, SSL and SSL_CTX has its one owner, apart from   *)
(* those lost on the paths of the source that lose some: a node at 241, an *)
(* SSL_CTX at 158, SSL objects to a repeated judoSetUpServerSockSSL, and   *)
(* descriptors at 191, 289 and 302.  The destructor's loop, which moves    *)
(* the end of the array it walks, misses no entry.                         *)
THEOREM NothingElseLost == Spec => []NothingLost
<1>1. IInv => NothingLost
  BY OwnersKnown
<1> QED
  BY <1>1, Invariance, PTL
==============================================================================
