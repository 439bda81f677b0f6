--------------------------- MODULE JudoPacketsProofs ---------------------------
(***************************************************************************)
(* Theorems about judoSend_ and judoRead_, for messages of any length, any *)
(* payload and record length and any number of messages, as long as the    *)
(* network delivers packets whole: what run prints are the messages, each  *)
(* complete, in the order they were sent, and judoRead_ stays inside the   *)
(* buffer it has allocated.                                                *)
(*                                                                         *)
(* The inductive invariant says where every unit on its way belongs.  What *)
(* is in read_bio, in the kernel and on the wire is, one behind the other, *)
(* a row of whole packets that begins with the one judoRead_ needs next,   *)
(* goes on packet by packet and message by message, and ends before the    *)
(* one judoSend_ writes next; and what the kernel has ends with a packet.  *)
(***************************************************************************)
EXTENDS JudoPackets, SequenceTheorems, TLAPS

Unit(m, n, j) == [packet |-> PacketOf(m, n), unit |-> j]
UnitsOf(m) == {Unit(m, n, j) : n \in 1 .. Packets(m), j \in 1 .. Buffer}
GoodUnits == UNION {UnitsOf(m) : m \in Messages}

Stream == (read_bio \o kernel) \o wire

(* Packet b of the row begins behind start[b], and is packet num[b] of     *)
(* message todo[msg[b]]; the last of both are the sender's position.  The  *)
(* kernel and read_bio have the first c packets.                           *)
Rows(q) == [1 .. q + 1 -> Nat]
Blocks(q, c, start) ==
    /\ start[1] = 0 /\ start[q + 1] = Len(Stream)
    /\ \A b \in 1 .. q : start[b + 1] = start[b] + Size
    /\ \A b \in 1 .. q + 1 : start[b] <= Len(Stream)
    /\ c \in 0 .. q /\ start[c + 1] = Len(read_bio) + Len(kernel)
Contents(q, start, msg, num) ==
    \A b \in 1 .. q :
        /\ msg[b] \in 1 .. Len(todo) /\ num[b] \in 1 .. Packets(todo[msg[b]])
        /\ \A j \in 1 .. Size : Stream[start[b] + j] = Unit(todo[msg[b]], num[b], j)
Order(q, msg, num) ==
    /\ msg[1] = 1
    /\ \A b \in 1 .. q :
        IF num[b] = Packets(todo[msg[b]])
        THEN msg[b + 1] = msg[b] + 1 /\ num[b + 1] = 1
        ELSE msg[b + 1] = msg[b] /\ num[b + 1] = num[b] + 1
    /\ \A a, b \in 1 .. q + 1 : a <= b => msg[a] <= msg[b]
    /\ IF t_buffer = NONE THEN msg[q + 1] = Len(todo) + 1 /\ num[q + 1] = 1
                          ELSE msg[q + 1] = Len(todo) /\ num[q + 1] = i
Placed(q, c, start, msg, num) ==
    Blocks(q, c, start) /\ Contents(q, start, msg, num) /\ Order(q, msg, num)

(* The receiver needs packet n of the oldest message, and has those before. *)
Needs(n) ==
    /\ pc = "poll" => n = 1
    /\ pc = "read" =>
        /\ Len(t_out_buf) = (n - 1) * Payload
        /\ n = 1 => t_outbuf_size = 0
        /\ n > 1 =>
            /\ todo # <<>> /\ n <= Packets(todo[1])
            /\ t_outbuf_size = OutSize(Packets(todo[1]))
            /\ \A k \in 1 .. Len(t_out_buf) :
                t_out_buf[k] = IF k <= Len(todo[1]) THEN todo[1][k] ELSE Zero

Carried ==
    pc \in {"poll", "read"} =>
        \E q \in Nat, c \in Nat : \E start, msg, num \in Rows(q) :
            Placed(q, c, start, msg, num) /\ Needs(num[1])

Sending ==
    /\ t_buffer \in Messages \cup {NONE} /\ i \in Nat
    /\ sent \in 0 .. MaxMessages /\ written \in Nat
    /\ todo \in Seq(Messages)
    /\ t_buffer # NONE =>
        /\ i \in 1 .. Packets(t_buffer)
        /\ todo # <<>> /\ todo[Len(todo)] = t_buffer

Flowing ==
    /\ encrypted \in BOOLEAN
    /\ wire \in Seq(GoodUnits) /\ kernel \in Seq(GoodUnits) /\ read_bio \in Seq(GoodUnits)
    /\ read_bio # <<>> => encrypted /\ read_bio[1].unit = 1

Reading ==
    /\ pc \in {"poll", "read", "gone", "astray"}
    /\ packet_buffer \in [1 .. Buffer -> GoodUnits \cup {Uninit}]
    /\ t_out_buf \in Seq(Bytes \cup {Zero, Uninit})
    /\ t_outbuf_size \in Nat /\ Len(t_out_buf) <= t_outbuf_size
    /\ printed \in Messages \cup {NONE}

IInv == Sending /\ Flowing /\ Reading /\ Carried

-----------------------------------------------------------------------------
(* Messages and their packets.                                             *)

LEMMA Constants ==
    /\ Payload \in Nat \ {0} /\ Buffer \in Nat /\ Buffer = Payload + 3
    /\ Record \in 1 .. Buffer /\ MaxMessages \in Nat
BY PacketsAssumption DEF Buffer

LEMMA SizeRoom ==
    ASSUME encrypted \in BOOLEAN
    PROVE  /\ Size \in 1 .. Buffer
           /\ encrypted => Size = Record
           /\ ~encrypted => Size = Buffer
BY Constants DEF Size

(* The packets of a message have room for it and one zero at least. *)
LEMMA Room ==
    ASSUME NEW m \in Messages
    PROVE  /\ m \in Seq(Bytes) /\ Len(m) \in Nat
           /\ Packets(m) \in Nat \ {0} /\ Len(m) < Packets(m) * Payload
<1>1. m \in Seq(Bytes) /\ Len(m) \in Nat
  BY PacketsAssumption
<1>2. Payload \in Nat \ {0}
  BY Constants
<1> DEFINE d == Len(m) \div Payload
<1>3. d \in Nat /\ Len(m) < d * Payload + Payload
  BY <1>1, <1>2
<1>4. Packets(m) = 1 + d
  BY DEF Packets
<1> HIDE DEF d
<1>5. (1 + d) * Payload = d * Payload + Payload
  BY <1>2, <1>3
<1> QED
  BY <1>1, <1>2, <1>3, <1>4, <1>5

LEMMA UnitFields ==
    ASSUME NEW m \in Messages, NEW n \in 1 .. Packets(m), NEW j \in 1 .. Buffer
    PROVE  /\ Unit(m, n, j) \in GoodUnits /\ Unit(m, n, j) # Uninit
           /\ Unit(m, n, j).unit = j /\ Unit(m, n, j).packet = PacketOf(m, n)
           /\ UnitType(Unit(m, n, j))
<1>1. Unit(m, n, j) \in UnitsOf(m)
  BY DEF UnitsOf
<1>2. Unit(m, n, j) \in GoodUnits
  BY <1>1 DEF GoodUnits
<1>3. Unit(m, n, j) # Uninit
  BY UninitAssumption DEF Unit
<1>4. Unit(m, n, j).unit = j /\ Unit(m, n, j).packet = PacketOf(m, n)
  BY DEF Unit
<1>5. PacketOf(m, n).number = n /\ PacketOf(m, n).total = Packets(m)
  BY DEF PacketOf
<1> QED
  BY <1>2, <1>3, <1>4, <1>5 DEF UnitType

LEMMA GoodUnit ==
    ASSUME NEW u \in GoodUnits
    PROVE  u # Uninit /\ UnitType(u)
<1>1. PICK m \in Messages : u \in UnitsOf(m)
  BY DEF GoodUnits
<1>2. PICK n \in 1 .. Packets(m), j \in 1 .. Buffer : u = Unit(m, n, j)
  BY <1>1 DEF UnitsOf
<1> QED
  BY <1>2, UnitFields

(* What one write puts on the wire. *)
LEMMA UnitsWritten ==
    ASSUME encrypted \in BOOLEAN, NEW m \in Messages, NEW n \in 1 .. Packets(m)
    PROVE  /\ Units(PacketOf(m, n)) \in Seq(GoodUnits) /\ Len(Units(PacketOf(m, n))) = Size
           /\ \A j \in 1 .. Size : Units(PacketOf(m, n))[j] = Unit(m, n, j)
<1> DEFINE u == Units(PacketOf(m, n))
<1>1. Size \in 1 .. Buffer /\ Buffer \in Nat
  BY SizeRoom, Constants
<1>2. u = [j \in 1 .. Size |-> Unit(m, n, j)]
  BY DEF Units, Unit
<1>3. \A j \in 1 .. Size : Unit(m, n, j) \in GoodUnits
  BY <1>1, UnitFields
<1>4. Size \in Nat
  BY <1>1
<1> HIDE DEF u
<1>5. u \in Seq(GoodUnits) /\ Len(u) = Size
  BY <1>2, <1>3, <1>4
<1> QED
  BY <1>2, <1>5 DEF u

-----------------------------------------------------------------------------
(* Sequences of units, element by element.                                 *)

LEMMA Joined ==
    ASSUME NEW U, NEW s \in Seq(U), NEW t \in Seq(U)
    PROVE  /\ s \o t \in Seq(U) /\ Len(s \o t) = Len(s) + Len(t)
           /\ Len(s) \in Nat /\ Len(t) \in Nat
           /\ \A k \in 1 .. Len(s) + Len(t) :
                (s \o t)[k] = IF k <= Len(s) THEN s[k] ELSE t[k - Len(s)]
OBVIOUS

LEMMA Piece ==
    ASSUME NEW U, NEW s \in Seq(U), NEW a \in Nat, NEW b \in Nat,
           1 <= a, a <= b + 1, b <= Len(s)
    PROVE  /\ SubSeq(s, a, b) \in Seq(U) /\ Len(SubSeq(s, a, b)) = b + 1 - a
           /\ \A k \in 1 .. b + 1 - a : SubSeq(s, a, b)[k] = s[a + k - 1]
OBVIOUS

LEMMA SameSequence ==
    ASSUME NEW U, NEW s \in Seq(U), NEW t \in Seq(U), Len(s) = Len(t),
           \A k \in 1 .. Len(s) : s[k] = t[k]
    PROVE  s = t
OBVIOUS

(* What has been joined from three parts. *)
LEMMA Threefold ==
    ASSUME NEW U, NEW b \in Seq(U), NEW k \in Seq(U), NEW w \in Seq(U)
    PROVE  /\ (b \o k) \o w \in Seq(U)
           /\ Len(b) \in Nat /\ Len(k) \in Nat /\ Len(w) \in Nat
           /\ Len((b \o k) \o w) = Len(b) + Len(k) + Len(w)
           /\ \A j \in 1 .. Len(b) + Len(k) + Len(w) :
                ((b \o k) \o w)[j] =
                    IF j <= Len(b) THEN b[j]
                    ELSE IF j <= Len(b) + Len(k) THEN k[j - Len(b)]
                    ELSE w[j - Len(b) - Len(k)]
<1>1. /\ b \o k \in Seq(U) /\ Len(b \o k) = Len(b) + Len(k)
      /\ Len(b) \in Nat /\ Len(k) \in Nat
      /\ \A j \in 1 .. Len(b) + Len(k) :
            (b \o k)[j] = IF j <= Len(b) THEN b[j] ELSE k[j - Len(b)]
  BY Joined
<1> DEFINE s == b \o k
<1> HIDE DEF s
<1>2. /\ s \o w \in Seq(U) /\ Len(s \o w) = Len(s) + Len(w) /\ Len(w) \in Nat
      /\ \A j \in 1 .. Len(s) + Len(w) : (s \o w)[j] = IF j <= Len(s) THEN s[j] ELSE w[j - Len(s)]
  BY <1>1, Joined DEF s
<1>3. Len(s) = Len(b) + Len(k)
  BY <1>1 DEF s
<1>4. \A j \in 1 .. Len(b) + Len(k) + Len(w) :
        (s \o w)[j] = IF j <= Len(b) THEN b[j]
                      ELSE IF j <= Len(b) + Len(k) THEN k[j - Len(b)]
                      ELSE w[j - Len(b) - Len(k)]
  <2> SUFFICES ASSUME NEW j \in 1 .. Len(b) + Len(k) + Len(w)
               PROVE  (s \o w)[j] = IF j <= Len(b) THEN b[j]
                                    ELSE IF j <= Len(b) + Len(k) THEN k[j - Len(b)]
                                    ELSE w[j - Len(b) - Len(k)]
    OBVIOUS
  <2>1. CASE j <= Len(b) + Len(k)
    <3>1. (s \o w)[j] = s[j]
      BY <1>1, <1>2, <1>3, <2>1
    <3>2. s[j] = IF j <= Len(b) THEN b[j] ELSE k[j - Len(b)]
      BY <1>1, <1>2, <2>1 DEF s
    <3> QED
      BY <3>1, <3>2, <2>1
  <2>2. CASE ~(j <= Len(b) + Len(k))
    <3>1. (s \o w)[j] = w[j - Len(s)] /\ ~(j <= Len(b))
      BY <1>1, <1>2, <1>3, <2>2
    <3>2. j - Len(s) = j - Len(b) - Len(k)
      BY <1>1, <1>2, <1>3
    <3> QED
      BY <3>1, <3>2, <2>2
  <2> QED
    BY <2>1, <2>2
<1> QED
  BY <1>1, <1>2, <1>3, <1>4 DEF s

(* What reads, the network and the decryption make of sequences. *)
Front(s, n) == SubSeq(s, 1, n)
Back(s, n) == SubSeq(s, n + 1, Len(s))
Joint(s, t) == s \o t
Row(b, k, w) == (b \o k) \o w

(* Units that arrive change nothing but where the kernel's part ends. *)
LEMMA Arrived ==
    ASSUME NEW U, NEW b \in Seq(U), NEW k \in Seq(U), NEW w \in Seq(U), NEW n \in 1 .. Len(w)
    PROVE  /\ Joint(k, Front(w, n)) \in Seq(U) /\ Back(w, n) \in Seq(U)
           /\ Len(Joint(k, Front(w, n))) = Len(k) + n
           /\ Row(b, Joint(k, Front(w, n)), Back(w, n)) = Row(b, k, w)
<1> DEFINE p == SubSeq(w, 1, n)
           l == k \o p
           v == SubSeq(w, n + 1, Len(w))
<1>0. Len(w) \in Nat /\ n \in Nat /\ 1 <= n /\ n <= Len(w)
  OBVIOUS
<1>1. p \in Seq(U) /\ Len(p) = n /\ \A j \in 1 .. n : p[j] = w[j]
  <2>1. /\ SubSeq(w, 1, n) \in Seq(U) /\ Len(SubSeq(w, 1, n)) = n + 1 - 1
        /\ \A j \in 1 .. n + 1 - 1 : SubSeq(w, 1, n)[j] = w[1 + j - 1]
    BY <1>0, Piece
  <2> QED
    BY <1>0, <2>1
<1>2. v \in Seq(U) /\ Len(v) = Len(w) - n /\ \A j \in 1 .. Len(w) - n : v[j] = w[n + j]
  <2>1. /\ SubSeq(w, n + 1, Len(w)) \in Seq(U)
        /\ Len(SubSeq(w, n + 1, Len(w))) = Len(w) + 1 - (n + 1)
        /\ \A j \in 1 .. Len(w) + 1 - (n + 1) :
            SubSeq(w, n + 1, Len(w))[j] = w[n + 1 + j - 1]
    BY <1>0, Piece
  <2>2. Len(w) + 1 - (n + 1) = Len(w) - n /\ \A j \in Nat : n + 1 + j - 1 = n + j
    BY <1>0
  <2> QED
    BY <1>0, <2>1, <2>2
<1> HIDE DEF p, v
<1>3. /\ l \in Seq(U) /\ Len(l) = Len(k) + n /\ Len(k) \in Nat
      /\ \A j \in 1 .. Len(k) + n : l[j] = IF j <= Len(k) THEN k[j] ELSE p[j - Len(k)]
  BY <1>1, Joined
<1> HIDE DEF l
<1>4. /\ (b \o k) \o w \in Seq(U) /\ Len(b) \in Nat
      /\ Len((b \o k) \o w) = Len(b) + Len(k) + Len(w)
      /\ \A j \in 1 .. Len(b) + Len(k) + Len(w) :
            ((b \o k) \o w)[j] = IF j <= Len(b) THEN b[j]
                                 ELSE IF j <= Len(b) + Len(k) THEN k[j - Len(b)]
                                 ELSE w[j - Len(b) - Len(k)]
  BY Threefold
<1>5. /\ (b \o l) \o v \in Seq(U)
      /\ Len((b \o l) \o v) = Len(b) + Len(l) + Len(v)
      /\ \A j \in 1 .. Len(b) + Len(l) + Len(v) :
            ((b \o l) \o v)[j] = IF j <= Len(b) THEN b[j]
                                 ELSE IF j <= Len(b) + Len(l) THEN l[j - Len(b)]
                                 ELSE v[j - Len(b) - Len(l)]
  <2>1. l \in Seq(U) /\ v \in Seq(U)
    BY <1>2, <1>3
  <2> QED
    BY <2>1, Threefold
<1>6. Len(b) + Len(l) + Len(v) = Len(b) + Len(k) + Len(w)
  BY <1>0, <1>2, <1>3, <1>4
<1>7. \A j \in 1 .. Len(b) + Len(k) + Len(w) : ((b \o l) \o v)[j] = ((b \o k) \o w)[j]
  <2> SUFFICES ASSUME NEW j \in 1 .. Len(b) + Len(k) + Len(w)
               PROVE  ((b \o l) \o v)[j] = ((b \o k) \o w)[j]
    OBVIOUS
  <2> DEFINE x == ((b \o l) \o v)[j]
             y == ((b \o k) \o w)[j]
  <2>1. CASE j <= Len(b) + Len(k)
    <3>1. x = IF j <= Len(b) THEN b[j] ELSE l[j - Len(b)]
      BY <1>0, <1>3, <1>4, <1>5, <1>6, <2>1
    <3>2. ASSUME ~(j <= Len(b))
          PROVE  l[j - Len(b)] = k[j - Len(b)]
      <4> DEFINE o == j - Len(b)
      <4>1. o \in 1 .. Len(k) + n /\ o <= Len(k)
        BY <1>0, <1>3, <1>4, <2>1, <3>2
      <4> HIDE DEF o
      <4>2. l[o] = k[o]
        BY <1>3, <4>1
      <4> QED
        BY <4>2 DEF o
    <3>3. y = IF j <= Len(b) THEN b[j] ELSE k[j - Len(b)]
      BY <1>4, <2>1
    <3> QED
      BY <3>1, <3>2, <3>3
  <2>2. CASE ~(j <= Len(b) + Len(k)) /\ j <= Len(b) + Len(l)
    <3>1. x = l[j - Len(b)]
      BY <1>0, <1>3, <1>4, <1>5, <1>6, <2>2
    <3>2. l[j - Len(b)] = p[j - Len(b) - Len(k)]
      BY <1>0, <1>3, <1>4, <2>2
    <3>3. p[j - Len(b) - Len(k)] = w[j - Len(b) - Len(k)]
      BY <1>0, <1>1, <1>3, <1>4, <2>2
    <3>4. y = w[j - Len(b) - Len(k)]
      BY <1>0, <1>3, <1>4, <2>2
    <3> QED
      BY <3>1, <3>2, <3>3, <3>4
  <2>3. CASE ~(j <= Len(b) + Len(l))
    <3>1. x = v[j - Len(b) - Len(l)]
      BY <1>0, <1>3, <1>4, <1>5, <1>6, <2>3
    <3>2. v[j - Len(b) - Len(l)] = w[n + (j - Len(b) - Len(l))]
      <4> DEFINE o == j - Len(b) - Len(l)
      <4>1. o \in 1 .. Len(w) - n
        BY <1>0, <1>3, <1>4, <2>3
      <4> HIDE DEF o
      <4>2. v[o] = w[n + o]
        BY <1>2, <4>1
      <4> QED
        BY <4>2 DEF o
    <3>3. n + (j - Len(b) - Len(l)) = j - Len(b) - Len(k)
      BY <1>0, <1>3, <1>4
    <3>4. y = w[j - Len(b) - Len(k)]
      BY <1>0, <1>3, <1>4, <2>3
    <3> QED
      BY <3>1, <3>2, <3>3, <3>4
  <2> QED
    BY <2>1, <2>2, <2>3
<1>8. (b \o l) \o v = (b \o k) \o w
  <2> DEFINE x == (b \o l) \o v
             y == (b \o k) \o w
  <2>1. x \in Seq(U) /\ y \in Seq(U) /\ Len(x) = Len(y) /\ \A j \in 1 .. Len(x) : x[j] = y[j]
    BY <1>4, <1>5, <1>6, <1>7
  <2> HIDE DEF x, y
  <2>2. x = y
    BY <2>1, SameSequence
  <2> QED
    BY <2>2 DEF x, y
<1> QED
  BY <1>2, <1>3, <1>8 DEF l, p, v, Row, Joint, Front, Back

(* A read that takes n units of the kernel's part, and uses the first r of *)
(* what it has then: the rest moves r units to the front.                  *)
MovedUp(U, b, k, w, n, r) ==
    LET bio == Joint(b, Front(k, n))
        rest == Back(bio, r)
        left == Back(k, n)
    IN  /\ bio \in Seq(U) /\ Len(bio) = Len(b) + n
        /\ \A j \in 1 .. r : bio[j] = Row(b, k, w)[j]
        /\ rest \in Seq(U) /\ left \in Seq(U)
        /\ Len(rest) = Len(b) + n - r
        /\ Len(rest) + Len(left) = Len(b) + Len(k) - r
        /\ Len(Row(rest, left, w)) = Len(Row(b, k, w)) - r
        /\ \A j \in 1 .. Len(Row(b, k, w)) - r : Row(rest, left, w)[j] = Row(b, k, w)[j + r]

LEMMA TakenOff ==
    ASSUME NEW U, NEW b \in Seq(U), NEW k \in Seq(U), NEW w \in Seq(U),
           NEW n \in 1 .. Len(k), NEW r \in 1 .. Len(b) + n
    PROVE  MovedUp(U, b, k, w, n, r)
<1> DEFINE p == SubSeq(k, 1, n)
           c == b \o p
           d == SubSeq(c, r + 1, Len(c))
           l == SubSeq(k, n + 1, Len(k))
           y == (b \o k) \o w
           x == (d \o l) \o w
<1>0. Len(k) \in Nat /\ n \in Nat /\ 1 <= n /\ n <= Len(k) /\ Len(b) \in Nat /\ Len(w) \in Nat
      /\ r \in Nat /\ 1 <= r /\ r <= Len(b) + n
  OBVIOUS
<1>1. p \in Seq(U) /\ Len(p) = n /\ \A j \in 1 .. n : p[j] = k[j]
  <2>1. /\ SubSeq(k, 1, n) \in Seq(U) /\ Len(SubSeq(k, 1, n)) = n + 1 - 1
        /\ \A j \in 1 .. n + 1 - 1 : SubSeq(k, 1, n)[j] = k[1 + j - 1]
    BY <1>0, Piece
  <2> QED
    BY <1>0, <2>1
<1>2. l \in Seq(U) /\ Len(l) = Len(k) - n /\ \A j \in 1 .. Len(k) - n : l[j] = k[n + j]
  <2>1. /\ SubSeq(k, n + 1, Len(k)) \in Seq(U)
        /\ Len(SubSeq(k, n + 1, Len(k))) = Len(k) + 1 - (n + 1)
        /\ \A j \in 1 .. Len(k) + 1 - (n + 1) :
            SubSeq(k, n + 1, Len(k))[j] = k[n + 1 + j - 1]
    BY <1>0, Piece
  <2>2. Len(k) + 1 - (n + 1) = Len(k) - n /\ \A j \in Nat : n + 1 + j - 1 = n + j
    BY <1>0
  <2> QED
    BY <1>0, <2>1, <2>2
<1> HIDE DEF p, l
<1>3. /\ c \in Seq(U) /\ Len(c) = Len(b) + n
      /\ \A j \in 1 .. Len(b) + n : c[j] = IF j <= Len(b) THEN b[j] ELSE p[j - Len(b)]
  BY <1>1, Joined
<1> HIDE DEF c
<1>4. d \in Seq(U) /\ Len(d) = Len(b) + n - r /\ \A j \in 1 .. Len(b) + n - r : d[j] = c[r + j]
  <2>1. /\ SubSeq(c, r + 1, Len(c)) \in Seq(U)
        /\ Len(SubSeq(c, r + 1, Len(c))) = Len(c) + 1 - (r + 1)
        /\ \A j \in 1 .. Len(c) + 1 - (r + 1) :
            SubSeq(c, r + 1, Len(c))[j] = c[r + 1 + j - 1]
    BY <1>0, <1>3, Piece
  <2>2. Len(c) + 1 - (r + 1) = Len(b) + n - r /\ \A j \in Nat : r + 1 + j - 1 = r + j
    BY <1>0, <1>3
  <2> QED
    BY <1>0, <2>1, <2>2
<1> HIDE DEF d
<1>5. /\ y \in Seq(U) /\ Len(y) = Len(b) + Len(k) + Len(w)
      /\ \A j \in 1 .. Len(b) + Len(k) + Len(w) :
            y[j] = IF j <= Len(b) THEN b[j]
                   ELSE IF j <= Len(b) + Len(k) THEN k[j - Len(b)]
                   ELSE w[j - Len(b) - Len(k)]
  BY Threefold
<1>6. /\ x \in Seq(U) /\ Len(x) = Len(d) + Len(l) + Len(w)
      /\ \A j \in 1 .. Len(d) + Len(l) + Len(w) :
            x[j] = IF j <= Len(d) THEN d[j]
                   ELSE IF j <= Len(d) + Len(l) THEN l[j - Len(d)]
                   ELSE w[j - Len(d) - Len(l)]
  <2>1. d \in Seq(U) /\ l \in Seq(U)
    BY <1>2, <1>4
  <2> QED
    BY <2>1, Threefold
<1> HIDE DEF x, y
<1>7. \A j \in 1 .. Len(b) + n : c[j] = y[j]
  <2> SUFFICES ASSUME NEW j \in 1 .. Len(b) + n
               PROVE  c[j] = y[j]
    OBVIOUS
  <2>1. j \in 1 .. Len(b) + Len(k) + Len(w) /\ j <= Len(b) + Len(k)
    BY <1>0
  <2>2. CASE j <= Len(b)
    BY <1>3, <1>5, <2>1, <2>2
  <2>3. CASE ~(j <= Len(b))
    <3> DEFINE o == j - Len(b)
    <3>1. o \in 1 .. n
      BY <1>0, <2>3
    <3>2. c[j] = p[o] /\ y[j] = k[o]
      BY <1>3, <1>5, <2>1, <2>3
    <3> HIDE DEF o
    <3> QED
      BY <1>1, <3>1, <3>2
  <2> QED
    BY <2>2, <2>3
<1>8. Len(x) = Len(y) - r /\ Len(d) + Len(l) = Len(b) + Len(k) - r
  BY <1>0, <1>2, <1>4, <1>5, <1>6
<1>9. \A j \in 1 .. Len(y) - r : x[j] = y[j + r]
  <2> SUFFICES ASSUME NEW j \in 1 .. Len(y) - r
               PROVE  x[j] = y[j + r]
    OBVIOUS
  <2>0. Len(d) = Len(b) + n - r /\ Len(l) = Len(k) - n
    BY <1>2, <1>4
  <2>1. /\ j \in 1 .. Len(d) + Len(l) + Len(w)
        /\ j + r \in 1 .. Len(b) + Len(k) + Len(w)
        /\ j \in Nat
    BY <1>0, <1>5, <1>6, <1>8
  <2>2. CASE j <= Len(d)
    <3>1. j \in 1 .. Len(b) + n - r /\ r + j \in 1 .. Len(b) + n /\ r + j = j + r
      BY <1>0, <1>4, <2>1, <2>2
    <3>2. x[j] = d[j]
      BY <1>6, <2>1, <2>2
    <3>3. d[j] = c[r + j]
      BY <1>4, <3>1
    <3>4. c[r + j] = y[j + r]
      BY <1>7, <3>1
    <3> QED
      BY <3>2, <3>3, <3>4
  <2>3. CASE ~(j <= Len(d)) /\ j <= Len(d) + Len(l)
    <3> DEFINE o == j - Len(d)
    <3>0. x[j] = l[o]
      BY <1>6, <2>1, <2>3
    <3>1. o \in 1 .. Len(k) - n
      BY <1>0, <2>0, <2>1, <2>3
    <3>2. n + o = j + r - Len(b) /\ ~(j + r <= Len(b)) /\ j + r <= Len(b) + Len(k)
      BY <1>0, <2>0, <2>1, <2>3
    <3>3. y[j + r] = k[j + r - Len(b)]
      BY <1>5, <2>1, <3>2
    <3> HIDE DEF o
    <3>4. l[o] = k[n + o]
      BY <1>2, <3>1
    <3> QED
      BY <3>0, <3>2, <3>3, <3>4
  <2>4. CASE ~(j <= Len(d) + Len(l))
    <3>0. ~(j <= Len(d))
      BY <1>0, <2>0, <2>1, <2>4
    <3>1. x[j] = w[j - Len(d) - Len(l)]
      BY <1>6, <2>1, <2>4, <3>0
    <3>2. /\ j - Len(d) - Len(l) = j + r - Len(b) - Len(k)
          /\ ~(j + r <= Len(b)) /\ ~(j + r <= Len(b) + Len(k))
      BY <1>0, <2>0, <2>1, <2>4
    <3>3. y[j + r] = w[j + r - Len(b) - Len(k)]
      BY <1>5, <2>1, <3>2
    <3> QED
      BY <3>1, <3>2, <3>3
  <2> QED
    BY <2>2, <2>3, <2>4
<1>10. \A j \in 1 .. r : c[j] = y[j]
  BY <1>0, <1>7
<1> QED
  BY <1>2, <1>3, <1>4, <1>6, <1>8, <1>9, <1>10 DEF x, y, l, d, c, p, MovedUp, Row, Joint, Front, Back

-----------------------------------------------------------------------------
(* The sender.                                                             *)

LEMMA StreamType ==
    ASSUME Flowing
    PROVE  /\ Stream \in Seq(GoodUnits)
           /\ Len(read_bio) \in Nat /\ Len(kernel) \in Nat /\ Len(wire) \in Nat
           /\ Len(Stream) = Len(read_bio) + Len(kernel) + Len(wire)
<1>1. read_bio \in Seq(GoodUnits) /\ kernel \in Seq(GoodUnits) /\ wire \in Seq(GoodUnits)
  BY DEF Flowing
<1> QED
  BY <1>1, Threefold DEF Stream

(* The connection is empty, and nobody is in the middle of anything. *)
LEMMA IInvInit == Init => IInv
<1> SUFFICES ASSUME Init
             PROVE  IInv
  OBVIOUS
<1>1. /\ encrypted \in BOOLEAN
      /\ t_buffer = NONE /\ i = 0 /\ sent = 0 /\ written = 0
      /\ wire = <<>> /\ kernel = <<>> /\ read_bio = <<>> /\ pc = "poll"
      /\ packet_buffer = Fresh /\ t_out_buf = <<>> /\ t_outbuf_size = 0
      /\ printed = NONE /\ todo = <<>>
  BY DEF Init
<1>2. Sending
  BY <1>1, Constants DEF Sending
<1>3. Flowing
  BY <1>1 DEF Flowing
<1>4. Reading
  <2>1. packet_buffer \in [1 .. Buffer -> GoodUnits \cup {Uninit}]
    BY <1>1 DEF Fresh
  <2> QED
    BY <1>1, <2>1 DEF Reading
<1>5. Carried
  <2> DEFINE start == [b \in 1 .. 1 |-> 0]
             one == [b \in 1 .. 1 |-> 1]
  <2>1. start[1] = 0 /\ one[1] = 1 /\ start \in Rows(0) /\ one \in Rows(0)
    BY DEF Rows
  <2>2. Len(Stream) = 0
    BY <1>1, <1>3, StreamType
  <2> HIDE DEF start, one
  <2>3. Blocks(0, 0, start)
    BY <1>1, <2>1, <2>2 DEF Blocks
  <2>4. Contents(0, start, one, one)
    BY DEF Contents
  <2>5. Order(0, one, one)
    BY <1>1, <2>1 DEF Order
  <2>6. Placed(0, 0, start, one, one) /\ Needs(one[1])
    BY <1>1, <2>1, <2>3, <2>4, <2>5 DEF Placed, Needs
  <2> QED
    BY <2>1, <2>6 DEF Carried
<1> QED
  BY <1>2, <1>3, <1>4, <1>5 DEF IInv

LEMMA CarriedOn ==
    ASSUME NEW q \in Nat, NEW c \in Nat,
           NEW start \in Rows(q), NEW msg \in Rows(q), NEW num \in Rows(q),
           Blocks(q, c, start)', Contents(q, start, msg, num)', Order(q, msg, num)',
           Needs(num[1])'
    PROVE  Carried'
<1>1. Placed(q, c, start, msg, num)'
  BY DEF Placed
<1> QED
  BY <1>1 DEF Carried, Rows

(* The message begun becomes the last of those on their way. *)
LEMMA judoSendNext == ASSUME NEW m \in Messages, IInv, judoSend(m) PROVE IInv'
<1>1. /\ t_buffer = NONE /\ sent < MaxMessages
      /\ sent' = sent + 1 /\ todo' = Append(todo, m) /\ t_buffer' = m /\ i' = 1
      /\ encrypted' = encrypted /\ written' = written /\ wire' = wire /\ kernel' = kernel
      /\ read_bio' = read_bio /\ pc' = pc /\ packet_buffer' = packet_buffer
      /\ t_out_buf' = t_out_buf /\ t_outbuf_size' = t_outbuf_size /\ printed' = printed
  BY Room DEF judoSend, receiver
<1>2. /\ Sending /\ Flowing /\ Reading /\ Carried /\ todo \in Seq(Messages)
      /\ sent \in 0 .. MaxMessages /\ written \in Nat
  BY DEF IInv, Sending
<1>3. /\ todo' \in Seq(Messages) /\ Len(todo') = Len(todo) + 1 /\ Len(todo) \in Nat
      /\ \A b \in 1 .. Len(todo) : todo'[b] = todo[b]
      /\ todo'[Len(todo')] = m /\ todo' # <<>>
  BY <1>1, <1>2
<1>4. Sending'
  <2>1. sent' \in 0 .. MaxMessages
    BY <1>1, <1>2, Constants
  <2>2. i' \in 1 .. Packets(t_buffer')
    BY <1>1, Room
  <2> QED
    BY <1>1, <1>2, <1>3, <2>1, <2>2 DEF Sending
<1>5. Flowing'
  BY <1>1, <1>2 DEF Flowing, GoodUnits, UnitsOf, Unit
<1>6. Reading'
  BY <1>1, <1>2 DEF Reading, GoodUnits, UnitsOf, Unit
<1>7. Carried'
  <2> SUFFICES ASSUME pc' \in {"poll", "read"}
               PROVE  Carried'
    BY DEF Carried
  <2>0. PICK q \in Nat, c \in Nat : \E start, msg, num \in Rows(q) :
          Placed(q, c, start, msg, num) /\ Needs(num[1])
    BY <1>1, <1>2 DEF Carried
  <2>1. PICK start \in Rows(q), msg \in Rows(q), num \in Rows(q) :
          Placed(q, c, start, msg, num) /\ Needs(num[1])
    BY <2>0
  <2>2. Blocks(q, c, start) /\ Contents(q, start, msg, num) /\ Order(q, msg, num)
    BY <2>1 DEF Placed
  <2>3. Stream' = Stream /\ Size' = Size
    BY <1>1 DEF Stream, Size
  <2>4. Blocks(q, c, start)'
    BY <1>1, <2>2, <2>3 DEF Blocks
  <2>5. \A b \in 1 .. q : todo'[msg[b]] = todo[msg[b]]
    BY <1>3, <2>2 DEF Contents
  <2>6. Contents(q, start, msg, num)'
    BY <1>3, <2>2, <2>3, <2>5 DEF Contents, Unit
  <2>7. Order(q, msg, num)'
    <3>1. msg[q + 1] = Len(todo) + 1 /\ num[q + 1] = 1
      BY <1>1, <2>2 DEF Order
    <3>2. t_buffer' # NONE
      BY <1>1, PacketsAssumption
    <3> QED
      BY <1>1, <1>3, <2>2, <2>5, <3>1, <3>2 DEF Order
  <2>8. Needs(num[1])'
    <3>1. todo # <<>> => todo'[1] = todo[1]
      BY <1>2, <1>3
    <3> QED
      BY <1>1, <1>3, <2>1, <3>1 DEF Needs
  <2> QED
    BY <2>4, <2>6, <2>7, <2>8, CarriedOn
<1> QED
  BY <1>4, <1>5, <1>6, <1>7 DEF IInv

(* What is written goes to the end of the row. *)
LEMMA Written ==
    ASSUME NEW U, NEW b \in Seq(U), NEW k \in Seq(U), NEW w \in Seq(U), NEW u \in Seq(U)
    PROVE  /\ w \o u \in Seq(U)
           /\ Len((b \o k) \o (w \o u)) = Len((b \o k) \o w) + Len(u)
           /\ \A j \in 1 .. Len((b \o k) \o w) :
                ((b \o k) \o (w \o u))[j] = ((b \o k) \o w)[j]
           /\ \A j \in 1 .. Len(u) :
                ((b \o k) \o (w \o u))[Len((b \o k) \o w) + j] = u[j]
<1> DEFINE s == b \o k
           t == s \o w
<1>1. s \in Seq(U) /\ w \o u \in Seq(U)
  BY Joined
<1> HIDE DEF s
<1>2. t \in Seq(U) /\ s \o (w \o u) = t \o u
  <2>1. t \in Seq(U)
    BY <1>1, Joined
  <2>2. (s \o w) \o u = s \o (w \o u)
    BY <1>1, ConcatAssociative
  <2> QED
    BY <2>1, <2>2
<1> HIDE DEF t
<1>3. /\ Len(t \o u) = Len(t) + Len(u) /\ Len(t) \in Nat /\ Len(u) \in Nat
      /\ \A j \in 1 .. Len(t) + Len(u) :
            (t \o u)[j] = IF j <= Len(t) THEN t[j] ELSE u[j - Len(t)]
  BY <1>2, Joined
<1>4. \A j \in 1 .. Len(t) : (t \o u)[j] = t[j]
  BY <1>3
<1>5. \A j \in 1 .. Len(u) : (t \o u)[Len(t) + j] = u[j]
  <2> SUFFICES ASSUME NEW j \in 1 .. Len(u)
               PROVE  (t \o u)[Len(t) + j] = u[j]
    OBVIOUS
  <2> DEFINE o == Len(t) + j
  <2>1. o \in 1 .. Len(t) + Len(u) /\ ~(o <= Len(t)) /\ o - Len(t) = j
    BY <1>3
  <2> HIDE DEF o
  <2>2. (t \o u)[o] = u[o - Len(t)]
    BY <1>3, <2>1
  <2> QED
    BY <2>1, <2>2 DEF o
<1> QED
  BY <1>1, <1>2, <1>3, <1>4, <1>5 DEF s, t

LEMMA WritePacketNext == IInv /\ WritePacket => IInv'
<1> SUFFICES ASSUME IInv, WritePacket
             PROVE  IInv'
  OBVIOUS
<1> DEFINE u == Units(PacketOf(t_buffer, i))
           L == Len(Stream)
           final == i = Packets(t_buffer)
<1>1. /\ t_buffer # NONE /\ wire' = wire \o u /\ written' = written + 1
      /\ final => t_buffer' = NONE /\ i' = 0
      /\ ~final => t_buffer' = t_buffer /\ i' = i + 1
      /\ encrypted' = encrypted /\ sent' = sent /\ kernel' = kernel /\ todo' = todo
      /\ read_bio' = read_bio /\ pc' = pc /\ packet_buffer' = packet_buffer
      /\ t_out_buf' = t_out_buf /\ t_outbuf_size' = t_outbuf_size /\ printed' = printed
  BY DEF WritePacket, receiver
<1>2. /\ Sending /\ Flowing /\ Reading /\ Carried
      /\ t_buffer \in Messages /\ i \in 1 .. Packets(t_buffer)
      /\ todo \in Seq(Messages) /\ todo # <<>> /\ todo[Len(todo)] = t_buffer
      /\ Packets(t_buffer) \in Nat
  BY <1>1, Room DEF IInv, Sending
<1>3. /\ u \in Seq(GoodUnits) /\ Len(u) = Size /\ Size \in Nat
      /\ \A j \in 1 .. Size : u[j] = Unit(t_buffer, i, j)
  BY <1>2, UnitsWritten, SizeRoom, Constants DEF Flowing
<1> HIDE DEF u
<1>4. Sending'
  BY <1>1, <1>2 DEF Sending
<1>5. wire \in Seq(GoodUnits) /\ kernel \in Seq(GoodUnits) /\ read_bio \in Seq(GoodUnits)
  BY <1>2 DEF Flowing
<1>6. /\ wire' \in Seq(GoodUnits) /\ Len(Stream') = L + Size
      /\ \A j \in 1 .. L : Stream'[j] = Stream[j]
      /\ \A j \in 1 .. Size : Stream'[L + j] = u[j]
  <2>1. Stream' = (read_bio \o kernel) \o (wire \o u)
    BY <1>1 DEF Stream
  <2>2. /\ wire \o u \in Seq(GoodUnits)
        /\ Len((read_bio \o kernel) \o (wire \o u)) = Len((read_bio \o kernel) \o wire) + Len(u)
        /\ \A j \in 1 .. Len((read_bio \o kernel) \o wire) :
            ((read_bio \o kernel) \o (wire \o u))[j] = ((read_bio \o kernel) \o wire)[j]
        /\ \A j \in 1 .. Len(u) :
            ((read_bio \o kernel) \o (wire \o u))[Len((read_bio \o kernel) \o wire) + j] = u[j]
    <3>1. u \in Seq(GoodUnits)
      BY <1>3
    <3> QED
      BY <1>5, <3>1, Written
  <2> QED
    BY <1>1, <1>3, <2>1, <2>2 DEF Stream
<1>7. Flowing'
  BY <1>1, <1>2, <1>6 DEF Flowing, GoodUnits, UnitsOf, Unit
<1>8. Reading'
  BY <1>1, <1>2 DEF Reading, GoodUnits, UnitsOf, Unit
<1>9. Carried'
  <2> SUFFICES ASSUME pc' \in {"poll", "read"}
               PROVE  Carried'
    BY DEF Carried
  <2>1. PICK q \in Nat, c \in Nat : \E start, msg, num \in Rows(q) :
          Placed(q, c, start, msg, num) /\ Needs(num[1])
    BY <1>1, <1>2 DEF Carried
  <2>2. PICK start \in Rows(q), msg \in Rows(q), num \in Rows(q) :
          Placed(q, c, start, msg, num) /\ Needs(num[1])
    BY <2>1
  <2>3. Blocks(q, c, start) /\ Contents(q, start, msg, num) /\ Order(q, msg, num)
    BY <2>2 DEF Placed
  <2>4. /\ start \in [1 .. q + 1 -> Nat] /\ msg \in [1 .. q + 1 -> Nat]
        /\ num \in [1 .. q + 1 -> Nat] /\ L \in Nat /\ q + 1 \in Nat /\ q + 1 \in 1 .. q + 1
    <3>1. L \in Nat
      BY <1>2, StreamType
    <3> QED
      BY <3>1 DEF Rows
  <2> HIDE DEF L
  <2>5. PICK start2 \in Rows(q + 1) :
          /\ \A b \in 1 .. q + 1 : start2[b] = start[b]
          /\ start2[q + 1 + 1] = L + Size
    <3> DEFINE f == [b \in 1 .. q + 1 + 1 |-> IF b <= q + 1 THEN start[b] ELSE L + Size]
    <3>1. f \in Rows(q + 1)
      BY <2>4, <1>3 DEF Rows
    <3>2. (\A b \in 1 .. q + 1 : f[b] = start[b]) /\ f[q + 1 + 1] = L + Size
      BY <2>4
    <3> HIDE DEF f
    <3> QED
      BY <3>1, <3>2
  <2>6. PICK msg2 \in Rows(q + 1), num2 \in Rows(q + 1) :
          /\ \A b \in 1 .. q + 1 : msg2[b] = msg[b] /\ num2[b] = num[b]
          /\ msg2[q + 1 + 1] = IF final THEN msg[q + 1] + 1 ELSE msg[q + 1]
          /\ num2[q + 1 + 1] = IF final THEN 1 ELSE num[q + 1] + 1
    <3> DEFINE f == [b \in 1 .. q + 1 + 1 |-> IF b <= q + 1 THEN msg[b]
                        ELSE IF final THEN msg[q + 1] + 1 ELSE msg[q + 1]]
               g == [b \in 1 .. q + 1 + 1 |-> IF b <= q + 1 THEN num[b]
                        ELSE IF final THEN 1 ELSE num[q + 1] + 1]
    <3> HIDE DEF final
    <3>1. f \in Rows(q + 1) /\ g \in Rows(q + 1)
      BY <2>4 DEF Rows
    <3>2. /\ \A b \in 1 .. q + 1 : f[b] = msg[b] /\ g[b] = num[b]
          /\ f[q + 1 + 1] = IF final THEN msg[q + 1] + 1 ELSE msg[q + 1]
          /\ g[q + 1 + 1] = IF final THEN 1 ELSE num[q + 1] + 1
      BY <2>4
    <3> HIDE DEF f, g
    <3> QED
      BY <3>1, <3>2 DEF final
  <2>7. msg[q + 1] = Len(todo) /\ num[q + 1] = i
    BY <1>1, <2>3 DEF Order
  <2>8. Len(todo) \in Nat \ {0}
    BY <1>2
  <2>9. Blocks(q + 1, c, start2)'
    <3>1. /\ start[1] = 0 /\ start[q + 1] = L
          /\ \A b \in 1 .. q : start[b + 1] = start[b] + Size
          /\ \A b \in 1 .. q + 1 : start[b] <= L
          /\ c \in 0 .. q /\ start[c + 1] = Len(read_bio) + Len(kernel)
      BY <2>3 DEF Blocks, L
    <3>2. start2[1] = 0 /\ start2[q + 1 + 1] = L + Size
      BY <3>1, <2>4, <2>5
    <3>3. \A b \in 1 .. q + 1 : start2[b + 1] = start2[b] + Size
      <4> SUFFICES ASSUME NEW b \in 1 .. q + 1
                   PROVE  start2[b + 1] = start2[b] + Size
        OBVIOUS
      <4>1. CASE b = q + 1
        BY <4>1, <3>1, <2>4, <2>5
      <4>2. CASE b # q + 1
        <5>1. b \in 1 .. q /\ b + 1 \in 1 .. q + 1
          BY <4>2, <2>4
        <5> QED
          BY <5>1, <3>1, <2>5
      <4> QED
        BY <4>1, <4>2
    <3>4. \A b \in 1 .. q + 1 + 1 : start2[b] <= L + Size
      <4> SUFFICES ASSUME NEW b \in 1 .. q + 1 + 1
                   PROVE  start2[b] <= L + Size
        OBVIOUS
      <4>1. CASE b = q + 1 + 1
        BY <4>1, <2>4, <2>5, <1>3
      <4>2. CASE b # q + 1 + 1
        <5>1. b \in 1 .. q + 1
          BY <4>2, <2>4
        <5>2. start2[b] = start[b] /\ start[b] <= L /\ start[b] \in Nat
          BY <5>1, <3>1, <2>4, <2>5
        <5> QED
          BY <5>2, <2>4, <1>3
      <4> QED
        BY <4>1, <4>2
    <3>5. c \in 0 .. q + 1 /\ start2[c + 1] = Len(read_bio) + Len(kernel)
      <4>1. c + 1 \in 1 .. q + 1
        BY <3>1, <2>4
      <4> QED
        BY <4>1, <3>1, <2>4, <2>5
    <3>6. Size' = Size /\ Len(Stream') = L + Size
      BY <1>1, <1>6 DEF Size, L
    <3> QED
      BY <1>1, <3>2, <3>3, <3>4, <3>5, <3>6 DEF Blocks
  <2>10. Contents(q + 1, start2, msg2, num2)'
    <3> SUFFICES ASSUME NEW b \in 1 .. q + 1
                 PROVE  /\ msg2[b] \in 1 .. Len(todo) /\ num2[b] \in 1 .. Packets(todo[msg2[b]])
                        /\ \A j \in 1 .. Size :
                            Stream'[start2[b] + j] = Unit(todo[msg2[b]], num2[b], j)
      BY <1>1 DEF Contents, Size, Unit
    <3>1. CASE b = q + 1
      <4>1. start2[b] = L /\ msg2[b] = Len(todo) /\ num2[b] = i
        BY <3>1, <2>3, <2>4, <2>5, <2>6, <2>7 DEF Blocks, L
      <4>2. \A j \in 1 .. Size : Stream'[L + j] = Unit(t_buffer, i, j)
        BY <1>3, <1>6 DEF L
      <4> QED
        BY <4>1, <4>2, <2>8, <1>2
    <3>2. CASE b # q + 1
      <4>1. b \in 1 .. q /\ b + 1 \in 1 .. q + 1
        BY <3>2, <2>4
      <4>2. start2[b] = start[b] /\ msg2[b] = msg[b] /\ num2[b] = num[b] /\ start[b] \in Nat
        BY <4>1, <2>4, <2>5, <2>6
      <4>3. start[b + 1] = start[b] + Size /\ start[b + 1] <= L
        BY <4>1, <2>3 DEF Blocks, L
      <4>4. ASSUME NEW j \in 1 .. Size
            PROVE  start[b] + j \in 1 .. L
        <5>1. start[b] + Size <= L
          BY <4>3
        <5> QED
          BY <5>1, <4>2, <2>4, <1>3
      <4>5. \A j \in 1 .. Size : Stream'[start[b] + j] = Stream[start[b] + j]
        BY <4>4, <1>6 DEF L
      <4> QED
        BY <4>1, <4>2, <4>5, <2>3 DEF Contents
    <3> QED
      BY <3>1, <3>2
  <2>11. Order(q + 1, msg2, num2)'
    <3>1. msg2[1] = 1
      BY <2>3, <2>4, <2>6 DEF Order
    <3>2. \A b \in 1 .. q + 1 :
            IF num2[b] = Packets(todo[msg2[b]])
            THEN msg2[b + 1] = msg2[b] + 1 /\ num2[b + 1] = 1
            ELSE msg2[b + 1] = msg2[b] /\ num2[b + 1] = num2[b] + 1
      <4> SUFFICES ASSUME NEW b \in 1 .. q + 1
                   PROVE  IF num2[b] = Packets(todo[msg2[b]])
                          THEN msg2[b + 1] = msg2[b] + 1 /\ num2[b + 1] = 1
                          ELSE msg2[b + 1] = msg2[b] /\ num2[b + 1] = num2[b] + 1
        OBVIOUS
      <4>1. CASE b = q + 1
        BY <4>1, <1>2, <2>4, <2>6, <2>7
      <4>2. CASE b # q + 1
        <5>1. b \in 1 .. q /\ b + 1 \in 1 .. q + 1
          BY <4>2, <2>4
        <5> QED
          BY <5>1, <2>3, <2>6 DEF Order
      <4> QED
        BY <4>1, <4>2
    <3>3. \A a, b \in 1 .. q + 1 + 1 : a <= b => msg2[a] <= msg2[b]
      <4> SUFFICES ASSUME NEW a \in 1 .. q + 1 + 1, NEW b \in 1 .. q + 1 + 1, a <= b
                   PROVE  msg2[a] <= msg2[b]
        OBVIOUS
      <4>0. msg2[q + 1] \in Nat /\ msg2[q + 1 + 1] \in Nat /\ msg2[q + 1] <= msg2[q + 1 + 1]
        BY <2>4, <2>6
      <4>1. CASE b # q + 1 + 1
        <5>1. a \in 1 .. q + 1 /\ b \in 1 .. q + 1
          BY <4>1, <2>4
        <5> QED
          BY <5>1, <2>3, <2>6 DEF Order
      <4>2. CASE a = q + 1 + 1
        <5>1. b = q + 1 + 1
          BY <4>2, <2>4
        <5> QED
          BY <4>0, <4>2, <5>1
      <4>3. CASE a # q + 1 + 1 /\ b = q + 1 + 1
        <5>1. a \in 1 .. q + 1 /\ a <= q + 1
          BY <4>3, <2>4
        <5>2. msg2[a] <= msg2[q + 1] /\ msg2[a] \in Nat
          BY <5>1, <2>3, <2>4, <2>6 DEF Order
        <5> QED
          BY <4>0, <4>3, <5>2
      <4> QED
        BY <4>1, <4>2, <4>3
    <3>4. CASE final
      BY <3>1, <3>2, <3>3, <3>4, <1>1, <2>6, <2>7 DEF Order
    <3>5. CASE ~final
      BY <3>1, <3>2, <3>3, <3>5, <1>1, <2>6, <2>7 DEF Order
    <3> QED
      BY <3>4, <3>5
  <2>12. Needs(num2[1])'
    <3>1. num2[1] = num[1]
      BY <2>4, <2>6
    <3> QED
      BY <1>1, <2>2, <3>1 DEF Needs
  <2> QED
    BY <2>4, <2>9, <2>10, <2>11, <2>12, CarriedOn
<1> QED
  BY <1>4, <1>7, <1>8, <1>9 DEF IInv

-----------------------------------------------------------------------------
(* The network, and a receiver that begins or gives up.                    *)

(* A whole packet arrives: the kernel's part ends one packet later. *)
LEMMA ArriveNext == ASSUME ~Cuts PROVE IInv /\ Arrive => IInv'
<1> SUFFICES ASSUME IInv, Arrive
             PROVE  IInv'
  OBVIOUS
<1>1. PICK n \in 1 .. Len(wire) :
        /\ n = Size
        /\ kernel' = kernel \o SubSeq(wire, 1, n)
        /\ wire' = SubSeq(wire, n + 1, Len(wire))
        /\ UNCHANGED <<encrypted, sender, receiver, todo>>
  BY DEF Arrive
<1>2. /\ encrypted' = encrypted /\ t_buffer' = t_buffer /\ i' = i /\ sent' = sent
      /\ written' = written /\ todo' = todo
      /\ read_bio' = read_bio /\ pc' = pc /\ packet_buffer' = packet_buffer
      /\ t_out_buf' = t_out_buf /\ t_outbuf_size' = t_outbuf_size /\ printed' = printed
  BY <1>1 DEF sender, receiver
<1>3. /\ Sending /\ Flowing /\ Reading /\ Carried
      /\ wire \in Seq(GoodUnits) /\ kernel \in Seq(GoodUnits) /\ read_bio \in Seq(GoodUnits)
      /\ Size \in Nat \ {0}
  BY SizeRoom, Constants DEF IInv, Flowing
<1>4. /\ kernel' \in Seq(GoodUnits) /\ wire' \in Seq(GoodUnits)
      /\ Len(kernel') = Len(kernel) + Size
      /\ Stream' = Stream
  <2>1. /\ Joint(kernel, Front(wire, n)) \in Seq(GoodUnits)
        /\ Back(wire, n) \in Seq(GoodUnits)
        /\ Len(Joint(kernel, Front(wire, n))) = Len(kernel) + n
        /\ Row(read_bio, Joint(kernel, Front(wire, n)), Back(wire, n)) = Row(read_bio, kernel, wire)
    <3>1. n \in 1 .. Len(wire)
      BY <1>1
    <3>2. wire \in Seq(GoodUnits) /\ kernel \in Seq(GoodUnits) /\ read_bio \in Seq(GoodUnits)
      BY <1>3
    <3> QED
      BY <3>1, <3>2, Arrived
  <2> QED
    <3>1. /\ kernel' = Joint(kernel, Front(wire, n)) /\ wire' = Back(wire, n)
          /\ read_bio' = read_bio
      BY <1>1, <1>2 DEF Joint, Front, Back
    <3>2. Stream = Row(read_bio, kernel, wire) /\ Stream' = Row(read_bio', kernel', wire')
      BY DEF Stream, Row
    <3> QED
      BY <1>1, <2>1, <3>1, <3>2
<1>5. Sending'
  BY <1>2, <1>3 DEF Sending
<1>6. Flowing'
  BY <1>2, <1>3, <1>4 DEF Flowing, GoodUnits, UnitsOf, Unit
<1>7. Reading'
  BY <1>2, <1>3 DEF Reading, GoodUnits, UnitsOf, Unit
<1>8. Carried'
  <2> SUFFICES ASSUME pc' \in {"poll", "read"}
               PROVE  Carried'
    BY DEF Carried
  <2>1. PICK q \in Nat, c \in Nat : \E start, msg, num \in Rows(q) :
          Placed(q, c, start, msg, num) /\ Needs(num[1])
    BY <1>2, <1>3 DEF Carried
  <2>2. PICK start \in Rows(q), msg \in Rows(q), num \in Rows(q) :
          Placed(q, c, start, msg, num) /\ Needs(num[1])
    BY <2>1
  <2>3. /\ start[1] = 0 /\ start[q + 1] = Len(Stream)
        /\ \A b \in 1 .. q : start[b + 1] = start[b] + Size
        /\ \A b \in 1 .. q + 1 : start[b] <= Len(Stream)
        /\ c \in 0 .. q /\ start[c + 1] = Len(read_bio) + Len(kernel)
    BY <2>2 DEF Placed, Blocks
  <2>4. c # q
    <3>1. /\ Len(Stream) = Len(read_bio) + Len(kernel) + Len(wire)
          /\ Len(read_bio) \in Nat /\ Len(kernel) \in Nat /\ Len(wire) \in Nat
      BY <1>3, StreamType
    <3>2. Len(wire) > 0
      BY <1>1, <3>1
    <3> QED
      BY <2>3, <3>1, <3>2
  <2>5. c + 1 \in 0 .. q /\ c + 1 \in 1 .. q
    BY <2>3, <2>4
  <2>6. start[c + 1 + 1] = Len(read_bio) + (Len(kernel) + Size)
    <3>1. Len(read_bio) \in Nat /\ Len(kernel) \in Nat
      BY <1>3, StreamType
    <3>2. start[c + 1 + 1] = (Len(read_bio) + Len(kernel)) + Size
      BY <2>3, <2>5
    <3> QED
      BY <3>1, <3>2, <1>3
  <2>7. Blocks(q, c + 1, start)'
    <3>1. Size' = Size
      BY <1>2 DEF Size
    <3> QED
      BY <1>2, <1>4, <2>3, <2>5, <2>6, <3>1 DEF Blocks
  <2>8. Contents(q, start, msg, num)' /\ Order(q, msg, num)'
    BY <1>2, <1>4, <2>2 DEF Placed, Contents, Order, Size, Unit
  <2>9. Needs(num[1])'
    BY <1>2, <2>2 DEF Needs
  <2> QED
    BY <2>5, <2>7, <2>8, <2>9, CarriedOn
<1> QED
  BY <1>5, <1>6, <1>7, <1>8 DEF IInv

(* Nothing on its way changes, and the receiver needs what it needed. *)
LEMMA RowSame ==
    ASSUME IInv, pc \in {"poll", "read"},
           UNCHANGED <<encrypted, sender, wire, kernel, read_bio, todo>>,
           \A n \in Nat : Needs(n) => Needs(n)'
    PROVE  Carried'
<1>1. /\ encrypted' = encrypted /\ t_buffer' = t_buffer /\ i' = i
      /\ wire' = wire /\ kernel' = kernel /\ read_bio' = read_bio /\ todo' = todo
  BY DEF sender
<1>2. PICK q \in Nat, c \in Nat : \E start, msg, num \in Rows(q) :
        Placed(q, c, start, msg, num) /\ Needs(num[1])
  BY DEF IInv, Carried
<1>3. PICK start \in Rows(q), msg \in Rows(q), num \in Rows(q) :
        Placed(q, c, start, msg, num) /\ Needs(num[1])
  BY <1>2
<1>4. Stream' = Stream /\ Size' = Size
  BY <1>1 DEF Stream, Size
<1>5. Blocks(q, c, start)'
  BY <1>1, <1>3, <1>4 DEF Placed, Blocks
<1>6. Contents(q, start, msg, num)'
  BY <1>1, <1>3, <1>4 DEF Placed, Contents, Unit
<1>7. Order(q, msg, num)'
  BY <1>1, <1>3 DEF Placed, Order
<1>8. num[1] \in Nat
  BY <1>3 DEF Rows
<1>9. Needs(num[1])'
  BY <1>3, <1>8
<1> QED
  BY <1>5, <1>6, <1>7, <1>9, CarriedOn

LEMMA BeginReadNext == IInv /\ BeginRead => IInv'
<1> SUFFICES ASSUME IInv, BeginRead
             PROVE  IInv'
  OBVIOUS
<1>1. /\ pc = "poll" /\ pc' \in {"read", "astray"}
      /\ packet_buffer' = Fresh /\ t_out_buf' = <<>> /\ t_outbuf_size' = 0
      /\ UNCHANGED <<encrypted, sender, wire, kernel, read_bio, printed, todo>>
  BY DEF BeginRead
<1>2. Sending'
  BY <1>1 DEF IInv, Sending, sender
<1>3. Flowing'
  BY <1>1 DEF IInv, Flowing, GoodUnits, UnitsOf, Unit
<1>4. Reading'
  <2>1. packet_buffer' \in [1 .. Buffer -> GoodUnits \cup {Uninit}]
    BY <1>1 DEF Fresh
  <2>2. printed' \in Messages \cup {NONE}
    BY <1>1 DEF IInv, Reading
  <2> QED
    BY <1>1, <2>1, <2>2 DEF Reading, GoodUnits, UnitsOf, Unit
<1>5. Carried'
  <2>1. \A n \in Nat : Needs(n) => Needs(n)'
    <3> SUFFICES ASSUME NEW n \in Nat, Needs(n)
                 PROVE  Needs(n)'
      OBVIOUS
    <3>1. n = 1
      BY <1>1 DEF Needs
    <3>2. Len(t_out_buf') = (1 - 1) * Payload
      BY <1>1, Constants
    <3> QED
      BY <1>1, <3>1, <3>2 DEF Needs
  <2>2. pc \in {"poll", "read"}
    BY <1>1
  <2> QED
    BY <1>1, <2>1, <2>2, RowSame
<1> QED
  BY <1>2, <1>3, <1>4, <1>5 DEF IInv

LEMMA judoDisconnectNext == IInv /\ judoDisconnect => IInv'
<1> SUFFICES ASSUME IInv, judoDisconnect
             PROVE  IInv'
  OBVIOUS
<1>1. /\ pc' = "gone"
      /\ UNCHANGED <<encrypted, sender, wire, kernel, read_bio, packet_buffer,
                     t_out_buf, t_outbuf_size, printed, todo>>
  BY DEF judoDisconnect
<1>2. Sending'
  BY <1>1 DEF IInv, Sending, sender
<1>3. Flowing'
  BY <1>1 DEF IInv, Flowing, GoodUnits, UnitsOf, Unit
<1>4. Reading'
  BY <1>1 DEF IInv, Reading, GoodUnits, UnitsOf, Unit
<1>5. Carried'
  BY <1>1 DEF Carried
<1> QED
  BY <1>2, <1>3, <1>4, <1>5 DEF IInv

-----------------------------------------------------------------------------
(* One turn of the receiver's loop.                                        *)

(* run prints the message: its bytes up to the first zero behind them. *)
LEMMA PrintedMessage ==
    ASSUME NEW m \in Messages, NEW S, NEW buf \in Seq(S), Len(m) < Len(buf),
           \A k \in 1 .. Len(buf) : buf[k] = IF k <= Len(m) THEN m[k] ELSE Zero
    PROVE  Printed(buf) = m
<1> DEFINE zeros == {k \in DOMAIN buf : buf[k] = Zero}
           first == CHOOSE k \in zeros : \A j \in zeros : k <= j
<1>1. m \in Seq(Bytes) /\ Len(m) \in Nat /\ Zero \notin Bytes
  BY Room, PacketsAssumption
<1>2. DOMAIN buf = 1 .. Len(buf) /\ Len(buf) \in Nat
  OBVIOUS
<1>3. \A k \in 1 .. Len(m) : m[k] # Zero
  BY <1>1
<1>4. Len(m) + 1 \in zeros /\ \A j \in zeros : Len(m) + 1 <= j
  <2>1. Len(m) + 1 \in 1 .. Len(buf) /\ ~(Len(m) + 1 <= Len(m))
    BY <1>1, <1>2
  <2>2. Len(m) + 1 \in zeros
    BY <1>2, <2>1
  <2>3. ASSUME NEW j \in zeros
        PROVE  Len(m) + 1 <= j
    <3>1. j \in 1 .. Len(buf) /\ buf[j] = Zero
      BY <1>2
    <3>2. ~(j <= Len(m))
      BY <1>1, <1>3, <3>1
    <3> QED
      BY <1>1, <1>2, <3>1, <3>2
  <2> QED
    BY <2>2, <2>3
<1>5. \A k \in zeros : k \in Nat
  BY <1>2
<1>6. first = Len(m) + 1
  <2> HIDE DEF zeros
  <2>1. first \in zeros /\ \A j \in zeros : first <= j
    BY <1>4
  <2> HIDE DEF first
  <2> QED
    BY <1>1, <1>4, <1>5, <2>1
<1>7. Printed(buf) = SubSeq(buf, 1, first - 1)
  BY <1>4 DEF Printed
<1> HIDE DEF first, zeros
<1>8. first - 1 = Len(m)
  BY <1>1, <1>6
<1>9. SubSeq(buf, 1, Len(m)) = m
  <2>1. /\ SubSeq(buf, 1, Len(m)) \in Seq(S) /\ Len(SubSeq(buf, 1, Len(m))) = Len(m) + 1 - 1
        /\ \A k \in 1 .. Len(m) + 1 - 1 : SubSeq(buf, 1, Len(m))[k] = buf[1 + k - 1]
    BY <1>1, <1>2, Piece
  <2> DEFINE t == SubSeq(buf, 1, Len(m))
  <2>2. t \in Seq(S \cup Bytes) /\ m \in Seq(S \cup Bytes) /\ Len(t) = Len(m)
    BY <1>1, <2>1
  <2>3. \A k \in 1 .. Len(t) : t[k] = m[k]
    <3> SUFFICES ASSUME NEW k \in 1 .. Len(m)
                 PROVE  t[k] = m[k]
      BY <2>2
    <3>1. k \in 1 .. Len(m) + 1 - 1 /\ 1 + k - 1 = k /\ k \in 1 .. Len(buf) /\ k <= Len(m)
      BY <1>1, <1>2
    <3> QED
      BY <2>1, <3>1
  <2> HIDE DEF t
  <2>4. t = m
    BY <2>2, <2>3, SameSequence
  <2> QED
    BY <2>4 DEF t
<1> QED
  BY <1>7, <1>8, <1>9

(* What a whole packet in packet_buffer does to the output, and when it    *)
(* was the last one.                                                       *)
LEMMA TakeEffect ==
    ASSUME IInv, pc = "read", NEW n, Needs(n), todo # <<>>, n \in 1 .. Packets(todo[1]),
           NEW buf, \A k \in 1 .. Payload + 2 : buf[k] = Unit(todo[1], n, k),
           Take(buf)
    PROVE  /\ t_out_buf' \in Seq(Bytes \cup {Zero, Uninit})
           /\ t_outbuf_size' \in Nat /\ Len(t_out_buf') <= t_outbuf_size'
           /\ n = Packets(todo[1]) =>
                pc' = "poll" /\ printed' = todo[1] /\ todo' = Tail(todo)
           /\ n # Packets(todo[1]) =>
                /\ pc' = "read" /\ printed' = printed /\ todo' = todo
                /\ Len(t_out_buf') = (n + 1 - 1) * Payload
                /\ t_outbuf_size' = OutSize(Packets(todo[1]))
                /\ \A k \in 1 .. Len(t_out_buf') :
                    t_out_buf'[k] = IF k <= Len(todo[1]) THEN todo[1][k] ELSE Zero
<1> DEFINE m == todo[1]
           piece == [k \in 1 .. Payload |-> ByteAt(buf, k + 2)]
           out == t_out_buf \o piece
           base == (n - 1) * Payload
           All == Bytes \cup {Zero, Uninit}
<1>1. /\ m \in Messages /\ t_out_buf \in Seq(All) /\ t_outbuf_size \in Nat
      /\ Len(t_out_buf) = base
      /\ n = 1 => t_outbuf_size = 0
      /\ n > 1 => t_outbuf_size = OutSize(Packets(m))
      /\ n > 1 => \A k \in 1 .. Len(t_out_buf) :
                    t_out_buf[k] = IF k <= Len(m) THEN m[k] ELSE Zero
  BY DEF IInv, Sending, Reading, Needs
<1>2. /\ m \in Seq(Bytes) /\ Len(m) \in Nat
      /\ Packets(m) \in Nat \ {0} /\ Len(m) < Packets(m) * Payload
      /\ Payload \in Nat \ {0} /\ Buffer \in Nat /\ Buffer = Payload + 3
      /\ n \in Nat /\ 1 <= n /\ n <= Packets(m)
  BY <1>1, Room, Constants
<1>3. \A k \in 1 .. Payload + 2 :
        buf[k] # Uninit /\ buf[k].unit = k /\ buf[k].packet = PacketOf(m, n)
  <2> SUFFICES ASSUME NEW k \in 1 .. Payload + 2
               PROVE  buf[k] # Uninit /\ buf[k].unit = k /\ buf[k].packet = PacketOf(m, n)
    OBVIOUS
  <2>1. k \in 1 .. Buffer /\ n \in 1 .. Packets(m)
    BY <1>2
  <2> HIDE DEF m
  <2>2. Unit(m, n, k) # Uninit /\ Unit(m, n, k).unit = k /\ Unit(m, n, k).packet = PacketOf(m, n)
    BY <1>1, <2>1, UnitFields
  <2> QED
    BY <2>2 DEF m
<1>4. /\ PacketOf(m, n).number = n /\ PacketOf(m, n).total = Packets(m)
      /\ \A k \in 1 .. Payload :
            PacketOf(m, n).payload[k] = IF base + k <= Len(m) THEN m[base + k] ELSE Zero
  BY DEF PacketOf
<1>5. HasHeader(buf) /\ buf[1].packet.number = n /\ buf[2].packet.total = Packets(m)
  <2>1. 1 \in 1 .. Payload + 2 /\ 2 \in 1 .. Payload + 2
    BY <1>2
  <2>2. \A k \in 1 .. 2 : k \in 1 .. Payload + 2
    BY <1>2
  <2> QED
    BY <1>3, <1>4, <2>1, <2>2 DEF HasHeader
<1>6. /\ t_out_buf' = out
      /\ t_outbuf_size' = IF t_outbuf_size = 0 THEN OutSize(Packets(m)) ELSE t_outbuf_size
      /\ n = Packets(m) => /\ pc' = "poll" /\ printed' = Printed(out)
                           /\ todo' = IF todo = <<>> THEN <<>> ELSE Tail(todo)
      /\ n # Packets(m) => pc' = pc /\ printed' = printed /\ todo' = todo
  BY <1>5 DEF Take
<1>7. \A k \in 1 .. Payload : piece[k] = IF base + k <= Len(m) THEN m[base + k] ELSE Zero
  <2> SUFFICES ASSUME NEW k \in 1 .. Payload
               PROVE  piece[k] = IF base + k <= Len(m) THEN m[base + k] ELSE Zero
    OBVIOUS
  <2>1. k + 2 \in 1 .. Payload + 2 /\ k + 2 \in 3 .. Payload + 2 /\ k + 2 - 2 = k
    BY <1>2
  <2>2. ByteAt(buf, k + 2) = PacketOf(m, n).payload[k]
    BY <1>3, <2>1 DEF ByteAt
  <2> QED
    BY <1>4, <2>2
<1> HIDE DEF m, out
<1>8. base \in Nat /\ (n + 1 - 1) * Payload = base + Payload
  <2>1. (n - 1) * Payload \in Nat
    BY <1>2
  <2>2. (n + 1 - 1) * Payload = (n - 1) * Payload + Payload
    BY <1>2
  <2> QED
    BY <2>1, <2>2
<1> HIDE DEF base
<1>9. piece \in Seq(All) /\ Len(piece) = Payload
  <2>1. \A k \in 1 .. Payload : piece[k] \in All
    <3> SUFFICES ASSUME NEW k \in 1 .. Payload
                 PROVE  piece[k] \in All
      OBVIOUS
    <3>1. CASE base + k <= Len(m)
      <4>1. base + k \in 1 .. Len(m)
        BY <1>2, <1>8, <3>1
      <4>2. m[base + k] \in Bytes
        BY <1>2, <4>1
      <4> QED
        BY <1>7, <3>1, <4>2
    <3>2. CASE ~(base + k <= Len(m))
      BY <1>7, <3>2
    <3> QED
      BY <3>1, <3>2
  <2>2. Payload \in Nat /\ DOMAIN piece = 1 .. Payload /\ piece = [k \in 1 .. Payload |-> piece[k]]
    BY <1>2
  <2> HIDE DEF piece, All
  <2> QED
    BY <2>1, <2>2
<1> HIDE DEF piece, All
<1>10. /\ out \in Seq(All) /\ Len(out) = base + Payload
       /\ \A k \in 1 .. base + Payload :
            out[k] = IF k <= base THEN t_out_buf[k] ELSE piece[k - base]
  <2>1. /\ t_out_buf \o piece \in Seq(All)
        /\ Len(t_out_buf \o piece) = Len(t_out_buf) + Len(piece)
        /\ \A k \in 1 .. Len(t_out_buf) + Len(piece) :
            (t_out_buf \o piece)[k] =
                IF k <= Len(t_out_buf) THEN t_out_buf[k] ELSE piece[k - Len(t_out_buf)]
    <3>1. t_out_buf \in Seq(All) /\ piece \in Seq(All)
      BY <1>1, <1>9
    <3> QED
      BY <3>1, Joined
  <2> QED
    BY <1>1, <1>9, <2>1 DEF out
<1>11. \A k \in 1 .. Len(out) : out[k] = IF k <= Len(m) THEN m[k] ELSE Zero
  <2> SUFFICES ASSUME NEW k \in 1 .. base + Payload
               PROVE  out[k] = IF k <= Len(m) THEN m[k] ELSE Zero
    BY <1>10
  <2>1. CASE k <= base
    <3>1. n > 1
      <4>1. n = 1 => base = 0
        BY <1>2 DEF base
      <4> QED
        BY <1>2, <1>8, <2>1, <4>1
    <3>2. k \in 1 .. Len(t_out_buf)
      BY <1>1, <1>8, <2>1
    <3> QED
      BY <1>1, <1>10, <2>1, <3>1, <3>2
  <2>2. CASE ~(k <= base)
    <3> DEFINE o == k - base
    <3>1. o \in 1 .. Payload /\ base + o = k
      BY <1>2, <1>8, <2>2
    <3>2. out[k] = piece[o]
      BY <1>10, <2>2
    <3> HIDE DEF o
    <3> QED
      BY <1>7, <3>1, <3>2
  <2> QED
    BY <2>1, <2>2
<1>12. OutSize(Packets(m)) \in Nat \ {0} /\ base + Payload <= OutSize(Packets(m))
  <2> DEFINE P == Packets(m)
  <2>1. P \in Nat \ {0} /\ n <= P
    BY <1>2
  <2> HIDE DEF P
  <2>2. P * Buffer = P * Payload + P * 3
    BY <1>2, <2>1
  <2>3. n * Payload <= P * Payload /\ P * Payload \in Nat
    BY <1>2, <2>1
  <2>4. n * Payload = base + Payload
    BY <1>2, <1>8
  <2>5. P * Buffer \in Nat \ {0} /\ base + Payload <= P * Buffer
    BY <2>1, <2>2, <2>3, <2>4, <1>2, <1>8
  <2> QED
    BY <2>5 DEF OutSize, P
<1>13. t_outbuf_size' = OutSize(Packets(m))
  <2>1. CASE n = 1
    BY <1>1, <1>6, <2>1
  <2>2. CASE n # 1
    <3>1. n > 1
      BY <1>2, <2>2
    <3> QED
      BY <1>1, <1>6, <1>12, <3>1
  <2> QED
    BY <2>1, <2>2
<1>14. n = Packets(m) => Printed(out) = m
  <2> SUFFICES ASSUME n = Packets(m)
               PROVE  Printed(out) = m
    OBVIOUS
  <2>1. n * Payload = base + Payload
    BY <1>2, <1>8
  <2>2. Len(m) < Len(out)
    BY <1>2, <1>10, <2>1
  <2> QED
    BY <1>1, <1>10, <1>11, <2>2, PrintedMessage
<1>15. t_out_buf' \in Seq(All) /\ t_outbuf_size' \in Nat /\ Len(t_out_buf') <= t_outbuf_size'
  BY <1>6, <1>10, <1>12, <1>13
<1>16. n = Packets(m) => pc' = "poll" /\ printed' = m /\ todo' = Tail(todo)
  BY <1>6, <1>14
<1>17. n # Packets(m) =>
        /\ pc' = "read" /\ printed' = printed /\ todo' = todo
        /\ Len(t_out_buf') = (n + 1 - 1) * Payload
        /\ t_outbuf_size' = OutSize(Packets(m))
        /\ \A k \in 1 .. Len(t_out_buf') :
            t_out_buf'[k] = IF k <= Len(m) THEN m[k] ELSE Zero
  BY <1>6, <1>8, <1>10, <1>11, <1>13
<1> QED
  BY <1>15, <1>16, <1>17 DEF m, All

(* A turn takes the first packet of the row, whole, into packet_buffer:    *)
(* directly, or decrypted.  The rest of the row moves up.                  *)
LEMMA ReadEffect ==
    ASSUME IInv, ReadPacket, NEW m \in Messages, NEW n \in 1 .. Packets(m),
           Len(read_bio) + Len(kernel) >= Size,
           \A j \in 1 .. Size : Stream[j] = Unit(m, n, j)
    PROVE  /\ \A k \in 1 .. Payload + 2 : packet_buffer'[k] = Unit(m, n, k)
           /\ packet_buffer' \in [1 .. Buffer -> GoodUnits \cup {Uninit}]
           /\ Take(packet_buffer')
           /\ kernel' \in Seq(GoodUnits) /\ read_bio' \in Seq(GoodUnits)
           /\ read_bio' # <<>> => encrypted
           /\ Len(read_bio') + Len(kernel') = Len(read_bio) + Len(kernel) - Size
           /\ Len(Stream') = Len(Stream) - Size
           /\ \A j \in 1 .. Len(Stream) - Size : Stream'[j] = Stream[j + Size]
<1> DEFINE a == IF Len(kernel) < Buffer THEN Len(kernel) ELSE Buffer
           bio == Joint(read_bio, Front(kernel, a))
           rest == Back(bio, Size)
           left == Back(kernel, a)
<1>1. /\ read_bio \in Seq(GoodUnits) /\ kernel \in Seq(GoodUnits) /\ wire \in Seq(GoodUnits)
      /\ encrypted \in BOOLEAN
      /\ read_bio # <<>> => encrypted
      /\ packet_buffer \in [1 .. Buffer -> GoodUnits \cup {Uninit}]
  BY DEF IInv, Flowing, Reading
<1>2. /\ Size \in 1 .. Buffer /\ Buffer \in Nat /\ Buffer = Payload + 3 /\ Payload \in Nat \ {0}
      /\ encrypted => Size = Record
      /\ ~encrypted => Size = Buffer
  BY <1>1, SizeRoom, Constants
<1>3. kernel # <<>> /\ kernel' = left /\ wire' = wire
  BY DEF ReadPacket, Back
<1>4. Len(kernel) \in Nat \ {0} /\ Len(read_bio) \in Nat /\ Len(wire) \in Nat
  BY <1>1, <1>3
<1>5. read_bio = <<>> => Len(read_bio) = 0
  OBVIOUS
<1>6. a \in 1 .. Len(kernel) /\ Size \in 1 .. Len(read_bio) + a
      /\ (~encrypted => a = Size /\ Len(read_bio) = 0)
  <2>1. CASE Len(kernel) < Buffer
    <3>1. a = Len(kernel)
      BY <2>1
    <3>2. encrypted
      BY <1>1, <1>2, <1>4, <1>5, <2>1
    <3> QED
      BY <1>2, <1>4, <3>1, <3>2
  <2>2. CASE ~(Len(kernel) < Buffer)
    <3>1. a = Buffer
      BY <2>2
    <3>2. a \in 1 .. Len(kernel) /\ Size \in 1 .. Len(read_bio) + a
      BY <1>2, <1>4, <2>2, <3>1
    <3>3. ~encrypted => a = Size /\ Len(read_bio) = 0
      BY <1>1, <1>2, <1>5, <3>1
    <3> QED
      BY <3>2, <3>3
  <2> QED
    BY <2>1, <2>2
<1> HIDE DEF a
<1>7. /\ bio \in Seq(GoodUnits) /\ Len(bio) = Len(read_bio) + a
      /\ \A j \in 1 .. Size : bio[j] = Row(read_bio, kernel, wire)[j]
      /\ rest \in Seq(GoodUnits) /\ left \in Seq(GoodUnits)
      /\ Len(rest) = Len(read_bio) + a - Size
      /\ Len(rest) + Len(left) = Len(read_bio) + Len(kernel) - Size
      /\ Len(Row(rest, left, wire)) = Len(Row(read_bio, kernel, wire)) - Size
      /\ \A j \in 1 .. Len(Row(read_bio, kernel, wire)) - Size :
            Row(rest, left, wire)[j] = Row(read_bio, kernel, wire)[j + Size]
  <2>1. read_bio \in Seq(GoodUnits) /\ kernel \in Seq(GoodUnits) /\ wire \in Seq(GoodUnits)
    BY <1>1
  <2>2. a \in 1 .. Len(kernel) /\ Size \in 1 .. Len(read_bio) + a
    BY <1>6
  <2>3. MovedUp(GoodUnits, read_bio, kernel, wire, a, Size)
    BY <2>1, <2>2, TakenOff
  <2> QED
    BY <2>3 DEF MovedUp
<1> HIDE DEF rest, left
<1>s. Stream = Row(read_bio, kernel, wire) /\ Stream' = Row(read_bio', kernel', wire')
  BY DEF Stream, Row
<1>8. \A j \in 1 .. Size : bio[j] = Unit(m, n, j)
  BY <1>7, <1>s
<1>9. 1 \in 1 .. Size /\ \A k \in 1 .. Payload + 2 : k \in 1 .. Buffer
  BY <1>2
<1>10. \A k \in 1 .. Buffer : Unit(m, n, k) \in GoodUnits
  BY UnitFields
<1>11. CASE ~encrypted
  <2>1. packet_buffer' = Overwritten(SubSeq(kernel, 1, a)) /\ Take(packet_buffer')
        /\ read_bio' = read_bio
    BY <1>11 DEF ReadPacket, a
  <2>2. SubSeq(kernel, 1, a) = bio
    <3> DEFINE p == SubSeq(kernel, 1, a)
    <3>1. p \in Seq(GoodUnits)
      BY <1>1, <1>4, <1>6, Piece
    <3>2. read_bio = <<>>
      BY <1>1, <1>11
    <3> HIDE DEF p
    <3>3. <<>> \o p = p
      BY <3>1
    <3> QED
      BY <3>2, <3>3 DEF p, Joint, Front
  <2> HIDE DEF bio
  <2>3. \A k \in 1 .. Buffer : packet_buffer'[k] = Unit(m, n, k)
    <3>1. Len(bio) = Buffer /\ Size = Buffer
      BY <1>2, <1>6, <1>7, <1>11
    <3> SUFFICES ASSUME NEW k \in 1 .. Buffer
                 PROVE  packet_buffer'[k] = Unit(m, n, k)
      OBVIOUS
    <3>2. packet_buffer' = Overwritten(bio)
      BY <2>1, <2>2
    <3>3. packet_buffer'[k] = IF k <= Len(bio) THEN bio[k] ELSE packet_buffer[k]
      BY <3>2 DEF Overwritten
    <3>4. k <= Len(bio) /\ k \in 1 .. Size
      BY <1>2, <3>1
    <3> QED
      BY <1>8, <3>3, <3>4
  <2>4. packet_buffer' = [k \in 1 .. Buffer |-> packet_buffer'[k]]
    BY <2>1 DEF Overwritten
  <2>5. packet_buffer' \in [1 .. Buffer -> GoodUnits \cup {Uninit}]
    BY <1>10, <2>3, <2>4
  <2>6. read_bio' = rest
    <3>1. Len(rest) = 0 /\ rest \in Seq(GoodUnits)
      BY <1>2, <1>6, <1>7, <1>11
    <3>2. read_bio' = <<>>
      BY <1>1, <1>11, <2>1
    <3> QED
      BY <3>1, <3>2
  <2>7. Stream' = Row(rest, left, wire)
    BY <1>3, <1>s, <2>6
  <2>8. \A k \in 1 .. Payload + 2 : packet_buffer'[k] = Unit(m, n, k)
    BY <1>9, <2>3
  <2>9. read_bio' # <<>> => encrypted
    BY <1>1, <2>1
  <2> QED
    BY <1>s, <1>3, <1>7, <2>1, <2>5, <2>6, <2>7, <2>8, <2>9
<1>12. CASE encrypted
  <2>1. Len(bio) >= Record
    BY <1>2, <1>4, <1>6, <1>7, <1>12
  <2>2. packet_buffer' = Overwritten(Decrypted(bio)) /\ Take(packet_buffer')
        /\ read_bio' = SubSeq(bio, Record + 1, Len(bio))
    BY <1>12, <2>1 DEF ReadPacket, Complete, a, Joint, Front
  <2>3. read_bio' = rest
    BY <1>2, <1>12, <2>2 DEF rest, Back
  <2> HIDE DEF bio
  <2>4. \A k \in 1 .. Payload + 2 : Decrypted(bio)[k] = Unit(m, n, k)
    <3>1. bio[1] = Unit(m, n, 1)
      BY <1>8, <1>9
    <3> QED
      BY <3>1 DEF Decrypted, Unit
  <2>5. Len(Decrypted(bio)) = Payload + 2
    <3>1. Payload + 2 \in Nat
      BY <1>2
    <3> QED
      BY <3>1 DEF Decrypted
  <2>6. \A k \in 1 .. Buffer :
          packet_buffer'[k] = IF k <= Payload + 2 THEN Unit(m, n, k) ELSE packet_buffer[k]
    <3> SUFFICES ASSUME NEW k \in 1 .. Buffer
                 PROVE  packet_buffer'[k] = IF k <= Payload + 2 THEN Unit(m, n, k)
                                                                ELSE packet_buffer[k]
      OBVIOUS
    <3>1. packet_buffer'[k] = IF k <= Payload + 2 THEN Decrypted(bio)[k] ELSE packet_buffer[k]
      BY <2>2, <2>5 DEF Overwritten
    <3>2. k <= Payload + 2 => k \in 1 .. Payload + 2
      BY <1>2
    <3> QED
      BY <2>4, <3>1, <3>2
  <2>7. packet_buffer' = [k \in 1 .. Buffer |-> packet_buffer'[k]]
    BY <2>2 DEF Overwritten
  <2>8. packet_buffer' \in [1 .. Buffer -> GoodUnits \cup {Uninit}]
    <3>1. \A k \in 1 .. Buffer : packet_buffer'[k] \in GoodUnits \cup {Uninit}
      BY <1>1, <1>10, <2>6
    <3> QED
      BY <2>7, <3>1
  <2>9. Stream' = Row(rest, left, wire)
    BY <1>3, <1>s, <2>3
  <2>10. \A k \in 1 .. Payload + 2 : packet_buffer'[k] = Unit(m, n, k)
    <3> SUFFICES ASSUME NEW k \in 1 .. Payload + 2
                 PROVE  packet_buffer'[k] = Unit(m, n, k)
      OBVIOUS
    <3>1. k \in 1 .. Buffer /\ k <= Payload + 2
      BY <1>2
    <3> QED
      BY <2>6, <3>1
  <2> QED
    BY <1>s, <1>3, <1>7, <1>12, <2>2, <2>3, <2>8, <2>9, <2>10
<1> QED
  BY <1>1, <1>11, <1>12

(* Where there is something to read, the row begins with a whole packet in *)
(* the receiver's part: the next one of the oldest message.                *)
LEMMA FirstPacket ==
    ASSUME IInv, pc = "read", kernel # <<>>, NEW q \in Nat, NEW c \in Nat,
           NEW start \in Rows(q), NEW msg \in Rows(q), NEW num \in Rows(q),
           Placed(q, c, start, msg, num)
    PROVE  /\ q # 0 /\ c # 0 /\ c <= q /\ todo # <<>> /\ todo[1] \in Messages
           /\ num[1] \in 1 .. Packets(todo[1])
           /\ Len(read_bio) + Len(kernel) >= Size
           /\ \A j \in 1 .. Size : Stream[j] = Unit(todo[1], num[1], j)
<1>1. /\ todo \in Seq(Messages) /\ kernel \in Seq(GoodUnits)
      /\ Len(read_bio) \in Nat /\ Len(kernel) \in Nat \ {0} /\ Size \in Nat
  <2>1. Flowing /\ encrypted \in BOOLEAN /\ todo \in Seq(Messages) /\ kernel \in Seq(GoodUnits)
    BY DEF IInv, Flowing, Sending
  <2>2. Len(read_bio) \in Nat /\ Len(kernel) \in Nat
    BY <2>1, StreamType
  <2>3. Len(kernel) # 0
    BY <2>1
  <2> QED
    BY <2>1, <2>2, <2>3, SizeRoom, Constants
<1>2. /\ start[1] = 0 /\ c \in 0 .. q /\ start[c + 1] = Len(read_bio) + Len(kernel)
      /\ \A b \in 1 .. q : start[b + 1] = start[b] + Size
  BY DEF Placed, Blocks
<1>3. c # 0
  BY <1>1, <1>2
<1>4. c \in 1 .. q /\ 1 \in 1 .. q /\ start[c] \in Nat
  BY <1>2, <1>3 DEF Rows
<1>5. Len(read_bio) + Len(kernel) >= Size
  <2>1. start[c + 1] = start[c] + Size
    BY <1>2, <1>4
  <2> QED
    BY <1>1, <1>2, <1>4, <2>1
<1>6. msg[1] = 1
  BY DEF Placed, Order
<1>7. /\ 1 \in 1 .. Len(todo) /\ num[1] \in 1 .. Packets(todo[1])
      /\ \A j \in 1 .. Size : Stream[0 + j] = Unit(todo[1], num[1], j)
  BY <1>2, <1>4, <1>6 DEF Placed, Contents
<1>8. \A j \in 1 .. Size : 0 + j = j
  BY <1>1
<1>9. todo # <<>> /\ todo[1] \in Messages
  BY <1>1, <1>7
<1> QED
  BY <1>3, <1>4, <1>5, <1>7, <1>8, <1>9

(* The list of messages without its oldest one, when that has been taken. *)
LEMMA TodoMoved ==
    ASSUME NEW s \in Seq(Messages), s # <<>>, NEW t, NEW d \in {0, 1},
           t = IF d = 1 THEN Tail(s) ELSE s
    PROVE  /\ t \in Seq(Messages) /\ Len(t) = Len(s) - d /\ Len(s) \in Nat \ {0}
           /\ \A k \in 1 + d .. Len(s) : t[k - d] = s[k]
<1>1. CASE d = 0
  <2>1. t = s
    BY <1>1
  <2>2. \A k \in 1 .. Len(s) : k - 0 = k
    OBVIOUS
  <2> QED
    BY <1>1, <2>1, <2>2
<1>2. CASE d = 1
  <2>1. t = Tail(s)
    BY <1>2
  <2>2. /\ Tail(s) \in Seq(Messages) /\ Len(Tail(s)) = Len(s) - 1 /\ Len(s) \in Nat \ {0}
        /\ \A k \in 1 .. Len(s) - 1 : Tail(s)[k] = s[k + 1]
    OBVIOUS
  <2>3. \A k \in 2 .. Len(s) : Tail(s)[k - 1] = s[k]
    <3> SUFFICES ASSUME NEW k \in 2 .. Len(s)
                 PROVE  Tail(s)[k - 1] = s[k]
      OBVIOUS
    <3>1. k - 1 \in 1 .. Len(s) - 1 /\ k - 1 + 1 = k
      BY <2>2
    <3> QED
      BY <2>2, <3>1
  <2>4. /\ t \in Seq(Messages) /\ Len(t) = Len(s) - 1
        /\ \A k \in 2 .. Len(s) : t[k - 1] = s[k]
    BY <2>1, <2>2, <2>3
  <2> QED
    BY <1>2, <2>2, <2>4
<1> QED
  BY <1>1, <1>2

(* A turn takes the first packet of the row off, and with the last packet  *)
(* of a message the message is printed.  Every other packet of the row     *)
(* moves up by one place, and by one message if one has been received.     *)
ReadStep ==
    \/ todo # <<>> /\ todo' = Tail(todo) /\ printed' = todo[1]
    \/ UNCHANGED <<todo, printed>>

LEMMA ReadPacketNext == ASSUME IInv, ReadPacket PROVE IInv' /\ ReadStep
<1>1. /\ pc = "read" /\ kernel # <<>> /\ encrypted' = encrypted /\ wire' = wire
      /\ t_buffer' = t_buffer /\ i' = i /\ sent' = sent /\ written' = written
  BY DEF ReadPacket, sender
<1>2. /\ Sending /\ Flowing /\ Reading /\ Carried
      /\ todo \in Seq(Messages) /\ wire \in Seq(GoodUnits) /\ encrypted \in BOOLEAN
      /\ printed \in Messages \cup {NONE}
  BY DEF IInv, Sending, Flowing, Reading
<1>3. PICK q \in Nat, c \in Nat : \E start, msg, num \in Rows(q) :
        Placed(q, c, start, msg, num) /\ Needs(num[1])
  BY <1>1, <1>2 DEF Carried
<1>4. PICK start \in Rows(q), msg \in Rows(q), num \in Rows(q) :
        Placed(q, c, start, msg, num) /\ Needs(num[1])
  BY <1>3
<1>5. Blocks(q, c, start) /\ Contents(q, start, msg, num) /\ Order(q, msg, num)
  BY <1>4 DEF Placed
<1>6. /\ q # 0 /\ c # 0 /\ c <= q /\ todo # <<>> /\ todo[1] \in Messages
      /\ num[1] \in 1 .. Packets(todo[1])
      /\ Len(read_bio) + Len(kernel) >= Size
      /\ \A j \in 1 .. Size : Stream[j] = Unit(todo[1], num[1], j)
  BY <1>1, <1>4, FirstPacket
<1>7. PICK p \in Nat, e \in Nat : q = p + 1 /\ c = e + 1 /\ e <= p
  <2>1. q - 1 \in Nat /\ c - 1 \in Nat /\ q = (q - 1) + 1 /\ c = (c - 1) + 1 /\ c - 1 <= q - 1
    BY <1>6
  <2> QED
    BY <2>1
<1>8. /\ \A k \in 1 .. Payload + 2 : packet_buffer'[k] = Unit(todo[1], num[1], k)
      /\ packet_buffer' \in [1 .. Buffer -> GoodUnits \cup {Uninit}]
      /\ Take(packet_buffer')
      /\ kernel' \in Seq(GoodUnits) /\ read_bio' \in Seq(GoodUnits)
      /\ read_bio' # <<>> => encrypted
      /\ Len(read_bio') + Len(kernel') = Len(read_bio) + Len(kernel) - Size
      /\ Len(Stream') = Len(Stream) - Size
      /\ \A j \in 1 .. Len(Stream) - Size : Stream'[j] = Stream[j + Size]
  BY <1>6, ReadEffect
<1> DEFINE final == num[1] = Packets(todo[1])
<1>9. /\ t_out_buf' \in Seq(Bytes \cup {Zero, Uninit})
      /\ t_outbuf_size' \in Nat /\ Len(t_out_buf') <= t_outbuf_size'
      /\ final => pc' = "poll" /\ printed' = todo[1] /\ todo' = Tail(todo)
      /\ ~final =>
            /\ pc' = "read" /\ printed' = printed /\ todo' = todo
            /\ Len(t_out_buf') = (num[1] + 1 - 1) * Payload
            /\ t_outbuf_size' = OutSize(Packets(todo[1]))
            /\ \A k \in 1 .. Len(t_out_buf') :
                t_out_buf'[k] = IF k <= Len(todo[1]) THEN todo[1][k] ELSE Zero
  BY <1>1, <1>4, <1>6, <1>8, TakeEffect
<1>10. ReadStep
  BY <1>6, <1>9 DEF ReadStep
<1>11. PICK d \in {0, 1} : d = IF final THEN 1 ELSE 0
  OBVIOUS
<1>12. /\ todo' \in Seq(Messages) /\ Len(todo') = Len(todo) - d /\ Len(todo) \in Nat \ {0}
       /\ \A k \in 1 + d .. Len(todo) : todo'[k - d] = todo[k]
  <2>1. todo' = IF d = 1 THEN Tail(todo) ELSE todo
    BY <1>9, <1>11
  <2> QED
    BY <1>2, <1>6, <2>1, TodoMoved
<1>13. /\ start \in [1 .. q + 1 -> Nat] /\ msg \in [1 .. q + 1 -> Nat] /\ num \in [1 .. q + 1 -> Nat]
  BY DEF Rows
<1>s. Size \in Nat \ {0}
  <2>1. Size \in 1 .. Buffer
    BY <1>2, SizeRoom
  <2> QED
    BY <2>1, Constants
<1>14. /\ start[1] = 0 /\ start[q + 1] = Len(Stream)
       /\ \A b \in 1 .. q : start[b + 1] = start[b] + Size
       /\ \A b \in 1 .. q + 1 : start[b] <= Len(Stream)
       /\ start[c + 1] = Len(read_bio) + Len(kernel)
  BY <1>5 DEF Blocks
<1>15. /\ 1 \in 1 .. q /\ 1 + 1 \in 1 .. q + 1 /\ start[1 + 1] = Size
       /\ msg[1 + 1] = 1 + d
       /\ final => num[1 + 1] = 1
       /\ ~final => num[1 + 1] = num[1] + 1
  <2>1. 1 \in 1 .. q /\ 1 + 1 \in 1 .. q + 1
    BY <1>7
  <2>2. start[1 + 1] = start[1] + Size
    BY <1>14, <2>1
  <2>3. start[1 + 1] = Size
    BY <1>s, <1>14, <2>2
  <2>4. msg[1] = 1
    BY <1>5 DEF Order
  <2>5. IF num[1] = Packets(todo[msg[1]])
        THEN msg[1 + 1] = msg[1] + 1 /\ num[1 + 1] = 1
        ELSE msg[1 + 1] = msg[1] /\ num[1 + 1] = num[1] + 1
    BY <1>5, <2>1 DEF Order
  <2>6. final => msg[1 + 1] = 1 + 1 /\ num[1 + 1] = 1
    BY <2>4, <2>5
  <2>7. ~final => msg[1 + 1] = 1 /\ num[1 + 1] = num[1] + 1
    BY <2>4, <2>5
  <2> QED
    BY <1>11, <2>1, <2>3, <2>6, <2>7
<1> HIDE DEF final
<1>16. \A b \in 1 .. p + 1 :
        /\ b \in Nat /\ b + 1 \in 1 .. q + 1
        /\ start[b + 1] \in Nat /\ start[b + 1] >= Size
        /\ msg[b + 1] \in Nat /\ msg[b + 1] >= 1 + d
  <2> SUFFICES ASSUME NEW b \in 1 .. p + 1
               PROVE  /\ b \in Nat /\ b + 1 \in 1 .. q + 1
                      /\ start[b + 1] \in Nat /\ start[b + 1] >= Size
                      /\ msg[b + 1] \in Nat /\ msg[b + 1] >= 1 + d
    OBVIOUS
  <2>1. b \in Nat /\ b \in 1 .. q /\ b \in 1 .. q + 1 /\ b + 1 \in 1 .. q + 1 /\ 1 + 1 <= b + 1
    BY <1>7
  <2>2. start[b + 1] = start[b] + Size /\ start[b] \in Nat
    BY <1>13, <1>14, <2>1
  <2>3. msg[1 + 1] <= msg[b + 1]
    BY <1>5, <1>15, <2>1 DEF Order
  <2>4. start[b + 1] \in Nat /\ msg[b + 1] \in Nat
    BY <1>13, <2>1
  <2> QED
    BY <1>s, <1>15, <2>1, <2>2, <2>3, <2>4
<1>17. PICK start2 \in Rows(p) : \A b \in 1 .. p + 1 : start2[b] = start[b + 1] - Size
  <2> DEFINE f == [b \in 1 .. p + 1 |-> start[b + 1] - Size]
  <2>1. \A b \in 1 .. p + 1 : f[b] = start[b + 1] - Size /\ f[b] \in Nat
    BY <1>s, <1>16
  <2>2. f \in Rows(p)
    BY <2>1 DEF Rows
  <2> HIDE DEF f
  <2> QED
    BY <2>1, <2>2
<1>18. PICK msg2 \in Rows(p), num2 \in Rows(p) :
        \A b \in 1 .. p + 1 : msg2[b] = msg[b + 1] - d /\ num2[b] = num[b + 1]
  <2> DEFINE f == [b \in 1 .. p + 1 |-> msg[b + 1] - d]
             g == [b \in 1 .. p + 1 |-> num[b + 1]]
  <2>1. \A b \in 1 .. p + 1 : f[b] = msg[b + 1] - d /\ f[b] \in Nat
    BY <1>16
  <2>2. \A b \in 1 .. p + 1 : g[b] = num[b + 1] /\ g[b] \in Nat
    BY <1>13, <1>16
  <2>3. f \in Rows(p) /\ g \in Rows(p)
    BY <2>1, <2>2 DEF Rows
  <2> HIDE DEF f, g
  <2> QED
    BY <2>1, <2>2, <2>3
<1>19. /\ 1 \in 1 .. p + 1 /\ p + 1 \in 1 .. p + 1 /\ p + 1 + 1 = q + 1
       /\ start2[1] = 0 /\ msg2[1] = 1 /\ num2[1] = num[1 + 1]
  <2>1. 1 \in 1 .. p + 1 /\ p + 1 \in 1 .. p + 1 /\ p + 1 + 1 = q + 1
    BY <1>7
  <2>2. start2[1] = start[1 + 1] - Size /\ msg2[1] = msg[1 + 1] - d /\ num2[1] = num[1 + 1]
    BY <1>17, <1>18, <2>1
  <2> QED
    BY <1>s, <1>15, <2>1, <2>2
<1>20. Size' = Size
  BY <1>1 DEF Size
<1>21. Len(Stream) \in Nat /\ Len(read_bio) \in Nat /\ Len(kernel) \in Nat
  BY <1>2, StreamType
<1>22. Sending'
  <2>1. t_buffer' # NONE => todo' # <<>> /\ todo'[Len(todo')] = t_buffer'
    <3> SUFFICES ASSUME t_buffer # NONE
                 PROVE  todo' # <<>> /\ todo'[Len(todo')] = t_buffer
      BY <1>1
    <3>1. msg[q + 1] = Len(todo)
      BY <1>5 DEF Order
    <3>2. Len(todo) \in 1 + d .. Len(todo)
      BY <1>12, <1>16, <1>19, <3>1
    <3>3. todo'[Len(todo) - d] = todo[Len(todo)]
      BY <1>12, <3>2
    <3>4. Len(todo') # 0
      BY <1>12, <3>2
    <3>5. todo[Len(todo)] = t_buffer
      BY <1>2 DEF Sending
    <3> QED
      BY <1>12, <3>3, <3>4, <3>5
  <2> QED
    BY <1>1, <1>2, <1>12, <2>1 DEF Sending
<1>23. Blocks(p, e, start2)'
  <2>1. start2[p + 1] = Len(Stream')
    BY <1>8, <1>14, <1>17, <1>19
  <2>2. \A b \in 1 .. p : start2[b + 1] = start2[b] + Size
    <3> SUFFICES ASSUME NEW b \in 1 .. p
                 PROVE  start2[b + 1] = start2[b] + Size
      OBVIOUS
    <3>1. b \in 1 .. p + 1 /\ b + 1 \in 1 .. p + 1 /\ b + 1 \in 1 .. q
      BY <1>7
    <3>2. start[b + 1 + 1] = start[b + 1] + Size
      BY <1>14, <3>1
    <3>3. start2[b + 1] = start[b + 1 + 1] - Size /\ start2[b] = start[b + 1] - Size
      BY <1>17, <3>1
    <3>4. start[b + 1] \in Nat
      BY <1>16, <3>1
    <3> QED
      BY <1>s, <3>2, <3>3, <3>4
  <2>3. \A b \in 1 .. p + 1 : start2[b] <= Len(Stream')
    <3> SUFFICES ASSUME NEW b \in 1 .. p + 1
                 PROVE  start2[b] <= Len(Stream')
      OBVIOUS
    <3>1. start2[b] = start[b + 1] - Size /\ start[b + 1] \in Nat /\ start[b + 1] <= Len(Stream)
      BY <1>14, <1>16, <1>17
    <3>2. Len(Stream') = Len(Stream) - Size
      BY <1>8
    <3> QED
      BY <1>s, <1>21, <3>1, <3>2
  <2>4. e \in 0 .. p /\ start2[e + 1] = Len(read_bio') + Len(kernel')
    <3>1. e \in 0 .. p /\ e + 1 \in 1 .. p + 1 /\ e + 1 = c
      BY <1>7
    <3>2. start2[e + 1] = start[c + 1] - Size
      BY <1>17, <3>1
    <3>3. Len(read_bio') + Len(kernel') = Len(read_bio) + Len(kernel) - Size
      BY <1>8
    <3>4. start[c + 1] = Len(read_bio) + Len(kernel)
      BY <1>14
    <3>5. start2[e + 1] = Len(read_bio') + Len(kernel')
      BY <1>s, <1>21, <3>2, <3>3, <3>4
    <3> QED
      BY <3>1, <3>5
  <2> QED
    BY <1>19, <1>20, <2>1, <2>2, <2>3, <2>4 DEF Blocks
<1>24. \A b \in 1 .. p :
        /\ msg2[b] \in 1 .. Len(todo') /\ todo'[msg2[b]] = todo[msg[b + 1]]
        /\ num2[b] = num[b + 1] /\ b \in 1 .. p + 1 /\ b + 1 \in 1 .. q
  <2> SUFFICES ASSUME NEW b \in 1 .. p
               PROVE  /\ msg2[b] \in 1 .. Len(todo') /\ todo'[msg2[b]] = todo[msg[b + 1]]
                      /\ num2[b] = num[b + 1] /\ b \in 1 .. p + 1 /\ b + 1 \in 1 .. q
    OBVIOUS
  <2>1. b \in 1 .. p + 1 /\ b + 1 \in 1 .. q
    BY <1>7
  <2>2. msg2[b] = msg[b + 1] - d /\ num2[b] = num[b + 1]
    BY <1>18, <2>1
  <2>3. msg[b + 1] \in 1 .. Len(todo)
    BY <1>5, <2>1 DEF Contents
  <2>4. msg[b + 1] \in 1 + d .. Len(todo)
    BY <1>12, <1>16, <2>1, <2>3
  <2>5. todo'[msg[b + 1] - d] = todo[msg[b + 1]]
    BY <1>12, <2>4
  <2>6. msg[b + 1] - d \in 1 .. Len(todo')
    BY <1>12, <2>4
  <2> QED
    BY <2>1, <2>2, <2>5, <2>6
<1>25. Contents(p, start2, msg2, num2)'
  <2> SUFFICES ASSUME NEW b \in 1 .. p
               PROVE  /\ msg2[b] \in 1 .. Len(todo')
                      /\ num2[b] \in 1 .. Packets(todo'[msg2[b]])
                      /\ \A j \in 1 .. Size :
                          Stream'[start2[b] + j] = Unit(todo'[msg2[b]], num2[b], j)
    BY <1>20 DEF Contents, Unit
  <2>1. /\ msg2[b] \in 1 .. Len(todo') /\ todo'[msg2[b]] = todo[msg[b + 1]]
        /\ num2[b] = num[b + 1] /\ b \in 1 .. p + 1 /\ b + 1 \in 1 .. q
    BY <1>24
  <2>2. /\ num[b + 1] \in 1 .. Packets(todo[msg[b + 1]])
        /\ \A j \in 1 .. Size :
            Stream[start[b + 1] + j] = Unit(todo[msg[b + 1]], num[b + 1], j)
    BY <1>5, <2>1 DEF Contents
  <2>3. ASSUME NEW j \in 1 .. Size
        PROVE  Stream'[start2[b] + j] = Unit(todo[msg[b + 1]], num[b + 1], j)
    <3>1. start2[b] = start[b + 1] - Size /\ start[b + 1] \in Nat /\ start[b + 1] >= Size
      BY <1>16, <1>17, <2>1
    <3>2. start[b + 1 + 1] = start[b + 1] + Size /\ start[b + 1 + 1] <= Len(Stream)
      <4>1. b + 1 + 1 \in 1 .. q + 1
        BY <1>7, <2>1
      <4>2. start[b + 1 + 1] <= Len(Stream)
        BY <1>14, <4>1
      <4> QED
        BY <1>14, <2>1, <4>2
    <3>3. start2[b] + j \in 1 .. Len(Stream) - Size
      <4>1. \A x, y, z, k, end, size \in Nat :
              x = y - size /\ z = y + size /\ z <= end /\ k \in 1 .. size =>
                x + k \in 1 .. end - size
        OBVIOUS
      <4>2. start2[b] \in Nat /\ start[b + 1 + 1] \in Nat /\ j \in Nat /\ Size \in Nat
        BY <1>s, <3>1, <3>2
      <4> QED
        BY <1>21, <3>1, <3>2, <4>1, <4>2
    <3>4. start2[b] + j + Size = start[b + 1] + j
      BY <1>s, <3>1
    <3>5. Stream'[start2[b] + j] = Stream[start2[b] + j + Size]
      BY <1>8, <3>3
    <3> QED
      BY <2>2, <3>4, <3>5
  <2> QED
    BY <2>1, <2>2, <2>3
<1>26. Order(p, msg2, num2)'
  <2>1. \A b \in 1 .. p :
          IF num2[b] = Packets(todo'[msg2[b]])
          THEN msg2[b + 1] = msg2[b] + 1 /\ num2[b + 1] = 1
          ELSE msg2[b + 1] = msg2[b] /\ num2[b + 1] = num2[b] + 1
    <3> SUFFICES ASSUME NEW b \in 1 .. p
                 PROVE  IF num2[b] = Packets(todo'[msg2[b]])
                        THEN msg2[b + 1] = msg2[b] + 1 /\ num2[b + 1] = 1
                        ELSE msg2[b + 1] = msg2[b] /\ num2[b + 1] = num2[b] + 1
      OBVIOUS
    <3>1. /\ todo'[msg2[b]] = todo[msg[b + 1]] /\ num2[b] = num[b + 1]
          /\ b \in 1 .. p + 1 /\ b + 1 \in 1 .. q /\ b + 1 \in 1 .. p + 1
      BY <1>7, <1>24
    <3>2. IF num[b + 1] = Packets(todo[msg[b + 1]])
          THEN msg[b + 1 + 1] = msg[b + 1] + 1 /\ num[b + 1 + 1] = 1
          ELSE msg[b + 1 + 1] = msg[b + 1] /\ num[b + 1 + 1] = num[b + 1] + 1
      BY <1>5, <3>1 DEF Order
    <3>3. /\ msg2[b] = msg[b + 1] - d /\ msg2[b + 1] = msg[b + 1 + 1] - d
          /\ num2[b + 1] = num[b + 1 + 1]
      BY <1>18, <3>1
    <3>4. msg[b + 1] \in Nat /\ msg[b + 1 + 1] \in Nat
      BY <1>16, <3>1
    <3>5. /\ msg[b + 1 + 1] = msg[b + 1] + 1 => msg2[b + 1] = msg2[b] + 1
          /\ msg[b + 1 + 1] = msg[b + 1] => msg2[b + 1] = msg2[b]
      BY <3>3, <3>4
    <3> QED
      BY <3>1, <3>2, <3>3, <3>5
  <2>2. \A a, b \in 1 .. p + 1 : a <= b => msg2[a] <= msg2[b]
    <3> SUFFICES ASSUME NEW a \in 1 .. p + 1, NEW b \in 1 .. p + 1, a <= b
                 PROVE  msg2[a] <= msg2[b]
      OBVIOUS
    <3>1. a + 1 \in 1 .. q + 1 /\ b + 1 \in 1 .. q + 1 /\ a + 1 <= b + 1
      BY <1>7
    <3>2. msg[a + 1] <= msg[b + 1]
      BY <1>5, <3>1 DEF Order
    <3>3. msg2[a] = msg[a + 1] - d /\ msg2[b] = msg[b + 1] - d
      BY <1>18
    <3>4. msg[a + 1] \in Nat /\ msg[b + 1] \in Nat
      BY <1>16
    <3> QED
      BY <3>2, <3>3, <3>4
  <2>3. IF t_buffer = NONE THEN msg2[p + 1] = Len(todo') + 1 /\ num2[p + 1] = 1
                           ELSE msg2[p + 1] = Len(todo') /\ num2[p + 1] = i
    <3>1. IF t_buffer = NONE THEN msg[q + 1] = Len(todo) + 1 /\ num[q + 1] = 1
                             ELSE msg[q + 1] = Len(todo) /\ num[q + 1] = i
      BY <1>5 DEF Order
    <3>2. msg2[p + 1] = msg[q + 1] - d /\ num2[p + 1] = num[q + 1]
      BY <1>18, <1>19
    <3>3. /\ msg[q + 1] = Len(todo) + 1 => msg2[p + 1] = Len(todo') + 1
          /\ msg[q + 1] = Len(todo) => msg2[p + 1] = Len(todo')
      BY <1>12, <3>2
    <3> QED
      BY <3>1, <3>2, <3>3
  <2> QED
    BY <1>1, <1>19, <2>1, <2>2, <2>3 DEF Order
<1>27. Needs(num2[1])'
  <2>1. CASE final
    BY <1>9, <1>15, <1>19, <2>1 DEF Needs
  <2>2. CASE ~final
    <3>1. num2[1] = num[1] + 1 /\ num[1] \in Nat /\ num[1] >= 1
      BY <1>6, <1>15, <1>19, <2>2
    <3>2. num[1] + 1 <= Packets(todo[1]) /\ num[1] + 1 > 1 /\ num[1] + 1 # 1
      BY <1>6, <2>2, Room DEF final
    <3>3. /\ pc' = "read" /\ todo' = todo
          /\ Len(t_out_buf') = (num[1] + 1 - 1) * Payload
          /\ t_outbuf_size' = OutSize(Packets(todo[1]))
          /\ \A k \in 1 .. Len(t_out_buf') :
              t_out_buf'[k] = IF k <= Len(todo[1]) THEN todo[1][k] ELSE Zero
      BY <1>9, <2>2
    <3> DEFINE n == num[1] + 1
    <3>4. num2[1] = n /\ n # 1 /\ n <= Packets(todo[1]) /\ Len(t_out_buf') = (n - 1) * Payload
      BY <3>1, <3>2, <3>3
    <3> HIDE DEF n
    <3>5. Needs(n)'
      BY <1>6, <3>3, <3>4 DEF Needs
    <3> QED
      BY <3>4, <3>5
  <2> QED
    BY <2>1, <2>2
<1>28. Carried'
  BY <1>23, <1>25, <1>26, <1>27, CarriedOn
<1>29. read_bio' # <<>> => read_bio'[1].unit = 1
  <2> SUFFICES ASSUME read_bio' # <<>>
               PROVE  read_bio'[1].unit = 1
    OBVIOUS
  <2>1. Len(read_bio') \in Nat \ {0} /\ Len(kernel') \in Nat /\ Len(wire') \in Nat
    BY <1>1, <1>2, <1>8
  <2>2. p # 0
    <3>1. start2[e + 1] = Len(read_bio') + Len(kernel')
      BY <1>23 DEF Blocks
    <3> SUFFICES ASSUME p = 0
                 PROVE  FALSE
      OBVIOUS
    <3>2. e + 1 = 1
      BY <1>7
    <3> QED
      BY <1>19, <2>1, <3>1, <3>2
  <2>3. 1 \in 1 .. p
    BY <2>2
  <2>4. Stream'[start2[1] + 1] = Unit(todo'[msg2[1]], num2[1], 1)
    <3>1. 1 \in 1 .. Size
      BY <1>s
    <3> QED
      BY <1>20, <1>25, <2>3, <3>1 DEF Contents, Unit
  <2>5. Stream'[1] = read_bio'[1]
    <3>1. read_bio' \in Seq(GoodUnits) /\ kernel' \in Seq(GoodUnits) /\ wire' \in Seq(GoodUnits)
      BY <1>1, <1>2, <1>8
    <3>2. \A j \in 1 .. Len(read_bio') + Len(kernel') + Len(wire') :
            ((read_bio' \o kernel') \o wire')[j] =
                IF j <= Len(read_bio') THEN read_bio'[j]
                ELSE IF j <= Len(read_bio') + Len(kernel') THEN kernel'[j - Len(read_bio')]
                ELSE wire'[j - Len(read_bio') - Len(kernel')]
      BY <3>1, Threefold
    <3>3. 1 \in 1 .. Len(read_bio') + Len(kernel') + Len(wire') /\ 1 <= Len(read_bio')
      BY <2>1
    <3> QED
      BY <3>2, <3>3 DEF Stream
  <2>6. start2[1] + 1 = 1
    BY <1>19
  <2> QED
    BY <2>4, <2>5, <2>6 DEF Unit
<1>30. Flowing'
  BY <1>1, <1>2, <1>8, <1>29 DEF Flowing, GoodUnits, UnitsOf, Unit
<1>31. Reading'
  <2>1. pc' \in {"poll", "read", "gone", "astray"} /\ printed' \in Messages \cup {NONE}
    BY <1>2, <1>6, <1>9
  <2> QED
    BY <1>8, <1>9, <2>1 DEF Reading, GoodUnits, UnitsOf, Unit
<1> QED
  BY <1>10, <1>22, <1>28, <1>30, <1>31 DEF IInv

-----------------------------------------------------------------------------
(* The invariant holds always. *)

LEMMA IInvStutter == IInv /\ UNCHANGED vars => IInv'
<1> SUFFICES ASSUME IInv, UNCHANGED vars
             PROVE  IInv'
  OBVIOUS
<1>1. /\ UNCHANGED <<encrypted, sender, wire, kernel, read_bio, todo>>
      /\ pc' = pc /\ packet_buffer' = packet_buffer /\ t_out_buf' = t_out_buf
      /\ t_outbuf_size' = t_outbuf_size /\ printed' = printed
  BY DEF vars, receiver
<1>2. Sending'
  BY <1>1 DEF IInv, Sending, sender
<1>3. Flowing'
  BY <1>1 DEF IInv, Flowing, GoodUnits, UnitsOf, Unit
<1>4. Reading'
  BY <1>1 DEF IInv, Reading, GoodUnits, UnitsOf, Unit
<1>5. Carried'
  <2> SUFFICES ASSUME pc' \in {"poll", "read"}
               PROVE  Carried'
    BY DEF Carried
  <2>1. \A n \in Nat : Needs(n) => Needs(n)'
    BY <1>1 DEF Needs
  <2>2. pc \in {"poll", "read"}
    BY <1>1
  <2> QED
    BY <1>1, <2>1, <2>2, RowSame
<1> QED
  BY <1>2, <1>3, <1>4, <1>5 DEF IInv

LEMMA IInvNext == ASSUME ~Cuts PROVE IInv /\ [Next]_vars => IInv'
<1>1. IInv /\ Next => IInv'
  BY judoSendNext, WritePacketNext, ArriveNext, BeginReadNext, ReadPacketNext, judoDisconnectNext
     DEF Next
<1> QED
  BY <1>1, IInvStutter

LEMMA Invariance == ASSUME ~Cuts PROVE Spec => []IInv
<1>1. Init => IInv
  BY IInvInit
<1>2. IInv /\ [Next]_vars => IInv'
  BY IInvNext
<1> QED
  BY <1>1, <1>2, PTL DEF Spec

LEMMA IInvTypeOK == IInv => TypeOK
<1> SUFFICES ASSUME IInv
             PROVE  TypeOK
  OBVIOUS
<1>1. Sending /\ Flowing /\ Reading
  BY DEF IInv
<1>2. \A stream \in {wire, kernel, read_bio} :
        \A k \in DOMAIN stream : stream[k] # Uninit /\ UnitType(stream[k])
  <2> SUFFICES ASSUME NEW stream \in {wire, kernel, read_bio}, NEW k \in DOMAIN stream
               PROVE  stream[k] # Uninit /\ UnitType(stream[k])
    OBVIOUS
  <2>1. stream \in Seq(GoodUnits)
    BY <1>1 DEF Flowing
  <2>2. stream[k] \in GoodUnits
    BY <2>1
  <2> QED
    BY <2>2, GoodUnit
<1>3. \A k \in 1 .. Buffer : UnitType(packet_buffer[k])
  <2> SUFFICES ASSUME NEW k \in 1 .. Buffer
               PROVE  UnitType(packet_buffer[k])
    OBVIOUS
  <2>1. packet_buffer[k] \in GoodUnits \cup {Uninit}
    BY <1>1 DEF Reading
  <2>2. CASE packet_buffer[k] = Uninit
    BY <2>2 DEF UnitType
  <2> QED
    BY <2>1, <2>2, GoodUnit
<1> QED
  BY <1>1, <1>2, <1>3 DEF TypeOK, Sending, Flowing, Reading

-----------------------------------------------------------------------------
(* What the code promises. *)

(* Every variable stays in its type, and in particular the loop of         *)
(* judoRead_ never writes past the end of the buffer it has allocated from *)
(* the first header of a message, and what read_bio keeps begins a record: *)
(* for messages of any length, encrypted or not, while packets arrive      *)
(* whole.                                                                  *)
THEOREM TypeCorrect == ASSUME ~Cuts PROVE Spec => []TypeOK
<1>1. IInv => TypeOK
  BY IInvTypeOK
<1> QED
  BY <1>1, Invariance, PTL

(* A step receives the oldest message as it was sent, or sends one, or     *)
(* leaves the messages alone.                                              *)
LEMMA StepEffect ==
    ASSUME IInv, [Next]_vars
    PROVE  ReadStep \/ \E m \in Messages : judoSend(m)
<1>1. CASE UNCHANGED vars
  BY <1>1 DEF vars, receiver, ReadStep
<1>2. CASE WritePacket
  BY <1>2 DEF WritePacket, receiver, ReadStep
<1>3. CASE Arrive
  BY <1>3 DEF Arrive, receiver, ReadStep
<1>4. CASE BeginRead
  BY <1>4 DEF BeginRead, ReadStep
<1>5. CASE ReadPacket
  BY <1>5, ReadPacketNext
<1>6. CASE judoDisconnect
  BY <1>6 DEF judoDisconnect, ReadStep
<1> QED
  BY <1>1, <1>2, <1>3, <1>4, <1>5, <1>6 DEF Next

LEMMA InitMaps == Init => Abstract!Init
BY DEF Init, Abstract!Init

(* judoSend puts a message at the end of the list, the last packet of one  *)
(* takes the oldest, and every other step is none of the list's.           *)
LEMMA StepMaps == IInv /\ [Next]_vars => [Abstract!Next]_(Abstract!vars)
<1> SUFFICES ASSUME IInv, [Next]_vars
             PROVE  [Abstract!Next]_(Abstract!vars)
  OBVIOUS
<1>1. ASSUME UNCHANGED <<todo, printed>>
      PROVE  UNCHANGED Abstract!vars
  BY <1>1 DEF Abstract!vars
<1>2. ASSUME todo # <<>>, todo' = Tail(todo), printed' = todo[1]
      PROVE  Abstract!Take("receiver")
  <2>1. [u \in {"receiver"} |-> printed]' =
            [[u \in {"receiver"} |-> printed] EXCEPT !["receiver"] = Head(todo)]
    <3>1. todo \in Seq(Messages)
      BY DEF IInv, Sending
    <3>2. Head(todo) = todo[1]
      BY <1>2, <3>1
    <3> QED
      BY <1>2, <3>2
  <2> QED
    BY <1>2, <2>1 DEF Abstract!Take
<1>3. CASE ReadStep
  BY <1>1, <1>2, <1>3 DEF ReadStep, Abstract!Next
<1>4. ASSUME NEW m \in Messages, judoSend(m)
      PROVE  Abstract!Put(m)
  <2>1. todo' = Append(todo, m) /\ printed' = printed
    BY <1>4 DEF judoSend, receiver
  <2> QED
    BY <2>1 DEF Abstract!Put
<1> QED
  BY <1>3, <1>4, StepEffect DEF Abstract!Next

(* A connection is a first-in first-out list of messages: what run prints  *)
(* is the oldest message not received yet, complete and without anything   *)
(* of another, whatever the lengths of the messages, of the payload and of *)
(* the records are - as long as packets arrive whole.                      *)
THEOREM Implementation == ASSUME ~Cuts PROVE Spec => ImplementsFifo
<1>1. Init => Abstract!Init
  BY InitMaps
<1>2. IInv /\ [Next]_vars => [Abstract!Next]_(Abstract!vars)
  BY StepMaps
<1> QED
  BY <1>1, <1>2, Invariance, PTL DEF Spec, ImplementsFifo, Abstract!Spec

(* A message is received as it was sent, however judoSend_, the network    *)
(* and judoRead_ take turns, as long as packets arrive whole and the       *)
(* uninitialized index of judoRead_ (360, 383) reads 0: any other value of *)
(* it damages whole packets, too, and takes the receiver "astray", where   *)
(* nothing more is printed.  So cut packets are one cause for which the    *)
(* sentence of the README fails, the index is the other.                   *)
THEOREM IntactIfWhole == ASSUME ~Cuts PROVE Spec => MessagesIntact
<1>1. IInv /\ [Next]_vars => [todo # <<>> /\ todo' = Tail(todo) => printed' = Head(todo)]_vars
  <2> SUFFICES ASSUME IInv, [Next]_vars, todo # <<>>, todo' = Tail(todo)
               PROVE  printed' = Head(todo)
    OBVIOUS
  <2>1. todo \in Seq(Messages)
    BY DEF IInv, Sending
  <2>2. Len(Tail(todo)) # Len(todo) /\ \A m \in Messages : Len(Tail(todo)) # Len(Append(todo, m))
    BY <2>1
  <2>3. CASE ReadStep
    BY <2>1, <2>2, <2>3 DEF ReadStep
  <2>4. CASE \E m \in Messages : judoSend(m)
    BY <2>2, <2>4 DEF judoSend
  <2> QED
    BY <2>3, <2>4, StepEffect
<1> QED
  BY <1>1, Invariance, PTL DEF Spec, MessagesIntact
=============================================================================
