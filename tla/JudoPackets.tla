----------------------------- MODULE JudoPackets -----------------------------
(***************************************************************************)
(* judoSend_ of one JudoServer against judoRead_ of another, over one TCP  *)
(* connection.  A message is cut into packets of the same size, each with  *)
(* its number and the total in front and zeros behind the last byte; the   *)
(* receiver reads packet by packet until number and total agree, and run   *)
(* prints the result as a C string.  On an encrypted connection every      *)
(* packet travels as one TLS record, which is shorter than the buffer that *)
(* read is given: what a read takes of the next record waits in read_bio.  *)
(*                                                                         *)
(* Units stand for the 1024 bytes of a buffer: one for the number, one for *)
(* the total, Payload for the 984 bytes of payload, one for the 32 behind. *)
(* The buffer size is 1 << (mode & 0xCF), which still has the certificate  *)
(* bits in it; the shift of the processor drops them again (10 = 74 % 32). *)
(***************************************************************************)
EXTENDS Naturals, Sequences

CONSTANTS
    Messages,       \* what may be sent: sequences of bytes other than Zero
    Zero,           \* '\0'
    Uninit,         \* memory never written
    NONE,           \* no message
    Payload,        \* bytes of a message in one packet
    Record,         \* length of the TLS record of a packet (1014 of 1024)
    Cuts,           \* does the network deliver parts of packets?
    MaxMessages     \* bound: calls of judoSend_

Buffer == Payload + 3

Bytes == UNION {{m[k] : k \in DOMAIN m} : m \in Messages}

ASSUME PacketsAssumption ==
    /\ Payload \in Nat \ {0} /\ Record \in 1 .. Buffer /\ MaxMessages \in Nat
    /\ Cuts \in BOOLEAN
    /\ \A m \in Messages : m \in Seq(Bytes)
    /\ Zero \notin Bytes /\ NONE \notin Messages

VARIABLES
    encrypted,          \* is there a certificate bit in t_node->mode?
    t_buffer, i,        \* judoSend_: the message, the packet to be written
    wire, kernel,       \* units on their way, units that read may take
    read_bio,
    pc,                 \* the receiver: "poll", "read", "gone", "astray"
    packet_buffer,
    t_out_buf, t_outbuf_size,
    printed,            \* what run made of the last message
    sent, written,      \* history: messages begun, packets written
    todo                \* history: messages sent and not yet received

sender == <<t_buffer, i, sent, written>>
receiver == <<read_bio, pc, packet_buffer, t_out_buf, t_outbuf_size, printed>>
vars == <<encrypted, sender, wire, kernel, receiver, todo>>

Fresh == [k \in 1 .. Buffer |-> Uninit]

Init ==
    /\ encrypted \in BOOLEAN
    /\ t_buffer = NONE /\ i = 0 /\ sent = 0 /\ written = 0
    /\ wire = <<>> /\ kernel = <<>>
    /\ read_bio = <<>> /\ pc = "poll"
    /\ packet_buffer = Fresh /\ t_out_buf = <<>> /\ t_outbuf_size = 0
    /\ printed = NONE /\ todo = <<>>

-----------------------------------------------------------------------------
(* judoSend_. *)

PacketsFull(m) == Len(m) \div Payload           \* mutant: only full packets
PacketsRounded(m) ==                            \* mutant: no packet more than needed
    IF m = <<>> THEN 1 ELSE (Len(m) + Payload - 1) \div Payload
Packets(m) == 1 + Len(m) \div Payload

PacketOf(m, n) ==
    [number |-> n, total |-> Packets(m),
     payload |-> [j \in 1 .. Payload |->
        LET k == (n - 1) * Payload + j IN IF k <= Len(m) THEN m[k] ELSE Zero]]

(* A unit of a packet can be told from memory never written. *)
ASSUME UninitAssumption ==
    \A m \in Messages : \A n \in 1 .. Packets(m), k \in 1 .. Buffer :
        Uninit # [packet |-> PacketOf(m, n), unit |-> k]

(* What write puts on the connection for a packet. *)
Size == IF encrypted THEN Record ELSE Buffer
Units(p) == [k \in 1 .. Size |-> [packet |-> p, unit |-> k]]

judoSend(m) ==
    /\ t_buffer = NONE /\ sent < MaxMessages
    /\ sent' = sent + 1 /\ todo' = Append(todo, m)
    /\ IF Packets(m) = 0 THEN UNCHANGED <<t_buffer, i>> ELSE t_buffer' = m /\ i' = 1
    /\ UNCHANGED <<encrypted, written, wire, kernel, receiver>>

WritePacket ==
    /\ t_buffer # NONE
    /\ wire' = wire \o Units(PacketOf(t_buffer, i))
    /\ written' = written + 1
    /\ IF i = Packets(t_buffer) THEN t_buffer' = NONE /\ i' = 0
                                ELSE i' = i + 1 /\ UNCHANGED t_buffer
    /\ UNCHANGED <<encrypted, sent, kernel, receiver, todo>>

(* TCP keeps the order; packets arrive whole, or in any pieces. *)
Arrive ==
    \E n \in 1 .. Len(wire) :
        /\ Cuts \/ n = Size
        /\ kernel' = kernel \o SubSeq(wire, 1, n)
        /\ wire' = SubSeq(wire, n + 1, Len(wire))
        /\ UNCHANGED <<encrypted, sender, receiver, todo>>

-----------------------------------------------------------------------------
(* judoRead_. *)

(* poll has reported the socket.  index is never set: it is 0, or the loop *)
(* writes somewhere, which is not followed further.                        *)
BeginRead ==
    /\ pc = "poll" /\ kernel # <<>>
    /\ pc' \in {"read", "astray"}
    /\ packet_buffer' = Fresh /\ t_out_buf' = <<>> /\ t_outbuf_size' = 0
    /\ UNCHANGED <<encrypted, sender, wire, kernel, read_bio, printed, todo>>

(* packet_buffer with the given units in front. *)
Overwritten(units) ==
    [k \in 1 .. Buffer |-> IF k <= Len(units) THEN units[k] ELSE packet_buffer[k]]

(* The bytes read_bio holds begin a record (the library takes nothing out  *)
(* but whole records), so the first one is complete if they are enough.    *)
Complete(bio) == Len(bio) >= Record
Decrypted(bio) == [k \in 1 .. Payload + 2 |-> [bio[1] EXCEPT !.unit = k]]

(* A field of the packet in packet_buffer: units of one packet in their    *)
(* places, else what happens to be there.                                  *)
HasHeader(buf) ==
    \A k \in 1 .. 2 : buf[k] # Uninit /\ buf[k].unit = k
ByteAt(buf, k) ==
    IF buf[k] # Uninit /\ buf[k].unit \in 3 .. Payload + 2
    THEN buf[k].packet.payload[buf[k].unit - 2] ELSE Uninit

OutSizeOne(total) == Buffer                 \* mutant: room for one packet only
OutSize(total) == total * Buffer

(* What run prints: the bytes before the first zero, if there is one. *)
Printed(buf) ==
    LET zeros == {k \in DOMAIN buf : buf[k] = Zero}
    IN  IF zeros = {} THEN Uninit
        ELSE SubSeq(buf, 1, (CHOOSE k \in zeros : \A j \in zeros : k <= j) - 1)

(* The end of one turn of the loop, with buf in packet_buffer. *)
Take(buf) ==
    LET number == buf[1].packet.number
        total == buf[2].packet.total
        out == t_out_buf \o [k \in 1 .. Payload |-> ByteAt(buf, k + 2)]
    IN  IF ~HasHeader(buf)
        THEN pc' = "astray" /\ UNCHANGED <<t_out_buf, t_outbuf_size, printed, todo>>
        ELSE /\ t_out_buf' = out
             /\ t_outbuf_size' = IF t_outbuf_size = 0 THEN OutSize(total) ELSE t_outbuf_size
             /\ IF number = total
                THEN /\ pc' = "poll"
                     /\ printed' = Printed(out)
                     /\ todo' = IF todo = <<>> THEN <<>> ELSE Tail(todo)
                ELSE UNCHANGED <<pc, printed, todo>>

(* One turn: read takes what there is, as far as the buffer goes.  SSL_read *)
(* puts a decrypted packet over it, or leaves the encrypted bytes there.    *)
ReadPacket ==
    /\ pc = "read" /\ kernel # <<>>
    /\ LET n == IF Len(kernel) < Buffer THEN Len(kernel) ELSE Buffer
           bio == read_bio \o SubSeq(kernel, 1, n)
       IN  /\ kernel' = SubSeq(kernel, n + 1, Len(kernel))
           /\ IF ~encrypted
              THEN /\ packet_buffer' = Overwritten(SubSeq(kernel, 1, n))
                   /\ Take(packet_buffer') /\ UNCHANGED read_bio
              ELSE IF Complete(bio)
              THEN /\ packet_buffer' = Overwritten(Decrypted(bio))
                   /\ read_bio' = SubSeq(bio, Record + 1, Len(bio))
                   /\ Take(packet_buffer')
              ELSE /\ pc' = "astray" /\ read_bio' = bio
                   /\ UNCHANGED <<packet_buffer, t_out_buf, t_outbuf_size, printed, todo>>
    /\ UNCHANGED <<encrypted, sender, wire>>

(* read returns nothing for five seconds in the middle of a message, or -  *)
(* also when poll has just reported the end - because the peer has closed. *)
judoDisconnect ==
    /\ pc \in {"poll", "read"} /\ kernel = <<>>
    /\ pc' = "gone"
    /\ UNCHANGED <<encrypted, sender, wire, kernel, read_bio, packet_buffer,
                   t_out_buf, t_outbuf_size, printed, todo>>

Next ==
    \/ \E m \in Messages : judoSend(m)
    \/ WritePacket \/ Arrive \/ BeginRead \/ ReadPacket \/ judoDisconnect

Spec == Init /\ [][Next]_vars

(* judoSend_ and the network go on, and so does the receiver's run.  A     *)
(* sender may be slow, but read does not wait for more than five seconds.  *)
FairSpec ==
    /\ Spec
    /\ WF_vars(WritePacket) /\ WF_vars(Arrive)
    /\ WF_vars(BeginRead) /\ WF_vars(ReadPacket)
    /\ WF_vars(pc = "read" /\ judoDisconnect)
-----------------------------------------------------------------------------
UnitType(u) ==
    u = Uninit \/ (u.unit \in 1 .. Buffer /\ u.packet.number \in 1 .. u.packet.total)

(* Every variable stays in its type; the loop of judoRead_ writes nothing  *)
(* past the end of the buffer it has allocated from the first header, and  *)
(* read_bio holds the beginning of a record.                               *)
TypeOK ==
    /\ encrypted \in BOOLEAN
    /\ t_buffer \in Messages \cup {NONE} /\ i \in Nat
    /\ t_buffer # NONE => i \in 1 .. Packets(t_buffer)
    /\ sent \in 0 .. MaxMessages /\ written \in Nat
    /\ \A stream \in {wire, kernel, read_bio} :
        \A k \in DOMAIN stream : stream[k] # Uninit /\ UnitType(stream[k])
    /\ read_bio # <<>> => read_bio[1].unit = 1
    /\ pc \in {"poll", "read", "gone", "astray"}
    /\ \A k \in 1 .. Buffer : UnitType(packet_buffer[k])
    /\ t_out_buf \in Seq(Bytes \cup {Zero, Uninit})
    /\ Len(t_out_buf) <= t_outbuf_size
    /\ printed \in Messages \cup {NONE}
    /\ todo \in Seq(Messages)

Abstract == INSTANCE Fifo WITH
    Users <- {"receiver"}, Items <- Messages, NULL <- NONE,
    items <- todo, held <- [u \in {"receiver"} |-> <<>>],
    out <- [u \in {"receiver"} |-> printed]

(* A connection is a first-in first-out list of messages: whatever their   *)
(* lengths (also exact multiples of the payload), and however judoSend_,   *)
(* the network and judoRead_ take turns, what run prints is the oldest     *)
(* message not received yet, complete, ended by the zeros behind it and    *)
(* without anything of another message - as long as packets arrive whole.  *)
ImplementsFifo == Abstract!Spec

(* The spare bytes that reads have taken of later records make up a whole  *)
(* buffer: then a record is in read_bio that neither poll nor read sees.   *)
Ahead == encrypted /\ written * (Buffer - Record) >= Buffer

(* Every message arrives or the connection ends, until so many records     *)
(* have been sent that one can hide in read_bio (103 of the real size).    *)
Delivered == todo # <<>> ~> (todo = <<>> \/ pc \in {"gone", "astray"} \/ Ahead)

(* README.md:8: "All incoming messages will be processed ... as they come  *)
(* in".  A message is received as it was sent.                             *)
MessagesIntact == [][todo # <<>> /\ todo' = Tail(todo) => printed' = Head(todo)]_vars
=============================================================================
