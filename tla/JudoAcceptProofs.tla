--------------------------- MODULE JudoAcceptProofs ---------------------------
(***************************************************************************)
(* Theorems about judoAccept_ and judoConnect_, for any number of clients, *)
(* configuring threads and requirements, and any interleaving of them with *)
(* the clients, the accepting thread and the timeouts.                     *)
(*                                                                         *)
(* That both sides want the same mode when they finish needs to know that  *)
(* a client sends no mode but the one it asked for, and its Finish only    *)
(* when the ticket is all that is left to it (ClientSide), and that the    *)
(* server is in a handshake only in its client's mode (Dialogue).  That a  *)
(* requirement binds needs to know how the settings can have changed since *)
(* they were read (Settled), and that no socket is lost that a client is   *)
(* in the backlog at most once (Queued).                                   *)
(***************************************************************************)
EXTENDS JudoAccept, SequenceTheorems, FiniteSetTheorems, TLAPS

Contains(s, b) == \E i \in 1 .. Len(s) : s[i] = b

InCall == {"server bit", "client bit", "greet"}

(* SSL_ENABLED is never lost again, because whoever writes m_mode back has *)
(* read the bit or sets it; what is confirmed is never lost, because       *)
(* whoever is between reading and writing has read it.  What a call has    *)
(* read so far covers what was confirmed when it began.  A call that began *)
(* without SSL cannot find a bit later: run has set m_active, so no        *)
(* require call gets past its test, and none was past it without SSL.      *)
WordKept ==
    /\ m_mode \cap Certs # {} => "ssl" \in m_mode
    /\ confirmed \subseteq m_mode
    /\ \A o \in Operators :
        /\ doing[o] \in Certs => "ssl" \in m_mode
        /\ loaded[o] # NONE =>
            /\ doing[o] # NONE
            /\ confirmed \subseteq loaded[o]
            /\ "ssl" \in loaded[o] => "ssl" \in m_mode
            /\ doing[o] \in Certs \/ loaded[o] \cap Certs # {} => "ssl" \in loaded[o]

NothingRequired ==
    /\ m_mode \cap Certs = {}
    /\ \A o \in Operators :
        doing[o] \notin Certs /\ (loaded[o] # NONE => loaded[o] \cap Certs = {})

Settled ==
    /\ pc # "outside" => m_active
    /\ pc \in InCall => demanded \subseteq confirmed
    /\ pc = "client bit" => demanded \cap {"server"} \subseteq mode
    /\ pc \in {"greet"} \cup Talking => demanded \subseteq mode
    /\ pc \in InCall \cup Talking /\ ~filled => NothingRequired /\ mode = {}

(* A client is in the backlog once, before anything else happens to it.    *)
Waiting == {backlog[i] : i \in 1 .. Len(backlog)}

Queued ==
    /\ pc \in InCall => backlog # <<>>
    /\ \A i, j \in 1 .. Len(backlog) : backlog[i] = backlog[j] => i = j
    /\ \A c \in Waiting :
        entries[c] = NONE /\ at[c] # "start" /\ ~ (pc \in Talking /\ client = c)
    /\ \A c \in Clients : at[c] = "start" =>
        entries[c] = NONE /\ ~ (pc \in Talking /\ client = c)

(* What the server knows of the client it is talking to. *)
Dialogue ==
    /\ pc \in Talking \ {"send"} => entries[client] = NONE
    /\ pc = "send" => entries[client] # NONE
    /\ pc \in {"hello", "finish", "broken"} => mode = t_mode[client] /\ mode # {}

(* A client sends no mode but the one it asked for, and Finish only when   *)
(* all that is left to it is to read the ticket.                           *)
ClientSide ==
    \A c \in Clients :
        /\ \A b \in Modes : Contains(c2s[c], b) => b = t_mode[c]
        /\ Contains(c2s[c], Finish) => at[c] \in {"ticket", "connected", "vanished"}
        /\ at[c] \in {"hello", "reply", "ticket"} => c_mode[c] = t_mode[c]
        /\ at[c] \in {"mode", "hello", "reply", "broken", "ticket"} => c \in c_open
        /\ entered[c] # NONE => at[c] \in {"connected", "vanished"}

IInv ==
    /\ TypeOK /\ WordKept /\ Settled /\ Queued /\ Dialogue /\ ClientSide
    /\ AsAsked /\ EncryptedOnBothSides /\ SocketsAccounted

-----------------------------------------------------------------------------
(* Data: what a stream holds after a byte or flight was sent or received,  *)
(* and whom the backlog holds after connect and accept.                    *)

LEMMA ContainsSent ==
    ASSUME NEW S, NEW s \in Seq(S), NEW x \in S
    PROVE  \A b : Contains(Append(s, x), b) => Contains(s, b) \/ b = x
<1>1. Len(s) \in Nat /\ Len(Append(s, x)) = Len(s) + 1
      /\ \A i \in 1 .. Len(s) : Append(s, x)[i] = s[i]
      /\ Append(s, x)[Len(s) + 1] = x
  BY LenProperties, AppendProperties
<1>2. \A i \in 1 .. Len(s) + 1 : i \in 1 .. Len(s) \/ i = Len(s) + 1
  BY <1>1
<1> QED
  BY <1>1, <1>2 DEF Contains

LEMMA ContainsReceived ==
    ASSUME NEW S, NEW s \in Seq(S), s # <<>>
    PROVE  /\ Contains(s, Head(s)) /\ Tail(s) \in Seq(S)
           /\ \A b : Contains(Tail(s), b) => Contains(s, b)
<1>1. /\ Len(s) \in Nat \ {0} /\ Head(s) = s[1] /\ Tail(s) \in Seq(S)
      /\ Len(Tail(s)) = Len(s) - 1
      /\ \A i \in 1 .. Len(Tail(s)) : Tail(s)[i] = s[i + 1]
  BY EmptySeq, LenProperties, HeadTailProperties
<1>2. 1 \in 1 .. Len(s) /\ \A i \in 1 .. Len(Tail(s)) : i + 1 \in 1 .. Len(s)
  BY <1>1
<1> QED
  BY <1>1, <1>2 DEF Contains

LEMMA BacklogAppended ==
    ASSUME backlog \in Seq(Clients), NEW c \in Clients, backlog' = Append(backlog, c)
    PROVE  /\ backlog' \in Seq(Clients) /\ backlog' # <<>>
           /\ Waiting' = Waiting \cup {c}
           /\ /\ c \notin Waiting
              /\ \A i, j \in 1 .. Len(backlog) : backlog[i] = backlog[j] => i = j
              => \A i, j \in 1 .. Len(backlog') : backlog'[i] = backlog'[j] => i = j
<1>1. /\ Len(backlog) \in Nat /\ Len(backlog') = Len(backlog) + 1
      /\ \A i \in 1 .. Len(backlog) : backlog'[i] = backlog[i]
      /\ backlog'[Len(backlog) + 1] = c
      /\ backlog' \in Seq(Clients) /\ backlog' # <<>>
  BY LenProperties, AppendProperties
<1>2. /\ \A i \in 1 .. Len(backlog') : i \in 1 .. Len(backlog) \/ i = Len(backlog) + 1
      /\ \A i \in 1 .. Len(backlog) : i \in 1 .. Len(backlog')
      /\ Len(backlog) + 1 \in 1 .. Len(backlog')
  BY <1>1
<1>3. Waiting' = Waiting \cup {c}
  BY <1>1, <1>2 DEF Waiting
<1>4. ASSUME c \notin Waiting,
             \A i, j \in 1 .. Len(backlog) : backlog[i] = backlog[j] => i = j
      PROVE  \A i, j \in 1 .. Len(backlog') : backlog'[i] = backlog'[j] => i = j
  <2>1. \A i \in 1 .. Len(backlog) : backlog[i] # c
    BY <1>4 DEF Waiting
  <2> QED
    BY <1>1, <1>2, <1>4, <2>1
<1> QED
  BY <1>1, <1>3, <1>4

LEMMA BacklogTaken ==
    ASSUME backlog \in Seq(Clients), backlog # <<>>, backlog' = Tail(backlog),
           \A i, j \in 1 .. Len(backlog) : backlog[i] = backlog[j] => i = j
    PROVE  /\ backlog' \in Seq(Clients)
           /\ Head(backlog) \in Clients /\ Head(backlog) \in Waiting
           /\ Waiting' = Waiting \ {Head(backlog)}
           /\ \A i, j \in 1 .. Len(backlog') : backlog'[i] = backlog'[j] => i = j
<1>1. /\ Len(backlog) \in Nat \ {0} /\ Head(backlog) = backlog[1]
      /\ Head(backlog) \in Clients /\ backlog' \in Seq(Clients)
      /\ Len(backlog') = Len(backlog) - 1
      /\ \A i \in 1 .. Len(backlog') : backlog'[i] = backlog[i + 1]
  BY EmptySeq, LenProperties, HeadTailProperties
<1>2. /\ 1 \in 1 .. Len(backlog)
      /\ \A i \in 1 .. Len(backlog') : i + 1 \in 1 .. Len(backlog) /\ i + 1 # 1
      /\ \A i \in 1 .. Len(backlog) : i = 1 \/ (i - 1 \in 1 .. Len(backlog') /\ (i - 1) + 1 = i)
      /\ \A i, j \in 1 .. Len(backlog') : i + 1 = j + 1 => i = j
  BY <1>1
<1>3. Head(backlog) \in Waiting
  BY <1>1, <1>2 DEF Waiting
<1>4. Waiting' = Waiting \ {Head(backlog)}
  <2>1. Waiting' \subseteq Waiting \ {Head(backlog)}
    BY <1>1, <1>2 DEF Waiting
  <2>2. ASSUME NEW c \in Waiting \ {Head(backlog)} PROVE c \in Waiting'
    <3>1. PICK i \in 1 .. Len(backlog) : backlog[i] = c
      BY DEF Waiting
    <3>2. i - 1 \in 1 .. Len(backlog') /\ backlog'[i - 1] = c
      BY <1>1, <1>2, <2>2, <3>1
    <3> QED
      BY <3>2 DEF Waiting
  <2> QED
    BY <2>1, <2>2
<1>5. \A i, j \in 1 .. Len(backlog') : backlog'[i] = backlog'[j] => i = j
  BY <1>1, <1>2
<1> QED
  BY <1>1, <1>3, <1>4, <1>5

LEMMA DataHas ==
    Modes \subseteq Data /\ Flights \subseteq Data /\ Reject \in Data /\ Other \in Data
BY DEF Data

(* No two flights look alike, and none looks like anything else.           *)
LEMMA FinishAlone ==
    /\ Finish \notin {Hello, HelloReply, Ticket, Reject, Other} /\ Finish \notin Modes
    /\ {Hello, HelloReply, Reject, Other} \cap Modes = {}
<1>1. Cardinality(Flights) = 4
  BY AcceptAssumption
<1>2. \A x, y, z : IsFiniteSet({x, y, z}) /\ Cardinality({x, y, z}) # 4
  <2> SUFFICES ASSUME NEW x, NEW y, NEW z
               PROVE  IsFiniteSet({x, y, z}) /\ Cardinality({x, y, z}) # 4
    OBVIOUS
  <2>1. IsFiniteSet({x}) /\ Cardinality({x}) = 1
    BY FS_Singleton
  <2>2. IsFiniteSet({x} \cup {y}) /\ Cardinality({x} \cup {y}) \in {1, 2}
    BY <2>1, FS_AddElement
  <2>3. /\ IsFiniteSet({x} \cup {y} \cup {z})
        /\ Cardinality({x} \cup {y} \cup {z}) \in {1, 2, 3}
    BY <2>2, FS_AddElement
  <2>4. {x, y, z} = {x} \cup {y} \cup {z}
    OBVIOUS
  <2> QED
    BY <2>3, <2>4
<1>3. /\ Finish = Hello => Flights = {HelloReply, Finish, Ticket}
      /\ Finish = HelloReply => Flights = {Hello, Finish, Ticket}
      /\ Finish = Ticket => Flights = {Hello, HelloReply, Finish}
  BY DEF Flights
<1>4. Finish # Hello /\ Finish # HelloReply /\ Finish # Ticket
  BY <1>1, <1>2, <1>3
<1>5. /\ Reject \notin Modes /\ Reject \notin Flights /\ Modes \cap Flights = {}
      /\ Other \notin Modes /\ Other \notin Flights
      /\ Hello \in Flights /\ HelloReply \in Flights /\ Finish \in Flights
  BY AcceptAssumption DEF Flights
<1> QED
  BY <1>4, <1>5

-----------------------------------------------------------------------------
(* What a step that leaves some variables alone keeps.                     *)

LEMMA KeptWord ==
    ASSUME UNCHANGED settings
    PROVE  /\ WordKept => WordKept'
           /\ NothingRequired => NothingRequired'
           /\ confirmed' = confirmed
BY DEF WordKept, NothingRequired, settings

LEMMA KeptSettled ==
    ASSUME WordKept, Settled, UNCHANGED <<m_active, settings, pc, mode, filled, demanded>>
    PROVE  WordKept' /\ Settled'
BY KeptWord DEF Settled, InCall, Talking

LEMMA KeptServer ==
    ASSUME Queued, Dialogue, UNCHANGED <<pc, client, mode, entries, backlog, at, t_mode>>
    PROVE  Queued' /\ Dialogue'
<1>1. Waiting' = Waiting
  BY DEF Waiting
<1> QED
  BY <1>1 DEF Queued, Dialogue, InCall, Talking

LEMMA KeptClients ==
    ASSUME ClientSide, UNCHANGED <<clients, c_open>>,
           \A c \in Clients : \A b : Contains(c2s'[c], b) => Contains(c2s[c], b)
    PROVE  ClientSide'
BY DEF ClientSide, clients

LEMMA KeptPromises ==
    ASSUME AsAsked, EncryptedOnBothSides, SocketsAccounted,
           UNCHANGED <<pc, client, entries, deleted, at, t_mode, entered, s_open, c_open>>
    PROVE  AsAsked' /\ EncryptedOnBothSides' /\ SocketsAccounted'
BY DEF AsAsked, EncryptedOnBothSides, SocketsAccounted, Talking

LEMMA KeptStreams ==
    ASSUME UNCHANGED c2s
    PROVE  \A c \in Clients : \A b : Contains(c2s'[c], b) => Contains(c2s[c], b)
OBVIOUS

-----------------------------------------------------------------------------
(* The actions.                                                            *)

LEMMA InitInv == Init => IInv
<1> SUFFICES ASSUME Init PROVE IInv
  OBVIOUS
<1>1. /\ m_active = FALSE /\ runs = 0
      /\ m_mode = {} /\ confirmed = {}
      /\ doing = [o \in Operators |-> NONE] /\ loaded = [o \in Operators |-> NONE]
      /\ pc = "outside" /\ client = NONE /\ mode = {} /\ filled = FALSE
      /\ demanded = {}
      /\ entries = [c \in Clients |-> NONE] /\ deleted = {}
      /\ at = [c \in Clients |-> "start"]
      /\ t_mode \in [Clients -> Modes]
      /\ c_mode = [c \in Clients |-> {}]
      /\ entered = [c \in Clients |-> NONE]
      /\ backlog = <<>>
      /\ s2c = [c \in Clients |-> <<>>] /\ c2s = [c \in Clients |-> <<>>]
      /\ s_open = {} /\ c_open = {}
  BY DEF Init
<1>2. <<>> \in Seq(Clients) /\ <<>> \in Seq(Data) /\ {} \in Modes /\ NONE \notin Bits
  BY EmptySeq, AcceptAssumption DEF Modes
<1>3. TypeOK
  <2>1. /\ m_active \in BOOLEAN /\ filled \in BOOLEAN
    BY <1>1
  <2>2. runs \in Nat
    BY <1>1
  <2>3. /\ entries \in [Clients -> Modes \cup {NONE}]
        /\ at \in [Clients -> Steps]
        /\ doing \in [Operators -> Bits \cup {NONE}]
        /\ loaded \in [Operators -> {NONE} \cup SUBSET Bits]
        /\ c_mode \in [Clients -> Modes] /\ entered \in [Clients -> Modes \cup {NONE}]
        /\ s2c \in [Clients -> Seq(Data)]
        /\ c2s \in [Clients -> Seq(Data)]
    BY <1>1, <1>2 DEF Steps
  <2>4. pc \in {"outside", "run", "server bit", "client bit", "greet", "dead"} \cup Talking
        /\ pc \notin Talking
    BY <1>1 DEF Talking
  <2> QED
    BY <1>1, <1>2, <2>1, <2>2, <2>3, <2>4 DEF TypeOK
<1>4. WordKept /\ Settled
  BY <1>1, <1>2 DEF WordKept, Settled, InCall, Talking, Certs, Bits
<1>5. Queued
  <2>1. Len(backlog) = 0 /\ Waiting = {}
    BY <1>1 DEF Waiting
  <2>2. \A i, j \in 1 .. Len(backlog) : backlog[i] = backlog[j] => i = j
    BY <2>1
  <2> QED
    BY <1>1, <2>1, <2>2 DEF Queued, InCall, Talking
<1>6. Dialogue
  BY <1>1 DEF Dialogue, Talking
<1>7. ClientSide
  <2>1. \A c \in Clients : \A b : ~ Contains(c2s[c], b)
    BY <1>1 DEF Contains
  <2> QED
    BY <1>1, <2>1 DEF ClientSide
<1>8. AsAsked /\ EncryptedOnBothSides /\ SocketsAccounted
  BY <1>1 DEF AsAsked, EncryptedOnBothSides, SocketsAccounted, Talking
<1> QED
  BY <1>3, <1>4, <1>5, <1>6, <1>7, <1>8 DEF IInv

(* The configuring threads.                                                *)
LEMMA ConfigureInv ==
    ASSUME IInv, Configure
    PROVE  IInv'
<1>1. UNCHANGED <<m_active, runs, server, clients, net>>
  BY DEF Configure, SetUpSSL, RequireCheck, RequireLoad, StoreMode
<1>2. UNCHANGED <<pc, client, mode, filled, demanded, entries, deleted, at, t_mode, c_mode,
                  entered, backlog, s2c, c2s, s_open, c_open>>
  BY <1>1 DEF server, clients, net
<1>3. PICK o \in Operators :
        SetUpSSL(o) \/ RequireLoad(o) \/ StoreMode(o) \/ \E bit \in Certs : RequireCheck(o, bit)
  BY DEF Configure
<1>4. /\ m_mode \in SUBSET Bits /\ confirmed \in SUBSET Certs
      /\ doing \in [Operators -> Bits \cup {NONE}]
      /\ loaded \in [Operators -> {NONE} \cup SUBSET Bits]
      /\ NONE \notin Bits /\ NONE \notin SUBSET Bits
      /\ Certs \subseteq Bits /\ "ssl" \in Bits /\ "ssl" \notin Certs
      /\ \A b \in Bits : b = "ssl" \/ b \in Certs
  BY AcceptAssumption DEF IInv, TypeOK, Bits, Certs
<1>5. /\ m_mode \cap Certs # {} => "ssl" \in m_mode
      /\ confirmed \subseteq m_mode
      /\ \A p \in Operators :
          /\ doing[p] \in Certs => "ssl" \in m_mode
          /\ loaded[p] # NONE =>
              /\ doing[p] # NONE
              /\ confirmed \subseteq loaded[p]
              /\ "ssl" \in loaded[p] => "ssl" \in m_mode
              /\ doing[p] \in Certs \/ loaded[p] \cap Certs # {} => "ssl" \in loaded[p]
  BY DEF IInv, WordKept
<1>6. pc \in InCall \cup Talking /\ ~filled => NothingRequired /\ m_active
  BY DEF IInv, Settled, InCall, Talking
<1> DEFINE Types == /\ m_mode' \in SUBSET Bits /\ confirmed' \in SUBSET Certs
                    /\ doing' \in [Operators -> Bits \cup {NONE}]
                    /\ loaded' \in [Operators -> {NONE} \cup SUBSET Bits]
<1>7. Types /\ WordKept' /\ confirmed \subseteq confirmed'
      /\ (NothingRequired /\ m_active => NothingRequired')
  <2>1. CASE SetUpSSL(o)
    <3>1. /\ doing' = [doing EXCEPT ![o] = "ssl"] /\ loaded' = [loaded EXCEPT ![o] = m_mode]
          /\ UNCHANGED <<m_mode, confirmed>>
      BY <2>1 DEF SetUpSSL, Load
    <3>2. Types
      BY <1>4, <3>1
    <3>3. /\ doing'[o] = "ssl" /\ loaded'[o] = m_mode
          /\ \A p \in Operators : p # o => doing'[p] = doing[p] /\ loaded'[p] = loaded[p]
      BY <1>4, <3>1
    <3>4. WordKept'
      BY <1>4, <1>5, <3>1, <3>3 DEF WordKept
    <3>5. NothingRequired => NothingRequired'
      BY <1>4, <3>1, <3>3 DEF NothingRequired
    <3> QED
      BY <3>1, <3>2, <3>4, <3>5
  <2>2. CASE RequireLoad(o)
    <3>1. /\ doing[o] \in Certs /\ loaded' = [loaded EXCEPT ![o] = m_mode]
          /\ UNCHANGED <<m_mode, doing, confirmed>>
      BY <2>2 DEF RequireLoad, Load
    <3>2. Types
      BY <1>4, <3>1
    <3>3. /\ loaded'[o] = m_mode
          /\ \A p \in Operators : p # o => loaded'[p] = loaded[p]
      BY <1>4, <3>1
    <3>4. WordKept'
      BY <1>4, <1>5, <3>1, <3>3 DEF WordKept
    <3>5. NothingRequired => NothingRequired'
      BY <1>4, <3>1, <3>3 DEF NothingRequired
    <3> QED
      BY <3>1, <3>2, <3>4, <3>5
  <2>3. CASE StoreMode(o)
    <3>1. /\ loaded[o] # NONE /\ m_mode' = loaded[o] \cup {doing[o]}
          /\ doing' = [doing EXCEPT ![o] = NONE] /\ loaded' = [loaded EXCEPT ![o] = NONE]
          /\ \/ confirmed' = confirmed
             \/ /\ \A p \in Operators \ {o} : loaded[p] = NONE
                /\ confirmed' = confirmed \cup (Certs \cap {doing[o]})
      BY <2>3 DEF StoreMode, WithBit, Undisturbed
    <3>2. loaded[o] \in SUBSET Bits /\ doing[o] \in Bits
      BY <1>4, <1>5, <3>1
    <3>3. Types
      BY <1>4, <3>1, <3>2
    <3>4. /\ doing'[o] = NONE /\ loaded'[o] = NONE
          /\ \A p \in Operators : p # o => doing'[p] = doing[p] /\ loaded'[p] = loaded[p]
      BY <1>4, <3>1
    <3>5. /\ confirmed \subseteq confirmed' /\ confirmed' \subseteq m_mode'
          /\ \A p \in Operators : p # o /\ loaded[p] # NONE => confirmed' \subseteq loaded[p]
      BY <1>5, <3>1
    <3>6. /\ m_mode' \cap Certs # {} => "ssl" \in m_mode'
          /\ "ssl" \in m_mode => "ssl" \in m_mode'
      <4>1. CASE doing[o] = "ssl"
        BY <3>1, <4>1
      <4>2. CASE doing[o] \in Certs
        BY <1>5, <3>1, <4>2
      <4> QED
        BY <1>4, <3>2, <4>1, <4>2
    <3>7. WordKept'
      BY <1>4, <1>5, <3>4, <3>5, <3>6 DEF WordKept
    <3>8. NothingRequired => NothingRequired'
      <4>1. NothingRequired => m_mode' \cap Certs = {}
        BY <3>1 DEF NothingRequired
      <4> QED
        BY <1>4, <3>4, <4>1 DEF NothingRequired
    <3> QED
      BY <3>3, <3>5, <3>7, <3>8
  <2>4. ASSUME NEW bit \in Certs, RequireCheck(o, bit)
        PROVE  Types /\ WordKept' /\ confirmed \subseteq confirmed'
               /\ (NothingRequired /\ m_active => NothingRequired')
    <3>1. /\ doing[o] = NONE /\ "ssl" \in m_mode /\ ~m_active
          /\ doing' = [doing EXCEPT ![o] = bit]
          /\ UNCHANGED <<m_mode, loaded, confirmed>>
      BY <2>4 DEF RequireCheck
    <3>2. Types
      BY <1>4, <3>1
    <3>3. /\ doing'[o] = bit /\ loaded[o] = NONE
          /\ \A p \in Operators : p # o => doing'[p] = doing[p]
      BY <1>4, <1>5, <3>1
    <3>4. WordKept'
      BY <1>5, <3>1, <3>3 DEF WordKept
    <3> QED
      BY <3>1, <3>2, <3>4
  <2> QED
    BY <1>3, <2>1, <2>2, <2>3, <2>4
<1> HIDE DEF Types
<1>8. TypeOK'
  <2>1. Types
    BY <1>7
  <2> QED
    BY <1>1, <1>2, <2>1 DEF IInv, TypeOK, Types
<1>9. Settled'
  <2>1. /\ pc # "outside" => m_active
        /\ pc \in InCall => demanded \subseteq confirmed
        /\ pc = "client bit" => demanded \cap {"server"} \subseteq mode
        /\ pc \in {"greet"} \cup Talking => demanded \subseteq mode
        /\ pc \in InCall \cup Talking /\ ~filled => mode = {}
    BY DEF IInv, Settled
  <2> QED
    BY <1>1, <1>2, <1>6, <1>7, <2>1 DEF Settled, InCall, Talking
<1>10. Queued' /\ Dialogue'
  BY <1>2, KeptServer DEF IInv
<1>11. ClientSide'
  BY <1>1, <1>2, KeptClients, KeptStreams DEF IInv
<1>12. AsAsked' /\ EncryptedOnBothSides' /\ SocketsAccounted'
  BY <1>2, KeptPromises DEF IInv
<1> QED
  BY <1>7, <1>8, <1>9, <1>10, <1>11, <1>12 DEF IInv

(* run and judoAccept_ up to the greeting: only what the call has read so  *)
(* far changes.                                                            *)
LEMMA BeforeGreeting ==
    ASSUME IInv, pc \notin Talking, pc # "dead", pc' \notin Talking,
           pc' \in InCall => backlog # <<>>,
           UNCHANGED <<settings, client, entries, deleted, clients, net>>
    PROVE  Queued' /\ Dialogue' /\ ClientSide'
           /\ AsAsked' /\ EncryptedOnBothSides' /\ SocketsAccounted'
<1>1. UNCHANGED <<client, entries, at, t_mode, c_mode, entered, backlog, c2s, s_open, c_open>>
  BY DEF clients, net
<1>2. Waiting' = Waiting
  BY <1>1 DEF Waiting
<1>3. Queued'
  BY <1>1, <1>2 DEF IInv, Queued
<1>4. Dialogue'
  <2>1. pc' \notin {"hello", "finish", "broken", "send"}
    BY DEF Talking
  <2> QED
    BY <2>1 DEF Dialogue
<1>5. ClientSide'
  BY <1>1, KeptClients, KeptStreams DEF IInv
<1>6. AsAsked' /\ EncryptedOnBothSides' /\ SocketsAccounted'
  BY <1>1 DEF IInv, AsAsked, EncryptedOnBothSides, SocketsAccounted
<1> QED
  BY <1>3, <1>4, <1>5, <1>6

LEMMA RunReturnInv ==
    ASSUME IInv, Run \/ Return
    PROVE  IInv'
<1>1. /\ pc \in {"outside", "run"} /\ pc' \in {"outside", "run"}
      /\ UNCHANGED <<settings, client, mode, filled, demanded, entries, deleted, clients, net>>
      /\ m_active' = TRUE \/ (m_active' = m_active /\ pc' = "outside")
      /\ runs' \in {runs, runs + 1}
  BY DEF Run, Return
<1>2. pc \notin Talking /\ pc # "dead" /\ pc' \notin Talking \cup InCall
  BY <1>1 DEF Talking, InCall
<1>3. TypeOK'
  <2>1. runs' \in Nat
    <3>1. runs \in Nat
      BY DEF IInv, TypeOK
    <3>2. runs' = runs \/ runs' = runs + 1
      BY <1>1, Zenon
    <3> QED
      BY <3>1, <3>2
  <2>2. m_active' \in BOOLEAN
    <3>1. m_active \in BOOLEAN
      BY DEF IInv, TypeOK
    <3>2. m_active' = TRUE \/ m_active' = m_active
      BY <1>1, Zenon
    <3> QED
      BY <3>1, <3>2, Zenon
  <2>3. pc' \in {"outside", "run", "server bit", "client bit", "greet", "dead"} \cup Talking
    BY <1>1
  <2> QED
    BY <1>1, <1>2, <2>1, <2>2, <2>3 DEF IInv, TypeOK, settings, clients, net
<1>4. Settled' /\ WordKept'
  <2>1. pc' # "outside" => m_active'
    BY <1>1
  <2>2. WordKept'
    BY <1>1, KeptWord DEF IInv
  <2>3. pc' # "client bit" /\ pc' \notin {"greet"} \cup Talking \cup InCall
    BY <1>1, <1>2 DEF InCall, Talking
  <2> QED
    BY <2>1, <2>2, <2>3 DEF Settled
<1> QED
  BY <1>1, <1>2, <1>3, <1>4, BeforeGreeting DEF IInv

LEMMA AcceptCallInv ==
    ASSUME IInv, AcceptCall
    PROVE  IInv'
<1>1. /\ pc = "run" /\ backlog # <<>>
      /\ mode' = {} /\ filled' = ("ssl" \in m_mode) /\ demanded' = confirmed
      /\ pc' \in {"server bit", "run"}
      /\ UNCHANGED <<m_active, runs, settings, client, entries, deleted, clients, net>>
  BY DEF AcceptCall
<1>2. pc \notin Talking /\ pc # "dead" /\ pc' \notin Talking
  BY <1>1 DEF Talking
<1>3. TypeOK'
  <2>1. mode' \in Modes /\ demanded' \in SUBSET Certs
    BY <1>1 DEF IInv, TypeOK, Modes
  <2>2. filled' \in BOOLEAN
    <3>1. filled' = ("ssl" \in m_mode)
      BY <1>1
    <3>2. CASE "ssl" \in m_mode
      BY <3>1, <3>2, Zenon
    <3>3. CASE "ssl" \notin m_mode
      BY <3>1, <3>3
    <3> QED
      BY <3>2, <3>3
  <2>3. pc' \in {"outside", "run", "server bit", "client bit", "greet", "dead"} \cup Talking
    BY <1>1
  <2> QED
    BY <1>1, <1>2, <2>1, <2>2, <2>3 DEF IInv, TypeOK, settings, clients, net
<1>4. WordKept' /\ confirmed' = confirmed
  BY <1>1, KeptWord DEF IInv
<1>5. ~filled' => NothingRequired'
  <2>1. "ssl" \notin m_mode => NothingRequired
    BY DEF IInv, WordKept, NothingRequired
  <2> QED
    BY <1>1, <2>1, KeptWord
<1>6. Settled'
  <2>1. m_active
    BY <1>1 DEF IInv, Settled
  <2>2. pc' # "client bit" /\ pc' \notin {"greet"} \cup Talking
    BY <1>1 DEF Talking
  <2> QED
    BY <1>1, <1>4, <1>5, <2>1, <2>2 DEF Settled
<1> QED
  BY <1>1, <1>2, <1>3, <1>4, <1>6, BeforeGreeting DEF IInv

LEMMA ReadBitInv ==
    ASSUME IInv,
           \/ ReadBit("server bit", "server", "client bit")
           \/ ReadBit("client bit", "client", "greet")
    PROVE  IInv'
<1>1. PICK here \in InCall, bit \in Certs, next \in InCall :
        /\ \/ here = "server bit" /\ bit = "server" /\ next = "client bit"
           \/ here = "client bit" /\ bit = "client" /\ next = "greet"
        /\ pc = here
        /\ mode' = IF bit \in m_mode THEN mode \cup {bit} ELSE mode
        /\ pc' = next
        /\ UNCHANGED <<m_active, runs, settings, client, filled, demanded, entries, deleted, clients, net>>
  BY DEF ReadBit, InCall, Certs
<1>2. pc \notin Talking /\ pc # "dead" /\ pc' \notin Talking /\ pc \in InCall /\ pc' \in InCall
  BY <1>1 DEF Talking, InCall
<1>3. /\ WordKept' /\ confirmed' = confirmed
      /\ NothingRequired => NothingRequired'
  BY <1>1, KeptWord DEF IInv
<1>4. TypeOK'
  <2>1. mode' \in Modes
    <3>1. \A m : m \in Modes <=> m \subseteq Certs
      BY DEF Modes, Certs
    <3>2. mode \in Modes
      BY DEF IInv, TypeOK
    <3> QED
      BY <1>1, <3>1, <3>2
  <2>2. pc' \in {"outside", "run", "server bit", "client bit", "greet", "dead"} \cup Talking
    BY <1>2 DEF InCall
  <2> QED
    BY <1>1, <1>2, <2>1, <2>2 DEF IInv, TypeOK, settings, clients, net
<1>5. Settled'
  <2>1. /\ m_active /\ demanded \subseteq confirmed /\ confirmed \subseteq m_mode
        /\ pc = "client bit" => demanded \cap {"server"} \subseteq mode
        /\ ~filled => NothingRequired /\ mode = {}
    BY <1>2 DEF IInv, Settled, WordKept, InCall
  <2>2. demanded \subseteq Certs
    BY DEF IInv, TypeOK
  <2>3. pc' = "client bit" => demanded' \cap {"server"} \subseteq mode'
    BY <1>1, <2>1
  <2>4. pc' = "greet" => demanded' \subseteq mode'
    BY <1>1, <2>1, <2>2 DEF Certs
  <2>5. ~filled => mode' = {}
    BY <1>1, <2>1 DEF NothingRequired
  <2>6. m_active' = m_active /\ filled' = filled /\ demanded' = demanded
    BY <1>1
  <2> QED
    BY <1>2, <1>3, <2>1, <2>3, <2>4, <2>5, <2>6 DEF Settled
<1>6. backlog # <<>>
  BY <1>2 DEF IInv, Queued
<1> QED
  BY <1>1, <1>2, <1>3, <1>4, <1>5, <1>6, BeforeGreeting DEF IInv

(* From the greeting on, what was read of the settings does not change.    *)
LEMMA SettledAfter ==
    ASSUME IInv, pc \in {"greet"} \cup Talking, pc' \in {"run", "dead"} \cup Talking,
           UNCHANGED <<m_active, settings, mode, filled, demanded>>
    PROVE  WordKept' /\ Settled'
<1>1. WordKept' /\ (NothingRequired => NothingRequired')
  BY KeptWord DEF IInv
<1>2. /\ m_active /\ demanded \subseteq mode
      /\ ~filled => NothingRequired /\ mode = {}
  BY DEF IInv, Settled, InCall, Talking
<1>3. pc' # "client bit" /\ pc' \notin InCall
  BY DEF InCall, Talking
<1> QED
  BY <1>1, <1>2, <1>3 DEF Settled

(* SIGPIPE ends the server in the middle of a call.                        *)
LEMMA KilledInv ==
    ASSUME IInv, pc \in {"greet"} \cup Talking, Killed,
           UNCHANGED <<m_active, runs, settings, mode, filled, demanded, clients, c_open>>,
           backlog' \in Seq(Clients), Waiting' \subseteq Waiting,
           \A i, j \in 1 .. Len(backlog') : backlog'[i] = backlog'[j] => i = j,
           c2s' \in [Clients -> Seq(Data)],
           \A c \in Clients : \A b : Contains(c2s'[c], b) => Contains(c2s[c], b)
    PROVE  IInv'
<1>1. /\ pc' = "dead" /\ s_open' = {} /\ UNCHANGED <<client, entries, deleted, s2c>>
      /\ UNCHANGED <<at, t_mode, c_mode, entered>>
  BY DEF Killed, clients
<1>2. pc' \notin Talking /\ pc' \notin InCall
  BY <1>1 DEF Talking, InCall
<1>3. TypeOK'
  <2>1. s_open' \in SUBSET Clients /\ pc' \in {"outside", "run", "server bit", "client bit", "greet", "dead"} \cup Talking
    BY <1>1
  <2> QED
    BY <1>1, <1>2, <2>1 DEF IInv, TypeOK, settings
<1>4. WordKept' /\ Settled'
  BY <1>1, SettledAfter
<1>5. Queued'
  BY <1>1, <1>2 DEF IInv, Queued
<1>6. Dialogue'
  BY <1>1, <1>2 DEF Dialogue, Talking
<1>7. ClientSide'
  BY KeptClients DEF IInv
<1>8. AsAsked' /\ EncryptedOnBothSides'
  BY <1>1 DEF IInv, AsAsked, EncryptedOnBothSides
<1>9. SocketsAccounted'
  BY <1>1 DEF IInv, SocketsAccounted
<1> QED
  BY <1>3, <1>4, <1>5, <1>6, <1>7, <1>8, <1>9 DEF IInv

(* accept takes the oldest client out of the backlog.                      *)
LEMMA GreetInv ==
    ASSUME IInv, Greet
    PROVE  IInv'
<1> DEFINE h == Head(backlog)
<1>1. /\ pc = "greet" /\ backlog' = Tail(backlog)
      /\ UNCHANGED <<m_active, runs, settings, mode, filled, demanded, clients, c2s, c_open>>
      /\ \/ /\ s2c' = [s2c EXCEPT ![h] = Append(@, mode)]
            /\ s_open' = s_open \cup {h} /\ client' = h /\ pc' = "reply"
            /\ UNCHANGED <<entries, deleted>>
         \/ /\ client' = NONE /\ pc' = "run" /\ UNCHANGED <<s2c, s_open, entries, deleted>>
         \/ Killed
  BY DEF Greet
<1>2. UNCHANGED <<at, t_mode, c_mode, entered>>
  BY <1>1 DEF clients
<1>3. /\ backlog # <<>> /\ backlog \in Seq(Clients)
      /\ \A i, j \in 1 .. Len(backlog) : backlog[i] = backlog[j] => i = j
      /\ \A c \in Waiting : entries[c] = NONE /\ at[c] # "start"
      /\ \A c \in Clients : at[c] = "start" => entries[c] = NONE
  BY <1>1 DEF IInv, Queued, InCall, TypeOK
<1>4. /\ backlog' \in Seq(Clients) /\ h \in Clients /\ h \in Waiting
      /\ Waiting' = Waiting \ {h}
      /\ \A i, j \in 1 .. Len(backlog') : backlog'[i] = backlog'[j] => i = j
  BY <1>1, <1>3, BacklogTaken
<1> HIDE DEF h
<1>5. CASE Killed
  <2>1. c2s' \in [Clients -> Seq(Data)]
    BY <1>1 DEF IInv, TypeOK
  <2> QED
    BY <1>1, <1>4, <1>5, <2>1, KilledInv, KeptStreams
<1>6. ASSUME ~Killed PROVE IInv'
  <2>1. \/ /\ s2c' = [s2c EXCEPT ![h] = Append(@, mode)]
           /\ s_open' = s_open \cup {h} /\ client' = h /\ pc' = "reply"
        \/ client' = NONE /\ pc' = "run" /\ UNCHANGED <<s2c, s_open>>
    BY <1>1, <1>6
  <2>2. UNCHANGED <<entries, deleted>>
    BY <1>1, <1>6
  <2>3. TypeOK'
    <3>1. /\ mode \in Data /\ s2c \in [Clients -> Seq(Data)] /\ s_open \in SUBSET Clients
      BY DataHas DEF IInv, TypeOK
    <3>2. Append(s2c[h], mode) \in Seq(Data)
      BY <1>4, <3>1, AppendProperties
    <3>3. s2c' \in [Clients -> Seq(Data)] /\ s_open' \in SUBSET Clients
      BY <1>4, <2>1, <3>1, <3>2
    <3>4. /\ pc' \in {"outside", "run", "server bit", "client bit", "greet", "dead"} \cup Talking
          /\ client' \in Clients \cup {NONE}
          /\ pc' \in Talking => client' # NONE
      BY <1>4, <2>1, AcceptAssumption DEF Talking
    <3> QED
      BY <1>1, <1>2, <1>4, <2>2, <3>3, <3>4 DEF IInv, TypeOK, settings
  <2>4. WordKept' /\ Settled'
    <3>1. pc' \in {"run", "dead"} \cup Talking
      BY <2>1 DEF Talking
    <3> QED
      BY <1>1, <3>1, SettledAfter
  <2>5. Queued'
    <3>1. pc' \notin InCall /\ (pc' \in Talking => client' = h)
      BY <2>1 DEF InCall, Talking
    <3> QED
      BY <1>2, <1>3, <1>4, <2>2, <3>1 DEF Queued
  <2>6. Dialogue'
    <3>1. pc' \in Talking => client' = h /\ pc' = "reply"
      BY <2>1 DEF Talking
    <3>2. entries'[h] = NONE
      BY <1>3, <1>4, <2>2
    <3>3. {"send", "hello", "finish", "broken"} \subseteq Talking
      BY DEF Talking
    <3> QED
      BY <3>1, <3>2, <3>3 DEF Dialogue
  <2>7. ClientSide'
    BY <1>1, KeptClients, KeptStreams DEF IInv
  <2>8. AsAsked' /\ EncryptedOnBothSides'
    BY <1>2, <2>2 DEF IInv, AsAsked, EncryptedOnBothSides
  <2>9. SocketsAccounted'
    <3>1. pc \notin Talking /\ pc # "dead" /\ "reply" \in Talking /\ "run" \notin Talking
      BY <1>1 DEF Talking
    <3>2. /\ \A c \in s_open : entries[c] # NONE \/ c \in deleted
          /\ \A c \in Clients : entries[c] # NONE => c \in s_open \/ deleted # {}
      BY <3>1 DEF IInv, SocketsAccounted
    <3>3. /\ pc' \in Talking => client' \in s_open'
          /\ \A c \in s_open' :
                entries'[c] # NONE \/ c \in deleted' \/ (pc' \in Talking /\ c = client')
          /\ \A c \in Clients : entries'[c] # NONE => c \in s_open' \/ deleted' # {}
      BY <2>1, <2>2, <3>1, <3>2
    <3> QED
      BY <1>1, <1>2, <3>3 DEF IInv, SocketsAccounted
  <2> QED
    BY <2>3, <2>4, <2>5, <2>6, <2>7, <2>8, <2>9 DEF IInv
<1> QED
  BY <1>5, <1>6

(* What is left of the client's stream after the server has read from it.  *)
LEMMA ReceivedLess ==
    ASSUME TypeOK, client \in Clients,
           \/ UNCHANGED c2s
           \/ c2s[client] # <<>> /\ c2s' = [c2s EXCEPT ![client] = Tail(@)]
    PROVE  /\ c2s' \in [Clients -> Seq(Data)]
           /\ \A c \in Clients : \A b : Contains(c2s'[c], b) => Contains(c2s[c], b)
<1> DEFINE Streams == Seq(Data)
<1>1. c2s \in [Clients -> Streams]
  BY DEF TypeOK
<1>2. c2s[client] # <<>> =>
        /\ Tail(c2s[client]) \in Streams
        /\ \A b : Contains(Tail(c2s[client]), b) => Contains(c2s[client], b)
  BY <1>1, ContainsReceived
<1> HIDE DEF Streams
<1>3. c2s' \in [Clients -> Streams]
  BY <1>1, <1>2
<1>4. \A c \in Clients : \A b : Contains(c2s'[c], b) => Contains(c2s[c], b)
  BY <1>1, <1>2
<1> QED
  BY <1>3, <1>4 DEF Streams

LEMMA HeadContained ==
    ASSUME TypeOK, client \in Clients, c2s[client] # <<>>
    PROVE  Contains(c2s[client], Head(c2s[client]))
<1>1. c2s[client] \in Seq(Data)
  BY DEF TypeOK
<1> QED
  BY <1>1, ContainsReceived

(* The server reads an answer or a flight and says something or nothing.   *)
(* Then the dialogue goes on, or the client is entered as it asked, or it  *)
(* is refused, with a close before or after the deletion of its node.      *)
LEMMA AnswerInv ==
    ASSUME IInv, pc \in {"reply", "hello", "finish", "broken"}, client \in Clients,
           UNCHANGED <<m_active, runs, settings, mode, filled, demanded, clients,
                       backlog, c_open>>,
           \/ UNCHANGED c2s
           \/ c2s[client] # <<>> /\ c2s' = [c2s EXCEPT ![client] = Tail(@)],
           s2c' \in [Clients -> Seq(Data)],
           \/ /\ pc' \in {"hello", "finish", "broken"}
              /\ mode = t_mode[client] /\ mode # {}
              /\ UNCHANGED <<client, entries, deleted, s_open>>
           \/ /\ Enter /\ mode = t_mode[client]
              /\ mode = {} \/ at[client] \in {"ticket", "connected", "vanished"}
           \/ Refuse
           \/ HandshakeFails
    PROVE  IInv'
<1>1. UNCHANGED <<at, t_mode, c_mode, entered>>
  BY DEF clients
<1>2. /\ pc \in Talking /\ pc # "send" /\ pc \notin InCall /\ pc # "dead"
  BY DEF Talking, InCall
<1>3. \/ /\ pc' \in {"hello", "finish", "broken"} /\ mode = t_mode[client] /\ mode # {}
         /\ UNCHANGED <<client, entries, deleted, s_open>>
      \/ /\ pc' = "send" /\ mode = t_mode[client] /\ UNCHANGED <<client, deleted, s_open>>
         /\ entries' = [entries EXCEPT ![client] = mode]
         /\ mode = {} \/ at[client] \in {"ticket", "connected", "vanished"}
      \/ /\ pc' = "run" /\ client' = NONE /\ s_open' = s_open \ {client}
         /\ UNCHANGED <<entries, deleted>>
      \/ /\ pc' = "run" /\ client' = NONE /\ s_open' \subseteq s_open
         /\ deleted' = deleted \cup {client} /\ UNCHANGED entries
  BY DEF Enter, Refuse, Close, HandshakeFails
<1>4. /\ entries \in [Clients -> Modes \cup {NONE}] /\ mode \in Modes
      /\ s_open \in SUBSET Clients /\ deleted \in SUBSET Clients /\ entries[client] = NONE
  BY <1>2 DEF IInv, TypeOK, Dialogue
<1>5. mode # NONE
  <2>1. \A m \in Modes : m \in SUBSET Bits
    BY DEF Modes, Bits, Certs
  <2> QED
    BY <1>4, <2>1, AcceptAssumption
<1>6. /\ c2s' \in [Clients -> Seq(Data)]
      /\ \A c \in Clients : \A b : Contains(c2s'[c], b) => Contains(c2s[c], b)
  BY ReceivedLess DEF IInv
<1>7. /\ entries' \in [Clients -> Modes \cup {NONE}] /\ s_open' \in SUBSET Clients
      /\ deleted' \in SUBSET Clients
      /\ \A c \in Clients : c # client => entries'[c] = entries[c]
      /\ pc' = "send" => entries'[client] = mode
      /\ pc' # "send" => entries' = entries
  BY <1>3, <1>4
<1>8. /\ pc' \in {"hello", "finish", "broken", "send", "run"}
      /\ pc' \in Talking <=> pc' # "run"
      /\ pc' \notin InCall
      /\ pc' \in Talking => client' = client
  BY <1>3 DEF Talking, InCall
<1>9. TypeOK'
  <2>1. pc' \in {"outside", "run", "server bit", "client bit", "greet", "dead"} \cup Talking
    BY <1>8
  <2>2. client' \in Clients \cup {NONE} /\ (pc' \in Talking => client' # NONE)
    BY <1>3, <1>8, AcceptAssumption
  <2> QED
    BY <1>1, <1>6, <1>7, <2>1, <2>2 DEF IInv, TypeOK, settings
<1>10. WordKept' /\ Settled'
  BY <1>2, <1>8, SettledAfter
<1>11. Queued'
  <2>1. Waiting' = Waiting
    BY DEF Waiting
  <2>2. /\ \A c \in Waiting : entries[c] = NONE /\ at[c] # "start" /\ c # client
        /\ \A c \in Clients : at[c] = "start" => entries[c] = NONE /\ c # client
        /\ \A i, j \in 1 .. Len(backlog) : backlog[i] = backlog[j] => i = j
    BY <1>2 DEF IInv, Queued
  <2>3. Waiting \subseteq Clients
    <3>1. backlog \in Seq(Clients)
      BY DEF IInv, TypeOK
    <3> QED
      BY <3>1, ElementOfSeq DEF Waiting
  <2> QED
    BY <1>1, <1>7, <1>8, <2>1, <2>2, <2>3 DEF Queued
<1>12. Dialogue'
  <2>1. pc' \in {"hello", "finish", "broken"} => entries'[client'] = NONE
    BY <1>4, <1>7, <1>8
  <2>2. pc' = "send" => entries'[client'] # NONE
    BY <1>5, <1>7, <1>8
  <2>3. pc' \in {"hello", "finish", "broken"} => mode' = t_mode'[client'] /\ mode' # {}
    BY <1>1, <1>3
  <2>4. pc' \in Talking \ {"send"} => pc' \in {"hello", "finish", "broken"}
    BY <1>8
  <2> QED
    BY <2>1, <2>2, <2>3, <2>4 DEF Dialogue
<1>13. ClientSide'
  BY <1>6, KeptClients DEF IInv
<1>14. AsAsked'
  BY <1>1, <1>3, <1>7 DEF IInv, AsAsked
<1>15. EncryptedOnBothSides'
  BY <1>1, <1>3, <1>7 DEF IInv, EncryptedOnBothSides
<1>16. SocketsAccounted'
  <2>1. /\ client \in s_open
        /\ \A c \in s_open : entries[c] # NONE \/ c \in deleted \/ c = client
        /\ \A c \in Clients : entries[c] # NONE => c \in s_open \/ deleted # {}
    BY <1>2 DEF IInv, SocketsAccounted
  <2>2. /\ pc' \in Talking => client' \in s_open'
        /\ \A c \in s_open' :
              entries'[c] # NONE \/ c \in deleted' \/ (pc' \in Talking /\ c = client')
        /\ \A c \in Clients : entries'[c] # NONE => c \in s_open' \/ deleted' # {}
    <3>1. CASE pc' \in {"hello", "finish", "broken"}
      BY <1>3, <1>8, <2>1, <3>1
    <3>2. CASE pc' = "send"
      BY <1>3, <1>4, <1>5, <1>7, <1>8, <2>1, <3>2
    <3>3. CASE pc' = "run"
      <4>1. \/ s_open' = s_open \ {client} /\ UNCHANGED deleted
            \/ s_open' \subseteq s_open /\ deleted' = deleted \cup {client}
        BY <1>3, <3>3
      <4> QED
        BY <1>4, <1>7, <1>8, <2>1, <3>3, <4>1
    <3> QED
      BY <1>8, <3>1, <3>2, <3>3
  <2> QED
    BY <1>1, <2>2 DEF IInv, SocketsAccounted
<1> QED
  BY <1>9, <1>10, <1>11, <1>12, <1>13, <1>14, <1>15, <1>16 DEF IInv

LEMMA ReplyInv ==
    ASSUME IInv, Reply
    PROVE  IInv'
<1>1. /\ pc = "reply"
      /\ UNCHANGED <<m_active, runs, settings, mode, filled, demanded, clients, backlog, c_open>>
      /\ UNCHANGED s2c
  BY DEF Reply, Refuse
<1>2. client \in Clients /\ TypeOK
  BY <1>1 DEF IInv, TypeOK, Talking
<1>3. s2c' \in [Clients -> Seq(Data)]
  BY <1>1, <1>2 DEF TypeOK
<1>4. CASE NothingReceived /\ Refuse
  <2>1. UNCHANGED c2s
    BY <1>4 DEF NothingReceived
  <2> QED
    BY <1>1, <1>2, <1>3, <1>4, <2>1, AnswerInv
<1>5. ASSUME NEW b \in Data, Received(b),
             \/ /\ Equals(b, mode) /\ NeedsHandshake(mode)
                /\ pc' = "hello" /\ UNCHANGED <<client, entries, deleted, s_open>>
             \/ Equals(b, mode) /\ ~NeedsHandshake(mode) /\ Enter
             \/ Refuse
      PROVE  IInv'
  <2>1. c2s[client] # <<>> /\ b = Head(c2s[client]) /\ c2s' = [c2s EXCEPT ![client] = Tail(@)]
    BY <1>5 DEF Received
  <2>2. Contains(c2s[client], b)
    BY <1>2, <2>1, HeadContained
  <2>3. Equals(b, mode) => mode = t_mode[client]
    BY <1>2, <2>2 DEF IInv, ClientSide, Equals, TypeOK
  <2>4. NeedsHandshake(mode) <=> mode # {}
    BY DEF NeedsHandshake
  <2> QED
    BY <1>1, <1>2, <1>3, <1>5, <2>1, <2>3, <2>4, AnswerInv
<1> QED
  BY <1>4, <1>5 DEF Reply

LEMMA HandshakeInv ==
    ASSUME IInv, HandshakeStep
    PROVE  IInv'
<1>1. /\ pc \in {"hello", "finish", "broken"}
      /\ UNCHANGED <<m_active, runs, settings, mode, filled, demanded, clients, backlog, c_open>>
  BY DEF HandshakeStep
<1>2. /\ client \in Clients /\ TypeOK /\ pc \in Talking
      /\ mode = t_mode[client] /\ mode # {}
  BY <1>1 DEF IInv, TypeOK, Talking, Dialogue
<1>3. \A m \in Data : s2c' = [s2c EXCEPT ![client] = Append(@, m)] => s2c' \in [Clients -> Seq(Data)]
  <2> SUFFICES ASSUME NEW m \in Data, s2c' = [s2c EXCEPT ![client] = Append(@, m)]
               PROVE  s2c' \in [Clients -> Seq(Data)]
    OBVIOUS
  <2>1. s2c \in [Clients -> Seq(Data)]
    BY <1>2 DEF TypeOK
  <2>2. Append(s2c[client], m) \in Seq(Data)
    BY <1>2, <2>1, AppendProperties
  <2> QED
    BY <1>2, <2>1, <2>2
<1>4. \A b : Received(b) => /\ c2s[client] # <<>> /\ b = Head(c2s[client])
                            /\ c2s' = [c2s EXCEPT ![client] = Tail(@)]
  BY DEF Received
<1>5. /\ HelloReply \in Data /\ Ticket \in Data /\ Other \in Data
  BY DataHas DEF Flights
<1>6. CASE Killed /\ \E b : Received(b)
  <2>1. /\ c2s' \in [Clients -> Seq(Data)]
        /\ \A c \in Clients : \A b : Contains(c2s'[c], b) => Contains(c2s[c], b)
    BY <1>2, <1>4, <1>6, ReceivedLess
  <2>2. backlog' = backlog
    BY <1>1
  <2>3. /\ backlog \in Seq(Clients)
        /\ \A i, j \in 1 .. Len(backlog) : backlog[i] = backlog[j] => i = j
    BY <1>2 DEF IInv, Queued, TypeOK
  <2>4. /\ Waiting' = Waiting /\ backlog' \in Seq(Clients)
        /\ \A i, j \in 1 .. Len(backlog') : backlog'[i] = backlog'[j] => i = j
    BY <2>2, <2>3 DEF Waiting
  <2> QED
    BY <1>1, <1>2, <1>6, <2>1, <2>4, KilledInv
<1>7. CASE /\ pc = "hello" /\ Received(Hello)
           /\ s2c' = [s2c EXCEPT ![client] = Append(@, HelloReply)]
           /\ pc' = "finish" /\ UNCHANGED <<client, entries, deleted, s_open>>
  BY <1>1, <1>2, <1>3, <1>4, <1>5, <1>7, AnswerInv
<1>8. CASE /\ pc = "finish" /\ Received(Finish)
           /\ s2c' = [s2c EXCEPT ![client] = Append(@, Ticket)]
           /\ Enter
  <2>1. Contains(c2s[client], Finish)
    BY <1>2, <1>4, <1>8, HeadContained
  <2>2. at[client] \in {"ticket", "connected", "vanished"}
    BY <1>2, <2>1 DEF IInv, ClientSide
  <2> QED
    BY <1>1, <1>2, <1>3, <1>4, <1>5, <1>8, <2>2, AnswerInv
<1>9. CASE /\ \E m \in Data : Received(m)
           /\ s2c' = [s2c EXCEPT ![client] = Append(@, Other)] \/ UNCHANGED s2c
           /\ pc' = "broken" /\ UNCHANGED <<client, entries, deleted, s_open>>
  <2>1. s2c' \in [Clients -> Seq(Data)]
    BY <1>2, <1>3, <1>5, <1>9 DEF TypeOK
  <2> QED
    BY <1>1, <1>2, <1>4, <1>9, <2>1, AnswerInv
<1>10. CASE NothingReceived /\ HandshakeFails
  <2>1. s2c' \in [Clients -> Seq(Data)] /\ UNCHANGED c2s
    BY <1>2, <1>10 DEF HandshakeFails, NothingReceived, TypeOK
  <2> QED
    BY <1>1, <1>2, <1>10, <2>1, AnswerInv
<1> QED
  BY <1>6, <1>7, <1>8, <1>9, <1>10 DEF HandshakeStep, Answer, StayIn

LEMMA FirstSendInv ==
    ASSUME IInv, FirstSend
    PROVE  IInv'
<1>1. /\ pc = "send"
      /\ \/ pc' = "run" /\ client' = NONE /\ UNCHANGED <<entries, deleted, s_open, s2c>>
         \/ Killed
      /\ UNCHANGED <<m_active, runs, settings, mode, filled, demanded, clients,
                     backlog, c2s, c_open>>
  BY DEF FirstSend
<1>2. UNCHANGED <<at, t_mode, c_mode, entered>> /\ Waiting' = Waiting
      /\ pc \in Talking /\ pc # "dead"
  BY <1>1 DEF clients, Waiting, Talking
<1>3. /\ backlog' \in Seq(Clients) /\ c2s' \in [Clients -> Seq(Data)]
      /\ \A i, j \in 1 .. Len(backlog') : backlog'[i] = backlog'[j] => i = j
  BY <1>1 DEF IInv, TypeOK, Queued
<1>4. CASE Killed
  BY <1>1, <1>2, <1>3, <1>4, KilledInv, KeptStreams
<1>5. CASE pc' = "run" /\ client' = NONE /\ UNCHANGED <<entries, deleted, s_open, s2c>>
  <2>1. pc' \notin Talking /\ pc' \notin InCall
    BY <1>5 DEF Talking, InCall
  <2>2. TypeOK'
    <3>1. client' \in Clients \cup {NONE} /\ pc' \in {"outside", "run", "server bit", "client bit", "greet", "dead"} \cup Talking
      BY <1>5
    <3> QED
      BY <1>1, <1>2, <1>5, <2>1, <3>1 DEF IInv, TypeOK, settings
  <2>3. WordKept' /\ Settled'
    BY <1>1, <1>2, <1>5, SettledAfter
  <2>4. Queued'
    BY <1>1, <1>2, <1>5, <2>1 DEF IInv, Queued
  <2>5. Dialogue'
    BY <1>5, <2>1 DEF Dialogue, Talking
  <2>6. ClientSide'
    BY <1>1, KeptClients, KeptStreams DEF IInv
  <2>7. AsAsked' /\ EncryptedOnBothSides'
    BY <1>2, <1>5 DEF IInv, AsAsked, EncryptedOnBothSides
  <2>8. SocketsAccounted'
    <3>1. entries[client] # NONE
      BY <1>1 DEF IInv, Dialogue
    <3> QED
      BY <1>1, <1>2, <1>5, <2>1, <3>1 DEF IInv, SocketsAccounted
  <2> QED
    BY <2>2, <2>3, <2>4, <2>5, <2>6, <2>7, <2>8 DEF IInv
<1> QED
  BY <1>1, <1>4, <1>5

-----------------------------------------------------------------------------
(* The clients.                                                            *)

LEMMA ClientHears ==
    ASSUME TypeOK, NEW c \in Clients,
           \/ UNCHANGED s2c
           \/ s2c[c] # <<>> /\ s2c' = [s2c EXCEPT ![c] = Tail(@)]
    PROVE  s2c' \in [Clients -> Seq(Data)]
<1> DEFINE Streams == Seq(Data)
<1>1. s2c \in [Clients -> Streams]
  BY DEF TypeOK
<1>2. s2c[c] # <<>> => Tail(s2c[c]) \in Streams
  BY <1>1, ContainsReceived
<1> HIDE DEF Streams
<1>3. s2c' \in [Clients -> Streams]
  BY <1>1, <1>2
<1> QED
  BY <1>3 DEF Streams

LEMMA ClientSays ==
    ASSUME TypeOK, NEW c \in Clients, NEW m \in Data, Say(c, m)
    PROVE  /\ c2s' \in [Clients -> Seq(Data)]
           /\ \A d \in Clients : d # c => c2s'[d] = c2s[d]
           /\ \A b : Contains(c2s'[c], b) => Contains(c2s[c], b) \/ b = m
<1> DEFINE Streams == Seq(Data)
<1>1. c2s \in [Clients -> Streams]
  BY DEF TypeOK
<1>2. /\ Append(c2s[c], m) \in Streams
      /\ \A b : Contains(Append(c2s[c], m), b) => Contains(c2s[c], b) \/ b = m
  BY <1>1, ContainsSent, AppendProperties
<1> HIDE DEF Streams
<1>3. c2s' = [c2s EXCEPT ![c] = Append(@, m)]
  BY DEF Say
<1>4. c2s' \in [Clients -> Streams] /\ c2s'[c] = Append(c2s[c], m)
      /\ \A d \in Clients : d # c => c2s'[d] = c2s[d]
  BY <1>1, <1>2, <1>3
<1> QED
  BY <1>2, <1>4 DEF Streams

(* A step of one client: it moves on, perhaps into the backlog, and what   *)
(* it has said, entered and left open still agrees with where it is.       *)
LEMMA ClientInv ==
    ASSUME IInv, NEW c \in Clients,
           NEW l \in Steps \ {"start"}, Move(c, l),
           UNCHANGED <<m_active, runs, settings, server, t_mode, s_open>>,
           \/ UNCHANGED backlog
           \/ backlog' = Append(backlog, c) /\ at[c] = "start",
           c_mode' \in [Clients -> Modes],
           entered' \in [Clients -> Modes \cup {NONE}],
           s2c' \in [Clients -> Seq(Data)],
           c2s' \in [Clients -> Seq(Data)],
           c_open' \in SUBSET Clients,
           \A d \in Clients : d # c =>
               /\ c_mode'[d] = c_mode[d] /\ entered'[d] = entered[d]
               /\ c2s'[d] = c2s[d] /\ (d \in c_open' <=> d \in c_open),
           \A b \in Modes : Contains(c2s'[c], b) => b = t_mode[c],
           Contains(c2s'[c], Finish) => l \in {"ticket", "connected", "vanished"},
           l \in {"hello", "reply", "ticket"} => c_mode'[c] = t_mode[c],
           l \in {"mode", "hello", "reply", "broken", "ticket"} => c \in c_open',
           entered'[c] # NONE => /\ l \in {"connected", "vanished"}
                                 /\ c \in c_open' \/ l = "vanished"
                                 /\ entered'[c] = t_mode[c],
           c \in c_open' =>
               \/ entered'[c] # NONE
               \/ l \in {"mode", "hello", "reply", "broken", "ticket", "deleted"},
           at[c] \in {"ticket", "connected", "vanished"} =>
               l \in {"ticket", "connected", "vanished"}
    PROVE  IInv'
<1>1. UNCHANGED <<m_mode, doing, loaded, confirmed, pc, client, mode, filled, demanded,
                  entries, deleted>>
  BY DEF settings, server
<1>2. /\ at \in [Clients -> Steps]
      /\ backlog \in Seq(Clients) /\ NONE \notin Clients
  BY AcceptAssumption DEF IInv, TypeOK
<1>3. /\ at' \in [Clients -> Steps]
      /\ at'[c] = l /\ l # "start"
      /\ \A d \in Clients : d # c => at'[d] = at[d]
  BY <1>2 DEF Move
<1>4. /\ backlog' \in Seq(Clients) /\ (backlog # <<>> => backlog' # <<>>)
      /\ Waiting' \subseteq Waiting \cup {c}
      /\ Waiting' # Waiting => at[c] = "start"
      /\ \A i, j \in 1 .. Len(backlog') : backlog'[i] = backlog'[j] => i = j
  <2>1. \A i, j \in 1 .. Len(backlog) : backlog[i] = backlog[j] => i = j
    BY DEF IInv, Queued
  <2>2. CASE UNCHANGED backlog
    BY <1>2, <2>1, <2>2 DEF Waiting
  <2>3. CASE backlog' = Append(backlog, c) /\ at[c] = "start"
    <3>1. c \notin Waiting
      BY <2>3 DEF IInv, Queued
    <3> QED
      BY <1>2, <2>1, <2>3, <3>1, BacklogAppended
  <2> QED
    BY <2>2, <2>3
<1>5. TypeOK'
  BY <1>1, <1>3, <1>4 DEF IInv, TypeOK
<1>6. WordKept' /\ Settled'
  BY <1>1, KeptSettled DEF IInv, settings
<1>7. Queued'
  <2>1. pc' \in InCall => backlog' # <<>>
    BY <1>1, <1>4 DEF IInv, Queued
  <2>2. /\ \A d \in Waiting : entries[d] = NONE /\ at[d] # "start"
                            /\ ~ (pc \in Talking /\ client = d)
        /\ \A d \in Clients : at[d] = "start" =>
             entries[d] = NONE /\ ~ (pc \in Talking /\ client = d)
    BY DEF IInv, Queued
  <2>3. Waiting \subseteq Clients
    BY <1>2, ElementOfSeq DEF Waiting
  <2>4. ASSUME NEW d \in Waiting'
        PROVE  entries'[d] = NONE /\ at'[d] # "start" /\ ~ (pc' \in Talking /\ client' = d)
    <3>1. CASE d \in Waiting
      BY <1>1, <1>3, <2>2, <2>3, <3>1
    <3>2. CASE d = c /\ at[c] = "start"
      BY <1>1, <1>3, <2>2, <3>2
    <3> QED
      BY <1>4, <2>4, <3>1, <3>2
  <2>5. ASSUME NEW d \in Clients, at'[d] = "start"
        PROVE  entries'[d] = NONE /\ ~ (pc' \in Talking /\ client' = d)
    BY <1>1, <1>3, <2>2, <2>5
  <2> QED
    BY <1>4, <2>1, <2>4, <2>5 DEF Queued, InCall, Talking
<1>8. Dialogue'
  BY <1>1 DEF IInv, Dialogue, Talking
<1>9. ClientSide'
  BY <1>3 DEF IInv, ClientSide
<1>10. AsAsked'
  BY <1>1 DEF IInv, AsAsked
<1>11. EncryptedOnBothSides'
  BY <1>1, <1>3 DEF IInv, EncryptedOnBothSides
<1>12. SocketsAccounted'
  <2>1. pc' # "dead" =>
          /\ pc' \in Talking => client' \in s_open'
          /\ \A d \in s_open' :
                entries'[d] # NONE \/ d \in deleted' \/ (pc' \in Talking /\ d = client')
          /\ \A d \in Clients : entries'[d] # NONE => d \in s_open' \/ deleted' # {}
    BY <1>1 DEF IInv, SocketsAccounted, Talking
  <2>2. /\ \A d \in Clients : entered'[d] # NONE => d \in c_open' \/ at'[d] = "vanished"
        /\ \A d \in c_open' :
             \/ entered'[d] # NONE
             \/ at'[d] \in {"mode", "hello", "reply", "broken", "ticket", "deleted"}
    BY <1>3 DEF IInv, SocketsAccounted
  <2> QED
    BY <2>1, <2>2 DEF SocketsAccounted
<1> QED
  BY <1>5, <1>6, <1>7, <1>8, <1>9, <1>10, <1>11, <1>12 DEF IInv

(* What the invariant says of one client.                                  *)
LEMMA OneClient ==
    ASSUME IInv, NEW c \in Clients
    PROVE  /\ \A b \in Modes : Contains(c2s[c], b) => b = t_mode[c]
           /\ Contains(c2s[c], Finish) => at[c] \in {"ticket", "connected", "vanished"}
           /\ at[c] \in {"hello", "reply", "ticket"} => c_mode[c] = t_mode[c]
           /\ at[c] \in {"mode", "hello", "reply", "broken", "ticket"} => c \in c_open
           /\ entered[c] # NONE => at[c] \in {"connected", "vanished"}
           /\ entered[c] # NONE => entered[c] = t_mode[c]
           /\ entered[c] # NONE => c \in c_open \/ at[c] = "vanished"
           /\ c \in c_open => \/ entered[c] # NONE
                             \/ at[c] \in {"mode", "hello", "reply", "broken", "ticket", "deleted"}
BY DEF IInv, ClientSide, AsAsked, SocketsAccounted

LEMMA Types ==
    ASSUME IInv
    PROVE  /\ c_mode \in [Clients -> Modes] /\ t_mode \in [Clients -> Modes]
           /\ entered \in [Clients -> Modes \cup {NONE}]
           /\ s2c \in [Clients -> Seq(Data)]
           /\ c2s \in [Clients -> Seq(Data)]
           /\ c_open \in SUBSET Clients /\ at \in [Clients -> Steps]
           /\ NONE \notin Modes
<1>1. \A m \in Modes : m \in SUBSET Bits
  BY DEF Modes, Bits, Certs
<1>2. NONE \notin Modes
  BY <1>1, AcceptAssumption
<1> QED
  BY <1>2 DEF IInv, TypeOK

LEMMA ConnectFailsInv ==
    ASSUME IInv, NEW c \in Clients, ConnectFails(c)
    PROVE  IInv'
<1>1. /\ at[c] = "start" /\ Move(c, "failed")
      /\ UNCHANGED <<m_active, runs, settings, server, t_mode, c_mode, entered, net>>
  BY DEF ConnectFails
<1>2. UNCHANGED <<backlog, s2c, c2s, s_open, c_open>>
  BY <1>1 DEF net
<1>3. entered[c] = NONE /\ c \notin c_open /\ ~ Contains(c2s[c], Finish)
  BY <1>1, OneClient
<1> QED
  BY <1>1, <1>2, <1>3, OneClient, Types, ClientInv DEF Steps

LEMMA ConnectInv ==
    ASSUME IInv, NEW c \in Clients, Connect(c)
    PROVE  IInv'
<1>1. /\ at[c] = "start" /\ Move(c, "mode")
      /\ backlog' = Append(backlog, c) /\ c_open' = c_open \cup {c}
      /\ UNCHANGED <<m_active, runs, settings, server, t_mode, c_mode, entered, s2c, c2s, s_open>>
  BY DEF Connect
<1>2. entered[c] = NONE /\ ~ Contains(c2s[c], Finish)
  BY <1>1, OneClient
<1> QED
  BY <1>1, <1>2, OneClient, Types, ClientInv DEF Steps

LEMMA VanishInv ==
    ASSUME IInv, NEW c \in Clients, Vanish(c)
    PROVE  IInv'
<1>1. /\ c \in c_open /\ c_open' = c_open \ {c} /\ Move(c, "vanished")
      /\ UNCHANGED <<m_active, runs, settings, server, t_mode, c_mode, entered, backlog,
                     s2c, c2s, s_open>>
  BY DEF Vanish
<1> QED
  BY <1>1, OneClient, Types, ClientInv DEF Steps

LEMMA HearModeInv ==
    ASSUME IInv, NEW c \in Clients, HearMode(c)
    PROVE  IInv'
<1>1. /\ at[c] = "mode"
      /\ UNCHANGED <<m_active, runs, settings, server, t_mode, backlog, s_open>>
  BY DEF HearMode
<1>2. TypeOK /\ c \in c_open /\ entered[c] = NONE /\ ~ Contains(c2s[c], Finish)
  BY <1>1, OneClient DEF IInv
<1>3. CASE HearNothing(c) /\ GiveUpDeleted(c) /\ UNCHANGED <<c2s, c_mode>>
  <2>1. /\ UNCHANGED s2c /\ c_open' \in {c_open, c_open \ {c}} /\ Move(c, "deleted")
        /\ UNCHANGED entered
    BY <1>3 DEF HearNothing, GiveUpDeleted
  <2> QED
    BY <1>1, <1>2, <1>3, <2>1, OneClient, Types, ClientInv DEF Steps
<1>4. ASSUME NEW b \in Modes, Hear(c, b), c_mode' = [c_mode EXCEPT ![c] = b],
             \/ /\ Acceptable(c, b) /\ Say(c, b)
                /\ IF b = {} THEN EnterServer(c, b)
                   ELSE Move(c, "hello") /\ UNCHANGED <<entered, c_open>>
             \/ ~Acceptable(c, b) /\ Say(c, Reject) /\ GiveUp(c)
      PROVE  IInv'
  <2>1. s2c' \in [Clients -> Seq(Data)]
    BY <1>2, <1>4, ClientHears DEF Hear
  <2>2. /\ c_mode' \in [Clients -> Modes] /\ c_mode'[c] = b
        /\ \A d \in Clients : d # c => c_mode'[d] = c_mode[d]
    BY <1>4, Types
  <2>3. CASE Acceptable(c, b) /\ Say(c, b)
             /\ IF b = {} THEN EnterServer(c, b)
                ELSE Move(c, "hello") /\ UNCHANGED <<entered, c_open>>
    <3>1. b = t_mode[c] /\ b # Finish
      BY <2>3, FinishAlone DEF Acceptable
    <3>2. /\ c2s' \in [Clients -> Seq(Data)]
          /\ \A d \in Clients : d # c => c2s'[d] = c2s[d]
          /\ \A x : Contains(c2s'[c], x) => Contains(c2s[c], x) \/ x = b
      BY <1>2, <1>4, <2>3, ClientSays, DataHas
    <3>3. /\ \A x \in Modes : Contains(c2s'[c], x) => x = t_mode[c]
          /\ ~ Contains(c2s'[c], Finish)
      BY <1>2, <3>1, <3>2, OneClient
    <3>4. CASE b = {} /\ EnterServer(c, b)
      <4>1. entered' = [entered EXCEPT ![c] = b] /\ Move(c, "connected") /\ UNCHANGED c_open
        BY <3>4 DEF EnterServer
      <4>2. /\ entered' \in [Clients -> Modes \cup {NONE}] /\ entered'[c] = b
            /\ \A d \in Clients : d # c => entered'[d] = entered[d]
        BY <4>1, Types
      <4>3. entered'[c] # NONE
        BY <4>2, Types
      <4> QED
        BY <1>1, <1>2, <2>1, <2>2, <3>1, <3>2, <3>3, <4>1, <4>2, <4>3, Types, ClientInv DEF Steps
    <3>5. CASE Move(c, "hello") /\ UNCHANGED <<entered, c_open>>
      BY <1>1, <1>2, <2>1, <2>2, <3>1, <3>2, <3>3, <3>5, Types, ClientInv DEF Steps
    <3> QED
      BY <2>3, <3>4, <3>5
  <2>4. CASE Say(c, Reject) /\ GiveUp(c)
    <3>1. c_open' = c_open \ {c} /\ Move(c, "failed") /\ UNCHANGED entered
      BY <2>4 DEF GiveUp
    <3>2. /\ c2s' \in [Clients -> Seq(Data)]
          /\ \A d \in Clients : d # c => c2s'[d] = c2s[d]
          /\ \A x : Contains(c2s'[c], x) => Contains(c2s[c], x) \/ x = Reject
      BY <1>2, <2>4, ClientSays, DataHas
    <3>3. /\ \A x \in Modes : Contains(c2s'[c], x) => x = t_mode[c]
          /\ ~ Contains(c2s'[c], Finish)
      BY <1>2, <3>2, FinishAlone, OneClient
    <3> QED
      BY <1>1, <1>2, <2>1, <2>2, <3>1, <3>2, <3>3, Types, ClientInv DEF Steps
  <2> QED
    BY <1>4, <2>3, <2>4
<1> QED
  BY <1>3, <1>4 DEF HearMode

LEMMA ClientHandshakeInv ==
    ASSUME IInv, NEW c \in Clients, ClientHandshake(c)
    PROVE  IInv'
<1>1. UNCHANGED <<m_active, runs, settings, server, t_mode, c_mode, backlog, s_open>>
  BY DEF ClientHandshake
<1>2. TypeOK
  BY DEF IInv
<1>3. \A m : \/ Hear(c, m) \/ HearNothing(c)
            => s2c' \in [Clients -> Seq(Data)]
  BY <1>2, ClientHears DEF Hear, HearNothing
<1>4. CASE at[c] = "hello" /\ Say(c, Hello) /\ Move(c, "reply") /\ UNCHANGED <<entered, c_open, s2c>>
  <2>1. /\ c2s' \in [Clients -> Seq(Data)]
        /\ \A d \in Clients : d # c => c2s'[d] = c2s[d]
        /\ \A x : Contains(c2s'[c], x) => Contains(c2s[c], x) \/ x = Hello
    BY <1>2, <1>4, ClientSays, DataHas DEF Flights
  <2>2. /\ \A x \in Modes : Contains(c2s'[c], x) => x = t_mode[c]
        /\ ~ Contains(c2s'[c], Finish)
    BY <1>4, <2>1, FinishAlone, OneClient
  <2> QED
    BY <1>1, <1>4, <2>1, <2>2, OneClient, Types, ClientInv DEF Steps
<1>5. CASE /\ at[c] = "reply" /\ Hear(c, HelloReply) /\ Say(c, Finish)
           /\ Move(c, "ticket") /\ UNCHANGED <<entered, c_open>>
  <2>1. /\ c2s' \in [Clients -> Seq(Data)]
        /\ \A d \in Clients : d # c => c2s'[d] = c2s[d]
        /\ \A x : Contains(c2s'[c], x) => Contains(c2s[c], x) \/ x = Finish
    BY <1>2, <1>5, ClientSays, DataHas DEF Flights
  <2>2. \A x \in Modes : Contains(c2s'[c], x) => x = t_mode[c]
    BY <2>1, FinishAlone, OneClient
  <2> QED
    BY <1>1, <1>3, <1>5, <2>1, <2>2, OneClient, Types, ClientInv DEF Steps
<1>6. CASE /\ at[c] \in {"reply", "broken"} /\ \E m \in Data : Hear(c, m)
           /\ Say(c, Other) \/ UNCHANGED c2s
           /\ Move(c, "broken") /\ UNCHANGED <<entered, c_open>>
  <2>1. /\ c2s' \in [Clients -> Seq(Data)]
        /\ \A d \in Clients : d # c => c2s'[d] = c2s[d]
        /\ \A x : Contains(c2s'[c], x) => Contains(c2s[c], x) \/ x = Other
    BY <1>2, <1>6, ClientSays, DataHas, Types
  <2>2. /\ \A x \in Modes : Contains(c2s'[c], x) => x = t_mode[c]
        /\ ~ Contains(c2s'[c], Finish)
    BY <1>6, <2>1, FinishAlone, OneClient
  <2>3. c \in c_open /\ entered[c] = NONE
    BY <1>6, OneClient
  <2> QED
    BY <1>1, <1>3, <1>6, <2>1, <2>2, <2>3, OneClient, Types, ClientInv DEF Steps
<1>7. CASE /\ at[c] \in {"reply", "broken"} /\ HearNothing(c)
           /\ GiveUpDeleted(c) /\ UNCHANGED c2s
  <2>1. c_open' \in {c_open, c_open \ {c}} /\ Move(c, "deleted") /\ UNCHANGED entered
    BY <1>7 DEF GiveUpDeleted
  <2>2. entered[c] = NONE /\ ~ Contains(c2s[c], Finish)
    BY <1>7, OneClient
  <2> QED
    BY <1>1, <1>3, <1>7, <2>1, <2>2, OneClient, Types, ClientInv DEF Steps
<1>8. CASE /\ at[c] = "ticket" /\ (HearNothing(c) \/ \E m \in Data : Hear(c, m))
           /\ EnterServer(c, c_mode[c]) /\ UNCHANGED c2s
  <2>1. /\ entered' = [entered EXCEPT ![c] = c_mode[c]]
        /\ Move(c, "connected") /\ UNCHANGED c_open
    BY <1>8 DEF EnterServer
  <2>2. /\ entered' \in [Clients -> Modes \cup {NONE}] /\ entered'[c] = c_mode[c]
        /\ entered'[c] # NONE
        /\ \A d \in Clients : d # c => entered'[d] = entered[d]
    BY <2>1, Types
  <2> QED
    BY <1>1, <1>3, <1>8, <2>1, <2>2, OneClient, Types, ClientInv DEF Steps
<1> QED
  BY <1>4, <1>5, <1>6, <1>7, <1>8 DEF ClientHandshake

(* What a client sends out of turn is no mode and no flight.               *)
LEMMA ChatterInv ==
    ASSUME IInv, NEW c \in Clients, Chatter(c)
    PROVE  IInv'
<1>1. /\ c \in c_open /\ Say(c, Other)
      /\ UNCHANGED <<m_active, runs, settings, server, clients, backlog, s2c, s_open, c_open>>
  BY DEF Chatter
<1>2. UNCHANGED <<at, t_mode, c_mode, entered>> /\ TypeOK
  BY <1>1 DEF clients, IInv
<1>3. /\ at[c] \in Steps \ {"start"}
      /\ at[c] = "failed" => FALSE
  BY <1>1, OneClient, Types
<1>4. Move(c, at[c])
  BY <1>2, Types DEF Move
<1>5. /\ c2s' \in [Clients -> Seq(Data)]
      /\ \A d \in Clients : d # c => c2s'[d] = c2s[d]
      /\ \A x : Contains(c2s'[c], x) => Contains(c2s[c], x) \/ x = Other
  BY <1>1, <1>2, ClientSays, DataHas
<1>6. /\ \A x \in Modes : Contains(c2s'[c], x) => x = t_mode[c]
      /\ Contains(c2s'[c], Finish) => Contains(c2s[c], Finish)
  BY <1>5, FinishAlone, OneClient
<1> DEFINE l == at[c]
<1>7. l \in Steps \ {"start"} /\ Move(c, l)
  BY <1>3, <1>4
<1>8. /\ Contains(c2s'[c], Finish) => l \in {"ticket", "connected", "vanished"}
      /\ l \in {"hello", "reply", "ticket"} => c_mode'[c] = t_mode[c]
      /\ l \in {"mode", "hello", "reply", "broken", "ticket"} => c \in c_open'
      /\ entered'[c] # NONE => /\ l \in {"connected", "vanished"}
                              /\ (c \in c_open' \/ l = "vanished")
                              /\ entered'[c] = t_mode[c]
      /\ c \in c_open' => (entered'[c] # NONE
               \/ l \in {"mode", "hello", "reply", "broken", "ticket", "deleted"})
      /\ at[c] \in {"ticket", "connected", "vanished"} =>
               l \in {"ticket", "connected", "vanished"}
  BY <1>1, <1>2, <1>6, OneClient
<1>9. /\ c_mode' \in [Clients -> Modes] /\ entered' \in [Clients -> Modes \cup {NONE}]
      /\ s2c' \in [Clients -> Seq(Data)] /\ c_open' \in SUBSET Clients
      /\ UNCHANGED <<m_active, runs, settings, server, t_mode, s_open, backlog>>
      /\ \A d \in Clients : d # c =>
               /\ c_mode'[d] = c_mode[d] /\ entered'[d] = entered[d]
               /\ c2s'[d] = c2s[d] /\ (d \in c_open' <=> d \in c_open)
  BY <1>1, <1>2, <1>5, Types
<1> HIDE DEF l
<1> QED
  BY <1>5, <1>6, <1>7, <1>8, <1>9, ClientInv

-----------------------------------------------------------------------------
LEMMA StutterInv ==
    ASSUME IInv, UNCHANGED vars
    PROVE  IInv'
<1>1. UNCHANGED <<m_active, runs, settings, pc, client, mode, filled, demanded, entries, deleted,
                  at, t_mode, c_mode, entered, clients, backlog, s2c, c2s, s_open, c_open>>
  BY DEF vars, server, clients, net
<1>2. TypeOK'
  BY <1>1 DEF IInv, TypeOK, settings, Talking, Steps
<1> QED
  BY <1>1, <1>2, KeptSettled, KeptServer, KeptClients, KeptStreams, KeptPromises DEF IInv

LEMMA StepInv == IInv /\ [Next]_vars => IInv'
<1> SUFFICES ASSUME IInv, [Next]_vars PROVE IInv'
  OBVIOUS
<1>1. CASE Configure
  BY <1>1, ConfigureInv
<1>2. CASE Run \/ Return
  BY <1>2, RunReturnInv
<1>3. CASE AcceptCall
  BY <1>3, AcceptCallInv
<1>4. CASE Accepting
  BY <1>4, ReadBitInv, GreetInv, ReplyInv, HandshakeInv, FirstSendInv DEF Accepting
<1>5. ASSUME NEW c \in Clients,
             ConnectFails(c) \/ Connect(c) \/ Connecting(c) \/ Chatter(c) \/ Vanish(c)
      PROVE  IInv'
  BY <1>5, ConnectFailsInv, ConnectInv, HearModeInv, ClientHandshakeInv, ChatterInv, VanishInv
     DEF Connecting
<1>6. CASE UNCHANGED vars
  BY <1>6, StutterInv
<1> QED
  BY <1>1, <1>2, <1>3, <1>4, <1>5, <1>6 DEF Next

LEMMA Invariance == Spec => []IInv
<1> QED
  BY InitInv, StepInv, PTL DEF Spec

-----------------------------------------------------------------------------
(* Every variable stays in its type, and judoAccept_ talks only to a       *)
(* client it has accepted.                                                 *)
THEOREM TypeCorrect == Spec => []TypeOK
<1>1. IInv => TypeOK
  BY DEF IInv
<1> QED
  BY <1>1, Invariance, PTL

(* Whoever is in the server's array asked for the mode it is there with,   *)
(* and a client has entered the server only with the mode it asked for:    *)
(* the comparisons in judoAccept_ and judoConnect_ let no other pair of    *)
(* modes through, whatever times out and however late an answer is.        *)
THEOREM AlwaysAsAsked == Spec => []AsAsked
<1>1. IInv => AsAsked
  BY DEF IInv
<1> QED
  BY <1>1, Invariance, PTL

(* judoAccept_ enters a client with certificates only after both sides     *)
(* have finished the handshake.                                            *)
THEOREM AlwaysEncrypted == Spec => []EncryptedOnBothSides
<1>1. IInv => EncryptedOnBothSides
  BY DEF IInv
<1> QED
  BY <1>1, Invariance, PTL

(* judoHandshake_ never hands an SSL object to the library that            *)
(* judoAccept_ has not made, although SSL_ENABLED and the REQ bits are     *)
(* read at different moments and another thread may set them meanwhile.    *)
THEOREM HandshakeAlwaysHasSSL == Spec => []HandshakeHasSSL
<1>1. IInv => HandshakeHasSSL
  BY DEF IInv, Settled, Dialogue, HandshakeHasSSL, Talking
<1> QED
  BY <1>1, Invariance, PTL

(* A requirement whose call had returned 0 when judoAccept_ began is in    *)
(* the mode the client is greeted with, for any number of configuring      *)
(* threads - unless the call returned between the read and the write of    *)
(* another thread's m_mode |= ..., which takes the bit away again.         *)
THEOREM RequirementsAlwaysBind == Spec => []RequirementBinds
<1>1. IInv => RequirementBinds
  BY DEF IInv, Settled, RequirementBinds
<1> QED
  BY <1>1, Invariance, PTL

(* No descriptor is lost, and no entry is left with a closed one, on any   *)
(* path through judoAccept_ or judoConnect_ but the three that delete the  *)
(* node before they close its descriptor.                                  *)
THEOREM SocketsAlwaysAccounted == Spec => []SocketsAccounted
<1>1. IInv => SocketsAccounted
  BY DEF IInv
<1> QED
  BY <1>1, Invariance, PTL
=============================================================================
