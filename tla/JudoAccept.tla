----------------------------- MODULE JudoAccept -----------------------------
(***************************************************************************)
(* How a connection is agreed on: judoAccept_ of a listening JudoServer    *)
(* against judoConnect_ of several others, each a process of its own, over *)
(* TCP streams.  The server greets with a mode byte, the client echoes it  *)
(* or answers 0xFF, and if the mode names certificates both run            *)
(* judoHandshake_.  Every read waits at most five seconds (SO_RCVTIMEO);   *)
(* any peer may be slower than that, or vanish, or send what nobody waits  *)
(* for.  Beside it, other threads of the server may set its requirements:  *)
(* m_mode and m_active are plain fields, so their reads and writes are     *)
(* steps of their own, and m_mode |= bit is a read and a later write.      *)
(*                                                                         *)
(* A mode is the set of its certificate bits ("server" 0x40, "client"      *)
(* 0x80); the buffer factor in the low bits is the same everywhere.  The   *)
(* TLS library is external: it makes the flights Hello, HelloReply, Finish *)
(* and, from the server, Ticket; Other is any other piece of data (an      *)
(* alert, a message, what some other program sends).                       *)
(*                                                                         *)
(* Three exits delete the node before they close its descriptor (189-191,  *)
(* 287-289, 300-302).  What fp then reads is undefined, and so is which    *)
(* descriptor is closed, if any.                                           *)
(***************************************************************************)
EXTENDS Naturals, Sequences, FiniteSets

CONSTANTS
    Clients,
    NONE,           \* no client, no mode
    Reject,         \* the byte 0xFF
    Hello, HelloReply, Finish, Ticket,      \* flights of the TLS library
    Other,          \* anything else that may come over a connection
    Operators,      \* threads that configure the server
    Requirements,   \* modes the server may be configured to require
    MaxRuns         \* bound: times run is called

Certs == {"server", "client"}
Modes == {{}, {"server"}, {"client"}, Certs}
Bits == Certs \cup {"ssl"}         \* of m_mode: SSL_ENABLED and the two REQ bits

Flights == {Hello, HelloReply, Finish, Ticket}
Data == Modes \cup Flights \cup {Reject, Other}

ASSUME AcceptAssumption ==
    /\ Reject \notin Modes /\ Reject \notin Flights /\ Cardinality(Flights) = 4
    /\ Other \notin Modes /\ Other \notin Flights /\ Other # Reject
    /\ Modes \cap Flights = {}
    /\ IsFiniteSet(Clients) /\ NONE \notin Clients /\ NONE \notin Bits /\ \A m \in SUBSET Bits : m # NONE
    /\ Requirements \subseteq Modes
    /\ MaxRuns \in Nat

VARIABLES
    (* the server *)
    m_active, m_mode,
    doing,              \* the bit each operator is about to set, or NONE
    loaded,             \* m_mode as its |= has read it, or NONE
    confirmed,          \* history: bits whose require call has returned 0 with
                        \* no other |= of m_mode half done at its end
    runs,
    pc,                 \* where judoAccept_ is
    client,             \* whom it is talking to
    mode, filled,       \* new_node: mode, and whether its SSL fields are made
    demanded,           \* history: confirmed when judoAccept_ was called
    entries,            \* m_ssl_nodes: the mode each client was added with
    deleted,            \* history: whose node was deleted before its close
    (* the clients *)
    at,                 \* where each judoConnect_ is
    t_mode,             \* the mode it asks for
    c_mode,             \* new_node->mode: what it was greeted with
    entered,            \* its own m_ssl_nodes: the mode it added the server with
    (* the network *)
    backlog,            \* connections not accepted yet, oldest first
    s2c, c2s,           \* bytes on their way, per client
    s_open, c_open      \* ends that are not closed

server == <<pc, client, mode, filled, demanded, entries, deleted>>
settings == <<m_mode, doing, loaded, confirmed>>
clients == <<at, t_mode, c_mode, entered>>
net == <<backlog, s2c, c2s, s_open, c_open>>
vars == <<m_active, runs, settings, server, clients, net>>

Init ==
    /\ m_active = FALSE /\ runs = 0
    /\ m_mode = {} /\ confirmed = {}
    /\ doing = [o \in Operators |-> NONE] /\ loaded = [o \in Operators |-> NONE]
    /\ pc = "outside" /\ client = NONE /\ mode = {} /\ filled = FALSE
    /\ demanded = {}
    /\ entries = [c \in Clients |-> NONE] /\ deleted = {}
    /\ at = [c \in Clients |-> "start"]
    /\ t_mode \in [Clients -> Modes]
    /\ c_mode = [c \in Clients |-> {}]
    /\ entered = [c \in Clients |-> NONE]
    /\ backlog = <<>>
    /\ s2c = [c \in Clients |-> <<>>] /\ c2s = [c \in Clients |-> <<>>]
    /\ s_open = {} /\ c_open = {}

-----------------------------------------------------------------------------
(* The server's settings, from any thread at any time.                     *)

Load(o) == loaded' = [loaded EXCEPT ![o] = m_mode]

(* judoSetUpServerSockSSL looks at nothing before its m_mode |= bit. *)
SetUpSSL(o) ==
    /\ Requirements # {{}} /\ doing[o] = NONE
    /\ doing' = [doing EXCEPT ![o] = "ssl"] /\ Load(o)
    /\ UNCHANGED <<m_active, runs, m_mode, confirmed, server, clients, net>>

(* judoServerRequireCerts, judoClientRequireCerts: the test. *)
RequireCheckAlways(o, bit) ==       \* mutant: SSL_ENABLED and m_active not tested
    /\ doing[o] = NONE
    /\ \E r \in Requirements : (m_mode \cap Certs) \cup {bit} \subseteq r
    /\ doing' = [doing EXCEPT ![o] = bit]
    /\ UNCHANGED <<m_active, runs, m_mode, loaded, confirmed, server, clients, net>>
RequireCheck(o, bit) ==
    /\ doing[o] = NONE
    /\ \E r \in Requirements : (m_mode \cap Certs) \cup {bit} \subseteq r
    /\ "ssl" \in m_mode /\ ~m_active
    /\ doing' = [doing EXCEPT ![o] = bit]
    /\ UNCHANGED <<m_active, runs, m_mode, loaded, confirmed, server, clients, net>>

(* m_mode |= bit: the word is read, and later written back with the bit. *)
RequireLoad(o) ==
    /\ doing[o] \in Certs /\ loaded[o] = NONE
    /\ Load(o)
    /\ UNCHANGED <<m_active, runs, m_mode, doing, confirmed, server, clients, net>>

Undisturbed(o) == \A p \in Operators \ {o} : loaded[p] = NONE

WithBitAlone(o) == {doing[o]}       \* mutant: m_mode = bit
WithBit(o) == loaded[o] \cup {doing[o]}

StoreMode(o) ==
    /\ loaded[o] # NONE
    /\ m_mode' = WithBit(o)
    /\ confirmed' = IF Undisturbed(o) THEN confirmed \cup (Certs \cap {doing[o]})
                    ELSE confirmed
    /\ doing' = [doing EXCEPT ![o] = NONE] /\ loaded' = [loaded EXCEPT ![o] = NONE]
    /\ UNCHANGED <<m_active, runs, server, clients, net>>

Configure ==
    \E o \in Operators :
        SetUpSSL(o) \/ RequireLoad(o) \/ StoreMode(o) \/ \E bit \in Certs : RequireCheck(o, bit)

(* run, reduced to what it has to do with judoAccept_ (see JudoRun). *)
Run ==
    /\ pc = "outside" /\ runs < MaxRuns
    /\ m_active' = TRUE /\ pc' = "run" /\ runs' = runs + 1
    /\ UNCHANGED <<settings, client, mode, filled, demanded, entries, deleted, clients, net>>

Return ==
    /\ pc = "run"
    /\ pc' = "outside"
    /\ UNCHANGED <<m_active, runs, settings, client, mode, filled, demanded,
                   entries, deleted, clients, net>>

-----------------------------------------------------------------------------
(* judoAccept_: SSL_ENABLED and the two REQ bits are read one after the    *)
(* other.  If the certificate files cannot be used it returns, and the     *)
(* client stays in the backlog.                                            *)
AcceptCall ==
    /\ pc = "run" /\ backlog # <<>>
    /\ mode' = {} /\ filled' = ("ssl" \in m_mode)
    /\ demanded' = confirmed
    /\ pc' \in IF "ssl" \in m_mode THEN {"server bit", "run"} ELSE {"server bit"}
    /\ UNCHANGED <<m_active, runs, settings, client, entries, deleted, clients, net>>

ReadBit(here, bit, next) ==
    /\ pc = here
    /\ mode' = IF bit \in m_mode THEN mode \cup {bit} ELSE mode
    /\ pc' = next
    /\ UNCHANGED <<m_active, runs, settings, client, filled, demanded, entries,
                   deleted, clients, net>>

(* SIGPIPE, which nothing handles: the kernel closes every socket.         *)
Killed == pc' = "dead" /\ s_open' = {} /\ UNCHANGED <<client, entries, deleted, s2c>>

(* accept and the write of the mode byte.  On a connection that the client *)
(* has closed already the write may fail, or kill the process.             *)
GreetAnyway ==                  \* mutant: no return after the failed write
    /\ pc = "greet"
    /\ LET c == Head(backlog)
       IN  \/ /\ s2c' = [s2c EXCEPT ![c] = Append(@, mode)]
              /\ s_open' = s_open \cup {c}
              /\ client' = c /\ pc' = "reply" /\ UNCHANGED <<entries, deleted>>
           \/ /\ c \notin c_open
              /\ client' = NONE /\ pc' = "reply"
              /\ UNCHANGED <<s2c, s_open, entries, deleted>>
    /\ backlog' = Tail(backlog)
    /\ UNCHANGED <<m_active, runs, settings, mode, filled, demanded, clients, c2s, c_open>>
Greet ==
    /\ pc = "greet"
    /\ LET c == Head(backlog)
       IN  \/ /\ s2c' = [s2c EXCEPT ![c] = Append(@, mode)]
              /\ s_open' = s_open \cup {c}
              /\ client' = c /\ pc' = "reply" /\ UNCHANGED <<entries, deleted>>
           \/ /\ c \notin c_open
              /\ client' = NONE /\ pc' = "run"
              /\ UNCHANGED <<s2c, s_open, entries, deleted>>
           \/ c \notin c_open /\ Killed
    /\ backlog' = Tail(backlog)
    /\ UNCHANGED <<m_active, runs, settings, mode, filled, demanded, clients, c2s, c_open>>

(* The server has received b in answer. *)
Received(b) ==
    /\ c2s[client] # <<>> /\ b = Head(c2s[client])
    /\ c2s' = [c2s EXCEPT ![client] = Tail(@)]

(* A read that returns 0 or -1: the client has closed, or says nothing for *)
(* five seconds. *)
EndReceived ==                  \* mutant: no receive timeout, only the client's close
    c2s[client] = <<>> /\ client \notin c_open /\ UNCHANGED c2s
NothingReceived == c2s[client] = <<>> /\ UNCHANGED c2s

(* The comparison of line 185 is between a signed char and a uint8_t: with *)
(* bit 0x80 set it is always false.                                        *)
Equals(b, m) == b = m /\ "client" \notin m

CloseNever == UNCHANGED s_open          \* mutant: close forgotten
Close == s_open' = s_open \ {client}

(* Without an echo the socket is closed and then the node deleted. *)
Refuse ==
    /\ pc' = "run" /\ client' = NONE
    /\ Close
    /\ UNCHANGED <<entries, deleted, s2c>>

(* A failed handshake deletes the node and then closes what its fp reads:  *)
(* a socket, this one or another, or nothing that is open.                 *)
HandshakeFails ==
    /\ pc' = "run" /\ client' = NONE
    /\ UNCHANGED s_open \/ \E c \in s_open : s_open' = s_open \ {c}
    /\ deleted' = deleted \cup {client}
    /\ UNCHANGED <<entries, s2c>>

Enter ==
    /\ entries' = [entries EXCEPT ![client] = mode]
    /\ pc' = "send"
    /\ UNCHANGED <<client, deleted, s_open>>

NeedsHandshakeBoth(m) == m = Certs      \* mutant: both certificate bits asked for
NeedsHandshake(m) == m # {}

Reply ==
    /\ pc = "reply"
    /\ \/ \E b \in Data :
            /\ Received(b)
            /\ \/ /\ Equals(b, mode) /\ NeedsHandshake(mode)
                  /\ pc' = "hello" /\ UNCHANGED <<client, entries, deleted, s_open, s2c>>
               \/ Equals(b, mode) /\ ~NeedsHandshake(mode) /\ Enter /\ UNCHANGED s2c
               \/ ~Equals(b, mode) /\ Refuse
       \/ NothingReceived /\ Refuse
    /\ UNCHANGED <<m_active, runs, settings, mode, filled, demanded, clients,
                   backlog, c_open>>

(* A write of judoHandshake_; SIGPIPE if the client has left. *)
Answer(m, goOn) ==
    \/ s2c' = [s2c EXCEPT ![client] = Append(@, m)] /\ goOn
    \/ client \notin c_open /\ Killed

StayIn(l) == pc' = l /\ UNCHANGED <<client, entries, deleted, s_open>>

(* judoHandshake_ on the server's side.  What SSL_do_handshake returns is  *)
(* not looked at: after a flight the library does not like it may send an  *)
(* alert, and the loop goes on reading for as long as anything comes.  It  *)
(* fails only when a read returns nothing.                                 *)
HandshakeStep ==
    /\ pc \in {"hello", "finish", "broken"}
    /\ \/ /\ pc = "hello" /\ Received(Hello)
          /\ Answer(HelloReply, StayIn("finish"))
       \/ /\ pc = "finish" /\ Received(Finish)
          /\ Answer(Ticket, Enter)
       \/ /\ pc # "broken" /\ \E m \in Data : Received(m)
          /\ Answer(Other, StayIn("broken")) \/ (UNCHANGED s2c /\ StayIn("broken"))
       \/ /\ pc = "broken" /\ \E m \in Data : Received(m)
          /\ UNCHANGED s2c /\ StayIn("broken")
       \/ NothingReceived /\ HandshakeFails
    /\ UNCHANGED <<m_active, runs, settings, mode, filled, demanded, clients,
                   backlog, c_open>>

(* sleep(1) and judoSend_ to the new client.  SIGPIPE if it has left.      *)
FirstSend ==
    /\ pc = "send"
    /\ \/ pc' = "run" /\ client' = NONE /\ UNCHANGED <<entries, deleted, s_open, s2c>>
       \/ client \notin c_open /\ Killed
    /\ UNCHANGED <<m_active, runs, settings, mode, filled, demanded, clients,
                   backlog, c2s, c_open>>

Accepting ==
    \/ ReadBit("server bit", "server", "client bit")
    \/ ReadBit("client bit", "client", "greet")
    \/ Greet \/ Reply \/ HandshakeStep \/ FirstSend

-----------------------------------------------------------------------------
(* judoConnect_. *)

Move(c, l) == at' = [at EXCEPT ![c] = l]
Say(c, m) == c2s' = [c2s EXCEPT ![c] = Append(@, m)]
Hear(c, m) == s2c[c] # <<>> /\ m = Head(s2c[c]) /\ s2c' = [s2c EXCEPT ![c] = Tail(@)]
HearNothingButEnd(c) ==         \* mutant: no receive timeout, only the server's close
    s2c[c] = <<>> /\ c \notin s_open /\ (\A i \in DOMAIN backlog : backlog[i] # c) /\ UNCHANGED s2c
HearNothing(c) == s2c[c] = <<>> /\ UNCHANGED s2c

(* Certificates missing or unusable, or nobody listens. *)
ConnectFails(c) ==
    /\ at[c] = "start"
    /\ Move(c, "failed")
    /\ UNCHANGED <<m_active, runs, settings, server, t_mode, c_mode, entered, net>>

(* connect succeeds as soon as the connection is in the server's backlog. *)
Connect(c) ==
    /\ at[c] = "start"
    /\ Move(c, "mode")
    /\ backlog' = Append(backlog, c)
    /\ c_open' = c_open \cup {c}
    /\ UNCHANGED <<m_active, runs, settings, server, t_mode, c_mode, entered, s2c, c2s, s_open>>

(* Each certificate bit of the greeting is compared with the one asked for *)
(* (in both directions: too little is refused as well as too much).        *)
AcceptableLess(c, b) == b \subseteq t_mode[c]           \* mutant: less than asked is fine
Acceptable(c, b) == b = t_mode[c]

EnterServer(c, m) ==
    /\ entered' = [entered EXCEPT ![c] = m]
    /\ Move(c, "connected")
    /\ UNCHANGED c_open

(* The greeting names another mode: close, then delete. *)
GiveUp(c) ==
    /\ c_open' = c_open \ {c}
    /\ Move(c, "failed")
    /\ UNCHANGED entered

(* No greeting, or a failed handshake: the node is deleted, and close      *)
(* gets what its fp then reads; the socket may stay open.                  *)
GiveUpDeleted(c) ==
    /\ c_open' \in {c_open, c_open \ {c}}
    /\ Move(c, "deleted")
    /\ UNCHANGED entered

HearMode(c) ==
    /\ at[c] = "mode"
    /\ \/ \E b \in Modes :
            /\ Hear(c, b)
            /\ c_mode' = [c_mode EXCEPT ![c] = b]
            /\ \/ /\ Acceptable(c, b) /\ Say(c, b)
                  /\ IF b = {} THEN EnterServer(c, b)
                     ELSE Move(c, "hello") /\ UNCHANGED <<entered, c_open>>
               \/ ~Acceptable(c, b) /\ Say(c, Reject) /\ GiveUp(c)
       \/ HearNothing(c) /\ GiveUpDeleted(c) /\ UNCHANGED <<c2s, c_mode>>
    /\ UNCHANGED <<m_active, runs, settings, server, t_mode, backlog, s_open>>

(* judoHandshake_ on the client's side, which goes on reading like the     *)
(* server's, and the one read for the tickets, whose result is not looked  *)
(* at.                                                                     *)
ClientHandshake(c) ==
    /\ \/ /\ at[c] = "hello" /\ Say(c, Hello)
          /\ Move(c, "reply") /\ UNCHANGED <<entered, c_open, s2c>>
       \/ /\ at[c] = "reply" /\ Hear(c, HelloReply) /\ Say(c, Finish)
          /\ Move(c, "ticket") /\ UNCHANGED <<entered, c_open>>
       \/ /\ at[c] = "reply" /\ \E m \in Data : Hear(c, m)
          /\ Say(c, Other) \/ UNCHANGED c2s
          /\ Move(c, "broken") /\ UNCHANGED <<entered, c_open>>
       \/ /\ at[c] = "broken" /\ \E m \in Data : Hear(c, m)
          /\ Move(c, "broken") /\ UNCHANGED <<entered, c_open, c2s>>
       \/ /\ at[c] \in {"reply", "broken"} /\ HearNothing(c)
          /\ GiveUpDeleted(c) /\ UNCHANGED c2s
       \/ /\ at[c] = "ticket" /\ (HearNothing(c) \/ \E m \in Data : Hear(c, m))
          /\ EnterServer(c, c_mode[c]) /\ UNCHANGED c2s
    /\ UNCHANGED <<m_active, runs, settings, server, t_mode, c_mode, backlog, s_open>>

Connecting(c) == HearMode(c) \/ ClientHandshake(c)

(* A client program may send what the server does not wait for, again and  *)
(* again, while the server reads from it (what came before is still there  *)
(* then).  The bound is on what is on its way: one piece at a time.        *)
Chatter(c) ==
    /\ pc \in {"reply", "hello", "finish", "broken"} /\ client = c
    /\ c \in c_open /\ c2s[c] = <<>>
    /\ Say(c, Other)
    /\ UNCHANGED <<m_active, runs, settings, server, clients, backlog, s2c, s_open, c_open>>

(* A client process may end at any time, also by a SIGPIPE of its own; the *)
(* kernel closes its socket. *)
Vanish(c) ==
    /\ c \in c_open
    /\ c_open' = c_open \ {c}
    /\ Move(c, "vanished")
    /\ UNCHANGED <<m_active, runs, settings, server, t_mode, c_mode, entered, backlog, s2c,
                   c2s, s_open>>

Next ==
    \/ Configure \/ Run \/ Return \/ AcceptCall \/ Accepting
    \/ \E c \in Clients : ConnectFails(c) \/ Connect(c) \/ Connecting(c)
                          \/ Chatter(c) \/ Vanish(c)

Spec == Init /\ [][Next]_vars

(* A call that has begun goes on: a read has something to return after     *)
(* five seconds at the latest.                                             *)
ServerFairness == WF_vars(Accepting)
ClientFairness == \A c \in Clients : WF_vars(Connecting(c))
-----------------------------------------------------------------------------
Talking == {"reply", "hello", "finish", "broken", "send"}
Steps == {"start", "mode", "hello", "reply", "broken", "ticket",
          "connected", "failed", "deleted", "vanished"}

(* Every variable stays in its type, and judoAccept_ talks only to a       *)
(* client it has accepted.                                                 *)
TypeOK ==
    /\ m_active \in BOOLEAN /\ runs \in Nat
    /\ m_mode \in SUBSET Bits /\ confirmed \in SUBSET Certs
    /\ doing \in [Operators -> Bits \cup {NONE}]
    /\ loaded \in [Operators -> {NONE} \cup SUBSET Bits]
    /\ pc \in {"outside", "run", "server bit", "client bit", "greet", "dead"} \cup Talking
    /\ client \in Clients \cup {NONE}
    /\ pc \in Talking => client # NONE
    /\ mode \in Modes /\ filled \in BOOLEAN /\ demanded \in SUBSET Certs
    /\ entries \in [Clients -> Modes \cup {NONE}] /\ deleted \in SUBSET Clients
    /\ at \in [Clients -> Steps]
    /\ t_mode \in [Clients -> Modes] /\ c_mode \in [Clients -> Modes]
    /\ entered \in [Clients -> Modes \cup {NONE}]
    /\ backlog \in Seq(Clients)
    /\ s2c \in [Clients -> Seq(Data)]
    /\ c2s \in [Clients -> Seq(Data)]
    /\ s_open \in SUBSET Clients /\ c_open \in SUBSET Clients

(* Nobody ends up with a connection other than the one asked for: whoever  *)
(* is in the server's array asked for the mode it is there with, and a     *)
(* client that asked for certificates is never connected without them -    *)
(* whatever the timeouts, and whatever happens to the settings meanwhile.  *)
AsAsked ==
    \A c \in Clients :
        /\ entries[c] # NONE => entries[c] = t_mode[c]
        /\ entered[c] # NONE => entered[c] = t_mode[c]

(* A client with certificates in its mode is in the server's array only    *)
(* after the handshake is complete on both sides.                          *)
EncryptedOnBothSides ==
    \A c \in Clients :
        entries[c] \notin {NONE, {}} => at[c] \in {"ticket", "connected", "vanished"}

(* judoHandshake_ hands new_node->ssl to the library.  It was made if      *)
(* SSL_ENABLED was seen at the start of judoAccept_; the REQ bits are read *)
(* later, while other threads may be setting all three.                    *)
HandshakeHasSSL == pc \in {"hello", "finish", "broken"} => filled

(* Once a require call has returned 0, every judoAccept_ that begins       *)
(* afterwards holds its client to it, whoever else sets what - unless      *)
(* another thread stood between the two halves of its own m_mode |= ...    *)
(* when the call returned (81, 87, 97): that one writes the word back as   *)
(* it was.  With one configuring thread nothing is excepted.               *)
RequirementBinds == pc \in Talking => demanded \subseteq mode

(* The sockets of judoAccept_ and judoConnect_ are closed or in            *)
(* m_ssl_nodes when they return, on each failure path but three: a socket  *)
(* that stays open, or an entry whose socket is closed, is the work of a   *)
(* close after the node was deleted.                                       *)
SocketsAccounted ==
    /\ pc # "dead" =>
        /\ pc \in Talking => client \in s_open
        /\ \A c \in s_open :
              entries[c] # NONE \/ c \in deleted \/ (pc \in Talking /\ c = client)
        /\ \A c \in Clients : entries[c] # NONE => c \in s_open \/ deleted # {}
    /\ \A c \in Clients : entered[c] # NONE => c \in c_open \/ at[c] = "vanished"
    /\ \A c \in c_open : \/ entered[c] # NONE
                         \/ at[c] \in {"mode", "hello", "reply", "broken", "ticket", "deleted"}

(* A client cannot hold the server up by silence, wherever it stops:       *)
(* judoAccept_ returns to the loop that serves everybody else, or is       *)
(* killed by SIGPIPE.  It can hold it up by going on for ever: the loop of *)
(* judoHandshake_ (393-407) ends only when a read returns nothing, so the  *)
(* premise is that clients send what nobody waits for finitely often.      *)
AcceptReturns ==
    ServerFairness /\ (\A c \in Clients : <>[][~Chatter(c)]_vars) =>
        ((pc \in Talking) ~> (pc \in {"run", "dead"}))

(* judoConnect_ returns even if the server it reached never calls accept,  *)
(* or stops in the middle.  (The server is a JudoServer here, which says   *)
(* only so much; the client's handshake loop has no bound of its own.)     *)
ConnectReturns ==
    ClientFairness =>
        \A c \in Clients :
            (at[c] = "mode") ~> (at[c] \in {"connected", "failed", "deleted", "vanished"})

(* README.md:7: "... client certs only ..., or both server and client      *)
(* certs".  A client that answers with the very mode it was greeted with   *)
(* is not turned away for it.                                              *)
EchoAccepted ==
    [][pc = "reply" /\ c2s[client] # <<>> /\ Head(c2s[client]) = mode => pc' # "run"]_vars
=============================================================================
