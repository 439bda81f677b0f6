# Verification of JudoEngine

TLA+ models of the JudoEngine server (`src/` at one commit), the TLC runs that
check them and the theorems TLAPS proves about them. `PROJECT.json` lists, by
machine, what this file says in words: components, runs, the source lines of
every definition, hazards, mutants and theorems.

## 1. The system

JudoEngine is a small C++14 server: one thread polls a listening socket and all
connections, TLS is optional, and two JudoServers can connect to each other.

| component | state | operations | interacts with |
|---|---|---|---|
| `Queue<T>` | `m_head`, `m_tail`, `m_size`, heap nodes | enqueue, dequeue, dump (hand the whole list to the caller), load (take a list over), destructor | owned by `run` and by `ConcurBlockingQueue` |
| `ConcurBlockingQueue<T>` | three mutexes, a condition variable, a `Queue` | enqueue, dequeue, dump, load, each HIGH or LOW, the consumers BLOCK or NONBLOCK | meant between worker threads and `run` (`m_input_queue`); today only `run` calls it |
| `DualDynamicArray<T,N>` | two parallel arrays, size, capacity | add, remove, find; grow and shrink inside them | `JudoServer::m_ssl_nodes`: `pollfd` beside `ssl_node*` |
| `JudoServer::run` | `a`, `index`, `sockets_to_handel`, `poll_array`, `node_array`, `m_active` | one poll per round, then one turn per entry: accept, read, disconnect or skip | the array, the kernel, `judoAccept_`, `judoRead_`, `judoDisconnect_` |
| `judoAccept_`, `judoConnect_`, `judoHandshake_`, the `Require` calls | `m_mode`, `m_active`, the new node, the byte streams | greet with a mode byte, echo or refuse it, handshake, add to the array | another JudoServer over TCP; the TLS library |
| `judoSend_`, `judoRead_` | packet buffers | cut a message into packets with a header (number, total), and join them | the streams |
| construction and destruction | `m_ssl_nodes`, `m_server_list_sock_node`, certificate files, all that hangs on the nodes | constructors, `judoMakeServerSock_`, the `judoFill` calls, every failure path that frees, `~JudoServer` | all of the above |
| `ssl_node` | socket, mode, TLS objects, a lock | destructors, comparison, printers for the log | everything above |
| `LoggyMcLogFace` | a buffered file, a table of printers and its bits | add a printer, log a line with `/%a` directives, give it up by `seekp` | `JudoServer`, for every event |
| `ThreadPool`, `PriorityQueue` | declarations | a table of thresholds; nothing else is written | nobody |

What is hard here, and so what the properties are about (the 40 places are under
`hazards`):

* *interleavings*: three mutexes and a condition variable, on two paths into the
  same critical section; consumers that are woken for an item somebody else
  takes; LOW callers that sleep with a mutex held;
* *lost wakeups*: only some of the operations that add items notify;
* *the scan against its own array*: `run` walks an array from which the calls it
  makes remove entries (the last one is swapped into the hole), to which they add
  entries, and whose storage they may replace;
* *one thread for everybody*: any call that waits for one peer keeps all others
  waiting; ending a round early may pass somebody over;
* *a stream taken for packets*: one `read` is one packet, one packet is one TLS
  record, and a record is shorter than what a read takes;
* *what is freed by whom*: nodes whose pointers nobody has set, half-made
  connections, calls repeated after a failure, a destructor whose loop and whose
  array both move;
* *a line given up half-written*, over a buffer, just before the process ends;
* *two programs agreeing by single bytes*, with five-second timeouts, peers that
  vanish at any moment, and a configuration that may change meanwhile;
* *pointer work* whose mistakes show several calls later, and *boundaries* of
  growing and shrinking.

What makes each component correct: the queue is a first-in first-out list whose
pointers, counter and memory agree; the shared queue is that list with
indivisible operations, excludes, does not deadlock and loses no wakeup; the array
is a table of pairs in bounds; the loop serves exactly what is ready, everybody
who is ready, and keeps descriptors, nodes and entries in step; a connection
that both sides keep is the one both asked for, and hands messages over in order
and whole; the server frees what it makes once; and the log keeps good lines.

## 2. The modules

    Fifo <---implements----- Queue
      ^-----implements------ ConcurBlockingQueue
      ^-----implements------ JudoPackets (what JudoRun's Read looks like inside)
    PairTable <-implements-- DualDynamicArray
                               ^---instance of the array inside--- JudoRun
                               ^---instance of the array inside--- JudoLifecycle
    JudoAccept (what JudoRun's Accept and Connect look like inside)
    LoggyMcLogFace

Each component `X` has an `MCX` module that only gives values to constants, one or
more `.cfg` files, and a module `XProofs` with its theorems. `JudoRunProofs` and
`JudoLifecycleProofs` use the lemmas of `DualDynamicArrayProofs` for their array. Definitions marked `mutant` are wrong variants of the
definition below them, used to see that the properties notice; no specification
uses them.

**Fifo** and **PairTable** are the promises: a list of items in arrival order, and
a set of pairs with one pair per key, each operation one indivisible step.

**Queue** has a heap of `qnode` cells. Every operation is one action (the class has
no lock and one caller). The caller may hold one dumped list, as `run` does. The
destructor goes cell by cell, because its first turn dereferences an
uninitialized pointer (Queue.cpp:24): it dies there or goes on, both are in the
model. `getSize` guards `dequeue`, as in every caller. `chain` and `loose` are history: they name the cells in order of arrival,
and `Linked` says that the real pointers run through exactly these.

**ConcurBlockingQueue** has one action per lock, unlock, size check, wait, wakeup
and queue operation; `pc` names the place. HIGH and LOW branches of the code are
copies of each other, so they are one action with a test of `prio` where they
differ: LOW enqueue does not notify, load does once for the whole list. The
wrapped queue is a sequence, which `Queue` justifies by implementing `Fifo`.
`silent` is history: items that came without a notify of their own, counted until
the queue is empty again, so the bound of `WakeupsCoverItems` is generous beside LOW
calls. `load` cannot be instantiated as it stands (ConcurBlockingQueue.cpp:146 turns
pointers into nodes, and nothing calls it); modelled is what its LOW branch does.

**DualDynamicArray** has `add` and `remove` with grow, the swap and shrink inside.
The literal 16 in `shrink` and `MIN_DDA_SIZE` are the same number in the code and
the same constant here, so that small instances keep the relation.

**JudoRun** instantiates the array and adds what `run` keeps beside it. `old` holds
the storage the local pointers still lead to after it was freed (the contents
may still be there, or not: both are possible steps). One action is one turn of
the inner loop; peers act between turns, never inside `judoRead_` or
`judoAccept_`, which enter with all their outcomes. Undefined behaviour the code
really reaches there (freed storage, uninitialized `buffer` and `index`, a descriptor
read from a deleted node) has `Crash` as an extra outcome next to the benign one;
closing the wrong descriptor is part of that outcome and not followed. Calls that
fail leave nothing behind in this module; what they lose is the subject of
`JudoLifecycle` and `JudoAccept`. `FreeFd` is the kernel's choice of
a descriptor, which is no choice: the lowest free one.

**JudoAccept** opens `judoAccept_` up. Its clients are `judoConnect_` calls of other
processes. A read that returns nothing stands for the peer's close as well as for
the five seconds of `SO_RCVTIMEO`, so it is possible whenever nothing is there to
read; so peers may be arbitrarily slow. `m_mode` is one word, a set of the bits
`SSL_ENABLED` and the two REQ bits: `judoAccept_` reads them one by one, and any number of
operators (threads that call the configuring functions) set them by `m_mode |= bit`, a
read and a later write of the whole word, so that one can undo another's bit.
`confirmed` is history: the bits whose require call returned 0 while nobody else was
between such a read and its write. A mode is the set of its certificate bits, and
the TLS handshake is the three flights and the ticket the library makes. The loop of
`judoHandshake_` goes on as long as its reads return something: after a piece the
library cannot use it stays in "broken", reading, and `Chatter` is a client that
keeps sending such pieces. A write to a client that is gone fails, or kills the
process by SIGPIPE (`Killed`). The exits that delete the node before they close its
descriptor (`HandshakeFails` of the server, `GiveUpDeleted` of the client) close it, or
nothing, or another one; `deleted` is history of whom that happened to.

**JudoPackets** has a sender in `judoSend_` (one action per packet written) and a
receiver in `judoRead_` (one action per turn of its loop), with TCP between. A unit
of the stream stands for a field of the header, a part of the payload or the bytes
behind it, and knows its packet, so that a read of the wrong place shows. On an
encrypted connection a packet is one record of `Record` units, and what a read takes
beyond it waits in `read_bio`. `todo` is history: the messages sent and not received,
which is the list `Fifo` speaks of. When a read leaves the receiver with a header
that is none, or writes through the uninitialized `index` of line 383, it is
"astray" and not followed further.

**JudoLifecycle** follows what the server allocates from its constructor to its
destructor: nodes, `SSL` and `SSL_CTX` objects, descriptors, and entries of the
array, which is an instance of `DualDynamicArray`. Making a connection is three
steps, the node with its fields, the descriptor, and the entry or a failure;
configuration may be repeated, before and while `run` is at work, with files that
cannot be read. A pointer in a new node that nobody sets is `NULL` or `Stale`, which is
what a recycled cell of the heap holds. Following a `Stale` one ends in `life =
"undefined"`; freeing one ends there too, or in "corrupt", the double free of an object
that was freed with the node that held it before, and `unset` remembers that such a
pointer was freed. Freeing a node or an object twice in any other way is "corrupt" with
`unset` false. `Fail` is the exits that close and then delete, `FailDeleted` those that
delete and then close what `fp` reads by then. The destructor
goes entry by entry. `lost` is history: what the code has let go of for good,
descriptors among it.

**LoggyMcLogFace** writes a line piece by piece, as the loop of `log` does, into a
stream with a buffer that may be written out at any size, over a file that
survives the process. The bits of `m_valid_functions` are arbitrary at the start, as
they are never initialized. What is in the buffer when the process ends is lost (`End`).
`pos` is an `int32_t` and wraps. `line` and `good` are
history: the pieces of the current line and of those that returned 0.

## 3. The runs

| run | instance | what it shows |
|---|---|---|
| `queue` | 4 cells, 2 items | every call sequence keeps list, count and memory right and is a `Fifo` |
| `concur` | 3 threads, 2 calls each of any kind, 1 item, 1 spurious wakeup | exclusion, one LOW competitor, no deadlock but the two known ways to stick, a consumer finds its item, no lost wakeup but for silent items |
| `concur_live` | 3 threads, 1 call each, 2 items, 1 spurious wakeup, fair | the shared queue is a `Fifo`; HIGH NONBLOCK calls return even beside stuck LOW callers; a sleeper beside an announced item does not sleep on |
| `array` | 5 keys, 2 values, minimum capacity 2 | bounds, storage and pairing over the capacities 2, 4, 8 in both directions |
| `run_loop` | 3 connections, minimum capacity 1, `Limit` 1, `Backlog` 1, fair | what a scan serves and keeps consistent, between growth and shrinking; a readable connection is served in the end, unless `run` ends or the storage is replaced again and again |
| `accept` | 1 client of any mode, 2 configuring threads, all requirements, `MaxRuns` 1 | both sides get what they asked for or nothing, whatever is reconfigured; a requirement that was set undisturbed binds; no descriptor is lost but by a close after a deletion; `judoAccept_` returns unless the client chatters for ever, `judoConnect_` returns |
| `packets` | 5 messages of 1 to 3 packets, payload 2, 4 of 5 units in a record, 3 messages, whole packets, fair | what is printed is what was sent, in order; it arrives until a record can hide in `read_bio` |
| `lifecycle` | 3 connections, 3 pairs of SSL objects, minimum capacity 1 | nothing is freed twice as long as every pointer freed was set; nothing is lost but on the named paths; the destructor passes every entry |
| `log` | 2 letters, 4 formats, up to 2 values, 3 calls, `Width` 16 | while the process lives the stream holds the good lines; the file holds a beginning of them and, behind it, leftovers at most, wherever the process ends |
| `many_clients`, `both_certs`, `packets_cut` | as small as the case allows | the three findings below |

The properties by name (each module states them with a comment; `TypeOK` is the type
invariant of every passing run but `concur_live`):

* `queue`: `Linked`, `NothingLeaked`, and `ImplementsFifo` as refinement.
* `concur`: `MutualExclusion`, `OneLowCompetitor`, `ConsumerFindsItem`, `OnlySleepersStick`,
  `WakeupsCoverItems`. `concur_live`: `HighCallsReturn`, `SleepersServed`, `ImplementsFifo`.
* `array`: `InBounds`, `NoWaste`, and `ImplementsPairTable`, which also asks that each call
  of the array is the call of the same name of the table.
* `run_loop`: `Accounted`, `IndexInside`, `ServesReadyOnly`, `NobodySkipped`, `NodeMatches`,
  `ReadableServed`.
* `accept`: `AsAsked`, `EncryptedOnBothSides`, `HandshakeHasSSL`, `RequirementBinds`,
  `SocketsAccounted`, `AcceptReturns`, `ConnectReturns`.
* `packets`: `ImplementsFifo`, `Delivered`. `lifecycle`: `FreedOnce`, `NothingLost`.
  `log`: `LinesKept`.
* Refuted: `PointersValid` (`many_clients`), `EchoAccepted` (`both_certs`),
  `MessagesIntact` (`packets_cut`).

The bounds, and why they are enough to make the interesting cases happen:

* `Cells`, `Threads`, `Items`, `Keys`, `Fds`, `Nodes`, `Clients`: three threads are a
  sleeping LOW consumer, a LOW caller behind it and a HIGH caller; two items show
  order; three connections and the listener make a scan in which the removed entry
  is first, middle, last or only. One client and two operators are enough for `accept`:
  the server talks to one client at a time, and an update is lost between two threads.
  The theorems are for any number of both.
* Four connections are beyond the time of a run for `run_loop` too, and they make a
  difference to `ReadableServed`: section 4 says which. Its premise, that the storage is
  replaced finitely often, excludes that case for any number of connections; the run
  shows the rest with three.
* With one call per thread `concur_live` makes no list to load; `load` is in `concur` and
  in the theorem `Implementation`.
* `MaxCalls` bounds the calls per thread (and of `log`), `MaxSpurious` the spurious
  wakeups. The theorems hold without these bounds being small.
* `MIN_DDA_SIZE` is 1 or 2 instead of 16, so that growth and shrinking happen with
  few entries; the proofs are for every value. With 1 and three connections the
  capacities 1, 2 and 4 occur; rounds that begin with capacity 4 are scans
  without a resize.
* `Limit` is the code's 9. `a` is not counted beyond `Limit + 1`: above the limit the
  code only compares it with `!=`, so the value makes no difference until it
  wraps. With 1 both ways out of a round occur, `a` equal to the limit and beyond it.
  `Backlog` is the 5 of `listen`.
* `MaxRuns` bounds how often `run` is called. `Requirements` are the modes the
  operator may ask for.
* `Messages` contain the empty one, full multiples of the payload (which get one more
  packet) and others; two bytes tell messages apart. Three packets are a first, a
  middle and a last one. With 4 of 5 units in a record the fifth record can hide,
  which takes two messages or three; the real numbers are 1014 of 1024 bytes and 103 records.
* `Objects`: one pair per connection, so that the listener's and a lost one compete
  for the third. A connection that finds no free object is not made.
* `Width` stands for 2^32 units of the file; 16 is reached within three lines.
  `Formats` are text only, one directive, text with two, and an unknown directive, against
  0 to 2 values, so every return of `log` occurs.

Symmetry over threads, descriptors, nodes and objects is used in safety runs. In
`run_loop`, which also checks liveness, only nodes may be exchanged: neither
`ReadableServed` nor the fairness of the loop distinguishes nodes, so permuting them
along a behaviour changes the truth of neither. Deadlock is not checked where the
system may really stop: bounded calls all made, the process ended, the queue or the
server destroyed, the log closed. In the array it is checked.

Fairness. `concur_live` assumes weak fairness of each thread's own steps: the
operating system runs runnable threads, and since each makes finitely many calls
no mutex is taken from a waiting thread for ever. No fairness is assumed of
spurious wakeups or of making calls. `run_loop` assumes that the thread inside
`run` goes on: poll has a timeout of one second, and every socket that `judoAccept_`
or `judoConnect_` made has a receive timeout. `packets` assumes that both programs and
the network go on, and that a read in the middle of a message gives up after its
five seconds; nothing forces a message to be sent or a peer to close between
messages. `AcceptReturns` and `ConnectReturns` each assume the fairness of that
side's own steps, as a premise inside the property. Of the other side `ConnectReturns`
assumes nothing; `AcceptReturns` assumes that it `Chatter`s finitely often, which the
code does not enforce (below).

## 4. Findings

* `poll_array` and `node_array` (JudoServer.cpp:447) are used after the calls that
  free what they point to: from the sixteenth client on (README.md:6 promises
  many): run `many_clients`.
* The echoed mode byte is compared signed with unsigned (JudoServer.cpp:185), so
  modes with client certificates (README.md:7) never connect: run `both_certs`.
* One `read` is taken for one packet (JudoServer.cpp:365): a packet that TCP delivers
  in parts damages its message and the next (README.md:8): run `packets_cut`.

Seen while reading, and not made a run:

* `m_active` is "boolean that designates running of main loop" (JudoServer.hpp:109)
  but is never reset (JudoServer.cpp:428); requirements cannot be set after the
  first `run`.
* A client that leaves in the second after its acceptance ends the process by
  SIGPIPE (JudoServer.cpp:209), and with it everybody else; the same at the greeting (176)
  and inside the handshake (397). `Crash` of `JudoRun` and the place "dead" of `JudoAccept`
  are this outcome.
* A plain node leaves `ssl` and `ssl_ctx` as `new` found them, and `dstr_ssl_node` frees what
  they say (ssl_node.cpp:9-10): in a cell that held a node with certificates before, these
  are the objects freed with it, a double free. `FreedOnce` excepts exactly the
  histories in which such a pointer was freed.
* Three exits delete the node and then close `new_node->fp` (JudoServer.cpp:190-191, 288-289,
  301-302): the descriptor may stay open, and another may be closed in its place.
* The storage of the array can be replaced in every round, since the boundaries of growing
  and shrinking touch (32 and 33 entries): one client accepted in front of a
  readable one grows it, one that leaves in front of it shrinks it. Each such round goes on
  over freed storage (JudoServer.cpp:457), where the entries behind may count as not ready, so
  that one readable connection can be passed over for ever. In the model four connections
  with `MIN_DDA_SIZE` 1 do it.
* `m_mode |= bit` (81, 87, 97) is a read and a write: of two threads that configure at the
  same time one can undo what the other's call has already confirmed.
  `RequirementBinds` excepts the bits confirmed while another thread stood in between.
* The loop of `judoHandshake_` (393-407) has no bound and does not look at what
  `SSL_do_handshake` returned (394): a client that sends anything every five seconds keeps
  the one thread there, and everybody else waiting.
* Lines that `log` reported as written are lost when the process ends before the stream's
  buffer is written out; by SIGPIPE, for example.
* On an encrypted connection each read takes up to ten bytes of the next record; after
  103 records a complete one can wait in `read_bio` until another one arrives
  (JudoServer.cpp:373). `Delivered` holds up to there.
* Files that cannot be read, given to `judoSetUpServerSockSSL` after good ones, leave
  `SSL_ENABLED` set: each accept then fails before it takes the client, and loses an
  `SSL_CTX` (JudoServer.cpp:73, 158). A repeated call with good files loses the objects of
  the former one; `judoConnect_` loses its node when its files cannot be read (241),
  after the `ssl` pointer nobody set was used (108). The destructor leaves the sockets
  of connections open (34-45). `NothingLost` excepts these, and the descriptors of the closes after
  a deletion, and nothing else.
* The request queue of README.md:8 ("all incoming messages will be processed and
  placed in a queue") is not there: messages are printed.
* `a != 9` can be jumped over within one round; `poll_array[-1]` is written when a process
  without a listener loses its only connection (JudoServer.cpp:479); the destructor of
  `Queue` uses `next` before it is set; two logs begun in the same second have the
  same file name, and the second empties the first.

## 5. What is proved

Every safety invariant and every refinement that a run checks is a theorem too: TLAPS
checks it for every value of the constants, from the named assumptions of the
modules. These say that the values standing for nothing (`NULL`, `NONE`, `NoValue`, ...)
are none of the things they stand beside, that descriptors, threads and clients are
finitely many, and that sizes are positive; two more come from the proofs:

* `NoNode` of `JudoLifecycle` is not the listener's node either (a first attempt at
  `NothingLost` failed without it);
* `UninitAssumption` of `JudoPackets`: memory never written is not mistaken for a unit of
  a packet. The code cannot tell them apart, the model has to.

The inductive invariants were first checked by TLC on the instances of the runs.

**ConcurBlockingQueueProofs**, for any number of threads, calls, items and spurious
wakeups: `TypeCorrect`, `Exclusion`, `OneCompetitor`, `ItemFound`, `NoDeadlock`,
`NoLostWakeup` and `Implementation` (of `Fifo`).
`MutualExclusion` alone is not inductive: nothing in it says who owns a mutex. The
invariant `IInv` says, for each mutex, that its owner is exactly the thread whose
place on its path says so (`DataInv`, `NextInv`, `LowInv`), that the sleepers are the
threads in the wait (`SleepInv`), that a thread's place fits its call (`CallInv`: only
consumers wait, a loaded list is not empty, a dumping thread holds none), and
that a consumer past the check has an item (`FoundInv`), which others cannot take
because only the owner of `m_data` changes the queue. Exclusion and the single LOW
competitor follow because a mutex has one owner. For `NoDeadlock`, if nobody can
move then the owners of `m_next_to_access` and `m_data` would have to be blocked at
places where owners do not stand; only `m_low_prio_access` can have a sleeping
owner. For `NoLostWakeup`, the bound `Len(m_queue) <= |Awake| + silent` is inductive
beside `IInv`: a thread falls asleep only beside an empty queue, a notify with a
sleeper makes one more awake consumer for one more item, and an awake consumer
that goes takes an item with it. `Implementation` maps the one step in which an
operation runs to the step of `Fifo`, everything else to a stutter.

**DualDynamicArrayProofs**, for any keys, values and minimum capacity: `TypeCorrect`,
`Bounds`, `StorageFollows` and `Implementation` (of `PairTable`, call by call). The strengthening is
`KeysDistinct`: without it `find` is not determined and a removed key could leave a
second pair behind. The lemmas `ResizedKeeps`, `GrownRoom`, `ShrunkRoom` and
`FindIndex` say what the helpers return; `AddEffect` and `RemoveEffect` what a call
leaves in the slots; the invariant and the refinement use only these two.

**QueueProofs**, for any heap, items and calls: `TypeCorrect`, `LinkedAlways`,
`NothingEverLeaked` and `Implementation` (of `Fifo`). The operations of the living queue
preserve `Linked` by themselves; an operation changes links of one list only, and
`SameLinks` and its neighbours say that a list whose own cells keep their links stays a
list. While the destructor runs, the accounting of the cells needs `Ahead`: the
loop variable is some `k`-th cell, and the live cells are those from there on.

**JudoRunProofs**, for any number of descriptors and nodes and any capacity:
`TypeCorrect`, `AlwaysAccounted`, `IndexAlwaysInside`, `NodesAlwaysMatch`,
`OnlyReadyServed`, `NobodyEverSkipped`, about `Spec`, which the `FairSpec` of the run
implies. `NobodyEverSkipped` is about rounds that do not replace the storage, and
`NodesAlwaysMatch` about storage that is current or freed and still intact; freed storage that
was written over is `Skip` or `Crash` by definition, nothing is proved of it.
The invariant says what the loop relies on without saying so: nothing is before the
listener (`ListenerFirst`); the marks in `poll_array` are what was reported and is not
served yet, and as many as `sockets_to_handel` says, and one is left while the scan
goes on (`Scanning`); whoever is not served yet is not before `index` (`NobodyBehind`),
which a disconnect preserves because it swaps the last entry into the hole and moves
`index` back; and freed storage, as long as it shows its contents, still shows pairs of
a live node and its descriptor for marked entries (`OldShows`).

**JudoAcceptProofs**, for any number of clients and operators: `TypeCorrect`, `AlwaysAsAsked`,
`AlwaysEncrypted`, `HandshakeAlwaysHasSSL`, `RequirementsAlwaysBind`,
`SocketsAlwaysAccounted`. `Settled` says how far what the call has read of the settings
covers what was confirmed when it began, although they are read one by one; `WordKept`
that a confirmed bit is in `m_mode` and in every copy of it that somebody is about to
write back, that `SSL_ENABLED` is never lost, and that a REQ bit stands only beside
it. Once `run` has begun nobody gets past the test of a require call. Excepted are bits
confirmed while another thread stood in the middle of its `|=`, and, of
`SocketsAlwaysAccounted`, the descriptors of closes after a deletion.
`Queued` says a client is in the backlog once and nowhere else, `Dialogue` that the
server is in a handshake only in its client's mode, `ClientSide` that a client
sends no mode but its own and its Finish last.

**JudoPacketsProofs**, for messages, payload and records of any length and any number
of messages: `TypeCorrect` (with it: no write past the buffer allocated from the
first header), `Implementation` (of `Fifo`) and `IntactIfWhole`, all under the
hypothesis `~Cuts` of the run `packets`: packets arrive whole. It is needed. With cut
packets `TypeOK` fails, since bytes never written are printed, and `MessagesIntact` is
the finding; `IntactIfWhole` says that with whole packets the messages are intact until the
receiver goes astray, as it does when the `index` nobody has set (360, 383) is not 0
by chance: the other cause of damage in the source. The invariant `Carried` gives every unit on its way its place: `read_bio`,
kernel and wire, one behind the other, are a row of whole packets, from the one the
receiver needs next, packet by packet and message by message, to the one the
sender writes next, and the kernel ends with a packet. On an encrypted connection the
boundary between `read_bio` and kernel is anywhere, which is why the row is stated of
their concatenation. `Arrived` and `TakenOff` say what the network and a read do to such
a row, `PrintedMessage` that the zeros behind a message end it, `Room` that there is one.

**JudoLifecycleProofs**, for any number of descriptors, nodes and objects:
`Invariance`, `TypeCorrect`, `AlwaysFreedOnce`, `NothingElseLost`: free of double frees until a
pointer nobody set is freed, and lossless but for the paths named above. The invariant says that
an object hangs on one live node and was not lost before (`Hanging`), that entries
are distinct on both sides with the listener's node at the listener's entry only
(`Distinct`), that a node is the new one, in the array, the listener's or lost, and only
one of these (`Used`), and how much of that is left between two turns of the destructor's loop
(`Destroying`).

**LoggyMcLogFaceProofs**, for any formats, calls and moments of writing out: `TypeCorrect`
and `LinesAlwaysKept`, as long as the good lines stay below half of `Width` (two gigabytes in
the code), where `pos` does not wrap. While the process lives, stream and buffer
together are the lines; once it has ended, the file is a beginning of them
(`Remains` carries this over the loss of the buffer). Seeking back to `pos` erases exactly the line given up because `pos`
is where the good lines end while it fits (`Settled`); what is left behind in the file is
never taken for a later line because its units are older than the call (`Aged`).

Only model-checked: the liveness properties `HighCallsReturn`, `SleepersServed`,
`ReadableServed`, `AcceptReturns`, `ConnectReturns` and `Delivered`, since fairness and
`ENABLED` are out of the prover's reach. The three refuted properties have counterexamples.
A definition over data by induction would be out of reach too; the row of packets
is therefore given by its boundaries and not by recursion.

## 6. What is not modelled, and why

* `ThreadPool` and `PriorityQueue`: unfinished, nothing calls them (the one function that
  is written fills a table of doubling thresholds). Build files: no logic.
* In `run`, lines 434-446 (taking over requests): nothing enqueues to `m_input_queue`,
  its dump returns 0 every time, and the pointers it is given are not looked at. With
  it, the destructors of request nodes and of pollfds, and the functions
  that are declared but not defined (`judoGetNodes`, `judoSend`, `judoConnect`,
  `judoDisconnect`, `judoHandelRequest`).
* The lock of an `ssl_node`: only the thread of `run` takes it. That `judoRead_` unlocks it
  after `judoDisconnect_` has deleted it is undefined, and taken to do nothing.
* What happens after a pointer nobody set was followed or freed, after a close hit
  another descriptor, or after the receiver went "astray": every outcome is possible
  there, so no property can speak of it.
* The memory of message buffers, of pollfds and of log strings.
* The clock: a timeout is a read that returns nothing, at any moment. Errors of
  `poll` (interrupted, out of memory) and of the mutexes are left out.
* Sockets set to a send that blocks: `write` is taken to return, and to take a whole
  packet.
* The name and directory of the log file, and the text of its lines; errors of the disk.
* `getSize` of the shared queue, which reads without the lock and has no caller.
* The inside of the TLS library: flights in `JudoAccept`, records in `JudoPackets`; a
  certificate is readable or not, and is not checked further.

## 7. Plan

Done: 1. `Fifo`, `Queue`. 2. `ConcurBlockingQueue` with its proofs. 3. `PairTable`,
`DualDynamicArray` with its proofs. 4. `JudoRun`. 5. `JudoAccept`. 6. `JudoPackets`.
7. `JudoLifecycle`. 8. `LoggyMcLogFace`.

The proofs: 9. `Queue`. 10. `JudoRun`, with `AddEffect` and `RemoveEffect` of the array.
11. `JudoAccept`. 12. `JudoPackets`, `JudoLifecycle`, `LoggyMcLogFace`.

Left:

13. Shorter proofs: what `JudoRunProofs` and `JudoLifecycleProofs` both say about their
    array could move to `DualDynamicArrayProofs`, and the lemmas on joined and cut
    sequences of `LoggyMcLogFaceProofs` and `JudoPacketsProofs` could be the same.
14. Action properties the invariants already imply and nothing states: who may free
    a node, and that an entry's pair never changes while it is in the array.
