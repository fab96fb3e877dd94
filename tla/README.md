# SocketCPlusPlus in TLA+

TLA+ models of the networking code of this repository, TLC configurations that
check them on small instances, and TLAPS proofs about them.  Below, `OC` is
`src/UDP01/OldCode`.

## 1. The system

The repository holds two networking stacks and the programs that try them out.

* A TCP stack on Boost.Asio: a server (`TCPThreader`, `TCPServer`,
  `TCPConnection`, wrapped in `ServerSocket`), a client (`TCPClient`, wrapped in
  `ThreadedTcpClient`), and packets that come from the pools of
  `PacketMethodFactory`, each pool a `circular_buffer`.
* A UDP stack on Winsock: a connection class with a handshake state machine
  (`src/Common/Connection.h`), a server loop (`src/UDP01-ThreadedServer`) and a
  client program (`src/UDP01 - Client`).

### Inventory

| Component | State | Operations | Interacts with | What makes it correct |
|---|---|---|---|---|
| `circular_buffer<T>` (`OC/General/CircularBuffer.h`) | `buf_`, `head_`, `tail_`, `full_`, `mutex_` | `put`, `get`, `reset`, observers | every pool of the packet factory, from any thread | each call acts as one step of a bounded queue that drops its oldest item; a get of a non-empty buffer never returns an empty pointer; the mutex always comes back |
| `PacketMethodFactory` (`OC/Packets/PacketFactory.*`) | `s_methods`, `s_allocationMethods`, `s_creationPool`, `s_typeRegistered` flags | `Register`, `InitFactory`, `Create` by name or type, `Release`, `Shutdown` | main thread, the server's read handlers, `TCPClient` | a packet is in one place; pools lose packets to callers only; no use of a missing or deleted pool |
| `TCPThreader`, `TCPServer`, `TCPConnection`, `ServerSocket` (`OC/Socket/Socket.*`, `ServerSocket.h`) | threads, `connectionsMade`, `connectionsAwaitingSchedule`, `hasClosed`, `isThreadRunning`, the `io_service` | accept, read, reschedule, clean up, start, stop | packet factory; peers | no connection is forgotten, read twice at once or destroyed while in use; the service ends before its objects do |
| `TCPClient` (`OC/Socket/ClientSocket.h`) | `stopped_`, `isConnected`, `packetOutDeque`, `deadline_`, `heartbeat_timer_`, socket | `start`, `Write`, `stop`; handlers of connect, read, write and deadline | packet factory; peers | every operation is under a deadline; what is written is sent; stop ends all actors |
| `ThreadedTcpClient` (`OC/Socket/ClientSocket.cpp` 254-288) | resolver results, a thread | `BeginService`, `Stop` | `TCPClient` | - |
| `CommsStateMachine`, `Connection`, `UDPServer`, UDP client program | protocol state, `hasSentState`, connection map | `DataSend`, `DataReceive`, `RunService`, the loops | each other over UDP | a handshake that arrives is answered; both ends agree on the protocol state |
| Packet framing (`SizePacket` in `OC/Packets/BasePacket.*`) | read and write offsets, `receiveBuffer` | `SerializeIn`, `SerializeOut`, `IsRemainingBufferBigenough` | factory, `TCPConnection::Start`, `TCPClient::start_write` | packets arrive as they were sent, however TCP joins and splits the frames |
| Serialization (`OC/Packets/Serialize.h`, `CommonTypes.*`, `BasePacket.*`, `MovementPacket.*`) | offsets into a buffer | `Serialize::In` and `Out` of numbers, strings, buckets, tables; `SerializeIn` and `SerializeOut` of each packet | factory, framing, unit tests | what is read is what was written, from where it starts; numbers are in network order |
| Quantization (`OC/Packets/MovementPacket.*`, `OC/NetworkUtils.h`) | - | `PositionCompressed`, `RotationCompressed`, `FloatCompressed` | movement packets | a round trip stays within the resolution; no field overflows into the next |
| `PacketObserver`, listeners of `ServerSocket` | received packets, observer list | `Register`, `Unregister`, `Notify`, `GetCount` | unit test | packets are delivered once and counted |
| `FixedLengthString` (`OC/General/FixedLengthString.*`) | fixed buffer, length | copies, comparisons, conversions | packets | never longer than the buffer; what it keeps is what it serializes |
| Logging (`OC/NetworkCommon/server_log.*`) | the stream, `isCreatingFile`, the directory | `FileLogOpen`, `LogMessage`, `FileLogClose` | everything, from any thread | one file is created at a time; a failed creation does not prevent the next |
| Socket start-up: `IsPortBusy` (`OC/NetworkUtils.cpp`), `main` of `UDP01.cpp`, `UDPServer::Init`, `udpServer` (`src/UDP01/udpServer.cpp`) | sockets, address lists, the Winsock reference | acquire, release, on each failure path | logging | everything acquired is released once; nobody serves a socket that is not bound |
| Utilities, Base64, type registry, server type tables, samples, older copies | - | - | - | - |

### Behaviours that are hard

* **Threads without locks.** Five pool threads and a detached service thread
  share the two connection lists of `TCPServer`; the factory's maps have no lock
  either; only the pools do.
* **Life times.** Read handlers hold a plain `this`, the service thread is
  detached, `BeginService` registers its signals with a local object.
* **Time.** `~ServerSocket` relies on `Sleep`; the client's deadline timers race
  the completions of connect, read and write, and moving a timer runs its waiting
  handlers.
* **Networks.** TCP splits and joins messages; UDP loses, repeats and reorders
  them; clients and servers are restarted.
* **Boundaries.** Full and empty buffers with equal indices, exhausted pools,
  fields of 20 bits, angles about zero and a full circle, texts as long as their
  reader's buffer.
* **Partial failure.** Five or six system calls in a row, each of which may fail
  after the earlier ones acquired something.

`PROJECT.json` lists each hazard at its line with the properties that cover it,
or the reason none does yet.

## 2. The modules

| Module | Models | Instance for TLC |
|---|---|---|
| `BoundedQueue` | the abstract drop-oldest queue | through `CircularBuffer` |
| `CircularBuffer` | `circular_buffer`, one statement per step | `MCCircularBuffer` |
| `CircularBufferProofs` | theorems about `CircularBuffer` | - |
| `PacketFactory` | the factory and its pools, main and the network threads | - |
| `FactoryPrograms` | the programs and unit tests that use the factory | `MCPacketFactory` |
| `PacketFactoryProofs` | theorems about `PacketFactory` | - |
| `TcpServer` | the threads of the server and its connections | `MCTcpServer` |
| `TcpServerProofs` | theorems about `TcpServer` | - |
| `TcpClient` | the actors of the client | `MCTcpClient` |
| `TcpClientProofs` | theorems about `TcpClient` | - |
| `UdpHandshake` | state machine, server and clients over UDP | `MCUdpHandshake` |
| `UdpHandshakeProofs` | theorems about `UdpHandshake` | - |
| `PacketStream` | the abstract connection: packets arrive unchanged and in order | through `Framing` |
| `Framing` | `SizePacket` frames from `TCPClient::Write` to `inwardPackets` | `MCFraming` |
| `FramingProofs` | theorems about `Framing` | - |
| `Quantization` | positions and rotations as bit fields | through `Serialization` |
| `Serialization` | `Serialize::In` and `Out`, packets, strings, buckets, byte by byte | - |
| `SerializationTests` | what the unit tests serialize, and sweeps beyond it | `MCSerialization` |
| `SerializationProofs` | theorems about `Serialization` and `Quantization` | - |
| `Startup` | the routines that open sockets and the log | `MCStartup` |
| `StartupProofs` | theorems about `Startup` | - |

A definition named after a C++ function is that function; `PROJECT.json` maps
each one to its lines.  A definition commented "Faulty variant" is not part of
any specification: it is what the code would be with a plausible bug, and shows
that a property would notice it.

### CircularBuffer

Variables are the members without their underscore, plus the program counter,
the argument of `put` and the result of `get` of each thread.  `put`, `get` and
`reset` are split into their statements (`PutLock`, `PutStore`, `PutTail`, ...).
The `lock_guard` releases the mutex in the step of the last statement; the early
return of `get` (`GetNothing`) does so too.  `val = std::move(buf_[tail_])`
leaves `Null` in the slot, the state of a moved-from `shared_ptr`.

`IsBoundedQueue` is the refinement: `BoundedQueue` with the buffer's contents for
its queue.  A `put` takes effect when it stores its item, a `get` when it moves
the slot out (or finds the buffer empty), a `reset` when it moves `head_`; the
mapping (`First`, `Count`, `Contents`) makes up for the indices that the rest of
the call has yet to move.

### PacketFactory and FactoryPrograms

The main thread runs a *program*, a sequence of instructions (an operation and,
for `Create`, the class).  `FactoryPrograms` holds the programs, one definition
per executable or unit test: `Server03`, `Client04`, `PacketFactoryTesting` (which
has an older copy of the class: its `Init` makes a pool even if there is one, its
`Shutdown` leaves the maps filled), and `Test_Suite`, all unit tests that use the
factory, one after the other as the test program runs them, each but the last
between the constructor and the destructor of `FactoryMock`.  The tests release what
they hold in an order of their own; the model allows any.  `ClearFlags` also drops
what a test never released.

`Client04` runs its `io_context` only in `run_for` (line 63).  If it connects there,
`start_write` sends and releases the two packets written before; the packets of the
key loop come later, stay in `packetOutDeque` and never return to their pool.  So
the model has a parameter for the outcome of the connection and one for the keys
pressed, and with one key too many `Create` returns the null packet that line 20
dereferences.  `SocketTest_ServerAndClient_FirstComms2` works without `FactoryMock`
and makes no packet: it asserts at line 1117 that the client is connected, which
only a handler of the client can bring about, before its `io_context` has run.  The
assertion fails and ends the test after `InitFactory`, before its `Create` (1121) and
`Shutdown` (1141).  Since the tests are built with `_UNIT_TESTING_`, nothing
registers at start-up and that `InitFactory` makes no pool.

Loops over the classes (`Register`, `InitFactory`,
`Shutdown`) take one step per class.  Network threads do what the read handler of
`TCPConnection` does: look the pool up (`FindPool`) of the type on the wire, which
may be one that no class has (`Unknown`: `ServerTickPacket` is not registered, and the
rest of a frame that was cut may hold anything), take a packet from it
(`GetFromPool`), later `DequeMessage` and `PutIntoPool`; between the two halves
anything may happen.  A pool is the queue of `BoundedQueue`.  `faults` records a
failed assertion (and whether the type was unknown), a null packet that is used, and
a pool used after it was deleted.  The last two end the process; `_ASSERT(0)` does nothing in the release
build, so execution goes on after it to the null packet.

`Server03` starts the server before `InitFactory` and ends it after `Shutdown`, so
a packet that arrives at the wrong moment meets the assertion in `Create` or a
deleted pool.  No comment of the repository promises otherwise; `ServiceIsSafe`
states what does hold, between the last pool made and the first one deleted: no
deleted pool is used, and the assertion fails for unknown types only.  `TestsNeverFail`
is about the programs of `Orderly`: those without network threads that keep the cycle of
registration, `InitFactory`, use, `Shutdown` and cleared flags and create no more
packets than there are.  They are the tests and the client whose user presses few
enough keys, as `OrderlyAssumption` of `MCPacketFactory` says.

`OnePlacePerPacket` counts references that may still use the packet.  After
`TCPClient::Write` the sample's own `shared_ptr` survives in a variable that is
overwritten and never read again; such a *written* reference is not counted.  A
program that used it would share the object with the pool; the hazard at
`ClientSocket.h:280` says so.

### TcpServer

Threads: pool threads, the service thread, the thread of the first accept, and
main.  `at` is the next statement of each.  The `io_service` is external: an
operation completes (`Peers`), and any thread inside `run` takes its handler
(`Dispatch`) or, once the service is stopped, may leave (`LeaveRun`).

`BeginService` builds its `signal_set` as a local variable (`Socket.cpp` 163).
Its destructor cancels the wait, the handler runs with an error, ignores it and
calls `io_service::stop`.  The service therefore is stopped as soon as it starts,
the pool threads leave, and the service thread goes round its loop of `run`,
`Sleep(10)`, `CleanupClosedConnections`, `HandleReschedule`.  The server works
*because* of this: without the stop the service thread would stay in `run`, and
connections put in line by `RescheduleMe` would never be read.  `run` on a
stopped service still delivers handlers that are queued before it returns; this
is how the completion port behaves and the module treats it as an assumption on
the external library.

Each operation on `connectionsMade` and `connectionsAwaitingSchedule` is one
step.  In the code these are unlocked vector operations, so concurrent ones are a
data race; atomic steps are its mildest outcome, and the violation shown by
`tcp_server_slow` occurs even so.  The passing run says nothing about torn
vectors; it shows that, with prompt threads, the handlers of one thread only
touch the lists while the service thread iterates over them.

`Prompt` selects an assumption on time: a `Sleep` ends only when every thread is
idle (`Quiet`), that is, no step takes ten milliseconds.  With `Prompt = FALSE` a
sleep may end at any moment.  `PrepareFirst` says whether the service is prepared
for its end before the delete, as `~ServerSocket` does; both configurations set it
to TRUE.  `SocketTest_CreateTCPServer` of the unit tests
(`UnitTest_BasicNetworking.cpp` 1056) deletes a bare `TCPThreader` without it.

### TcpClient

One thread runs the `io_context`, so a handler is one step, with everything it
calls.  An operation (`connectOp`, `readOp`, `writeOps`) is pending until the
network or a close completes it, and its handler is then ready.  The timers'
handlers are bound without the error code, so a wait that is cancelled because
`expires_after` moved the timer runs the same handler as one that expired;
`checks` and `writers` count handlers that wait and that are ready.  One unit of
time is ten seconds (timeouts 60, 30 and 10 of the code become 6, 3 and 1); no
time passes while a handler is ready.  `sent` counts how often each packet is on
the wire: `start_write` does not reset its buffer between packets, so the n-th
write repeats the n-1 before it.  That buffer is a local variable that is gone
when the write completes; what is sent instead is not modelled (a hazard without
a property).  `Read` returns a deque that nothing fills.

### UdpHandshake

`CommsStateMachine` is a record with its three fields that matter; a handshake is
"client hello" or "server hello", everything else is "junk".  The client's loop
(send when ready, then the blocking receive) and the server's (receive with a
time-out, then service every connection) are actions.  `RunService` sends its
whole local buffer even if `DataSend` wrote nothing: the content is then
whatever the stack held, a choice between junk and the handshake received last.
`reliable` is chosen in `Init`: with FALSE datagrams may be lost, duplicated and
reordered and the server restarted.  The network is a set, so order is never
assumed and two equal datagrams on their way are one.

### Framing

The path of a packet: `Write` puts it in `queue` (`packetOutDeque`), `StartWrite`
serializes the queue as frames onto the TCP connection (`stream`; `wire` remembers
the packets behind the bytes), `Receive` is the completion of `async_read_some`
into `receiveBuffer`, and each turn of the loop in the read handler is a
`SerializeIn`, until `IsRemainingBufferBigenough` fails and `ReadAgain` drops what
is left.  This is the one module in which bytes are bytes: the loop reads sizes
and types at offsets that may lie inside a frame or behind the end of what was
read, and what it finds there is the question.

`Writes` repeats earlier frames, because `outOffset` is not reset between the
packets of one `start_write`.  `fill` is what memory that was never written holds,
inside `receiveBuffer` at first and behind it always.  `Create` returns a null
packet, whose use ends the process (`crashed`), for a type that no pool serves (after
its assertion) and for one whose pool is empty (`IsExhausted`).  Nothing calls
`DequeMessage`, so every packet that was read stays in `inwardPackets` and `PoolSize`
packets of a class are all that a connection ever reads; `PoolSize` is what the pool
of 100 has for this connection when it begins.

The transport is external.  TCP keeps bytes in order; a read ends where it likes.
`whole`, chosen in `Init`, says that reads end between frames; otherwise up to
`MaxCuts` reads may end inside one.  `IsPacketStream` is the refinement of
`PacketStream`, which promises ordered, unchanged delivery for whole transports
and nothing for others.  `FramesReadAsSent` is what remains true for both: where
the loop stands at the beginning of a frame, however it got there, it goes on only
when it has all of it, and reads that frame unless its pool is empty, the only
reason to crash there.  `EveryFrameArrives` ends at that frame too.

Two things are assumed: the write finds its bytes intact although they are in a
local array of `start_write`, and a queue fits its 120 bytes (`write_length`
bounds `Write`; the code does not check).

### Quantization, Serialization, SerializationTests

A *script* is what a test writes into a buffer, item by item, and then reads
back.  `Out` is one call of a `SerializeOut`; `In`, `InProbed` and `InFrame` are the
three ways the tests read: into an object of a known class, into the object that
the factory makes after a `BasePacket` was sampled, and from `SizePacket` frames
while `IsRemainingBufferBigenough`.  `data` holds real bytes, `inOffset` is the
reader's offset, `starts` remembers where each item begins.

Control is the code's: byte order through `htons`, `htonl` and `htonll`, whose
effect in memory is computed; lengths cut to the reader's buffer, with the offset
moving by the cut length; `std::string` read through a `char` array, so that it
ends at the first zero; strings of a `StringBucket` appended to those it already
has; the number of columns of a table taken from its first row.  A table without rows
makes the code dereference the end of its list: a debug build ends there (`Abort`),
another one writes what it finds, `Fill`, which the reader then uses for no row.
`MaxString` is 64
instead of 3072, `Fill` (205) is what memory behind the written bytes holds.

`Quantization` keeps integers: a coordinate counts 1/1024 of the code's unit, an
angle tenths of a degree, so that the products of the code are exact up to the
conversion to `long`.  A `U64` is the set of its one bits, since TLC's integers have
32.  The masks, shifts and sign bits are those of `PositionCompressed`, the fields
of ten bits and `Wrap` those of `RotationCompressed`.

`SerializationTests` has one definition per unit test that serializes, named after
it, then sweeps over what the tests leave out: texts around each limit, read by
each class that may read them; tables with and without rows; buckets read twice;
125 positions and 216 rotations at and beyond the ends of their ranges.

### Startup

Each routine is the sequence of its steps: `Call` (it succeeds and acquires
something, or fails and goes on with the steps given for that), `Release`, `If`, and
steps on the log.  `IsPortBusy`, `Main`, `UDPServerInit` and `udpServer` are read off
the functions line by line, including the failure paths.  Threads run any of
these, or `Logger` and `Rotator`, which open the log, write and close or reopen it.
`IsPortBusy`, `FileLogOpen` and the `udpServer` class have no caller in the
repository, so the threads call them as their declarations allow; `udpServer.cpp`
has a brace too many and is modelled as it would be without it.

The log's state is shared and unlocked.  Each operation on the stream is one step,
which is the mildest outcome of a data race between two of them.  `raced`
remembers that two threads were between the test of `isCreatingFile` and its
reset.  Opening an open `ofstream` sets its fail bit for good (`failed`).

`Tidy` leaves `UDPServerInit` out: when `bind` fails `Init` returns without releasing
anything, and when the socket cannot be made or configured `CleanupAndExit` closes
the member `ReceivingSocket`, which has not been set, while the new socket is a
local variable of `OpenDGramSocket` (`UDP01-ThreadedServer.cpp` 275).

## 3. What the runs show

| Run | Result | What it shows |
|---|---|---|
| `circular_buffer` | passes | two threads, two items, three slots: types, `ContentsNeverNull`, the refinement `IsBoundedQueue`, and that the mutex always comes back |
| `packet_factory` | passes | all programs with two network threads: `OnePlacePerPacket`, `PacketsLeavePoolsByCreate` (no release overwrites a ready packet of a full pool), `TestsNeverFail` (the whole suite, and a client that sends no more than it has, never meet a missing pool, a null packet or a deleted pool), `ServiceIsSafe` (between `InitFactory` and `Shutdown` no network thread uses a deleted pool, and none misses one but for an unknown type) |
| `tcp_server` | passes | prompt threads: no connection is lost, has two reads or is destroyed while used, the detached thread ends before the delete; every connection is read again, closed ones are released, the destructor returns |
| `tcp_server_slow` | violates `NoConnectionLost` | a pool thread still busy after the stop pushes a connection between the last `Start` of `HandleReschedule` and its `clear`; the comments at `Socket.cpp` 94 and 100 ask for the lock |
| `tcp_client` | passes | refused and silent endpoints, late answers, stop at any time: every operation is watched, packets wait or are sent, a connect never succeeds on a closed socket, the connect actor decides, a lost connection is noticed, stop ends everything |
| `tcp_client_heartbeat` | violates `HeartbeatActorAlive` | connecting with an empty queue starts no write, so the heartbeat timer is never armed and later packets stay queued |
| `udp_handshake` | passes | two endpoints, restarts: every handshake that arrives is answered, lost answers are repeated |
| `udp_handshake_completes` | violates `HandshakeCompletes` | the server leaves `SendHandshake` on receipt and never sends its own handshake, so without any loss the client fails |
| `framing` | passes | frames of two lengths joined in every way and cut once: the connection is a packet stream when nothing is cut, every frame arrives until a pool is empty, the repetitions of `start_write` never let a packet overtake an earlier one, and even after a cut a frame whose beginning the loop meets is read as sent |
| `framing_cuts` | violates `ReceivedAsSent` | a frame that two reads share is dropped and its second half read as a header, although the size in the header is there for "predicting the next length" (`BasePacket.cpp` 212) |
| `serialization` | passes | every script of the unit tests and the sweeps: `ReadAsWritten` (each field comes back from where it starts, as long as what precedes it fits its reader), `VectorsClose` (positions within 1/256, angles within 1/1024 of the circle, whatever the neighbouring fields hold), `WireIsBigEndian` |
| `startup` | passes | two threads, any call may fail: `ReleasedOnce`, nobody serves an unbound socket (in `TypeOK`), only two callers inside `CreateLogFile` at once spoil the stream, and a creation always ends |

### Bounds

* `circular_buffer`: with three slots each index wraps while the buffer is empty,
  partly filled and full; two threads are all that a mutex can tell apart.  The
  theorems of section 5 lift the run to every size.
* `packet_factory`: two classes are needed for `Shutdown` to be seen half-way and
  for packets of another class, two packets per pool for a full, a partly used
  and an exhausted pool, two network threads for a race.  Eight initialisations
  are what the suite has; no program is cut short.  The client's user presses up to
  three keys, one more than a pool has packets.
* `tcp_server`: two pool threads for five (one that accepts while one reads), two
  connections so that erasing moves the iterator onto another one, two messages
  so that a connection is rescheduled after it was read.
* `tcp_client`: two endpoints (one to fail, one to go on with), three packets so
  that a write follows a flush while another is pending.
* `udp_handshake`: two clients, each started twice (the second may meet the first
  one's connection), one restart of the server.
* `framing`: three packets of 10 and 24 bytes, so that one write repeats frames
  and reads join frames of both lengths; a `receiveBuffer` of 48 bytes instead of
  512, so that reads fill it now and then and leave old frames behind shorter
  ones; one cut, at every byte.  Three packets of one class flushed at once are six frames, one
  more than `PoolSize`; all other queues fit.  `Fills` is {0}: a size of zero is the one that
  most easily passes for a frame that fits.  `framing_cuts` also fills memory
  with 205, the pattern of debug builds.
* `serialization`: the scripts are finite and run to their ends.  A `MaxString` of
  64 has texts on both sides of it; each coordinate takes zero, one quantum either
  way, the last value in range and one beyond, each angle both sides of zero and of
  the circle, in all combinations, because fields disturb their neighbours.
* `startup`: two threads are what a race on `isCreatingFile` needs; a third would
  only meet the states that two leave, and the theorems hold for any number.  All
  36 pairs of routines are run.

`CHECK_DEADLOCK FALSE` is set where the programs end or wait for a peer that owes
nothing; the buffer alone never stops and is checked for deadlock.

### Fairness

* `CircularBuffer`: a thread that holds the mutex keeps running.  Nothing is
  assumed of the order in which waiters get it.
* `TcpServer`: the operating system schedules every thread, a sleep ends, and a
  completion that is queued is delivered by some `run` (strong fairness of
  `Dispatch`, since a stopped `run` that returns disables it for a while).  Main
  need not end the service; peers owe nothing.
* `TcpClient`: ready handlers run and time passes.  The network owes nothing.
* `UdpHandshake`: both programs run on; a datagram sent over and over is received
  in the end (strong fairness of the receives).  Starting, quitting, losing and
  restarting are not fair.
* `Framing`: the server's threads run and a read gets what has arrived (weak
  fairness of `ServerStep`).  The client need not write or send.
* `Startup`: each thread runs on; no step but serving, which has no successor,
  waits for anything.  `PacketFactory` and `Serialization` claim safety only.

## 4. Findings

The four violations above are recorded in `PROJECT.json` with the comment, test or
assertion that the code contradicts.

## 5. What is proved

Each theorem below holds for every value of the constants, under the named
assumptions of its module, which TLC evaluates on every run.  "Run's property"
means that a run of section 3 checks it on a small instance.

| Module | Theorems |
|---|---|
| `CircularBufferProofs` | `TypeCorrect`, `NeverNull` (`ContentsNeverNull`), `Refinement` (`IsBoundedQueue`) |
| `TcpServerProofs` | `TypeCorrect`, `ConnectionsKept` (`NoConnectionLost`), `ReadsAlternate` (`OneReadPerConnection`), `ConnectionsLive` (`ConnectionsOutliveReads`), `ServiceEndsFirst` (`ServerNotUsedAfterDelete`) |
| `TcpClientProofs` | `TypeCorrect`, `DeadlinesHold` (`OperationsHaveDeadlines`), `PacketsKeptUntilSent` (`PacketsNotLost`), `OnlyOpenSocketsConnect` (`ConnectsOverOpenSocket`) |
| `PacketFactoryProofs` | `TypeCorrect`, `PacketsInOnePlace` (`OnePlacePerPacket`), `ServiceSafe` (`ServiceIsSafe`), `ReleasesDestroyNothing` (`PacketsLeavePoolsByCreate`), `TestsPass` (`TestsNeverFail`) |
| `FramingProofs` | `TypeCorrect`, `BeginningsReadAsSent` (`FramesReadAsSent`), `NothingSkipped` (`NoneSkipped`), `Refinement` (`IsPacketStream`), `WholeReceivedAsSent` |
| `SerializationProofs` | `TypeCorrect`, `EverythingReadBack` (`ReadAsWritten`), `VectorsComeClose` (`VectorsClose`), `BigEndian` (`WireIsBigEndian`) |
| `UdpHandshakeProofs` | `TypeCorrect`, `AnswersDue`, `NeverCompletes` |
| `StartupProofs` | `TypeCorrect`, `EverythingReleased` (`ReleasedOnce`), `SpoiltOnlyRaced` (`StreamFailsOnlyRaced`) |

In every module the argument is an inductive invariant `Inv` that no single
property is; TLC confirmed each one on the module's run before it was proved
(except `Safe` in `StartupProofs`, which quantifies over all sets, and the part of
`SerializationProofs` that chooses the function `Ends`).  Every module
has one lemma per action that says why the action keeps `Inv`.

### CircularBufferProofs

Assumptions: `CapacityAssumption` (`max_size` is a positive number; the constructor
is given `numToCreate`) and `ValueAssumption` (the empty pointer is no item, "free"
is no thread).

The invariant `IInv` is the conjunction of `TypeOK`; `MutexInv` (the thread inside a
call body owns the mutex, and the owner is inside one: without it two bodies could
interleave); `FullAndCount` (what `full_` says of the indices at each statement,
since `get` and `reset` leave it stale for one, and that the contents fit);
`ArgumentInv` (a `put` that has not stored yet has an item); `OccupiedInv` (every
slot within `Count` of `First` holds an item).  One lemma per operation says what
its statements do to `First` and `Count` (`PutEffect`, `GetEffect`, ...); occupied
slots are described by their distance from `First`, so that no proof needs `%`
beyond `ModIsSlot` and `AdvanceIsSlot`; from `IInv` the contents are a sequence of
items, and `StoreRefines`, `MoveRefines` and `SilentRefines` map each statement to
`Put`, `GetOldest`, `GetNothing`, `Reset` or a stuttering step.

### TcpServerProofs

For every set of pool threads (`WorkerAssumption`: none of them is called
"service" or "starter"), every number of connections and messages.  All five
theorems are about *prompt* threads, the constant `Prompt` of the passing run: no
step takes as long as one of the code's sleeps.  The run `tcp_server_slow` shows
that without it `NoConnectionLost` fails.  `ServiceEndsFirst` also needs
`PrepareFirst`, the order in which `~ServerSocket` does its steps.

`Inv` is `Types` with: `LifeInv` (which threads exist in each phase of main);
`AloneInv` (the service thread touches the lists only after all others have left
`run`: this is what makes the unlocked vectors safe); `AcceptInv` (one accept, or one
thread about to begin it); `ListInv` and `PlaceInv` (every connection is in line,
being read, in the hands of a handler, or closed); `IteratorInv` (the iterators stay
in their lists, and `HandleReschedule` has started exactly what lies before its
own).  `EndInv` counts the naps: the service thread needs no more than two of
main's five to see that the flag is down.

### TcpClientProofs

For every number of endpoints and packets and all positive time limits.  `Inv` is
`Types` with: `ActorInv` (connect and read actors never overlap, one deadline actor
from `start` to `stop`, and `deadline_` no further away than the pending operation
allows); `WriteInv` (each write and each wait of the heartbeat timer has a packet of
its own that left the queue, and belongs to a connection, so that the heartbeat can
flush the queue while connected only); `QueueInv` (the queue holds the packets written
last, in order; the earlier ones were sent unless the connection is lost).

### PacketFactoryProofs

For every set of programs over the instructions (`ProgramAssumption`), any number of
classes, pool sizes, network threads and calls of `InitFactory`.  `Inv` is `Types` with
`LoopInv` (only a loop over the classes is half done), `OnceInv` and `KindInv` (no two
places of one kind, nor of two kinds, share a packet: pools including deleted and
overwritten ones, main's hands, `inwardPackets`, packets on their way back) and
`FreshInv` (an `InitFactory` that is running has not made the packets of the classes it
has left, so that filling a pool cannot duplicate one).

The next two theorems have a hypothesis on the programs, without which each is
false, and the last one is about programs of a kind.  `MCPacketFactory` asserts the
hypotheses of all programs of the repository (`OrderAssumption`) and says which are of
that kind (`OrderlyAssumption`), so TLC checks that they are.

* `ServiceSafe`: a program that starts network threads uses the current factory and
  registers its classes before `InitFactory` (`RegistersFirst`).  The invariant adds
  `PreparedInv` (until the first `Shutdown` all classes are registered, then pooled) and
  `FaultInv`, which tells assertions for unknown types from others.
* `ReleasesDestroyNothing`: a program gives up what it created before it calls
  `InitFactory`, and calls it again only after `Shutdown` and without network threads
  (`OneFactoryAtATime`).  Otherwise a packet of a lost pool is released into the pool
  that is there now, which may be full.  `TidyInv` says that no packet ever meets a pool
  other than its own: what main holds was created since the flags were cleared last
  (`CreatedInv`), a class has a pool only from an `InitFactory` that no `Shutdown` followed
  (`CurrentInv`), and packets lie in, or return to, the pool they were made for
  (`OwnInv`).  A pool that lacks one of its own packets is not full, by counting
  (`PutOwn`).
* `TestsPass`, for the programs of `Orderly`: one without network threads that clears
  the flags between `Shutdown` and registering again, creates only between
  `InitFactory` and the end of the cycle, and then only when it has created fewer packets of the class than a pool has, or kept
  fewer of all classes (`KeepsTheCycle`, which is about the text of the program alone).
  `EnteredInv` follows flags and maps through the cycles: a flag without entries tells of
  a `Shutdown` since which no flag was cleared.  `CycleInv` says that between `InitFactory`
  and the end of the cycle each pool and main's hands together hold all packets of the
  class (`Whole`), and that main holds at most what it created and did not give
  back (`Counted`).  If a pool were empty where main creates, main would hold
  `PoolSize` packets of the class: more than the program allows (`PoolHasOne`).

### FramingProofs

For every set of registered classes, every `max_length` and `PoolSize`, any number of
cuts and up to 255 packets (their number is one byte).  `Inv` is `Types` with: `BytesInv` (what was
read and what is on its way are the bytes of the frames sent, and `receiveBuffer`
holds the last `length` of those read); `WholeInv` (without cuts every read ends
between frames and the loop stands at the frame of the next packet, up to a crash); `QueueInv` and
`WireInv` (no packet before an earlier one, though `start_write` repeats frames).

The bytes of many frames are a concatenation, `FlattenSeq` of the community modules,
a recursive function.  The first section proves what is needed of it by induction:
`SetInduction` takes the set of numbers with a property instead of the property,
and follows from the minimum principle of the library's well-founded relations.
`FramingProofs` derives where frame `i` starts (`StartOf`), that `SizePacket` reads
back the frame that `SerializeOut` wrote, and that the loop's guard
`IsRemainingBufferBigenough` lets it do so only when it has arrived.  `WholeReceivedAsSent` is the
property that `framing_cuts` violates, for transports that do not cut.

### SerializationProofs

For every sequence of scripts whose items are what a program may write
(`ScriptAssumption`: fields of the types that `Serialize::Out` takes, texts whose
length two bytes hold, frames that fit the reader's buffer), every size of the string
buffer (`MaxStringAssumption`) and every content of unwritten memory (`FillAssumption`).
A script may be of any length, in any order and mixture of kinds.

The argument goes up through the layers of the code.  `NumberIn` undoes `NumberOut` for
each width (section *Numbers*).  `HoldsAt(at, bytes)` says that these bytes lie in the
buffer at this offset; for each kind of field there is a lemma that where the bytes of
`FieldOut` lie, `FieldIn` reads the value that was written, or what its reader keeps of
it, and moves behind them.  Loops (lists of strings, rows of a table, fields of a
packet) are recursive functions; their lemmas are proved by `SetInduction`, once for
any loop that reads one value behind the other.  `Ends` gives the bytes of the first items
of a script.  The invariant `IInv` is `TypeOK`, `WrittenSoFar` (the buffer holds
the bytes of the items written, each from where the one before ends) and `ReadSoFar`
(as long as every item fits its reader, the offset is at the end of the last item
read, and the bucket holds the strings of all buckets so far).

For `VectorsComeClose`, a `U64` is the set of its one bits: the fields of
`PositionCompressed` are disjoint intervals of it and the sign bits lie below them, so
that unpacking one coordinate cannot see another; a number of less than 2^20 has no
bit outside its field.  The fields of `RotationCompressed` are digits of base 1024, and
`Wrap` moves an angle by whole circles.  Both lemmas, `PositionClose` and `RotationClose`,
hold for all integers.

### UdpHandshakeProofs

For every set of clients other than the server (`ServerAssumption`), any number of
starts and restarts.  `Inv` is `NetworkInv`, `ClientInv`, `ServerInv` (a client's machine has
either its first state or has failed; a server's machine never initiates, never
believes that it has sent, and has left its first state) and `AnswerDue`: as long as
nothing is lost, a client that waits has its datagram or an answer on its way, or is
in the server's map, which `ServiceOutgoingConnections` serves.  `NeverCompletes` is
the finding of `udp_handshake_completes` for all instances: on no network does any
client ever complete its handshake.

### StartupProofs

For every set of threads.  `PlaceInv` says where in `CreateLogFile` a thread is, by the
steps it has left; `StreamInv` that, as long as nobody raced, one thread at most is
between the test and the reset of `isCreatingFile` and finds the stream closed when it
opens it.  For the resources, `Safe(tidy, steps, held)` says that these steps may be
left with this held, whatever succeeds or fails from here on, and `Leads` that a part of a
routine prepares what follows it; `CallLeads`, `ReleaseLeads`, `TestLeads`, ... are the
rules, and `IsPortBusySafe`, `MainSafe`, ... apply them to the routines, one
statement at a time.

### Only model-checked

Every invariant and every safety property of the passing runs is proved.  What remains
with TLC alone:

* Every liveness property: fairness and `ENABLED` are outside this prover's reach.

## 6. What is not modelled, and why

* `ThreadedTcpClient`: `BeginService` starts a `TCPClient` that is a local
  variable of the thread's function and whose `io_service` nobody runs; no
  behaviour is left.
* `FloatCompressed` (no packet has one) and the templates for lists, vectors and
  maps in `CommonTypes.h`, which nothing instantiates.
* `FixedLengthString`: comparison, searching and conversions; only what a string
  keeps of a text and how it is serialized is modelled.
* `PacketObserver` and the listeners of `ServerSocket`: registration only touches a
  list; nothing in the repository notifies an observer, so the count that
  `SocketTest_ServerAndClient_FirstComms2` asserts (`UnitTest_BasicNetworking.cpp`
  1134) has no behaviour behind it.
* `TCPConnection::SendMessage` has no caller.
* `udpServer::recv` and `timed_recv`, which keep no state; start-up of the UDP client
  program; the formatting of addresses in `NetworkUtils.cpp`; the Unix log.
* `Utils.cpp`, Base64, type registry, constant tables: pure helpers without state
  that the protocols share.
* Samples and `OldCode` copies that the solution no longer builds: earlier
  versions of what is modelled.

## 7. Plan

Done, in order of importance: (1) `BoundedQueue`, `CircularBuffer` with proofs;
(2) `PacketFactory`, which uses the queue, and `FactoryPrograms`; (3) `TcpServer`;
(4) `TcpClient`; (5) `UdpHandshake`; (6) `PacketStream`, `Framing`; (7) `Quantization`,
`Serialization`, `SerializationTests`; (8) `Startup`.

The proofs of section 5 followed in the order of the modules' weight.

Next:

1. `Observers` once something notifies them.
2. The buffer arithmetic of `Utils` and Base64 as functions.
